---------------------------- MODULE CameraImages ----------------------------
(***************************************************************************)
(* The hub's camera images: the memory budget that every frame, transport  *)
(* chunk and transfer buffer is charged to, the admission and adoption of  *)
(* native frames, the readers of ImageBytes and of JSON images, and the    *)
(* export of a retained image to a local client.                           *)
(*                                                                         *)
(* Tasks run on several threads; a step is what a task does between two    *)
(* awaits, and the budget's compare-and-swap loop is two steps. A reader   *)
(* may be dropped at any await; a JSON decoder that already runs on a      *)
(* blocking thread goes on until it looks at its flag. Sizes are in units  *)
(* of a transport chunk.                                                   *)
(***************************************************************************)
EXTENDS Integers, Sequences, FiniteSets, FiniteSetsExt

CONSTANTS
  ImTasks,       \* the tasks
  ImBudget,      \* ImageBudget::maximum
  ImDecoders,    \* the permits of DECODERS
  MaxImages      \* bound: images published

ASSUME ImAssumption ==
  IsFiniteSet(ImTasks) /\ ImBudget \in Nat \ {0} /\ ImDecoders \in Nat \ {0} /\ MaxImages \in Nat

VARIABLES
  imUsed,     \* BudgetInner.used
  imTask,     \* what each task is doing
  imImage,    \* the images that someone still holds, by their numbers
  imShown,    \* the image that the source retains, 0 when none
  imPermits   \* the free permits of DECODERS

imVars == <<imUsed, imTask, imImage, imShown, imPermits>>

ImageSize == 2
ChunkSize == 1
MetadataSize == 1
HeaderSize == 1
MaxChunks == 2

---------------------------------------------------------------------------
(* Layout. An element of a Width x Height x Planes image is named by its   *)
(* coordinates; sensor rows are stored plane, x, y (fastest first), an     *)
(* ASCOM array plane, y, x.                                                *)

Width == 2
Height == 3
Planes == 2
Elements == Width * Height * Planes
ChunkElements == 5

Stored(order, k) ==
  LET plane == k % Planes  pixel == k \div Planes
  IN IF order = "rows" THEN <<pixel % Width, pixel \div Width, plane>>
     ELSE <<pixel \div Height, pixel % Height, plane>>

(* ImageDescriptor::ascom_offset: where storage has an element of the      *)
(* ASCOM order.                                                            *)
AscomOffset(order, element) ==
  IF order = "ascom" THEN element
  ELSE LET plane == element % Planes  pixel == element \div Planes
           x == pixel \div Height  y == pixel % Height
       IN (y * Width + x) * Planes + plane

(* TransferBuffer::fill: the next chunk of an export. *)
Least(a, b) == IF a < b THEN a ELSE b
Fill(order, offset) ==
  [i \in 1 .. Least(ChunkElements, Elements - offset) |->
     Stored(order, AscomOffset(order, offset + i - 1))]

---------------------------------------------------------------------------
(* JSON bodies. The first pass derives a shape, the second one fills       *)
(* exactly that shape; nothing else is published.                          *)

Leaf == [leaf |-> TRUE, kids |-> <<>>]
Node(kids) == [leaf |-> FALSE, kids |-> kids]
BadShape == [rank |-> -1, dimensions |-> <<0, 0, 0>>, elements |-> 0]

RECURSIVE Sum(_, _)
Sum(f, n) == IF n = 0 THEN 0 ELSE f[n] + Sum(f, n - 1)

(* ShapeSeed: no empty dimension, no ragged one, at most three of them. *)
RECURSIVE ShapeOf(_, _)
ShapeOf(v, depth) ==
  IF v.leaf THEN [rank |-> 0, dimensions |-> <<0, 0, 0>>, elements |-> 1]
  ELSE LET n == Len(v.kids)
           shapes == [i \in 1..n |-> ShapeOf(v.kids[i], depth + 1)]
       IN IF depth >= 3 \/ n = 0 \/ (\E i \in 1..n : shapes[i] # shapes[1])
            THEN BadShape
          ELSE IF shapes[1].rank < 0 THEN BadShape
          ELSE [rank |-> shapes[1].rank + 1,
                dimensions |-> <<n, shapes[1].dimensions[1], shapes[1].dimensions[2]>>,
                elements |-> Sum([i \in 1..n |-> shapes[i].elements], n)]

(* Envelope::descriptor: the stated rank must be the array's. *)
Described(body) ==
  LET shape == ShapeOf(body.value, 0)
  IN /\ body.transaction /\ ~body.error
     /\ shape.rank \in {2, 3} /\ shape.rank = body.rank

(* ArraySeed: each dimension has exactly its elements. *)
RECURSIVE Fits(_, _)
Fits(v, dimensions) ==
  IF dimensions = <<>> THEN v.leaf
  ELSE /\ ~v.leaf /\ Len(v.kids) = Head(dimensions)
       /\ \A i \in 1 .. Len(v.kids) : Fits(v.kids[i], Tail(dimensions))
Pixels(body) ==
  LET shape == ShapeOf(body.value, 0)
  IN Fits(body.value, SubSeq(shape.dimensions, 1, shape.rank))

(* What a source may answer. *)
Row(n) == Node([i \in 1..n |-> Leaf])
Body(value, rank) == [value |-> value, rank |-> rank, transaction |-> TRUE, error |-> FALSE]
Flat == Body(Node(<<Row(2), Row(2)>>), 2)
Deep == Body(Node(<<Node(<<Row(1)>>), Node(<<Row(1)>>)>>), 3)
Bodies ==
  {Flat, Deep, Body(Node(<<Row(1), Row(2)>>), 2), Body(Node(<<Row(2), Row(2)>>), 3),
   Body(Node(<<Row(0)>>), 2), Body(Leaf, 2),
   [Flat EXCEPT !.transaction = FALSE], [Flat EXCEPT !.error = TRUE]}

---------------------------------------------------------------------------
(* The budget.                                                             *)

Resting == [kind |-> "none", pc |-> "none", seen |-> 0, want |-> 0, then |-> "none",
            held |-> 0, chunks |-> 0, flag |-> FALSE, permit |-> FALSE, image |-> 0,
            request |-> 0, body |-> Flat, out |-> <<>>]

Reserving(task, want, then) == [task EXCEPT !.pc = "load", !.want = want, !.then = then]

(* ImageBudget::reserve: a load, then compare-and-swap until the value is  *)
(* the one that was loaded, or no longer fits.                             *)
Load(t) ==
  /\ imTask[t].pc = "load"
  /\ imTask' = [imTask EXCEPT ![t].pc = "swap", ![t].seen = imUsed]
  /\ UNCHANGED <<imUsed, imImage, imShown, imPermits>>

(* Fault: the value loaded is taken for the value in the budget. *)
SwappedBlind(seen, used) == TRUE
Swapped(seen, used) == seen = used

(* Drop of everything a task holds: reservations, a permit, a pin. *)
Unpinned(images, id, pin) ==
  IF id \notin DOMAIN images THEN images
  ELSE LET left == images[id].pins \ {pin}
       IN IF left = {} THEN [i \in DOMAIN images \ {id} |-> images[i]]
          ELSE [images EXCEPT ![id].pins = left]
Freed(images, id, pin) ==
  IF id \in DOMAIN images /\ images[id].pins = {pin} THEN images[id].size ELSE 0
Dropped(t) ==
  LET task == imTask[t]
  IN /\ imTask' = [imTask EXCEPT ![t] = Resting]
     /\ imUsed' = imUsed - task.held - Freed(imImage, task.image, t)
     /\ imImage' = Unpinned(imImage, task.image, t)
     /\ imPermits' = imPermits + (IF task.permit THEN 1 ELSE 0)
     /\ UNCHANGED imShown

Swap(t) ==
  LET task == imTask[t]  next == task.seen + task.want
  IN /\ task.pc = "swap"
     /\ \/ next > ImBudget /\ Dropped(t)
        \/ /\ next <= ImBudget /\ Swapped(task.seen, imUsed)
           /\ imUsed' = next
           /\ imTask' = [imTask EXCEPT ![t].pc = task.then, ![t].held = @ + task.want]
           /\ UNCHANGED <<imImage, imShown, imPermits>>
        \/ /\ next <= ImBudget /\ ~Swapped(task.seen, imUsed)
           /\ imTask' = [imTask EXCEPT ![t].seen = imUsed]
           /\ UNCHANGED <<imUsed, imImage, imShown, imPermits>>

---------------------------------------------------------------------------
(* A finished image takes the reservation over from its task and becomes   *)
(* the one the source retains; the image before goes when no export holds  *)
(* it. `excess` is what the task held beyond the image.                    *)

NewImage == imShown + 1
Published(t, size, order, cells, leaves) ==
  LET task == imTask[t]  excess == task.held - size
      image == [size |-> size, order |-> order, pins |-> {"source"},
                cells |-> cells, leaves |-> leaves]
      kept == Unpinned(imImage, imShown, "source")
  IN /\ NewImage <= MaxImages
     /\ imImage' = [i \in DOMAIN kept \cup {NewImage} |->
                      IF i = NewImage THEN image ELSE kept[i]]
     /\ imShown' = NewImage
     /\ imUsed' = imUsed - excess - Freed(imImage, imShown, "source")
     /\ imTask' = [imTask EXCEPT ![t] = Resting]
     /\ imPermits' = imPermits + (IF task.permit THEN 1 ELSE 0)

Begin(t, kind, task) ==
  /\ imTask[t].pc = "none"
  /\ imTask' = [imTask EXCEPT ![t] = [task EXCEPT !.kind = kind]]
  /\ UNCHANGED <<imUsed, imImage, imShown, imPermits>>

(* ImageBudget::reserve_native admits a capture with its staging;          *)
(* NativeFramePermit::adopt keeps the pixels and the metadata, or fails    *)
(* when the frame is another one or its metadata too long.                 *)
ReserveNative(t) ==
  Begin(t, "native", Reserving(Resting, 2 * ImageSize + MetadataSize + HeaderSize, "captured"))
Adopt(t) ==
  /\ imTask[t].pc = "captured"
  /\ \/ Published(t, ImageSize + MetadataSize, "rows", Elements, Elements)
     \/ Dropped(t)

(* read_imagebytes_matching: a valid header, then the exact body. *)
ReadImageBytes(t) == Begin(t, "bytes", Reserving(Resting, ImageSize, "body"))
ImageBody(t) ==
  /\ imTask[t].pc = "body"
  /\ \/ Published(t, ImageSize, "ascom", Elements, Elements)
     \/ Dropped(t)

(* read_json_image: one of the decoders, then the body chunk by chunk.     *)
(* A short reply is read without the budget first, so that an error is     *)
(* reported even when the budget is full.                                  *)
ReadJsonImage(t) ==
  \E b \in Bodies : Begin(t, "json", [Resting EXCEPT !.pc = "admission", !.body = b])
AdmitDecoder(t) ==
  /\ imTask[t].pc = "admission" /\ imPermits > 0
  /\ imPermits' = imPermits - 1
  /\ imTask' = [imTask EXCEPT ![t].pc = "reading", ![t].permit = TRUE]
  /\ UNCHANGED <<imUsed, imImage, imShown>>
ShortReply(t) ==
  /\ imTask[t].pc = "reading" /\ imTask[t].chunks = 0
  /\ ~Described(imTask[t].body)
  /\ Dropped(t)
StageChunk(t) ==
  /\ imTask[t].pc = "reading" /\ imTask[t].chunks < MaxChunks
  /\ imTask' = [imTask EXCEPT ![t] = [Reserving(@, ChunkSize, "reading")
                                        EXCEPT !.chunks = @ + 1]]
  /\ UNCHANGED <<imUsed, imImage, imShown, imPermits>>
SpawnDecoder(t) ==
  /\ imTask[t].pc = "reading" /\ imTask[t].chunks > 0
  /\ imTask' = [imTask EXCEPT ![t].pc = "spawned"]
  /\ UNCHANGED <<imUsed, imImage, imShown, imPermits>>

(* decode on a blocking thread: shape, allocation, pixels; the flag is     *)
(* looked at around each of them. The reader that waits takes the image.   *)
DecodeShape(t) ==
  /\ imTask[t].pc = "spawned"
  /\ IF imTask[t].flag \/ ~Described(imTask[t].body) THEN Dropped(t)
     ELSE /\ imTask' = [imTask EXCEPT ![t] = Reserving(@, ImageSize, "pixels")]
          /\ UNCHANGED <<imUsed, imImage, imShown, imPermits>>
DecodePixels(t) ==
  LET body == imTask[t].body
      shape == ShapeOf(body.value, 0)
      cells == shape.dimensions[1] * shape.dimensions[2]
                 * (IF shape.rank = 3 THEN shape.dimensions[3] ELSE 1)
  IN /\ imTask[t].pc = "pixels"
     /\ \/ imTask[t].flag /\ Dropped(t)
        \/ /\ ~imTask[t].flag
           /\ IF Pixels(body) THEN Published(t, ImageSize, "ascom", cells, shape.elements)
              ELSE Dropped(t)

(* ImageRequest: a client asks for the image it was told of. *)
Ask(t) ==
  /\ imShown > 0
  /\ Begin(t, "export", [Resting EXCEPT !.pc = "asked", !.request = imShown])

(* prepare and prepare_retained: the image that is retained is pinned when *)
(* it is the one asked for, and the buffer reserved before a manifest is   *)
(* answered.                                                               *)
Asked(request) == request = imShown
Prepare(t) ==
  /\ imTask[t].pc = "asked"
  /\ IF /\ Asked(imTask[t].request) /\ imShown \in DOMAIN imImage
        /\ "source" \in imImage[imShown].pins
       THEN /\ imTask' = [imTask EXCEPT ![t] = [Reserving(@, ChunkSize, "write")
                                                 EXCEPT !.image = imShown]]
            /\ imImage' = [imImage EXCEPT ![imShown].pins = @ \cup {t}]
            /\ UNCHANGED <<imUsed, imShown, imPermits>>
       ELSE Dropped(t)

(* PreparedImage::write, one chunk; download_selected reads the same body  *)
(* and takes it only when it is complete.                                  *)
Write(t) ==
  LET task == imTask[t]
  IN /\ task.pc = "write"
     /\ imTask' = [imTask EXCEPT
          ![t].out = @ \o Fill(imImage[task.image].order, Len(task.out)),
          ![t].pc = IF Len(task.out) + ChunkElements >= Elements THEN "sent" ELSE "write"]
     /\ UNCHANGED <<imUsed, imImage, imShown, imPermits>>
Sent(t) == imTask[t].pc = "sent" /\ Dropped(t)

(* A dropped future: a deadline, a cancelled source actor, a closed        *)
(* stream. Decoding that runs only has its flag set; decoding that is      *)
(* still queued is aborted. A reservation is not an await.                 *)
Cancel(t) ==
  \/ /\ imTask[t].pc \in {"captured", "body", "admission", "reading", "write"}
     /\ Dropped(t)
  \/ /\ imTask[t].pc = "spawned" /\ ~imTask[t].flag /\ Dropped(t)
  \/ /\ imTask[t].then = "pixels" \/ imTask[t].pc = "spawned"
     /\ ~imTask[t].flag
     /\ imTask' = [imTask EXCEPT ![t].flag = TRUE]
     /\ UNCHANGED <<imUsed, imImage, imShown, imPermits>>

(* The source forgets its image: disconnect, or the next capture. *)
Forget ==
  /\ imShown \in DOMAIN imImage /\ "source" \in imImage[imShown].pins
  /\ imUsed' = imUsed - Freed(imImage, imShown, "source")
  /\ imImage' = Unpinned(imImage, imShown, "source")
  /\ UNCHANGED <<imTask, imShown, imPermits>>

ImInit ==
  /\ imUsed = 0 /\ imShown = 0 /\ imPermits = ImDecoders
  /\ imTask = [t \in ImTasks |-> Resting]
  /\ imImage = [i \in {} |-> 0]

ImNext ==
  \/ Forget
  \/ \E t \in ImTasks :
       \/ Load(t) \/ Swap(t) \/ ReserveNative(t) \/ Adopt(t)
       \/ ReadImageBytes(t) \/ ImageBody(t)
       \/ ReadJsonImage(t) \/ AdmitDecoder(t) \/ ShortReply(t) \/ StageChunk(t)
       \/ SpawnDecoder(t) \/ DecodeShape(t) \/ DecodePixels(t)
       \/ Ask(t) \/ Prepare(t) \/ Write(t) \/ Sent(t) \/ Cancel(t)

ImSpec == ImInit /\ [][ImNext]_imVars

---------------------------------------------------------------------------
(* Whatever is cancelled, fails or overlaps, the budget is exactly what    *)
(* captures, readers, decoders and exports hold, never more than its       *)
(* maximum, and a decoder's permit is held or free; so a budget that is    *)
(* full becomes free again (image.rs reserve, shrink_to, Drop; json_image  *)
(* CancelOnDrop).                                                          *)
BudgetIsExact ==
  /\ imUsed = MapThenSumSet(LAMBDA t : imTask[t].held, ImTasks)
                + MapThenSumSet(LAMBDA i : imImage[i].size, DOMAIN imImage)
  /\ imUsed <= ImBudget
  /\ imPermits + Cardinality({t \in ImTasks : imTask[t].permit}) = ImDecoders

(* An export that completes has delivered every element of the image that  *)
(* was asked for, in ASCOM order, although newer images replaced it        *)
(* meanwhile; and an image decoded from JSON has exactly the elements that *)
(* were sent (image.rs ascom_offset and fill; ipc_image; json_image).      *)
ExportIsWhole ==
  /\ \A t \in ImTasks : imTask[t].pc = "sent" =>
       /\ imTask[t].out = [i \in 1..Elements |-> Stored("ascom", i - 1)]
       /\ imTask[t].image = imTask[t].request /\ imTask[t].image \in DOMAIN imImage
  /\ \A i \in DOMAIN imImage : imImage[i].cells = imImage[i].leaves

ImagesHonest == BudgetIsExact /\ ExportIsWhole
=============================================================================
