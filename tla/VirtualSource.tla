--------------------------- MODULE VirtualSource ---------------------------
(***************************************************************************)
(* An output of the hub that is the source of another: virtual_source.rs   *)
(* and virtual_source/camera.rs.  It is a client of the inner output, one  *)
(* among others; a camera also remembers which exposure it acknowledged,   *)
(* and takes no other's frame for it.                                      *)
(*                                                                         *)
(* The inner output is what its modules promise (CameraAcquisition,        *)
(* TypedCommands): one exposure at a time, commanded by the session that   *)
(* owns it, and a session is of use on the transport that it found.        *)
(* Members and their parameters are left out.                              *)
(***************************************************************************)
EXTENDS Naturals, TLC

CONSTANTS
  MaxAcquisitions,   \* bound on the exposures of the inner camera
  MaxInnerGens       \* bound on the transports of the inner source

ASSUME VirtualAssumption == MaxAcquisitions \in Nat /\ MaxInnerGens \in Nat

VARIABLES
  virt,    \* VirtualBackend: its client session, its acquisition and pin
  inner,   \* the inner source and, for a camera, its supervisor
  vop,     \* the operation of the outer actor that is under way
  vhist    \* what was commanded and shown

vsVars == <<virt, inner, vop, vhist>>

NoOp == [op |-> "none", pc |-> "idle", seen |-> 0]
NoClient == [client |-> "none", gen |-> 0, acq |-> 0, pin |-> 0]

VsInit ==
  /\ \E kind \in {"camera", "typed", "plain"} : virt = [kind |-> kind] @@ NoClient
  /\ inner = [up |-> TRUE, gen |-> 1, active |-> 0, owner |-> "none", phase |-> "idle",
              image |-> 0, next |-> 1]
  /\ vop = NoOp
  /\ vhist = [foreign |-> FALSE]

-----------------------------------------------------------------------------
(* The inner output *)

\* connected: its session still has the transport it was made on.
SessionHolds == virt.client = "ready" /\ inner.up /\ inner.gen = virt.gen

Begun(owner) ==
  [inner EXCEPT !.active = inner.next, !.next = @ + 1, !.owner = owner, !.phase = "starting"]
Over == [inner EXCEPT !.active = 0, !.owner = "none", !.phase = "idle"]

\* Others expose too, and stop what is theirs.
InnerOther ==
  /\ inner.up /\ virt.kind = "camera"
  /\ \/ inner.active = 0 /\ inner.next <= MaxAcquisitions /\ inner' = Begun("other")
     \/ inner.owner = "other" /\ inner.phase = "exposing" /\ inner' = Over
  /\ UNCHANGED <<virt, vop, vhist>>

\* What the caller of start, when it is still there, hears of it.
Heard(answer) ==
  IF vop.op = "start" /\ vop.pc = "sent" /\ vop.seen = inner.active
  THEN [vop EXCEPT !.pc = answer] ELSE vop

\* The supervisor acknowledges an exposure, ends it or does not know of it.
InnerProceeds ==
  /\ inner.active # 0
  /\ \/ /\ inner.phase = "starting" /\ inner.up
        /\ \/ inner' = [inner EXCEPT !.phase = "exposing", !.image = 0] /\ vop' = Heard("acknowledged")
           \/ inner' = Over /\ vop' = Heard("refused")
     \/ /\ inner.phase \in {"exposing", "stopping"} /\ inner.up
        /\ inner' = [Over EXCEPT !.image = inner.active] /\ UNCHANGED vop
     \/ inner.phase = "aborting" /\ inner' = Over /\ UNCHANGED vop
     \/ /\ inner.phase # "uncertain" /\ inner' = [inner EXCEPT !.phase = "uncertain"]
        /\ vop' = Heard("refused")
     \/ inner.phase = "uncertain" /\ inner' = Over /\ UNCHANGED vop    \* abandoned
  /\ UNCHANGED <<virt, vhist>>

\* The transport is lost, with the image that came by it, and made again.
InnerTransport ==
  /\ \/ inner.up /\ inner' = [inner EXCEPT !.up = FALSE]
     \/ /\ ~inner.up /\ inner.gen < MaxInnerGens
        /\ inner' = [inner EXCEPT !.up = TRUE, !.gen = @ + 1, !.image = 0,
                                  !.phase = IF inner.active = 0 THEN @ ELSE "uncertain"]
  /\ vop' = IF inner'.phase = "uncertain" THEN Heard("refused") ELSE vop
  /\ UNCHANGED <<virt, vhist>>

-----------------------------------------------------------------------------
(* The connection *)

TypedProxy == virt.kind # "plain"

\* connect_step: one supervised connection is begun, and then asked after.
VsConnectStep ==
  /\ vop = NoOp /\ virt.client = "none"
  /\ virt' = [virt EXCEPT !.client = "changing"]
  /\ UNCHANGED <<inner, vop, vhist>>

VsInnerConnects ==
  /\ virt.client = "changing"
  /\ \/ virt' = [virt EXCEPT !.client = "failed"]
     \/ inner.up /\ virt' = [virt EXCEPT !.client = "ready", !.gen = inner.gen]
  /\ UNCHANGED <<inner, vop, vhist>>

\* disconnect, reset and Drop. What the session had begun goes on without it.
VsClose ==
  /\ virt.client # "none"
  /\ virt' = [kind |-> virt.kind] @@ NoClient
  /\ inner' = [inner EXCEPT !.owner = IF @ = "me" THEN "past" ELSE @]
  /\ vop' = NoOp /\ UNCHANGED vhist

\* connection: a typed proxy adopts no other transport than its session's.
Connection == virt.client = "ready" /\ (TypedProxy => SessionHolds)

-----------------------------------------------------------------------------
(* Reading and writing *)

\* read and write of every other device: a Get or a Put of the inner output,
\* which its session carries out on its own transport only.
VsForward ==
  /\ vop = NoOp /\ Connection
  /\ vop' = [NoOp EXCEPT !.op = "forward", !.pc = "sent"]
  /\ UNCHANGED <<virt, inner, vhist>>

VsForwarded ==
  /\ vop.op \in {"forward", "sample"}
  /\ vop' = NoOp /\ UNCHANGED <<virt, inner, vhist>>

\* sample: what the inner session has cached; a key that has none is an error
\* of that key.
VsSample ==
  /\ vop = NoOp /\ Connection
  /\ vop' = [NoOp EXCEPT !.op = "sample", !.pc = "sent"]
  /\ UNCHANGED <<virt, inner, vhist>>

\* The outer actor drops the operation; what was sent goes on.
VsDropped ==
  /\ vop # NoOp /\ vop' = NoOp
  /\ UNCHANGED <<virt, inner, vhist>>

-----------------------------------------------------------------------------
(* The virtual camera *)

\* startexposure: admitted by the supervisor, or refused as busy.
VsStart ==
  /\ virt.kind = "camera" /\ vop = NoOp /\ Connection
  /\ inner.active = 0 /\ inner.next <= MaxAcquisitions
  /\ inner' = Begun("me")
  /\ vop' = [op |-> "start", pc |-> "sent", seen |-> inner.next]
  /\ UNCHANGED <<virt, vhist>>

\* Its acknowledgement names the acquisition that this camera has from now on.
VsStarted ==
  /\ vop.op = "start" /\ vop.pc # "sent"
  /\ virt' = IF vop.pc = "acknowledged" THEN [virt EXCEPT !.acq = vop.seen, !.pin = 0] ELSE virt
  /\ vop' = NoOp /\ UNCHANGED <<inner, vhist>>

\* Nothing is stopped but the exposure that this camera acknowledged.
CommandsOwn(active) == active \in {0, virt.acq}

VsCommand(op) ==
  /\ virt.kind = "camera" /\ vop = NoOp /\ Connection
  /\ CommandsOwn(inner.active)
  /\ vop' = [op |-> op, pc |-> "checked", seen |-> 0]
  /\ UNCHANGED <<virt, inner, vhist>>

\* command: the supervisor admits the owner's, and a camera at rest needs none.
VsAdmitted ==
  /\ vop.pc = "checked" /\ vop.op \in {"abort", "stop"}
  /\ IF SessionHolds /\ inner.owner = "me" /\ inner.phase = "exposing"
     THEN /\ inner' = [inner EXCEPT !.phase = IF vop.op = "abort" THEN "aborting" ELSE "stopping"]
          /\ vop' = [vop EXCEPT !.pc = "sent", !.seen = inner.active]
          /\ vhist' = [vhist EXCEPT !.foreign = @ \/ inner.active # virt.acq]
     ELSE /\ vop' = IF SessionHolds /\ inner.active = 0 THEN [vop EXCEPT !.pc = "sent"] ELSE NoOp
          /\ UNCHANGED <<inner, vhist>>
  /\ UNCHANGED virt

\* An abort that succeeded leaves this camera without an exposure.
VsCommanded ==
  /\ vop.pc = "sent" /\ vop.op \in {"abort", "stop"}
  /\ vop.seen # 0 => inner.active # vop.seen
  /\ virt' \in {virt, IF vop.op = "abort" THEN [virt EXCEPT !.acq = 0, !.pin = 0] ELSE virt}
  /\ vop' = NoOp /\ UNCHANGED <<inner, vhist>>

\* pin, in imageready, the image and its metadata: the status first.
CompletedImage == IF inner.up THEN inner.image ELSE 0

VsPin ==
  /\ virt.kind = "camera" /\ vop = NoOp /\ Connection
  /\ virt.pin = 0 /\ virt.acq # 0 /\ CompletedImage = virt.acq
  /\ vop' = [op |-> "pin", pc |-> "seen", seen |-> 0]
  /\ UNCHANGED <<virt, inner, vhist>>

\* Then the image, which another exposure may have replaced in between.
PinsOnly(image) == image = virt.acq

VsPinned ==
  /\ vop.op = "pin"
  /\ virt' = IF SessionHolds /\ inner.image # 0 /\ PinsOnly(inner.image)
             THEN [virt EXCEPT !.pin = inner.image] ELSE virt
  /\ vop' = NoOp /\ UNCHANGED <<inner, vhist>>

VsNext ==
  \/ InnerOther \/ InnerProceeds \/ InnerTransport
  \/ VsConnectStep \/ VsInnerConnects \/ VsClose \/ VsForward \/ VsForwarded \/ VsSample
  \/ VsDropped \/ VsStart \/ VsStarted \/ VsAdmitted \/ VsCommanded \/ VsPin \/ VsPinned
  \/ \E op \in {"abort", "stop"} : VsCommand(op)

-----------------------------------------------------------------------------
(* The frame that a virtual camera shows is that of the exposure it last   *)
(* acknowledged, though others expose between its requests; it ends no     *)
(* exposure but that one, not even one it began and was not told of; and a *)
(* closed backend remembers none (virtual_source.rs close;                 *)
(* virtual_source/camera.rs pin, write).                                   *)
VirtualHonest ==
  /\ virt.pin \in {0, virt.acq}
  /\ ~vhist.foreign
  /\ virt.client = "none" => virt.pin = 0 /\ virt.acq = 0
=============================================================================
