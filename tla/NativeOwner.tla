------------------------------ MODULE NativeOwner ------------------------------
(***************************************************************************)
(* The owner of one native camera: crates/regain-hub/src/camera/           *)
(* native_owner.rs.  One core session is kept behind an engine lock.  An   *)
(* operation is admitted under the state lock, gets a generation and an id *)
(* and runs in a task of its own that outlives its caller; after every     *)
(* await the task looks whether it is still the current one.  A task       *)
(* number stands for the identifiers it was given: an operation that opens *)
(* a generation (connect, close, reset) also names that generation.        *)
(***************************************************************************)
EXTENDS Naturals

CONSTANTS MaxNativeOps      \* operations admitted in a behaviour

ASSUME NativeOpsAssumption == MaxNativeOps \in Nat \ {0}

VARIABLES nst,              \* State, behind the state lock
          ntask,            \* the retained tasks, by their identifiers
          neng,             \* the task that holds the engine lock, or 0
          nses,             \* the core session: has it a worker, opened when
          ncall             \* the caller of abort; what it was promised

noVars == <<nst, ntask, neng, nses, ncall>>

Ops == 1 .. MaxNativeOps

NoTask == [kind |-> "none", gen |-> 0, pc |-> "unused", cancelled |-> FALSE,
           aborting |-> FALSE, got |-> "none"]

NoInit ==
  /\ nst = [gen |-> 0, conn |-> FALSE, pend |-> 0, cool |-> 0, img |-> 0,
            last |-> 0, err |-> "none"]
  /\ ntask = [t \in Ops |-> NoTask]
  /\ neng = 0
  /\ nses = [open |-> FALSE, by |-> 0]
  /\ ncall = [waits |-> 0, told |-> {}, lost |-> FALSE]

Alive(t) == ntask[t].pc \notin {"unused", "over"}
NextOp == CHOOSE t \in Ops \cup {MaxNativeOps + 1} :
            /\ t \in Ops => ntask[t].pc = "unused"
            /\ \A u \in Ops : u < t => ntask[u].pc # "unused"
CanAdmit == NextOp \in Ops

\* Is the task the one whose marker State holds?
IsCurrent(t) == nst.gen = ntask[t].gen /\ nst.pend = t
IsCurrentCooling(t) == nst.gen = ntask[t].gen /\ nst.cool = t

PublicationPending ==
  nst.cool # 0 \/ (nst.pend # 0 /\ ntask[nst.pend].kind # "refresh")

\* What image(), image_ready and wait() serve.
ServedImage == nst.conn /\ ~PublicationPending /\ nst.err = "none" /\ nst.img # 0

Admitted(kind, gen) ==
  [ntask EXCEPT ![NextOp] = [NoTask EXCEPT !.kind = kind, !.gen = gen,
                                           !.pc = "queued"]]

-----------------------------------------------------------------------------
(* Admission, each under the state lock *)

NoConnect ==
  /\ CanAdmit
  /\ nst.err # "uncertain" /\ ~nst.conn /\ nst.cool = 0 /\ nst.pend = 0
  /\ nst' = [nst EXCEPT !.gen = NextOp, !.pend = NextOp, !.err = "none",
                        !.img = 0, !.last = 0]
  /\ ntask' = Admitted("connect", NextOp)
  /\ UNCHANGED <<neng, nses, ncall>>

Unblocked == nst.conn /\ nst.err # "uncertain" /\ nst.pend = 0 /\ nst.cool = 0

NoStart ==
  /\ CanAdmit /\ Unblocked
  /\ nst' = [nst EXCEPT !.pend = NextOp, !.img = 0, !.last = NextOp,
                        !.err = "none"]
  /\ ntask' = Admitted("capture", nst.gen)
  /\ UNCHANGED <<neng, nses, ncall>>

\* A gain or offset write, the restoration of a worker an abort retired, and
\* a telemetry refresh.
NoControl ==
  /\ CanAdmit /\ Unblocked
  /\ \E kind \in {"set", "prepare", "refresh"} :
       /\ kind = "prepare" => nst.err = "none" /\ ~nses.open
       /\ kind = "refresh" => nses.open
       /\ nst' = [nst EXCEPT !.pend = NextOp]
       /\ ntask' = Admitted(kind, nst.gen)
  /\ UNCHANGED <<neng, nses, ncall>>

\* A cooler command runs beside a capture, whose owner serves its mailbox.
CoolingAdmissible ==
  /\ nst.cool = 0
  /\ nst.pend # 0 => /\ ntask[nst.pend].kind = "capture"
                     /\ ~ntask[nst.pend].aborting

NoSetCooling ==
  /\ CanAdmit
  /\ nst.conn /\ nst.err # "uncertain" /\ CoolingAdmissible
  /\ nst' = [nst EXCEPT !.cool = NextOp]
  /\ ntask' = Admitted("cool", nst.gen)
  /\ UNCHANGED <<neng, nses, ncall>>

NoAbort ==
  /\ ncall.waits = 0
  /\ nst.conn /\ nst.err # "uncertain" /\ nst.cool = 0 /\ nst.pend # 0
  /\ ntask[nst.pend].kind = "capture"
  /\ ntask' = [ntask EXCEPT ![nst.pend].aborting = TRUE,
                            ![nst.pend].cancelled = TRUE]
  /\ ncall' = [ncall EXCEPT !.waits = nst.pend]
  /\ UNCHANGED <<nst, neng, nses>>

\* The caller of abort hears the end of the capture, or leaves.
NoAbortEnds ==
  /\ ncall.waits # 0
  /\ \/ /\ ~IsCurrent(ncall.waits)
        /\ LET ok == nst.gen = ntask[ncall.waits].gen /\ nst.conn
                     /\ nst.err = "none" IN
             ncall' = [ncall EXCEPT !.waits = 0,
                         !.told = IF ok THEN @ \cup {ncall.waits} ELSE @]
     \/ ncall' = [ncall EXCEPT !.waits = 0]
  /\ UNCHANGED <<nst, ntask, neng, nses>>

Cancelled(ts) ==
  [t \in Ops |-> IF t \in ts THEN [ntask[t] EXCEPT !.cancelled = TRUE]
                             ELSE ntask[t]]

\* close and reset: a new generation at once, its session closed by a task.
NoRetire ==
  /\ CanAdmit
  /\ nst' = [gen |-> NextOp, conn |-> FALSE, pend |-> NextOp, cool |-> 0,
             img |-> 0, last |-> 0, err |-> "none"]
  /\ ntask' = [Cancelled({nst.pend, nst.cool}) EXCEPT
                 ![NextOp] = [NoTask EXCEPT !.kind = "close", !.gen = NextOp,
                                            !.pc = "queued"]]
  /\ UNCHANGED <<neng, nses, ncall>>

-----------------------------------------------------------------------------
(* The retained tasks *)

Step(t, pc) == [ntask EXCEPT ![t].pc = pc]

\* The engine is got; a task that is no longer current gives it back at once.
\* Cooling looks at the error too, and serves its mailbox if it may.
NoLocks(t) ==
  /\ ntask[t].pc = "queued" /\ neng = 0
  /\ IF IsCurrent(t)
       THEN /\ neng' = t
            /\ ntask' = Step(t, IF ntask[t].kind = "connect" THEN "closing"
                                ELSE "working")
       ELSE IF ntask[t].kind = "cool" /\ IsCurrentCooling(t) /\ nst.conn
               /\ nst.err # "uncertain"
       THEN neng' = t /\ ntask' = Step(t, "working")
       ELSE /\ ntask' = IF ntask[t].kind = "cool"
                          THEN [ntask EXCEPT ![t].pc = "publish",
                                             ![t].got = "withdrawn"]
                          ELSE Step(t, "over")
            /\ neng' = 0
  /\ UNCHANGED <<nst, nses, ncall>>

\* A setting's caller leaves, its token is cancelled or its deadline passes
\* before the engine is got; a cooler command expires or is withdrawn.
NoNotDispatched(t) ==
  /\ ntask[t].pc = "queued" /\ ntask[t].kind \in {"set", "cool"}
  /\ ntask' = [ntask EXCEPT ![t].pc = "publish", ![t].got = "withdrawn"]
  /\ UNCHANGED <<nst, neng, nses, ncall>>

\* connect() first closes the session it finds.
NoCloses(t) ==
  /\ ntask[t].pc = "closing" /\ neng = t
  /\ nses' = [open |-> FALSE, by |-> 0]
  /\ IF IsCurrent(t) THEN ntask' = Step(t, "working") /\ neng' = t
                     ELSE ntask' = Step(t, "over") /\ neng' = 0
  /\ UNCHANGED <<nst, ncall>>

\* What the core session can answer, and whether it keeps its worker.
Answers(kind) ==
  CASE kind = "capture" -> {"image", "failed", "uncertain"}
    [] kind = "close"   -> {"ok"}
    [] kind = "set"     -> {"ok", "failed", "uncertain"}
    [] kind = "cool"    -> {"ok", "failed", "uncertain"}
    [] OTHER            -> {"ok", "failed"}
KeepsWorker(kind, got) ==
  CASE kind = "close" -> {FALSE}
    [] kind = "connect" -> {got = "ok"}
    [] kind = "capture" -> BOOLEAN
    [] OTHER -> IF got = "ok" THEN {kind = "prepare" \/ nses.open}
                ELSE IF got = "uncertain" THEN {FALSE} ELSE {FALSE, nses.open}

NoWorks(t) ==
  /\ ntask[t].pc = "working" /\ neng = t
  /\ \E got \in Answers(ntask[t].kind) :
       \E open \in KeepsWorker(ntask[t].kind, got) :
         /\ nses' = IF ~open THEN [open |-> FALSE, by |-> 0]
                    ELSE IF nses.open THEN nses
                    ELSE [open |-> TRUE, by |-> ntask[t].gen]
         /\ ntask' = [ntask EXCEPT ![t].got = got,
                        ![t].pc = IF ntask[t].kind \in {"connect", "capture"}
                                  THEN "check" ELSE "publish"]
  /\ neng' = IF ntask[t].kind \in {"set", "cool"} THEN 0 ELSE neng
  /\ UNCHANGED <<nst, ncall>>

\* The capture that holds the engine serves the cooler's mailbox.
NoServedByCapture(t) ==
  /\ ntask[t].kind = "cool" /\ ntask[t].pc = "queued"
  /\ neng # 0 /\ ntask[neng].kind = "capture" /\ ntask[neng].pc = "working"
  /\ \E got \in {"ok", "failed", "uncertain"} :
       ntask' = [ntask EXCEPT ![t].got = got, ![t].pc = "publish"]
  /\ UNCHANGED <<nst, neng, nses, ncall>>

\* A connection or a capture that was retired meanwhile closes its worker.
ClosesRetired(t) == IF IsCurrent(t) THEN nses ELSE [open |-> FALSE, by |-> 0]

NoChecks(t) ==
  /\ ntask[t].pc = "check" /\ neng = t
  /\ nses' = ClosesRetired(t)
  /\ IF IsCurrent(t) THEN ntask' = Step(t, "publish") /\ UNCHANGED neng
                     ELSE ntask' = Step(t, "over") /\ neng' = 0
  /\ UNCHANGED <<nst, ncall>>

\* Fault: a cancelled capture still publishes its image.
CapturePublishesCancelled(t) ==
  IF ntask[t].got = "image" THEN [nst EXCEPT !.pend = 0, !.img = t]
  ELSE [nst EXCEPT !.pend = 0, !.err = ntask[t].got]

CapturePublishes(t) ==
  IF ntask[t].cancelled \/ nst.err = "uncertain" THEN [nst EXCEPT !.pend = 0]
  ELSE IF ntask[t].got = "image" THEN [nst EXCEPT !.pend = 0, !.img = t]
  ELSE [nst EXCEPT !.pend = 0, !.err = ntask[t].got]

ControlPublishes(t) ==
  LET got == ntask[t].got IN
  CASE ntask[t].kind = "set" ->
         IF got = "uncertain" THEN [nst EXCEPT !.pend = 0, !.err = got]
         ELSE IF got # "ok" /\ ~nses.open
         THEN [nst EXCEPT !.pend = 0, !.conn = FALSE, !.err = "failed"]
         ELSE [nst EXCEPT !.pend = 0]
    [] ntask[t].kind = "close" -> [nst EXCEPT !.pend = 0]
    [] OTHER -> IF got = "ok" THEN [nst EXCEPT !.pend = 0]
                ELSE [nst EXCEPT !.pend = 0, !.conn = FALSE, !.err = "failed"]

\* The end of a task: its result goes into State only if it is current.
NoPublishes(t) ==
  /\ ntask[t].pc = "publish" /\ ntask[t].kind # "cool"
  /\ nst' = IF ~IsCurrent(t) THEN nst
            ELSE CASE ntask[t].kind = "connect" ->
                        [nst EXCEPT !.pend = 0, !.conn = ntask[t].got = "ok",
                           !.err = IF ntask[t].got = "ok" THEN "none" ELSE "failed"]
                   [] ntask[t].kind = "capture" -> CapturePublishes(t)
                   [] OTHER -> ControlPublishes(t)
  /\ ntask' = Step(t, "over")
  /\ neng' = IF neng = t THEN 0 ELSE neng
  /\ UNCHANGED <<nses, ncall>>

\* An uncertain cooler command also cancels the capture beside it.
NoCooled(t) ==
  /\ ntask[t].pc = "publish" /\ ntask[t].kind = "cool"
  /\ LET doubt == IsCurrentCooling(t) /\ ntask[t].got = "uncertain" IN
     /\ nst' = IF ~IsCurrentCooling(t) THEN nst
               ELSE [nst EXCEPT !.cool = 0, !.err = IF doubt THEN "uncertain" ELSE @]
     /\ ntask' = [Cancelled(IF doubt THEN {nst.pend} ELSE {}) EXCEPT ![t].pc = "over"]
  /\ UNCHANGED <<neng, nses, ncall>>

\* Work and CoolingWork are dropped with a task that ends unexpectedly.
Configures(t) == ntask[t].kind \in {"set", "prepare"}
NoLost(t) ==
  /\ Alive(t) /\ ntask[t].pc \in {"queued", "working"}
  /\ LET cool == IsCurrentCooling(t) /\ ntask[t].kind = "cool" IN
     /\ nst' = IF cool THEN [nst EXCEPT !.cool = 0, !.err = "uncertain"]
               ELSE IF IsCurrent(t)
               THEN [nst EXCEPT !.pend = 0, !.conn = FALSE,
                       !.err = IF @ = "uncertain" \/ Configures(t) THEN "uncertain"
                               ELSE "failed"]
               ELSE nst
     /\ ntask' = [Cancelled(IF cool THEN {nst.pend} ELSE {}) EXCEPT ![t].pc = "over"]
  /\ neng' = IF neng = t THEN 0 ELSE neng
  /\ ncall' = [ncall EXCEPT !.lost = TRUE]
  /\ UNCHANGED nses

NoTasks == \E t \in Ops :
  \/ NoLocks(t) \/ NoNotDispatched(t) \/ NoCloses(t) \/ NoWorks(t)
  \/ NoServedByCapture(t) \/ NoChecks(t) \/ NoPublishes(t) \/ NoCooled(t)

NoNext ==
  \/ NoConnect \/ NoStart \/ NoControl \/ NoSetCooling \/ NoAbort \/ NoAbortEnds
  \/ NoRetire \/ NoTasks \/ \E t \in Ops : NoLost(t)

-----------------------------------------------------------------------------
(* What the owner promises *)

\* An image is served only of the last capture admitted in this generation,
\* and never of one whose abort was acknowledged; a marker that makes the
\* camera busy always belongs to a task that still runs; a connected owner
\* never uses a worker that a retired generation opened; and once all tasks
\* of a closed camera have ended its worker is closed (native_owner.rs
\* current, start_locked, retire, spawn_close).
NativeOwnerHonest ==
  /\ ServedImage => nst.img = nst.last /\ ntask[nst.img].gen = nst.gen
  /\ nst.img \notin ncall.told
  /\ nst.pend # 0 => Alive(nst.pend)
  /\ nst.cool # 0 => Alive(nst.cool)
  /\ nst.conn /\ nses.open => nses.by = nst.gen
  /\ ((\A t \in Ops : ~Alive(t)) /\ nst.gen # 0 /\ ntask[nst.gen].kind = "close"
       /\ ~ncall.lost) => ~nses.open

\* Doubt about what the camera was told stays, and blocks images, until the
\* camera is closed or reset explicitly: no success, failure or new operation
\* of the same generation removes it (native_owner.rs start_locked, connect).
DoubtIsKept ==
  [][nst.err = "uncertain" /\ nst'.err # "uncertain" =>
       nst'.gen # nst.gen /\ ~nst'.conn]_noVars
=============================================================================
