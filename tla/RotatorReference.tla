-------------------------- MODULE RotatorReference --------------------------
(***************************************************************************)
(* The logical reference of a native rotator, end to end: the hub's        *)
(* backend (regain-hub native.rs), the durable record of the reference     *)
(* (native_reference.rs), the request/answer stream to the worker process  *)
(* (regain-core accessory.rs, regain-worker lib.rs), the worker's          *)
(* controller and the rotator itself (regain-zwo caa). Angles are positions *)
(* on a circle of Turn places. The source actor runs one operation of the  *)
(* backend at a time and drops it at a deadline or a host resume.          *)
(***************************************************************************)
EXTENDS Naturals, Sequences

CONSTANTS
  Turn,        \* places on the circle
  MaxSyncs,    \* bound on the syncs and reversals asked for
  MaxMoves     \* bound on the moves asked for and on changes from outside

ASSUME RotatorAssumption == Turn \in Nat \ {0} /\ MaxSyncs \in Nat /\ MaxMoves \in Nat

VARIABLES
  rdev,    \* the rotator: mechanical position, target while it moves, direction
  rwk,     \* the worker: its offset and direction, a reversal to be resolved
  rpipe,   \* the stream to the worker: requests and answers in it
  rback,   \* the backend: connected, its record, doubt, the direction it saw
  rfile,   \* the durable record
  rjobs,   \* saves that run in the background: <<expected revision, record>>
  rop,     \* the operation of the backend in progress
  rtold,   \* history: the references that clients may go by
  rcount   \* operations asked for so far

rtVars == <<rdev, rwk, rpipe, rback, rfile, rjobs, rop, rtold, rcount>>

Places == 0..(Turn - 1)
Transforms == [off : Places, rev : BOOLEAN]
Still == Turn       \* no target
NoRecord == [no |-> 0, kind |-> "none", t |-> [off |-> 0, rev |-> FALSE]]
NoWorker == [alive |-> FALSE, off |-> 0, rev |-> FALSE, pend |-> <<>>]
Closed == [open |-> FALSE, asks |-> <<>>, reps |-> <<>>]
Down == [up |-> FALSE, ref |-> NoRecord, unc |-> FALSE, obs |-> "none"]
Idle == [op |-> "none", x |-> 0, step |-> "idle", exp |-> 0, rev |-> FALSE]

RtInit ==
  /\ rdev = [mech |-> 0, to |-> Still, rev |-> FALSE]
  /\ rwk = NoWorker /\ rpipe = Closed /\ rback = Down
  /\ rfile = NoRecord /\ rjobs = {} /\ rop = Idle
  /\ rtold = Transforms
  /\ rcount = [syncs |-> 0, moves |-> 0, no |-> 0]

-----------------------------------------------------------------------------
(* The worker and the rotator                                              *)

Signed(rev, p) == IF rev THEN (Turn - p) % Turn ELSE p
LogicalAt(off, rev, m) == (Signed(rev, m) + off) % Turn
OffsetFor(logical, rev, m) == (logical + Turn - Signed(rev, m)) % Turn

(* settings: the direction is the rotator's; a reversal that was not       *)
(* confirmed keeps the logical angle it started from.                      *)
Resolved(w, v) ==
  [w EXCEPT !.rev = v.rev, !.pend = <<>>,
            !.off = IF w.pend = <<>> THEN @ ELSE OffsetFor(w.pend[2], v.rev, w.pend[1])]

(* status resolves a reversal first.                                       *)
Looked(w, v) == IF w.pend = <<>> THEN w ELSE Resolved(w, v)

Effect(v, w, r) == [dev |-> v, wk |-> w, rep |-> r]
Reply(ok, v, w) ==
  [ok |-> ok, rev |-> v.rev, mech |-> v.mech, off |-> w.off, moving |-> v.to # Still,
   logical |-> LogicalAt(w.off, w.rev, v.mech)]

(* Started, refused by the rotator, or started and stopped at once.        *)
Moved(v, w, target) ==
  {Effect([v EXCEPT !.to = target], w, Reply(TRUE, v, w))}
    \cup {Effect([v EXCEPT !.mech = p], w, Reply(FALSE, v, w)) : p \in {v.mech, target}}

(* set_reverse: the write may get lost or be reported lost, and so may the *)
(* answer about the setting.                                               *)
Reversed(v, w, b) ==
  LET p == [w EXCEPT !.pend = <<v.mech, LogicalAt(w.off, w.rev, v.mech)>>]
      devices == {v, [v EXCEPT !.rev = b]} IN
  {Effect(d, p, Reply(FALSE, d, p)) : d \in devices}
    \cup {Effect(d, Resolved(p, d), Reply(FALSE, d, Resolved(p, d))) : d \in devices}
    \cup {Effect(d, Resolved(p, d), Reply(TRUE, d, Resolved(p, d))) :
            d \in {e \in devices : e.rev = b}}

Stopped(v, w) ==
  {Effect([v EXCEPT !.to = Still, !.mech = p], w, Reply(TRUE, v, w))
     : p \in {v.mech} \cup (IF v.to = Still THEN {} ELSE {v.to})}

(* What only a rotator at rest is asked for.                               *)
Commanded(c, x, v, s) ==
  CASE c = "sync"    -> LET n == [s EXCEPT !.off = OffsetFor(x, s.rev, v.mech)] IN
                        {Effect(v, n, Reply(TRUE, v, n))}
    [] c = "restore" -> LET n == [s EXCEPT !.off = x] IN {Effect(v, n, Reply(TRUE, v, n))}
    [] c = "reverse" -> Reversed(v, s, x = 1)
    [] c = "mech"    -> Moved(v, Resolved(s, v), x)
    [] c = "move"    -> Moved(v, Resolved(s, v), Signed(v.rev, (x + Turn - s.off) % Turn))

(* Everything a request can do to the worker and the rotator, failures     *)
(* before and after the effect included.                                   *)
Executed(c, x, v, w) ==
  LET s == Looked(w, v) IN
  {Effect(v, w, Reply(FALSE, v, w)), Effect(v, s, Reply(FALSE, v, s))} \cup
  CASE c = "identity" -> {Effect(v, w, Reply(TRUE, v, w))}
    [] c = "settings" -> {Effect(v, Resolved(w, v), Reply(TRUE, v, Resolved(w, v)))}
    [] c = "status"   -> {Effect(v, s, Reply(TRUE, v, s))}
    [] c = "stop"     -> Stopped(v, w)
    [] OTHER          -> IF v.to = Still THEN Commanded(c, x, v, s) ELSE {}

RtWorker ==
  /\ rwk.alive /\ rpipe.asks # <<>>
  /\ LET ask == Head(rpipe.asks) IN
     \E o \in Executed(ask.c, ask.x, rdev, rwk) :
       /\ rdev' = o.dev /\ rwk' = o.wk
       /\ rpipe' = [rpipe EXCEPT !.asks = Tail(@),
                      !.reps = Append(@, [ask |-> ask, rep |-> o.rep])]
  /\ UNCHANGED <<rback, rfile, rjobs, rop, rtold, rcount>>

(* The rotator arrives, or gives up on the way.                            *)
RtArrive ==
  /\ rdev.to # Still
  /\ \E p \in {rdev.mech, rdev.to} : rdev' = [rdev EXCEPT !.mech = p, !.to = Still]
  /\ UNCHANGED <<rwk, rpipe, rback, rfile, rjobs, rop, rtold, rcount>>

(* Another program changes the direction, between two operations.          *)
RtFlipped ==
  /\ rop = Idle /\ rcount.moves < MaxMoves
  /\ rcount' = [rcount EXCEPT !.moves = @ + 1]
  /\ rdev' = [rdev EXCEPT !.rev = ~@]
  /\ UNCHANGED <<rwk, rpipe, rback, rfile, rjobs, rop, rtold>>

-----------------------------------------------------------------------------
(* The store                                                               *)

(* A save only replaces the record it was made from.                       *)
Savable(job) == rfile.no = job[1]

(* The operation that waits for a save, if it still does.                  *)
SaveHeard(job, marker, save) ==
  rop' = IF job[2].no # rcount.no THEN rop
         ELSE CASE rop.step = "marker" -> [rop EXCEPT !.step = marker]
                [] rop.step = "save" -> [rop EXCEPT !.step = save]
                [] OTHER -> rop

(* save, in a blocking task of its own: replaced, or refused because the   *)
(* record is another one or storage fails. A replacement that may not be   *)
(* durable is reported as uncertain.                                       *)
RtSave(job) ==
  /\ job \in rjobs
  /\ \/ /\ Savable(job) /\ rfile' = job[2]
        /\ SaveHeard(job, "marked", "saved") \/ SaveHeard(job, "unsaved", "unsaved")
     \/ UNCHANGED rfile /\ SaveHeard(job, "refused", "unsaved")
  /\ rjobs' = rjobs \ {job}
  /\ UNCHANGED <<rdev, rwk, rpipe, rback, rtold, rcount>>

-----------------------------------------------------------------------------
(* The backend                                                             *)

Asked(c, x) == [rpipe EXCEPT !.asks = Append(@, [c |-> c, x |-> x])]

(* Fault: a request that is dropped leaves its answer in the stream.       *)
RetiredKeepsStream == UNCHANGED <<rdev, rwk, rpipe, rback>>

(* Reset: the worker is dropped and killed, in the middle of a request if  *)
(* there is one; close() lets it stop the motor first.                     *)
Retired ==
  /\ rwk' = NoWorker /\ rpipe' = Closed /\ rback' = Down
  /\ IF rpipe.asks = <<>> THEN rdev' \in {rdev} \cup {o.dev : o \in Stopped(rdev, rwk)}
     ELSE rdev' \in {o.dev : o \in Executed(Head(rpipe.asks).c, Head(rpipe.asks).x, rdev, rwk)}

(* connect: the saved record, a worker, its identity.                      *)
RtConnect ==
  /\ rop = Idle /\ ~rback.up
  /\ rback' = [Down EXCEPT !.ref = rfile, !.unc = rfile.kind = "uncertain"]
  /\ rwk' = [NoWorker EXCEPT !.alive = TRUE, !.rev = rdev.rev]
  /\ rpipe' = [open |-> TRUE, asks |-> <<[c |-> "identity", x |-> 0]>>, reps |-> <<>>]
  /\ rop' = [Idle EXCEPT !.op = "connect", !.step = "identity"]
  /\ UNCHANGED <<rdev, rfile, rjobs, rtold, rcount>>

(* A poll or a command; all but halt sample the rotator first.             *)
RtBegin(op, x) ==
  /\ rop = Idle /\ rback.up
  /\ rcount' = CASE op \in {"sync", "reverse"} -> [rcount EXCEPT !.syncs = @ + 1]
                 [] op \in {"move", "mech"} -> [rcount EXCEPT !.moves = @ + 1]
                 [] OTHER -> rcount
  /\ rcount'.syncs <= MaxSyncs /\ rcount'.moves <= MaxMoves
  /\ rop' = [Idle EXCEPT !.op = op, !.x = x, !.step = IF op = "halt" THEN "command" ELSE "settings"]
  /\ rpipe' = IF op = "halt" THEN Asked("stop", 0) ELSE Asked("settings", 0)
  /\ UNCHANGED <<rdev, rwk, rback, rfile, rjobs, rtold>>

(* The answer that is next in the stream.                                  *)
Heard(step) ==
  /\ rop.step = step /\ rpipe.reps # <<>>
  /\ Head(rpipe.reps).rep.ok
Answer == Head(rpipe.reps).rep
Taken == [rpipe EXCEPT !.reps = Tail(@)]
AskNext(c, x) == rpipe' = [Taken EXCEPT !.asks = Append(@, [c |-> c, x |-> x])]

Done == rop' = Idle

RtIdentity ==
  /\ Heard("identity")
  /\ IF rback.ref.kind = "known"
     THEN rop' = [rop EXCEPT !.step = "reference"] /\ AskNext("settings", 0) /\ UNCHANGED rback
     ELSE Done /\ rpipe' = Taken /\ rback' = [rback EXCEPT !.up = TRUE]
  /\ UNCHANGED <<rdev, rwk, rfile, rjobs, rtold, rcount>>

Restorable(actual) == actual = rback.ref.t.rev

RtReference ==
  /\ Heard("reference")
  /\ IF Restorable(Answer.rev)
     THEN /\ rop' = [rop EXCEPT !.step = "restore"] /\ AskNext("restore", rback.ref.t.off)
          /\ UNCHANGED rback
     ELSE Done /\ rpipe' = Taken /\ rback' = [rback EXCEPT !.up = TRUE, !.unc = TRUE]
  /\ UNCHANGED <<rdev, rwk, rfile, rjobs, rtold, rcount>>

RtRestored ==
  /\ Heard("restore") /\ Done /\ rpipe' = Taken
  /\ rback' = [rback EXCEPT !.up = TRUE]
  /\ UNCHANGED <<rdev, rwk, rfile, rjobs, rtold, rcount>>

(* samples: a direction that is not the one seen or saved is a doubt.      *)
RtSettings ==
  /\ Heard("settings")
  /\ LET now == IF Answer.rev THEN "reverse" ELSE "forward" IN
     rback' = [rback EXCEPT !.obs = IF @ = "none" THEN now ELSE @,
                            !.unc = \/ @ \/ rback.obs \notin {"none", now}
                                    \/ rback.ref.kind = "known" /\ rback.ref.t.rev # Answer.rev]
  /\ rop' = [rop EXCEPT !.step = "status"] /\ AskNext("status", 0)
  /\ UNCHANGED <<rdev, rwk, rfile, rjobs, rtold, rcount>>

(* Fault: a doubtful reference is gone by.                                 *)
TrustedAlways == TRUE

Trusted == rop.op \in {"move", "reverse"} => ~rback.unc

NewRecord(kind, t) == [no |-> rcount.no + 1, kind |-> kind, t |-> t]
Saving(record) ==
  /\ rjobs' = rjobs \cup {<<rback.ref.no, record>>}
  /\ rcount' = [rcount EXCEPT !.no = @ + 1]

(* The sample was all, or the command is refused before it is sent.        *)
EndsHere ==
  rop.op = "sample" \/ ~Trusted \/ (rop.op \in {"sync", "reverse"} /\ Answer.moving)

RtStatus ==
  /\ Heard("status")
  /\ \/ EndsHere /\ Done /\ rpipe' = Taken /\ UNCHANGED <<rjobs, rcount>>
     \/ /\ ~EndsHere /\ rop.op \in {"move", "mech"}
        /\ rop' = [rop EXCEPT !.step = "command"] /\ AskNext(rop.op, rop.x)
        /\ UNCHANGED <<rjobs, rcount>>
     \/ /\ ~EndsHere /\ rop.op \in {"sync", "reverse"}
        /\ rpipe' = Taken /\ Saving(NewRecord("uncertain", NoRecord.t))
        /\ rop' = [rop EXCEPT !.step = "marker",
                     !.exp = IF rop.op = "sync" THEN rop.x ELSE Answer.logical]
  /\ UNCHANGED <<rdev, rwk, rback, rfile, rtold>>

(* What the change is going to make of the reference.                      *)
Intended ==
  IF rop.op = "sync" THEN [off |-> OffsetFor(rop.x, rwk.rev, rdev.mech), rev |-> rwk.rev]
  ELSE [off |-> OffsetFor(rop.exp, rop.x = 1, rdev.mech), rev |-> rop.x = 1]

(* The doubt is saved; from here on the source may have changed.           *)
RtMarked ==
  /\ rop.step = "marked"
  /\ rback' = [rback EXCEPT !.ref = rfile, !.unc = TRUE]
  /\ rop' = [rop EXCEPT !.step = "change"] /\ rpipe' = Asked(rop.op, rop.x)
  /\ rtold' = {Intended}
  /\ UNCHANGED <<rdev, rwk, rfile, rjobs, rcount>>

RtChanged ==
  /\ Heard("change")
  /\ rop' = [rop EXCEPT !.step = "settings2"] /\ AskNext("settings", 0)
  /\ UNCHANGED <<rdev, rwk, rback, rfile, rjobs, rtold, rcount>>

RtSettings2 ==
  /\ Heard("settings2")
  /\ rop' = [rop EXCEPT !.step = "status2", !.rev = Answer.rev] /\ AskNext("status", 0)
  /\ UNCHANGED <<rdev, rwk, rback, rfile, rjobs, rtold, rcount>>

Confirmed ==
  /\ ~Answer.moving /\ Answer.logical = rop.exp
  /\ rop.op = "reverse" => rop.rev = (rop.x = 1)

RtStatus2 ==
  /\ Heard("status2") /\ Confirmed
  /\ Saving(NewRecord("known", [off |-> Answer.off, rev |-> rop.rev]))
  /\ rop' = [rop EXCEPT !.step = "save"] /\ rpipe' = Taken
  /\ UNCHANGED <<rdev, rwk, rback, rfile, rtold>>

(* Saved: the client is told.                                              *)
RtAcknowledged ==
  /\ rop.step = "saved"
  /\ rback' = [rback EXCEPT !.ref = rfile, !.unc = FALSE,
                            !.obs = IF rop.rev THEN "reverse" ELSE "forward"]
  /\ rtold' = {[off |-> OffsetFor(rop.exp, rop.rev, rdev.mech), rev |-> rop.rev]}
  /\ Done
  /\ UNCHANGED <<rdev, rwk, rpipe, rfile, rjobs, rcount>>

(* A refusal before the change, or the end of a plain command.             *)
RtEnds ==
  /\ \/ rop.step = "refused" /\ UNCHANGED rpipe
     \/ rpipe.reps # <<>> /\ rpipe' = Taken
        /\ \/ rop.step = "command" /\ Answer.ok
           \/ rop.step \in {"settings", "status"} /\ ~Answer.ok
  /\ Done
  /\ UNCHANGED <<rdev, rwk, rback, rfile, rjobs, rtold, rcount>>

(* The future is dropped: a deadline, a resume, the end of the worker; or  *)
(* a failure that leaves the outcome open, after which the actor resets.   *)
RtLost ==
  /\ rop # Idle /\ Retired /\ Done
  /\ UNCHANGED <<rfile, rjobs, rtold, rcount>>

RtDisconnect ==
  /\ rop = Idle /\ rback.up /\ Retired
  /\ UNCHANGED <<rfile, rjobs, rop, rtold, rcount>>

(* The hub dies; its saves were made or not.                               *)
RtCrash ==
  /\ Retired /\ rop' = Idle /\ rjobs' = {}
  /\ UNCHANGED <<rfile, rtold, rcount>>

-----------------------------------------------------------------------------
RtNext ==
  \/ RtWorker \/ RtArrive \/ RtFlipped \/ RtConnect
  \/ RtBegin("sample", 0) \/ RtBegin("halt", 0)
  \/ \E x \in Places : RtBegin("sync", x) \/ RtBegin("move", x) \/ RtBegin("mech", x)
  \/ \E x \in {0, 1} : RtBegin("reverse", x)
  \/ RtIdentity \/ RtReference \/ RtRestored \/ RtSettings \/ RtStatus \/ RtMarked
  \/ RtChanged \/ RtSettings2 \/ RtStatus2 \/ RtAcknowledged \/ RtEnds
  \/ RtLost \/ RtDisconnect \/ RtCrash
  \/ \E job \in rjobs : RtSave(job)

-----------------------------------------------------------------------------
(* A saved reference is one that clients may go by, at every moment and so *)
(* after every crash: neither a save that outlives its cancelled request   *)
(* nor a change that was not confirmed puts another one on disk. And an    *)
(* answer in the stream is the one of the request that waits.              *)
SavedReference ==
  /\ rfile.kind = "known" => rfile.t \in rtold
  /\ rpipe.reps # <<>> /\ rop # Idle =>
       \/ Head(rpipe.reps).ask.c = rop.op
       \/ rop.step \in {"identity", "settings", "status", "restore"}
          /\ Head(rpipe.reps).ask.c = rop.step
       \/ rop.step \in {"reference", "settings2"} /\ Head(rpipe.reps).ask.c = "settings"
       \/ rop.step = "status2" /\ Head(rpipe.reps).ask.c = "status"
       \/ rop.op = "halt" /\ Head(rpipe.reps).ask.c = "stop"

(* A logical move goes to the place that the reference clients were told   *)
(* of gives the angle, through lost workers, reversals from outside and    *)
(* restarts, or is not made: the rotator never turns by a reference that   *)
(* nobody gave.                                                            *)
MovesByReference ==
  [][rop.op = "move" /\ rop.step = "command" /\ rdev'.to # rdev.to /\ rdev'.to # Still
     => \E t \in rtold : LogicalAt(t.off, t.rev, rdev'.to) = rop.x]_rtVars
=============================================================================
