----------------------------- MODULE SafetyHub -----------------------------
(***************************************************************************)
(* A safety output of the hub: the endpoints of its sources and the one    *)
(* permission made of them (safety.rs SafetyHub, SafetyRuntime), and the   *)
(* task per source that carries the source's poll events to its endpoint   *)
(* (safety_output.rs consume). The tasks run on several threads: a task    *)
(* reads the source's status in one step and locks the hub in a later one. *)
(*                                                                         *)
(* Of a source actor this module keeps what a subscriber sees: generation, *)
(* sequence and epoch as it publishes them, and the events it broadcasts.  *)
(* Every operation of the runtime publishes the permission it ends with,   *)
(* so hub.safe is also what the watchers of the output see.                *)
(***************************************************************************)
EXTENDS SafetyEndpoint, FiniteSets

CONSTANTS
  Sources,      \* the enabled members of the output
  RingCap,      \* capacity of the event broadcast (64 in the code)
  Backdates,    \* how much older than its poll the evidence may be: a virtual
                \*   source passes on evidence that it holds already
  Readings,     \* the outcomes polls have
  MaxTime, MaxSeq, MaxGen, MaxEpoch    \* bounds of the model

ASSUME HubAssumption ==
  /\ RingCap \in Nat \ {0}
  /\ Backdates \subseteq Nat /\ 0 \in Backdates /\ Readings \subseteq Outcomes
  /\ MaxTime \in Nat /\ MaxSeq \in Nat /\ MaxGen \in Nat /\ MaxEpoch \in Nat

VARIABLES
  now, epoch, clockValid,  \* the host's clock, its resume epoch and its validity
  hub,         \* SafetyHub: endpoints, permission, the epoch it has seen
  src,         \* per source: what its actor has published, and its poll
  ring, lagged,\* per source: events not yet received, whether some were lost
  news,        \* per source: the status changed since the task looked
  con,         \* per source: its consume task
  stop,        \* the output was shut down
  fresh,       \* how many random generations were made
  (* history *)
  proof,       \* per source: start of the latest safe poll of this epoch
  last,        \* per source: outcome of the latest poll of this generation
  run          \* per source: the readings its endpoint's safe run is made of

hostVars == <<now, epoch, clockValid>>
srcVars  == <<src, ring, lagged, fresh, proof, last>>
vars == <<hostVars, hub, srcVars, news, con, stop, run>>

NoEvent == [gen |-> <<>>, seq |-> 0, start |-> 0, recv |-> 0, outcome |-> "fault", bad |-> 0]
NoRun == [seq |-> 0, start |-> 0, recv |-> 0, bad |-> 0]

(* The generation of an endpoint no source has: Uuid::new_v4 at a resume.  *)
Retired == <<>>

Events == [gen : Generations, seq : Nat, start : Nat, recv : Nat, outcome : Outcomes, bad : Nat]

(* A shut down hub has no endpoints.                                       *)
Hubs == [ep : [Sources -> Endpoints] \cup [{} -> Endpoints], safe : BOOLEAN, epoch : Nat]

SourceStates ==
  [gen : Generations, seq : Nat, bad : Nat, epoch : Nat, up : BOOLEAN,
   poll : Times, sending : Events]

ConsumeTasks ==
  [pc : {"acquire", "loop", "reset", "select", "deliver", "final", "done"},
   then : {"loop", "select", "deliver"}, gen : Generations, mark : Nat,
   from : Nat, event : Events, epoch : Nat]

Runs == [seq : Nat, start : Nat, recv : Nat, bad : Nat]

TypeOK ==
  /\ now \in Nat /\ epoch \in Nat /\ clockValid \in BOOLEAN /\ stop \in BOOLEAN /\ fresh \in Nat
  /\ hub \in Hubs
  /\ DOMAIN hub.ep = (IF stop THEN {} ELSE Sources)
  /\ src \in [Sources -> SourceStates]
  /\ ring \in [Sources -> Seq(Events)] /\ lagged \in [Sources -> BOOLEAN]
  /\ news \in [Sources -> BOOLEAN]
  /\ con \in [Sources -> ConsumeTasks]
  /\ proof \in [Sources -> Times] /\ last \in [Sources -> Outcomes \cup {"none"}]
  /\ run \in [Sources -> Runs]
  /\ \A s \in Sources : Len(ring[s]) <= RingCap

-----------------------------------------------------------------------------
(* SafetyHub                                                               *)

(* sync_resume: a new epoch, or a clock that cannot tell, starts all over. *)
Synced(h) ==
  IF h.epoch = epoch /\ clockValid THEN h
  ELSE [ep |-> [s \in DOMAIN h.ep |-> NewEndpoint(Retired)], safe |-> FALSE, epoch |-> epoch]

(* Fault: permission returns as soon as every member permits again.        *)
AggregateOnPermits(was, eps) ==
  /\ DOMAIN eps # {}
  /\ \A s \in DOMAIN eps : eps[s].permits

(* Permission is kept while every member permits, and given only when every*)
(* member is fresh and confirmed.                                          *)
Aggregate(was, eps) ==
  /\ DOMAIN eps # {}
  /\ \A s \in DOMAIN eps : eps[s].permits
  /\ was \/ \A s \in DOMAIN eps : eps[s].phase = "freshSafe" /\ eps[s].confirmed

Snapshot(h) ==
  LET eps == [s \in DOMAIN h.ep |-> Expire(h.ep[s], now)]
  IN [h EXCEPT !.ep = eps, !.safe = Aggregate(h.safe, eps)]

(* reset_source                                                            *)
ResetSource(h, s, g) ==
  IF s \notin DOMAIN h.ep THEN h
  ELSE [h EXCEPT !.ep[s] = NewEndpoint(g), !.safe = FALSE]

(* SafetyHub::observe: the permission before the observation counts, too.  *)
HubObserve(h, s, o) ==
  LET b == Snapshot(h)
  IN Snapshot(IF s \in DOMAIN b.ep THEN [b EXCEPT !.ep[s] = Observe(b.ep[s], o, now)] ELSE b)

(* Fault: an observation is admitted by its generation alone.              *)
RuntimeObserveAnyEpoch(h, s, o, e) == Snapshot(HubObserve(Synced(h), s, o))

(* SafetyRuntime::observe, of an event whose task saw the source in epoch e*)
RuntimeObserve(h, s, o, e) ==
  LET y == Synced(h)
  IN Snapshot(IF e = y.epoch /\ clockValid THEN HubObserve(y, s, o) ELSE y)

(* What the hub becomes, and the runs that have ended with it.             *)
HubIs(h) ==
  /\ hub' = h
  /\ run' = [s \in Sources |-> IF s \in DOMAIN h.ep /\ h.ep[s].runStart # NoTime
                               THEN run[s] ELSE NoRun]

(* What a client that asks at this moment is told (SafetyRuntime::snapshot)*)
Asked == Snapshot(Synced(hub))

Init ==
  /\ now = 1 /\ epoch = 0 /\ clockValid = TRUE
  /\ hub = [ep |-> [s \in Sources |-> NewEndpoint(<<0>>)],
            safe |-> FALSE, epoch |-> 0]
  /\ src \in [Sources -> [gen : {<<0>>}, seq : {0}, bad : {0}, epoch : {0}, up : {TRUE},
                          poll : {NoTime, 0}, sending : {NoEvent}]]
  /\ ring = [s \in Sources |-> <<>>] /\ lagged = [s \in Sources |-> FALSE]
  /\ news = [s \in Sources |-> FALSE]
  /\ con = [s \in Sources |-> [pc |-> "acquire", then |-> "loop", gen |-> <<0>>, mark |-> 0,
                               from |-> 1, event |-> NoEvent, epoch |-> 0]]
  /\ stop = FALSE /\ fresh = 1
  /\ proof = [s \in Sources |-> NoTime] /\ last = [s \in Sources |-> "none"]
  /\ run = [s \in Sources |-> NoRun]

-----------------------------------------------------------------------------
(* The host                                                                *)

Tick ==
  /\ now < MaxTime
  /\ now' = now + 1
  /\ UNCHANGED <<epoch, clockValid, hub, srcVars, news, con, stop, run>>

(* A sleep is noticed, or the sleep clock fails or works again: each is a  *)
(* new epoch.                                                              *)
Resume ==
  /\ epoch < MaxEpoch
  /\ epoch' = epoch + 1
  /\ clockValid' \in IF clockValid THEN BOOLEAN ELSE {TRUE}
  /\ proof' = [s \in Sources |-> NoTime]
  /\ UNCHANGED <<now, hub, src, ring, lagged, fresh, last, news, con, stop, run>>

-----------------------------------------------------------------------------
(* The source actor, as its subscribers see it                             *)

Published(s) == news' = [news EXCEPT ![s] = TRUE]

(* Fault: the actor does not publish what the resume has changed.          *)
ActorResumeSilent(s) ==
  /\ src[s].up /\ src[s].epoch # epoch /\ src[s].sending = NoEvent
  /\ src' = [src EXCEPT ![s].gen = Append(@, epoch), ![s].seq = 0, ![s].bad = 0,
                        ![s].epoch = epoch, ![s].poll = NoTime]
  /\ last' = [last EXCEPT ![s] = "none"]
  /\ UNCHANGED <<hostVars, hub, ring, lagged, fresh, proof, news, con, stop, run>>

(* Actor::resume: the generation is derived from the last one, a poll in   *)
(* progress comes to nothing.                                              *)
ActorResume(s) ==
  /\ src[s].up /\ src[s].epoch # epoch /\ src[s].sending = NoEvent
  /\ src' = [src EXCEPT ![s].gen = Append(@, epoch), ![s].seq = 0, ![s].bad = 0,
                        ![s].epoch = epoch, ![s].poll = NoTime]
  /\ last' = [last EXCEPT ![s] = "none"]
  /\ Published(s)
  /\ UNCHANGED <<hostVars, hub, ring, lagged, fresh, proof, con, stop, run>>

(* A connection that came up or broke, or the last lease's disconnect.     *)
Regenerate(s) ==
  /\ fresh < MaxGen
  /\ src[s].up /\ src[s].sending = NoEvent
  /\ src' = [src EXCEPT ![s].gen = <<fresh>>, ![s].seq = 0, ![s].bad = 0]
  /\ fresh' = fresh + 1
  /\ last' = [last EXCEPT ![s] = "none"]
  /\ Published(s)
  /\ UNCHANGED <<hostVars, hub, ring, lagged, proof, con, stop, run>>

StartPoll(s) ==
  /\ src[s].up /\ src[s].poll = NoTime /\ src[s].sending = NoEvent
  /\ src[s].epoch = epoch /\ src[s].seq < MaxSeq
  /\ src' = [src EXCEPT ![s].poll = now]
  /\ UNCHANGED <<hostVars, hub, ring, lagged, fresh, proof, last, news, con, stop, run>>

(* A poll ends with outcome o. Its evidence may be older than the poll; one*)
(* that lost the transport begins a new generation; with the sleep clock   *)
(* failed it was interrupted. The new sequence is published before the     *)
(* event is sent.                                                          *)
FinishPoll(s, o, d, lost) ==
  /\ src[s].up /\ src[s].poll # NoTime /\ src[s].epoch = epoch
  /\ ~clockValid => o = "fault" /\ lost
  /\ lost => o \notin {"safe", "unsafe"} /\ fresh < MaxGen
  /\ d > 0 => o = "safe"
  /\ d <= src[s].poll
  /\ LET g == IF lost THEN <<fresh>> ELSE src[s].gen
         q == IF lost THEN 1 ELSE src[s].seq + 1
         b == IF o # "safe" THEN q ELSE src[s].bad
         e == [gen |-> g, seq |-> q, start |-> src[s].poll - d, recv |-> now,
               outcome |-> o, bad |-> b]
     IN /\ src' = [src EXCEPT ![s].gen = g, ![s].seq = q, ![s].bad = b, ![s].poll = NoTime,
                              ![s].sending = e]
        /\ proof' = [proof EXCEPT ![s] = IF o = "safe" /\ e.start > @ THEN e.start ELSE @]
  /\ fresh' = IF lost THEN fresh + 1 ELSE fresh
  /\ last' = [last EXCEPT ![s] = o]
  /\ Published(s)
  /\ UNCHANGED <<hostVars, hub, ring, lagged, con, stop, run>>

(* broadcast::Sender::send drops the oldest event of a full ring; whoever  *)
(* has not received it is told that it lagged.                             *)
SendEvent(s) ==
  /\ src[s].sending # NoEvent
  /\ src' = [src EXCEPT ![s].sending = NoEvent]
  /\ IF Len(ring[s]) = RingCap
     THEN /\ ring' = [ring EXCEPT ![s] = Append(Tail(@), src[s].sending)]
          /\ lagged' = [lagged EXCEPT ![s] = TRUE]
     ELSE /\ ring' = [ring EXCEPT ![s] = Append(@, src[s].sending)]
          /\ UNCHANGED lagged
  /\ UNCHANGED <<hostVars, hub, fresh, proof, last, news, con, stop, run>>

(* The actor ends with a last disconnect; its channels close.              *)
SourceStops(s) ==
  /\ src[s].up /\ src[s].sending = NoEvent
  /\ src' = [src EXCEPT ![s].up = FALSE, ![s].poll = NoTime, ![s].gen = <<fresh>>,
                        ![s].seq = 0, ![s].bad = 0]
  /\ fresh' = fresh + 1
  /\ last' = [last EXCEPT ![s] = "none"]
  /\ Published(s)
  /\ UNCHANGED <<hostVars, hub, ring, lagged, proof, con, stop, run>>

(* The actor's task dies at an await (a backend that panics): its channels *)
(* close and its last status stays readable, with nothing published.       *)
SourceDies(s) ==
  /\ src[s].up /\ src[s].sending = NoEvent
  /\ src' = [src EXCEPT ![s].up = FALSE, ![s].poll = NoTime]
  /\ UNCHANGED <<hostVars, hub, ring, lagged, fresh, proof, last, news, con, stop, run>>

(* SourceHandle::with_snapshot: a reader does not see state of an epoch    *)
(* that is over, even before the actor has run.                            *)
Latest(s) ==
  IF src[s].epoch = epoch /\ clockValid
  THEN [gen |-> src[s].gen, seq |-> src[s].seq, epoch |-> epoch]
  ELSE [gen |-> Append(src[s].gen, epoch), seq |-> 0, epoch |-> epoch]

-----------------------------------------------------------------------------
(* The task that feeds an endpoint (consume)                               *)

Goes(s, pc) == con' = [con EXCEPT ![s].pc = pc]

(* The lease is acquired before anything else; a refusal ends the task.    *)
AcquireLease(s) ==
  /\ con[s].pc = "acquire"
  /\ \/ src[s].up /\ Goes(s, "loop")
     \/ Goes(s, "done")
  /\ UNCHANGED <<hostVars, hub, srcVars, news, stop, run>>

(* The task takes generation g as current; evidence counts from now on, and*)
(* the endpoint is reset next.                                             *)
Adopt(s, g, mark, then) ==
  [con[s] EXCEPT !.pc = "reset", !.then = then, !.gen = g, !.mark = mark, !.from = now]

(* The top of the loop: stop, or look at the source's status.              *)
Look(s) ==
  /\ con[s].pc = "loop"
  /\ IF stop THEN Goes(s, "final") /\ UNCHANGED news
     ELSE /\ news' = [news EXCEPT ![s] = FALSE]
          /\ con' = [con EXCEPT ![s] = IF con[s].gen # Latest(s).gen
                                       THEN Adopt(s, Latest(s).gen, 0, "select")
                                       ELSE [@ EXCEPT !.pc = "select"]]
  /\ UNCHANGED <<hostVars, hub, srcVars, stop, run>>

Reset(s) ==
  /\ con[s].pc = "reset"
  /\ HubIs(Snapshot(ResetSource(Synced(hub), s, con[s].gen)))
  /\ Goes(s, con[s].then)
  /\ UNCHANGED <<hostVars, srcVars, news, stop>>

(* select: the stop signal or a closed channel ends the loop, a changed    *)
(* status restarts it. The status may change between the polls of two arms *)
(* of the select, so an event can be received although one is pending.     *)
Wake(s) ==
  /\ con[s].pc = "select"
  /\ \/ (stop \/ (~src[s].up /\ ~news[s])) /\ Goes(s, "final")
     \/ news[s] /\ Goes(s, "loop")
  /\ UNCHANGED <<hostVars, hub, srcVars, news, stop, run>>

(* Fault: the task carries on with the events that are left.               *)
LaggedIgnored(s) ==
  /\ con[s].pc = "select" /\ lagged[s]
  /\ lagged' = [lagged EXCEPT ![s] = FALSE]
  /\ UNCHANGED <<hostVars, hub, src, ring, fresh, proof, last, news, con, stop, run>>

(* Fault: the task subscribes anew and keeps the permission.               *)
LaggedFlushed(s) ==
  /\ con[s].pc = "select" /\ lagged[s]
  /\ ring' = [ring EXCEPT ![s] = <<>>]
  /\ lagged' = [lagged EXCEPT ![s] = FALSE]
  /\ con' = [con EXCEPT ![s].pc = "loop", ![s].gen = Latest(s).gen, ![s].mark = Latest(s).seq]
  /\ UNCHANGED <<hostVars, hub, src, fresh, proof, last, news, stop, run>>

(* Lost events may have been unsafe: subscribe anew, and begin again.      *)
Lagged(s) ==
  /\ con[s].pc = "select" /\ lagged[s]
  /\ ring' = [ring EXCEPT ![s] = <<>>]
  /\ lagged' = [lagged EXCEPT ![s] = FALSE]
  /\ con' = [con EXCEPT ![s] = Adopt(s, Latest(s).gen, Latest(s).seq, "loop")]
  /\ UNCHANGED <<hostVars, hub, src, fresh, proof, last, news, stop, run>>

(* A safe reading from before the reset seeds nothing.                     *)
TooEarly(c, e) == e.outcome = "safe" /\ e.start < c.from

(* An event: of another generation than the source now has, it is ignored; *)
(* of one the task did not know, it is adopted first.                      *)
Receive(s) ==
  /\ con[s].pc = "select" /\ ~lagged[s] /\ ring[s] # <<>>
  /\ ring' = [ring EXCEPT ![s] = Tail(@)]
  /\ LET e == Head(ring[s])
         c == IF con[s].gen = e.gen THEN con[s] ELSE Adopt(s, e.gen, 0, "loop")
         drop == e.seq <= c.mark \/ TooEarly(c, e)
         next == IF drop THEN "loop" ELSE "deliver"
         to == IF c.pc = "reset" THEN [c EXCEPT !.then = next] ELSE [c EXCEPT !.pc = next]
     IN con' = [con EXCEPT ![s] =
                  IF e.gen # Latest(s).gen THEN [@ EXCEPT !.pc = "loop"]
                  ELSE [to EXCEPT !.mark = IF e.seq <= c.mark THEN c.mark ELSE e.seq,
                                  !.event = IF drop THEN NoEvent ELSE e,
                                  !.epoch = IF drop THEN 0 ELSE Latest(s).epoch]]
  /\ UNCHANGED <<hostVars, hub, src, lagged, fresh, proof, last, news, stop, run>>

(* The event reaches the endpoint; the hub may have moved on since.        *)
Deliver(s) ==
  /\ con[s].pc = "deliver"
  /\ LET o == con[s].event
         h == RuntimeObserve(hub, s, o, con[s].epoch)
         pre == Snapshot(Synced(hub))
         running == s \in DOMAIN h.ep /\ h.ep[s].runStart # NoTime
         first == running /\ pre.ep[s].runStart = NoTime
     IN /\ hub' = h
        /\ run' = [x \in Sources |->
             IF x \notin DOMAIN h.ep \/ h.ep[x].runStart = NoTime THEN NoRun
             ELSE IF x # s THEN run[x]
             ELSE IF first THEN [seq |-> o.seq, start |-> o.start, recv |-> o.recv, bad |-> o.bad]
             ELSE IF h.ep[s].seq = o.seq THEN [run[s] EXCEPT !.bad = o.bad] ELSE run[s]]
  /\ con' = [con EXCEPT ![s].pc = "loop", ![s].event = NoEvent, ![s].epoch = 0]
  /\ UNCHANGED <<hostVars, srcVars, news, stop>>

(* The end of the task: nobody may rely on what it last said.              *)
Finish(s) ==
  /\ con[s].pc = "final"
  /\ HubIs(Snapshot(ResetSource(Synced(hub), s, con[s].gen)))
  /\ Goes(s, "done")
  /\ UNCHANGED <<hostVars, srcVars, news, stop>>

-----------------------------------------------------------------------------
(* The runtime's other operations                                          *)

(* The expiry task's tick, and a client's snapshot: both look again.       *)
Expiry ==
  /\ HubIs(Asked)
  /\ UNCHANGED <<hostVars, srcVars, news, con, stop>>

(* SafetyOutput::shutdown, or its drop: no endpoints, then the stop signal.*)
Shutdown ==
  /\ stop = FALSE
  /\ stop' = TRUE
  /\ HubIs([ep |-> [s \in {} |-> NewEndpoint(Retired)], safe |-> FALSE, epoch |-> 0])
  /\ UNCHANGED <<hostVars, srcVars, news, con>>

Task(s) == AcquireLease(s) \/ Look(s) \/ Reset(s) \/ Wake(s) \/ Lagged(s) \/ Receive(s)
           \/ Deliver(s) \/ Finish(s)

Source(s) ==
  \/ ActorResume(s) \/ Regenerate(s) \/ StartPoll(s) \/ SendEvent(s) \/ SourceStops(s)
  \/ SourceDies(s)
  \/ \E o \in Readings, d \in Backdates, lost \in BOOLEAN : FinishPoll(s, o, d, lost)

Next ==
  \/ Tick \/ Resume \/ Expiry \/ Shutdown
  \/ \E s \in Sources : Source(s) \/ Task(s)

(* The consume tasks and the actor's answer to a resume are scheduled tasks*)
(* with nothing to wait for; an event that is published is then sent.      *)
Fairness == \A s \in Sources : WF_vars(Task(s)) /\ WF_vars(ActorResume(s)) /\ WF_vars(SendEvent(s))

Spec == Init /\ [][Next]_vars /\ Fairness

-----------------------------------------------------------------------------
(* Properties                                                              *)

(* An endpoint permits only while its phase does not deny it, and on a safe*)
(* request that is remembered.                                             *)
PermitsOK(e) ==
  e.permits => e.lastSafe # NoTime /\ e.phase \notin {"stale", "unsafe", "faulted"}

(* The endpoints of a hub that has seen this epoch know only of safe polls *)
(* of this epoch.                                                          *)
EndpointsProven ==
  hub.epoch = epoch => \A s \in DOMAIN hub.ep : hub.ep[s].lastSafe <= proof[s]

(* An event on its way from s: it is of a generation that s had, and if of *)
(* the one that s has in this epoch, its safe reading is of this epoch.    *)
EventOK(s, e) ==
  /\ Len(e.gen) > 0 /\ e.gen[1] < fresh
  /\ e.gen[1] = src[s].gen[1] => Len(e.gen) <= Len(src[s].gen)
  /\ e.outcome = "safe" /\ e.gen = src[s].gen /\ src[s].epoch = epoch => e.start <= proof[s]

EventsOK(s) ==
  /\ src[s].sending = NoEvent \/ EventOK(s, src[s].sending)
  /\ \A i \in DOMAIN ring[s] : EventOK(s, ring[s][i])

(* The event in the task's hands, if it was received in this epoch.        *)
HandOK(s) ==
  con[s].event.outcome = "safe" /\ con[s].epoch = epoch => con[s].event.start <= proof[s]

SourceOK(s) ==
  /\ src[s].epoch <= epoch /\ con[s].epoch <= epoch
  /\ Len(src[s].gen) > 0 /\ src[s].gen[1] < fresh

(* Where each piece of evidence on its way to the permission comes from:   *)
(* the inductive invariant behind SafeIsProven. Generations only grow or   *)
(* are new, so no event can be taken for one of a later epoch, neither by  *)
(* the generation a resume derives nor by one that a reader derives before *)
(* the actor has run (SourceSnapshot::invalidate_resume, consume).         *)
SafetyInv ==
  /\ TypeOK
  /\ hub.epoch <= epoch
  /\ \A s \in DOMAIN hub.ep : PermitsOK(hub.ep[s])
  /\ EndpointsProven
  /\ \A s \in Sources : SourceOK(s) /\ EventsOK(s) /\ HandOK(s)

(* Whoever asks is told "safe" only on the strength of a safe poll of every*)
(* source that began in this resume epoch, less than SafeAge ago: not by   *)
(* retries, failures in between, late answers or status reads (safety.rs   *)
(* expire, sync_resume, observe).                                          *)
SafeIsProven ==
  Asked.safe => \A s \in Sources : proof[s] # NoTime /\ now - proof[s] < SafeAge

(* The task has nothing left to hear from its source.                      *)
CaughtUp(s) ==
  /\ con[s].pc = "select" /\ ~news[s] /\ ring[s] = <<>> /\ ~lagged[s]
  /\ src[s].sending = NoEvent /\ src[s].epoch = epoch

(* A fault, or an unsafe reading where one suffices, that the source saw   *)
(* last is never missed: once the task has heard everything there is no    *)
(* permission, whatever was lost, reordered or reset on the way            *)
(* (safety_output.rs consume).                                             *)
UnsafeIsHeard ==
  \A s \in Sources :
    /\ CaughtUp(s)
    /\ last[s] = "fault" \/ (last[s] = "unsafe" /\ UnsafeReadings = 1)
    => ~Asked.safe

(* The safe run behind an endpoint: SafeReadings readings apart by the     *)
(* confirmation interval, over the hold, with no other reading of the      *)
(* source in between, lost ones included, and none begun before the reset; *)
(* a task that has not done its reset yet still lends the run before it.   *)
Earned(s) ==
  /\ hub.ep[s].runStart # NoTime
  /\ hub.ep[s].countedSafe - run[s].start >= (SafeReadings - 1) * Confirmation
  /\ now - run[s].recv >= Hold
  /\ run[s].bad < run[s].seq
  /\ con[s].pc = "reset" \/ run[s].start >= con[s].from

(* Permission is given only when every member has earned it anew: not one  *)
(* of them in grace, not with readings that a lost unsafe reading parts    *)
(* (safety.rs SafetyHub::snapshot, Endpoint::observe).                     *)
GrantIsEarned ==
  [][~hub.safe /\ hub'.safe => \A s \in Sources : Earned(s)']_vars

(* No permission outlives the output, nor a task that feeds it: one that   *)
(* ended left nothing that a late observation could bring back             *)
(* (SafetyOutput::shutdown, the end of consume).                           *)
NoOrphanPermission ==
  stop \/ (\E s \in Sources : con[s].pc = "done") => ~hub.safe

(* What a source says last is heeded: an unsafe reading or a fault is never*)
(* missed, and no permission outlives the output or a task that feeds it   *)
(* (safety_output.rs consume, shutdown).                                   *)
LastWordHeeded == UnsafeIsHeard /\ NoOrphanPermission

(* After the last resume or reconnection the endpoint and its source agree *)
(* on the generation again, so that evidence can be admitted: a resume     *)
(* never leaves an output unsafe for good (sync_resume gives the endpoint a*)
(* generation that only a status change can replace).                      *)
EvidenceFlowsAgain ==
  <>[]clockValid =>
    \A s \in Sources :
      <>[](stop \/ con[s].pc \in {"final", "done"} \/ ~src[s].up
           \/ hub.ep[s].gen = src[s].gen)
=============================================================================
