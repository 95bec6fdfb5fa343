---------------------------- MODULE SourceActor ----------------------------
(***************************************************************************)
(* The hub's source actor (regain-hub source.rs): one task owns one source *)
(* of equipment, serves a bounded command queue and polls the source.      *)
(* Clients hold lease guards (readout.rs SourceLease); the host may sleep  *)
(* and resume at any moment (resume.rs).                                   *)
(*                                                                         *)
(* One step of the actor is what it does between two awaits. Identities    *)
(* that are only compared for equality are kept as the outcome of that     *)
(* comparison: whether a request's resume epoch is still the host's (old), *)
(* whether the generation it expects is still the source's (gen). Times    *)
(* are kept as far as they order steps: a poll is due, later or never.     *)
(***************************************************************************)
EXTENDS Naturals, Sequences, FiniteSets

CONSTANTS
  Leases,     \* lease guards; an id is reused once its release is done
  Nobody,     \* no lease
  QueueCap,   \* capacity of the command queue (16 in the code)
  Ops         \* the commands that holders of a lease send

ASSUME SourceAssumption ==
  /\ Nobody \notin Leases /\ IsFiniteSet(Leases)
  /\ QueueCap \in Nat \ {0}
  /\ Ops \subseteq {"claim", "yield", "simulate", "refresh", "read", "image", "write"}

VARIABLES
  (* ResumeClock *)
  behind,         \* the host's resume epoch is ahead of the actor's
  clockValid,     \* resume_clock_valid
  (* Actor *)
  queue, cur, pc, \* waiting commands, the one in hand, where the actor is
  leases, controller, writeUncertain,
  connected,      \* state.transport_connected
  handshake,      \* connection_started is set
  cleaned,        \* disconnect_result is set
  nextPoll, retrying,
  cache,          \* state.values
  (* clients *)
  guard,          \* per lease: "free", "held", "dropped" or "releasing"
  call,           \* per lease: the request its holder waits for
  (* history *)
  sent,           \* the backend was given the write in hand
  fate,           \* per lease: what became of its last write at the equipment
  told,           \* per lease: what the caller of that write was told
  doubt,          \* a write of this session has no known outcome
  disconnects     \* backend disconnects in this session

actorVars  == <<leases, controller, writeUncertain, cleaned>>
linkVars   == <<connected, handshake, cache>>
pollVars   == <<nextPoll, retrying>>
hostVars   == <<behind, clockValid>>
writeVars  == <<sent, fate, told, doubt>>
vars == <<hostVars, queue, cur, pc, actorVars, linkVars, pollVars, guard, call,
          writeVars, disconnects>>

AllOps == Ops \cup {"acquire", "release", "shutdown"}

(* Requests whose waiter compares resume epochs.                           *)
Fenced == {"read", "image", "write"}

(* What a request knows of the transport: it expects no generation, the    *)
(* current one (seen on the transport that is up, or on none), or another. *)
Gens == {"any", "live", "dead", "changed"}
Entries == [op : AllOps \cup {"poll", "gone"}, lease : Leases \cup {Nobody},
            old : BOOLEAN, gen : Gens, open : BOOLEAN]
None == [op |-> "poll", lease |-> Nobody, old |-> FALSE, gen |-> "any", open |-> FALSE]
NoCall == [op |-> "none", old |-> FALSE, answer |-> "none"]

TypeOK ==
  /\ behind \in BOOLEAN /\ clockValid \in BOOLEAN
  /\ queue \in Seq(Entries) /\ cur \in Entries
  /\ pc \in {"idle", "connect", "io", "disconnect", "drain", "stopped"}
  /\ leases \subseteq Leases /\ controller \in Leases \cup {Nobody}
  /\ writeUncertain \in BOOLEAN /\ connected \in BOOLEAN /\ handshake \in BOOLEAN
  /\ cleaned \in BOOLEAN /\ retrying \in BOOLEAN
  /\ nextPoll \in {"due", "later", "never"}
  /\ cache \in {"empty", "fresh", "stale", "old"}
  /\ guard \in [Leases -> {"free", "held", "dropped", "releasing"}]
  /\ call \in [Leases -> [op : AllOps \cup {"none"}, old : BOOLEAN,
                          answer : {"none", "waiting", "ok", "refused", "unknown"}]]
  /\ sent \in BOOLEAN /\ doubt \in BOOLEAN /\ disconnects \in Nat
  /\ fate \in [Leases -> {"unsent", "sent", "done", "overtaken", "rejected", "ambiguous"}]
  /\ told \in [Leases -> {"none", "ok", "refused", "unknown"}]

Init ==
  /\ behind = FALSE /\ clockValid = TRUE
  /\ queue = <<>> /\ cur = None /\ pc = "idle"
  /\ leases = {} /\ controller = Nobody /\ writeUncertain = FALSE
  /\ connected = FALSE /\ handshake = FALSE /\ cleaned = TRUE
  /\ nextPoll = "due" /\ retrying = FALSE /\ cache = "empty"
  /\ guard = [l \in Leases |-> "free"] /\ call = [l \in Leases |-> NoCall]
  /\ sent = FALSE /\ doubt = FALSE /\ disconnects = 0
  /\ fate = [l \in Leases |-> "unsent"] /\ told = [l \in Leases |-> "none"]

-----------------------------------------------------------------------------
(* Effects shared by the handlers                                          *)

MapQueue(f(_)) == [i \in DOMAIN queue |-> f(queue[i])]

(* state.generation = Uuid::new_v4(): no request still matches it.         *)
NewGeneration(e) == [e EXCEPT !.gen = IF e.gen = "any" THEN "any" ELSE "changed"]

(* Actor::fault                                                            *)
Faulted ==
  /\ connected' = FALSE /\ handshake' = FALSE /\ cache' = "empty"
  /\ queue' = MapQueue(NewGeneration)

(* Fault: a resume leaves the samples of the last epoch in the cache.      *)
ResumedWithCache ==
  /\ behind' = FALSE
  /\ connected' = FALSE /\ handshake' = FALSE
  /\ nextPoll' = IF retrying THEN nextPoll ELSE "due"
  /\ UNCHANGED <<queue, retrying, writeUncertain, cache>>

(* Fault: a resume also forgives the uncertain write.                      *)
ResumedForgiving ==
  /\ behind' = FALSE
  /\ connected' = FALSE /\ handshake' = FALSE /\ cache' = "empty"
  /\ nextPoll' = IF retrying THEN nextPoll ELSE "due"
  /\ writeUncertain' = FALSE
  /\ UNCHANGED <<queue, retrying>>

(* Actor::resume: the transport and its evidence are gone; leases, control,*)
(* the uncertain-write latch and a retry that is waiting all stay.         *)
Resumed ==
  /\ behind' = FALSE
  /\ connected' = FALSE /\ handshake' = FALSE /\ cache' = "empty"
  /\ nextPoll' = IF retrying THEN nextPoll ELSE "due"
  /\ UNCHANGED <<queue, retrying, writeUncertain>>

(* The reply of request e: whoever dropped it never hears.                 *)
Answered(e, a) ==
  IF e.open /\ e.op # "release" THEN [call EXCEPT ![e.lease].answer = a] ELSE call

(* What becomes of the write in hand, if its caller still waits.           *)
FateOf(e, f) == IF e.open THEN [fate EXCEPT ![e.lease] = f] ELSE fate

Idle == pc' = "idle" /\ cur' = None

(* A retry's wait; one that does not fit the clock is never.               *)
RetryLater == retrying' = TRUE /\ nextPoll' \in {"later", "never"}

(* resume::fence of an operation that was begun: it is interrupted.        *)
Interrupted == behind \/ ~clockValid

PollDue == leases # {} /\ nextPoll = "due"

(* The biased select takes a command only when no poll is due.             *)
CommandSelected == queue # <<>> /\ ~PollDue

(* The command e is taken from the queue; resume() has run before.         *)
Taken(op) ==
  /\ pc = "idle" /\ ~behind /\ CommandSelected
  /\ Head(queue).op = op

(* Requests of an earlier epoch are rejected, except for cleanup; one      *)
(* whose reply was dropped is skipped, except for a release.               *)
Admitted(e) == e.op = "release" \/ (e.open /\ (e.op = "yield" \/ ~e.old))

(* Actor::authorized, with the control check of the image read.            *)
Permitted(e) ==
  /\ e.lease \in leases
  /\ e.op = "write" => ~writeUncertain
  /\ e.op \in {"write", "image", "simulate"} => controller = e.lease

(* Control after l has given it back or has left.                          *)
ControlWithout(l) == IF controller = l THEN Nobody ELSE controller

-----------------------------------------------------------------------------
(* Commands                                                                *)

Discard ==
  /\ pc = "idle" /\ ~behind /\ CommandSelected
  /\ LET e == Head(queue) IN
       /\ e.op # "shutdown" /\ ~Admitted(e)
       /\ call' = Answered(e, "refused")
  /\ queue' = Tail(queue)
  /\ UNCHANGED <<hostVars, cur, pc, actorVars, linkVars, pollVars, guard, writeVars,
                 disconnects>>

(* The first lease connects; the others find the source as it is.          *)
Acquire ==
  /\ Taken("acquire")
  /\ LET e == Head(queue) IN
       /\ Admitted(e)
       /\ leases' = leases \cup {e.lease}
       /\ IF leases = {}
          THEN /\ cleaned' = FALSE /\ disconnects' = 0
               /\ pc' = "connect" /\ cur' = e
               /\ UNCHANGED call
          ELSE /\ call' = Answered(e, "ok")
               /\ UNCHANGED <<cleaned, disconnects, pc, cur>>
  /\ queue' = Tail(queue)
  /\ UNCHANGED <<hostVars, controller, writeUncertain, linkVars, pollVars, guard, writeVars>>

(* The last lease disconnects.                                             *)
Release ==
  /\ Taken("release")
  /\ LET e == Head(queue) IN
       /\ leases' = leases \ {e.lease}
       /\ IF e.lease \in leases /\ leases' = {}
          THEN /\ pc' = "disconnect" /\ cur' = e
               /\ UNCHANGED <<controller, guard>>
          ELSE /\ controller' = ControlWithout(e.lease)
               /\ guard' = [guard EXCEPT ![e.lease] = "free"]
               /\ UNCHANGED <<pc, cur>>
  /\ queue' = Tail(queue)
  /\ UNCHANGED <<hostVars, writeUncertain, cleaned, linkVars, pollVars, call, writeVars,
                 disconnects>>

(* Control, acquiring: refused while another lease has it.                 *)
Claim ==
  /\ Taken("claim")
  /\ LET e == Head(queue)
         free == e.lease \in leases /\ controller \in {Nobody, e.lease}
     IN /\ Admitted(e)
        /\ controller' = IF free THEN e.lease ELSE controller
        /\ call' = Answered(e, IF free THEN "ok" ELSE "refused")
  /\ queue' = Tail(queue)
  /\ UNCHANGED <<hostVars, cur, pc, leases, writeUncertain, cleaned, linkVars, pollVars,
                 guard, writeVars, disconnects>>

(* Control, giving it back.                                                *)
Yield ==
  /\ Taken("yield")
  /\ LET e == Head(queue) IN
       /\ Admitted(e)
       /\ controller' = ControlWithout(e.lease)
       /\ call' = Answered(e, IF e.lease \in leases THEN "ok" ELSE "refused")
  /\ queue' = Tail(queue)
  /\ UNCHANGED <<hostVars, cur, pc, leases, writeUncertain, cleaned, linkVars, pollVars,
                 guard, writeVars, disconnects>>

(* UpdateSimulation restarts the polling cycle at once, keeping the latch. *)
Simulate ==
  /\ Taken("simulate")
  /\ LET e == Head(queue) IN
       /\ Admitted(e)
       /\ \/ /\ Permitted(e)
             /\ cache' = "empty"
             /\ retrying' = FALSE /\ nextPoll' = "due"
             /\ call' = Answered(e, "ok")
          \/ /\ call' = Answered(e, "refused")
             /\ UNCHANGED <<cache, pollVars>>
  /\ queue' = Tail(queue)
  /\ UNCHANGED <<hostVars, cur, pc, actorVars, connected, handshake, guard, writeVars,
                 disconnects>>

(* Refresh: not while a retry waits, nor without a transport, which        *)
(* schedules a retry.                                                      *)
Refresh ==
  /\ Taken("refresh")
  /\ LET e == Head(queue) IN
       /\ Admitted(e)
       /\ \/ /\ Permitted(e) /\ (retrying => nextPoll = "due") /\ connected
             /\ pc' = "io" /\ cur' = e
             /\ UNCHANGED <<call, pollVars>>
          \/ /\ Permitted(e) /\ retrying /\ nextPoll # "due"
             /\ call' = Answered(e, "refused")
             /\ UNCHANGED <<pc, cur, pollVars>>
          \/ /\ ~Permitted(e) \/ (~connected /\ (retrying => nextPoll = "due"))
             /\ call' = Answered(e, "refused")
             /\ retrying' = TRUE /\ nextPoll' = "later"
             /\ UNCHANGED <<pc, cur>>
  /\ queue' = Tail(queue)
  /\ UNCHANGED <<hostVars, actorVars, linkVars, guard, writeVars, disconnects>>

(* The generation fence of read, image and write.                          *)
GenerationMatches(e) == e.gen # "changed"

(* The backend is handed the request. With the resume clock unusable,      *)
(* resume::fence turns it away, and the request is interrupted below.      *)
Dispatched(e) ==
  /\ pc' = "io" /\ cur' = e
  /\ sent' = (e.op = "write" /\ clockValid)
  /\ fate' = IF sent' THEN FateOf(e, "sent") ELSE fate
  /\ UNCHANGED call

(* The request ends here, with answer a.                                   *)
Turned(e, a) == call' = Answered(e, a) /\ Idle /\ UNCHANGED <<sent, fate>>

(* Read, CameraImage and Write: authorization, connection, generation.     *)
Request ==
  /\ pc = "idle" /\ ~behind /\ CommandSelected
  /\ LET e == Head(queue) IN
       /\ e.op \in Fenced /\ Admitted(e)
       /\ IF ~Permitted(e)
          THEN Turned(e, IF e.lease \in leases /\ e.op = "write" /\ writeUncertain
                         THEN "unknown" ELSE "refused")
          ELSE IF ~connected
          THEN pc' = "connect" /\ cur' = e /\ UNCHANGED <<call, sent, fate>>
          ELSE IF GenerationMatches(e) THEN Dispatched(e) ELSE Turned(e, "refused")
  /\ cache' = IF sent' /\ cache = "fresh" THEN "stale" ELSE cache
  /\ queue' = Tail(queue)
  /\ UNCHANGED <<hostVars, actorVars, connected, handshake, pollVars, guard, told, doubt,
                 disconnects>>

(* Shutdown: the queue is closed and emptied, every waiting caller finds   *)
(* the actor gone, and cleanup is not repeated if it was done before.      *)
Shutdown ==
  /\ Taken("shutdown")
  /\ call' = [l \in Leases |-> IF call[l].answer = "waiting"
                               THEN [call[l] EXCEPT !.answer = "refused"] ELSE call[l]]
  /\ guard' = [l \in Leases |-> IF guard[l] = "releasing" THEN "free" ELSE guard[l]]
  /\ leases' = {}
  /\ IF cleaned THEN pc' = "drain" ELSE pc' = "disconnect"
  /\ cur' = Head(queue)
  /\ queue' = <<>>
  /\ UNCHANGED <<hostVars, controller, writeUncertain, cleaned, linkVars, pollVars,
                 writeVars, disconnects>>

-----------------------------------------------------------------------------
(* Connecting                                                              *)

(* How Actor::connect ends: a handshake may need further steps, and one    *)
(* that has used up its allowance fails without asking the backend.        *)
ConnectOutcomes ==
  IF Interrupted THEN {"interrupted"} \cup (IF handshake THEN {"transient"} ELSE {})
  ELSE {"ok", "pending", "transient", "permanent", "uncertain"}

(* Actor::connect, the end of the handshake step with outcome o.           *)
Linked(o) ==
  /\ IF o = "ok"
     THEN /\ connected' = TRUE /\ handshake' = FALSE /\ cache' = "empty"
          /\ queue' = MapQueue(NewGeneration)
     ELSE IF o = "pending"
     THEN handshake' = TRUE /\ UNCHANGED <<connected, cache, queue>>
     ELSE Faulted
  /\ writeUncertain' = (writeUncertain \/ o = "uncertain")
  /\ doubt' = (doubt \/ o = "uncertain")
  /\ pc = "connect"

(* Acquire, after its connection: an offline source keeps the lease and is *)
(* polled. If the caller has gone the lease is taken back, and it was the  *)
(* only one.                                                               *)
AcquireConnected ==
  /\ cur.op = "acquire"
  /\ \E o \in ConnectOutcomes :
       /\ Linked(o)
       /\ IF o = "ok" THEN nextPoll' = "due" /\ UNCHANGED retrying ELSE RetryLater
  /\ IF cur.open
     THEN call' = Answered(cur, "ok") /\ Idle /\ UNCHANGED leases
     ELSE /\ leases' = leases \ {cur.lease}
          /\ pc' = "disconnect" /\ UNCHANGED <<call, cur>>
  /\ UNCHANGED <<hostVars, controller, cleaned, guard, sent, fate, told, disconnects>>

(* Read, CameraImage or Write, after its connection: the transport is new, *)
(* so a caller that expected a generation is turned away.                  *)
RequestConnected ==
  /\ cur.op \in Fenced
  /\ \E o \in ConnectOutcomes :
       /\ Linked(o)
       /\ IF o # "ok" THEN Turned(cur, IF o = "uncertain" THEN "unknown" ELSE "refused")
          ELSE LET e == NewGeneration(cur) IN
               IF GenerationMatches(e) THEN Dispatched(e) ELSE Turned(e, "refused")
  /\ UNCHANGED <<hostVars, leases, controller, cleaned, pollVars, guard, told, disconnects>>

(* poll(), after its connection: sampling follows, a handshake in progress *)
(* is looked at again soon, and a failure ends the attempt.                *)
PollConnected ==
  /\ cur.op = "poll"
  /\ \E o \in ConnectOutcomes :
       IF o \in {"ok", "pending"} \/ ~behind
       THEN /\ Linked(o)
            /\ CASE o = "ok" -> pc' = "io" /\ UNCHANGED <<cur, pollVars>>
                 [] o = "pending" -> Idle /\ nextPoll' = "later" /\ UNCHANGED retrying
                 [] o = "transient" -> Idle /\ RetryLater
                 [] OTHER -> Idle /\ retrying' = TRUE /\ nextPoll' = "later"
            /\ UNCHANGED behind
       ELSE /\ pc = "connect" /\ Resumed /\ Idle
            /\ UNCHANGED doubt
  /\ UNCHANGED <<clockValid, leases, controller, cleaned, guard, call, sent, fate, told,
                 disconnects>>

-----------------------------------------------------------------------------
(* Backend operations                                                      *)

Kept == UNCHANGED <<linkVars, queue>>

(* Read and CameraImage: only a lost transport changes the source.         *)
ReadEnds ==
  /\ pc = "io" /\ cur.op \in {"read", "image"}
  /\ \/ ~Interrupted /\ call' = Answered(cur, "ok") /\ Kept
     \/ ~Interrupted /\ call' = Answered(cur, "refused") /\ Kept
     \/ call' = Answered(cur, "refused") /\ Faulted
  /\ Idle
  /\ UNCHANGED <<hostVars, actorVars, pollVars, guard, writeVars, disconnects>>

RefreshEnds ==
  /\ pc = "io" /\ cur.op = "refresh"
  /\ \/ /\ ~Interrupted /\ call' = Answered(cur, "ok") /\ Kept
        /\ nextPoll' = "due" /\ UNCHANGED retrying
     \/ /\ ~Interrupted /\ call' = Answered(cur, "refused")
        /\ Kept \/ Faulted
        /\ RetryLater \/ UNCHANGED pollVars
     \/ /\ Interrupted /\ call' = Answered(cur, "refused") /\ Faulted
        /\ UNCHANGED pollVars
  /\ Idle
  /\ UNCHANGED <<hostVars, actorVars, guard, writeVars, disconnects>>

(* Fault: a command that succeeded polls at once, retry or not.            *)
PollAfterWriteAtOnce == nextPoll' = "due" /\ UNCHANGED retrying

(* A command that succeeded is confirmed by a new poll, unless a retry     *)
(* waits.                                                                  *)
PollAfterWrite == nextPoll' = (IF retrying THEN nextPoll ELSE "due") /\ UNCHANGED retrying

(* Whether an acknowledged write empties the cache.                        *)
CacheAfterWrite == cache' = "empty"

(* The write was not confirmed: it is latched and the transport retired.   *)
WriteUnknown ==
  /\ writeUncertain' = TRUE
  /\ doubt' = (doubt \/ sent)
  /\ fate' = IF sent THEN FateOf(cur, "ambiguous") ELSE fate
  /\ call' = Answered(cur, "unknown")
  /\ Faulted /\ UNCHANGED pollVars

(* The write was turned down, or never left the hub.                       *)
WriteRejected ==
  /\ fate' = IF sent THEN FateOf(cur, "rejected") ELSE fate
  /\ call' = Answered(cur, "refused")
  /\ UNCHANGED <<writeUncertain, doubt, pollVars>>

(* A write that the host slept through has an unknown outcome; without a   *)
(* usable clock it was never handed over.                                  *)
WriteInterrupted == IF behind THEN WriteUnknown ELSE WriteRejected /\ Faulted

WriteEnds ==
  /\ pc = "io" /\ cur.op = "write"
  /\ \/ Interrupted /\ WriteInterrupted
     \/ /\ ~Interrupted
        /\ \/ /\ CacheAfterWrite /\ PollAfterWrite
              /\ fate' = FateOf(cur, "done") /\ call' = Answered(cur, "ok")
              /\ UNCHANGED <<connected, handshake, queue, writeUncertain, doubt>>
           \/ WriteUnknown
           \/ /\ WriteRejected
              /\ \/ Faulted
                 \/ /\ cache' = IF cache = "stale" THEN "fresh" ELSE cache
                    /\ UNCHANGED <<connected, handshake, queue>>
  /\ sent' = FALSE
  /\ Idle
  /\ UNCHANGED <<hostVars, leases, controller, cleaned, guard, told, disconnects>>

(* poll(): nothing else is in hand and the time has come.                  *)
PollBegins ==
  /\ pc = "idle" /\ ~behind /\ PollDue
  /\ cur' = None
  /\ pc' = IF connected THEN "io" ELSE "connect"
  /\ UNCHANGED <<hostVars, queue, actorVars, linkVars, pollVars, guard, call, writeVars,
                 disconnects>>

(* poll(), the sample: a complete one, one with retryable errors in it, or *)
(* none; a sleep in between discards it.                                   *)
PollEnds ==
  /\ pc = "io" /\ cur.op = "poll"
  /\ \/ behind /\ Resumed
     \/ /\ ~behind /\ UNCHANGED <<behind, writeUncertain>>
        /\ \/ /\ clockValid /\ cache' = "fresh" /\ UNCHANGED <<connected, handshake, queue>>
              /\ \/ retrying' = FALSE /\ nextPoll' = "later"
                 \/ RetryLater
           \/ clockValid /\ RetryLater /\ (Kept \/ Faulted)
           \/ retrying' = TRUE /\ nextPoll' = "later" /\ (Faulted \/ (clockValid /\ Kept))
  /\ Idle
  /\ UNCHANGED <<clockValid, leases, controller, cleaned, guard, call, writeVars, disconnects>>

(* disconnect() has been attempted, whatever its result.                   *)
CleanedOnce == TRUE

(* Actor::disconnect ends: the session's state is gone whether or not the  *)
(* backend managed to disconnect.                                          *)
DisconnectEnds ==
  /\ pc = "disconnect"
  /\ connected' = FALSE /\ handshake' = FALSE /\ cache' = "empty"
  /\ queue' = MapQueue(NewGeneration)
  /\ controller' = Nobody /\ writeUncertain' = FALSE /\ doubt' = FALSE
  /\ retrying' = FALSE /\ nextPoll' = "never"
  /\ cleaned' = CleanedOnce /\ disconnects' = disconnects + 1
  /\ IF cur.op = "shutdown" THEN pc' = "drain" /\ UNCHANGED <<cur, guard>>
     ELSE /\ Idle
          /\ guard' = IF cur.op = "release" THEN [guard EXCEPT ![cur.lease] = "free"]
                      ELSE guard
  /\ UNCHANGED <<hostVars, leases, call, sent, fate, told>>

(* finish_shutdown, then completion is published.                          *)
Drain ==
  /\ pc = "drain"
  /\ pc' = "stopped" /\ cur' = None
  /\ UNCHANGED <<hostVars, queue, actorVars, linkVars, pollVars, guard, call, writeVars,
                 disconnects>>

(* The loop's first branch: resume().                                      *)
Resume ==
  /\ pc = "idle" /\ behind
  /\ Resumed
  /\ UNCHANGED <<clockValid, cur, pc, leases, controller, cleaned, guard, call, writeVars,
                 disconnects>>

-----------------------------------------------------------------------------
(* The host and the clients                                                *)

(* The host sleeps and resumes, or its sleep clock fails or recovers: the  *)
(* epoch advances, and readers see another generation at once.             *)
Sleep ==
  /\ behind' = TRUE /\ clockValid' \in BOOLEAN
  /\ LET Older(e) == IF e.op \in {"release", "shutdown", "gone"} THEN e
                     ELSE [e EXCEPT !.old = TRUE, !.gen = "any"]
     IN queue' = MapQueue(Older)
  /\ cache' = IF cache = "fresh" THEN "old" ELSE cache
  /\ call' = [l \in Leases |-> [call[l] EXCEPT !.old = call[l].op \in Fenced]]
  /\ fate' = [l \in Leases |-> IF call[l].op = "write" /\ fate[l] = "done"
                               THEN "overtaken" ELSE fate[l]]
  /\ cur' = [cur EXCEPT !.old = pc = "connect" /\ cur.op \in Fenced]
  /\ pc # "stopped"
  /\ UNCHANGED <<pc, actorVars, connected, handshake, pollVars, guard, sent, told, doubt,
                 disconnects>>

(* The time of the next poll comes.                                        *)
Timer ==
  /\ nextPoll = "later" /\ nextPoll' = "due"
  /\ UNCHANGED <<hostVars, queue, cur, pc, actorVars, linkVars, retrying, guard, call,
                 writeVars, disconnects>>

ActorUnchanged == UNCHANGED <<hostVars, pc, actorVars, linkVars, pollVars, sent, doubt,
                              disconnects>>
Accepting == pc \notin {"drain", "stopped"} /\ cur.op # "shutdown"

ReleaseEntry(l) == [op |-> "release", lease |-> l, old |-> FALSE, gen |-> "any", open |-> TRUE]

(* SourceHandle::release: cleanup waits for its turn behind a full queue.  *)
ReleaseQueued(q, l) == Append(q, ReleaseEntry(l))

(* The caller of l has gone. Its request in the queue will be skipped,     *)
(* whatever it was; the one in hand goes on, unheard.                      *)
Skipped(l, e) ==
  IF e.lease = l /\ e.op # "release" THEN [None EXCEPT !.op = "gone"] ELSE e
Unheard(l) == IF cur.lease = l /\ cur.op # "release" THEN [cur EXCEPT !.open = FALSE] ELSE cur

(* SourceLease::acquire: a full queue fails it, and the guard is dropped.  *)
NewGuard(l) ==
  /\ Accepting /\ guard[l] = "free"
  /\ IF Len(queue) < QueueCap
     THEN /\ guard' = [guard EXCEPT ![l] = "held"]
          /\ queue' = Append(queue, [op |-> "acquire", lease |-> l, old |-> FALSE,
                                     gen |-> "any", open |-> TRUE])
          /\ call' = [call EXCEPT ![l] = [op |-> "acquire", old |-> FALSE,
                                          answer |-> "waiting"]]
     ELSE /\ guard' = [guard EXCEPT ![l] = "dropped"]
          /\ UNCHANGED <<queue, call>>
  /\ UNCHANGED <<cur, fate, told>>
  /\ ActorUnchanged

(* The generations a caller can expect: one that is gone, or the one that  *)
(* the snapshot shows it now, on a transport that is up or not.            *)
Expected(op) ==
  (IF op = "image" THEN {} ELSE {"any"})
  \cup (IF op \in Fenced THEN {"changed"} ELSE {})
  \cup (IF op \in Fenced /\ clockValid
        THEN {IF connected /\ ~behind THEN "live" ELSE "dead"} ELSE {})

(* SourceHandle::enqueue of any other request; a full queue is an error at *)
(* once and changes nothing.                                               *)
Call(l, op) ==
  /\ Accepting /\ guard[l] = "held" /\ call[l] = NoCall
  /\ Len(queue) < QueueCap
  /\ \E g \in Expected(op) :
       queue' = Append(queue, [op |-> op, lease |-> l, old |-> FALSE, gen |-> g, open |-> TRUE])
  /\ call' = [call EXCEPT ![l] = [op |-> op, old |-> FALSE, answer |-> "waiting"]]
  /\ fate' = [fate EXCEPT ![l] = "unsent"] /\ told' = [told EXCEPT ![l] = "none"]
  /\ UNCHANGED <<cur, guard>>
  /\ ActorUnchanged

(* Fault: the waiter passes on whatever the actor said before the sleep.   *)
HeardLate(c) == c.answer

(* What the waiter makes of the answer: read_fenced and write_fenced do    *)
(* not let a success through that the host slept over.                     *)
Heard(c) ==
  IF c.answer = "ok" /\ c.op \in Fenced /\ (c.old \/ ~clockValid)
  THEN IF c.op = "write" THEN "unknown" ELSE "refused"
  ELSE c.answer

Return(l) ==
  /\ call[l].answer \in {"ok", "refused", "unknown"}
  /\ call' = [call EXCEPT ![l] = NoCall]
  /\ told' = IF call[l].op = "write" THEN [told EXCEPT ![l] = Heard(call[l])] ELSE told
  /\ guard' = IF call[l].op = "acquire" /\ call[l].answer = "refused"
              THEN [guard EXCEPT ![l] = "dropped"] ELSE guard
  /\ UNCHANGED <<queue, cur, fate>>
  /\ ActorUnchanged

(* The caller gives up its request and keeps the guard.                    *)
Cancel(l) ==
  /\ call[l].answer = "waiting" /\ call[l].op # "acquire"
  /\ call' = [call EXCEPT ![l] = NoCall]
  /\ LET Closed(e) == Skipped(l, e) IN queue' = MapQueue(Closed)
  /\ cur' = Unheard(l)
  /\ UNCHANGED <<guard, fate, told>>
  /\ ActorUnchanged

(* Drop for SourceLease: what its holder sent is unheard, and a task is    *)
(* spawned that sends the release.                                         *)
Drop(l) ==
  /\ guard[l] = "held"
  /\ guard' = [guard EXCEPT ![l] = "dropped"]
  /\ call' = [call EXCEPT ![l] = NoCall]
  /\ LET Closed(e) == Skipped(l, e) IN queue' = MapQueue(Closed)
  /\ cur' = Unheard(l)
  /\ fate' = [fate EXCEPT ![l] = "unsent"] /\ told' = [told EXCEPT ![l] = "none"]
  /\ ActorUnchanged

(* The task runs: behind everything its holder sent, or after the actor.   *)
SendRelease(l) ==
  /\ guard[l] = "dropped"
  /\ IF Accepting
     THEN /\ guard' = [guard EXCEPT ![l] = "releasing"]
          /\ queue' = ReleaseQueued(queue, l)
     ELSE guard' = [guard EXCEPT ![l] = "free"] /\ UNCHANGED queue
  /\ UNCHANGED <<cur, call, fate, told>>
  /\ ActorUnchanged

(* SourceHandle::shutdown                                                  *)
AskShutdown ==
  /\ Accepting /\ \A i \in DOMAIN queue : queue[i].op # "shutdown"
  /\ queue' = Append(queue, [op |-> "shutdown", lease |-> Nobody, old |-> FALSE,
                             gen |-> "any", open |-> TRUE])
  /\ UNCHANGED <<cur, guard, call, fate, told>>
  /\ ActorUnchanged

-----------------------------------------------------------------------------
Receive == \/ Discard \/ Acquire \/ Release \/ Claim \/ Yield \/ Simulate \/ Refresh
           \/ Request \/ Shutdown
Progress == \/ AcquireConnected \/ RequestConnected \/ PollConnected
            \/ ReadEnds \/ RefreshEnds \/ WriteEnds \/ PollEnds
            \/ DisconnectEnds \/ Drain \/ Resume \/ PollBegins

Client == \E l \in Leases :
             \/ NewGuard(l) \/ Return(l) \/ Cancel(l) \/ Drop(l) \/ SendRelease(l)
             \/ \E op \in Ops : Call(l, op)

Next == Receive \/ Progress \/ Client \/ AskShutdown \/ Sleep \/ Timer

(* Every backend operation ends within its deadline and the actor's loop   *)
(* goes on. After a poll the next one is always later, so the loop meets   *)
(* the queue again and again with no poll due. A spawned task is run.      *)
Fairness == /\ WF_vars(Progress) /\ SF_vars(Receive) /\ WF_vars(Timer)
            /\ \A l \in Leases : WF_vars(SendRelease(l))

Spec == Init /\ [][Next]_vars /\ Fairness

-----------------------------------------------------------------------------
(* Properties                                                              *)

(* What holds of an actor between two steps, for every interleaving of     *)
(* clients, sleeps and backend failures: only a lease holder has control,  *)
(* there is no session without a lease, and no evidence without transport. *)
SourceInv ==
  /\ TypeOK
  /\ controller # Nobody /\ pc # "disconnect" => controller \in leases
  /\ leases = {} /\ pc \in {"idle", "drain", "stopped"} =>
        /\ cleaned /\ ~connected /\ ~handshake /\ controller = Nobody
        /\ ~writeUncertain /\ ~retrying
  /\ leases # {} => ~cleaned
  /\ ~connected => cache = "empty"
  /\ \A l \in leases : guard[l] # "free"
  /\ pc \in {"drain", "stopped"} => queue = <<>> /\ leases = {}
  /\ sent => pc = "io" /\ cur.op = "write"
  /\ doubt => writeUncertain
  /\ Len(queue) <= QueueCap + Cardinality(Leases) + 1

(* No write is handed to the backend while an earlier one of the session   *)
(* has no known outcome, across sleeps, reconnections, cancelled callers   *)
(* and simulation updates.                                                 *)
NoWriteInDoubt == [][sent' /\ ~sent => ~doubt]_vars

(* A write that was requested before a sleep is never handed over after it.*)
NoReplayAfterSleep == [][sent' /\ ~sent => ~cur'.old]_vars

(* A write that names a generation is handed over only on the very         *)
(* transport its caller saw connected.                                     *)
WriteOnSeenTransport == [][sent' /\ ~sent => cur'.gen \in {"any", "live"}]_vars

(* The caller of a write is told the truth: success only if the equipment  *)
(* acknowledged it with no sleep in between, refusal only if it never had  *)
(* it or turned it down.                                                   *)
WritesToldTrue ==
  \A l \in Leases :
    /\ told[l] = "ok" => fate[l] = "done"
    /\ told[l] = "refused" => fate[l] \in {"unsent", "rejected"}

(* What SourceHandle::with_snapshot shows.                                 *)
Visible == IF Interrupted THEN "empty" ELSE cache

(* No reader sees a sample from before a sleep, nor one that an            *)
(* acknowledged write has outdated.                                        *)
NoOutdatedEvidence == Visible = "stale" => pc = "io" /\ cur.op = "write"
NoEvidenceFromBeforeSleep == Visible # "old"

(* A retry's wait (backoff or Retry-After) is cut short by nothing but the *)
(* end of the session or a simulation update: not by writes, reads,        *)
(* refreshes, leases coming and going, or a resume.                        *)
RetryWaitKept ==
  [][retrying /\ nextPoll \in {"later", "never"} /\ nextPoll' # nextPoll
       => Timer \/ ~retrying']_vars

(* The backend is asked to disconnect at most once in a session, whichever *)
(* of the last release, a vanished caller and the shutdown come together.  *)
OneDisconnect == disconnects <= 1

(* The actor's bookkeeping agrees with its leases over every command, the  *)
(* caller of a write is told the truth, no reader sees a sample from before*)
(* a sleep or an acknowledged write; whichever of the last release, a      *)
(* vanished caller and the shutdown come together, the backend is          *)
(* disconnected once (source.rs release, write, disconnect, with_snapshot).*)
ActorSound ==
  /\ SourceInv /\ WritesToldTrue
  /\ NoOutdatedEvidence /\ NoEvidenceFromBeforeSleep
  /\ OneDisconnect

Awake == <>[](~behind /\ clockValid)

(* Clients that flood the queue cannot keep a due poll from being taken.   *)
PollNotStarved ==
  Awake => []<>((pc \in {"connect", "io"} /\ cur.op = "poll") \/ ~PollDue)

(* Every request is answered, and every dropped guard gives its lease back.*)
RequestsAnswered ==
  Awake => \A l \in Leases : /\ []<>(call[l].answer # "waiting")
                             /\ []<>(guard[l] \in {"free", "held"})
=============================================================================
