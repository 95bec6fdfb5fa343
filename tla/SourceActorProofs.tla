------------------------- MODULE SourceActorProofs -------------------------
(***************************************************************************)
(* Proofs about SourceActor for any number of lease guards, any capacity of*)
(* the queue and any set of commands; and, at the end, about TypedSamples, *)
(* the polling that keeps a source's samples, for any properties.          *)
(***************************************************************************)
EXTENDS SourceActor, TypedSamples, FiniteSetTheorems, WellFoundedInduction, TLAPS

-----------------------------------------------------------------------------
(* The inductive invariant                                                 *)

(* Entries nobody waits for an answer of.                                  *)
Silent == {"poll", "gone", "release", "shutdown"}
Waits(e) == e.open /\ e.op \notin Silent

(* A request that is waited for is its holder's only one; a release is that*)
(* of a guard that was dropped.                                            *)
EntryInv(e, g, c) ==
  /\ e.op = "gone" => ~e.open
  /\ e.op = "shutdown" => e.open /\ e.lease = Nobody
  /\ e.op = "release" => e.lease \in Leases /\ g[e.lease] = "releasing"
  /\ Waits(e) => /\ e.lease \in Leases /\ g[e.lease] = "held"
                 /\ c[e.lease].answer = "waiting" /\ c[e.lease].op = e.op

Apart(d, e) ==
  /\ Waits(d) /\ Waits(e) => d.lease # e.lease
  /\ d.op = "release" /\ e.op = "release" => d.lease # e.lease

QueueInv ==
  /\ \A i \in DOMAIN queue : /\ queue[i].op # "poll"
                            /\ EntryInv(queue[i], guard, call) /\ Apart(cur, queue[i])
  /\ \A i, j \in DOMAIN queue : i # j => Apart(queue[i], queue[j])
  /\ EntryInv(cur, guard, call)

(* The parts of SourceInv but the bound of the queue.                      *)
BaseInv ==
  /\ controller # Nobody /\ pc # "disconnect" => controller \in leases
  /\ leases = {} /\ pc \in {"idle", "drain", "stopped"} =>
        /\ cleaned /\ ~connected /\ ~handshake /\ controller = Nobody
        /\ ~writeUncertain /\ ~retrying
  /\ leases # {} => ~cleaned
  /\ ~connected => cache = "empty"
  /\ \A l \in leases : guard[l] # "free"
  /\ pc \in {"drain", "stopped"} => queue = <<>> /\ leases = {}
  /\ sent => pc = "io" /\ cur.op = "write"
  /\ doubt => writeUncertain

(* What the actor has in hand, by where it is.                             *)
PlaceInv ==
  /\ pc \in {"idle", "stopped"} => cur = None
  /\ pc = "connect" => cur.op \in {"acquire", "poll"} \cup Fenced
  /\ pc = "io" => cur.op \in {"refresh", "poll"} \cup Fenced
  /\ pc = "disconnect" => cur.op \in {"release", "shutdown", "acquire"} /\ leases = {}
  /\ pc = "disconnect" /\ cur.op = "acquire" => ~cur.open
  /\ pc = "drain" => cur.op = "shutdown"
  /\ cur.op = "shutdown" => queue = <<>>
  /\ pc = "connect" /\ cur.op = "acquire" =>
        /\ leases = {cur.lease} /\ controller = Nobody /\ ~retrying
        /\ cur.lease \in Leases
        /\ guard[cur.lease] \in (IF cur.open THEN {"held"} ELSE {"dropped", "releasing"})
  /\ pc \in {"connect", "io"} => leases # {}
  /\ pc = "io" /\ cur.op = "poll" => connected
  /\ pc \in {"connect", "io"} /\ cur.op = "poll" => nextPoll = "due"
  /\ pc = "io" /\ cur.op = "refresh" => (retrying => nextPoll = "due")

(* A guard that was let go waits for nothing; one that is held and was     *)
(* acquired has its lease as long as the actor takes commands.             *)
LeaseInv ==
  \A l \in Leases :
    /\ guard[l] # "held" => call[l] = NoCall \/ ~Accepting
    /\ Accepting /\ guard[l] = "held" /\ (call[l].op # "acquire" \/ call[l].answer = "ok") =>
          l \in leases
    /\ call[l].op = "none" => call[l] = NoCall
    /\ call[l].op = "acquire" => call[l].answer # "unknown"

(* Fences: what is being connected for a write is not in doubt and not of  *)
(* an earlier epoch; on a transport that is up nobody expects one that is  *)
(* gone; what a reader must not see is hidden by a write or by a resume    *)
(* that is still to come.                                                  *)
FenceInv ==
  /\ pc = "connect" /\ cur.op = "write" => ~writeUncertain
  /\ pc = "connect" /\ cur.op \in Fenced /\ cur.old => behind
  /\ connected /\ ~behind => \A i \in DOMAIN queue : queue[i].gen # "dead"
  /\ cache = "stale" => pc = "io" /\ cur.op = "write"
  /\ cache = "old" => behind
  /\ pc = "disconnect" \/ leases # {} => disconnects = 0
  /\ disconnects <= 1

(* The write of l's caller is at the equipment, and the caller waits.      *)
AtEquipment(l) == sent /\ cur.open /\ cur.lease = l

FateInv ==
  \A l \in Leases : call[l].op = "write" =>
    /\ told[l] = "none"
    /\ call[l].answer = "waiting" /\ ~AtEquipment(l) => fate[l] = "unsent"
    /\ call[l].answer = "refused" => fate[l] \in {"unsent", "rejected"}
    /\ call[l].answer = "ok" => fate[l] = "done" \/ (fate[l] = "overtaken" /\ call[l].old)

(* Beyond its capacity the queue holds releases of guards and one shutdown.*)
Releasing == {l \in Leases : guard[l] = "releasing"}
Busy == IF pc = "disconnect" /\ cur.op = "release" THEN 1 ELSE 0
Stop == IF \E i \in DOMAIN queue : queue[i].op = "shutdown" THEN 1 ELSE 0
LengthInv == Len(queue) + Busy <= QueueCap + Cardinality(Releasing) + Stop

ActorInv == /\ TypeOK /\ BaseInv /\ QueueInv /\ PlaceInv /\ LeaseInv
            /\ FenceInv /\ FateInv /\ LengthInv /\ WritesToldTrue

-----------------------------------------------------------------------------
(* The queue                                                               *)

Records == [op : AllOps \cup {"none"}, old : BOOLEAN,
            answer : {"none", "waiting", "ok", "refused", "unknown"}]

(* Taking the first of the waiting commands.                               *)
LEMMA TailOfQueue ==
  ASSUME queue \in Seq(Entries), queue # <<>>
  PROVE  /\ Tail(queue) \in Seq(Entries)
         /\ Len(Tail(queue)) = Len(queue) - 1
         /\ DOMAIN Tail(queue) = 1 .. Len(queue) - 1
         /\ \A i \in DOMAIN Tail(queue) :
               i + 1 \in DOMAIN queue /\ i + 1 # 1 /\ Tail(queue)[i] = queue[i + 1]
         /\ 1 \in DOMAIN queue /\ Head(queue) = queue[1] /\ Head(queue) \in Entries
OBVIOUS

(* Sending a command.                                                      *)
LEMMA AppendToQueue ==
  ASSUME queue \in Seq(Entries), NEW e \in Entries
  PROVE  /\ Append(queue, e) \in Seq(Entries)
         /\ Len(Append(queue, e)) = Len(queue) + 1
         /\ \A i \in DOMAIN Append(queue, e) :
               \/ i \in DOMAIN queue /\ Append(queue, e)[i] = queue[i]
               \/ i = Len(queue) + 1 /\ i \notin DOMAIN queue /\ Append(queue, e)[i] = e
OBVIOUS

LEMMA SameSequence ==
  ASSUME queue \in Seq(Entries), NEW q, DOMAIN q = DOMAIN queue,
         q = [i \in DOMAIN queue |-> q[i]],
         \A i \in DOMAIN queue : q[i] \in Entries
  PROVE  q \in Seq(Entries) /\ Len(q) = Len(queue)
OBVIOUS

(* A new generation (Actor::fault, connect) changes no entry otherwise.    *)
LEMMA RegeneratedQueue ==
  ASSUME queue \in Seq(Entries), queue' = MapQueue(NewGeneration)
  PROVE  /\ queue' \in Seq(Entries) /\ Len(queue') = Len(queue)
         /\ DOMAIN queue' = DOMAIN queue
         /\ \A i \in DOMAIN queue :
               /\ queue'[i].op = queue[i].op /\ queue'[i].lease = queue[i].lease
               /\ queue'[i].open = queue[i].open /\ queue'[i].old = queue[i].old
               /\ queue'[i].gen \in {"any", "changed"}
<1>1. \A i \in DOMAIN queue : queue[i] \in Entries
  OBVIOUS
<1>2. \A i \in DOMAIN queue : queue'[i] = NewGeneration(queue[i])
  BY DEF MapQueue
<1>3. ASSUME NEW e \in Entries
      PROVE  /\ NewGeneration(e) \in Entries /\ NewGeneration(e).op = e.op
             /\ NewGeneration(e).lease = e.lease /\ NewGeneration(e).open = e.open
             /\ NewGeneration(e).old = e.old /\ NewGeneration(e).gen \in {"any", "changed"}
  BY DEF NewGeneration, Entries, Gens
<1>4. DOMAIN queue' = DOMAIN queue /\ queue' = [i \in DOMAIN queue |-> queue'[i]]
  BY DEF MapQueue
<1>5. queue' \in Seq(Entries) /\ Len(queue') = Len(queue)
  BY <1>1, <1>2, <1>3, <1>4, SameSequence
<1> QED BY <1>1, <1>2, <1>3, <1>4, <1>5

(* Answering a request touches its waiter only.                            *)
LEMMA AnsweredFacts ==
  ASSUME call \in [Leases -> Records], NEW e, NEW a \in {"ok", "refused", "unknown"}
  PROVE  /\ Answered(e, a) \in [Leases -> Records]
         /\ \A l \in Leases :
               /\ Answered(e, a)[l].op = call[l].op /\ Answered(e, a)[l].old = call[l].old
               /\ ~(e.open /\ e.op # "release" /\ e.lease = l) => Answered(e, a)[l] = call[l]
               /\ e.open /\ e.op # "release" /\ e.lease = l => Answered(e, a)[l].answer = a
BY DEF Answered, Records

(* The older generation of every waiting request (Sleep).                  *)
LEMMA SleptQueue ==
  ASSUME queue \in Seq(Entries), Sleep
  PROVE  /\ queue' \in Seq(Entries) /\ Len(queue') = Len(queue)
         /\ DOMAIN queue' = DOMAIN queue
         /\ \A i \in DOMAIN queue :
               /\ queue'[i].op = queue[i].op /\ queue'[i].lease = queue[i].lease
               /\ queue'[i].open = queue[i].open
<1> DEFINE O(e) == IF e.op \in {"release", "shutdown", "gone"} THEN e
                   ELSE [e EXCEPT !.old = TRUE, !.gen = "any"]
<1>1. \A i \in DOMAIN queue : queue[i] \in Entries
  OBVIOUS
<1>2. DOMAIN queue' = DOMAIN queue /\ queue' = [i \in DOMAIN queue |-> queue'[i]]
  BY DEF MapQueue, Sleep
<1>3. \A i \in DOMAIN queue : queue'[i] = O(queue[i])
  BY DEF MapQueue, Sleep
<1>4. ASSUME NEW e \in Entries
      PROVE  /\ O(e) \in Entries /\ O(e).op = e.op
             /\ O(e).lease = e.lease /\ O(e).open = e.open
  BY DEF Entries, Gens
<1> HIDE DEF O
<1>5. queue' \in Seq(Entries) /\ Len(queue') = Len(queue)
  BY <1>1, <1>2, <1>3, <1>4, SameSequence
<1> QED BY <1>1, <1>2, <1>3, <1>4, <1>5

(* The requests of a caller that has gone (Cancel, Drop).                  *)
LEMMA SkippedQueue ==
  ASSUME queue \in Seq(Entries), NEW l \in Leases,
         queue' = [i \in DOMAIN queue |-> Skipped(l, queue[i])]
  PROVE  /\ queue' \in Seq(Entries) /\ Len(queue') = Len(queue)
         /\ DOMAIN queue' = DOMAIN queue
         /\ \A i \in DOMAIN queue :
               IF queue[i].lease = l /\ queue[i].op # "release"
               THEN queue'[i] = [None EXCEPT !.op = "gone"] ELSE queue'[i] = queue[i]
<1>1. \A i \in DOMAIN queue : queue[i] \in Entries
  OBVIOUS
<1>2. [None EXCEPT !.op = "gone"] \in Entries
  BY DEF None, Entries, Gens
<1>3. \A i \in DOMAIN queue : queue'[i] \in Entries
  BY <1>1, <1>2 DEF Skipped
<1>4. queue' \in Seq(Entries) /\ Len(queue') = Len(queue)
  BY <1>1, <1>3, SameSequence
<1> QED BY <1>4 DEF Skipped

-----------------------------------------------------------------------------
(* Types                                                                   *)

Guards == {"free", "held", "dropped", "releasing"}
Fates == {"unsent", "sent", "done", "overtaken", "rejected", "ambiguous"}
Tellings == {"none", "ok", "refused", "unknown"}

LEMMA FateOfType ==
  ASSUME fate \in [Leases -> Fates], NEW e, NEW f \in Fates
  PROVE  FateOf(e, f) \in [Leases -> Fates]
BY DEF FateOf

LEMMA NoneType == None \in Entries
BY DEF None, Entries, Gens

(* The flags stay flags.                                                   *)
LEMMA FlagTypes ==
  ASSUME TypeOK, Next
  PROVE  /\ behind' \in BOOLEAN /\ clockValid' \in BOOLEAN /\ writeUncertain' \in BOOLEAN
         /\ connected' \in BOOLEAN /\ handshake' \in BOOLEAN /\ cleaned' \in BOOLEAN
         /\ retrying' \in BOOLEAN /\ sent' \in BOOLEAN /\ doubt' \in BOOLEAN
<1> DEFINE Flag(f, g) == g = f \/ g = TRUE \/ g = FALSE
<1>1. /\ Flag(behind, behind') /\ clockValid' \in BOOLEAN \cup {clockValid}
      /\ Flag(connected, connected') /\ Flag(handshake, handshake')
      /\ Flag(cleaned, cleaned') /\ Flag(retrying, retrying')
  <2> USE DEF hostVars, actorVars, linkVars, pollVars, writeVars, ActorUnchanged
  <2>1. CASE Receive
    BY <2>1 DEF Receive, Discard, Acquire, Release, Claim, Yield, Simulate, Refresh, Request,
         Shutdown
  <2>2. CASE Progress
    BY <2>2 DEF Progress, AcquireConnected, RequestConnected, PollConnected, ReadEnds,
         RefreshEnds, WriteEnds, PollEnds, DisconnectEnds, Drain, Resume, PollBegins,
         CleanedOnce, Linked, Faulted, Resumed, Kept, RetryLater, WriteInterrupted,
         WriteRejected, WriteUnknown, PollAfterWrite
  <2>3. CASE Client
    BY <2>3 DEF Client, NewGuard, Return, Cancel, Drop, SendRelease, Call
  <2>4. CASE AskShutdown \/ Sleep \/ Timer
    BY <2>4 DEF AskShutdown, Sleep, Timer
  <2> QED BY <2>1, <2>2, <2>3, <2>4 DEF Next
<1>2. /\ Flag(sent, sent') \/ sent' = (Head(queue).op = "write" /\ clockValid)
         \/ sent' = (cur.op = "write" /\ clockValid)
         \/ sent' = (NewGeneration(cur).op = "write" /\ clockValid)
      /\ Flag(writeUncertain, writeUncertain')
      /\ Flag(doubt, doubt') \/ doubt' = (doubt \/ sent)
  <2> USE DEF hostVars, actorVars, linkVars, pollVars, writeVars, ActorUnchanged
  <2>1. CASE Receive
    BY <2>1 DEF Receive, Discard, Acquire, Release, Claim, Yield, Simulate, Refresh, Request,
         Shutdown, Turned, Dispatched
  <2>2. CASE Progress
    BY <2>2 DEF Progress, AcquireConnected, RequestConnected, PollConnected, ReadEnds,
         RefreshEnds, WriteEnds, PollEnds, DisconnectEnds, Drain, Resume, PollBegins,
         Linked, Resumed, WriteInterrupted, WriteRejected, WriteUnknown, Turned, Dispatched
  <2>3. CASE Client
    BY <2>3 DEF Client, NewGuard, Return, Cancel, Drop, SendRelease, Call
  <2>4. CASE AskShutdown \/ Sleep \/ Timer
    BY <2>4 DEF AskShutdown, Sleep, Timer
  <2> QED BY <2>1, <2>2, <2>3, <2>4 DEF Next
<1>3. behind' \in BOOLEAN /\ clockValid' \in BOOLEAN
  BY <1>1, Zenon DEF TypeOK
<1>4. connected' \in BOOLEAN /\ handshake' \in BOOLEAN /\ cleaned' \in BOOLEAN
  BY <1>1, Zenon DEF TypeOK
<1>5. retrying' \in BOOLEAN
  BY <1>1, Zenon DEF TypeOK
<1>6. sent' \in BOOLEAN
  BY <1>2, Zenon DEF TypeOK
<1>7. writeUncertain' \in BOOLEAN /\ doubt' \in BOOLEAN
  BY <1>2, Zenon DEF TypeOK
<1> QED BY <1>3, <1>4, <1>5, <1>6, <1>7


(* Where the actor is, when it polls and what it has sampled.              *)
LEMMA PlaceTypes ==
  ASSUME TypeOK, Next
  PROVE  /\ pc' \in {"idle", "connect", "io", "disconnect", "drain", "stopped"}
         /\ nextPoll' \in {"due", "later", "never"}
         /\ cache' \in {"empty", "fresh", "stale", "old"}
         /\ disconnects' \in Nat
<1> USE DEF hostVars, actorVars, linkVars, pollVars, writeVars, ActorUnchanged, TypeOK
<1>1. CASE Receive
  BY <1>1 DEF Receive, Discard, Acquire, Release, Claim, Yield, Simulate, Refresh, Request,
       Shutdown, Turned, Dispatched, Idle
<1>2. CASE Progress
  <2> HIDE DEF TypeOK
  <2>1. disconnects' = disconnects \/ disconnects' = disconnects + 1
    BY <1>2 DEF Progress, AcquireConnected, RequestConnected, PollConnected, ReadEnds,
         RefreshEnds, WriteEnds, PollEnds, DisconnectEnds, Drain, Resume, PollBegins
  <2> USE DEF TypeOK
  <2>2. pc' \in {"idle", "connect", "io", "disconnect", "drain", "stopped"}
    BY <1>2 DEF Progress, AcquireConnected, RequestConnected, PollConnected, ReadEnds,
         RefreshEnds, WriteEnds, PollEnds, DisconnectEnds, Drain, Resume, PollBegins,
         Idle, Turned, Dispatched
  <2>3. nextPoll' \in {"due", "later", "never"}
    BY <1>2 DEF Progress, AcquireConnected, RequestConnected, PollConnected, ReadEnds,
         RefreshEnds, WriteEnds, PollEnds, DisconnectEnds, Drain, Resume, PollBegins,
         Resumed, RetryLater, PollAfterWrite, WriteUnknown, WriteRejected, WriteInterrupted
  <2>4. cache' \in {"empty", "fresh", "stale", "old"}
    BY <1>2 DEF Progress, AcquireConnected, RequestConnected, PollConnected, ReadEnds,
         RefreshEnds, WriteEnds, PollEnds, DisconnectEnds, Drain, Resume, PollBegins,
         Resumed, Faulted, Kept, Linked, CacheAfterWrite, WriteUnknown, WriteRejected,
         WriteInterrupted
  <2> QED BY <2>1, <2>2, <2>3, <2>4
<1>3. CASE Client
  BY <1>3 DEF Client, NewGuard, Return, Cancel, Drop, SendRelease, Call
<1>4. CASE AskShutdown \/ Sleep \/ Timer
  BY <1>4 DEF AskShutdown, Sleep, Timer
<1> QED BY <1>1, <1>2, <1>3, <1>4 DEF Next

(* The command that the actor takes is one of the queue.                   *)
LEMMA ReceiveTakes ==
  ASSUME TypeOK, Receive
  PROVE  /\ pc = "idle" /\ ~behind /\ queue # <<>>
         /\ Head(queue) \in Entries
         /\ queue' = Tail(queue) \/ (Shutdown /\ queue' = <<>>)
         /\ cur' \in {cur, None, Head(queue)}
<1>1. pc = "idle" /\ ~behind /\ queue # <<>>
  BY DEF Receive, Discard, Acquire, Release, Claim, Yield, Simulate, Refresh, Request,
       Shutdown, Taken, CommandSelected
<1>2. Head(queue) \in Entries
  BY <1>1, TailOfQueue DEF TypeOK
<1>3. queue' = Tail(queue) \/ (Shutdown /\ queue' = <<>>)
  BY DEF Receive, Discard, Acquire, Release, Claim, Yield, Simulate, Refresh, Request,
       Shutdown
<1>4. cur' \in {cur, None, Head(queue)}
  BY DEF Receive, Discard, Acquire, Release, Claim, Yield, Simulate, Refresh, Request,
       Shutdown, Turned, Dispatched, Idle
<1> QED BY <1>1, <1>2, <1>3, <1>4

(* A step of the actor on what it has in hand: the entries of the queue    *)
(* keep what they are, and the request in hand does until it ends.         *)
LEMMA ProgressKeeps ==
  ASSUME TypeOK, Progress
  PROVE  /\ queue' = queue \/ queue' = MapQueue(NewGeneration)
         /\ cur' \in {cur, None, NewGeneration(cur)}
<1>1. queue' = queue \/ queue' = MapQueue(NewGeneration)
  BY DEF Progress, AcquireConnected, RequestConnected, PollConnected, ReadEnds,
       RefreshEnds, WriteEnds, PollEnds, DisconnectEnds, Drain, Resume, PollBegins,
       Linked, Faulted, Resumed, Kept, WriteInterrupted, WriteRejected, WriteUnknown, linkVars
<1>2. cur' \in {cur, None, NewGeneration(cur)}
  BY DEF Progress, AcquireConnected, RequestConnected, PollConnected, ReadEnds,
       RefreshEnds, WriteEnds, PollEnds, DisconnectEnds, Drain, Resume, PollBegins,
       Idle, Turned, Dispatched
<1> QED BY <1>1, <1>2 DEF MapQueue

LEMMA NewGenerationKeeps ==
  ASSUME NEW e \in Entries
  PROVE  /\ NewGeneration(e) \in Entries /\ NewGeneration(e).op = e.op
         /\ NewGeneration(e).lease = e.lease /\ NewGeneration(e).open = e.open
         /\ NewGeneration(e).old = e.old /\ NewGeneration(e).gen \in {"any", "changed"}
BY DEF NewGeneration, Entries, Gens

LEMMA UnheardKeeps ==
  ASSUME cur \in Entries, NEW l
  PROVE  /\ Unheard(l) \in Entries /\ Unheard(l).op = cur.op
         /\ Unheard(l).lease = cur.lease
         /\ Unheard(l).open = (cur.open /\ (cur.lease = l => cur.op = "release"))
         /\ Unheard(l).old = cur.old /\ Unheard(l).gen = cur.gen
BY DEF Unheard, Entries, Gens

LEMMA ProgressQueue ==
  ASSUME TypeOK, Progress
  PROVE  /\ queue' \in Seq(Entries) /\ Len(queue') = Len(queue)
         /\ DOMAIN queue' = DOMAIN queue
         /\ \A i \in DOMAIN queue :
               /\ queue'[i].op = queue[i].op /\ queue'[i].lease = queue[i].lease
               /\ queue'[i].open = queue[i].open
         /\ cur' \in Entries
         /\ \/ cur' = None
            \/ cur'.op = cur.op /\ cur'.lease = cur.lease /\ cur'.open = cur.open
<1>1. CASE queue' = queue
  BY <1>1, ProgressKeeps, NewGenerationKeeps, NoneType DEF TypeOK
<1>2. CASE queue' = MapQueue(NewGeneration)
  <2>1. cur' \in Entries
         /\ \/ cur' = None
            \/ cur'.op = cur.op /\ cur'.lease = cur.lease /\ cur'.open = cur.open
    BY ProgressKeeps, NewGenerationKeeps, NoneType DEF TypeOK, MapQueue
  <2> QED BY <1>2, <2>1, RegeneratedQueue DEF TypeOK, MapQueue
<1> QED BY <1>1, <1>2, ProgressKeeps DEF MapQueue

(* The waiter of e gets its answer.                                        *)
Answers(e) == \/ call' = Answered(e, "ok") \/ call' = Answered(e, "refused")
              \/ call' = Answered(e, "unknown")

(* Commands that the actor answers to whoever waits for them.              *)
Worked == Fenced \cup {"acquire", "refresh"}

(* The answer of a command is the last step of it.                         *)
LEMMA ReceiveAnswers ==
  ASSUME TypeOK, Receive, ~Shutdown
  PROVE  /\ Head(queue).op # "shutdown"
         /\ \/ call' = call
            \/ /\ cur' \in {cur, None}
               /\ Answers(Head(queue))
<1>1. Head(queue).op # "shutdown"
  BY DEF Receive, Discard, Acquire, Release, Claim, Yield, Simulate, Refresh, Request,
         Taken, Fenced
<1>2. CASE Discard \/ Release
  BY <1>1, <1>2 DEF Discard, Release, Answers
<1>3. CASE Acquire
  BY <1>1, <1>3 DEF Acquire, Answers
<1>4. CASE Claim \/ Yield
  BY <1>1, <1>4 DEF Claim, Yield, Answers
<1>5. CASE Simulate
  BY <1>1, <1>5 DEF Simulate, Answers
<1>6. CASE Refresh
  BY <1>1, <1>6 DEF Refresh, Answers
<1>7. CASE Request
  BY <1>1, <1>7 DEF Request, Answers, Turned, Idle, Dispatched
<1> QED BY <1>1, <1>2, <1>3, <1>4, <1>5, <1>6, <1>7 DEF Receive

LEMMA ProgressAnswers ==
  ASSUME TypeOK, Progress
  PROVE  \/ call' = call
         \/ /\ cur' = None /\ pc' = "idle" /\ cur.op \in Worked
            /\ Answers(cur)
<1>1. ASSUME NEW a PROVE Answered(NewGeneration(cur), a) = Answered(cur, a)
  BY NewGenerationKeeps DEF Answered, TypeOK
<1>2. CASE AcquireConnected \/ ReadEnds \/ RefreshEnds
  BY <1>2 DEF AcquireConnected, ReadEnds, RefreshEnds, Idle, Answers, Worked, Fenced
<1>3. CASE RequestConnected
  BY <1>1, <1>3 DEF RequestConnected, Turned, Dispatched, Idle, Answers, Worked
<1>4. CASE WriteEnds
  BY <1>4 DEF WriteEnds, WriteInterrupted, WriteUnknown, WriteRejected, Idle, Answers,
       Worked, Fenced
<1>5. CASE PollConnected \/ PollEnds \/ DisconnectEnds \/ Drain \/ Resume \/ PollBegins
  BY <1>5 DEF PollConnected, PollEnds, DisconnectEnds, Drain, Resume, PollBegins
<1> QED BY <1>2, <1>3, <1>4, <1>5 DEF Progress

LEMMA AnswersType ==
  ASSUME TypeOK, NEW e, Answers(e)
  PROVE  call' \in [Leases -> Records]
<1>0. call \in [Leases -> Records]
  BY DEF TypeOK, Records
<1>1. CASE call' = Answered(e, "ok")
  BY <1>0, <1>1, AnsweredFacts
<1>2. CASE call' = Answered(e, "refused")
  BY <1>0, <1>2, AnsweredFacts
<1>3. CASE call' = Answered(e, "unknown")
  BY <1>0, <1>3, AnsweredFacts
<1> QED BY <1>1, <1>2, <1>3 DEF Answers

(* Nothing else than taking, answering and stopping of a command.          *)
LEMMA CallType ==
  ASSUME TypeOK, Next
  PROVE  call' \in [Leases -> Records]
<1>0. call \in [Leases -> Records]
  BY DEF TypeOK, Records
<1>1. CASE Receive /\ ~Shutdown
  BY <1>0, <1>1, ReceiveAnswers, AnswersType
<1>2. CASE Shutdown
  <2>1. \A l \in Leases : [call[l] EXCEPT !.answer = "refused"] \in Records
    BY <1>0 DEF Records
  <2> QED BY <1>0, <1>2, <2>1 DEF Shutdown
<1>3. CASE Progress
  BY <1>0, <1>3, ProgressAnswers, AnswersType
<1>4. CASE Client
  <2>1. NoCall \in Records
    BY DEF NoCall, Records
  <2>2. \A op \in Ops \cup {"acquire"} :
           [op |-> op, old |-> FALSE, answer |-> "waiting"] \in Records
    BY DEF Records, AllOps
  <2> QED BY <1>0, <1>4, <2>1, <2>2 DEF Client, NewGuard, Return, Cancel, Drop, SendRelease,
              Call
<1>5. CASE Sleep
  <2>1. \A l \in Leases : [call[l] EXCEPT !.old = call[l].op \in Fenced] \in Records
    <3> TAKE l \in Leases
    <3> DEFINE b == call[l].op \in Fenced
    <3>1. b \in BOOLEAN
      OBVIOUS
    <3> HIDE DEF b
    <3>2. [call[l] EXCEPT !.old = b] \in Records
      BY <1>0, <3>1 DEF Records
    <3> QED BY <3>2 DEF b
  <2> QED BY <1>5, <2>1 DEF Sleep
<1>6. CASE AskShutdown \/ Timer
  BY <1>0, <1>6 DEF AskShutdown, Timer
<1> QED BY <1>1, <1>2, <1>3, <1>4, <1>5, <1>6 DEF Next

(* Who holds a guard: a release is answered by letting its guard go.       *)
LEMMA GuardType ==
  ASSUME TypeOK, Next
  PROVE  guard' \in [Leases -> Guards]
<1>0. guard \in [Leases -> Guards]
  BY DEF TypeOK, Guards
<1>1. CASE Receive
  BY <1>0, <1>1 DEF Receive, Discard, Acquire, Release, Claim, Yield, Simulate, Refresh,
       Request, Shutdown, Guards
<1>2. CASE Progress
  BY <1>0, <1>2 DEF Progress, AcquireConnected, RequestConnected, PollConnected, ReadEnds,
       RefreshEnds, WriteEnds, PollEnds, DisconnectEnds, Drain, Resume, PollBegins, Guards
<1>3. CASE Client
  BY <1>0, <1>3 DEF Client, NewGuard, Return, Cancel, Drop, SendRelease, Call, Guards
<1>4. CASE AskShutdown \/ Sleep \/ Timer
  BY <1>0, <1>4 DEF AskShutdown, Sleep, Timer
<1> QED BY <1>1, <1>2, <1>3, <1>4 DEF Next

(* Writes and what is said of them.                                        *)
LEMMA FateType ==
  ASSUME TypeOK, Next
  PROVE  fate' \in [Leases -> Fates] /\ told' \in [Leases -> Tellings]
<1>0. fate \in [Leases -> Fates] /\ told \in [Leases -> Tellings]
  BY DEF TypeOK, Fates, Tellings
<1> USE DEF writeVars
<1>1. CASE Receive
  BY <1>0, <1>1, FateOfType DEF Receive, Discard, Acquire, Release, Claim, Yield, Simulate,
       Refresh, Request, Shutdown, Fates, Turned, Dispatched
<1>2. CASE Progress
  <2>1. \/ fate' = fate
        \/ \E f \in Fates : fate' = FateOf(cur, f)
        \/ \E f \in Fates : fate' = FateOf(NewGeneration(cur), f)
    <3>1. CASE RequestConnected
      BY <3>1 DEF RequestConnected, Turned, Dispatched, Fates
    <3>2. CASE WriteEnds
      BY <3>2 DEF WriteEnds, WriteInterrupted, WriteUnknown, WriteRejected, Fates
    <3> QED BY <1>2, <3>1, <3>2 DEF Progress, AcquireConnected, PollConnected, ReadEnds,
               RefreshEnds, PollEnds, DisconnectEnds, Drain, Resume, PollBegins
  <2>2. told' = told
    BY <1>2 DEF Progress, AcquireConnected, RequestConnected, PollConnected, ReadEnds,
       RefreshEnds, WriteEnds, PollEnds, DisconnectEnds, Drain, Resume, PollBegins
  <2> QED BY <1>0, <2>1, <2>2, FateOfType
<1>3. CASE Client
  <2>1. CASE \E l \in Leases : Return(l)
    <3> PICK l \in Leases : Return(l)
      BY <2>1
    <3>1. Heard(call[l]) \in Tellings
      BY DEF Heard, Tellings, Return
    <3> QED BY <1>0, <3>1 DEF Return
  <2>2. CASE ~\E l \in Leases : Return(l)
    BY <1>0, <1>3, <2>2 DEF Client, NewGuard, Cancel, Drop, SendRelease, Call, Fates, Tellings
  <2> QED BY <2>1, <2>2
<1>4. CASE AskShutdown \/ Sleep \/ Timer
  BY <1>0, <1>4 DEF AskShutdown, Sleep, Timer, Fates
<1> QED BY <1>1, <1>2, <1>3, <1>4 DEF Next

(* What clients put into the queue.                                        *)
LEMMA SentEntries ==
  ASSUME NEW l \in Leases \cup {Nobody}, NEW op \in AllOps, NEW g \in Gens
  PROVE  [op |-> op, lease |-> l, old |-> FALSE, gen |-> g, open |-> TRUE] \in Entries
BY DEF Entries

(* The queue under a step of the clients.                                  *)
LEMMA ClientQueue ==
  ASSUME TypeOK, NEW l \in Leases
  PROVE  /\ NewGuard(l) \/ SendRelease(l) =>
              \/ queue' = queue
              \/ \E e \in Entries : queue' = Append(queue, e)
         /\ \A op \in Ops : Call(l, op) => \E e \in Entries : queue' = Append(queue, e)
         /\ Cancel(l) \/ Drop(l) =>
              queue' = [i \in DOMAIN queue |-> Skipped(l, queue[i])]
         /\ Return(l) => queue' = queue
<1>1. NewGuard(l) =>
              \/ queue' = queue
              \/ \E e \in Entries : queue' = Append(queue, e)
  <2>1. [op |-> "acquire", lease |-> l, old |-> FALSE, gen |-> "any", open |-> TRUE] \in Entries
    BY SentEntries DEF Gens, AllOps
  <2> QED BY <2>1 DEF NewGuard
<1>2. SendRelease(l) =>
              \/ queue' = queue
              \/ \E e \in Entries : queue' = Append(queue, e)
  <2>1. ReleaseEntry(l) \in Entries
    BY SentEntries DEF Gens, AllOps, ReleaseEntry
  <2> QED BY <2>1 DEF SendRelease, ReleaseQueued
<1>3. ASSUME NEW op \in Ops, Call(l, op) PROVE \E e \in Entries : queue' = Append(queue, e)
  <2>1. PICK g \in Expected(op) :
          queue' = Append(queue, [op |-> op, lease |-> l, old |-> FALSE, gen |-> g,
                                  open |-> TRUE])
    BY <1>3 DEF Call
  <2>2. g \in Gens
    BY DEF Expected, Gens
  <2>3. [op |-> op, lease |-> l, old |-> FALSE, gen |-> g, open |-> TRUE] \in Entries
    BY <2>2, SentEntries DEF AllOps
  <2> QED BY <2>1, <2>3
<1>4. Cancel(l) \/ Drop(l) => queue' = [i \in DOMAIN queue |-> Skipped(l, queue[i])]
  BY DEF Cancel, Drop, MapQueue
<1>5. Return(l) => queue' = queue
  BY DEF Return
<1> QED BY <1>1, <1>2, <1>3, <1>4, <1>5

LEMMA QueueType ==
  ASSUME TypeOK, Next
  PROVE  queue' \in Seq(Entries) /\ cur' \in Entries
<1>0. queue \in Seq(Entries) /\ cur \in Entries
  BY DEF TypeOK
<1>1. CASE Receive
  <2>1. Tail(queue) \in Seq(Entries) /\ Head(queue) \in Entries
    BY <1>0, <1>1, ReceiveTakes, TailOfQueue
  <2>2. queue' \in Seq(Entries)
    <3>1. <<>> \in Seq(Entries)
      OBVIOUS
    <3> QED BY <1>1, <2>1, <3>1, ReceiveTakes
  <2>3. cur' \in Entries
    BY <1>0, <1>1, <2>1, ReceiveTakes, NoneType
  <2> QED BY <2>2, <2>3
<1>2. CASE Progress
  BY <1>2, ProgressQueue
<1>3. CASE Client
  <2>1. PICK l \in Leases : \/ NewGuard(l) \/ Return(l) \/ Cancel(l) \/ Drop(l) \/ SendRelease(l)
                            \/ \E op \in Ops : Call(l, op)
    BY <1>3 DEF Client
  <2>2. CASE Cancel(l) \/ Drop(l)
    <3>1. queue' \in Seq(Entries)
      BY <1>0, <2>2, ClientQueue, SkippedQueue
    <3> QED BY <1>0, <2>2, <3>1, UnheardKeeps DEF Cancel, Drop
  <2>3. CASE NewGuard(l) \/ Return(l) \/ SendRelease(l) \/ \E op \in Ops : Call(l, op)
    <3>1. queue' \in Seq(Entries)
      <4>1. queue' = queue \/ \E e \in Entries : queue' = Append(queue, e)
        BY <2>3, ClientQueue
      <4> QED BY <1>0, <4>1
    <3> QED BY <1>0, <2>3, <3>1 DEF NewGuard, Return, SendRelease, Call
  <2> QED BY <2>1, <2>2, <2>3
<1>4. CASE AskShutdown
  <2>1. [op |-> "shutdown", lease |-> Nobody, old |-> FALSE, gen |-> "any", open |-> TRUE]
          \in Entries
    BY SentEntries DEF Gens, AllOps
  <2> QED BY <1>0, <1>4, <2>1 DEF AskShutdown
<1>5. CASE Sleep
  <2>1. queue' \in Seq(Entries)
    BY <1>0, <1>5, SleptQueue
  <2> DEFINE b == pc = "connect" /\ cur.op \in Fenced
  <2>2. b \in BOOLEAN
    OBVIOUS
  <2>3. cur' = [cur EXCEPT !.old = b]
    BY <1>5 DEF Sleep
  <2> HIDE DEF b
  <2> QED BY <1>0, <2>1, <2>2, <2>3 DEF Entries
<1>6. CASE Timer
  BY <1>0, <1>6 DEF Timer
<1> QED BY <1>1, <1>2, <1>3, <1>4, <1>5, <1>6 DEF Next

(* A lease is taken and control is claimed by holders of guards only.      *)
LEMMA LeaseType ==
  ASSUME TypeOK, QueueInv, Next
  PROVE  leases' \subseteq Leases /\ controller' \in Leases \cup {Nobody}
<1>0. leases \subseteq Leases /\ controller \in Leases \cup {Nobody}
  BY DEF TypeOK
<1> USE DEF actorVars, ActorUnchanged
<1>1. CASE Receive
  <2>1. queue \in Seq(Entries) /\ EntryInv(Head(queue), guard, call)
    BY <1>1, ReceiveTakes, TailOfQueue DEF QueueInv, TypeOK
  <2>2. Waits(Head(queue)) => Head(queue).lease \in Leases
    BY <2>1 DEF EntryInv
  <2>3. CASE Acquire
    BY <1>0, <2>2, <2>3 DEF Acquire, Admitted, Waits, Silent, Taken
  <2>4. CASE Claim
    BY <1>0, <2>4 DEF Claim
  <2> QED BY <1>0, <1>1, <2>3, <2>4 DEF Receive, Discard, Release, Yield, Simulate, Refresh,
             Request, Shutdown, ControlWithout
<1>2. CASE Progress
  BY <1>0, <1>2 DEF Progress, AcquireConnected, RequestConnected, PollConnected, ReadEnds,
       RefreshEnds, WriteEnds, PollEnds, DisconnectEnds, Drain, Resume, PollBegins
<1>3. CASE Client
  BY <1>0, <1>3 DEF Client, NewGuard, Return, Cancel, Drop, SendRelease, Call
<1>4. CASE AskShutdown \/ Sleep \/ Timer
  BY <1>0, <1>4 DEF AskShutdown, Sleep, Timer
<1> QED BY <1>1, <1>2, <1>3, <1>4 DEF Next

LEMMA TypeKept ==
  ASSUME TypeOK, QueueInv, Next
  PROVE  TypeOK'
<1>1. /\ call' \in [Leases -> Records] /\ guard' \in [Leases -> Guards]
      /\ fate' \in [Leases -> Fates] /\ told' \in [Leases -> Tellings]
  BY CallType, GuardType, FateType
<1>2. queue' \in Seq(Entries) /\ cur' \in Entries
  BY QueueType
<1> QED BY <1>1, <1>2, FlagTypes, PlaceTypes, LeaseType, Zenon
        DEF TypeOK, Records, Guards, Fates, Tellings

-----------------------------------------------------------------------------
(* Requests and their waiters                                              *)

(* An entry whose guard and whose waiter are not touched.                  *)
LEMMA EntryKept ==
  ASSUME NEW d, NEW e, NEW g, NEW c, NEW h, NEW k, EntryInv(d, g, c),
         e.op = d.op, e.lease = d.lease, e.open = d.open,
         d.op = "release" => h[d.lease] = g[d.lease],
         Waits(d) => /\ h[d.lease] = g[d.lease] /\ k[d.lease].answer = c[d.lease].answer
                     /\ k[d.lease].op = c[d.lease].op
  PROVE  EntryInv(e, h, k)
BY DEF EntryInv, Waits

LEMMA ApartKept ==
  ASSUME NEW d, NEW e, NEW d2, NEW e2, Apart(d, e),
         d2.op = d.op, d2.lease = d.lease, d2.open = d.open,
         e2.op = e.op, e2.lease = e.lease, e2.open = e.open
  PROVE  Apart(d2, e2)
BY DEF Apart, Waits

LEMMA NoneKept ==
  /\ None.op = "poll" /\ ~None.open /\ ~Waits(None)
  /\ \A g, c : EntryInv(None, g, c)
  /\ \A e : Apart(None, e) /\ Apart(e, None)
BY DEF None, EntryInv, Apart, Waits, Silent

LEMMA GoneKept ==
  ASSUME NEW e, e = [None EXCEPT !.op = "gone"]
  PROVE  /\ e.op = "gone" /\ ~e.open
         /\ \A g, c : EntryInv(e, g, c)
         /\ \A d : Apart(d, e) /\ Apart(e, d)
BY DEF None, EntryInv, Apart, Waits, Silent

(* A command leaves the queue: only its own guard and waiter are touched.  *)
LEMMA QueueTaken ==
  ASSUME TypeOK, QueueInv, queue # <<>>, queue' = Tail(queue), cur = None,
         \A l \in Leases :
            \/ guard'[l] = guard[l]
            \/ Head(queue).op = "release" /\ Head(queue).lease = l /\ cur' = None,
         \A l \in Leases :
            \/ call'[l] = call[l]
            \/ Waits(Head(queue)) /\ Head(queue).lease = l /\ cur' = None,
         cur' = None \/ cur' = Head(queue)
  PROVE  QueueInv'
<1> DEFINE h == Head(queue)
<1>1. /\ DOMAIN queue' = 1 .. Len(queue) - 1
      /\ \A i \in DOMAIN queue' : /\ i + 1 \in DOMAIN queue /\ i + 1 # 1
                                  /\ queue'[i] = queue[i + 1]
      /\ 1 \in DOMAIN queue /\ h = queue[1]
  BY TailOfQueue DEF TypeOK
<1>2. \A i \in DOMAIN queue : EntryInv(queue[i], guard, call) /\ queue[i].op # "poll"
  BY DEF QueueInv
<1>3. \A i \in DOMAIN queue' : Apart(h, queue'[i])
  BY <1>1 DEF QueueInv
<1>4. \A i, j \in DOMAIN queue' : i # j => Apart(queue'[i], queue'[j])
  <2> TAKE i, j \in DOMAIN queue'
  <2>1. i # j => i + 1 # j + 1
    BY <1>1
  <2> QED BY <1>1, <2>1 DEF QueueInv
<1>5. ASSUME NEW i \in DOMAIN queue'
      PROVE  EntryInv(queue'[i], guard', call') /\ queue'[i].op # "poll"
  <2> DEFINE d == queue'[i]
  <2>1. EntryInv(d, guard, call) /\ d.op # "poll" /\ Apart(h, d)
    BY <1>1, <1>2, <1>3
  <2> HIDE DEF d, h
  <2>2. Waits(d) => guard'[d.lease] = guard[d.lease] /\ call'[d.lease] = call[d.lease]
    <3> SUFFICES ASSUME Waits(d) PROVE guard'[d.lease] = guard[d.lease] /\ call'[d.lease] = call[d.lease]
      OBVIOUS
    <3>1. d.lease \in Leases /\ guard[d.lease] = "held"
      BY <2>1 DEF EntryInv
    <3>2. h.op = "release" => h.lease # d.lease
      BY <1>1, <1>2, <3>1 DEF EntryInv
    <3>3. Waits(h) => h.lease # d.lease
      BY <2>1 DEF Apart
    <3> QED BY <3>1, <3>2, <3>3 DEF h
  <2>3. d.op = "release" => guard'[d.lease] = guard[d.lease]
    <3>1. d.op = "release" => d.lease \in Leases
      BY <2>1 DEF EntryInv
    <3> QED BY <2>1, <3>1 DEF Apart, h
  <2>4. EntryInv(d, guard', call')
    BY <2>1, <2>2, <2>3, EntryKept
  <2> QED BY <2>1, <2>4 DEF d
<1>6. EntryInv(cur', guard', call') /\ \A i \in DOMAIN queue' : Apart(cur', queue'[i])
  <2>1. CASE cur' = None
    BY <2>1, NoneKept
  <2>2. CASE cur' = h /\ h # None
    <3>1. \A l \in Leases : guard'[l] = guard[l] /\ call'[l] = call[l]
      BY <2>2
    <3>2. EntryInv(h, guard', call')
      BY <1>1, <1>2, <3>1 DEF EntryInv
    <3> QED BY <1>3, <2>2, <3>2
  <2> QED BY <2>1, <2>2
<1> QED BY <1>4, <1>5, <1>6 DEF QueueInv

(* The queue and the request in hand keep what they are, or the request is *)
(* done with and its guard and its waiter are touched.                     *)
LEMMA QueueMapped ==
  ASSUME TypeOK, QueueInv, DOMAIN queue' = DOMAIN queue,
         \A i \in DOMAIN queue :
            /\ queue'[i].op = queue[i].op /\ queue'[i].lease = queue[i].lease
            /\ queue'[i].open = queue[i].open,
         \/ cur' = None
         \/ cur'.op = cur.op /\ cur'.lease = cur.lease /\ cur'.open = cur.open,
         \A l \in Leases :
            \/ guard'[l] = guard[l]
            \/ cur.op = "release" /\ cur.lease = l /\ cur' = None,
         \A l \in Leases :
            \/ call'[l].answer = call[l].answer /\ call'[l].op = call[l].op
            \/ Waits(cur) /\ cur.lease = l /\ cur' = None
  PROVE  QueueInv'
<1>1. \A i \in DOMAIN queue : EntryInv(queue[i], guard, call) /\ queue[i].op # "poll"
                              /\ Apart(cur, queue[i])
  BY DEF QueueInv
<1>2. \A i, j \in DOMAIN queue' : i # j => Apart(queue'[i], queue'[j])
  BY ApartKept DEF QueueInv
<1>3. ASSUME NEW i \in DOMAIN queue
      PROVE  EntryInv(queue'[i], guard', call') /\ queue'[i].op # "poll"
  <2> DEFINE d == queue[i]
             e == queue'[i]
  <2>1. EntryInv(d, guard, call) /\ d.op # "poll" /\ Apart(cur, d)
    BY <1>1
  <2>2. e.op = d.op /\ e.lease = d.lease /\ e.open = d.open
    OBVIOUS
  <2> HIDE DEF d, e
  <2>3. Waits(d) => /\ guard'[d.lease] = guard[d.lease]
                    /\ call'[d.lease].answer = call[d.lease].answer
                    /\ call'[d.lease].op = call[d.lease].op
    <3> SUFFICES ASSUME Waits(d) 
                 PROVE  /\ guard'[d.lease] = guard[d.lease]
                        /\ call'[d.lease].answer = call[d.lease].answer
                        /\ call'[d.lease].op = call[d.lease].op
      OBVIOUS
    <3>1. d.lease \in Leases /\ guard[d.lease] = "held"
      BY <2>1 DEF EntryInv
    <3>2. cur.op = "release" => cur.lease # d.lease
      BY <3>1 DEF EntryInv, QueueInv
    <3>3. Waits(cur) => cur.lease # d.lease
      BY <2>1 DEF Apart
    <3> QED BY <3>1, <3>2, <3>3
  <2>4. d.op = "release" => guard'[d.lease] = guard[d.lease]
    <3>1. d.op = "release" => d.lease \in Leases
      BY <2>1 DEF EntryInv
    <3> QED BY <2>1, <3>1 DEF Apart
  <2>5. EntryInv(e, guard', call')
    BY <2>1, <2>2, <2>3, <2>4, EntryKept
  <2> QED BY <2>1, <2>2, <2>5 DEF e
<1>4. EntryInv(cur', guard', call') /\ \A i \in DOMAIN queue' : Apart(cur', queue'[i])
  <2>1. CASE cur' = None
    BY <2>1, NoneKept
  <2>2. CASE cur' # None
    <3>1. \A l \in Leases : /\ guard'[l] = guard[l] /\ call'[l].answer = call[l].answer
                            /\ call'[l].op = call[l].op
      BY <2>2
    <3>2. EntryInv(cur, guard, call) /\ cur'.op = cur.op /\ cur'.lease = cur.lease /\ cur'.open = cur.open
      BY <2>2 DEF QueueInv
    <3>3. EntryInv(cur', guard', call')
      BY <3>1, <3>2 DEF EntryInv, Waits
    <3> QED BY <1>1, <3>2, <3>3, ApartKept
  <2> QED BY <2>1, <2>2
<1> QED BY <1>2, <1>3, <1>4 DEF QueueInv

(* A command joins the queue: its guard had none there.                    *)
LEMMA QueueAppended ==
  ASSUME TypeOK, QueueInv, NEW e \in Entries, queue' = Append(queue, e), cur' = cur,
         e.op # "poll", EntryInv(e, guard', call'),
         \A l \in Leases :
            \/ guard'[l] = guard[l] /\ call'[l] = call[l]
            \/ /\ guard[l] # "releasing"
               /\ guard[l] # "held" \/ call[l].answer # "waiting",
         Waits(e) => guard[e.lease] # "held" \/ call[e.lease].answer # "waiting",
         e.op = "release" => guard[e.lease] # "releasing"
  PROVE  QueueInv'
<1>1. ASSUME NEW d, EntryInv(d, guard, call)
      PROVE  EntryInv(d, guard', call') /\ Apart(d, e) /\ Apart(e, d)
  BY <1>1 DEF EntryInv, Apart
<1>2. \A i \in DOMAIN queue' :
         \/ i \in DOMAIN queue /\ queue'[i] = queue[i]
         \/ i = Len(queue) + 1 /\ i \notin DOMAIN queue /\ queue'[i] = e
  BY AppendToQueue DEF TypeOK
<1>3. \A i \in DOMAIN queue : EntryInv(queue[i], guard, call) /\ queue[i].op # "poll"
                              /\ Apart(cur, queue[i])
  BY DEF QueueInv
<1>4. \A i \in DOMAIN queue' : EntryInv(queue'[i], guard', call') /\ queue'[i].op # "poll"
  BY <1>1, <1>2, <1>3
<1>5. EntryInv(cur, guard', call') /\ Apart(cur, e)
  BY <1>1 DEF QueueInv
<1>6. \A i \in DOMAIN queue' : Apart(cur', queue'[i])
  BY <1>2, <1>3, <1>5
<1>7. \A i, j \in DOMAIN queue' : i # j => Apart(queue'[i], queue'[j])
  <2> SUFFICES ASSUME NEW i \in DOMAIN queue', NEW j \in DOMAIN queue', i # j
               PROVE  Apart(queue'[i], queue'[j])
    OBVIOUS
  <2>1. CASE i \in DOMAIN queue /\ j \in DOMAIN queue
    BY <1>2, <2>1 DEF QueueInv
  <2>2. CASE ~(i \in DOMAIN queue /\ j \in DOMAIN queue)
    BY <1>1, <1>2, <1>3, <2>2
  <2> QED BY <2>1, <2>2
<1> QED BY <1>4, <1>5, <1>6, <1>7 DEF QueueInv

(* A caller goes: of what it sent only its release is kept.                *)
LEMMA QueueSkipped ==
  ASSUME TypeOK, QueueInv, NEW l \in Leases, cur' = Unheard(l),
         queue' = [i \in DOMAIN queue |-> Skipped(l, queue[i])],
         guard[l] # "releasing" \/ guard'[l] = guard[l],
         \A k \in Leases \ {l} : guard'[k] = guard[k] /\ call'[k] = call[k]
  PROVE  QueueInv'
<1>1. /\ DOMAIN queue' = DOMAIN queue
      /\ \A i \in DOMAIN queue :
            IF queue[i].lease = l /\ queue[i].op # "release"
            THEN queue'[i] = [None EXCEPT !.op = "gone"] ELSE queue'[i] = queue[i]
  BY SkippedQueue DEF TypeOK
<1>2. \A i \in DOMAIN queue : EntryInv(queue[i], guard, call) /\ queue[i].op # "poll"
                              /\ Apart(cur, queue[i])
  BY DEF QueueInv
<1>3. ASSUME NEW d, EntryInv(d, guard, call), ~(d.lease = l /\ d.op # "release")
      PROVE  EntryInv(d, guard', call')
  BY <1>3 DEF EntryInv, Waits, Silent
<1>4. /\ cur'.op = cur.op /\ cur'.lease = cur.lease
      /\ cur'.open = (cur.open /\ (cur.lease = l => cur.op = "release"))
  BY UnheardKeeps DEF TypeOK
<1>5. EntryInv(cur', guard', call')
  <2>1. EntryInv(cur, guard, call)
    BY DEF QueueInv
  <2>2. cur'.op = "gone" => ~cur'.open
    BY <1>4, <2>1 DEF EntryInv
  <2>3. cur'.op = "shutdown" => cur'.open /\ cur'.lease = Nobody
    BY <1>4, <2>1, SourceAssumption DEF EntryInv
  <2>4. cur'.op = "release" => cur'.lease \in Leases /\ guard'[cur'.lease] = "releasing"
    BY <1>4, <2>1 DEF EntryInv
  <2>5. Waits(cur') => Waits(cur) /\ cur.lease # l
    BY <1>4 DEF Waits, Silent
  <2> QED BY <1>4, <2>1, <2>2, <2>3, <2>4, <2>5 DEF EntryInv
<1>6. \A i \in DOMAIN queue' : EntryInv(queue'[i], guard', call') /\ queue'[i].op # "poll"
  BY <1>1, <1>2, <1>3, GoneKept
<1>7. \A i \in DOMAIN queue' : Apart(cur', queue'[i])
  <2> TAKE i \in DOMAIN queue'
  <2>1. Apart(cur, queue[i]) => Apart(cur', queue[i])
    BY <1>4 DEF Apart, Waits
  <2> QED BY <1>1, <1>2, <2>1, GoneKept
<1>8. \A i, j \in DOMAIN queue' : i # j => Apart(queue'[i], queue'[j])
  <2>1. \A i, j \in DOMAIN queue : i # j => Apart(queue[i], queue[j])
    BY DEF QueueInv
  <2> QED BY <1>1, <2>1, GoneKept
<1> QED BY <1>5, <1>6, <1>7, <1>8 DEF QueueInv

LEMMA QueueKept ==
  ASSUME TypeOK, BaseInv, QueueInv, PlaceInv, LeaseInv, Next
  PROVE  QueueInv'
<1> USE DEF ActorUnchanged
<1>0. call \in [Leases -> Records] /\ guard \in [Leases -> Guards]
  BY DEF TypeOK, Records, Guards
<1>1. CASE Receive /\ ~Shutdown
  <2>1. /\ pc = "idle" /\ cur = None /\ queue # <<>> /\ queue' = Tail(queue)
        /\ cur' \in {None, Head(queue)}
    BY <1>1, ReceiveTakes DEF PlaceInv
  <2>2. EntryInv(Head(queue), guard, call) /\ Head(queue).op # "poll"
    BY <2>1, TailOfQueue DEF TypeOK, QueueInv
  <2>3. \A l \in Leases :
           \/ guard'[l] = guard[l]
           \/ Head(queue).op = "release" /\ Head(queue).lease = l /\ cur' = None
    BY <1>0, <1>1, <2>1 DEF Receive, Discard, Acquire, Release, Claim, Yield, Simulate,
       Refresh, Request, Taken
  <2>4. \A l \in Leases :
           \/ call'[l] = call[l]
           \/ Waits(Head(queue)) /\ Head(queue).lease = l /\ cur' = None
    <3>1. CASE call' = call
      BY <3>1
    <3>2. CASE call' # call
      <4>1. Head(queue).op # "shutdown" /\ cur' = None /\ Answers(Head(queue))
        BY <1>1, <2>1, <3>2, ReceiveAnswers
      <4>2. Head(queue).open /\ Head(queue).op # "release" => Waits(Head(queue))
        BY <2>2, <4>1 DEF EntryInv, Waits, Silent
      <4> QED BY <1>0, <4>1, <4>2 DEF Answers, Answered
    <3> QED BY <3>1, <3>2
  <2> QED BY <2>1, <2>3, <2>4, QueueTaken
<1>2. CASE Shutdown
  <2>1. queue' = <<>> /\ cur' = Head(queue) /\ Head(queue).op = "shutdown" /\ queue # <<>>
    BY <1>2 DEF Shutdown, Taken, CommandSelected
  <2>2. EntryInv(Head(queue), guard, call)
    BY <2>1, TailOfQueue DEF TypeOK, QueueInv
  <2>3. EntryInv(cur', guard', call')
    BY <2>1, <2>2 DEF EntryInv, Waits, Silent
  <2>4. DOMAIN queue' = {}
    BY <2>1
  <2> QED BY <2>3, <2>4 DEF QueueInv
<1>3. CASE Progress
  <2>1. \A l \in Leases :
           \/ guard'[l] = guard[l]
           \/ cur.op = "release" /\ cur.lease = l /\ cur' = None
    BY <1>0, <1>3 DEF Progress, AcquireConnected, RequestConnected, PollConnected, ReadEnds,
       RefreshEnds, WriteEnds, PollEnds, DisconnectEnds, Drain, Resume, PollBegins, Idle
  <2>2. \A l \in Leases :
           \/ call'[l].answer = call[l].answer /\ call'[l].op = call[l].op
           \/ Waits(cur) /\ cur.lease = l /\ cur' = None
    <3>1. CASE call' = call
      BY <3>1
    <3>2. CASE call' # call
      <4>1. cur.op \in Worked /\ cur' = None /\ Answers(cur)
        BY <1>3, <3>2, ProgressAnswers
      <4>2. cur.open => Waits(cur)
        BY <4>1 DEF Waits, Silent, Worked, Fenced
      <4> QED BY <1>0, <4>1, <4>2 DEF Answers, Answered
    <3> QED BY <3>1, <3>2
  <2> QED BY <1>3, <2>1, <2>2, ProgressQueue, QueueMapped
<1>4. CASE Client
  <2>1. PICK l \in Leases : \/ NewGuard(l) \/ Return(l) \/ Cancel(l) \/ Drop(l) \/ SendRelease(l)
                            \/ \E op \in Ops : Call(l, op)
    BY <1>4 DEF Client
  <2>2. CASE Cancel(l) \/ Drop(l)
    <3>1. guard[l] # "releasing" \/ guard'[l] = guard[l]
      BY <2>2 DEF Cancel, Drop
    <3>2. \A k \in Leases \ {l} : guard'[k] = guard[k] /\ call'[k] = call[k]
      BY <1>0, <2>2 DEF Cancel, Drop
    <3>3. cur' = Unheard(l)
      BY <2>2 DEF Cancel, Drop
    <3> QED BY <2>2, <3>1, <3>2, <3>3, ClientQueue, QueueSkipped
  <2>3. CASE NewGuard(l)
    <3> DEFINE e == [op |-> "acquire", lease |-> l, old |-> FALSE, gen |-> "any",
                     open |-> TRUE]
    <3>1. /\ e.op = "acquire" /\ e.lease = l /\ e.op \notin Silent /\ e.open
      BY DEF Silent
    <3>2. e \in Entries
      BY SentEntries DEF Gens, AllOps
    <3>3. guard[l] = "free" /\ cur' = cur
      BY <2>3 DEF NewGuard
    <3>4. \A k \in Leases \ {l} : guard'[k] = guard[k] /\ call'[k] = call[k]
      BY <1>0, <2>3 DEF NewGuard
    <3>5. CASE Len(queue) < QueueCap
      <4>1. /\ queue' = Append(queue, e) /\ guard'[l] = "held"
            /\ call'[l].answer = "waiting" /\ call'[l].op = "acquire"
        BY <1>0, <2>3, <3>5 DEF NewGuard
      <4> HIDE DEF e
      <4>2. EntryInv(e, guard', call')
        BY <3>1, <4>1 DEF EntryInv
      <4> QED BY <3>1, <3>2, <3>3, <3>4, <4>1, <4>2, QueueAppended
    <3>6. CASE ~(Len(queue) < QueueCap)
      <4>1. queue' = queue /\ call' = call
        BY <2>3, <3>6 DEF NewGuard
      <4>2. ASSUME NEW d, EntryInv(d, guard, call) PROVE EntryInv(d, guard', call')
        BY <3>3, <3>4, <4>1, <4>2 DEF EntryInv
      <4> QED BY <3>3, <4>1, <4>2 DEF QueueInv
    <3> QED BY <3>5, <3>6
  <2>4. CASE SendRelease(l)
    <3> DEFINE e == ReleaseEntry(l)
    <3>1. /\ e.op = "release" /\ e.lease = l /\ e \in Entries /\ ~Waits(e)
      BY SentEntries DEF Gens, AllOps, ReleaseEntry, Waits, Silent
    <3>2. guard[l] = "dropped" /\ cur' = cur /\ call' = call
      BY <2>4 DEF SendRelease
    <3>3. \A k \in Leases \ {l} : guard'[k] = guard[k]
      BY <1>0, <2>4 DEF SendRelease
    <3>4. CASE Accepting
      <4>1. queue' = Append(queue, e) /\ guard'[l] = "releasing"
        BY <1>0, <2>4, <3>4 DEF SendRelease, ReleaseQueued
      <4> HIDE DEF e
      <4>2. EntryInv(e, guard', call')
        BY <3>1, <4>1 DEF EntryInv
      <4> QED BY <3>1, <3>2, <3>3, <4>1, <4>2, QueueAppended
    <3>5. CASE ~Accepting
      <4>1. queue' = queue
        BY <2>4, <3>5 DEF SendRelease
      <4>2. ASSUME NEW d, EntryInv(d, guard, call) PROVE EntryInv(d, guard', call')
        BY <3>2, <3>3, <4>2 DEF EntryInv
      <4> QED BY <3>2, <4>1, <4>2 DEF QueueInv
    <3> QED BY <3>4, <3>5
  <2>5. CASE Return(l)
    <3>1. queue' = queue /\ cur' = cur /\ call[l].answer \in {"ok", "refused", "unknown"}
      BY <2>5 DEF Return
    <3>2. \A k \in Leases \ {l} : guard'[k] = guard[k] /\ call'[k] = call[k]
      BY <1>0, <2>5 DEF Return
    <3>3. CASE guard[l] = "held"
      <4>1. ASSUME NEW d, EntryInv(d, guard, call) PROVE EntryInv(d, guard', call')
        BY <3>1, <3>2, <3>3, <4>1 DEF EntryInv
      <4> QED BY <3>1, <4>1 DEF QueueInv
    <3>4. CASE guard[l] # "held"
      <4>1. ~Accepting
        BY <3>1, <3>4 DEF LeaseInv, NoCall
      <4>2. queue = <<>> /\ (cur = None \/ cur.op = "shutdown")
        BY <4>1 DEF Accepting, PlaceInv, BaseInv
      <4>3. EntryInv(cur, guard', call')
        BY <4>2, NoneKept DEF QueueInv, EntryInv, Waits, Silent
      <4> QED BY <3>1, <4>2, <4>3 DEF QueueInv
    <3> QED BY <3>3, <3>4
  <2>6. CASE \E op \in Ops : Call(l, op)
    <3>1. PICK op \in Ops : Call(l, op)
      BY <2>6
    <3>2. PICK g \in Expected(op) :
             queue' = Append(queue, [op |-> op, lease |-> l, old |-> FALSE, gen |-> g,
                                     open |-> TRUE])
      BY <3>1 DEF Call
    <3> DEFINE e == [op |-> op, lease |-> l, old |-> FALSE, gen |-> g, open |-> TRUE]
    <3>3. e.op = op /\ e.lease = l /\ e.open /\ e.op \notin Silent
      BY SourceAssumption DEF Silent
    <3>4. e \in Entries
      BY SentEntries DEF Expected, Gens, AllOps
    <3>5. guard[l] = "held" /\ call[l] = NoCall /\ cur' = cur /\ guard' = guard
      BY <3>1 DEF Call
    <3>6. \A k \in Leases \ {l} : call'[k] = call[k]
      BY <1>0, <3>1 DEF Call
    <3>7. queue' = Append(queue, e) /\ call'[l].answer = "waiting" /\ call'[l].op = op
      BY <1>0, <3>1, <3>2 DEF Call
    <3> HIDE DEF e
    <3>8. EntryInv(e, guard', call') /\ e.op # "poll"
      BY <3>3, <3>5, <3>7, SourceAssumption DEF EntryInv, Silent
    <3>9. call[l].answer = "none"
      BY <3>5 DEF NoCall
    <3> QED BY <3>3, <3>4, <3>5, <3>6, <3>7, <3>8, <3>9, QueueAppended
  <2> QED BY <2>1, <2>2, <2>3, <2>4, <2>5, <2>6
<1>5. CASE AskShutdown
  <2> DEFINE e == [op |-> "shutdown", lease |-> Nobody, old |-> FALSE, gen |-> "any",
                   open |-> TRUE]
  <2>1. e.op = "shutdown" /\ e.open /\ e.lease = Nobody /\ ~Waits(e)
    BY DEF Waits, Silent
  <2>2. e \in Entries
    BY SentEntries DEF Gens, AllOps
  <2>3. queue' = Append(queue, e) /\ cur' = cur /\ guard' = guard /\ call' = call
    BY <1>5 DEF AskShutdown
  <2> HIDE DEF e
  <2>4. EntryInv(e, guard', call')
    BY <2>1 DEF EntryInv
  <2> QED BY <2>1, <2>2, <2>3, <2>4, QueueAppended
<1>6. CASE Sleep
  <2>1. cur'.op = cur.op /\ cur'.lease = cur.lease /\ cur'.open = cur.open
    BY <1>6 DEF Sleep, TypeOK, Entries
  <2>2. \A l \in Leases : call'[l].answer = call[l].answer /\ call'[l].op = call[l].op
    BY <1>0, <1>6 DEF Sleep, Records
  <2>3. guard' = guard
    BY <1>6 DEF Sleep
  <2> QED BY <1>6, <2>1, <2>2, <2>3, SleptQueue, QueueMapped DEF TypeOK
<1>7. CASE Timer
  BY <1>7 DEF Timer, QueueInv
<1> QED BY <1>1, <1>2, <1>3, <1>4, <1>5, <1>6, <1>7 DEF Next

-----------------------------------------------------------------------------
(* What the actor has in hand                                              *)

(* The command that is taken.                                              *)
LEMMA HeadFacts ==
  ASSUME TypeOK, QueueInv, PlaceInv, LeaseInv, pc = "idle", queue # <<>>
  PROVE  /\ Head(queue) \in Entries /\ EntryInv(Head(queue), guard, call)
         /\ Head(queue).op # "poll" /\ cur = None /\ Accepting
         /\ Waits(Head(queue)) /\ Head(queue).op # "acquire" => Head(queue).lease \in leases
<1>1. /\ Head(queue) \in Entries /\ EntryInv(Head(queue), guard, call)
      /\ Head(queue).op # "poll"
  BY TailOfQueue DEF TypeOK, QueueInv
<1>2. cur = None /\ Accepting
  BY NoneKept DEF PlaceInv, Accepting
<1>3. Waits(Head(queue)) /\ Head(queue).op # "acquire" => Head(queue).lease \in leases
  BY <1>1, <1>2 DEF EntryInv, LeaseInv
<1> QED BY <1>1, <1>2, <1>3

LEMMA IdlePlace ==
  ASSUME pc' = "idle", cur' = None
  PROVE  PlaceInv'
BY NoneKept DEF PlaceInv

LEMMA PlaceReceive ==
  ASSUME TypeOK, BaseInv, QueueInv, PlaceInv, LeaseInv, Receive
  PROVE  PlaceInv'
<1>1. /\ pc = "idle" /\ queue # <<>> /\ Head(queue) \in Entries
      /\ EntryInv(Head(queue), guard, call) /\ cur = None
  BY ReceiveTakes, HeadFacts
<1> USE DEF actorVars, pollVars
<1>2. CASE Discard \/ Claim \/ Yield \/ Simulate
  <2>1. pc' = "idle" /\ cur' = None
    BY <1>1, <1>2 DEF Discard, Claim, Yield, Simulate
  <2> QED BY <2>1, IdlePlace
<1>3. CASE Acquire
  <2>1. CASE leases = {}
    <3>1. /\ pc' = "connect" /\ cur' = Head(queue) /\ Head(queue).op = "acquire"
          /\ leases' = {Head(queue).lease} /\ Head(queue).open /\ guard' = guard
          /\ controller' = controller /\ retrying' = retrying
      BY <1>3, <2>1 DEF Acquire, Taken, Admitted
    <3>2. controller = Nobody /\ ~retrying
      BY <1>1, <2>1 DEF BaseInv
    <3>3. Head(queue).lease \in Leases /\ guard[Head(queue).lease] = "held"
      BY <1>1, <3>1 DEF EntryInv, Waits, Silent
    <3> QED BY <3>1, <3>2, <3>3 DEF PlaceInv
  <2>2. CASE leases # {}
    <3>1. pc' = "idle" /\ cur' = None
      BY <1>1, <1>3, <2>2 DEF Acquire
    <3> QED BY <3>1, IdlePlace
  <2> QED BY <2>1, <2>2
<1>4. CASE Release
  <2>1. \/ pc' = "disconnect" /\ cur' = Head(queue) /\ leases' = {}
        \/ pc' = "idle" /\ cur' = None
    BY <1>1, <1>4 DEF Release
  <2>2. Head(queue).op = "release"
    BY <1>4 DEF Release, Taken
  <2>3. CASE pc' = "disconnect" /\ cur' = Head(queue) /\ leases' = {}
    BY <2>2, <2>3 DEF PlaceInv
  <2> QED BY <2>1, <2>3, IdlePlace
<1>5. CASE Refresh
  <2>1. \/ /\ pc' = "io" /\ cur' = Head(queue) /\ leases' # {}
           /\ retrying' => nextPoll' = "due"
        \/ pc' = "idle" /\ cur' = None
    BY <1>1, <1>5 DEF Refresh, Permitted
  <2>2. Head(queue).op = "refresh"
    BY <1>5 DEF Refresh, Taken
  <2>3. CASE pc' = "io" /\ cur' = Head(queue) /\ leases' # {} /\ (retrying' => nextPoll' = "due")
    BY <2>2, <2>3 DEF PlaceInv, Fenced
  <2> QED BY <2>1, <2>3, IdlePlace
<1>6. CASE Request
  <2>1. \/ pc' \in {"connect", "io"} /\ cur' = Head(queue) /\ leases' # {}
        \/ pc' = "idle" /\ cur' = None
    BY <1>1, <1>6 DEF Request, Permitted, Turned, Idle, Dispatched
  <2>2. Head(queue).op \in Fenced
    BY <1>6 DEF Request
  <2>3. CASE pc' \in {"connect", "io"} /\ cur' = Head(queue) /\ leases' # {}
    BY <2>2, <2>3 DEF PlaceInv, Fenced
  <2> QED BY <2>1, <2>3, IdlePlace
<1>7. CASE Shutdown
  <2>1. /\ pc' \in {"drain", "disconnect"} /\ cur' = Head(queue) /\ leases' = {}
        /\ queue' = <<>> /\ Head(queue).op = "shutdown"
    BY <1>7 DEF Shutdown, Taken
  <2> QED BY <2>1 DEF PlaceInv
<1> QED BY <1>2, <1>3, <1>4, <1>5, <1>6, <1>7 DEF Receive

LEMMA PlaceProgress ==
  ASSUME TypeOK, BaseInv, QueueInv, PlaceInv, LeaseInv, Progress
  PROVE  PlaceInv'
<1> USE DEF actorVars, pollVars, linkVars
<1>1. CASE AcquireConnected
  <2>1. pc = "connect" /\ cur.op = "acquire"
    BY <1>1 DEF AcquireConnected, Linked
  <2>2. \/ pc' = "idle" /\ cur' = None
        \/ ~cur.open /\ leases' = leases \ {cur.lease} /\ pc' = "disconnect" /\ cur' = cur
    BY <1>1 DEF AcquireConnected, Idle
  <2>3. CASE ~cur.open /\ leases' = leases \ {cur.lease} /\ pc' = "disconnect" /\ cur' = cur
    <3>1. leases' = {}
      BY <2>1, <2>3 DEF PlaceInv
    <3> QED BY <2>1, <2>3, <3>1 DEF PlaceInv
  <2> QED BY <2>2, <2>3, IdlePlace
<1>2. CASE RequestConnected
  <2>1. pc = "connect" /\ cur.op \in Fenced
    BY <1>2 DEF RequestConnected, Linked
  <2>2. \/ pc' = "idle" /\ cur' = None
        \/ pc' = "io" /\ cur' = NewGeneration(cur) /\ leases' = leases
    BY <1>2 DEF RequestConnected, Turned, Dispatched, Idle
  <2>3. CASE pc' = "io" /\ cur' = NewGeneration(cur) /\ leases' = leases
    BY <2>1, <2>3, NewGenerationKeeps DEF PlaceInv, Fenced, TypeOK
  <2> QED BY <2>2, <2>3, IdlePlace
<1>3. CASE PollConnected
  <2>1. cur.op = "poll" /\ pc = "connect" /\ leases' = leases
    BY <1>3 DEF PollConnected, Linked
  <2>2. \/ pc' = "idle" /\ cur' = None
        \/ pc' = "io" /\ cur' = cur /\ nextPoll' = nextPoll /\ connected'
    BY <1>3 DEF PollConnected, Linked, Idle
  <2>3. CASE pc' = "io" /\ cur' = cur /\ nextPoll' = nextPoll /\ connected'
    BY <2>1, <2>3 DEF PlaceInv
  <2>4. CASE pc' = "idle" /\ cur' = None
    BY <2>4, IdlePlace
  <2> QED BY <2>2, <2>3, <2>4
<1>4. CASE ReadEnds \/ RefreshEnds \/ WriteEnds \/ PollEnds
  <2>1. pc' = "idle" /\ cur' = None
    BY <1>4 DEF ReadEnds, RefreshEnds, WriteEnds, PollEnds, Idle
  <2> QED BY <2>1, IdlePlace
<1>5. CASE DisconnectEnds
  <2>1. \/ pc' = "idle" /\ cur' = None
        \/ pc' = "drain" /\ cur' = cur /\ cur.op = "shutdown"
    BY <1>5 DEF DisconnectEnds, Idle
  <2>2. CASE pc' = "drain" /\ cur' = cur /\ cur.op = "shutdown"
    <3>1. queue' = <<>>
      <4>1. queue = <<>>
        BY <2>2 DEF PlaceInv
      <4>2. queue' \in Seq(Entries) /\ Len(queue') = 0
        BY <4>1, ProgressQueue
      <4> QED BY <4>2
    <3> QED BY <2>2, <3>1 DEF PlaceInv
  <2> QED BY <2>1, <2>2, IdlePlace
<1>6. CASE Drain
  BY <1>6, NoneKept DEF Drain, PlaceInv
<1>7. CASE Resume
  <2>1. pc' = "idle" /\ cur' = None
    BY <1>7 DEF Resume, PlaceInv
  <2> QED BY <2>1, IdlePlace
<1>8. CASE PollBegins
  BY <1>8, NoneKept DEF PollBegins, PlaceInv, PollDue
<1> QED BY <1>1, <1>2, <1>3, <1>4, <1>5, <1>6, <1>7, <1>8 DEF Progress

(* Clients change what is in hand only in whether it is waited for.        *)
LEMMA PlaceOthers ==
  ASSUME TypeOK, BaseInv, QueueInv, PlaceInv, LeaseInv, Client \/ AskShutdown \/ Sleep \/ Timer
  PROVE  PlaceInv'
<1>0. guard \in [Leases -> Guards] /\ call \in [Leases -> Records]
  BY DEF TypeOK, Guards, Records
<1> USE DEF actorVars, pollVars, linkVars, ActorUnchanged
<1>1. /\ pc' = pc /\ leases' = leases /\ controller' = controller /\ retrying' = retrying
      /\ nextPoll' = nextPoll \/ nextPoll' = "due"
      /\ connected' = connected
  BY DEF Client, NewGuard, Return, Cancel, Drop, SendRelease, Call, AskShutdown, Sleep, Timer
<1>2. /\ cur'.op = cur.op /\ cur'.lease = cur.lease
      /\ cur'.open => cur.open
      /\ cur = None => cur' = None
  <2>1. cur' = cur \/ (\E l \in Leases : cur' = Unheard(l)) \/ Sleep
    BY DEF Client, NewGuard, Return, Cancel, Drop, SendRelease, Call, AskShutdown, Sleep, Timer
  <2>2. CASE Sleep
    <3>1. cur'.op = cur.op /\ cur'.lease = cur.lease /\ cur'.open = cur.open
      BY <2>2 DEF Sleep, TypeOK, Entries
    <3>2. ASSUME cur = None PROVE cur' = None
      <4>1. cur' = [None EXCEPT !.old = FALSE]
        BY <2>2, <3>2 DEF Sleep, None, Fenced
      <4> QED BY <4>1 DEF None
    <3> QED BY <3>1, <3>2
  <2>3. ASSUME NEW l \in Leases, cur' = Unheard(l)
        PROVE /\ cur'.op = cur.op /\ cur'.lease = cur.lease
              /\ cur'.open => cur.open
              /\ cur = None => cur' = None
    <3>1. cur = None => cur' = None
      BY <2>3, SourceAssumption DEF Unheard, None
    <3> QED BY <2>3, <3>1, UnheardKeeps DEF TypeOK
  <2> QED BY <2>1, <2>2, <2>3
<1>3. cur.op = "shutdown" => queue' = <<>>
  <2> SUFFICES ASSUME cur.op = "shutdown" PROVE queue' = <<>>
    OBVIOUS
  <2>1. queue = <<>> /\ ~Accepting
    BY DEF PlaceInv, Accepting
  <2>2. CASE Client
    <3>1. \/ queue' = queue
          \/ \E l \in Leases : queue' = [i \in DOMAIN queue |-> Skipped(l, queue[i])]
      BY <2>1, <2>2 DEF Client, NewGuard, Return, Cancel, Drop, SendRelease, Call, MapQueue
    <3> QED BY <2>1, <3>1
  <2>3. CASE Sleep
    <3>1. queue' \in Seq(Entries) /\ Len(queue') = 0
      BY <2>1, <2>3, SleptQueue DEF TypeOK
    <3> QED BY <3>1
  <2>4. CASE AskShutdown \/ Timer
    BY <2>1, <2>4 DEF AskShutdown, Timer
  <2> QED BY <2>2, <2>3, <2>4
<1>4. pc = "connect" /\ cur.op = "acquire" =>
        guard'[cur.lease] \in (IF cur'.open THEN {"held"} ELSE {"dropped", "releasing"})
  <2> SUFFICES ASSUME pc = "connect", cur.op = "acquire"
      PROVE guard'[cur.lease] \in (IF cur'.open THEN {"held"} ELSE {"dropped", "releasing"})
    OBVIOUS
  <2> DEFINE c == cur.lease
  <2>1. /\ c \in Leases /\ Accepting
        /\ guard[c] \in (IF cur.open THEN {"held"} ELSE {"dropped", "releasing"})
    BY DEF PlaceInv, Accepting
  <2>2. cur.open => call[c].answer = "waiting" /\ call[c].op = "acquire"
    BY DEF QueueInv, EntryInv, Waits, Silent
  <2>3. CASE Client
    <3>1. PICK l \in Leases : \/ NewGuard(l) \/ Return(l) \/ Cancel(l) \/ Drop(l)
                              \/ SendRelease(l) \/ \E op \in Ops : Call(l, op)
      BY <2>3 DEF Client
    <3>2. CASE Drop(l)
      <4>1. cur'.open = (cur.open /\ c # l) /\ guard' = [guard EXCEPT ![l] = "dropped"]
            /\ guard[l] = "held"
        BY <3>2, UnheardKeeps DEF Drop, TypeOK
      <4> QED BY <1>0, <2>1, <4>1
    <3>3. CASE Cancel(l)
      <4>1. guard' = guard /\ call[l].op # "acquire"
            /\ cur'.open = (cur.open /\ c # l)
        BY <3>3, UnheardKeeps DEF Cancel, TypeOK
      <4> QED BY <2>1, <2>2, <4>1
    <3>4. CASE NewGuard(l)
      <4>1. guard[l] = "free" /\ cur' = cur
        BY <3>4 DEF NewGuard
      <4>2. c # l
        BY <2>1, <4>1
      <4>3. guard'[c] = guard[c]
        BY <1>0, <2>1, <3>4, <4>2 DEF NewGuard
      <4> QED BY <2>1, <4>1, <4>3
    <3>5. CASE Return(l)
      <4>1. cur' = cur /\ call[l].answer # "waiting"
        BY <3>5 DEF Return
      <4>2. guard'[c] = guard[c] \/ (c = l /\ guard'[c] = "dropped")
        BY <1>0, <2>1, <3>5 DEF Return
      <4> QED BY <2>1, <2>2, <4>1, <4>2
    <3>6. CASE SendRelease(l)
      <4>1. cur' = cur /\ guard' = [guard EXCEPT ![l] = "releasing"] /\ guard[l] = "dropped"
        BY <2>1, <3>6 DEF SendRelease
      <4> QED BY <1>0, <2>1, <4>1
    <3>7. CASE \E op \in Ops : Call(l, op)
      BY <2>1, <3>7 DEF Call
    <3> QED BY <3>1, <3>2, <3>3, <3>4, <3>5, <3>6, <3>7
  <2>4. CASE AskShutdown \/ Timer
    BY <2>1, <2>4 DEF AskShutdown, Timer
  <2>5. CASE Sleep
    <3>1. cur'.open = cur.open /\ guard' = guard
      BY <2>5 DEF Sleep, TypeOK, Entries
    <3> QED BY <2>1, <3>1
  <2> QED BY <2>3, <2>4, <2>5
<1> QED BY <1>1, <1>2, <1>3, <1>4 DEF PlaceInv

-----------------------------------------------------------------------------
(* Leases, control and the transport                                       *)

(* Only a lease holder has control.                                        *)
LEMMA ControlKept ==
  ASSUME TypeOK, BaseInv, QueueInv, PlaceInv, LeaseInv, Next
  PROVE  controller' # Nobody /\ pc' # "disconnect" => controller' \in leases'
<1> USE DEF actorVars, ActorUnchanged
<1>1. CASE Receive /\ ~Shutdown
  BY <1>1 DEF Receive, Discard, Acquire, Release, Claim, Yield, Simulate, Refresh, Request,
       Taken, ControlWithout, BaseInv
<1>2. CASE Shutdown
  BY <1>2 DEF Shutdown, Taken, BaseInv
<1>3. CASE Progress
  <2>1. CASE AcquireConnected
    BY <2>1 DEF AcquireConnected, Linked, PlaceInv
  <2>2. CASE DisconnectEnds
    BY <2>2 DEF DisconnectEnds
  <2>3. CASE ~AcquireConnected /\ ~DisconnectEnds
    <3>1. controller' = controller /\ leases' = leases /\ pc # "disconnect"
      BY <1>3, <2>3 DEF Progress, RequestConnected, PollConnected, ReadEnds, Linked,
         RefreshEnds, WriteEnds, PollEnds, Drain, Resume, PollBegins
    <3> QED BY <3>1 DEF BaseInv
  <2> QED BY <2>1, <2>2, <2>3
<1>4. CASE Client \/ AskShutdown \/ Sleep \/ Timer
  <2>1. controller' = controller /\ pc' = pc /\ leases' = leases
    BY <1>4 DEF Client, NewGuard, Return, Cancel, Drop, SendRelease, Call, AskShutdown, Sleep,
         Timer
  <2> QED BY <2>1 DEF BaseInv
<1> QED BY <1>1, <1>2, <1>3, <1>4 DEF Next

(* No session without a lease.                                             *)
Closed == /\ cleaned /\ ~connected /\ ~handshake /\ controller = Nobody
          /\ ~writeUncertain /\ ~retrying

LEMMA SessionKept ==
  ASSUME TypeOK, BaseInv, QueueInv, PlaceInv, LeaseInv, Next
  PROVE  /\ leases' = {} /\ pc' \in {"idle", "drain", "stopped"} => Closed'
         /\ leases' # {} => ~cleaned'
<1> USE DEF hostVars, actorVars, linkVars, pollVars, ActorUnchanged
<1>0. /\ leases = {} /\ pc \in {"idle", "drain", "stopped"} => Closed
      /\ leases # {} => ~cleaned
  BY Zenon DEF BaseInv, Closed
<1>1. CASE Receive
  <2>1. /\ pc = "idle" /\ queue # <<>>
        /\ Waits(Head(queue)) /\ Head(queue).op # "acquire" => Head(queue).lease \in leases
    BY <1>1, ReceiveTakes, HeadFacts
  <2>2. CASE Discard
    BY <1>0, <2>1, <2>2 DEF Discard, Closed
  <2>3. CASE Acquire
    BY <1>0, <2>1, <2>3 DEF Acquire, Closed
  <2>4. CASE Release
    BY <1>0, <2>1, <2>4 DEF Release, Closed, ControlWithout
  <2>5. CASE Claim
    BY <1>0, <2>1, <2>5 DEF Claim, Closed
  <2>6. CASE Yield
    BY <1>0, <2>1, <2>6 DEF Yield, Closed, ControlWithout
  <2>7. CASE Simulate
    BY <1>0, <2>1, <2>7 DEF Simulate, Closed
  <2>8. CASE Refresh
    <3>1. Head(queue).lease \in leases
      BY <2>1, <2>8 DEF Refresh, Taken, Admitted, Waits, Silent
    <3> QED BY <1>0, <2>8, <3>1 DEF Refresh
  <2>9. CASE Request
    BY <1>0, <2>1, <2>9 DEF Request, Closed
  <2>10. CASE Shutdown
    BY <1>0, <2>1, <2>10 DEF Shutdown, Closed
  <2> QED BY <1>1, <2>2, <2>3, <2>4, <2>5, <2>6, <2>7, <2>8, <2>9, <2>10 DEF Receive
<1>2. CASE Progress
  <2>1. CASE AcquireConnected
    BY <1>0, <2>1 DEF AcquireConnected, Linked, PlaceInv
  <2>2. CASE DisconnectEnds
    BY <1>0, <2>2 DEF DisconnectEnds, CleanedOnce, Closed, PlaceInv
  <2>3. CASE RequestConnected \/ PollConnected \/ ReadEnds \/ RefreshEnds \/ WriteEnds
             \/ PollEnds \/ PollBegins
    <3>1. leases' = leases /\ leases # {} /\ cleaned' = cleaned
      BY <2>3 DEF RequestConnected, PollConnected, ReadEnds, RefreshEnds, WriteEnds,
         PollEnds, PollBegins, Linked, PlaceInv, PollDue
    <3> QED BY <1>0, <3>1
  <2>4. CASE Drain
    BY <1>0, <2>4 DEF Drain, Closed
  <2>5. CASE Resume
    BY <1>0, <2>5 DEF Resume, Resumed, Closed
  <2> QED BY <1>2, <2>1, <2>2, <2>3, <2>4, <2>5 DEF Progress
<1>3. CASE Client \/ AskShutdown \/ Sleep \/ Timer
  <2>1. /\ leases' = leases /\ pc' = pc /\ cleaned' = cleaned /\ connected' = connected
        /\ handshake' = handshake /\ controller' = controller
        /\ writeUncertain' = writeUncertain /\ retrying' = retrying
    BY <1>3 DEF Client, NewGuard, Return, Cancel, Drop, SendRelease, Call, AskShutdown,
       Sleep, Timer
  <2> QED BY <1>0, <2>1 DEF Closed
<1> QED BY <1>1, <1>2, <1>3 DEF Next

(* No evidence without transport.                                          *)
LEMMA EvidenceKept ==
  ASSUME TypeOK, BaseInv, PlaceInv, Next
  PROVE  ~connected' => cache' = "empty"
<1> USE DEF hostVars, linkVars, ActorUnchanged
<1>0. ~connected => cache = "empty"
  BY DEF BaseInv
<1>1. CASE Receive
  BY <1>0, <1>1 DEF Receive, Discard, Acquire, Release, Claim, Yield, Simulate, Refresh,
     Request, Shutdown
<1>2. CASE Progress
  <2>1. CASE PollEnds
    <3>1. connected
      BY <2>1 DEF PollEnds, PlaceInv
    <3>2. cache' = "empty" \/ connected' = connected
      BY <2>1 DEF PollEnds, Resumed, Faulted, Kept
    <3> QED BY <3>1, <3>2, Zenon
  <2>2. CASE WriteEnds
    BY <1>0, <2>2 DEF WriteEnds, WriteInterrupted, WriteUnknown, WriteRejected, Faulted,
       CacheAfterWrite
  <2>3. CASE ~PollEnds /\ ~WriteEnds
    BY <1>0, <1>2, <2>3 DEF Progress, AcquireConnected, RequestConnected, PollConnected,
       ReadEnds, RefreshEnds, DisconnectEnds, Drain, Resume, PollBegins, Linked, Faulted,
       Resumed, Kept
  <2> QED BY <2>1, <2>2, <2>3
<1>3. CASE Client \/ AskShutdown \/ Sleep \/ Timer
  BY <1>0, <1>3 DEF Client, NewGuard, Return, Cancel, Drop, SendRelease, Call, AskShutdown,
     Sleep, Timer
<1> QED BY <1>1, <1>2, <1>3 DEF Next

(* A lease lasts no longer than its guard.                                 *)
LEMMA GuardedKept ==
  ASSUME TypeOK, BaseInv, QueueInv, PlaceInv, LeaseInv, Next
  PROVE  \A l \in leases' : guard'[l] # "free"
<1>0. /\ guard \in [Leases -> Guards] /\ leases \subseteq Leases
      /\ \A l \in leases : guard[l] # "free"
  BY DEF TypeOK, Guards, BaseInv
<1> USE DEF actorVars, ActorUnchanged
<1>1. CASE Receive
  <2>1. /\ pc = "idle" /\ queue # <<>> /\ EntryInv(Head(queue), guard, call)
    BY <1>1, ReceiveTakes, HeadFacts
  <2>2. CASE Acquire
    <3>1. guard[Head(queue).lease] = "held"
      BY <2>1, <2>2 DEF Acquire, Taken, Admitted, EntryInv, Waits, Silent
    <3> QED BY <1>0, <2>2, <3>1 DEF Acquire
  <2>3. CASE Release
    BY <1>0, <2>3 DEF Release
  <2>4. CASE ~Acquire /\ ~Release
    BY <1>0, <1>1, <2>4 DEF Receive, Discard, Claim, Yield, Simulate, Refresh, Request,
       Shutdown
  <2> QED BY <2>2, <2>3, <2>4
<1>2. CASE Progress
  BY <1>0, <1>2 DEF Progress, AcquireConnected, RequestConnected, PollConnected, ReadEnds,
     RefreshEnds, WriteEnds, PollEnds, DisconnectEnds, Drain, Resume, PollBegins, PlaceInv
<1>3. CASE Client
  <2>1. ~Accepting => leases = {}
    BY DEF Accepting, PlaceInv, BaseInv, TypeOK, Fenced, None
  <2> QED BY <1>0, <1>3, <2>1 DEF Client, NewGuard, Return, Cancel, Drop, SendRelease, Call
<1>4. CASE AskShutdown \/ Sleep \/ Timer
  BY <1>0, <1>4 DEF AskShutdown, Sleep, Timer
<1> QED BY <1>1, <1>2, <1>3, <1>4 DEF Next

(* Nothing waits for an actor that has stopped.                            *)
LEMMA StoppedKept ==
  ASSUME TypeOK, BaseInv, PlaceInv, PlaceInv', Next
  PROVE  pc' \in {"drain", "stopped"} => queue' = <<>> /\ leases' = {}
<1> USE DEF actorVars, ActorUnchanged
<1>1. CASE Receive
  BY <1>1, ReceiveTakes DEF Receive, Discard, Acquire, Release, Claim, Yield, Simulate,
     Refresh, Request, Shutdown, Turned, Dispatched, Idle
<1>2. CASE Progress
  <2>1. CASE DisconnectEnds
    BY <2>1 DEF DisconnectEnds, PlaceInv, Idle
  <2>2. CASE Drain
    BY <2>2 DEF Drain, BaseInv
  <2>3. CASE ~DisconnectEnds /\ ~Drain
    <3>1. pc' \in {"idle", "connect", "io", "disconnect"}
      BY <1>2, <2>3 DEF Progress, AcquireConnected, RequestConnected, PollConnected,
         ReadEnds, RefreshEnds, WriteEnds, PollEnds, Resume, PollBegins, Idle, Turned,
         Dispatched
    <3> QED BY <3>1
  <2> QED BY <2>1, <2>2, <2>3
<1>3. CASE Client
  <2>1. pc' = pc /\ leases' = leases
    BY <1>3 DEF Client, NewGuard, Return, Cancel, Drop, SendRelease, Call
  <2>2. ASSUME pc \in {"drain", "stopped"} PROVE queue' = <<>>
    <3>1. ~Accepting /\ queue = <<>>
      BY <2>2 DEF Accepting, BaseInv
    <3>2. \/ queue' = queue
          \/ \E l \in Leases : queue' = [i \in DOMAIN queue |-> Skipped(l, queue[i])]
      BY <1>3, <3>1 DEF Client, NewGuard, Return, Cancel, Drop, SendRelease, Call, MapQueue
    <3> QED BY <3>1, <3>2
  <2> QED BY <2>1, <2>2 DEF BaseInv
<1>4. CASE AskShutdown \/ Timer
  BY <1>4 DEF AskShutdown, Timer, Accepting, BaseInv
<1>5. CASE Sleep
  <2>1. pc' = pc /\ leases' = leases /\ pc # "stopped"
    BY <1>5 DEF Sleep
  <2> QED BY <2>1 DEF BaseInv, PlaceInv
<1> QED BY <1>1, <1>2, <1>3, <1>4, <1>5 DEF Next

(* A write that is with the backend is in hand; one without an outcome is  *)
(* latched.                                                                *)
LEMMA LatchKept ==
  ASSUME TypeOK, BaseInv, PlaceInv, Next
  PROVE  /\ sent' => pc' = "io" /\ cur'.op = "write"
         /\ doubt' => writeUncertain'
<1> USE DEF actorVars, writeVars, ActorUnchanged
<1>0. /\ sent => pc = "io" /\ cur.op = "write"
      /\ doubt => writeUncertain
  BY DEF BaseInv
<1>1. CASE Receive
  <2>1. sent' => pc' = "io" /\ cur'.op = "write"
    <3>1. pc = "idle"
      BY <1>1, ReceiveTakes
    <3>2. CASE Request
      BY <1>0, <3>1, <3>2 DEF Request, Turned, Dispatched, Idle
    <3>3. CASE ~Request
      BY <1>0, <1>1, <3>1, <3>3 DEF Receive, Discard, Acquire, Release, Claim, Yield,
         Simulate, Refresh, Shutdown
    <3> QED BY <3>2, <3>3
  <2>2. doubt' = doubt /\ writeUncertain' = writeUncertain
    BY <1>1 DEF Receive, Discard, Acquire, Release, Claim, Yield, Simulate, Refresh, Request,
       Shutdown
  <2> QED BY <1>0, <2>1, <2>2
<1>2. CASE Progress
  <2>1. sent' => pc' = "io" /\ cur'.op = "write"
    <3>1. CASE RequestConnected
      BY <1>0, <3>1, NewGenerationKeeps DEF RequestConnected, Turned, Dispatched, Linked,
         TypeOK
    <3>2. CASE WriteEnds
      BY <3>2 DEF WriteEnds
    <3>3. CASE ~RequestConnected /\ ~WriteEnds
      <4>1. sent' = sent /\ (pc # "io" \/ cur.op # "write")
        BY <1>2, <3>3 DEF Progress, AcquireConnected, PollConnected, ReadEnds,
           RefreshEnds, PollEnds, DisconnectEnds, Drain, Resume, PollBegins
      <4> QED BY <1>0, <4>1
    <3> QED BY <3>1, <3>2, <3>3
  <2>2. doubt' => writeUncertain'
    BY <1>0, <1>2 DEF Progress, AcquireConnected, RequestConnected, PollConnected, ReadEnds,
       RefreshEnds, WriteEnds, PollEnds, DisconnectEnds, Drain, Resume, PollBegins, Linked,
       Resumed, WriteInterrupted, WriteUnknown, WriteRejected
  <2> QED BY <2>1, <2>2
<1>3. CASE Client \/ AskShutdown \/ Sleep \/ Timer
  <2>1. /\ pc' = pc /\ sent' = sent /\ doubt' = doubt /\ writeUncertain' = writeUncertain
        /\ cur' = cur \/ (\E l \in Leases : cur' = Unheard(l)) \/ Sleep
    BY <1>3 DEF Client, NewGuard, Return, Cancel, Drop, SendRelease, Call, AskShutdown,
       Sleep, Timer
  <2>2. cur'.op = cur.op
    BY <2>1, UnheardKeeps DEF Sleep, TypeOK, Entries
  <2> QED BY <1>0, <2>1, <2>2
<1> QED BY <1>1, <1>2, <1>3 DEF Next

LEMMA BaseKept ==
  ASSUME TypeOK, BaseInv, QueueInv, PlaceInv, LeaseInv, PlaceInv', Next
  PROVE  BaseInv'
BY ControlKept, SessionKept, EvidenceKept, GuardedKept, StoppedKept, LatchKept, Zenon
   DEF BaseInv, Closed

-----------------------------------------------------------------------------
(* Guards, calls and leases                                                *)

LEMMA ClosedForGood ==
  ASSUME TypeOK, PlaceInv, Next, ~Accepting
  PROVE  ~Accepting'
<1> USE DEF ActorUnchanged
<1>1. (cur.op = "shutdown" /\ pc \in {"disconnect", "drain"}) \/ pc = "stopped"
  BY NoneKept DEF Accepting, PlaceInv, TypeOK, Fenced
<1>2. ~Receive
  BY <1>1, ReceiveTakes
<1>3. CASE Progress
  BY <1>1, <1>3 DEF Progress, AcquireConnected, RequestConnected, PollConnected, ReadEnds,
     RefreshEnds, WriteEnds, PollEnds, DisconnectEnds, Drain, Resume, PollBegins, Accepting,
     Linked, PlaceInv, Fenced, None
<1>4. CASE Client \/ AskShutdown \/ Sleep \/ Timer
  <2>1. pc' = pc /\ (cur' = cur \/ (\E l \in Leases : cur' = Unheard(l)) \/ Sleep)
    BY <1>4 DEF Client, NewGuard, Return, Cancel, Drop, SendRelease, Call, AskShutdown,
       Sleep, Timer
  <2>2. cur'.op = cur.op
    BY <2>1, UnheardKeeps DEF Sleep, TypeOK, Entries
  <2> QED BY <1>1, <2>1, <2>2 DEF Accepting
<1> QED BY <1>2, <1>3, <1>4 DEF Next

(* What an answer does to the call it is for.                              *)
LEMMA AnswersFacts ==
  ASSUME TypeOK, NEW e, EntryInv(e, guard, call), Answers(e), NEW l \in Leases,
         e.op \notin {"shutdown", "poll"}
  PROVE  /\ call'[l].op = call[l].op /\ call'[l].old = call[l].old
         /\ \/ call'[l] = call[l]
            \/ /\ Waits(e) /\ e.lease = l /\ e.open
               /\ call[l].op = e.op /\ call[l].answer = "waiting" /\ guard[l] = "held"
               /\ call'[l].answer \in {"ok", "refused", "unknown"}
<1>1. call \in [Leases -> Records]
  BY DEF TypeOK, Records
<1>2. PICK a \in {"ok", "refused", "unknown"} : call' = Answered(e, a)
  BY DEF Answers
<1>3. /\ call'[l].op = call[l].op /\ call'[l].old = call[l].old
      /\ ~(e.open /\ e.op # "release" /\ e.lease = l) => call'[l] = call[l]
      /\ e.open /\ e.op # "release" /\ e.lease = l => call'[l].answer = a
  <2>1. /\ \A k \in Leases :
              /\ Answered(e, a)[k].op = call[k].op /\ Answered(e, a)[k].old = call[k].old
              /\ ~(e.open /\ e.op # "release" /\ e.lease = k) => Answered(e, a)[k] = call[k]
              /\ e.open /\ e.op # "release" /\ e.lease = k => Answered(e, a)[k].answer = a
    BY <1>1 DEF Answered, Records
  <2> QED BY <1>2, <2>1
<1>4. e.open /\ e.op # "release" => Waits(e)
  BY DEF EntryInv, Waits, Silent
<1> QED BY <1>3, <1>4 DEF EntryInv

LEMMA LeaseReceive ==
  ASSUME TypeOK, BaseInv, QueueInv, PlaceInv, LeaseInv, Receive, ~Shutdown
  PROVE  LeaseInv'
<1>1. /\ pc = "idle" /\ queue # <<>> /\ Accepting
      /\ EntryInv(Head(queue), guard, call) /\ Head(queue).op # "poll"
  BY ReceiveTakes, HeadFacts
<1>2. call' = call \/ (Head(queue).op # "shutdown" /\ Answers(Head(queue)))
  BY ReceiveAnswers
<1>3. /\ guard \in [Leases -> Guards] /\ call \in [Leases -> Records]
  BY DEF TypeOK, Guards, Records
<1> DEFINE e == Head(queue)
<1> SUFFICES ASSUME NEW l \in Leases
    PROVE  /\ guard'[l] # "held" => call'[l] = NoCall
           /\ guard'[l] = "held" /\ (call'[l].op # "acquire" \/ call'[l].answer = "ok") =>
                l \in leases'
           /\ call'[l].op = "none" => call'[l] = NoCall
           /\ call'[l].op = "acquire" => call'[l].answer # "unknown"
  BY Zenon DEF LeaseInv
<1>4. /\ guard[l] # "held" => call[l] = NoCall
      /\ guard[l] = "held" /\ (call[l].op # "acquire" \/ call[l].answer = "ok") => l \in leases
      /\ call[l].op = "none" => call[l] = NoCall
      /\ call[l].op = "acquire" => call[l].answer # "unknown"
  BY <1>1 DEF LeaseInv
<1>5. \/ guard'[l] = guard[l]
      \/ guard[l] = "releasing" /\ guard'[l] = "free"
  BY <1>1, <1>3 DEF Receive, Discard, Acquire, Release, Claim, Yield, Simulate, Refresh,
     Request, Taken, EntryInv
<1>6. call'[l].op = call[l].op
      /\ \/ call'[l] = call[l]
         \/ /\ Answers(e) /\ Waits(e) /\ e.lease = l /\ e.open
            /\ call[l].op = e.op /\ guard[l] = "held" /\ call[l].answer = "waiting"
            /\ call'[l].answer \in {"ok", "refused", "unknown"}
  BY <1>1, <1>2, AnswersFacts
<1>7. l \in leases => l \in leases' \/ guard[l] = "releasing"
  <2>1. leases' = leases \/ leases' = leases \cup {e.lease}
        \/ (e.op = "release" /\ leases' = leases \ {e.lease})
    BY DEF Receive, Discard, Acquire, Release, Claim, Yield, Simulate, Refresh, Request,
       Taken, actorVars
  <2> QED BY <1>1, <2>1 DEF EntryInv
<1>8. guard'[l] # "held" => call'[l] = NoCall
  BY <1>4, <1>5, <1>6 
<1>9. ASSUME call'[l].op = "acquire", call'[l] # call[l]
      PROVE  /\ call'[l].answer = "ok" => l \in leases'
             /\ call'[l].answer # "unknown"
  <2>1. e.op = "acquire" /\ e.lease = l /\ e.open
    BY <1>6, <1>9
  <2>2. Discard \/ Acquire
    BY <2>1 DEF Receive, Release, Claim, Yield, Simulate, Refresh, Request, Taken, Fenced
  <2>3. CASE Discard
    <3>1. call' = Answered(e, "refused")
      BY <2>3 DEF Discard
    <3>2. call'[l].answer = "refused"
      BY <1>3, <2>1, <3>1 DEF Answered, Records
    <3> QED BY <3>2
  <2>4. CASE Acquire
    <3>1. call' = Answered(e, "ok") /\ l \in leases'
      BY <1>9, <2>1, <2>4 DEF Acquire
    <3>2. call'[l].answer = "ok"
      BY <1>3, <2>1, <3>1 DEF Answered, Records
    <3> QED BY <3>1, <3>2
  <2> QED BY <2>2, <2>3, <2>4
<1>10. call'[l].op = "none" => call'[l] = NoCall
  BY <1>4, <1>6, <1>1 DEF NoCall
<1> QED BY <1>4, <1>5, <1>6, <1>7, <1>8, <1>9, <1>10

LEMMA LeaseShutdown ==
  ASSUME TypeOK, LeaseInv, Shutdown
  PROVE  LeaseInv'
<1>1. ~Accepting'
  BY DEF Shutdown, Taken, Accepting
<1>2. \A l \in Leases : IF call[l].answer = "waiting"
                         THEN call'[l].op = call[l].op /\ call'[l].answer = "refused"
                         ELSE call'[l] = call[l]
  BY DEF Shutdown, TypeOK
<1> QED BY <1>1, <1>2 DEF LeaseInv, NoCall

LEMMA LeaseProgress ==
  ASSUME TypeOK, BaseInv, QueueInv, PlaceInv, LeaseInv, Progress
  PROVE  LeaseInv'
<1>1. call' = call \/ (cur' = None /\ cur.op \in Worked /\ Answers(cur))
  BY ProgressAnswers
<1>2. EntryInv(cur, guard, call)
  BY DEF QueueInv
<1>3. /\ guard \in [Leases -> Guards] /\ call \in [Leases -> Records]
  BY DEF TypeOK, Guards, Records
<1>4. Accepting' => Accepting
  BY ClosedForGood DEF Next
<1> SUFFICES ASSUME NEW l \in Leases
    PROVE  /\ guard'[l] # "held" => call'[l] = NoCall \/ ~Accepting
           /\ Accepting' /\ guard'[l] = "held"
              /\ (call'[l].op # "acquire" \/ call'[l].answer = "ok") => l \in leases'
           /\ call'[l].op = "none" => call'[l] = NoCall
           /\ call'[l].op = "acquire" => call'[l].answer # "unknown"
  BY <1>4, Zenon DEF LeaseInv
<1>5. /\ guard[l] # "held" => call[l] = NoCall \/ ~Accepting
      /\ Accepting /\ guard[l] = "held"
         /\ (call[l].op # "acquire" \/ call[l].answer = "ok") => l \in leases
      /\ call[l].op = "none" => call[l] = NoCall
      /\ call[l].op = "acquire" => call[l].answer # "unknown"
  BY DEF LeaseInv
<1>6. \/ guard'[l] = guard[l]
      \/ guard[l] = "releasing" /\ guard'[l] = "free"
  BY <1>2, <1>3 DEF Progress, AcquireConnected, RequestConnected, PollConnected, ReadEnds,
     RefreshEnds, WriteEnds, PollEnds, DisconnectEnds, Drain, Resume, PollBegins, EntryInv
<1>7. call'[l].op = call[l].op
      /\ \/ call'[l] = call[l]
         \/ /\ Waits(cur) /\ cur.lease = l /\ cur.open
            /\ call[l].op = cur.op /\ guard[l] = "held" /\ call[l].answer = "waiting"
            /\ call'[l].answer \in {"ok", "refused", "unknown"}
  <2>1. cur.op \in Worked => cur.op \notin {"shutdown", "poll"}
    BY DEF Worked, Fenced
  <2> QED BY <1>1, <1>2, <2>1, AnswersFacts
<1>8. l \in leases => l \in leases' \/ guard[l] # "held"
  BY <1>2 DEF Progress, AcquireConnected, RequestConnected, PollConnected, ReadEnds,
     RefreshEnds, WriteEnds, PollEnds, DisconnectEnds, Drain, Resume, PollBegins, EntryInv,
     PlaceInv, actorVars, Linked
<1>9. ASSUME call'[l].op = "acquire", call'[l] # call[l]
      PROVE  /\ call'[l].answer = "ok" => l \in leases'
             /\ call'[l].answer # "unknown"
  <2>1. cur.op = "acquire" /\ cur.lease = l /\ cur.open
    BY <1>7, <1>9
  <2>2. AcquireConnected
    BY <1>9, <2>1 DEF Progress, RequestConnected, PollConnected, ReadEnds, RefreshEnds,
       WriteEnds, PollEnds, DisconnectEnds, Drain, Resume, PollBegins, Fenced
  <2>3. call' = Answered(cur, "ok") /\ leases' = leases /\ pc = "connect"
    BY <2>1, <2>2 DEF AcquireConnected, Linked
  <2>4. call'[l].answer = "ok"
    BY <1>3, <2>1, <2>3 DEF Answered, Records
  <2> QED BY <2>1, <2>3, <2>4 DEF PlaceInv
<1>10. guard'[l] # "held" => call'[l] = NoCall \/ ~Accepting
  BY <1>5, <1>6, <1>7
<1>11. call'[l].op = "none" => call'[l] = NoCall
  BY <1>5, <1>7 DEF NoCall
<1> QED BY <1>4, <1>5, <1>6, <1>7, <1>8, <1>9, <1>10, <1>11

LEMMA LeaseClients ==
  ASSUME TypeOK, BaseInv, QueueInv, PlaceInv, LeaseInv, Client
  PROVE  LeaseInv'
<1>0. guard \in [Leases -> Guards] /\ call \in [Leases -> Records]
  BY DEF TypeOK, Guards, Records
<1> USE DEF ActorUnchanged, actorVars
<1>1. Accepting' => Accepting
  BY ClosedForGood DEF Next
<1>2. PICK l \in Leases : \/ NewGuard(l) \/ Return(l) \/ Cancel(l) \/ Drop(l) \/ SendRelease(l)
                          \/ \E op \in Ops : Call(l, op)
  BY DEF Client
<1>3. leases' = leases
  BY <1>2 DEF NewGuard, Return, Cancel, Drop, SendRelease, Call
<1>4. \A k \in Leases \ {l} : guard'[k] = guard[k] /\ call'[k] = call[k]
  BY <1>0, <1>2 DEF NewGuard, Return, Cancel, Drop, SendRelease, Call
<1>5. \A k \in Leases :
         /\ guard[k] # "held" => call[k] = NoCall \/ ~Accepting
         /\ Accepting /\ guard[k] = "held"
            /\ (call[k].op # "acquire" \/ call[k].answer = "ok") => k \in leases
         /\ call[k].op = "none" => call[k] = NoCall
         /\ call[k].op = "acquire" => call[k].answer # "unknown"
  BY DEF LeaseInv
<1>6. /\ guard'[l] # "held" => call'[l] = NoCall \/ ~Accepting
      /\ Accepting /\ guard'[l] = "held"
         /\ (call'[l].op # "acquire" \/ call'[l].answer = "ok") => l \in leases
      /\ call'[l].op = "none" => call'[l] = NoCall
      /\ call'[l].op = "acquire" => call'[l].answer # "unknown"
  <2>1. CASE NewGuard(l)
    <3>1. guard[l] = "free" /\ Accepting
      BY <2>1 DEF NewGuard
    <3>2. call[l] = NoCall
      BY <1>5, <3>1
    <3>3. CASE Len(queue) < QueueCap
      <4>1. guard'[l] = "held" /\ call'[l].op = "acquire" /\ call'[l].answer = "waiting"
        BY <1>0, <2>1, <3>3 DEF NewGuard
      <4> QED BY <4>1
    <3>4. CASE ~(Len(queue) < QueueCap)
      <4>1. guard'[l] = "dropped" /\ call'[l] = call[l]
        BY <1>0, <2>1, <3>4 DEF NewGuard
      <4> QED BY <1>5, <3>2, <4>1
    <3> QED BY <3>3, <3>4
  <2>2. CASE Return(l)
    BY <1>0, <1>5, <2>2 DEF Return, NoCall
  <2>3. CASE Cancel(l)
    BY <1>0, <1>5, <2>3 DEF Cancel, NoCall
  <2>4. CASE Drop(l)
    BY <1>0, <1>5, <2>4 DEF Drop, NoCall
  <2>5. CASE SendRelease(l)
    BY <1>0, <1>5, <2>5 DEF SendRelease, NoCall
  <2>6. CASE \E op \in Ops : Call(l, op)
    <3>1. PICK op \in Ops : Call(l, op)
      BY <2>6
    <3>2. /\ call'[l].op = op /\ call'[l].answer = "waiting" /\ guard'[l] = "held"
          /\ guard[l] = "held" /\ call[l] = NoCall
      BY <1>0, <3>1 DEF Call
    <3>3. op # "none"
      BY SourceAssumption
    <3> QED BY <1>5, <3>2, <3>3 DEF NoCall
  <2> QED BY <1>2, <2>1, <2>2, <2>3, <2>4, <2>5, <2>6
<1>7. \A k \in Leases :
         /\ guard'[k] # "held" => call'[k] = NoCall \/ ~Accepting
         /\ Accepting /\ guard'[k] = "held"
            /\ (call'[k].op # "acquire" \/ call'[k].answer = "ok") => k \in leases
         /\ call'[k].op = "none" => call'[k] = NoCall
         /\ call'[k].op = "acquire" => call'[k].answer # "unknown"
  BY <1>4, <1>5, <1>6
<1> QED BY <1>1, <1>3, <1>7, Zenon DEF LeaseInv

LEMMA LeaseKept ==
  ASSUME TypeOK, BaseInv, QueueInv, PlaceInv, LeaseInv, Next
  PROVE  LeaseInv'
<1>1. CASE AskShutdown \/ Timer
  <2>1. /\ guard' = guard /\ call' = call /\ leases' = leases
    BY <1>1 DEF AskShutdown, Timer, ActorUnchanged, actorVars
  <2>2. Accepting' = Accepting
    BY <1>1 DEF AskShutdown, Timer, Accepting, ActorUnchanged
  <2> QED BY <2>1, <2>2, Zenon DEF LeaseInv
<1>2. CASE Sleep
  <2>0. call \in [Leases -> Records]
    BY DEF TypeOK, Records
  <2>1. guard' = guard /\ leases' = leases
    BY <1>2 DEF Sleep, actorVars
  <2>2. Accepting' = Accepting
    BY <1>2 DEF Sleep, Accepting, TypeOK, Entries
  <2>3. \A l \in Leases : /\ call'[l].op = call[l].op /\ call'[l].answer = call[l].answer
                          /\ call[l] = NoCall => call'[l] = NoCall
    <3> TAKE l \in Leases
    <3>1. call'[l] = [call[l] EXCEPT !.old = call[l].op \in Fenced]
      BY <1>2 DEF Sleep
    <3> DEFINE b == call[l].op \in Fenced
    <3>2. b \in BOOLEAN /\ (call[l] = NoCall => ~b)
      BY DEF NoCall, Fenced
    <3> HIDE DEF b
    <3>3. call[l] = NoCall => b = FALSE
      BY <3>2, Zenon
    <3>4. ASSUME call[l] = NoCall PROVE call'[l] = NoCall
      <4>1. call'[l] = [call[l] EXCEPT !.old = b]
        BY <3>1 DEF b
      <4>2. call'[l] = [NoCall EXCEPT !.old = FALSE]
        BY <3>3, <3>4, <4>1, Zenon
      <4> QED BY <4>2 DEF NoCall
    <3> QED BY <2>0, <3>1, <3>4 DEF Records
  <2> QED BY <2>1, <2>2, <2>3 DEF LeaseInv
<1> QED BY <1>1, <1>2, LeaseReceive, LeaseShutdown, LeaseProgress, LeaseClients DEF Next, Receive

-----------------------------------------------------------------------------
(* Fences                                                                  *)

(* What is in hand outside the actor's own steps.                          *)
LEMMA HandKept ==
  ASSUME TypeOK, Client \/ AskShutdown \/ Sleep \/ Timer
  PROVE  /\ pc' = pc /\ leases' = leases /\ disconnects' = disconnects /\ sent' = sent
         /\ writeUncertain' = writeUncertain /\ connected' = connected
         /\ cur'.op = cur.op /\ cur'.lease = cur.lease
         /\ ~Sleep => behind' = behind /\ cache' = cache /\ cur'.old = cur.old
<1> USE DEF hostVars, actorVars, linkVars, writeVars, ActorUnchanged
<1>1. /\ pc' = pc /\ leases' = leases /\ disconnects' = disconnects /\ sent' = sent
      /\ writeUncertain' = writeUncertain /\ connected' = connected
      /\ ~Sleep => behind' = behind /\ cache' = cache
  BY DEF Client, NewGuard, Return, Cancel, Drop, SendRelease, Call, AskShutdown, Sleep, Timer
<1>2. cur' = cur \/ (\E l \in Leases : cur' = Unheard(l)) \/ Sleep
  BY DEF Client, NewGuard, Return, Cancel, Drop, SendRelease, Call, AskShutdown, Timer
<1>3. Sleep => cur'.op = cur.op /\ cur'.lease = cur.lease
  BY DEF Sleep, TypeOK, Entries
<1> QED BY <1>1, <1>2, <1>3, UnheardKeeps DEF TypeOK

(* A write is connected for only while no other is in doubt, and a request *)
(* only if the host has not slept since, or is about to be noticed.        *)
LEMMA ConnectingKept ==
  ASSUME TypeOK, PlaceInv, FenceInv, Next
  PROVE  /\ pc' = "connect" /\ cur'.op = "write" => ~writeUncertain'
         /\ pc' = "connect" /\ cur'.op \in Fenced /\ cur'.old => behind'
<1>0. /\ pc = "connect" /\ cur.op = "write" => ~writeUncertain
      /\ pc = "connect" /\ cur.op \in Fenced /\ cur.old => behind
  BY DEF FenceInv
<1>1. CASE Receive
  <2>0. pc = "idle"
    BY <1>1, ReceiveTakes
  <2>1. CASE Request
    <3>1. pc' = "connect" => /\ cur' = Head(queue) /\ Permitted(Head(queue))
                             /\ Admitted(Head(queue)) /\ Head(queue).op \in Fenced
                             /\ writeUncertain' = writeUncertain
      BY <2>1 DEF Request, Turned, Dispatched, Idle, actorVars
    <3> QED BY <3>1 DEF Permitted, Admitted, Fenced
  <2>2. CASE Acquire
    <3>1. pc' = "connect" => cur' = Head(queue) /\ Head(queue).op = "acquire"
      BY <2>0, <2>2 DEF Acquire, Taken
    <3> QED BY <3>1 DEF Fenced
  <2>3. CASE ~Request /\ ~Acquire
    <3>1. pc' # "connect"
      BY <1>1, <2>0, <2>3 DEF Receive, Discard, Release, Claim, Yield, Simulate, Refresh,
         Shutdown
    <3> QED BY <3>1
  <2> QED BY <2>1, <2>2, <2>3
<1>2. CASE Progress
  <2>1. pc' = "connect" => cur'.op = "poll"
    BY <1>2, NoneKept DEF Progress, AcquireConnected, RequestConnected, PollConnected,
       ReadEnds, RefreshEnds, WriteEnds, PollEnds, DisconnectEnds, Drain, Resume, PollBegins,
       Linked, Idle, Turned, Dispatched
  <2> QED BY <2>1 DEF Fenced
<1>3. CASE Client \/ AskShutdown \/ Sleep \/ Timer
  <2>1. Sleep => behind'
    BY DEF Sleep
  <2> QED BY <1>0, <1>3, <2>1, HandKept
<1> QED BY <1>1, <1>2, <1>3 DEF Next

(* A caller sees the generation of the transport that is up, if one is.    *)
LEMMA GenerationsKept ==
  ASSUME TypeOK, FenceInv, Next
  PROVE  connected' /\ ~behind' => \A i \in DOMAIN queue' : queue'[i].gen # "dead"
<1>0. connected /\ ~behind => \A i \in DOMAIN queue : queue[i].gen # "dead"
  BY DEF FenceInv
<1> USE DEF hostVars, linkVars, ActorUnchanged
<1>1. CASE Receive
  <2>1. connected' = connected /\ behind' = behind
    BY <1>1 DEF Receive, Discard, Acquire, Release, Claim, Yield, Simulate, Refresh, Request,
       Shutdown
  <2>2. CASE queue' = Tail(queue)
    BY <1>0, <1>1, <2>1, <2>2, ReceiveTakes, TailOfQueue DEF TypeOK
  <2>3. CASE queue' = <<>>
    BY <2>3
  <2> QED BY <1>1, <2>2, <2>3, ReceiveTakes
<1>2. CASE Progress
  <2>1. \/ queue' = MapQueue(NewGeneration)
        \/ ~connected'
        \/ queue' = queue /\ connected' = connected /\ behind' = behind
    <3>1. CASE PollEnds \/ Resume
      BY <3>1 DEF PollEnds, Resume, Resumed, Faulted, Kept
    <3>2. CASE AcquireConnected \/ RequestConnected \/ PollConnected
      BY <3>2 DEF AcquireConnected, RequestConnected, PollConnected, Linked, Faulted, Resumed
    <3>3. CASE WriteEnds
      BY <3>3 DEF WriteEnds, WriteInterrupted, WriteUnknown, WriteRejected, Faulted
    <3> QED BY <1>2, <3>1, <3>2, <3>3 DEF Progress, ReadEnds, RefreshEnds, DisconnectEnds,
               Drain, PollBegins, Faulted, Kept
  <2>2. CASE queue' = MapQueue(NewGeneration)
    BY <2>2, RegeneratedQueue DEF TypeOK, MapQueue
  <2> QED BY <1>0, <2>1, <2>2 DEF MapQueue
<1>3. CASE Client
  <2>0. connected' = connected /\ behind' = behind
    BY <1>3 DEF Client, NewGuard, Return, Cancel, Drop, SendRelease, Call
  <2>1. PICK l \in Leases : \/ NewGuard(l) \/ Return(l) \/ Cancel(l) \/ Drop(l) \/ SendRelease(l)
                            \/ \E op \in Ops : Call(l, op)
    BY <1>3 DEF Client
  <2>2. CASE Cancel(l) \/ Drop(l)
    <3>1. \A i \in DOMAIN queue' : i \in DOMAIN queue
             /\ (queue'[i].gen = "any" \/ queue'[i] = queue[i])
      BY <2>2, ClientQueue, SkippedQueue DEF TypeOK, None
    <3> QED BY <1>0, <2>0, <3>1
  <2>3. CASE ~Cancel(l) /\ ~Drop(l)
    <3>1. \/ queue' = queue
          \/ \E e \in Entries : /\ queue' = Append(queue, e)
                                /\ e.gen = "dead" => ~(connected /\ ~behind)
      <4>1. CASE NewGuard(l)
        <5>1. [op |-> "acquire", lease |-> l, old |-> FALSE, gen |-> "any", open |-> TRUE]
                \in Entries
          BY SentEntries DEF Gens, AllOps
        <5> QED BY <4>1, <5>1 DEF NewGuard
      <4>2. CASE SendRelease(l)
        <5>1. ReleaseEntry(l) \in Entries /\ ReleaseEntry(l).gen = "any"
          BY SentEntries DEF Gens, AllOps, ReleaseEntry
        <5> QED BY <4>2, <5>1 DEF SendRelease, ReleaseQueued
      <4>3. CASE Return(l)
        BY <4>3 DEF Return
      <4>4. CASE \E op \in Ops : Call(l, op)
        <5>1. PICK op \in Ops : Call(l, op)
          BY <4>4
        <5>2. PICK g \in Expected(op) :
                queue' = Append(queue, [op |-> op, lease |-> l, old |-> FALSE, gen |-> g,
                                        open |-> TRUE])
          BY <5>1 DEF Call
        <5>3. g \in Gens /\ (g = "dead" => ~(connected /\ ~behind))
          BY DEF Expected, Gens
        <5>4. [op |-> op, lease |-> l, old |-> FALSE, gen |-> g, open |-> TRUE] \in Entries
          BY <5>3, SentEntries DEF AllOps
        <5> QED BY <5>2, <5>3, <5>4
      <4> QED BY <2>1, <2>3, <4>1, <4>2, <4>3, <4>4
    <3>2. ASSUME NEW e \in Entries, queue' = Append(queue, e),
                 e.gen = "dead" => ~(connected /\ ~behind)
          PROVE  connected' /\ ~behind' => \A i \in DOMAIN queue' : queue'[i].gen # "dead"
      BY <1>0, <2>0, <3>2, AppendToQueue DEF TypeOK
    <3> QED BY <1>0, <2>0, <3>1, <3>2
  <2> QED BY <2>2, <2>3
<1>4. CASE AskShutdown
  <2> DEFINE e == [op |-> "shutdown", lease |-> Nobody, old |-> FALSE, gen |-> "any",
                   open |-> TRUE]
  <2>1. e \in Entries /\ e.gen = "any"
    BY SentEntries DEF Gens, AllOps
  <2>2. queue' = Append(queue, e) /\ connected' = connected /\ behind' = behind
    BY <1>4 DEF AskShutdown
  <2> HIDE DEF e
  <2> QED BY <1>0, <2>1, <2>2, AppendToQueue DEF TypeOK
<1>5. CASE Sleep
  BY <1>5 DEF Sleep
<1>6. CASE Timer
  BY <1>0, <1>6 DEF Timer
<1> QED BY <1>1, <1>2, <1>3, <1>4, <1>5, <1>6 DEF Next

(* A sample that a write outdates is out of sight as long as the write is  *)
(* in hand, one from before a sleep as long as the sleep is not noticed.   *)
LEMMA SamplesKept ==
  ASSUME TypeOK, PlaceInv, BaseInv, FenceInv, Next
  PROVE  /\ cache' = "stale" => pc' = "io" /\ cur'.op = "write"
         /\ cache' = "old" => behind'
<1>0. /\ cache = "stale" => pc = "io" /\ cur.op = "write"
      /\ cache = "old" => behind
  BY DEF FenceInv
<1> USE DEF hostVars, linkVars
<1>1. CASE Receive
  <2>0. pc = "idle" /\ behind' = behind /\ cache # "stale"
    BY <1>0, <1>1, ReceiveTakes DEF Receive, Discard, Acquire, Release, Claim, Yield,
       Simulate, Refresh, Request, Shutdown
  <2>1. CASE Request
    <3>1. cache' = cache \/ (sent' /\ cache' = "stale")
      BY <2>1 DEF Request
    <3>2. sent' => pc' = "io" /\ cur'.op = "write"
      BY LatchKept
    <3> QED BY <1>0, <2>0, <3>1, <3>2
  <2>2. CASE ~Request
    <3>1. cache' = cache \/ cache' = "empty"
      BY <1>1, <2>2 DEF Receive, Discard, Acquire, Release, Claim, Yield, Simulate, Refresh,
         Shutdown
    <3> QED BY <1>0, <2>0, <3>1
  <2> QED BY <2>1, <2>2
<1>2. CASE Progress
  <2>1. \/ cache' \in {"empty", "fresh"}
        \/ cache' = cache /\ behind' = behind
    <3>1. CASE PollEnds \/ Resume
      BY <3>1 DEF PollEnds, Resume, Resumed, Faulted, Kept
    <3>2. CASE AcquireConnected \/ RequestConnected \/ PollConnected
      BY <3>2 DEF AcquireConnected, RequestConnected, PollConnected, Linked, Faulted, Resumed
    <3>3. CASE WriteEnds
      BY <3>3 DEF WriteEnds, WriteInterrupted, WriteUnknown, WriteRejected, Faulted,
         CacheAfterWrite
    <3> QED BY <1>2, <3>1, <3>2, <3>3 DEF Progress, ReadEnds, RefreshEnds, DisconnectEnds,
               Drain, PollBegins, Faulted, Kept
  <2>2. CASE cache = "stale"
    <3>1. WriteEnds
      BY <1>0, <1>2, <2>2 DEF Progress, AcquireConnected, RequestConnected, PollConnected,
         ReadEnds, RefreshEnds, PollEnds, DisconnectEnds, Drain, Resume, PollBegins, Linked,
         Fenced
    <3>2. cache' \in {"empty", "fresh"}
      BY <2>2, <3>1 DEF WriteEnds, WriteInterrupted, WriteUnknown, WriteRejected, Faulted,
         CacheAfterWrite
    <3> QED BY <3>2
  <2>3. CASE cache # "stale"
    BY <1>0, <2>1, <2>3
  <2> QED BY <2>2, <2>3
<1>3. CASE Client \/ AskShutdown \/ Sleep \/ Timer
  <2>1. Sleep => behind' /\ (cache' = cache \/ cache' = "old")
    BY DEF Sleep
  <2> QED BY <1>0, <1>3, <2>1, HandKept
<1> QED BY <1>1, <1>2, <1>3 DEF Next

(* One disconnect in a session.                                            *)
LEMMA DisconnectsKept ==
  ASSUME TypeOK, PlaceInv, BaseInv, FenceInv, Next
  PROVE  /\ pc' = "disconnect" \/ leases' # {} => disconnects' = 0
         /\ disconnects' <= 1
<1>0. /\ pc = "disconnect" \/ leases # {} => disconnects = 0
      /\ disconnects <= 1 /\ disconnects \in Nat
  BY DEF FenceInv, TypeOK
<1> USE DEF actorVars
<1>1. CASE Receive
  <2>0. pc = "idle"
    BY <1>1, ReceiveTakes
  <2>1. \/ disconnects' = 0
        \/ disconnects' = disconnects /\ pc' # "disconnect" /\ leases' \subseteq leases
        \/ disconnects' = disconnects /\ leases # {}
    <3>1. CASE Shutdown
      BY <2>0, <3>1 DEF Shutdown, BaseInv
    <3>2. CASE Request
      BY <2>0, <3>2 DEF Request, Turned, Dispatched, Idle
    <3> QED BY <1>1, <2>0, <3>1, <3>2 DEF Receive, Discard, Acquire, Release, Claim, Yield,
               Simulate, Refresh
  <2> QED BY <1>0, <2>1
<1>2. CASE Progress
  <2>1. CASE DisconnectEnds
    <3>1. disconnects' = disconnects + 1 /\ pc' # "disconnect" /\ leases' = {}
          /\ disconnects = 0
      BY <1>0, <2>1 DEF DisconnectEnds, PlaceInv, Idle
    <3> QED BY <3>1
  <2>2. CASE ~DisconnectEnds
    <3>1. /\ disconnects' = disconnects /\ leases' \subseteq leases
          /\ pc' = "disconnect" => leases # {}
      BY <1>2, <2>2 DEF Progress, AcquireConnected, RequestConnected, PollConnected, ReadEnds,
         RefreshEnds, WriteEnds, PollEnds, Drain, Resume, PollBegins, Idle, Turned,
         Dispatched, Linked, PlaceInv
    <3> QED BY <1>0, <3>1
  <2> QED BY <2>1, <2>2
<1>3. CASE Client \/ AskShutdown \/ Sleep \/ Timer
  BY <1>0, <1>3, HandKept
<1> QED BY <1>1, <1>2, <1>3 DEF Next

LEMMA FenceKept ==
  ASSUME TypeOK, BaseInv, PlaceInv, FenceInv, Next
  PROVE  FenceInv'
BY ConnectingKept, GenerationsKept, SamplesKept, DisconnectsKept DEF FenceInv

-----------------------------------------------------------------------------
(* Writes, their fate and what is said of it                               *)

(* A request is answered, or handed to the equipment, with none there.     *)
LEMMA FateHanded ==
  ASSUME TypeOK, FateInv, WritesToldTrue, ~sent, told' = told,
         NEW e, EntryInv(e, guard, call),
         \/ call' = call /\ fate' = fate /\ ~sent'
         \/ /\ fate' = fate /\ ~sent' /\ e.op \notin {"shutdown", "poll"} /\ Answers(e)
            /\ e.op = "write" => \/ call' = Answered(e, "refused")
                                 \/ call' = Answered(e, "unknown")
         \/ /\ call' = call /\ sent' /\ e.op = "write" /\ fate' = FateOf(e, "sent")
            /\ cur'.open = e.open /\ cur'.lease = e.lease
  PROVE  FateInv' /\ WritesToldTrue'
<1>0. /\ call \in [Leases -> Records] /\ fate \in [Leases -> Fates]
      /\ \A l \in Leases : call[l].op = "write" =>
            /\ told[l] = "none"
            /\ call[l].answer = "waiting" => fate[l] = "unsent"
            /\ call[l].answer = "refused" => fate[l] \in {"unsent", "rejected"}
            /\ call[l].answer = "ok" => fate[l] = "done" \/ (fate[l] = "overtaken" /\ call[l].old)
  BY DEF TypeOK, Records, Fates, FateInv, AtEquipment
<1>1. CASE call' = call /\ fate' = fate /\ ~sent'
  BY <1>0, <1>1 DEF FateInv, WritesToldTrue, AtEquipment
<1>2. CASE /\ fate' = fate /\ ~sent' /\ e.op \notin {"shutdown", "poll"} /\ Answers(e)
           /\ e.op = "write" => \/ call' = Answered(e, "refused")
                                \/ call' = Answered(e, "unknown")
  <2>1. ASSUME NEW l \in Leases, call'[l].op = "write"
        PROVE  /\ told[l] = "none"
               /\ call'[l].answer = "waiting" => fate[l] = "unsent"
               /\ call'[l].answer = "refused" => fate[l] \in {"unsent", "rejected"}
               /\ call'[l].answer = "ok" =>
                     fate[l] = "done" \/ (fate[l] = "overtaken" /\ call'[l].old)
    <3>1. /\ call'[l].op = call[l].op /\ call'[l].old = call[l].old
          /\ \/ call'[l] = call[l]
             \/ /\ e.lease = l /\ e.open /\ call[l].op = e.op /\ call[l].answer = "waiting"
                /\ call'[l].answer \in {"ok", "refused", "unknown"}
      BY <1>2, AnswersFacts
    <3>2. CASE call'[l] = call[l]
      BY <1>0, <2>1, <3>1, <3>2
    <3>3. CASE call'[l] # call[l]
      <4>1. call'[l].answer # "ok"
        BY <1>0, <1>2, <2>1, <3>1, <3>3 DEF Answered, Records
      <4>2. fate[l] = "unsent" /\ told[l] = "none"
        BY <1>0, <2>1, <3>1, <3>3
      <4> QED BY <3>1, <3>3, <4>1, <4>2
    <3> QED BY <3>2, <3>3
  <2>2. FateInv'
    BY <1>2, <2>1 DEF FateInv, AtEquipment
  <2>3. WritesToldTrue'
    BY <1>2 DEF WritesToldTrue
  <2> QED BY <2>2, <2>3
<1>3. CASE /\ call' = call /\ sent' /\ e.op = "write" /\ fate' = FateOf(e, "sent")
           /\ cur'.open = e.open /\ cur'.lease = e.lease
  <2>1. e.open => /\ e.lease \in Leases /\ call[e.lease].op = "write"
                  /\ call[e.lease].answer = "waiting"
    BY <1>3 DEF EntryInv, Waits, Silent
  <2>2. \A l \in Leases : fate'[l] = fate[l] \/ (e.open /\ e.lease = l)
    BY <1>0, <1>3 DEF FateOf
  <2>3. FateInv'
    BY <1>0, <1>3, <2>1, <2>2 DEF FateInv, AtEquipment
  <2>4. WritesToldTrue'
    BY <1>0, <2>1, <2>2 DEF WritesToldTrue
  <2> QED BY <2>3, <2>4
<1> QED BY <1>1, <1>2, <1>3

LEMMA FateReceive ==
  ASSUME TypeOK, BaseInv, QueueInv, PlaceInv, LeaseInv, FateInv, WritesToldTrue, Receive,
         ~Shutdown
  PROVE  FateInv' /\ WritesToldTrue'
<1> DEFINE e == Head(queue)
<1>1. /\ pc = "idle" /\ EntryInv(e, guard, call) /\ e.op \notin {"shutdown", "poll"}
  BY ReceiveTakes, HeadFacts, ReceiveAnswers
<1>2. ~sent
  BY <1>1 DEF BaseInv
<1>3. told' = told
  BY DEF Receive, Discard, Acquire, Release, Claim, Yield, Simulate, Refresh, Request, writeVars
<1>4. CASE Request
  <2>1. \/ call' = call /\ fate' = fate /\ ~sent'
        \/ fate' = fate /\ ~sent' /\ Answers(e)
           /\ (call' = Answered(e, "refused") \/ call' = Answered(e, "unknown"))
        \/ /\ call' = call /\ sent' /\ e.op = "write" /\ fate' = FateOf(e, "sent")
           /\ cur' = e
    BY <1>2, <1>4 DEF Request, Turned, Dispatched, Answers
  <2> HIDE DEF e
  <2> QED BY <1>1, <1>2, <1>3, <2>1, FateHanded
<1>5. CASE ~Request
  <2>1. fate' = fate /\ ~sent'
    BY <1>2, <1>5 DEF Receive, Discard, Acquire, Release, Claim, Yield, Simulate, Refresh,
       writeVars
  <2>2. call' = call \/ Answers(e)
    BY ReceiveAnswers
  <2>3. e.op = "write" /\ call' # call => call' = Answered(e, "refused")
    BY <1>5 DEF Receive, Discard, Acquire, Release, Claim, Yield, Simulate, Refresh, Taken
  <2> HIDE DEF e
  <2> QED BY <1>1, <1>2, <1>3, <2>1, <2>2, <2>3, FateHanded
<1> QED BY <1>4, <1>5

LEMMA FateShutdown ==
  ASSUME TypeOK, BaseInv, FateInv, WritesToldTrue, Shutdown
  PROVE  FateInv' /\ WritesToldTrue'
<1>1. ~sent /\ ~sent' /\ fate' = fate /\ told' = told
  BY DEF Shutdown, Taken, BaseInv, writeVars
<1>2. \A l \in Leases : IF call[l].answer = "waiting"
                         THEN call'[l].op = call[l].op /\ call'[l].answer = "refused"
                         ELSE call'[l] = call[l]
  BY DEF Shutdown, TypeOK
<1> QED BY <1>1, <1>2 DEF FateInv, WritesToldTrue, AtEquipment

(* The end of a write: its caller is told what became of it, or nothing is *)
(* claimed.                                                                *)
LEMMA FateWriteEnds ==
  ASSUME TypeOK, QueueInv, FateInv, WritesToldTrue, WriteEnds
  PROVE  FateInv' /\ WritesToldTrue'
<1>0. call \in [Leases -> Records] /\ fate \in [Leases -> Fates]
  BY DEF TypeOK, Records, Fates
<1>1. cur.open => /\ cur.lease \in Leases /\ call[cur.lease].op = "write"
                  /\ call[cur.lease].answer = "waiting"
  BY DEF WriteEnds, QueueInv, EntryInv, Waits, Silent
<1>2. told' = told /\ ~sent'
  BY DEF WriteEnds
<1>3. \/ call' = Answered(cur, "unknown") /\ (fate' = fate \/ fate' = FateOf(cur, "ambiguous"))
      \/ call' = Answered(cur, "refused") /\ fate' = IF sent THEN FateOf(cur, "rejected") ELSE fate
      \/ call' = Answered(cur, "ok") /\ fate' = FateOf(cur, "done")
  BY DEF WriteEnds, WriteInterrupted, WriteUnknown, WriteRejected
<1>4. cur.op # "release"
  BY DEF WriteEnds
<1>5. ASSUME NEW l \in Leases, ~(cur.open /\ cur.lease = l)
      PROVE  call'[l] = call[l] /\ fate'[l] = fate[l] /\ ~AtEquipment(l)
  BY <1>0, <1>3, <1>5 DEF Answered, FateOf, AtEquipment
<1>6. ASSUME NEW l \in Leases, cur.open, cur.lease = l
      PROVE  /\ told[l] = "none" /\ call'[l].answer # "waiting"
             /\ call'[l].answer = "refused" => fate'[l] \in {"unsent", "rejected"}
             /\ call'[l].answer = "ok" => fate'[l] = "done"
  <2>1. told[l] = "none" /\ (~sent => fate[l] = "unsent")
    BY <1>1, <1>6 DEF FateInv, AtEquipment
  <2>2. \A a : Answered(cur, a)[l].answer = a
    BY <1>0, <1>4, <1>6 DEF Answered, Records
  <2>3. \A f : FateOf(cur, f)[l] = f
    BY <1>0, <1>6 DEF FateOf
  <2> QED BY <1>3, <2>1, <2>2, <2>3
<1>7. FateInv'
  <2> SUFFICES ASSUME NEW l \in Leases, call'[l].op = "write"
      PROVE  /\ told[l] = "none"
             /\ call'[l].answer = "waiting" => fate'[l] = "unsent"
             /\ call'[l].answer = "refused" => fate'[l] \in {"unsent", "rejected"}
             /\ call'[l].answer = "ok" =>
                   fate'[l] = "done" \/ (fate'[l] = "overtaken" /\ call'[l].old)
    BY <1>2 DEF FateInv, AtEquipment
  <2>1. CASE cur.open /\ cur.lease = l
    BY <1>6, <2>1
  <2>2. CASE ~(cur.open /\ cur.lease = l)
    BY <1>5, <2>2 DEF FateInv
  <2> QED BY <2>1, <2>2
<1>8. WritesToldTrue'
  BY <1>2, <1>5, <1>6 DEF WritesToldTrue
<1> QED BY <1>7, <1>8

LEMMA FateProgress ==
  ASSUME TypeOK, BaseInv, QueueInv, PlaceInv, FateInv, WritesToldTrue, Progress
  PROVE  FateInv' /\ WritesToldTrue'
<1>0. EntryInv(cur, guard, call)
  BY DEF QueueInv
<1>1. CASE WriteEnds
  BY <1>1, FateWriteEnds
<1>2. CASE RequestConnected
  <2>1. ~sent /\ told' = told /\ cur.op \in Fenced
    BY <1>2 DEF RequestConnected, Linked, BaseInv
  <2>2. \A a : Answered(NewGeneration(cur), a) = Answered(cur, a)
    BY NewGenerationKeeps DEF Answered, TypeOK
  <2>3. \A f : FateOf(NewGeneration(cur), f) = FateOf(cur, f)
    BY NewGenerationKeeps DEF FateOf, TypeOK
  <2>4. \/ call' = call /\ fate' = fate /\ ~sent'
        \/ fate' = fate /\ ~sent' /\ Answers(cur)
           /\ (call' = Answered(cur, "refused") \/ call' = Answered(cur, "unknown"))
        \/ /\ call' = call /\ sent' /\ NewGeneration(cur).op = "write"
           /\ fate' = FateOf(cur, "sent") /\ cur' = NewGeneration(cur)
    BY <1>2, <2>1, <2>2, <2>3 DEF RequestConnected, Turned, Dispatched, Answers
  <2>5. cur.op \notin {"shutdown", "poll"}
    BY <2>1 DEF Fenced
  <2>6. /\ NewGeneration(cur).op = cur.op /\ NewGeneration(cur).open = cur.open
        /\ NewGeneration(cur).lease = cur.lease
    BY NewGenerationKeeps DEF TypeOK
  <2>7. \/ call' = call /\ fate' = fate /\ ~sent'
        \/ /\ fate' = fate /\ ~sent' /\ cur.op \notin {"shutdown", "poll"} /\ Answers(cur)
           /\ cur.op = "write" => \/ call' = Answered(cur, "refused")
                                  \/ call' = Answered(cur, "unknown")
        \/ /\ call' = call /\ sent' /\ cur.op = "write" /\ fate' = FateOf(cur, "sent")
           /\ cur'.open = cur.open /\ cur'.lease = cur.lease
    BY <2>4, <2>5, <2>6
  <2> QED BY <1>0, <2>1, <2>7, FateHanded
<1>3. CASE ~WriteEnds /\ ~RequestConnected
  <2>1. ~sent
    BY <1>3 DEF BaseInv, Progress, AcquireConnected, PollConnected, ReadEnds, RefreshEnds,
       PollEnds, DisconnectEnds, Drain, Resume, PollBegins, Linked
  <2>2. fate' = fate /\ told' = told /\ sent' = sent
    BY <1>3 DEF Progress, AcquireConnected, PollConnected, ReadEnds, RefreshEnds,
       PollEnds, DisconnectEnds, Drain, Resume, PollBegins, writeVars
  <2>3. call' = call \/ (cur.op \notin {"shutdown", "poll"} /\ Answers(cur))
    BY ProgressAnswers DEF Worked, Fenced
  <2>4. cur.op = "write" => call' = call
    BY <1>3 DEF Progress, AcquireConnected, PollConnected, ReadEnds, RefreshEnds,
       PollEnds, DisconnectEnds, Drain, Resume, PollBegins
  <2>5. ~sent'
    BY <2>1, <2>2, Zenon
  <2> QED BY <1>0, <2>1, <2>2, <2>3, <2>4, <2>5, FateHanded
<1> QED BY <1>1, <1>2, <1>3

LEMMA FateOthers ==
  ASSUME TypeOK, FateInv, WritesToldTrue, Client \/ AskShutdown \/ Sleep \/ Timer
  PROVE  FateInv' /\ WritesToldTrue'
<1>0. /\ call \in [Leases -> Records] /\ fate \in [Leases -> Fates]
      /\ told \in [Leases -> Tellings]
  BY DEF TypeOK, Records, Fates, Tellings
<1>1. CASE Client
  <2>1. PICK l \in Leases : \/ NewGuard(l) \/ Return(l) \/ Cancel(l) \/ Drop(l) \/ SendRelease(l)
                            \/ \E op \in Ops : Call(l, op)
    BY <1>1 DEF Client
  <2>2. \A k \in Leases \ {l} : call'[k] = call[k] /\ fate'[k] = fate[k] /\ told'[k] = told[k]
    BY <1>0, <2>1 DEF NewGuard, Return, Cancel, Drop, SendRelease, Call
  <2>3. sent' = sent /\ (cur' = cur \/ cur' = Unheard(l))
    BY <2>1 DEF NewGuard, Return, Cancel, Drop, SendRelease, Call, ActorUnchanged
  <2>4. \A k \in Leases \ {l} : AtEquipment(k) => AtEquipment(k)'
    <3>1. CASE cur' = cur
      BY <2>3, <3>1 DEF AtEquipment
    <3>2. CASE cur' = Unheard(l)
      <4>1. cur'.lease = cur.lease /\ (cur.lease # l => cur'.open = cur.open)
        BY <3>2 DEF Unheard, TypeOK, Entries
      <4> QED BY <2>3, <4>1 DEF AtEquipment
    <3> QED BY <2>3, <3>1, <3>2
  <2>5. /\ call'[l].op = "write" =>
              /\ told'[l] = "none"
              /\ call'[l].answer = "waiting" /\ ~AtEquipment(l)' => fate'[l] = "unsent"
              /\ call'[l].answer = "refused" => fate'[l] \in {"unsent", "rejected"}
              /\ call'[l].answer = "ok" =>
                    fate'[l] = "done" \/ (fate'[l] = "overtaken" /\ call'[l].old)
        /\ told'[l] = "ok" => fate'[l] = "done"
        /\ told'[l] = "refused" => fate'[l] \in {"unsent", "rejected"}
    <3>1. CASE Return(l)
      <4>1. call'[l] = NoCall /\ fate' = fate
        BY <1>0, <3>1 DEF Return
      <4>2. CASE call[l].op = "write"
        <5>1. told'[l] = Heard(call[l])
          BY <1>0, <3>1, <4>2 DEF Return
        <5> QED BY <3>1, <4>1, <4>2, <5>1 DEF FateInv, Heard, NoCall, Fenced, Return
      <4>3. CASE call[l].op # "write"
        BY <3>1, <4>1, <4>3 DEF Return, NoCall, WritesToldTrue
      <4> QED BY <4>2, <4>3
    <3>2. CASE NewGuard(l)
      <4>1. fate' = fate /\ told' = told /\ cur' = cur
            /\ (call'[l] = call[l] \/ call'[l].op = "acquire")
        BY <1>0, <3>2 DEF NewGuard
      <4> QED BY <2>3, <4>1 DEF FateInv, WritesToldTrue, AtEquipment
    <3>3. CASE Cancel(l) \/ Drop(l)
      BY <1>0, <3>3 DEF Cancel, Drop, NoCall, WritesToldTrue
    <3>4. CASE SendRelease(l)
      BY <2>3, <3>4 DEF SendRelease, FateInv, WritesToldTrue, AtEquipment
    <3>5. CASE \E op \in Ops : Call(l, op)
      BY <1>0, <3>5 DEF Call
    <3> QED BY <2>1, <3>1, <3>2, <3>3, <3>4, <3>5
  <2>6. \A k \in Leases :
        /\ call'[k].op = "write" =>
              /\ told'[k] = "none"
              /\ call'[k].answer = "waiting" /\ ~AtEquipment(k)' => fate'[k] = "unsent"
              /\ call'[k].answer = "refused" => fate'[k] \in {"unsent", "rejected"}
              /\ call'[k].answer = "ok" =>
                    fate'[k] = "done" \/ (fate'[k] = "overtaken" /\ call'[k].old)
        /\ told'[k] = "ok" => fate'[k] = "done"
        /\ told'[k] = "refused" => fate'[k] \in {"unsent", "rejected"}
    BY <2>2, <2>4, <2>5 DEF FateInv, WritesToldTrue
  <2> QED BY <2>6 DEF FateInv, WritesToldTrue
<1>2. CASE AskShutdown \/ Timer
  BY <1>2 DEF AskShutdown, Timer, FateInv, WritesToldTrue, AtEquipment, ActorUnchanged,
     writeVars
<1>3. CASE Sleep
  <2>1. sent' = sent /\ told' = told /\ cur'.open = cur.open /\ cur'.lease = cur.lease
    BY <1>3 DEF Sleep, TypeOK, Entries
  <2>2. \A l \in Leases : call'[l].op = call[l].op /\ call'[l].answer = call[l].answer
                          /\ (call[l].op = "write" => call'[l].old)
    <3> TAKE l \in Leases
    <3> DEFINE b == call[l].op \in Fenced
    <3>1. b \in BOOLEAN /\ (call[l].op = "write" => b)
      BY DEF Fenced
    <3>2. call'[l] = [call[l] EXCEPT !.old = b]
      BY <1>3 DEF Sleep
    <3> HIDE DEF b
    <3> QED BY <1>0, <3>1, <3>2 DEF Records
  <2>3. \A l \in Leases : fate'[l] = IF call[l].op = "write" /\ fate[l] = "done"
                                     THEN "overtaken" ELSE fate[l]
    BY <1>3 DEF Sleep
  <2>4. FateInv'
    BY <2>1, <2>2, <2>3 DEF FateInv, AtEquipment
  <2>5. WritesToldTrue'
    BY <2>1, <2>3 DEF FateInv, WritesToldTrue
  <2> QED BY <2>4, <2>5
<1> QED BY <1>1, <1>2, <1>3

LEMMA FateKept ==
  ASSUME TypeOK, BaseInv, QueueInv, PlaceInv, LeaseInv, FateInv, WritesToldTrue, Next
  PROVE  FateInv' /\ WritesToldTrue'
BY FateReceive, FateShutdown, FateProgress, FateOthers DEF Next, Receive

-----------------------------------------------------------------------------
(* The length of the queue                                                 *)

LEMMA Counts ==
  ASSUME TypeOK
  PROVE  /\ IsFiniteSet(Releasing) /\ Cardinality(Releasing) \in Nat
         /\ Cardinality(Releasing) <= Cardinality(Leases) /\ Cardinality(Leases) \in Nat
         /\ Busy \in {0, 1} /\ Stop \in {0, 1} /\ Len(queue) \in Nat /\ QueueCap \in Nat
BY SourceAssumption, FS_Subset, FS_CardinalityType DEF Releasing, Busy, Stop, TypeOK

LEMMA CountsNext ==
  ASSUME TypeOK'
  PROVE  /\ Cardinality(Releasing') \in Nat /\ Busy' \in {0, 1} /\ Stop' \in {0, 1}
         /\ Len(queue') \in Nat
BY SourceAssumption, FS_Subset, FS_CardinalityType DEF Releasing, Busy, Stop, TypeOK

(* The guards that wait for their release, when at most one changes.       *)
LEMMA ReleasingSteps ==
  ASSUME TypeOK, TypeOK', NEW l \in Leases, \A k \in Leases \ {l} : guard'[k] = guard[k]
  PROVE  /\ guard[l] # "releasing" /\ guard'[l] = "releasing" =>
               Cardinality(Releasing') = Cardinality(Releasing) + 1
         /\ guard[l] = "releasing" /\ guard'[l] # "releasing" =>
               Cardinality(Releasing') = Cardinality(Releasing) - 1
         /\ (guard[l] = "releasing" <=> guard'[l] = "releasing") =>
               Cardinality(Releasing') = Cardinality(Releasing)
<1>1. IsFiniteSet(Releasing) /\ Cardinality(Releasing) \in Nat
  BY Counts
<1>2. guard[l] # "releasing" /\ guard'[l] = "releasing" =>
        Releasing' = Releasing \cup {l} /\ l \notin Releasing
  BY DEF Releasing
<1>3. guard[l] = "releasing" /\ guard'[l] # "releasing" =>
        Releasing' = Releasing \ {l} /\ l \in Releasing
  BY DEF Releasing
<1>4. (guard[l] = "releasing" <=> guard'[l] = "releasing") => Releasing' = Releasing
  BY DEF Releasing
<1> QED BY <1>1, <1>2, <1>3, <1>4, FS_AddElement, FS_RemoveElement

LEMMA EmptyQueue ==
  ASSUME TypeOK', queue' = <<>>, cur'.op # "release" \/ pc' # "disconnect"
  PROVE  LengthInv'
<1>1. Busy' = 0 /\ Len(queue') = 0
  BY DEF Busy
<1> QED BY <1>1, CountsNext, SourceAssumption DEF LengthInv

(* A release that enters the queue or is done with takes its guard along.  *)
LEMMA ReleaseBalance ==
  ASSUME NEW q \in Nat, NEW b \in Nat, NEW c \in Nat, NEW r \in Nat, NEW s \in Nat,
         NEW q2 \in Nat, NEW b2 \in Nat, NEW r2 \in Nat,
         q + b <= c + r + s,
         \/ q2 + b2 = q + b - 1 /\ r2 = r - 1
         \/ q2 + b2 = q + b + 1 /\ r2 = r + 1
  PROVE  q2 + b2 <= c + r2 + s
OBVIOUS

LEMMA LengthReceive ==
  ASSUME TypeOK, TypeOK', QueueInv, PlaceInv, LeaseInv, LengthInv, Receive, ~Shutdown
  PROVE  LengthInv'
<1>1. /\ pc = "idle" /\ queue # <<>> /\ cur = None /\ queue' = Tail(queue)
      /\ EntryInv(Head(queue), guard, call) /\ Head(queue).op # "shutdown"
  BY ReceiveTakes, HeadFacts, ReceiveAnswers
<1>2. Len(queue') = Len(queue) - 1 /\ Len(queue) \in Nat
  BY <1>1, TailOfQueue DEF TypeOK
<1>3. Busy = 0
  BY <1>1 DEF Busy
<1>4. Stop' = Stop
  <2>1. (\E i \in DOMAIN queue' : queue'[i].op = "shutdown")
          => (\E i \in DOMAIN queue : queue[i].op = "shutdown")
    BY <1>1, TailOfQueue DEF TypeOK
  <2>2. (\E i \in DOMAIN queue : queue[i].op = "shutdown")
          => (\E i \in DOMAIN queue' : queue'[i].op = "shutdown")
    <3> SUFFICES ASSUME NEW i \in DOMAIN queue, queue[i].op = "shutdown"
                 PROVE  \E j \in DOMAIN queue' : queue'[j].op = "shutdown"
      OBVIOUS
    <3>1. i # 1 /\ i - 1 \in DOMAIN queue' /\ queue'[i - 1] = queue[i]
      BY <1>1 DEF TypeOK
    <3> QED BY <3>1
  <2> QED BY <2>1, <2>2 DEF Stop
<1>5. CASE Release
  <2> DEFINE l == Head(queue).lease
  <2>1. l \in Leases /\ guard[l] = "releasing"
    BY <1>1, <1>5 DEF Release, Taken, EntryInv
  <2>2. CASE pc' = "disconnect"
    <3>1. guard' = guard
      BY <1>1, <1>5, <2>2 DEF Release
    <3>2. Releasing' = Releasing
      BY <3>1 DEF Releasing
    <3> QED BY <1>2, <1>3, <1>4, <3>2, Counts, CountsNext DEF LengthInv
  <2>3. CASE pc' # "disconnect"
    <3>1. guard' = [guard EXCEPT ![l] = "free"] /\ Busy' = 0
      BY <1>5, <2>3 DEF Release, Busy
    <3>2. /\ \A k \in Leases \ {l} : guard'[k] = guard[k]
          /\ guard'[l] = "free"
      BY <2>1, <3>1 DEF TypeOK
    <3> HIDE DEF l
    <3>3. Cardinality(Releasing') = Cardinality(Releasing) - 1
      BY <2>1, <3>2, ReleasingSteps
    <3>4. Len(queue') + Busy' = Len(queue) + Busy - 1
      BY <1>2, <1>3, <3>1
    <3> QED BY <1>4, <3>3, <3>4, Counts, CountsNext, ReleaseBalance DEF LengthInv
  <2> QED BY <2>2, <2>3
<1>6. CASE ~Release
  <2>1. guard' = guard /\ pc' # "disconnect"
    BY <1>1, <1>6 DEF Receive, Discard, Acquire, Claim, Yield, Simulate, Refresh, Request,
       Turned, Dispatched, Idle
  <2>2. Releasing' = Releasing /\ Busy' = 0
    BY <2>1 DEF Releasing, Busy
  <2> QED BY <1>2, <1>3, <1>4, <2>2, Counts, CountsNext DEF LengthInv
<1> QED BY <1>5, <1>6

LEMMA LengthProgress ==
  ASSUME TypeOK, TypeOK', QueueInv, PlaceInv, LengthInv, Progress
  PROVE  LengthInv'
<1>1. /\ Len(queue') = Len(queue) /\ DOMAIN queue' = DOMAIN queue
      /\ \A i \in DOMAIN queue : queue'[i].op = queue[i].op
  BY ProgressQueue
<1>2. Stop' = Stop
  BY <1>1 DEF Stop
<1>3. CASE DisconnectEnds /\ cur.op = "release"
  <2> DEFINE l == cur.lease
  <2>1. l \in Leases /\ guard[l] = "releasing"
    BY <1>3 DEF QueueInv, EntryInv
  <2>2. guard' = [guard EXCEPT ![l] = "free"] /\ Busy' = 0 /\ Busy = 1
    BY <1>3 DEF DisconnectEnds, Busy, Idle
  <2>3. /\ \A k \in Leases \ {l} : guard'[k] = guard[k]
        /\ guard'[l] = "free"
    BY <2>1, <2>2 DEF TypeOK
  <2> HIDE DEF l
  <2>4. Cardinality(Releasing') = Cardinality(Releasing) - 1
    BY <2>1, <2>3, ReleasingSteps
  <2>5. Len(queue') + Busy' = Len(queue) + Busy - 1
    BY <1>1, <2>2, Counts
  <2> QED BY <1>2, <2>4, <2>5, Counts, CountsNext, ReleaseBalance DEF LengthInv
<1>4. CASE ~(DisconnectEnds /\ cur.op = "release")
  <2>1. guard' = guard
    BY <1>4 DEF Progress, AcquireConnected, RequestConnected, PollConnected, ReadEnds,
       RefreshEnds, WriteEnds, PollEnds, DisconnectEnds, Drain, Resume, PollBegins
  <2>2. Busy' = 0
    <3>1. pc' = "disconnect" => cur'.op # "release"
      BY <1>4, NoneKept DEF Progress, AcquireConnected, RequestConnected, PollConnected, ReadEnds,
         RefreshEnds, WriteEnds, PollEnds, DisconnectEnds, Drain, Resume, PollBegins, Idle,
         Turned, Dispatched, PlaceInv
    <3> QED BY <3>1 DEF Busy
  <2>3. Releasing' = Releasing
    BY <2>1 DEF Releasing
  <2> QED BY <1>1, <1>2, <2>2, <2>3, Counts, CountsNext DEF LengthInv
<1> QED BY <1>3, <1>4

LEMMA LengthClients ==
  ASSUME TypeOK, TypeOK', BaseInv, QueueInv, PlaceInv, LeaseInv, LengthInv, Client
  PROVE  LengthInv'
<1>0. guard \in [Leases -> Guards]
  BY DEF TypeOK, Guards
<1>1. PICK l \in Leases : \/ NewGuard(l) \/ Return(l) \/ Cancel(l) \/ Drop(l) \/ SendRelease(l)
                          \/ \E op \in Ops : Call(l, op)
  BY DEF Client
<1>2. \A k \in Leases \ {l} : guard'[k] = guard[k]
  BY <1>0, <1>1 DEF NewGuard, Return, Cancel, Drop, SendRelease, Call
<1>3. Busy' = Busy
  BY HandKept DEF Busy
<1>4. Busy = 1 => Cardinality(Releasing) >= 1
  <2> SUFFICES ASSUME Busy = 1 PROVE Cardinality(Releasing) >= 1
    OBVIOUS
  <2>1. cur.lease \in Releasing
    BY DEF Busy, QueueInv, EntryInv, Releasing
  <2>2. Cardinality(Releasing) # 0
    BY <2>1, Counts, FS_EmptySet
  <2> QED BY <2>2, Counts
<1>5. CASE ~Accepting
  <2>1. queue = <<>> /\ Busy = 0
    BY <1>5 DEF Accepting, PlaceInv, BaseInv, Busy
  <2>2. queue' = <<>>
    <3>1. \/ queue' = queue
          \/ queue' = [i \in DOMAIN queue |-> Skipped(l, queue[i])]
      BY <1>1, <1>5 DEF NewGuard, Return, Cancel, Drop, SendRelease, Call, MapQueue
    <3> QED BY <2>1, <3>1
  <2>3. cur'.op # "release" \/ pc' # "disconnect"
    BY <1>3, <2>1 DEF Busy
  <2> QED BY <2>2, <2>3, EmptyQueue
<1>6. CASE Accepting /\ (NewGuard(l) \/ \E op \in Ops : Call(l, op))
  <2>1. Cardinality(Releasing') = Cardinality(Releasing)
    <3>1. guard[l] # "releasing" /\ guard'[l] # "releasing"
      BY <1>0, <1>6 DEF NewGuard, Call
    <3> QED BY <1>2, <3>1, ReleasingSteps
  <2>2. CASE Len(queue) < QueueCap
    <3>1. queue' = queue \/ \E e \in Entries : queue' = Append(queue, e)
      BY <1>6, ClientQueue
    <3>2. Len(queue') <= Len(queue) + 1
      BY <3>1, Counts, AppendToQueue DEF TypeOK
    <3> QED BY <1>3, <1>4, <2>1, <2>2, <3>2, Counts, CountsNext DEF LengthInv
  <2>3. CASE ~(Len(queue) < QueueCap)
    <3>1. queue' = queue
      BY <1>6, <2>3 DEF NewGuard, Call
    <3>2. Stop' = Stop
      BY <3>1 DEF Stop
    <3> QED BY <1>3, <2>1, <3>1, <3>2, Counts, CountsNext DEF LengthInv
  <2> QED BY <2>2, <2>3
<1>7. CASE Accepting /\ SendRelease(l)
  <2>1. guard[l] = "dropped" /\ guard'[l] = "releasing"
    BY <1>0, <1>7 DEF SendRelease
  <2>2. Cardinality(Releasing') = Cardinality(Releasing) + 1
    BY <1>2, <2>1, ReleasingSteps
  <2>3. queue' = Append(queue, ReleaseEntry(l)) /\ ReleaseEntry(l).op = "release"
        /\ ReleaseEntry(l) \in Entries
    BY <1>7, SentEntries DEF SendRelease, ReleaseQueued, ReleaseEntry, Gens, AllOps
  <2>4. Len(queue') = Len(queue) + 1
    BY <2>3, AppendToQueue DEF TypeOK
  <2>5. Stop' = Stop
    <3>1. \A i \in DOMAIN queue' :
             \/ i \in DOMAIN queue /\ queue'[i] = queue[i]
             \/ queue'[i].op = "release"
      BY <2>3, AppendToQueue DEF TypeOK
    <3>2. \A i \in DOMAIN queue : i \in DOMAIN queue' /\ queue'[i] = queue[i]
      BY <2>3 DEF TypeOK
    <3> QED BY <3>1, <3>2 DEF Stop
  <2>6. Len(queue') + Busy' = Len(queue) + Busy + 1
    BY <1>3, <2>4, Counts
  <2> QED BY <2>2, <2>5, <2>6, Counts, CountsNext, ReleaseBalance DEF LengthInv
<1>8. CASE Accepting /\ (Cancel(l) \/ Drop(l))
  <2>1. /\ Len(queue') = Len(queue) /\ DOMAIN queue' = DOMAIN queue
        /\ \A i \in DOMAIN queue :
               IF queue[i].lease = l /\ queue[i].op # "release"
               THEN queue'[i] = [None EXCEPT !.op = "gone"] ELSE queue'[i] = queue[i]
    <3>1. queue' = [i \in DOMAIN queue |-> Skipped(l, queue[i])]
      BY <1>8, ClientQueue
    <3> QED BY <3>1, SkippedQueue DEF TypeOK
  <2>2. Stop' = Stop
    <3>1. \A i \in DOMAIN queue : queue[i].op = "shutdown" => queue[i].lease # l
      BY SourceAssumption DEF QueueInv, EntryInv
    <3>2. \A i \in DOMAIN queue : queue'[i].op = "shutdown" <=> queue[i].op = "shutdown"
      BY <2>1, <3>1 DEF None
    <3> QED BY <2>1, <3>2 DEF Stop
  <2>3. (guard[l] # "releasing" /\ guard'[l] # "releasing") \/ guard' = guard
    BY <1>0, <1>8 DEF Cancel, Drop
  <2>4. Cardinality(Releasing') = Cardinality(Releasing)
    BY <1>2, <2>3, ReleasingSteps
  <2> QED BY <1>3, <2>1, <2>2, <2>4, Counts, CountsNext DEF LengthInv
<1>9. CASE Accepting /\ Return(l)
  <2>1. guard[l] = "held"
    BY <1>9 DEF Return, LeaseInv, NoCall
  <2>2. guard'[l] # "releasing" /\ queue' = queue
    BY <1>0, <1>9, <2>1 DEF Return
  <2>3. Cardinality(Releasing') = Cardinality(Releasing)
    BY <1>2, <2>1, <2>2, ReleasingSteps
  <2>4. Stop' = Stop
    BY <2>2 DEF Stop
  <2> QED BY <1>3, <2>2, <2>3, <2>4, Counts, CountsNext DEF LengthInv
<1> QED BY <1>1, <1>5, <1>6, <1>7, <1>8, <1>9

LEMMA LengthKept ==
  ASSUME TypeOK, TypeOK', BaseInv, QueueInv, PlaceInv, LeaseInv, LengthInv, Next
  PROVE  LengthInv'
<1>1. CASE Shutdown
  <2>1. queue' = <<>> /\ cur'.op # "release"
    BY <1>1 DEF Shutdown, Taken
  <2> QED BY <2>1, EmptyQueue
<1>2. CASE AskShutdown
  <2> DEFINE e == [op |-> "shutdown", lease |-> Nobody, old |-> FALSE, gen |-> "any",
                   open |-> TRUE]
  <2>1. e \in Entries /\ e.op = "shutdown"
    BY SentEntries DEF Gens, AllOps
  <2>2. queue' = Append(queue, e) /\ guard' = guard
        /\ \A i \in DOMAIN queue : queue[i].op # "shutdown"
    BY <1>2 DEF AskShutdown
  <2> HIDE DEF e
  <2>3. Len(queue') = Len(queue) + 1 /\ Stop = 0
    BY <2>1, <2>2, AppendToQueue DEF TypeOK, Stop
  <2>4. Stop' = 1
    <3>1. Len(queue) + 1 \in DOMAIN queue' /\ queue'[Len(queue) + 1] = e
      BY <2>1, <2>2 DEF TypeOK
    <3> QED BY <2>1, <3>1 DEF Stop
  <2>5. Busy' = Busy /\ Releasing' = Releasing
    BY <1>2, <2>2, HandKept DEF Busy, Releasing
  <2> QED BY <2>3, <2>4, <2>5, Counts, CountsNext DEF LengthInv
<1>3. CASE Sleep
  <2>1. /\ Len(queue') = Len(queue) /\ DOMAIN queue' = DOMAIN queue
        /\ \A i \in DOMAIN queue : queue'[i].op = queue[i].op
    BY <1>3, SleptQueue DEF TypeOK
  <2>2. guard' = guard
    BY <1>3 DEF Sleep
  <2>3. Stop' = Stop /\ Busy' = Busy /\ Releasing' = Releasing
    BY <1>3, <2>1, <2>2, HandKept DEF Stop, Busy, Releasing
  <2> QED BY <2>1, <2>3 DEF LengthInv
<1>4. CASE Timer
  BY <1>4 DEF Timer, LengthInv, Busy, Stop, Releasing
<1> QED BY <1>1, <1>2, <1>3, <1>4, LengthReceive, LengthProgress, LengthClients DEF Next, Receive

-----------------------------------------------------------------------------
(* The theorems                                                            *)

LEMMA ActorInvInit == Init => ActorInv
<1> SUFFICES ASSUME Init PROVE ActorInv
  OBVIOUS
<1>1. TypeOK
  <2>1. <<>> \in Seq(Entries) /\ None \in Entries
    BY NoneType
  <2>2. NoCall \in Records
    BY DEF NoCall, Records
  <2> QED BY <2>1, <2>2 DEF Init, TypeOK, Records
<1>2. BaseInv /\ PlaceInv /\ FenceInv
  BY NoneKept DEF Init, BaseInv, PlaceInv, FenceInv
<1>3. QueueInv
  BY NoneKept DEF Init, QueueInv
<1>4. LeaseInv
  BY DEF Init, LeaseInv, NoCall
<1>5. FateInv /\ WritesToldTrue
  BY DEF Init, FateInv, WritesToldTrue, NoCall
<1>6. LengthInv
  <2>1. Busy = 0 /\ Len(queue) = 0
    BY DEF Init, Busy
  <2> QED BY <1>1, <2>1, Counts DEF LengthInv
<1> QED BY <1>1, <1>2, <1>3, <1>4, <1>5, <1>6 DEF ActorInv

LEMMA ActorInvNext == ActorInv /\ Next => ActorInv'
<1> SUFFICES ASSUME ActorInv, Next PROVE ActorInv'
  OBVIOUS
<1>0. /\ TypeOK /\ BaseInv /\ QueueInv /\ PlaceInv /\ LeaseInv /\ FenceInv /\ FateInv
      /\ LengthInv /\ WritesToldTrue
  BY DEF ActorInv
<1>1. TypeOK' /\ QueueInv'
  BY <1>0, TypeKept, QueueKept
<1>2. PlaceInv'
  BY <1>0, PlaceReceive, PlaceProgress, PlaceOthers DEF Next
<1>3. BaseInv' /\ LeaseInv' /\ FenceInv'
  BY <1>0, <1>2, BaseKept, LeaseKept, FenceKept
<1>4. FateInv' /\ WritesToldTrue'
  BY <1>0, FateKept
<1>5. LengthInv'
  BY <1>0, <1>1, LengthKept
<1> QED BY <1>1, <1>2, <1>3, <1>4, <1>5 DEF ActorInv

LEMMA ActorInvStep == ActorInv /\ [Next]_vars => ActorInv'
<1>1. ActorInv /\ UNCHANGED vars => ActorInv'
  BY DEF vars, hostVars, actorVars, linkVars, pollVars, writeVars, ActorInv, TypeOK, BaseInv,
     QueueInv, EntryInv, Apart, Waits, PlaceInv, LeaseInv, Accepting, FenceInv, FateInv,
     AtEquipment, LengthInv, Busy, Stop, Releasing, WritesToldTrue
<1> QED BY <1>1, ActorInvNext

(* ActorInv is an invariant of the actor.                                  *)
THEOREM ActorInvariant == Spec => []ActorInv
BY ActorInvInit, ActorInvStep, PTL DEF Spec

(* For any number of lease guards, any queue and any interleaving of calls,*)
(* cancellations, dropped guards, sleeps and backend failures: leases and  *)
(* control agree, the caller of a write is told the truth, no reader sees  *)
(* a sample of an earlier epoch or one that a write has outdated, and a    *)
(* session disconnects once (source.rs release, write, disconnect).        *)
THEOREM ActorIsSound == Spec => []ActorSound
<1>1. ActorInv => ActorSound
  <2> SUFFICES ASSUME ActorInv PROVE ActorSound
    OBVIOUS
  <2>1. TypeOK /\ BaseInv /\ FenceInv /\ LengthInv /\ WritesToldTrue
    BY DEF ActorInv
  <2>2. Len(queue) <= QueueCap + Cardinality(Leases) + 1
    BY <2>1, Counts DEF LengthInv
  <2>3. SourceInv
    BY <2>1, <2>2 DEF SourceInv, BaseInv
  <2>4. NoOutdatedEvidence
    BY <2>1 DEF NoOutdatedEvidence, Visible, FenceInv
  <2>5. NoEvidenceFromBeforeSleep
    BY <2>1 DEF NoEvidenceFromBeforeSleep, Visible, Interrupted, FenceInv
  <2>6. OneDisconnect
    BY <2>1 DEF OneDisconnect, FenceInv
  <2> QED BY <2>1, <2>3, <2>4, <2>5, <2>6 DEF ActorSound
<1> QED BY <1>1, ActorInvariant, PTL

(* What a retry's wait is cut short by.                                    *)
LEMMA WaitKept ==
  ActorInv /\ [Next]_vars =>
    (retrying /\ nextPoll \in {"later", "never"} /\ nextPoll' # nextPoll => Timer \/ ~retrying')
<1> SUFFICES ASSUME ActorInv, [Next]_vars, retrying, nextPoll \in {"later", "never"},
                    nextPoll' # nextPoll, ~Timer
             PROVE  ~retrying'
  OBVIOUS
<1> USE DEF pollVars
<1>0. TypeOK /\ BaseInv /\ QueueInv /\ PlaceInv /\ LeaseInv
  BY DEF ActorInv
<1>1. CASE Receive
  <2>0. /\ pc = "idle" /\ queue # <<>>
        /\ Waits(Head(queue)) /\ Head(queue).op # "acquire" => Head(queue).lease \in leases
    BY <1>0, <1>1, ReceiveTakes, HeadFacts
  <2>1. Simulate \/ Refresh
    BY <1>1 DEF Receive, Discard, Acquire, Release, Claim, Yield, Request, Shutdown
  <2>2. CASE Simulate
    BY <2>2 DEF Simulate
  <2>3. CASE Refresh
    <3>1. Permitted(Head(queue))
      BY <2>0, <2>3 DEF Refresh, Taken, Admitted, Waits, Silent, Permitted
    <3> QED BY <2>3, <3>1 DEF Refresh
  <2> QED BY <2>1, <2>2, <2>3
<1>2. CASE Progress
  <2>1. ~(pc \in {"connect", "io"} /\ cur.op = "poll") /\ ~(pc = "io" /\ cur.op = "refresh")
    BY <1>0 DEF PlaceInv
  <2>2. ~(pc = "connect" /\ cur.op = "acquire")
    BY <1>0 DEF PlaceInv
  <2>3. DisconnectEnds \/ WriteEnds \/ Resume
    BY <1>2, <2>1, <2>2 DEF Progress, AcquireConnected, RequestConnected, PollConnected,
       ReadEnds, RefreshEnds, PollEnds, Drain, PollBegins, Linked
  <2>4. ~WriteEnds
    BY DEF WriteEnds, WriteInterrupted, WriteUnknown, WriteRejected, PollAfterWrite
  <2>5. ~Resume
    BY Zenon DEF Resume, Resumed
  <2>6. DisconnectEnds
    BY <2>3, <2>4, <2>5
  <2> QED BY <2>6 DEF DisconnectEnds
<1>3. CASE Client \/ AskShutdown \/ Sleep \/ UNCHANGED vars
  BY <1>3 DEF Client, NewGuard, Return, Cancel, Drop, SendRelease, Call, AskShutdown, Sleep,
     vars, ActorUnchanged
<1> QED BY <1>1, <1>2, <1>3 DEF Next

(* A retry's wait is cut short by nothing but the end of the session or a  *)
(* simulation update (source.rs schedule_retry and its callers).           *)
THEOREM RetryWaitHolds == Spec => RetryWaitKept
BY ActorInvariant, WaitKept, PTL DEF Spec, RetryWaitKept

(* What is handed to the backend.                                          *)
LEMMA HandedOver ==
  ActorInv /\ [Next]_vars =>
    (sent' /\ ~sent => ~doubt /\ ~cur'.old /\ cur'.gen \in {"any", "live"})
<1> SUFFICES ASSUME ActorInv, [Next]_vars, sent', ~sent
             PROVE  ~doubt /\ ~cur'.old /\ cur'.gen \in {"any", "live"}
  OBVIOUS
<1>0. TypeOK /\ BaseInv /\ PlaceInv /\ FenceInv
  BY DEF ActorInv
<1>1. Request \/ RequestConnected
  BY DEF Next, Receive, Discard, Acquire, Release, Claim, Yield, Simulate, Refresh, Shutdown,
     Progress, AcquireConnected, PollConnected, ReadEnds, RefreshEnds, WriteEnds, PollEnds,
     DisconnectEnds, Drain, Resume, PollBegins, Client, NewGuard, Return, Cancel, Drop,
     SendRelease, Call, AskShutdown, Sleep, Timer, ActorUnchanged, writeVars, vars
<1>2. CASE Request
  <2>1. /\ cur' = Head(queue) /\ Permitted(Head(queue)) /\ Admitted(Head(queue))
        /\ Head(queue).op = "write" /\ GenerationMatches(Head(queue))
        /\ connected /\ ~behind /\ queue # <<>>
    BY <1>2 DEF Request, Turned, Dispatched, CommandSelected
  <2>2. 1 \in DOMAIN queue /\ Head(queue) = queue[1] /\ Head(queue) \in Entries
    BY <1>0, <2>1, TailOfQueue DEF TypeOK
  <2>3. Head(queue).gen # "dead" /\ Head(queue).gen # "changed"
    BY <1>0, <2>1, <2>2 DEF FenceInv, GenerationMatches
  <2>4. Head(queue).gen \in {"any", "live"}
    BY <2>2, <2>3 DEF Entries, Gens
  <2>5. ~doubt
    BY <1>0, <2>1 DEF Permitted, BaseInv
  <2>6. ~Head(queue).old
    BY <2>1 DEF Admitted
  <2> QED BY <2>1, <2>4, <2>5, <2>6
<1>3. CASE RequestConnected
  <2>1. /\ cur' = NewGeneration(cur) /\ GenerationMatches(NewGeneration(cur))
        /\ NewGeneration(cur).op = "write" /\ pc = "connect"
        /\ "ok" \in ConnectOutcomes
    BY <1>3 DEF RequestConnected, Turned, Dispatched, Linked
  <2>2. ~behind
    BY <2>1 DEF ConnectOutcomes, Interrupted
  <2>3. /\ cur'.op = cur.op /\ cur'.old = cur.old /\ cur'.gen = "any"
    BY <1>0, <2>1, NewGenerationKeeps DEF TypeOK, GenerationMatches
  <2>4. ~doubt /\ ~cur.old
    BY <1>0, <2>1, <2>2, <2>3 DEF FenceInv, BaseInv, Fenced
  <2> QED BY <2>3, <2>4
<1> QED BY <1>1, <1>2, <1>3

(* A write is handed to the backend only if no earlier write of the session*)
(* is in doubt, only in the epoch it was requested in, and only on the     *)
(* transport its caller saw (source.rs write, authorized, and the fences of*)
(* run).                                                                   *)
THEOREM WritesAreFenced == Spec => NoWriteInDoubt /\ NoReplayAfterSleep /\ WriteOnSeenTransport
BY ActorInvariant, HandedOver, PTL
   DEF Spec, NoWriteInDoubt, NoReplayAfterSleep, WriteOnSeenTransport

-----------------------------------------------------------------------------
(* The ages of polled properties                                           *)

(* The sampling by itself.                                                 *)
SmSpec == SmInit /\ [][SmNext]_smVars

(* Every set of numbers has a least one.                                   *)
LEMMA LeastOf ==
  ASSUME NEW S, S \subseteq Nat, S # {}
  PROVE  \E x \in S : \A y \in S : x <= y
<1>1. PICK x \in S : \A y \in S : <<y, x>> \notin OpToRel(<, Nat)
  BY WFMin, NatLessThanWellFounded, Zenon
<1>2. \A y \in S : ~(y < x)
  BY <1>1, Zenon DEF OpToRel
<1> QED BY <1>2

SampleKeyNow == SampleKeys[mpoll.cursor]

SampleIos ==
  [pc : {"none", "connect", "sent", "answered", "failed"}, started : Nat,
   key : Keys \cup {""}, began : Nat, needsAge : BOOLEAN, age : Nat, told : Nat, taken : Nat]
SampleWaits == [at : Int, age : Int]
SamplePolls == [cursor : 1..Len(SampleKeys), pending : SampleWaits, failures : Nat]
Samples == [started : Int, age : Nat, taken : Nat]

SampleType ==
  /\ mclk \in [now : Nat, failed : Nat]
  /\ msens \in [Keys -> Nat]
  /\ mpoll \in SamplePolls
  /\ mio \in SampleIos
  /\ mcache \in [Keys -> Samples]

(* An age that waits for its value covers the value that the sensor has,   *)
(* or an older one.                                                        *)
PendingOK ==
  mpoll.pending # NoAge =>
    /\ SampleKeyNow \in AgedKeys
    /\ mpoll.pending.at \in 0..mclk.now /\ mpoll.pending.age \in 0..mclk.now
    /\ mpoll.pending.at - mpoll.pending.age <= msens[SampleKeyNow]

(* The request under way is for the property of the cursor, and its age,   *)
(* counted from its start, reaches back to the value.                      *)
RequestOK ==
  /\ mio.started <= mclk.now
  /\ mio.pc \in {"sent", "answered", "failed"} =>
       /\ mio.key = SampleKeyNow
       /\ mio.started <= mio.began /\ mio.began <= mclk.now /\ mio.age <= 2 * mclk.now
       /\ mio.needsAge = (mio.key \in AgedKeys /\ mpoll.pending = NoAge)
       /\ ~mio.needsAge /\ mio.key \in AgedKeys => mio.began - mio.age <= msens[mio.key]
  /\ mio.pc = "answered" =>
       /\ mio.taken <= mclk.now /\ mio.told <= mclk.now /\ mio.began - mio.told <= mio.taken
       /\ mio.key \in AgedKeys => mio.taken <= msens[mio.key]
       /\ ~mio.needsAge => mio.started - mio.age <= mio.taken

(* What is kept is at least as old as the sensor's value.                  *)
KeptOK ==
  \A k \in Keys : mcache[k] # NoSample =>
    /\ mcache[k].started \in 0..mclk.now /\ mcache[k].age <= 2 * mclk.now
    /\ mcache[k].started - mcache[k].age <= mcache[k].taken

SampleInv ==
  /\ SampleType /\ PendingOK /\ RequestOK /\ KeptOK
  /\ \A k \in Keys : msens[k] <= mclk.now
  /\ mpoll.failures < SampleAttempts

LEMMA SampleFacts ==
  /\ Len(SampleKeys) \in Nat /\ Len(SampleKeys) >= 1 /\ 1 \in 1..Len(SampleKeys)
  /\ \A i \in 1..Len(SampleKeys) :
       SampleKeys[i] \in Keys /\ (i % Len(SampleKeys)) + 1 \in 1..Len(SampleKeys)
  /\ NoIo.pc = "none" /\ NoIo.started = 0
  /\ NoIo \in SampleIos
  /\ NoSample \in Samples
  /\ NoAge \in SampleWaits /\ NoAge.at = -1
<1>1. Len(SampleKeys) \in Nat /\ Len(SampleKeys) >= 1 /\ 1 \in 1..Len(SampleKeys)
  BY SamplesAssumption
<1>2. ASSUME NEW i \in 1..Len(SampleKeys)
      PROVE  SampleKeys[i] \in Keys /\ (i % Len(SampleKeys)) + 1 \in 1..Len(SampleKeys)
  <2>1. SampleKeys[i] \in Keys
    BY SamplesAssumption
  <2>2. (i % Len(SampleKeys)) + 1 \in 1..Len(SampleKeys)
    BY <1>1
  <2> QED BY <2>1, <2>2
<1> QED BY <1>1, <1>2 DEF NoIo, NoSample, NoAge, SampleIos, Samples, SampleWaits

LEMMA NextKeyIs ==
  ASSUME SampleInv
  PROVE  /\ NextKey.pending = NoAge /\ NextKey.failures = 0
         /\ NextKey \in SamplePolls
         /\ Fresh0.pending = NoAge /\ Fresh0.failures = 0
         /\ Fresh0 \in SamplePolls
         /\ mpoll.cursor \in 1..Len(SampleKeys) /\ SampleKeyNow \in Keys
         /\ 0 < SampleAttempts
<1>1. mpoll.cursor \in 1..Len(SampleKeys)
  BY DEF SampleInv, SampleType, SamplePolls
<1>2. SampleKeyNow \in Keys /\ (mpoll.cursor % Len(SampleKeys)) + 1 \in 1..Len(SampleKeys)
  BY <1>1, SampleFacts DEF SampleKeyNow
<1> DEFINE c == (mpoll.cursor % Len(SampleKeys)) + 1
<1>3. NextKey = [Fresh0 EXCEPT !.cursor = c] /\ c \in 1..Len(SampleKeys)
  BY <1>2 DEF NextKey
<1> HIDE DEF c
<1>4. 0 < SampleAttempts
  BY SamplesAssumption
<1>5. Fresh0 \in SamplePolls /\ Fresh0.pending = NoAge /\ Fresh0.failures = 0
  BY SampleFacts DEF Fresh0, SamplePolls
<1>6. NextKey \in SamplePolls /\ NextKey.pending = NoAge /\ NextKey.failures = 0
  BY <1>3, <1>5 DEF SamplePolls
<1> QED BY <1>1, <1>2, <1>4, <1>5, <1>6

(* A request ends: the property's sample is kept, gone or left, and the    *)
(* poll goes on.                                                           *)
LEMMA RequestEndsKeeps ==
  ASSUME SampleInv, UNCHANGED <<mclk, msens>>, mio' = NoIo,
         mpoll' \in SamplePolls,
         mpoll'.failures < SampleAttempts, PendingOK',
         mcache' \in [Keys -> Samples], KeptOK'
  PROVE  SampleInv'
<1>1. SampleType'
  BY SampleFacts DEF SampleInv, SampleType
<1>2. RequestOK'
  <2>1. mclk.now \in Nat /\ 0 <= mclk.now
    BY DEF SampleInv, SampleType
  <2>2. mio'.pc = "none" /\ mio'.started = 0
    BY SampleFacts
  <2> QED BY <2>1, <2>2 DEF RequestOK
<1> QED BY <1>1, <1>2 DEF SampleInv

LEMMA RequestTypes ==
  ASSUME SampleInv
  PROVE  /\ mclk.now \in Nat /\ mio.started \in Nat /\ mio.began \in Nat /\ mio.age \in Nat
         /\ mio.told \in Nat /\ mio.taken \in Nat /\ mio.needsAge \in BOOLEAN
         /\ mpoll.cursor \in 1..Len(SampleKeys) /\ mpoll.failures \in Nat
         /\ mpoll.pending \in SampleWaits /\ mpoll.pending.at \in Int /\ mpoll.pending.age \in Int
<1>1. mclk \in [now : Nat, failed : Nat] /\ mio \in SampleIos /\ mpoll \in SamplePolls
  BY DEF SampleInv, SampleType
<1>2. mclk.now \in Nat
  BY <1>1
<1>3. /\ mio.started \in Nat /\ mio.began \in Nat /\ mio.age \in Nat
      /\ mio.told \in Nat /\ mio.taken \in Nat /\ mio.needsAge \in BOOLEAN
  BY <1>1 DEF SampleIos
<1>4. /\ mpoll.cursor \in 1..Len(SampleKeys) /\ mpoll.failures \in Nat
      /\ mpoll.pending \in SampleWaits
  BY <1>1 DEF SamplePolls
<1> QED BY <1>2, <1>3, <1>4 DEF SampleWaits

(* Arithmetic of ages.                                                     *)
LEMMA AgeGrows ==
  /\ \A at, age, now \in Nat : at <= now /\ age <= now =>
       age + now - at \in Nat /\ age + now - at <= 2 * now
  /\ \A began, age, m, n \in Nat : began - age <= m /\ m <= n => began - age <= n
  /\ \A age, now, then \in Nat : age <= 2 * now /\ now <= then => age <= 2 * then
  /\ \A began, now, v \in Nat : began <= now /\ v <= now =>
       now - v \in Nat /\ now - v <= now /\ began - (now - v) <= v
  /\ \A started, began, age, v \in Nat :
       started <= began /\ began - age <= v => started - age <= v
OBVIOUS

LEMMA SmInitKeeps ==
  ASSUME SmInit
  PROVE  SampleInv
<1>1. /\ mclk.now = 0 /\ mpoll.pending = NoAge /\ mpoll.failures = 0 /\ mio = NoIo
      /\ \A k \in Keys : msens[k] = 0 /\ mcache[k] = NoSample
  BY DEF SmInit, Fresh0
<1>2. SampleType
  BY SampleFacts DEF SmInit, Fresh0, SampleType, SamplePolls
<1>3. PendingOK /\ RequestOK /\ KeptOK
  <2>1. mio.pc = "none" /\ mio.started = 0
    BY <1>1, SampleFacts
  <2> QED BY <1>1, <2>1 DEF PendingOK, RequestOK, KeptOK
<1> QED BY <1>1, <1>2, <1>3, SamplesAssumption DEF SampleInv

(* Time passes, sensors take new values: whatever covered the old covers   *)
(* the new.                                                                *)
LEMMA WorldKeeps ==
  ASSUME SampleInv, SmTick \/ (\E k \in Keys : SmSensor(k))
  PROVE  SampleInv'
<1>1. /\ mclk' \in [now : Nat, failed : Nat] /\ mclk.now <= mclk'.now /\ mclk.now \in Nat
      /\ msens' \in [Keys -> Nat] /\ \A k \in Keys : msens[k] <= msens'[k] /\ msens'[k] <= mclk'.now
      /\ UNCHANGED <<mpoll, mio, mcache>>
  <2>1. CASE SmTick
    BY <2>1 DEF SmTick, SampleInv, SampleType
  <2>2. CASE \E k \in Keys : SmSensor(k)
    BY <2>2 DEF SmSensor, SampleInv, SampleType
  <2> QED BY <2>1, <2>2
<1>2. SampleType'
  BY <1>1 DEF SampleInv, SampleType
<1>3. SampleKeyNow' = SampleKeyNow /\ SampleKeyNow \in Keys
  BY <1>1, NextKeyIs DEF SampleKeyNow
<1>4. PendingOK'
  <2> SUFFICES ASSUME mpoll.pending # NoAge
               PROVE  /\ SampleKeyNow \in AgedKeys
                      /\ mpoll.pending.at \in 0..mclk'.now /\ mpoll.pending.age \in 0..mclk'.now
                      /\ mpoll.pending.at - mpoll.pending.age <= msens'[SampleKeyNow]
    BY <1>1, <1>3 DEF PendingOK
  <2>1. msens[SampleKeyNow] \in Nat /\ msens'[SampleKeyNow] \in Nat
    BY <1>1, <1>3 DEF SampleInv, SampleType
  <2> QED BY <1>1, <1>3, <2>1 DEF SampleInv, PendingOK, SampleType, SamplePolls, SampleWaits
<1>5. RequestOK'
  <2>1. mio.pc \in {"sent", "answered", "failed"} => mio.key \in Keys
    BY <1>3 DEF SampleInv, RequestOK
  <2>2. mio.pc \in {"sent", "answered", "failed"} =>
          /\ msens[mio.key] \in Nat /\ msens'[mio.key] \in Nat
          /\ msens[mio.key] <= msens'[mio.key]
    BY <1>1, <2>1 DEF SampleInv, SampleType
  <2>3. mio.started <= mclk'.now
    BY <1>1, RequestTypes DEF SampleInv, RequestOK
  <2> DEFINE m == msens[mio.key]
             n == msens'[mio.key]
  <2>4. ASSUME mio.pc \in {"sent", "answered", "failed"}
        PROVE  /\ mio.began <= mclk'.now /\ mio.age <= 2 * mclk'.now
               /\ ~mio.needsAge /\ mio.key \in AgedKeys => mio.began - mio.age <= n
    <3>1. /\ mio.began <= mclk.now /\ mio.age <= 2 * mclk.now
          /\ ~mio.needsAge /\ mio.key \in AgedKeys => mio.began - mio.age <= m
      BY <2>4 DEF SampleInv, RequestOK
    <3>2. m \in Nat /\ n \in Nat /\ m <= n
      BY <2>2, <2>4
    <3> HIDE DEF m, n
    <3>3. mclk'.now \in Nat
      BY <1>1
    <3>4. mio.began <= mclk'.now
      BY <1>1, <3>1, <3>3, RequestTypes
    <3>5. mio.age <= 2 * mclk'.now
      BY <1>1, <3>1, <3>3, RequestTypes, AgeGrows
    <3>6. ~mio.needsAge /\ mio.key \in AgedKeys => mio.began - mio.age <= n
      BY <3>1, <3>2, RequestTypes, AgeGrows
    <3> QED BY <3>4, <3>5, <3>6
  <2>5. ASSUME mio.pc = "answered"
        PROVE  /\ mio.taken <= mclk'.now /\ mio.told <= mclk'.now
               /\ mio.key \in AgedKeys => mio.taken <= n
    <3>1. /\ mio.taken <= mclk.now /\ mio.told <= mclk.now
          /\ mio.key \in AgedKeys => mio.taken <= m
      BY <2>5 DEF SampleInv, RequestOK
    <3>2. m \in Nat /\ n \in Nat /\ m <= n
      BY <2>2, <2>5
    <3> HIDE DEF m, n
    <3> QED BY <1>1, <3>1, <3>2, RequestTypes
  <2> QED BY <1>1, <1>3, <2>3, <2>4, <2>5 DEF SampleInv, RequestOK
<1>6. KeptOK'
  BY <1>1 DEF SampleInv, SampleType, KeptOK, Samples
<1> QED BY <1>1, <1>2, <1>4, <1>5, <1>6 DEF SampleInv

LEMMA SmPollKeeps ==
  ASSUME SampleInv, SmPoll
  PROVE  SampleInv'
<1>1. /\ mio' = [NoIo EXCEPT !.pc = "connect", !.started = mclk.now]
      /\ UNCHANGED <<mclk, msens, mpoll, mcache>>
  BY DEF SmPoll
<1>2. mio' \in SampleIos /\ mio'.pc = "connect" /\ mio'.started = mclk.now
  BY <1>1, SampleFacts, RequestTypes DEF SampleIos
<1>3. SampleType' /\ PendingOK' /\ KeptOK'
  BY <1>1, <1>2 DEF SampleInv, SampleType, PendingOK, SampleKeyNow, KeptOK
<1>4. RequestOK'
  BY <1>1, <1>2, RequestTypes DEF RequestOK
<1> QED BY <1>1, <1>3, <1>4 DEF SampleInv

(* A step of the request alone.                                            *)
LEMMA RequestKeeps ==
  ASSUME SampleInv, UNCHANGED <<msens, mpoll, mcache>>, mio' \in SampleIos,
         mclk' \in [now : Nat, failed : Nat], mclk'.now = mclk.now, RequestOK'
  PROVE  SampleInv'
BY DEF SampleInv, SampleType, PendingOK, SampleKeyNow, KeptOK

LEMMA SmPrepareKeeps ==
  ASSUME SampleInv, SmPrepare
  PROVE  SampleInv'
<1> DEFINE k == SampleKeyNow
           n == k \in AgedKeys /\ mpoll.pending = NoAge
           a == IF mpoll.pending = NoAge THEN 0
                ELSE mpoll.pending.age + mclk.now - mpoll.pending.at
<1>1. /\ mio' = [mio EXCEPT !.pc = "sent", !.key = k, !.began = mclk.now, !.needsAge = n, !.age = a]
      /\ UNCHANGED <<mclk, msens, mpoll, mcache>>
  BY DEF SmPrepare, SampleKeyNow
<1>2. k \in Keys /\ n \in BOOLEAN /\ n = (k \in AgedKeys /\ mpoll.pending = NoAge)
  BY NextKeyIs
<1>3. a \in Nat /\ a <= 2 * mclk.now /\ (mpoll.pending = NoAge => a = 0)
  <2>1. CASE mpoll.pending = NoAge
    BY <2>1, RequestTypes
  <2>2. CASE mpoll.pending # NoAge
    <3>1. mpoll.pending.at \in 0..mclk.now /\ mpoll.pending.age \in 0..mclk.now
      BY <2>2 DEF SampleInv, PendingOK
    <3>2. /\ mpoll.pending.at \in Nat /\ mpoll.pending.age \in Nat
          /\ mpoll.pending.at <= mclk.now /\ mpoll.pending.age <= mclk.now
      BY <3>1, RequestTypes
    <3>3. /\ mpoll.pending.age + mclk.now - mpoll.pending.at \in Nat
          /\ mpoll.pending.age + mclk.now - mpoll.pending.at <= 2 * mclk.now
      <4> DEFINE x == mpoll.pending.at
                 y == mpoll.pending.age
                 z == mclk.now
      <4>1. x \in Nat /\ y \in Nat /\ z \in Nat /\ x <= z /\ y <= z
        BY <3>2, RequestTypes
      <4> HIDE DEF x, y, z
      <4>2. y + z - x \in Nat /\ y + z - x <= 2 * z
        BY <4>1, AgeGrows
      <4> QED BY <4>2 DEF x, y, z
    <3> QED BY <2>2, <3>3
  <2> QED BY <2>1, <2>2
<1>4. mpoll.pending # NoAge => mclk.now - a <= msens[k]
  <2>1. msens[k] \in Nat
    BY <1>2 DEF SampleInv, SampleType
  <2> QED BY <2>1, RequestTypes DEF SampleInv, PendingOK
<1>5. k = SampleKeyNow /\ k' = k
  BY <1>1 DEF SampleKeyNow
<1> HIDE DEF k, n, a
<1>6. /\ mio' \in SampleIos /\ mio'.pc = "sent" /\ mio'.key = k /\ mio'.began = mclk.now
      /\ mio'.needsAge = n /\ mio'.age = a /\ mio'.started = mio.started
  BY <1>1, <1>2, <1>3, RequestTypes DEF SampleInv, SampleType, SampleIos
<1>7. RequestOK'
  <2>1. mio.started <= mclk.now
    BY DEF SampleInv, RequestOK
  <2>2. SampleKeyNow' = k /\ msens' = msens /\ mclk' = mclk /\ mpoll' = mpoll
    BY <1>1, <1>5 DEF SampleKeyNow
  <2>3. mio'.needsAge = (mio'.key \in AgedKeys /\ mpoll'.pending = NoAge)
    BY <1>2, <1>6, <2>2
  <2>4. ~mio'.needsAge /\ mio'.key \in AgedKeys => mio'.began - mio'.age <= msens'[mio'.key]
    BY <1>2, <1>4, <1>6, <2>2
  <2>5. mio'.began <= mclk'.now /\ mio'.age <= 2 * mclk'.now
    BY <1>3, <1>6, <2>2, RequestTypes
  <2> QED BY <1>6, <2>1, <2>2, <2>3, <2>4, <2>5 DEF RequestOK
<1> QED BY <1>1, <1>6, <1>7, RequestKeeps DEF SampleInv, SampleType

LEMMA SmAnswerKeeps ==
  ASSUME SampleInv, SmAnswer
  PROVE  SampleInv'
<1> DEFINE v == IF mio.key \in AgedKeys THEN msens[mio.key] ELSE mclk.now
           o == mclk.now - v
<1>1. /\ mio.pc = "sent" /\ UNCHANGED <<mclk, msens, mpoll, mcache>>
      /\ mio' = [mio EXCEPT !.pc = "answered", !.told = o, !.taken = v]
  BY DEF SmAnswer
<1>2. /\ mio.key = SampleKeyNow /\ mio.key \in Keys
      /\ mio.started <= mclk.now /\ mio.started <= mio.began /\ mio.began <= mclk.now
      /\ mio.age <= 2 * mclk.now
      /\ mio.needsAge = (mio.key \in AgedKeys /\ mpoll.pending = NoAge)
      /\ ~mio.needsAge /\ mio.key \in AgedKeys => mio.began - mio.age <= msens[mio.key]
  BY <1>1, NextKeyIs DEF SampleInv, RequestOK
<1>3. /\ v \in Nat /\ v <= mclk.now
      /\ IF mio.key \in AgedKeys THEN v = msens[mio.key] ELSE v = mclk.now
  <2>1. msens[mio.key] \in Nat /\ msens[mio.key] <= mclk.now
    BY <1>2 DEF SampleInv, SampleType
  <2> QED BY <2>1, RequestTypes
<1>4. o \in Nat /\ o <= mclk.now /\ mio.began - o <= v
  <2> HIDE DEF v
  <2> QED BY <1>2, <1>3, RequestTypes, AgeGrows
<1>5. ~mio.needsAge => mio.started - mio.age <= v
  <2> HIDE DEF v
  <2>1. CASE mio.key \in AgedKeys
    <3>1. ~mio.needsAge => mio.began - mio.age <= v
      BY <1>2, <1>3, <2>1
    <3> QED BY <1>2, <1>3, <3>1, RequestTypes, AgeGrows
  <2>2. CASE mio.key \notin AgedKeys
    BY <1>2, <1>3, <2>2, RequestTypes
  <2> QED BY <2>1, <2>2
<1> HIDE DEF v, o
<1>6. /\ mio' \in SampleIos /\ mio'.pc = "answered" /\ mio'.told = o /\ mio'.taken = v
      /\ mio'.key = mio.key /\ mio'.began = mio.began /\ mio'.needsAge = mio.needsAge
      /\ mio'.age = mio.age /\ mio'.started = mio.started
  BY <1>1, <1>3, <1>4, RequestTypes DEF SampleInv, SampleType, SampleIos
<1>7. RequestOK'
  <2>1. SampleKeyNow' = SampleKeyNow /\ msens' = msens /\ mclk' = mclk /\ mpoll' = mpoll
    BY <1>1 DEF SampleKeyNow
  <2> QED BY <1>2, <1>3, <1>4, <1>5, <1>6, <2>1 DEF RequestOK
<1> QED BY <1>1, <1>6, <1>7, RequestKeeps DEF SampleInv, SampleType

LEMMA SmFailureKeeps ==
  ASSUME SampleInv, SmFailure
  PROVE  SampleInv'
<1>1. /\ mio.pc = "sent" /\ UNCHANGED <<msens, mpoll, mcache>>
      /\ mio' = [mio EXCEPT !.pc = "failed"] /\ mclk' = [mclk EXCEPT !.failed = @ + 1]
  BY DEF SmFailure
<1>2. mclk' \in [now : Nat, failed : Nat] /\ mclk'.now = mclk.now
  BY <1>1 DEF SampleInv, SampleType
<1>3. /\ mio' \in SampleIos /\ mio'.pc = "failed"
      /\ mio'.key = mio.key /\ mio'.began = mio.began /\ mio'.needsAge = mio.needsAge
      /\ mio'.age = mio.age /\ mio'.started = mio.started
  BY <1>1 DEF SampleInv, SampleType, SampleIos
<1>4. RequestOK'
  <2>1. SampleKeyNow' = SampleKeyNow /\ msens' = msens /\ mpoll' = mpoll
    BY <1>1 DEF SampleKeyNow
  <2> QED BY <1>1, <1>2, <1>3, <2>1 DEF SampleInv, RequestOK
<1> QED BY <1>1, <1>2, <1>3, <1>4, RequestKeeps

LEMMA SmAgeKeeps ==
  ASSUME SampleInv, SmAge
  PROVE  SampleInv'
<1> DEFINE w == [at |-> mio.began, age |-> mio.told]
<1>1. /\ mio.pc = "answered" /\ mio.needsAge /\ mio' = NoIo /\ UNCHANGED <<mclk, msens, mcache>>
      /\ mpoll' = [mpoll EXCEPT !.failures = 0, !.pending = w]
  BY DEF SmAge
<1>2. w \in SampleWaits /\ w.at = mio.began /\ w.age = mio.told
  BY RequestTypes DEF SampleWaits
<1> HIDE DEF w
<1>3. /\ mpoll' \in SamplePolls /\ mpoll'.pending = w /\ mpoll'.failures = 0
      /\ mpoll'.cursor = mpoll.cursor
  BY <1>1, <1>2 DEF SampleInv, SampleType, SamplePolls
<1>4. PendingOK'
  <2>1. SampleKeyNow' = SampleKeyNow /\ mio.key = SampleKeyNow /\ SampleKeyNow \in Keys
    BY <1>1, <1>3, NextKeyIs DEF SampleKeyNow, SampleInv, RequestOK
  <2>2. /\ mio.key \in AgedKeys /\ mio.began <= mclk.now /\ mio.told <= mclk.now
        /\ mio.began - mio.told <= mio.taken /\ mio.taken <= msens[mio.key]
    BY <1>1 DEF SampleInv, RequestOK
  <2>3. msens[mio.key] \in Nat
    BY <2>1 DEF SampleInv, SampleType
  <2>4. mio.began - mio.told <= msens[mio.key]
    BY <2>2, <2>3, RequestTypes
  <2>5. mio.began \in 0..mclk.now /\ mio.told \in 0..mclk.now
    BY <2>2, RequestTypes
  <2> QED BY <1>1, <1>2, <1>3, <2>1, <2>2, <2>4, <2>5 DEF PendingOK
<1>5. mcache' \in [Keys -> Samples] /\ KeptOK' /\ 0 < SampleAttempts
  BY <1>1, NextKeyIs DEF SampleInv, SampleType, KeptOK
<1> QED BY <1>1, <1>3, <1>4, <1>5, RequestEndsKeeps

(* A sample replaces the one of its property.                              *)
LEMMA SampleIs ==
  ASSUME SampleInv, NEW k \in Keys, NEW s \in Samples, mcache' = [mcache EXCEPT ![k] = s],
         UNCHANGED mclk,
         s # NoSample => /\ s.started \in 0..mclk.now /\ s.age <= 2 * mclk.now
                         /\ s.started - s.age <= s.taken
  PROVE  mcache' \in [Keys -> Samples] /\ KeptOK'
BY DEF SampleInv, SampleType, KeptOK

LEMMA SmValueKeeps ==
  ASSUME SampleInv, SmValue
  PROVE  SampleInv'
<1> DEFINE s == [started |-> mio.started, age |-> mio.age, taken |-> mio.taken]
<1>1. /\ mio.pc = "answered" /\ ~mio.needsAge /\ mio' = NoIo /\ UNCHANGED <<mclk, msens>>
      /\ mpoll' = NextKey /\ mcache' = [mcache EXCEPT ![mio.key] = s]
  BY DEF SmValue
<1>2. s \in Samples /\ s.started = mio.started /\ s.age = mio.age /\ s.taken = mio.taken
  BY RequestTypes DEF Samples
<1> HIDE DEF s
<1>3. /\ mio.key \in Keys /\ mio.started <= mclk.now /\ mio.age <= 2 * mclk.now
      /\ mio.started - mio.age <= mio.taken
  BY <1>1, NextKeyIs DEF SampleInv, RequestOK
<1>4. mio.started \in 0..mclk.now
  BY <1>3, RequestTypes
<1>5. mcache' \in [Keys -> Samples] /\ KeptOK'
  BY <1>1, <1>2, <1>3, <1>4, SampleIs
<1>6. mpoll' \in SamplePolls /\ mpoll'.failures < SampleAttempts /\ PendingOK'
  BY <1>1, NextKeyIs DEF PendingOK
<1> QED BY <1>1, <1>5, <1>6, RequestEndsKeeps

LEMMA SmErrorKeeps ==
  ASSUME SampleInv, SmError
  PROVE  SampleInv'
<1>1. /\ mio.pc \in {"failed", "answered"} /\ mio' = NoIo /\ UNCHANGED <<mclk, msens>>
      /\ mcache' = [mcache EXCEPT ![mio.key] = NoSample]
      /\ \/ mpoll' = NextKey
         \/ mpoll' = [mpoll EXCEPT !.failures = @ + 1] /\ mpoll.failures + 1 < SampleAttempts
  BY DEF SmError
<1>2. mio.key \in Keys
  BY <1>1, NextKeyIs DEF SampleInv, RequestOK
<1>3. mcache' \in [Keys -> Samples] /\ KeptOK'
  BY <1>1, <1>2, SampleFacts, SampleIs
<1>4. CASE mpoll' = NextKey
  <2>1. mpoll' \in SamplePolls /\ mpoll'.failures < SampleAttempts /\ PendingOK'
    BY <1>4, NextKeyIs DEF PendingOK
  <2> QED BY <1>1, <1>3, <2>1, RequestEndsKeeps
<1>5. CASE mpoll' = [mpoll EXCEPT !.failures = @ + 1] /\ mpoll.failures + 1 < SampleAttempts
  <2>1. /\ mpoll' \in SamplePolls /\ mpoll'.failures = mpoll.failures + 1
        /\ mpoll'.pending = mpoll.pending /\ mpoll'.cursor = mpoll.cursor
    <3>1. mpoll \in SamplePolls /\ mpoll.failures + 1 \in Nat
      BY RequestTypes DEF SampleInv, SampleType
    <3> DEFINE f == mpoll.failures + 1
    <3>2. mpoll' = [mpoll EXCEPT !.failures = f]
      BY <1>5
    <3> HIDE DEF f
    <3>3. f = mpoll.failures + 1 /\ f \in Nat
      BY <3>1 DEF f
    <3> QED BY <3>1, <3>2, <3>3 DEF SamplePolls
  <2>2. PendingOK'
    BY <1>1, <2>1 DEF SampleInv, PendingOK, SampleKeyNow
  <2> QED BY <1>1, <1>3, <1>5, <2>1, <2>2, RequestEndsKeeps
<1> QED BY <1>1, <1>4, <1>5

LEMMA SmRestartKeeps ==
  ASSUME SampleInv, SmRestart
  PROVE  SampleInv'
<1>1. /\ mpoll' = Fresh0 /\ mio' = NoIo /\ UNCHANGED <<mclk, msens>>
      /\ mcache' = [k \in Keys |-> NoSample]
  BY DEF SmRestart
<1>2. mcache' \in [Keys -> Samples] /\ KeptOK'
  BY <1>1, SampleFacts DEF KeptOK
<1>3. mpoll' \in SamplePolls /\ mpoll'.failures < SampleAttempts /\ PendingOK'
  BY <1>1, NextKeyIs DEF PendingOK
<1> QED BY <1>1, <1>2, <1>3, RequestEndsKeeps

LEMMA SampleStutters ==
  ASSUME SampleInv, UNCHANGED smVars
  PROVE  SampleInv'
<1>1. mclk' = mclk /\ msens' = msens /\ mpoll' = mpoll /\ mio' = mio /\ mcache' = mcache
  BY DEF smVars
<1>2. RequestOK'
  BY <1>1 DEF SampleInv, RequestOK, SampleKeyNow
<1> QED BY <1>1, <1>2 DEF SampleInv, SampleType, PendingOK, SampleKeyNow, KeptOK

(* The inductive invariant of the sampling: an age that waits, the age of  *)
(* the request under way and the one that is kept all reach back to the    *)
(* value they are for.                                                     *)
THEOREM SamplesCovered == SmSpec => []SampleInv
<1>1. SmInit => SampleInv
  BY SmInitKeeps
<1>2. SampleInv /\ [SmNext]_smVars => SampleInv'
  <2> SUFFICES ASSUME SampleInv, [SmNext]_smVars
               PROVE  SampleInv'
    OBVIOUS
  <2>1. CASE SmNext
    BY <2>1, WorldKeeps, SmPollKeeps, SmPrepareKeeps, SmAnswerKeeps, SmFailureKeeps, SmAgeKeeps,
       SmValueKeeps, SmErrorKeeps, SmRestartKeeps DEF SmNext
  <2>2. CASE UNCHANGED smVars
    BY <2>2, SampleStutters
  <2> QED BY <2>1, <2>2
<1> QED BY <1>1, <1>2, PTL DEF SmSpec

(* The oldest of what a reading depends on has an age.                     *)
LEMMA CachedAgeIs ==
  ASSUME SampleInv, NEW k \in Keys, Served(k)
  PROVE  /\ CachedAge(k) \in Int
         /\ \A d \in Depends[k] \cup {k} : AgeOf(d) <= CachedAge(k)
<1> DEFINE on == Depends[k] \cup {k}
           ages == {AgeOf(d) : d \in on}
           top == 3 * mclk.now
<1>1. top \in Nat /\ on \subseteq Keys /\ k \in on
  <2>1. mclk.now \in Nat
    BY RequestTypes
  <2>2. top \in Nat
    BY <2>1
  <2>3. Depends[k] \subseteq Keys
    BY SamplesAssumption
  <2> QED BY <2>2, <2>3
<1>2. ASSUME NEW d \in on
      PROVE  AgeOf(d) \in Int /\ AgeOf(d) <= top
  <2>1. d \in Keys /\ mcache[d] # NoSample
    BY <1>1 DEF Served
  <2>2. /\ mcache[d].started \in 0..mclk.now /\ mcache[d].age <= 2 * mclk.now
        /\ mcache[d].age \in Nat
    BY <2>1 DEF SampleInv, SampleType, KeptOK, Samples
  <2>3. mclk.now \in Nat
    BY RequestTypes
  <2>4. \A now, started, age \in Nat : started <= now /\ age <= 2 * now =>
          now - started + age \in Int /\ now - started + age <= 3 * now
    OBVIOUS
  <2> QED BY <2>2, <2>3, <2>4 DEF AgeOf
<1> DEFINE gaps == {top - a : a \in ages}
<1>3. gaps \subseteq Nat /\ gaps # {}
  <2>1. \A a \in ages : a \in Int /\ a <= top
    BY <1>2
  <2>2. ages # {}
    BY <1>1
  <2> HIDE DEF ages, top
  <2> QED BY <1>1, <2>1, <2>2
<1>4. PICK g \in gaps : \A h \in gaps : g <= h
  BY <1>3, LeastOf
<1>5. \E a \in ages : \A d \in on : AgeOf(d) <= a
  <2>1. PICK a \in ages : g = top - a
    BY <1>4
  <2>2. ASSUME NEW d \in on
        PROVE  AgeOf(d) <= a
    <3>1. AgeOf(d) \in ages
      OBVIOUS
    <3>2. top - AgeOf(d) \in gaps
      BY <3>1
    <3>3. top - a <= top - AgeOf(d)
      BY <1>4, <2>1, <3>2
    <3>4. a \in Int /\ AgeOf(d) \in Int
      BY <1>2
    <3> HIDE DEF top
    <3> QED BY <1>1, <3>3, <3>4
  <2> QED BY <2>2
<1>6. CachedAge(k) = CHOOSE a \in ages : \A d \in on : AgeOf(d) <= a
  BY DEF CachedAge
<1>7. CachedAge(k) \in ages /\ \A d \in on : AgeOf(d) <= CachedAge(k)
  <2> HIDE DEF ages, on
  <2> QED BY <1>5, <1>6
<1> QED BY <1>2, <1>7

(* No client is told that a reading, or anything it depends on, is younger *)
(* than it is, for any number of properties, failures, writes and restarts *)
(* (sampling.rs PropertyPoll, readout.rs typed_sample, cached_property).   *)
THEOREM AgesAreHonest == SmSpec => []AgesHonest
<1>1. ASSUME SampleInv
      PROVE  AgesHonest
  <2>1. ASSUME NEW k \in Keys, Served(k), NEW d \in Depends[k] \cup {k}
        PROVE  CachedAge(k) >= mclk.now - mcache[d].taken
    <3>1. d \in Keys /\ mcache[d] # NoSample
      BY <2>1, SamplesAssumption DEF Served
    <3>2. /\ mcache[d].started \in 0..mclk.now /\ mcache[d].age \in Nat /\ mcache[d].taken \in Nat
          /\ mcache[d].started - mcache[d].age <= mcache[d].taken
      BY <1>1, <3>1 DEF SampleInv, SampleType, KeptOK, Samples
    <3>3. mclk.now \in Nat
      BY <1>1, RequestTypes
    <3>4. AgeOf(d) \in Int /\ AgeOf(d) >= mclk.now - mcache[d].taken
      BY <3>2, <3>3 DEF AgeOf
    <3>5. AgeOf(d) <= CachedAge(k)
      BY <1>1, <2>1, CachedAgeIs
    <3>6. CachedAge(k) \in Int
      BY <1>1, <2>1, CachedAgeIs
    <3> QED BY <3>2, <3>3, <3>4, <3>5, <3>6
  <2> QED BY <1>1, <2>1 DEF AgesHonest, SampleInv
<1> QED BY <1>1, SamplesCovered, PTL
=============================================================================
