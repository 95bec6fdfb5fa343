------------------------- MODULE SafetyGrantProofs -------------------------
(***************************************************************************)
(* Proofs about when SafetyHub gives permission and what takes it away,    *)
(* for any policy, any set of sources and any capacity of the broadcast.   *)
(* SafetyHubProofs shows that evidence is what it seems; here it is shown  *)
(* that none is missing: what a source has published and its task has not  *)
(* handled yet is still on its way, or the task is about to start over.    *)
(***************************************************************************)
EXTENDS SafetyHubProofs

-----------------------------------------------------------------------------
(* The inductive invariant                                                 *)

Running(e) == e.runStart # NoTime
Alive(e) == Running(e) \/ e.permits
Fatal(o) == o = "fault" \/ (o = "unsafe" /\ UnsafeReadings = 1)

(* Readers see the generation that the source polls for.                   *)
Current(s) == src[s].epoch = epoch /\ clockValid

Sending(s) == src[s].sending # NoEvent

(* Later in its generation; its last bad reading is the same or newer.     *)
Follows(e, f) == f.gen = e.gen => e.seq < f.seq /\ (f.bad = e.bad \/ f.bad > e.seq)

Sane(e) == 1 <= e.seq /\ e.bad <= e.seq /\ (e.outcome = "safe" => e.bad < e.seq)

(* A generation the source has or had.                                     *)
Known(s, g) ==
  /\ Len(g) > 0 /\ g[1] < fresh
  /\ g[1] = src[s].gen[1] => Len(g) <= Len(src[s].gen)

(* The source has sent e, and what it says now comes after.                *)
Reached(s, e) ==
  e.gen = src[s].gen =>
    /\ e.seq <= src[s].seq
    /\ src[s].bad = e.bad \/ src[s].bad > e.seq
    /\ e.seq = src[s].seq => e.outcome = last[s]

(* Events are in order, and tell of bad readings before them.              *)
StreamInv(s) ==
  /\ src[s].bad <= src[s].seq
  /\ Sending(s) => Sane(src[s].sending) /\ Reached(s, src[s].sending)
  /\ \A i \in DOMAIN ring[s] :
       /\ Sane(ring[s][i]) /\ Reached(s, ring[s][i])
       /\ Sending(s) => Follows(ring[s][i], src[s].sending)
  /\ \A i, j \in DOMAIN ring[s] : i < j => Follows(ring[s][i], ring[s][j])

Arriving(s, q) ==
  \/ \E i \in DOMAIN ring[s] : ring[s][i].gen = src[s].gen /\ ring[s][i].seq = q
  \/ Sending(s) /\ src[s].sending.gen = src[s].gen /\ src[s].sending.seq = q

Seen(s) == IF con[s].gen = src[s].gen THEN con[s].mark ELSE 0

(* A subscriber that is not told of a loss has lost nothing.               *)
NothingMissed(s) ==
  ~lagged[s] /\ Current(s) => \A q \in Seen(s) + 1 .. src[s].seq : Arriving(s, q)

(* The task's generation is one of the source, or the one it will have.    *)
KnowsGeneration(s) ==
  /\ Len(con[s].gen) > 0 /\ con[s].gen[1] < fresh
  /\ con[s].gen = src[s].gen => con[s].mark <= src[s].seq
  /\ con[s].gen[1] = src[s].gen[1] /\ Len(con[s].gen) > Len(src[s].gen) =>
       con[s].mark = 0 /\ Len(con[s].gen) = Len(src[s].gen) + 1 /\ ~Current(s)

LooksAgain(s) ==
  /\ con[s].pc = "select" \/ (con[s].pc = "reset" /\ con[s].then = "select")
  /\ ~news[s] /\ Current(s)
  => con[s].gen = src[s].gen

(* The event in the task's hands is the one its mark is at.                *)
InHand(c) == c.pc = "deliver" \/ (c.pc = "reset" /\ c.then = "deliver")
HandInv(s) ==
  InHand(con[s]) =>
    /\ con[s].event.gen = con[s].gen /\ con[s].event.seq = con[s].mark
    /\ Sane(con[s].event) /\ Known(s, con[s].gen) /\ Reached(s, con[s].event)
    /\ con[s].event.outcome = "safe" => con[s].event.start >= con[s].from
    /\ \A i \in DOMAIN ring[s] : Follows(con[s].event, ring[s][i])
    /\ Sending(s) => Follows(con[s].event, src[s].sending)

(* An event is sent before the next poll begins.                           *)
OneEvent(s) == src[s].poll # NoTime => ~Sending(s)

Chain(s) ==
  /\ StreamInv(s) /\ OneEvent(s) /\ NothingMissed(s)
  /\ KnowsGeneration(s) /\ LooksAgain(s) /\ HandInv(s)

(* The counters of an endpoint belong to its runs.                         *)
Counts(e) ==
  /\ ~Running(e) => e.safeCount = 0 /\ e.countedSafe = NoTime /\ ~e.confirmed
  /\ Running(e) => e.safeCount >= 1 /\ e.countedSafe # NoTime
  /\ e.countedUnsafe # NoTime => e.unsafeCount >= 1

(* An endpoint with a run or a permission goes with its task: it will      *)
(* accept the event in the task's hands, unless that is from before a      *)
(* resume that the hub has not seen yet.                                   *)
AliveInv(s) ==
  Alive(hub.ep[s]) =>
    /\ con[s].pc \notin {"acquire", "done"}
    /\ con[s].pc # "reset" =>
         hub.ep[s].gen = con[s].gen /\ 1 <= hub.ep[s].seq /\ hub.ep[s].seq <= con[s].mark
    /\ con[s].pc = "deliver" =>
         hub.ep[s].seq < con[s].mark /\ (con[s].epoch = epoch \/ hub.epoch # epoch)

Continues(s, e) == e.gen = con[s].gen => e.bad = run[s].bad \/ e.bad > con[s].mark

(* Between its first reading and the task's mark a run has no bad reading, *)
(* and a later one will be seen before the next safe one.                  *)
RunUnbroken(s) ==
  /\ con[s].gen = src[s].gen => src[s].bad = run[s].bad \/ src[s].bad > con[s].mark
  /\ \A i \in DOMAIN ring[s] : Continues(s, ring[s][i])
  /\ Sending(s) => Continues(s, src[s].sending)

RunInv(s) ==
  Running(hub.ep[s]) =>
    /\ run[s].recv = hub.ep[s].runStart /\ run[s].recv <= now
    /\ hub.ep[s].countedSafe - run[s].start >= (hub.ep[s].safeCount - 1) * Confirmation
    /\ hub.ep[s].confirmed => hub.ep[s].safeCount >= SafeReadings /\ now - run[s].recv >= Hold
    /\ run[s].bad < run[s].seq
    /\ con[s].pc # "reset" => run[s].start >= con[s].from
    /\ con[s].pc = "deliver" /\ con[s].event.outcome = "safe" => con[s].event.bad = run[s].bad
    /\ con[s].pc \notin {"reset", "deliver"} => RunUnbroken(s)

(* Once the last event is handled, a fatal one has had its effect.         *)
HeardInv(s) ==
  /\ hub.ep[s].permits /\ con[s].pc \notin {"reset", "deliver"}
  /\ Current(s) /\ con[s].gen = src[s].gen /\ con[s].mark = src[s].seq
  => ~Fatal(last[s])

Judged(s) == Counts(hub.ep[s]) /\ AliveInv(s) /\ RunInv(s) /\ HeardInv(s)

(* The permission follows the endpoints at every moment.                   *)
Earns(e) == e.permits /\ e.phase = "freshSafe" /\ e.confirmed
Settled(h) ==
  /\ h.safe => DOMAIN h.ep # {} /\ \A s \in DOMAIN h.ep : h.ep[s].permits
  /\ ~h.safe /\ DOMAIN h.ep # {} => \E s \in DOMAIN h.ep : ~Earns(h.ep[s])

GrantInv ==
  /\ Settled(hub)
  /\ \A s \in Sources : Chain(s)
  /\ \A s \in DOMAIN hub.ep : Judged(s)

-----------------------------------------------------------------------------
(* What an endpoint makes of an observation                                *)

(* A new endpoint has no run and no permission.                            *)
LEMMA NewEndpointCounts ==
  ASSUME NEW g \in Generations
  PROVE  Counts(NewEndpoint(g)) /\ ~Alive(NewEndpoint(g))
BY DEF Counts, Alive, Running, NewEndpoint

(* Nor has a withdrawn one (Endpoint::withdraw).                           *)
LEMMA WithdrawCounts ==
  ASSUME NEW e \in Endpoints, NEW p \in Phases, Counts(e)
  PROVE  /\ Counts(Withdraw(e, p)) /\ ~Alive(Withdraw(e, p))
         /\ Withdraw(e, p).phase = p
         /\ Withdraw(e, p).gen = e.gen /\ Withdraw(e, p).seq = e.seq
BY DEF Counts, Alive, Running, Withdraw, WithoutRun, Endpoints, Times, NoTime

(* A run that starts over leaves the permission.                           *)
LEMMA WithoutRunCounts ==
  ASSUME NEW e \in Endpoints, Counts(e)
  PROVE  /\ Counts(WithoutRun(e)) /\ ~Running(WithoutRun(e))
         /\ WithoutRun(e).gen = e.gen /\ WithoutRun(e).seq = e.seq
BY DEF Counts, Running, WithoutRun, Endpoints, Times, NoTime

(* Expiry withdraws or does nothing, and nothing the second time.          *)
LEMMA ExpireCounts ==
  ASSUME NEW e \in Endpoints, Counts(e), NEW t \in Nat
  PROVE  /\ Expire(e, t) = e \/ (~Alive(Expire(e, t)) /\ Expire(e, t).phase = "stale")
         /\ Counts(Expire(e, t))
         /\ Expire(e, t) \in Endpoints
         /\ Expire(e, t).gen = e.gen /\ Expire(e, t).seq = e.seq
         /\ Expire(Expire(e, t), t) = Expire(e, t)
<1>1. "stale" \in Phases
  BY DEF Phases
<1>2. CASE Expire(e, t) = e
  BY <1>2
<1>3. CASE Expire(e, t) = Withdraw(e, "stale")
  <2>1. Withdraw(e, "stale").phase = "stale" /\ Withdraw(e, "stale") \in Endpoints
    BY <1>1, WithdrawSound, WithdrawCounts DEF Sound
  <2>2. Expire(Withdraw(e, "stale"), t) = Withdraw(e, "stale")
    BY <2>1 DEF Expire
  <2> QED BY <1>1, <1>3, <2>1, <2>2, WithdrawCounts
<1> QED BY <1>2, <1>3 DEF Expire

(* A failed attempt or cycle ends the run.                                 *)
LEMMA OnFailureCounts ==
  ASSUME NEW e, Sound(e), Counts(e), NEW o \in Events
  PROVE  /\ Counts(OnFailure(e, o)) /\ ~Running(OnFailure(e, o))
         /\ OnFailure(e, o).gen = e.gen /\ OnFailure(e, o).seq = e.seq
<1> DEFINE r == WithoutRun(e)
           ph == IF r.permits
                 THEN IF r.unsafeCount > 0 THEN "pendingUnsafe" ELSE "graceSafe"
                 ELSE IF r.phase = "pendingSafe" THEN "unknown" ELSE r.phase
           g == [r EXCEPT !.phase = ph]
           f == [g EXCEPT !.countedFailure = o.start, !.failures = @ + 1]
           Good(x) == /\ x \in Endpoints /\ Counts(x) /\ ~Running(x)
                      /\ x.gen = e.gen /\ x.seq = e.seq
<1>1. Good(r)
  BY WithoutRunSound, WithoutRunCounts DEF Sound
<1>2. ph \in Phases
  BY <1>1 DEF Endpoints, Phases
<1> HIDE DEF r, ph
<1>3. Good(g)
  BY <1>1, <1>2 DEF Endpoints, Counts, Running
<1> HIDE DEF g
<1>4. Good(f)
  <2>1. g.failures + 1 \in Nat /\ o.start \in Times
    BY <1>3 DEF Endpoints, Events, Times
  <2> QED BY <1>3, <2>1 DEF Endpoints, Counts, Running
<1>5. Counts(Withdraw(f, "unsafe")) /\ ~Running(Withdraw(f, "unsafe"))
      /\ Withdraw(f, "unsafe").gen = e.gen /\ Withdraw(f, "unsafe").seq = e.seq
  <2> HIDE DEF f
  <2> QED BY <1>4, WithdrawCounts DEF Phases, Alive
<1>6. OnFailure(e, o) \in {g, f, Withdraw(f, "unsafe")}
  BY DEF OnFailure, r, ph, g
<1> HIDE DEF f
<1> QED BY <1>3, <1>4, <1>5, <1>6

(* An unsafe reading ends the run, and the permission where one is enough. *)
LEMMA OnUnsafeCounts ==
  ASSUME NEW e, Sound(e), Counts(e), NEW o \in Events
  PROVE  /\ Counts(OnUnsafe(e, o)) /\ ~Running(OnUnsafe(e, o))
         /\ UnsafeReadings = 1 => ~OnUnsafe(e, o).permits
         /\ OnUnsafe(e, o).gen = e.gen /\ OnUnsafe(e, o).seq = e.seq
<1> DEFINE z == [e EXCEPT !.failures = 0, !.countedFailure = NoTime]
           r == WithoutRun(z)
           d == [r EXCEPT !.countedUnsafe = o.start, !.unsafeCount = @ + 1]
           c == IF Eligible(r.countedUnsafe, o.start) THEN d ELSE r
           q == [c EXCEPT !.phase = "pendingUnsafe"]
           w == Withdraw(c, "unsafe")
           Good(x) == /\ x \in Endpoints /\ Counts(x) /\ ~Running(x)
                      /\ x.gen = e.gen /\ x.seq = e.seq
<1>1. z \in Endpoints /\ Counts(z) /\ z.gen = e.gen /\ z.seq = e.seq
  BY DEF Sound, Endpoints, Times, NoTime, Counts, Running
<1> HIDE DEF z
<1>2. Good(r)
  BY <1>1, WithoutRunSound, WithoutRunCounts
<1> HIDE DEF r
<1>3. Good(d) /\ d.unsafeCount >= 1
  <2>1. r.unsafeCount + 1 \in Nat /\ r.unsafeCount + 1 >= 1 /\ o.start \in Times
    BY <1>2 DEF Endpoints, Events, Times
  <2> QED BY <1>2, <2>1 DEF Endpoints, Counts, Running
<1>4. Good(c) /\ c.unsafeCount >= 1
  <2>1. ~Eligible(r.countedUnsafe, o.start) => r.unsafeCount >= 1
    BY <1>2 DEF Eligible, Counts
  <2> HIDE DEF d
  <2> QED BY <1>2, <1>3, <2>1
<1> HIDE DEF c
<1>5. Good(q)
  BY <1>4 DEF Endpoints, Phases, Counts, Running
<1>6. Counts(w) /\ ~Running(w) /\ ~w.permits /\ w.gen = e.gen /\ w.seq = e.seq
  BY <1>4, WithdrawCounts DEF Phases, Alive
<1>7. OnUnsafe(e, o) = IF c.unsafeCount >= UnsafeReadings THEN w ELSE q
  BY DEF OnUnsafe, c, r, z
<1>8. UnsafeReadings = 1 => OnUnsafe(e, o) = w
  BY <1>4, <1>7
<1> HIDE DEF q, w
<1> QED BY <1>5, <1>6, <1>7, <1>8

(* A safe reading that is not too old keeps the run it finds or begins one,*)
(* and is counted unless it is too near the last counted one; the one that *)
(* completes the count and the hold confirms.                              *)
Extends(f, e, o, t) ==
  /\ Running(f) /\ f.gen = e.gen
  /\ f.runStart = IF Running(e) THEN e.runStart ELSE o.recv
  /\ \/ /\ Running(e) /\ f.safeCount = e.safeCount /\ f.countedSafe = e.countedSafe
        /\ f.confirmed = e.confirmed
     \/ /\ f.safeCount = e.safeCount + 1 /\ f.countedSafe = o.start
        /\ Eligible(e.countedSafe, o.start)
        /\ f.confirmed => f.safeCount >= SafeReadings /\ Since(t, f.runStart) >= Hold

LEMMA OnSafeCounts ==
  ASSUME NEW e, Sound(e), Counts(e), NEW o \in Events, NEW t \in Nat
  PROVE  /\ Counts(OnSafe(e, o, t)) /\ Extends(OnSafe(e, o, t), e, o, t)
         /\ OnSafe(e, o, t).seq = e.seq
<1> DEFINE z == [e EXCEPT !.failures = 0, !.countedFailure = NoTime, !.unsafeCount = 0,
                          !.countedUnsafe = NoTime, !.lastSafe = o.start]
           begun == IF z.runStart = NoTime THEN o.recv ELSE z.runStart
           done  == z.safeCount + 1 >= SafeReadings /\ Since(t, begun) >= Hold
           per   == z.permits \/ done
           d == [z EXCEPT !.countedSafe = o.start, !.runStart = begun, !.safeCount = @ + 1,
                          !.confirmed = done, !.permits = per]
           c == CountSafe(z, o, t)
           q == [c EXCEPT !.phase = IF c.permits THEN "freshSafe" ELSE "pendingSafe"]
           Good(x) == x \in Endpoints /\ Counts(x) /\ Extends(x, e, o, t) /\ x.seq = e.seq
<1>1. /\ z \in Endpoints /\ Counts(z) /\ z.gen = e.gen /\ z.seq = e.seq
      /\ z.runStart = e.runStart /\ z.safeCount = e.safeCount
      /\ z.countedSafe = e.countedSafe /\ z.confirmed = e.confirmed
  BY DEF Sound, Endpoints, Events, Times, NoTime, Counts, Running
<1> HIDE DEF z
<1>2. ASSUME ~Eligible(z.countedSafe, o.start) PROVE Good(c)
  <2>1. c = z
    BY <1>2 DEF CountSafe
  <2>2. Running(z)
    BY <1>1, <1>2 DEF Counts, Eligible
  <2> QED BY <1>1, <2>1, <2>2 DEF Extends, Running
<1>3. ASSUME Eligible(z.countedSafe, o.start) PROVE Good(c)
  <2>1. c = d
    BY <1>3 DEF CountSafe
  <2>2. begun \in Nat /\ o.start \in Times /\ o.start # NoTime /\ z.safeCount + 1 \in Nat \ {0}
    BY <1>1 DEF Endpoints, Events, Times, NoTime
  <2>3. done \in BOOLEAN /\ per \in BOOLEAN
    BY Zenon
  <2>4. done => z.safeCount + 1 >= SafeReadings /\ Since(t, begun) >= Hold
    OBVIOUS
  <2>5. begun = IF Running(e) THEN e.runStart ELSE o.recv
    BY <1>1 DEF Running
  <2> HIDE DEF begun, done, per
  <2>6. /\ d \in Endpoints /\ d.seq = z.seq /\ d.gen = z.gen /\ d.runStart = begun
        /\ d.safeCount = z.safeCount + 1 /\ d.countedSafe = o.start /\ d.confirmed = done
        /\ d.countedUnsafe = z.countedUnsafe /\ d.unsafeCount = z.unsafeCount
    BY <1>1, <2>2, <2>3 DEF Endpoints, Times
  <2> HIDE DEF d
  <2>7. Running(d)
    BY <2>2, <2>6 DEF Running, NoTime
  <2>8. Counts(d)
    BY <1>1, <2>2, <2>6, <2>7 DEF Counts
  <2>9. Extends(d, e, o, t)
    BY <1>1, <1>3, <2>4, <2>5, <2>6, <2>7 DEF Extends
  <2> QED BY <1>1, <2>1, <2>6, <2>8, <2>9
<1>4. Good(c)
  BY <1>2, <1>3
<1> HIDE DEF c
<1>5. Good(q)
  <2>1. q \in Endpoints
    BY <1>4 DEF Endpoints, Phases
  <2>2. /\ q.gen = c.gen /\ q.seq = c.seq /\ q.runStart = c.runStart /\ q.safeCount = c.safeCount
        /\ q.countedSafe = c.countedSafe /\ q.confirmed = c.confirmed
        /\ q.countedUnsafe = c.countedUnsafe /\ q.unsafeCount = c.unsafeCount
    BY <1>4 DEF Endpoints
  <2> QED BY <1>4, <2>1, <2>2 DEF Counts, Extends, Running
<1>6. OnSafe(e, o, t) = q
  BY DEF OnSafe, c, z
<1> QED BY <1>5, <1>6

(* An observation that is not accepted changes nothing but what has        *)
(* expired; an accepted one either ends the run or is a safe one that      *)
(* extends it, and a fatal one ends the permission (Endpoint::observe).    *)
LEMMA ObserveCounts ==
  ASSUME NEW e, Sound(e), Counts(e), NEW o \in Events, NEW t \in Nat
  PROVE  /\ Counts(Observe(e, o, t))
         /\ ~Accepts(e, o) => Observe(e, o, t) = Expire(e, t)
         /\ Accepts(e, o) =>
              /\ Observe(e, o, t).gen = e.gen /\ Observe(e, o, t).seq = o.seq
              /\ Fatal(o.outcome) => ~Observe(e, o, t).permits
              /\ Running(Observe(e, o, t)) =>
                   /\ o.outcome = "safe" /\ o.recv <= t
                   /\ Extends(Observe(e, o, t), Expire(e, t), o, t)
<1> DEFINE x == Expire(e, t)
           y == [x EXCEPT !.seq = o.seq]
           z == [y EXCEPT !.lastRequest = o.start]
           Good(f) == /\ f \in Endpoints /\ Counts(f) /\ f.gen = e.gen /\ f.seq = o.seq
                      /\ Fatal(o.outcome) => ~f.permits
                      /\ Running(f) => o.outcome = "safe" /\ Extends(f, x, o, t)
<1>1. /\ Sound(x) /\ Counts(x) /\ x.gen = e.gen /\ x.seq = e.seq
  BY ExpireSound, ExpireCounts DEF Sound
<1> HIDE DEF x
<1>2. /\ y \in Endpoints /\ Sound(y) /\ Counts(y) /\ y.gen = x.gen /\ y.seq = o.seq
      /\ y.runStart = x.runStart /\ y.safeCount = x.safeCount
      /\ y.countedSafe = x.countedSafe /\ y.confirmed = x.confirmed
  BY <1>1 DEF Sound, Endpoints, Events, PermitsOK, Counts, Running
<1> HIDE DEF y
<1>3. /\ z \in Endpoints /\ Sound(z) /\ Counts(z) /\ z.gen = x.gen /\ z.seq = o.seq
      /\ z.runStart = x.runStart /\ z.safeCount = x.safeCount
      /\ z.countedSafe = x.countedSafe /\ z.confirmed = x.confirmed
  BY <1>2 DEF Sound, Endpoints, Events, PermitsOK, Times, Counts, Running
<1> HIDE DEF z
<1>4. \A p \in Phases : Good(Withdraw(y, p)) /\ Good(Withdraw(z, p))
  <2> SUFFICES ASSUME NEW p \in Phases PROVE Good(Withdraw(y, p)) /\ Good(Withdraw(z, p))
    OBVIOUS
  <2>1. Withdraw(y, p) \in Endpoints /\ Withdraw(z, p) \in Endpoints
    BY <1>2, <1>3, WithdrawSound DEF Sound
  <2> QED BY <1>1, <1>2, <1>3, <2>1, WithdrawCounts DEF Alive
<1>5. Good(Applied(z, o, t))
  <2> DEFINE a == CASE o.outcome = "safe"   -> OnSafe(z, o, t)
                    [] o.outcome = "unsafe" -> OnUnsafe(z, o)
                    [] o.outcome = "fault"  -> Withdraw(z, "faulted")
                    [] OTHER                -> OnFailure(z, o)
             late == [z EXCEPT !.failures = 0, !.countedFailure = NoTime, !.unsafeCount = 0,
                               !.countedUnsafe = NoTime]
  <2>1. Good(OnSafeTooLate(z))
    <3>1. OnSafeTooLate(z) = Withdraw(late, "stale")
      BY DEF OnSafeTooLate
    <3>2. late \in Endpoints /\ Counts(late) /\ late.gen = z.gen /\ late.seq = z.seq
      BY <1>3 DEF Endpoints, Times, NoTime, Counts, Running
    <3> HIDE DEF late
    <3>3. "stale" \in Phases
      BY DEF Phases
    <3>4. Withdraw(late, "stale") \in Endpoints
      BY <3>2, <3>3, WithdrawSound DEF Sound
    <3> QED BY <1>1, <1>3, <3>1, <3>2, <3>3, <3>4, WithdrawCounts DEF Alive
  <2>2. Good(a)
    <3>1. CASE o.outcome = "safe"
      <4>1. OnSafe(z, o, t) \in Endpoints
        BY <1>3, OnSafeSound DEF Sound
      <4>2. Extends(OnSafe(z, o, t), x, o, t) /\ Counts(OnSafe(z, o, t)) /\ OnSafe(z, o, t).seq = o.seq
        BY <1>3, OnSafeCounts DEF Extends, Running
      <4>3. OnSafe(z, o, t).gen = e.gen
        BY <1>1, <4>2 DEF Extends
      <4> QED BY <3>1, <4>1, <4>2, <4>3 DEF Fatal
    <3>2. CASE o.outcome = "unsafe"
      <4>1. OnUnsafe(z, o) \in Endpoints
        BY <1>3, OnUnsafeSound DEF Sound
      <4> QED BY <1>1, <1>3, <3>2, <4>1, OnUnsafeCounts DEF Fatal
    <3>3. CASE o.outcome = "fault"
      BY <1>4, <3>3 DEF Phases
    <3>4. CASE o.outcome \notin {"safe", "unsafe", "fault"}
      <4>1. OnFailure(z, o) \in Endpoints
        BY <1>3, OnFailureSound DEF Sound
      <4> QED BY <1>1, <1>3, <3>4, <4>1, OnFailureCounts DEF Fatal
    <3> QED BY <3>1, <3>2, <3>3, <3>4
  <2> HIDE DEF a
  <2>3. Good(Expire(a, t))
    BY <2>2, ExpireCounts DEF Alive
  <2>4. Applied(z, o, t) \in {OnSafeTooLate(z), Expire(a, t)}
    BY DEF Applied, a
  <2> QED BY <2>1, <2>3, <2>4
<1>6. Observe(e, o, t) = IF ~Accepts(x, o) THEN x
                         ELSE IF \/ o.start > o.recv \/ o.recv > t
                                 \/ y.lastRequest # NoTime /\ o.start < y.lastRequest
                         THEN Withdraw(y, "faulted") ELSE Applied(z, o, t)
  BY DEF Observe, x, y, z
<1>7. Accepts(x, o) <=> Accepts(e, o)
  BY <1>1 DEF Accepts
<1>8. "faulted" \in Phases
  BY DEF Phases
<1>9. CASE ~Accepts(e, o)
  BY <1>1, <1>6, <1>7, <1>9 DEF x
<1>10. CASE Accepts(e, o) /\ Observe(e, o, t) = Withdraw(y, "faulted")
  <2>1. ~Running(Withdraw(y, "faulted"))
    BY <1>2, <1>8, WithdrawCounts DEF Alive
  <2> QED BY <1>4, <1>8, <1>10, <2>1
<1>11. CASE Accepts(e, o) /\ Observe(e, o, t) = Applied(z, o, t) /\ ~(o.recv > t)
  <2>1. o.recv <= t
    BY <1>11 DEF Events
  <2> QED BY <1>5, <1>11, <2>1 DEF x
<1> QED BY <1>6, <1>7, <1>9, <1>10, <1>11

-----------------------------------------------------------------------------
(* What an operation of the hub leaves of its endpoints                    *)

(* A hub that has seen this epoch, its counters in order.                  *)
Counted(h, D) == HubOK(h, D) /\ \A s \in D : Counts(h.ep[s])

(* The endpoint x of h is that of the hub before, which had seen this      *)
(* epoch, or has neither run nor permission.                               *)
KeptOrGone(h, x) ==
  \/ h.ep[x] = hub.ep[x] /\ hub.epoch = epoch /\ clockValid
  \/ ~Alive(h.ep[x])

(* A hub that meets a new epoch keeps nothing (sync_resume).               *)
LEMMA SyncedCounted ==
  ASSUME SafetyInv, GrantInv
  PROVE  /\ Counted(Synced(hub), DOMAIN hub.ep)
         /\ \A x \in DOMAIN hub.ep : KeptOrGone(Synced(hub), x)
         /\ Settled(Synced(hub)) /\ (Synced(hub).safe => hub.safe)
<1>1. HubOK(Synced(hub), DOMAIN hub.ep)
  BY AskedOK
<1>2. CASE Synced(hub) = hub /\ hub.epoch = epoch /\ clockValid
  BY <1>1, <1>2 DEF GrantInv, Judged, Counted, KeptOrGone
<1>3. CASE Synced(hub) = [ep |-> [s \in DOMAIN hub.ep |-> NewEndpoint(Retired)], safe |-> FALSE,
                          epoch |-> epoch]
  <2>1. Retired \in Generations
    BY DEF Retired, Generations
  <2>2. Counts(NewEndpoint(Retired)) /\ ~Alive(NewEndpoint(Retired))
    BY <2>1, NewEndpointCounts
  <2>3. \A x \in DOMAIN hub.ep : Synced(hub).ep[x] = NewEndpoint(Retired)
    BY <1>3
  <2>4. DOMAIN Synced(hub).ep = DOMAIN hub.ep /\ ~Synced(hub).safe
    BY <1>3
  <2>5. Settled(Synced(hub))
    BY <2>2, <2>3, <2>4 DEF Settled, Earns, Alive
  <2> QED BY <1>1, <2>2, <2>3, <2>4, <2>5 DEF Counted, KeptOrGone
<1> QED BY <1>2, <1>3 DEF Synced

(* A look at the hub lets endpoints expire, and gives permission only when *)
(* all of them have earned it (snapshot).                                  *)
LEMMA SnapshotCounted ==
  ASSUME NEW h, NEW D, Counted(h, D), now \in Nat
  PROVE  /\ Counted(Snapshot(h), D)
         /\ \A x \in D : Snapshot(h).ep[x] = Expire(h.ep[x], now)
         /\ \A x \in D : Snapshot(h).ep[x] = h.ep[x] \/ ~Alive(Snapshot(h).ep[x])
         /\ Settled(Snapshot(h))
         /\ Snapshot(h).safe =>
              /\ D # {} /\ \A x \in D : Snapshot(h).ep[x].permits
              /\ h.safe \/ \A x \in D : Earns(Snapshot(h).ep[x])
<1> DEFINE eps == [s \in D |-> Expire(h.ep[s], now)]
           safe == Aggregate(h.safe, eps)
           k == [h EXCEPT !.ep = eps, !.safe = safe]
<1>1. Snapshot(h) = k /\ HubOK(k, D)
  <2>1. Snapshot(h) = k
    BY DEF Snapshot, HubOK, Counted
  <2>2. HubOK(Snapshot(h), D)
    BY SnapshotOK DEF Counted
  <2> QED BY <2>1, <2>2
<1>2. ASSUME NEW s \in D
      PROVE  /\ eps[s] \in Endpoints /\ Counts(eps[s])
             /\ eps[s] = h.ep[s] \/ ~Alive(eps[s])
  BY ExpireCounts DEF Counted, HubOK
<1>3. k.ep = eps /\ DOMAIN eps = D
  BY DEF Counted, HubOK
<1>4. k.safe = safe
  BY DEF Counted, HubOK
<1>5. safe <=> /\ D # {} /\ \A s \in D : eps[s].permits
               /\ h.safe \/ \A s \in D : eps[s].phase = "freshSafe" /\ eps[s].confirmed
  BY <1>3, Zenon DEF Aggregate
<1>6. \A s \in D : k.ep[s] = Expire(h.ep[s], now)
  BY <1>3
<1>7. \A s \in D : k.ep[s] = eps[s]
  BY <1>3
<1> HIDE DEF eps, safe, k
<1>8. Settled(k)
  <2>1. k.safe => D # {} /\ \A s \in D : k.ep[s].permits
    BY <1>4, <1>5, <1>7, Zenon
  <2>2. ASSUME ~k.safe, D # {}, \A s \in D : Earns(k.ep[s]) PROVE FALSE
    <3>1. \A s \in D : eps[s].permits /\ eps[s].phase = "freshSafe" /\ eps[s].confirmed
      BY <1>7, <2>2 DEF Earns
    <3> QED BY <1>4, <1>5, <2>2, <3>1, Zenon
  <2>3. DOMAIN k.ep = D
    BY <1>3
  <2> QED BY <2>1, <2>2, <2>3, Zenon DEF Settled
<1>9. ASSUME k.safe, ~h.safe, NEW x \in D PROVE Earns(k.ep[x])
  <2>1. eps[x].permits /\ eps[x].phase = "freshSafe" /\ eps[x].confirmed
    BY <1>4, <1>5, <1>9, Zenon
  <2> QED BY <1>7, <2>1 DEF Earns
<1>10. k.safe => D # {} /\ \A s \in D : k.ep[s].permits
  BY <1>4, <1>5, <1>7, Zenon
<1>11. Counted(k, D)
  BY <1>1, <1>2, <1>7 DEF Counted
<1>12. \A x \in D : k.ep[x] = h.ep[x] \/ ~Alive(k.ep[x])
  BY <1>2, <1>7
<1>13. k.safe => h.safe \/ \A x \in D : Earns(k.ep[x])
  BY <1>9
<1> QED BY <1>1, <1>6, <1>8, <1>10, <1>11, <1>12, <1>13

(* A reset leaves its source without run and permission (reset_source).    *)
LEMMA ResetCounted ==
  ASSUME SafetyInv, NEW h, NEW D, Counted(h, D), D \subseteq Sources, NEW s, NEW g \in Generations
  PROVE  /\ Counted(ResetSource(h, s, g), D)
         /\ \A x \in D : ResetSource(h, s, g).ep[x] = h.ep[x] \/ ~Alive(ResetSource(h, s, g).ep[x])
         /\ s \in D => ~Alive(ResetSource(h, s, g).ep[s])
         /\ ResetSource(h, s, g).safe => h.safe
<1>1. proof \in [Sources -> Times]
  BY InvParts DEF SourcePart
<1>2. HubOK(ResetSource(h, s, g), D)
  BY <1>1, ResetSourceOK DEF Counted
<1>3. CASE s \notin D
  BY <1>3 DEF ResetSource, HubOK, Counted
<1>4. CASE s \in D
  <2>1. Counts(NewEndpoint(g)) /\ ~Alive(NewEndpoint(g))
    BY NewEndpointCounts
  <2>2. ResetSource(h, s, g) = [h EXCEPT !.ep[s] = NewEndpoint(g), !.safe = FALSE]
    BY <1>4 DEF ResetSource, HubOK, Counted
  <2>3. /\ ResetSource(h, s, g).ep = [h.ep EXCEPT ![s] = NewEndpoint(g)]
        /\ ~ResetSource(h, s, g).safe
    BY <2>2 DEF HubOK, Counted
  <2>4. \A x \in D : ResetSource(h, s, g).ep[x] = IF x = s THEN NewEndpoint(g) ELSE h.ep[x]
    BY <2>3 DEF HubOK, Counted
  <2> QED BY <1>2, <1>4, <2>1, <2>3, <2>4 DEF Counted
<1> QED BY <1>3, <1>4

(* What another look at the hub leaves, and when it gives permission.      *)
LEMMA LookEffect ==
  ASSUME SafetyInv, GrantInv, NEW h, Counted(h, DOMAIN hub.ep),
         \A x \in DOMAIN hub.ep : KeptOrGone(h, x), HubIs(Snapshot(h))
  PROVE  /\ Settled(hub')
         /\ DOMAIN hub'.ep = DOMAIN hub.ep /\ hub'.epoch = epoch
         /\ \A x \in DOMAIN hub.ep :
              /\ Counts(hub'.ep[x]) /\ KeptOrGone(hub', x)
              /\ Running(hub'.ep[x]) => run'[x] = run[x]
              /\ ~Alive(h.ep[x]) => ~Alive(hub'.ep[x])
         /\ hub'.safe => h.safe \/ \A x \in DOMAIN hub.ep : Earns(hub'.ep[x])
<1> DEFINE D == DOMAIN hub.ep
<1>1. now \in Nat /\ D \subseteq Sources
  BY InvParts, AskedOK DEF HostPart
<1>2. hub' = Snapshot(h)
  BY DEF HubIs
<1>3. /\ Counted(hub', D) /\ Settled(hub')
      /\ \A x \in D : hub'.ep[x] = h.ep[x] \/ ~Alive(hub'.ep[x])
      /\ hub'.safe => h.safe \/ \A x \in D : Earns(hub'.ep[x])
  BY <1>1, <1>2, SnapshotCounted
<1>4. DOMAIN hub'.ep = D /\ hub'.epoch = epoch
  BY <1>3 DEF Counted, HubOK
<1>5. ASSUME NEW x \in D PROVE Running(hub'.ep[x]) => run'[x] = run[x]
  BY <1>1, <1>2, <1>4 DEF HubIs, Running
<1> QED BY <1>3, <1>4, <1>5 DEF Counted, KeptOrGone

(* What the delivery of an event leaves (RuntimeObserve): the endpoint has *)
(* accepted it, or it has neither run nor permission.                      *)
LEMMA DeliverEffect ==
  ASSUME SafetyInv, GrantInv, NEW s \in Sources, Deliver(s)
  PROVE  /\ Settled(hub')
         /\ DOMAIN hub'.ep = DOMAIN hub.ep /\ hub'.epoch = epoch
         /\ \A x \in DOMAIN hub.ep : Counts(hub'.ep[x])
         /\ \A x \in DOMAIN hub.ep \ {s} :
              KeptOrGone(hub', x) /\ (Running(hub'.ep[x]) => run'[x] = run[x])
         /\ s \in DOMAIN hub.ep /\ Alive(hub'.ep[s]) =>
              /\ hub'.ep[s].gen = con[s].event.gen /\ hub'.ep[s].seq = con[s].event.seq
              /\ Fatal(con[s].event.outcome) => ~hub'.ep[s].permits
              /\ Running(hub'.ep[s]) =>
                   /\ con[s].event.outcome = "safe" /\ con[s].event.recv <= now
                   /\ \E x \in Endpoints :
                        /\ Extends(hub'.ep[s], x, con[s].event, now)
                        /\ Running(x) => x = hub.ep[s] /\ run'[s] = [run[s] EXCEPT !.bad = con[s].event.bad]
                        /\ ~Running(x) => /\ Counts(x)
                                          /\ run'[s] = [seq |-> con[s].event.seq, start |-> con[s].event.start,
                                                        recv |-> con[s].event.recv, bad |-> con[s].event.bad]
         /\ ~hub.safe /\ hub'.safe => \A x \in DOMAIN hub.ep : hub'.ep[x].confirmed
<1> DEFINE D == DOMAIN hub.ep
           o == con[s].event
           y == Synced(hub)
           b == Snapshot(y)
           f == Observe(b.ep[s], o, now)
           k == [b EXCEPT !.ep[s] = f]
           observed == con[s].epoch = y.epoch /\ clockValid
           h == IF observed THEN Snapshot(IF s \in D THEN k ELSE b) ELSE y
<1>1. now \in Nat /\ D \subseteq Sources /\ o \in Events
  BY InvParts, AskedOK DEF HostPart, TaskPart, ConsumeTasks
<1>2. /\ Counted(y, D) /\ \A x \in D : KeptOrGone(y, x)
      /\ Settled(y) /\ (y.safe => hub.safe) /\ y.epoch = epoch
  BY SyncedCounted DEF Counted, HubOK
<1>3. /\ Counted(b, D) /\ \A x \in D : KeptOrGone(b, x)
      /\ b.safe => y.safe \/ \A x \in D : Earns(b.ep[x])
      /\ \A x \in D : b.ep[x] = y.ep[x] \/ ~Alive(b.ep[x])
      /\ \A x \in D : Expire(b.ep[x], now) = b.ep[x]
      /\ b.safe => D # {} /\ \A x \in D : b.ep[x].permits
  <2> HIDE DEF y
  <2>1. ASSUME NEW x \in D PROVE Expire(b.ep[x], now) = b.ep[x]
    <3>1. y.ep[x] \in Endpoints /\ Counts(y.ep[x])
      BY <1>2 DEF Counted, HubOK
    <3>2. b.ep[x] = Expire(y.ep[x], now)
      BY <1>1, <1>2, SnapshotCounted
    <3> HIDE DEF b
    <3> QED BY <1>1, <3>1, <3>2, ExpireCounts
  <2> QED BY <1>1, <1>2, <2>1, SnapshotCounted DEF KeptOrGone
<1>4. b.safe => y.safe
  <2>1. ASSUME b.safe, ~y.safe PROVE FALSE
    <3>1. D # {} /\ DOMAIN y.ep = D
      BY <1>2, <1>3, <2>1 DEF Counted, HubOK
    <3>2. PICK x \in D : ~Earns(y.ep[x])
      BY <1>2, <2>1, <3>1 DEF Settled
    <3>3. Earns(b.ep[x])
      BY <1>3, <2>1
    <3>4. Alive(b.ep[x])
      BY <3>3 DEF Earns, Alive
    <3> QED BY <1>3, <3>2, <3>3, <3>4
  <2> QED BY <2>1
<1>5. hub' = Snapshot(h)
  BY <1>2, <1>3 DEF Deliver, RuntimeObserve, HubObserve, Counted, HubOK
<1>6. ~Alive(b.ep[s]) \/ s \notin D \/ (observed /\ Accepts(b.ep[s], o) /\ b.ep[s] = hub.ep[s])
  <2>1. SUFFICES ASSUME s \in D, Alive(b.ep[s])
                 PROVE observed /\ Accepts(b.ep[s], o) /\ b.ep[s] = hub.ep[s]
    OBVIOUS
  <2>2. b.ep[s] = hub.ep[s] /\ hub.epoch = epoch /\ clockValid
    BY <1>3, <2>1 DEF KeptOrGone
  <2>3. con[s].pc = "deliver" /\ AliveInv(s) /\ HandInv(s)
    BY <2>1, <1>1 DEF Deliver, GrantInv, Judged, Chain
  <2>4. hub.ep[s].gen = con[s].gen /\ hub.ep[s].seq < con[s].mark /\ con[s].epoch = epoch
    BY <2>1, <2>2, <2>3 DEF AliveInv
  <2>5. o.gen = con[s].gen /\ o.seq = con[s].mark
    BY <2>3 DEF HandInv, InHand
  <2>6. Accepts(b.ep[s], o)
    <3>1. hub.ep[s].seq \in Nat /\ con[s].mark \in Nat
      BY <2>1, <1>1, InvParts DEF HubPart, Hubs, Endpoints, TaskPart, ConsumeTasks
    <3> QED BY <2>2, <2>4, <2>5, <3>1 DEF Accepts
  <2> QED BY <1>2, <2>2, <2>4, <2>6
<1> HIDE DEF y
<1>7. ASSUME s \in D, observed
      PROVE  /\ Counted(k, D) /\ k.safe = b.safe
             /\ k.ep[s] = f /\ \A x \in D \ {s} : k.ep[x] = b.ep[x]
  <2>1. Sound(b.ep[s]) /\ Counts(b.ep[s])
    BY <1>3, <1>7 DEF Counted, HubOK, Sound
  <2>2. Sound(f) /\ Counts(f)
    BY <1>1, <2>1, ObserveSound, ObserveCounts
  <2>3. f.lastSafe = b.ep[s].lastSafe \/ (o.outcome = "safe" /\ f.lastSafe = o.start)
    BY <1>1, <2>1, ObserveSound
  <2>4. o.outcome = "safe" => o.start <= proof[s]
    BY <1>2, <1>7, InvParts DEF Flow, HandOK
  <2> HIDE DEF f, b
  <2>5. f.lastSafe <= proof[s]
    BY <1>3, <1>7, <2>3, <2>4 DEF Counted, HubOK
  <2>6. /\ k.ep = [b.ep EXCEPT ![s] = f] /\ k.safe = b.safe /\ k.epoch = b.epoch
        /\ k \in [ep : [D -> Endpoints], safe : BOOLEAN, epoch : Nat]
    BY <1>3, <1>7, <2>2 DEF Counted, HubOK, Sound
  <2>7. k.ep[s] = f /\ \A x \in D \ {s} : k.ep[x] = b.ep[x]
    BY <1>3, <1>7, <2>6 DEF Counted, HubOK
  <2> QED BY <1>3, <1>7, <2>2, <2>5, <2>6, <2>7 DEF Counted, HubOK, Sound
<1> DEFINE k2 == IF s \in D THEN k ELSE b
           c == Snapshot(k2)
<1>8. ASSUME observed
      PROVE  /\ Counted(c, D) /\ (c.safe => b.safe \/ \A x \in D : Earns(c.ep[x]))
             /\ \A x \in D \ {s} : c.ep[x] = b.ep[x] \/ ~Alive(c.ep[x])
             /\ s \in D => c.ep[s] = f \/ ~Alive(c.ep[s])
  <2>1. /\ Counted(k2, D) /\ k2.safe = b.safe
        /\ \A x \in D \ {s} : k2.ep[x] = b.ep[x]
        /\ s \in D => k2.ep[s] = f
    BY <1>3, <1>7, <1>8
  <2> HIDE DEF k2, b, f
  <2> QED BY <1>1, <2>1, SnapshotCounted
<1>9. /\ Counted(h, D)
      /\ \A x \in D \ {s} : KeptOrGone(h, x)
      /\ ~observed => h = y
      /\ s \in D => \/ observed /\ h.ep[s] = f
                    \/ ~Alive(h.ep[s])
                    \/ ~observed /\ h.ep[s] = y.ep[s]
  <2>1. h = IF observed THEN c ELSE y
    OBVIOUS
  <2>2. ASSUME observed, NEW x \in D \ {s} PROVE KeptOrGone(c, x)
    <3>1. KeptOrGone(b, x) /\ (c.ep[x] = b.ep[x] \/ ~Alive(c.ep[x]))
      BY <1>3, <1>8, <2>2
    <3> HIDE DEF c, b, h
    <3> QED BY <3>1 DEF KeptOrGone
  <2> HIDE DEF h, observed, c, b, f
  <2>3. CASE observed
    <3>1. h = c
      BY <2>1, <2>3
    <3>2. Counted(c, D) /\ (s \in D => c.ep[s] = f \/ ~Alive(c.ep[s]))
      BY <1>8, <2>3
    <3>3. \A x \in D \ {s} : KeptOrGone(c, x)
      BY <2>2, <2>3
    <3> HIDE DEF D, o
    <3> QED BY <2>3, <3>1, <3>2, <3>3, Zenon
  <2>4. CASE ~observed
    BY <1>2, <2>1, <2>4
  <2> QED BY <2>3, <2>4
<1>10. /\ Counted(hub', D) /\ Settled(hub') /\ DOMAIN hub'.ep = D /\ hub'.epoch = epoch
       /\ \A x \in D : hub'.ep[x] = h.ep[x] \/ ~Alive(hub'.ep[x])
       /\ hub'.safe => /\ h.safe \/ \A x \in D : Earns(hub'.ep[x])
                       /\ \A x \in D : hub'.ep[x].permits
  <2> HIDE DEF h
  <2>1. Counted(hub', D)
    BY <1>1, <1>5, <1>9, SnapshotCounted
  <2> QED BY <1>1, <1>5, <1>9, <2>1, SnapshotCounted DEF Counted, HubOK
<1>11. ASSUME NEW x \in D \ {s}
       PROVE  KeptOrGone(hub', x) /\ (Running(hub'.ep[x]) => run'[x] = run[x])
  <2>1. KeptOrGone(hub', x)
    BY <1>9, <1>10 DEF KeptOrGone
  <2>2. Running(hub'.ep[x]) => run'[x] = run[x]
    <3>1. hub' = RuntimeObserve(hub, s, o, con[s].epoch) /\ x \in Sources /\ x # s
      BY <1>1 DEF Deliver
    <3> QED BY <1>10, <3>1, Zenon DEF Deliver, Running
  <2> QED BY <2>1, <2>2
<1>12. ASSUME s \in D, Alive(hub'.ep[s])
       PROVE  observed /\ hub'.ep[s] = f /\ Accepts(b.ep[s], o) /\ Sound(b.ep[s]) /\ Counts(b.ep[s])
  <2>1. Sound(b.ep[s]) /\ Counts(b.ep[s])
    BY <1>3, <1>12 DEF Counted, HubOK, Sound
  <2>2. hub'.ep[s] = h.ep[s]
    BY <1>10, <1>12
  <2>3. CASE observed /\ h.ep[s] = f
    <3>1. ~Accepts(b.ep[s], o) => f = b.ep[s]
      BY <1>1, <1>3, <1>12, <2>1, ObserveCounts
    <3> QED BY <1>6, <1>12, <2>1, <2>2, <2>3, <3>1
  <2>4. CASE ~observed /\ h.ep[s] = y.ep[s]
    <3>1. hub' = b
      BY <1>5, <1>9, <2>4
    <3> QED BY <1>6, <1>12, <2>4, <3>1
  <2> QED BY <1>9, <1>12, <2>2, <2>3, <2>4
<1>13. ASSUME s \in D, Alive(hub'.ep[s])
       PROVE  /\ hub'.ep[s].gen = o.gen /\ hub'.ep[s].seq = o.seq
              /\ Fatal(o.outcome) => ~hub'.ep[s].permits
              /\ Running(hub'.ep[s]) =>
                   /\ o.outcome = "safe" /\ o.recv <= now
                   /\ \E x \in Endpoints :
                        /\ Extends(hub'.ep[s], x, o, now)
                        /\ Running(x) => x = hub.ep[s] /\ run'[s] = [run[s] EXCEPT !.bad = o.bad]
                        /\ ~Running(x) => /\ Counts(x)
                                          /\ run'[s] = [seq |-> o.seq, start |-> o.start,
                                                        recv |-> o.recv, bad |-> o.bad]
  <2>1. /\ f.gen = b.ep[s].gen /\ f.seq = o.seq
        /\ Fatal(o.outcome) => ~f.permits
        /\ Running(f) => /\ o.outcome = "safe" /\ o.recv <= now
                         /\ Extends(f, Expire(b.ep[s], now), o, now)
    BY <1>1, <1>12, <1>13, ObserveCounts
  <2>2. Expire(b.ep[s], now) = b.ep[s] /\ b.ep[s] \in Endpoints
    BY <1>3, <1>12, <1>13 DEF Sound
  <2>3. Running(b.ep[s]) => b.ep[s] = hub.ep[s]
    BY <1>6, <1>13 DEF Alive
  <2>4. Running(hub'.ep[s]) =>
          run'[s] = IF ~Running(b.ep[s]) THEN [seq |-> o.seq, start |-> o.start, recv |-> o.recv, bad |-> o.bad]
                    ELSE IF hub'.ep[s].seq = o.seq THEN [run[s] EXCEPT !.bad = o.bad] ELSE run[s]
    <3>1. hub' = RuntimeObserve(hub, s, o, con[s].epoch)
      BY DEF Deliver
    <3> QED BY <1>10, <1>13, <3>1, Zenon DEF Deliver, Running, y
  <2> HIDE DEF f, b
  <2>5. hub'.ep[s] = f /\ b.ep[s].gen = o.gen /\ Counts(b.ep[s])
    BY <1>12, <1>13 DEF Accepts
  <2> QED BY <2>1, <2>2, <2>3, <2>4, <2>5
<1>14. ASSUME ~hub.safe, hub'.safe, NEW x \in D PROVE hub'.ep[x].confirmed
  <2>1. ~b.safe /\ ~y.safe
    BY <1>2, <1>4, <1>14
  <2>2. CASE ~h.safe
    BY <1>10, <1>14, <2>2 DEF Earns
  <2>3. CASE h.safe
    <3>1. observed /\ h = c
      BY <1>9, <2>1, <2>3
    <3>2. Earns(h.ep[x])
      BY <1>8, <2>1, <2>3, <3>1
    <3>3. hub'.ep[x] = h.ep[x]
      BY <1>10, <1>14 DEF Alive
    <3> QED BY <3>2, <3>3 DEF Earns
  <2> QED BY <2>2, <2>3
<1>15. \A x \in D : Counts(hub'.ep[x])
  BY <1>10 DEF Counted
<1> HIDE DEF o, b, f, h, observed
<1> QED BY <1>10, <1>11, <1>13, <1>14, <1>15 DEF o


-----------------------------------------------------------------------------
(* What a step leaves alone                                                *)

(* An endpoint without run and permission needs no history.                *)
LEMMA GoneJudged ==
  ASSUME NEW x, Counts(hub'.ep[x]), ~Alive(hub'.ep[x])
  PROVE  Judged(x)'
BY DEF Judged, AliveInv, RunInv, HeardInv, Counts, Alive, Running

(* Time alone disturbs nothing of an endpoint.                             *)
LEMMA KeptJudged ==
  ASSUME SafetyInv, NEW x \in DOMAIN hub.ep, Judged(x), hub'.ep[x] = hub.ep[x],
         hub.epoch = epoch \/ hub'.epoch = hub.epoch,
         Running(hub.ep[x]) => run'[x] = run[x],
         UNCHANGED <<epoch, clockValid>>, now' \in Nat, now <= now',
         con'[x] = con[x], ring'[x] = ring[x], last'[x] = last[x],
         src'[x].gen = src[x].gen, src'[x].seq = src[x].seq, src'[x].bad = src[x].bad,
         src'[x].epoch = src[x].epoch, src'[x].sending = src[x].sending
  PROVE  Judged(x)'
<1>1. now \in Nat /\ run[x] \in Runs /\ x \in Sources
  BY InvParts, AskedOK DEF HostPart, TaskPart
<1>2. AliveInv(x)'
  BY DEF Judged, AliveInv, Alive, Running
<1>3. RunInv(x)'
  <2>1. ASSUME Running(hub.ep[x]), now - run[x].recv >= Hold
        PROVE now' - run[x].recv >= Hold
    <3>1. Hold \in Nat /\ run[x].recv \in Nat
      BY <1>1, PolicyAssumption DEF Runs
    <3> QED BY <1>1, <2>1, <3>1
  <2>2. run[x].recv \in Nat
    BY <1>1 DEF Runs
  <2>3. ASSUME Running(hub.ep[x]), RunUnbroken(x) PROVE RunUnbroken(x)'
    BY <2>3 DEF RunUnbroken, Continues, Sending
  <2>4. ASSUME Running(hub.ep[x]), run[x].recv <= now PROVE run[x].recv <= now'
    BY <1>1, <2>2, <2>4
  <2> QED BY <2>1, <2>3, <2>4 DEF Judged, RunInv, Running
<1>4. HeardInv(x)'
  BY DEF Judged, HeardInv, Current, Fatal
<1> QED BY <1>2, <1>3, <1>4 DEF Judged, Counts, Running

(* An operation of the hub keeps an endpoint as it was, or empties it.     *)
LEMMA KeptOrGoneJudged ==
  ASSUME SafetyInv, GrantInv, NEW x \in DOMAIN hub.ep, KeptOrGone(hub', x), Counts(hub'.ep[x]),
         Running(hub'.ep[x]) => run'[x] = run[x],
         UNCHANGED <<hostVars, srcVars>>, con'[x] = con[x]
  PROVE  Judged(x)'
<1>1. CASE ~Alive(hub'.ep[x])
  BY <1>1, GoneJudged
<1>2. CASE hub'.ep[x] = hub.ep[x] /\ hub.epoch = epoch
  <2>1. now \in Nat /\ now <= now
    BY InvParts DEF HostPart
  <2> QED BY <1>2, <2>1, KeptJudged DEF GrantInv, hostVars, srcVars
<1> QED BY <1>1, <1>2 DEF KeptOrGone

(* A chain that nobody touches stays.                                      *)
LEMMA ChainFrame ==
  ASSUME SafetyInv, NEW x \in Sources, Chain(x),
         UNCHANGED <<epoch, clockValid>>, fresh' \in Nat, fresh <= fresh',
         con'[x] = con[x], ring'[x] = ring[x], last'[x] = last[x], lagged'[x] = lagged[x],
         news'[x] = news[x], OneEvent(x)',
         src'[x].gen = src[x].gen, src'[x].seq = src[x].seq, src'[x].bad = src[x].bad,
         src'[x].epoch = src[x].epoch, src'[x].sending = src[x].sending
  PROVE  Chain(x)'
<1>1. fresh \in Nat /\ con[x].gen \in Seq(Nat)
  BY InvParts DEF HostPart, TaskPart, ConsumeTasks, Generations
<1>2. Current(x)' = Current(x) /\ Sending(x)' = Sending(x)
  BY DEF Current, Sending
<1>3. StreamInv(x)'
  BY <1>2 DEF Chain, StreamInv, Reached, Sending
<1>4. NothingMissed(x)'
  <2>1. Seen(x)' = Seen(x) /\ \A q : Arriving(x, q)' = Arriving(x, q)
    BY <1>2 DEF Seen, Arriving
  <2> QED BY <1>2, <2>1 DEF Chain, NothingMissed
<1>5. ASSUME Len(con[x].gen) > 0, con[x].gen[1] < fresh PROVE con[x].gen[1] < fresh'
  BY <1>1, <1>5
<1>6. KnowsGeneration(x)'
  BY <1>2, <1>5 DEF Chain, KnowsGeneration
<1>7. LooksAgain(x)'
  BY <1>2 DEF Chain, LooksAgain
<1>8. Known(x, con[x].gen) => Known(x, con[x].gen)'
  BY <1>5 DEF Known
<1>9. HandInv(x)'
  <2>1. Reached(x, con[x].event)' = Reached(x, con[x].event)
    BY DEF Reached
  <2> QED BY <1>2, <1>8, <2>1 DEF Chain, HandInv
<1> QED BY <1>3, <1>4, <1>6, <1>7, <1>9 DEF Chain

(* A step of one source or its task, outside the hub.                      *)
LEMMA ActorGrant ==
  ASSUME SafetyInv, GrantInv, NEW s \in Sources,
         UNCHANGED <<hostVars, hub, run>>, fresh' \in Nat, fresh <= fresh',
         \A x \in Sources \ {s} :
           /\ src'[x] = src[x] /\ ring'[x] = ring[x] /\ lagged'[x] = lagged[x]
           /\ last'[x] = last[x] /\ news'[x] = news[x] /\ con'[x] = con[x],
         Chain(s)', s \in DOMAIN hub.ep => Judged(s)'
  PROVE  GrantInv'
<1>1. now \in Nat /\ now <= now' /\ UNCHANGED <<now, epoch, clockValid, hub, run>>
  BY InvParts DEF HostPart, hostVars
<1>2. ASSUME NEW x \in Sources PROVE Chain(x)'
  <2>1. ASSUME x # s PROVE Chain(x)'
    <3>1. Chain(x) /\ src'[x] = src[x]
      BY <2>1 DEF GrantInv
    <3>2. OneEvent(x)'
      BY <3>1 DEF Chain, OneEvent, Sending
    <3> QED BY <1>1, <2>1, <3>1, <3>2, ChainFrame
  <2> QED BY <2>1
<1>3. ASSUME NEW x \in DOMAIN hub.ep PROVE Judged(x)'
  <2>1. ASSUME x # s PROVE Judged(x)'
    <3>1. Judged(x) /\ x \in Sources
      BY AskedOK DEF GrantInv
    <3> QED BY <1>1, <2>1, <3>1, KeptJudged
  <2> QED BY <2>1
<1>4. Settled(hub)'
  BY <1>1 DEF GrantInv
<1> QED BY <1>1, <1>2, <1>3, <1>4 DEF GrantInv

(* An operation of the hub, of the tasks T or of nobody.                   *)
LEMMA HubGrant ==
  ASSUME SafetyInv, GrantInv, NEW T,
         UNCHANGED <<hostVars, srcVars, news>>,
         Settled(hub'), DOMAIN hub'.ep = DOMAIN hub.ep,
         \A x \in DOMAIN hub.ep \ T :
           /\ KeptOrGone(hub', x) /\ Counts(hub'.ep[x])
           /\ Running(hub'.ep[x]) => run'[x] = run[x],
         \A x \in Sources \ T : con'[x] = con[x],
         \A x \in T : Chain(x)' /\ (x \in DOMAIN hub.ep => Judged(x)')
  PROVE  GrantInv'
<1>1. fresh \in Nat /\ fresh <= fresh' /\ UNCHANGED <<epoch, clockValid, src, ring, lagged, fresh, last>>
  BY InvParts DEF HostPart, hostVars, srcVars
<1>2. ASSUME NEW x \in Sources PROVE Chain(x)'
  <2>1. ASSUME x \notin T PROVE Chain(x)'
    <3>1. Chain(x)
      BY DEF GrantInv
    <3>2. OneEvent(x)'
      BY <1>1, <3>1 DEF Chain, OneEvent, Sending
    <3> QED BY <1>1, <2>1, <3>1, <3>2, ChainFrame
  <2> QED BY <2>1
<1>3. ASSUME NEW x \in DOMAIN hub.ep PROVE Judged(x)'
  <2>1. ASSUME x \notin T PROVE Judged(x)'
    <3>1. x \in Sources
      BY AskedOK
    <3> QED BY <2>1, <3>1, KeptOrGoneJudged
  <2> QED BY <2>1
<1>4. Settled(hub)'
  BY Zenon DEF Settled, Earns
<1> QED BY <1>2, <1>3, <1>4 DEF GrantInv

(* Time passes.                                                            *)
LEMMA TickGrant == SafetyInv /\ GrantInv /\ Tick => GrantInv'
<1> SUFFICES ASSUME SafetyInv, GrantInv, Tick PROVE GrantInv'
  OBVIOUS
<1>1. /\ now \in Nat /\ now' \in Nat /\ now <= now' /\ fresh' \in Nat /\ fresh <= fresh'
      /\ UNCHANGED <<epoch, clockValid, hub, src, ring, lagged, fresh, last, news, con, run>>
  BY InvParts DEF HostPart, Tick, srcVars
<1>2. ASSUME NEW x \in Sources PROVE Chain(x)'
  <2>1. Chain(x)
    BY DEF GrantInv
  <2>2. OneEvent(x)'
    BY <1>1, <2>1 DEF Chain, OneEvent, Sending
  <2> QED BY <1>1, <2>1, <2>2, ChainFrame
<1>3. ASSUME NEW x \in DOMAIN hub.ep PROVE Judged(x)'
  BY <1>1, KeptJudged DEF GrantInv
<1>4. Settled(hub)'
  BY <1>1 DEF GrantInv
<1> QED BY <1>1, <1>2, <1>3, <1>4 DEF GrantInv

(* A resume makes what everybody knows old, until they have noticed.       *)
LEMMA ResumeGrant == SafetyInv /\ GrantInv /\ Resume => GrantInv'
<1> SUFFICES ASSUME SafetyInv, GrantInv, Resume PROVE GrantInv'
  OBVIOUS
<1>1. /\ epoch \in Nat /\ epoch' = epoch + 1 /\ hub.epoch \in Nat /\ hub.epoch <= epoch
      /\ UNCHANGED <<now, hub, src, ring, lagged, fresh, last, news, con, run>>
  BY InvParts DEF HostPart, HubPart, Hubs, Resume
<1>2. hub.epoch # epoch'
  BY <1>1
<1>3. ASSUME NEW x \in Sources PROVE ~Current(x)'
  <2>1. src[x].epoch \in Nat /\ src[x].epoch <= epoch
    BY InvParts DEF SourcePart, SourceStates, Flow, SourceOK
  <2>2. src[x].epoch # epoch'
    BY <1>1, <2>1
  <2> QED BY <1>1, <2>2 DEF Current
<1>4. ASSUME NEW x \in Sources PROVE Chain(x)'
  <2>1. Chain(x)
    BY DEF GrantInv
  <2>2. StreamInv(x)' /\ OneEvent(x)'
    BY <1>1, <2>1 DEF Chain, StreamInv, OneEvent, Reached, Sending
  <2>3. NothingMissed(x)' /\ LooksAgain(x)'
    BY <1>3 DEF NothingMissed, LooksAgain
  <2>4. KnowsGeneration(x)'
    BY <1>1, <1>3, <2>1 DEF Chain, KnowsGeneration
  <2>5. HandInv(x)'
    BY <1>1, <2>1 DEF Chain, HandInv, Known, Reached, Sending
  <2> QED BY <2>2, <2>3, <2>4, <2>5 DEF Chain
<1>5. ASSUME NEW x \in DOMAIN hub.ep PROVE Judged(x)'
  <2>1. Judged(x) /\ x \in Sources
    BY AskedOK DEF GrantInv
  <2>2. AliveInv(x)'
    BY <1>1, <1>2, <2>1 DEF Judged, AliveInv, Alive, Running
  <2>3. RunInv(x)'
    BY <1>1, <2>1 DEF Judged, RunInv, RunUnbroken, Continues, Sending, Running
  <2>4. HeardInv(x)'
    BY <1>3, <2>1 DEF HeardInv
  <2> QED BY <1>1, <2>1, <2>2, <2>3, <2>4 DEF Judged, Counts, Running
<1>6. Settled(hub)'
  BY <1>1 DEF GrantInv
<1> QED BY <1>1, <1>4, <1>5, <1>6 DEF GrantInv

-----------------------------------------------------------------------------
(* A source changes its generation                                         *)

(* A new generation is none that anybody knows.                            *)
LEMMA GenerationIsNew ==
  ASSUME SafetyInv, NEW s \in Sources, NEW g \in Generations, Known(s, g),
         fresh' \in Nat, fresh <= fresh',
         \/ src'[s].gen = <<fresh>>
         \/ src'[s].gen = Append(src[s].gen, epoch)
  PROVE  g # src'[s].gen /\ Known(s, g)'
<1>1. /\ fresh \in Nat /\ epoch \in Nat
      /\ src[s].gen \in Seq(Nat) /\ Len(src[s].gen) > 0 /\ src[s].gen[1] < fresh
  BY InvParts DEF HostPart, SourcePart, SourceStates, Generations, Flow, SourceOK
<1>2. g \in Seq(Nat) /\ Len(g) > 0 /\ g[1] \in Nat /\ g[1] < fresh
  BY DEF Known, Generations
<1>3. CASE src'[s].gen = <<fresh>>
  <2>1. src'[s].gen[1] = fresh
    BY <1>3
  <2>2. g[1] # src'[s].gen[1] /\ g[1] < fresh'
    BY <1>1, <1>2, <2>1
  <2> QED BY <1>2, <2>2 DEF Known
<1>4. CASE src'[s].gen = Append(src[s].gen, epoch)
  <2>1. src'[s].gen[1] = src[s].gen[1] /\ Len(src'[s].gen) = Len(src[s].gen) + 1
    BY <1>1, <1>4
  <2>2. g[1] = src[s].gen[1] => Len(g) <= Len(src[s].gen)
    BY DEF Known
  <2>3. g[1] = src'[s].gen[1] => Len(g) < Len(src'[s].gen)
    BY <1>1, <1>2, <2>1, <2>2
  <2>4. g # src'[s].gen
    BY <1>1, <1>2, <2>1, <2>3
  <2>5. g[1] < fresh' /\ (g[1] = src'[s].gen[1] => Len(g) <= Len(src'[s].gen))
    BY <1>1, <1>2, <2>1, <2>3
  <2> QED BY <1>2, <2>4, <2>5 DEF Known
<1> QED BY <1>3, <1>4

(* What has been sent is of a generation that the source has or had.       *)
LEMMA SentIsKnown ==
  ASSUME SafetyInv, NEW s \in Sources
  PROVE  /\ Sending(s) => src[s].sending \in Events /\ Known(s, src[s].sending.gen)
         /\ ring[s] \in Seq(Events)
         /\ \A i \in DOMAIN ring[s] : ring[s][i] \in Events /\ Known(s, ring[s][i].gen)
BY InvParts DEF Flow, EventsOK, EventOK, Known, Sending, SourcePart, SourceStates

(* The task may only have foreseen the generation that a resume gives; then*)
(* it has accepted nothing of it.                                          *)
LEMMA TaskIsBehind ==
  ASSUME SafetyInv, NEW s \in Sources, KnowsGeneration(s),
         fresh' \in Nat, fresh <= fresh',
         \/ src'[s].gen = <<fresh>> /\ fresh < fresh'
         \/ src'[s].gen = Append(src[s].gen, epoch),
         src'[s].seq \in Nat, con'[s] = con[s]
  PROVE  KnowsGeneration(s)' /\ (con[s].gen = src'[s].gen => con[s].mark = 0)
<1>1. /\ fresh \in Nat /\ epoch \in Nat
      /\ src[s].gen \in Seq(Nat) /\ Len(src[s].gen) > 0
      /\ con[s].gen \in Seq(Nat) /\ con[s].mark \in Nat
  BY InvParts DEF HostPart, SourcePart, SourceStates, Generations, Flow, SourceOK, TaskPart, ConsumeTasks
<1>2. Len(con[s].gen) > 0 /\ con[s].gen[1] < fresh
  BY DEF KnowsGeneration
<1>3. con[s].gen[1] \in Nat
  BY <1>1, <1>2
<1>4. con[s].gen[1] < fresh'
  BY <1>1, <1>2, <1>3
<1>5. CASE src'[s].gen = <<fresh>>
  <2>1. src'[s].gen[1] = fresh
    BY <1>5
  <2>2. con[s].gen[1] # src'[s].gen[1] /\ con[s].gen # src'[s].gen
    BY <1>1, <1>2, <1>3, <2>1
  <2> QED BY <1>2, <1>4, <2>2 DEF KnowsGeneration
<1>6. CASE src'[s].gen = Append(src[s].gen, epoch)
  <2>1. src'[s].gen[1] = src[s].gen[1] /\ Len(src'[s].gen) = Len(src[s].gen) + 1
    BY <1>1, <1>6
  <2>2. con[s].gen[1] = src[s].gen[1] /\ Len(con[s].gen) > Len(src[s].gen)
          => con[s].mark = 0 /\ Len(con[s].gen) = Len(src[s].gen) + 1
    BY DEF KnowsGeneration
  <2>3. Len(src[s].gen) \in Nat /\ Len(con[s].gen) \in Nat
    BY <1>1
  <2>4. con[s].gen = src'[s].gen => con[s].mark = 0
    BY <2>1, <2>2, <2>3
  <2>5. ~(con[s].gen[1] = src'[s].gen[1] /\ Len(con[s].gen) > Len(src'[s].gen))
    BY <2>1, <2>2, <2>3
  <2>6. con[s].gen = src'[s].gen => con[s].mark <= src'[s].seq
    BY <2>4
  <2> QED BY <1>2, <1>4, <2>4, <2>5, <2>6 DEF KnowsGeneration
<1> QED BY <1>5, <1>6

(* A source with a new generation has said nothing of it yet, or only that *)
(* it lost the transport.                                                  *)
LEMMA NewGenerationGrant ==
  ASSUME SafetyInv, SafetyInv', GrantInv, NEW s \in Sources,
         UNCHANGED <<hostVars, hub, ring, lagged, con, run>>, fresh <= fresh',
         \A x \in Sources \ {s} :
           src'[x] = src[x] /\ last'[x] = last[x] /\ news'[x] = news[x],
         \/ src'[s].gen = <<fresh>> /\ fresh < fresh'
         \/ src'[s].gen = Append(src[s].gen, epoch),
         news'[s], OneEvent(s)', src'[s].bad = src'[s].seq,
         \/ src'[s].seq = 0 /\ src'[s].sending = NoEvent
         \/ /\ src'[s].gen = <<fresh>> /\ src'[s].seq = 1
            /\ src'[s].sending # NoEvent
            /\ src'[s].sending.gen = src'[s].gen /\ src'[s].sending.seq = 1
            /\ src'[s].sending.bad = 1 /\ src'[s].sending.outcome # "safe"
            /\ src'[s].sending.outcome = last'[s]
  PROVE  GrantInv'
<1> DEFINE g == src'[s].gen
<1>1. Chain(s)
  BY DEF GrantInv
<1>2. fresh' \in Nat /\ src'[s].seq \in Nat /\ con[s].mark \in Nat /\ con[s].gen \in Generations
      /\ fresh \in Nat
  <2>1. fresh' \in Nat /\ src' \in [Sources -> SourceStates]
    BY DEF SafetyInv, TypeOK
  <2>2. src'[s].seq \in Nat
    BY <2>1 DEF SourceStates
  <2> QED BY <2>1, <2>2, InvParts DEF TaskPart, ConsumeTasks, HostPart
<1>3. ASSUME NEW k \in Generations, Known(s, k) PROVE k # g /\ Known(s, k)'
  BY <1>2, <1>3, GenerationIsNew
<1>4. \A i \in DOMAIN ring[s] : ring[s][i] \in Events /\ ring[s][i].gen # g
  BY <1>3, SentIsKnown DEF Events
<1>5. KnowsGeneration(s)' /\ (con[s].gen = g => con[s].mark = 0)
  BY <1>1, <1>2, TaskIsBehind DEF Chain
<1>6. CASE src'[s].seq = 0 /\ src'[s].sending = NoEvent
  <2>1. ~Sending(s)'
    BY <1>6 DEF Sending
  <2>2. StreamInv(s)'
    BY <1>1, <1>4, <1>6, <2>1 DEF Chain, StreamInv, Reached
  <2>3. NothingMissed(s)'
    <3>1. Seen(s)' \in Nat
      BY <1>2 DEF Seen
    <3>2. Seen(s)' + 1 .. src'[s].seq = {}
      BY <1>6, <3>1
    <3> QED BY <3>2 DEF NothingMissed
  <2>4. LooksAgain(s)'
    BY DEF LooksAgain
  <2>5. HandInv(s)'
    <3>1. InHand(con[s]) => Known(s, con[s].gen)' /\ con[s].gen # g
      BY <1>1, <1>2, <1>3 DEF Chain, HandInv
    <3> QED BY <1>1, <2>1, <3>1 DEF Chain, HandInv, Reached
  <2>6. Chain(s)'
    BY <1>5, <2>2, <2>3, <2>4, <2>5 DEF Chain
  <2>7. ASSUME s \in DOMAIN hub.ep PROVE Judged(s)'
    <3>1. Judged(s) /\ hub.ep[s].seq \in Nat
      BY <2>7, InvParts DEF GrantInv, HubPart, Hubs, Endpoints
    <3>2. Alive(hub.ep[s]) /\ con[s].pc # "reset" => con[s].gen # g
      BY <1>2, <1>5, <3>1 DEF Judged, AliveInv
    <3>3. AliveInv(s)'
      BY <3>1 DEF Judged, AliveInv, Alive, Running, hostVars
    <3>4. Running(hub.ep[s]) /\ con[s].pc # "reset" /\ RunUnbroken(s) => RunUnbroken(s)'
      BY <2>1, <3>2 DEF RunUnbroken, Alive, Continues
    <3>5. RunInv(s)'
      BY <3>1, <3>4 DEF Judged, RunInv, Running, hostVars
    <3>6. HeardInv(s)'
      BY <3>2 DEF HeardInv, Alive
    <3> QED BY <3>1, <3>3, <3>5, <3>6 DEF Judged, Counts, Running
  <2> QED BY <1>2, <2>6, <2>7, ActorGrant
<1>7. CASE src'[s].gen = <<fresh>> /\ src'[s].seq = 1 /\ src'[s].sending # NoEvent
           /\ src'[s].sending.gen = src'[s].gen /\ src'[s].sending.seq = 1
           /\ src'[s].sending.bad = 1 /\ src'[s].sending.outcome # "safe"
           /\ src'[s].sending.outcome = last'[s]
  <2> DEFINE e == src'[s].sending
  <2>1. Sending(s)' /\ e.gen = g /\ con[s].gen # g
    <3>1. g[1] = fresh
      BY <1>7
    <3>2. con[s].gen[1] < fresh
      BY <1>1 DEF Chain, KnowsGeneration
    <3> QED BY <1>2, <1>7, <3>1, <3>2 DEF Sending
  <2>2. StreamInv(s)'
    <3>1. Sane(src'[s].sending) /\ Reached(s, src[s].sending)'
      BY <1>7 DEF Sane, Reached
    <3>2. \A i \in DOMAIN ring[s] : Follows(ring[s][i], src'[s].sending)
      BY <1>4, <2>1 DEF Follows
    <3> QED BY <1>1, <1>4, <1>7, <2>1, <3>1, <3>2 DEF Chain, StreamInv, Reached
  <2>3. NothingMissed(s)'
    <3>1. Arriving(s, 1)'
      BY <1>7, <2>1 DEF Arriving
    <3>2. Seen(s)' = 0
      BY <2>1 DEF Seen
    <3>3. \A q \in 0 + 1 .. 1 : q = 1
      OBVIOUS
    <3> QED BY <1>7, <3>1, <3>2, <3>3 DEF NothingMissed
  <2>4. LooksAgain(s)'
    BY DEF LooksAgain
  <2>5. HandInv(s)'
    <3>1. InHand(con[s]) => Known(s, con[s].gen)'
      BY <1>1, <1>2, <1>3 DEF Chain, HandInv
    <3> QED BY <1>1, <2>1, <3>1 DEF Chain, HandInv, Reached, Follows
  <2>6. Chain(s)'
    BY <1>5, <2>2, <2>3, <2>4, <2>5 DEF Chain
  <2>7. ASSUME s \in DOMAIN hub.ep PROVE Judged(s)'
    <3>1. Judged(s)
      BY <2>7 DEF GrantInv
    <3>3. AliveInv(s)'
      BY <3>1 DEF Judged, AliveInv, Alive, Running, hostVars
    <3>4. RunUnbroken(s) => RunUnbroken(s)'
      BY <2>1 DEF RunUnbroken, Continues
    <3>5. RunInv(s)'
      BY <3>1, <3>4 DEF Judged, RunInv, Running, hostVars
    <3>6. HeardInv(s)'
      BY <2>1 DEF HeardInv
    <3> QED BY <3>1, <3>3, <3>5, <3>6 DEF Judged, Counts, Running
  <2> QED BY <1>2, <2>6, <2>7, ActorGrant
<1> QED BY <1>6, <1>7

(* A resume, a new connection, the last disconnect.                        *)
LEMMA NewGenerationSteps ==
  ASSUME SafetyInv, SafetyInv', GrantInv, NEW s \in Sources,
         ActorResume(s) \/ Regenerate(s) \/ SourceStops(s)
  PROVE  GrantInv'
<1>1. src \in [Sources -> SourceStates] /\ fresh \in Nat
      /\ last \in [Sources -> Outcomes \cup {"none"}] /\ news \in [Sources -> BOOLEAN]
  BY InvParts DEF SourcePart, HostPart
<1>2. /\ UNCHANGED <<hostVars, hub, ring, lagged, con, run>> /\ fresh <= fresh'
      /\ \/ src'[s].gen = <<fresh>> /\ fresh < fresh'
         \/ src'[s].gen = Append(src[s].gen, epoch)
      /\ src'[s].seq = 0 /\ src'[s].bad = 0 /\ src'[s].sending = NoEvent
      /\ news' = [news EXCEPT ![s] = TRUE] /\ last' = [last EXCEPT ![s] = "none"]
      /\ \A x \in Sources \ {s} : src'[x] = src[x]
  <2>1. CASE ActorResume(s)
    BY <1>1, <2>1 DEF ActorResume, Published, SourceStates
  <2>2. CASE Regenerate(s)
    BY <1>1, <2>2 DEF Regenerate, Published, SourceStates
  <2>3. CASE SourceStops(s)
    BY <1>1, <2>3 DEF SourceStops, Published, SourceStates
  <2> QED BY <2>1, <2>2, <2>3
<1>3. news'[s] /\ \A x \in Sources \ {s} : last'[x] = last[x] /\ news'[x] = news[x]
  BY <1>1, <1>2
<1>4. OneEvent(s)'
  BY <1>2 DEF OneEvent, Sending
<1> QED BY <1>2, <1>3, <1>4, NewGenerationGrant

(* A poll begins, or the actor dies: nothing is said.                      *)
LEMMA QuietGrant ==
  ASSUME SafetyInv, GrantInv, NEW s \in Sources, StartPoll(s) \/ SourceDies(s)
  PROVE  GrantInv'
<1>1. src \in [Sources -> SourceStates] /\ now \in Nat /\ fresh \in Nat
  BY InvParts DEF SourcePart, HostPart
<1>2. /\ UNCHANGED <<now, epoch, clockValid, hub, ring, lagged, fresh, last, news, con, run>>
      /\ src'[s].gen = src[s].gen /\ src'[s].seq = src[s].seq /\ src'[s].bad = src[s].bad
      /\ src'[s].epoch = src[s].epoch
      /\ src[s].sending = NoEvent /\ src'[s].sending = NoEvent
      /\ \A x \in Sources \ {s} : src'[x] = src[x]
  BY <1>1 DEF StartPoll, SourceDies, hostVars, SourceStates
<1>3. OneEvent(s)'
  BY <1>2 DEF OneEvent, Sending
<1>4. now <= now' /\ fresh <= fresh' /\ now' \in Nat /\ fresh' \in Nat
  BY <1>1, <1>2
<1>5. Chain(s)'
  BY <1>2, <1>3, <1>4, ChainFrame DEF GrantInv
<1>6. s \in DOMAIN hub.ep => Judged(s)'
  BY <1>2, <1>4, KeptJudged DEF GrantInv
<1> QED BY <1>2, <1>4, <1>5, <1>6, ActorGrant DEF hostVars

(* The next event of a generation: what it says of the last bad reading    *)
(* cannot leave one out that came after what was sent before.              *)
LEMMA NextFollows ==
  ASSUME SafetyInv, NEW s \in Sources, NEW e, NEW f, Reached(s, f), f.seq \in Nat, f.bad \in Nat,
         e.gen = src[s].gen, e.seq = src[s].seq + 1, e.bad \in {e.seq, src[s].bad},
         src'[s].gen = src[s].gen, src'[s].seq = e.seq, src'[s].bad = e.bad
  PROVE  Follows(f, e) /\ Reached(s, f)'
<1>1. src[s].seq \in Nat /\ src[s].bad \in Nat
  BY InvParts DEF SourcePart, SourceStates
<1>2. CASE f.gen # src[s].gen
  BY <1>2 DEF Follows, Reached
<1>3. CASE f.gen = src[s].gen
  <2>1. f.seq <= src[s].seq /\ (src[s].bad = f.bad \/ src[s].bad > f.seq)
    BY <1>3 DEF Reached
  <2>2. f.seq < e.seq /\ (e.bad = f.bad \/ e.bad > f.seq)
    BY <1>1, <2>1
  <2>3. f.seq <= e.seq /\ f.seq # e.seq
    BY <1>1, <2>1
  <2> QED BY <2>2, <2>3 DEF Follows, Reached
<1> QED BY <1>2, <1>3

(* A poll ends and the source has a reading.                               *)
LEMMA ReadingGrant ==
  ASSUME SafetyInv, SafetyInv', GrantInv, NEW s \in Sources, NEW e \in Events,
         UNCHANGED <<hostVars, hub, ring, lagged, fresh, con, run>>, Current(s), ~Sending(s),
         \A x \in Sources \ {s} :
           src'[x] = src[x] /\ last'[x] = last[x] /\ news'[x] = news[x],
         e.gen = src[s].gen, e.seq = src[s].seq + 1,
         e.bad = IF e.outcome # "safe" THEN e.seq ELSE src[s].bad,
         src'[s].gen = e.gen, src'[s].seq = e.seq, src'[s].bad = e.bad, src'[s].poll = NoTime,
         src'[s].epoch = src[s].epoch, src'[s].sending = e, e # NoEvent,
         last'[s] = e.outcome, news'[s]
  PROVE  GrantInv'
<1>1. /\ Chain(s) /\ fresh \in Nat /\ fresh <= fresh' /\ fresh' \in Nat
      /\ src[s].seq \in Nat /\ src[s].bad \in Nat /\ con[s].mark \in Nat
      /\ con[s].event \in Events
  BY InvParts DEF GrantInv, HostPart, SourcePart, SourceStates, TaskPart, ConsumeTasks
<1>2. Sending(s)' /\ Current(s)' /\ OneEvent(s)'
  BY DEF Sending, Current, OneEvent, hostVars
<1>3. src[s].bad <= src[s].seq
  BY <1>1 DEF Chain, StreamInv
<1>4. Sane(e) /\ e.bad \in {e.seq, src[s].bad} /\ e.bad <= e.seq /\ Reached(s, src[s].sending)'
  <2>1. e.bad <= e.seq /\ (e.outcome = "safe" => e.bad < e.seq) /\ 1 <= e.seq
    BY <1>1, <1>3
  <2>2. Reached(s, src[s].sending)'
    <3>1. e.seq <= e.seq
      BY <1>1
    <3> QED BY <3>1, Zenon DEF Reached
  <2>3. e.bad \in {e.seq, src[s].bad}
    OBVIOUS
  <2> QED BY <2>1, <2>2, <2>3 DEF Sane
<1>5. ASSUME NEW f \in Events, Reached(s, f) PROVE Follows(f, e) /\ Reached(s, f)'
  <2>1. f.seq \in Nat /\ f.bad \in Nat
    BY DEF Events
  <2> QED BY <1>4, <1>5, <2>1, NextFollows
<1>6. StreamInv(s)'
  <2>1. \A i \in DOMAIN ring[s] : ring[s][i] \in Events /\ Reached(s, ring[s][i])
    BY <1>1, SentIsKnown DEF Chain, StreamInv
  <2>2. \A i \in DOMAIN ring[s] : Follows(ring[s][i], e) /\ Reached(s, ring[s][i])'
    BY <1>5, <2>1
  <2> QED BY <1>1, <1>2, <1>4, <2>2 DEF Chain, StreamInv
<1>7. KnowsGeneration(s)'
  <2>1. con[s].gen = src[s].gen => con[s].mark <= src[s].seq
    BY <1>1 DEF Chain, KnowsGeneration
  <2>2. con[s].gen = src[s].gen => con[s].mark <= e.seq
    BY <1>1, <2>1
  <2> QED BY <1>1, <2>2 DEF Chain, KnowsGeneration
<1>8. NothingMissed(s)'
  <2> SUFFICES ASSUME ~lagged[s], NEW q \in Seen(s) + 1 .. src[s].seq + 1 PROVE Arriving(s, q)'
    BY DEF NothingMissed, Seen
  <2>1. Seen(s) \in Nat
    BY <1>1 DEF Seen
  <2>2. CASE q \in Seen(s) + 1 .. src[s].seq
    BY <1>1, <2>2 DEF Chain, NothingMissed, Arriving
  <2>3. CASE q = src[s].seq + 1
    BY <1>2, <2>3 DEF Arriving
  <2> QED BY <1>1, <2>1, <2>2, <2>3
<1>9. LooksAgain(s)'
  BY DEF LooksAgain
<1>10. HandInv(s)'
  <2>1. ASSUME InHand(con[s]) PROVE Follows(con[s].event, e) /\ Reached(s, con[s].event)'
    BY <1>1, <1>5, <2>1 DEF Chain, HandInv
  <2>2. Known(s, con[s].gen)' = Known(s, con[s].gen)
    BY DEF Known
  <2> QED BY <1>1, <2>1, <2>2 DEF Chain, HandInv
<1>11. Chain(s)'
  BY <1>2, <1>6, <1>7, <1>8, <1>9, <1>10 DEF Chain
<1>12. ASSUME s \in DOMAIN hub.ep PROVE Judged(s)'
  <2>1. Judged(s)
    BY <1>12 DEF GrantInv
  <2>2. con[s].gen = src[s].gen => con[s].mark <= src[s].seq
    BY <1>1 DEF Chain, KnowsGeneration
  <2>3. AliveInv(s)'
    BY <2>1 DEF Judged, AliveInv, Alive, Running, hostVars
  <2>4. ASSUME RunUnbroken(s) PROVE RunUnbroken(s)'
    <3>1. con[s].gen = src[s].gen => e.bad = run[s].bad \/ e.bad > con[s].mark
      BY <1>1, <1>4, <2>2, <2>4 DEF RunUnbroken
    <3> QED BY <2>4, <3>1 DEF RunUnbroken, Continues
  <2>5. RunInv(s)'
    BY <2>1, <2>4 DEF Judged, RunInv, Running, hostVars
  <2>6. HeardInv(s)'
    <3>1. ~(con[s].gen = src[s].gen /\ con[s].mark = src[s].seq + 1)
      BY <1>1, <2>2
    <3> QED BY <3>1 DEF HeardInv
  <2> QED BY <2>1, <2>3, <2>5, <2>6 DEF Judged, Counts, Running
<1> QED BY <1>1, <1>11, <1>12, ActorGrant

(* A poll ends: with a reading, or with the loss of the transport.         *)
LEMMA FinishPollGrant ==
  ASSUME SafetyInv, SafetyInv', GrantInv, NEW s \in Sources,
         NEW o \in Readings, NEW d \in Backdates, NEW lost \in BOOLEAN, FinishPoll(s, o, d, lost)
  PROVE  GrantInv'
<1> DEFINE g == IF lost THEN <<fresh>> ELSE src[s].gen
           q == IF lost THEN 1 ELSE src[s].seq + 1
           b == IF o # "safe" THEN q ELSE src[s].bad
           e == [gen |-> g, seq |-> q, start |-> src[s].poll - d, recv |-> now,
                 outcome |-> o, bad |-> b]
           v == [src[s] EXCEPT !.gen = g, !.seq = q, !.bad = b, !.poll = NoTime, !.sending = e]
<1>1. /\ src \in [Sources -> SourceStates] /\ src' \in [Sources -> SourceStates]
      /\ last \in [Sources -> Outcomes \cup {"none"}] /\ news \in [Sources -> BOOLEAN]
      /\ fresh \in Nat /\ src[s].seq \in Nat
  BY InvParts DEF SafetyInv, TypeOK, SourcePart, HostPart, SourceStates
<1>2. /\ src' = [src EXCEPT ![s] = v] /\ last' = [last EXCEPT ![s] = o]
      /\ news' = [news EXCEPT ![s] = TRUE] /\ UNCHANGED <<hostVars, hub, ring, lagged, con, run>>
      /\ fresh' = IF lost THEN fresh + 1 ELSE fresh
      /\ src[s].epoch = epoch /\ src[s].poll # NoTime
      /\ ~clockValid => lost
      /\ lost => o \notin {"safe", "unsafe"}
  BY DEF FinishPoll, Published
<1>3. /\ \A x \in Sources \ {s} : src'[x] = src[x] /\ last'[x] = last[x] /\ news'[x] = news[x]
      /\ news'[s] /\ last'[s] = o /\ src'[s] = v
  BY <1>1, <1>2
<1>4. ~Sending(s)
  BY <1>2 DEF GrantInv, Chain, OneEvent
<1>5. e.gen = g /\ e.seq = q /\ e.bad = b /\ e.outcome = o
  OBVIOUS
<1> HIDE DEF e
<1>6. /\ v.gen = g /\ v.seq = q /\ v.bad = b /\ v.poll = NoTime /\ v.sending = e
      /\ v.epoch = src[s].epoch
  BY <1>1 DEF SourceStates
<1>7. e \in Events
  <2>1. v \in SourceStates
    BY <1>1, <1>3
  <2> HIDE DEF v
  <2>2. v.sending \in Events
    BY <2>1 DEF SourceStates
  <2> QED BY <1>6, <2>2
<1> HIDE DEF v
<1>8. CASE lost
  <2>1. g = <<fresh>> /\ q = 1 /\ b = 1 /\ o # "safe" /\ fresh < fresh' /\ fresh <= fresh'
    BY <1>1, <1>2, <1>8
  <2>2. e # NoEvent
    BY <1>5, <2>1 DEF NoEvent
  <2>3. OneEvent(s)'
    BY <1>3, <1>6 DEF OneEvent
  <2> HIDE DEF g, q, b
  <2>4. /\ src'[s].gen = <<fresh>> /\ src'[s].seq = 1 /\ src'[s].sending = e
        /\ src'[s].bad = src'[s].seq
    BY <1>3, <1>6, <2>1
  <2>5. /\ src'[s].sending # NoEvent
        /\ src'[s].sending.gen = src'[s].gen /\ src'[s].sending.seq = 1
        /\ src'[s].sending.bad = 1 /\ src'[s].sending.outcome # "safe"
        /\ src'[s].sending.outcome = last'[s]
    BY <1>3, <1>5, <2>1, <2>2, <2>4
  <2> QED BY <1>2, <1>3, <2>1, <2>3, <2>4, <2>5, NewGenerationGrant
<1>9. CASE ~lost
  <2>1. g = src[s].gen /\ q = src[s].seq + 1 /\ q # 0
    BY <1>1, <1>9
  <2>2. e # NoEvent
    BY <1>5, <2>1 DEF NoEvent
  <2>3. Current(s)
    BY <1>2, <1>9 DEF Current
  <2>4. fresh' = fresh
    BY <1>2, <1>9
  <2>5. e.bad = IF e.outcome # "safe" THEN e.seq ELSE src[s].bad
    BY <1>5
  <2>6. e.gen = src[s].gen /\ e.seq = src[s].seq + 1 /\ last'[s] = e.outcome
    BY <1>3, <1>5, <2>1
  <2>7. /\ src'[s].gen = e.gen /\ src'[s].seq = e.seq /\ src'[s].bad = e.bad
        /\ src'[s].poll = NoTime /\ src'[s].epoch = src[s].epoch /\ src'[s].sending = e
    BY <1>3, <1>5, <1>6
  <2> HIDE DEF g, q, b
  <2> QED BY <1>2, <1>3, <1>4, <1>7, <2>2, <2>3, <2>4, <2>5, <2>6, <2>7, ReadingGrant
<1> QED BY <1>8, <1>9

(* An event joins the others, or pushes the oldest out, which is told.     *)
LEMMA SendEventGrant ==
  ASSUME SafetyInv, GrantInv, NEW s \in Sources, SendEvent(s)
  PROVE  GrantInv'
<1> DEFINE e == src[s].sending
           n == Len(ring[s])
<1>1. /\ src \in [Sources -> SourceStates] /\ ring \in [Sources -> Seq(Events)]
      /\ lagged \in [Sources -> BOOLEAN] /\ fresh \in Nat /\ Chain(s) /\ n \in Nat
      /\ Sending(s) /\ e \in Events /\ ring[s] \in Seq(Events) /\ DOMAIN ring[s] = 1 .. n
  BY InvParts, SentIsKnown DEF SourcePart, HostPart, GrantInv, SendEvent, Sending
<1>2. /\ UNCHANGED <<hostVars, hub, fresh, last, news, con, run>>
      /\ src'[s].gen = src[s].gen /\ src'[s].seq = src[s].seq /\ src'[s].bad = src[s].bad
      /\ src'[s].epoch = src[s].epoch /\ src'[s].sending = NoEvent
      /\ \A x \in Sources \ {s} : src'[x] = src[x] /\ ring'[x] = ring[x] /\ lagged'[x] = lagged[x]
  <2>1. \A x \in Sources \ {s} : ring'[x] = ring[x] /\ lagged'[x] = lagged[x]
    BY <1>1 DEF SendEvent
  <2> QED BY <1>1, <2>1 DEF SendEvent, SourceStates
<1>3. PICK k \in {0, 1} :
        /\ DOMAIN ring'[s] = 1 .. n - k + 1
        /\ \A i \in 1 .. n - k : i + k \in DOMAIN ring[s] /\ ring'[s][i] = ring[s][i + k]
        /\ ring'[s][n - k + 1] = e
        /\ k = 0 => lagged'[s] = lagged[s]
        /\ k = 1 => lagged'[s]
  <2>1. CASE n = RingCap
    <3>1. n > 0 /\ Tail(ring[s]) \in Seq(Events) /\ Len(Tail(ring[s])) = n - 1
          /\ \A i \in 1 .. n - 1 : Tail(ring[s])[i] = ring[s][i + 1]
      BY <1>1, <2>1, HubAssumption
    <3>2. ring'[s] = Append(Tail(ring[s]), e) /\ lagged'[s]
      BY <1>1, <2>1 DEF SendEvent
    <3>3. /\ DOMAIN ring'[s] = 1 .. n /\ ring'[s][n] = e
          /\ \A i \in 1 .. n - 1 : ring'[s][i] = ring[s][i + 1]
      BY <1>1, <3>1, <3>2
    <3>4. n - 1 + 1 = n /\ 1 # 0 /\ \A i \in 1 .. n - 1 : i + 1 \in 1 .. n
      BY <1>1
    <3>5. /\ DOMAIN ring'[s] = 1 .. n - 1 + 1 /\ ring'[s][n - 1 + 1] = e
          /\ \A i \in 1 .. n - 1 : i + 1 \in DOMAIN ring[s] /\ ring'[s][i] = ring[s][i + 1]
      BY <1>1, <3>3, <3>4
    <3> WITNESS 1 \in {0, 1}
    <3> QED BY <3>2, <3>4, <3>5
  <2>2. CASE n # RingCap
    <3>1. ring'[s] = Append(ring[s], e) /\ lagged'[s] = lagged[s]
      BY <1>1, <2>2 DEF SendEvent
    <3>2. /\ DOMAIN ring'[s] = 1 .. n + 1 /\ ring'[s][n + 1] = e
          /\ \A i \in 1 .. n : ring'[s][i] = ring[s][i]
      BY <1>1, <3>1
    <3> WITNESS 0 \in {0, 1}
    <3> QED BY <1>1, <3>1, <3>2
  <2> QED BY <2>1, <2>2
<1>4. ASSUME NEW i \in DOMAIN ring'[s]
      PROVE  \/ i = n - k + 1 /\ ring'[s][i] = e
             \/ i < n - k + 1 /\ i + k \in DOMAIN ring[s] /\ ring'[s][i] = ring[s][i + k]
  <2>1. i \in 1 .. n - k \/ i = n - k + 1
    BY <1>1, <1>3
  <2> QED BY <1>1, <1>3, <2>1
<1>5. ~Sending(s)' /\ Current(s)' = Current(s) /\ OneEvent(s)'
  BY <1>2 DEF Sending, Current, OneEvent, hostVars
<1>6. StreamInv(s)'
  <2>1. StreamInv(s)
    BY <1>1 DEF Chain
  <2>2. \A f : Reached(s, f)' = Reached(s, f)
    BY <1>2 DEF Reached
  <2>3. ASSUME NEW i \in DOMAIN ring'[s] PROVE Sane(ring'[s][i]) /\ Reached(s, ring'[s][i])
    BY <1>1, <1>4, <2>1 DEF StreamInv
  <2>4. ASSUME NEW i \in DOMAIN ring'[s], NEW j \in DOMAIN ring'[s], i < j
        PROVE  Follows(ring'[s][i], ring'[s][j])
    <3>1. i \in Nat /\ j \in Nat
      BY <1>1, <1>3
    <3>2. i # n - k + 1 /\ i + k \in DOMAIN ring[s] /\ ring'[s][i] = ring[s][i + k]
      BY <1>1, <1>3, <1>4, <2>4, <3>1
    <3>3. CASE ring'[s][j] = e
      BY <1>1, <2>1, <3>2, <3>3 DEF StreamInv
    <3>4. CASE j + k \in DOMAIN ring[s] /\ ring'[s][j] = ring[s][j + k]
      <4>1. i + k < j + k
        BY <2>4, <3>1
      <4> QED BY <2>1, <3>2, <3>4, <4>1 DEF StreamInv
    <3> QED BY <1>4, <3>3, <3>4
  <2> QED BY <1>2, <1>5, <2>1, <2>2, <2>3, <2>4 DEF StreamInv
<1>7. NothingMissed(s)'
  <2> SUFFICES ASSUME ~lagged'[s], Current(s), NEW q \in Seen(s) + 1 .. src[s].seq
               PROVE Arriving(s, q)'
    BY <1>2, <1>5 DEF NothingMissed, Seen
  <2>1. k = 0 /\ ~lagged[s]
    BY <1>3
  <2>2. Arriving(s, q)
    BY <1>1, <2>1 DEF Chain, NothingMissed
  <2>3. ASSUME NEW i \in DOMAIN ring[s], ring[s][i].gen = src[s].gen, ring[s][i].seq = q
        PROVE  Arriving(s, q)'
    <3>1. i \in DOMAIN ring'[s] /\ ring'[s][i] = ring[s][i]
      BY <1>1, <1>3, <2>1
    <3> QED BY <1>2, <2>3, <3>1 DEF Arriving
  <2>4. ASSUME e.gen = src[s].gen, e.seq = q PROVE Arriving(s, q)'
    <3>1. n + 1 \in DOMAIN ring'[s] /\ ring'[s][n + 1] = e
      BY <1>1, <1>3, <2>1
    <3> QED BY <1>2, <2>4, <3>1 DEF Arriving
  <2> QED BY <2>2, <2>3, <2>4 DEF Arriving
<1>8. KnowsGeneration(s)' /\ LooksAgain(s)'
  BY <1>1, <1>2, <1>5 DEF Chain, KnowsGeneration, LooksAgain
<1>9. HandInv(s)'
  <2>1. ASSUME InHand(con[s]), NEW i \in DOMAIN ring'[s] PROVE Follows(con[s].event, ring'[s][i])
    BY <1>1, <1>4, <2>1 DEF Chain, HandInv
  <2> QED BY <1>1, <1>2, <1>5, <2>1 DEF Chain, HandInv, Known, Reached
<1>10. Chain(s)'
  BY <1>5, <1>6, <1>7, <1>8, <1>9 DEF Chain
<1>11. ASSUME s \in DOMAIN hub.ep PROVE Judged(s)'
  <2>1. Judged(s)
    BY <1>11 DEF GrantInv
  <2>2. AliveInv(s)'
    BY <1>2, <2>1 DEF Judged, AliveInv, Alive, Running, hostVars
  <2>3. ASSUME RunUnbroken(s) PROVE RunUnbroken(s)'
    <3>1. ASSUME NEW i \in DOMAIN ring'[s] PROVE Continues(s, ring'[s][i])
      BY <1>1, <1>4, <2>3 DEF RunUnbroken
    <3> QED BY <1>2, <1>5, <2>3, <3>1 DEF RunUnbroken, Continues
  <2>4. RunInv(s)'
    BY <1>2, <2>1, <2>3 DEF Judged, RunInv, Running, hostVars
  <2>5. HeardInv(s)'
    BY <1>2, <1>5, <2>1 DEF Judged, HeardInv, Fatal
  <2> QED BY <1>2, <2>1, <2>2, <2>4, <2>5 DEF Judged, Counts, Running
<1>12. fresh <= fresh' /\ fresh' \in Nat
  BY <1>1, <1>2
<1> QED BY <1>2, <1>10, <1>11, <1>12, ActorGrant

-----------------------------------------------------------------------------
(* The task                                                                *)

(* The task moves on in its loop.                                          *)
LEMMA MovedJudged ==
  ASSUME SafetyInv, NEW s \in DOMAIN hub.ep, Judged(s),
         con[s].pc \notin {"acquire", "done", "reset", "deliver"},
         con'[s].pc \notin {"acquire", "done", "reset", "deliver"},
         con'[s].gen = con[s].gen, con'[s].mark = con[s].mark, con'[s].from = con[s].from,
         UNCHANGED <<hostVars, hub, src, last, run>>,
         \A i \in DOMAIN ring'[s] : \E j \in DOMAIN ring[s] : ring'[s][i] = ring[s][j]
  PROVE  Judged(s)'
<1>1. UNCHANGED <<now, epoch, clockValid>>
  BY DEF hostVars
<1>2. AliveInv(s)'
  BY <1>1 DEF Judged, AliveInv, Alive, Running
<1>3. RunUnbroken(s) => RunUnbroken(s)'
  BY DEF RunUnbroken, Continues, Sending
<1>4. RunInv(s)'
  BY <1>1, <1>3 DEF Judged, RunInv, Running
<1>5. HeardInv(s)'
  BY <1>1 DEF Judged, HeardInv, Fatal, Current
<1> QED BY <1>2, <1>4, <1>5 DEF Judged, Counts, Running

(* Between a task's decision to start over and its reset, the endpoint     *)
(* lends its permission without regard to what the task has heard.         *)
LEMMA AdoptedJudged ==
  ASSUME NEW s \in DOMAIN hub.ep, Judged(s), con[s].pc \notin {"acquire", "done"},
         con'[s].pc = "reset", UNCHANGED <<hostVars, hub, run>>
  PROVE  Judged(s)'
<1>1. UNCHANGED <<now, epoch, clockValid>>
  BY DEF hostVars
<1>2. AliveInv(s)'
  BY <1>1 DEF Judged, AliveInv, Alive, Running
<1>3. RunInv(s)'
  BY <1>1 DEF Judged, RunInv, Running
<1>4. HeardInv(s)'
  BY DEF HeardInv
<1> QED BY <1>2, <1>3, <1>4 DEF Judged, Counts, Running

(* A task that does not hear anything changes no chain but its own ends.   *)
LEMMA MovedChain ==
  ASSUME SafetyInv, NEW s \in Sources, Chain(s),
         UNCHANGED <<epoch, clockValid, src, ring, lagged, fresh, last>>,
         con'[s].gen = con[s].gen, con'[s].mark = con[s].mark, LooksAgain(s)', HandInv(s)'
  PROVE  Chain(s)'
<1>1. Current(s)' = Current(s) /\ Sending(s)' = Sending(s)
  BY DEF Current, Sending
<1>2. StreamInv(s)' /\ OneEvent(s)'
  BY <1>1 DEF Chain, StreamInv, Reached, OneEvent, Sending
<1>3. NothingMissed(s)'
  <2>1. Seen(s)' = Seen(s) /\ \A q : Arriving(s, q)' = Arriving(s, q)
    BY <1>1 DEF Seen, Arriving
  <2> QED BY <1>1, <2>1 DEF Chain, NothingMissed
<1>4. KnowsGeneration(s)'
  BY <1>1 DEF Chain, KnowsGeneration
<1> QED BY <1>2, <1>3, <1>4 DEF Chain

(* The loop's decisions without an event: the lease, Look, Wake.           *)
LEMMA AcquireLeaseGrant ==
  ASSUME SafetyInv, GrantInv, NEW s \in Sources, AcquireLease(s)
  PROVE  GrantInv'
<1>1. /\ con \in [Sources -> ConsumeTasks] /\ fresh \in Nat /\ fresh <= fresh' /\ fresh' \in Nat
      /\ UNCHANGED <<hostVars, epoch, clockValid, hub, src, ring, lagged, fresh, last, news, run>>
      /\ con[s].pc = "acquire"
  BY InvParts DEF TaskPart, HostPart, AcquireLease, hostVars, srcVars
<1>2. /\ con'[s].gen = con[s].gen /\ con'[s].mark = con[s].mark /\ con'[s].pc \in {"loop", "done"}
      /\ \A x \in Sources \ {s} : con'[x] = con[x]
  BY <1>1 DEF AcquireLease, Goes, ConsumeTasks
<1>3. Chain(s)'
  <2>1. LooksAgain(s)' /\ HandInv(s)'
    BY <1>2 DEF LooksAgain, HandInv, InHand
  <2> QED BY <1>1, <1>2, <2>1, MovedChain DEF GrantInv
<1>4. s \in DOMAIN hub.ep => Judged(s)'
  BY <1>1, GoneJudged DEF GrantInv, Judged, AliveInv
<1> QED BY <1>1, <1>2, <1>3, <1>4, ActorGrant

LEMMA WakeGrant ==
  ASSUME SafetyInv, GrantInv, NEW s \in Sources, Wake(s)
  PROVE  GrantInv'
<1>1. /\ con \in [Sources -> ConsumeTasks] /\ fresh \in Nat /\ fresh <= fresh' /\ fresh' \in Nat
      /\ UNCHANGED <<hostVars, epoch, clockValid, hub, src, ring, lagged, fresh, last, news, run>>
      /\ con[s].pc = "select"
  BY InvParts DEF TaskPart, HostPart, Wake, hostVars, srcVars
<1>2. /\ con'[s].gen = con[s].gen /\ con'[s].mark = con[s].mark /\ con'[s].from = con[s].from
      /\ con'[s].pc \in {"loop", "final"} /\ \A x \in Sources \ {s} : con'[x] = con[x]
  BY <1>1 DEF Wake, Goes, ConsumeTasks
<1>3. Chain(s)'
  <2>1. LooksAgain(s)' /\ HandInv(s)'
    BY <1>2 DEF LooksAgain, HandInv, InHand
  <2> QED BY <1>1, <1>2, <2>1, MovedChain DEF GrantInv
<1>4. s \in DOMAIN hub.ep => Judged(s)'
  BY <1>1, <1>2, MovedJudged DEF GrantInv
<1> QED BY <1>1, <1>2, <1>3, <1>4, ActorGrant

(* What a reader takes for the latest: the source's own word, or nothing   *)
(* of a generation that is still to come (SourceSnapshot).                 *)
LEMMA LatestKnown ==
  ASSUME SafetyInv, NEW s \in Sources
  PROVE  /\ Current(s) => Latest(s).gen = src[s].gen /\ Latest(s).seq = src[s].seq
         /\ ~Current(s) => /\ Latest(s).gen[1] = src[s].gen[1] /\ Latest(s).seq = 0
                           /\ Len(Latest(s).gen) = Len(src[s].gen) + 1
                           /\ Latest(s).gen # src[s].gen
         /\ Len(Latest(s).gen) > 0 /\ Latest(s).gen[1] < fresh
<1>1. /\ src[s].gen \in Seq(Nat) /\ Len(src[s].gen) > 0 /\ src[s].gen[1] < fresh /\ epoch \in Nat
      /\ Len(src[s].gen) \in Nat
  BY InvParts DEF HostPart, SourcePart, SourceStates, Generations, Flow, SourceOK
<1>2. CASE Current(s)
  BY <1>1, <1>2 DEF Latest, Current
<1>3. CASE ~Current(s)
  <2>1. Latest(s).gen = Append(src[s].gen, epoch) /\ Latest(s).seq = 0
    BY <1>3 DEF Latest, Current
  <2>2. Latest(s).gen[1] = src[s].gen[1] /\ Len(Latest(s).gen) = Len(src[s].gen) + 1
    BY <1>1, <2>1
  <2>3. Len(Latest(s).gen) > 0 /\ Latest(s).gen # src[s].gen
    BY <1>1, <2>2
  <2> QED BY <1>1, <1>3, <2>1, <2>2, <2>3
<1> QED BY <1>2, <1>3

(* A task that takes the latest for its own.                               *)
LEMMA TakesLatest ==
  ASSUME SafetyInv, NEW s \in Sources, UNCHANGED <<epoch, clockValid, src, fresh>>,
         con'[s].gen = Latest(s).gen, con'[s].mark \in {0, Latest(s).seq}
  PROVE  KnowsGeneration(s)'
<1>1. src[s].seq \in Nat /\ Len(src[s].gen) \in Nat
  BY InvParts DEF SourcePart, SourceStates, Generations
<1>2. CASE Current(s)
  <2>1. con'[s].gen = src[s].gen /\ con'[s].mark <= src[s].seq
    BY <1>1, <1>2, LatestKnown
  <2>2. Len(con'[s].gen) > 0 /\ con'[s].gen[1] < fresh
    BY LatestKnown
  <2>3. ~(Len(con'[s].gen) > Len(src[s].gen))
    BY <1>1, <2>1
  <2> QED BY <2>1, <2>2, <2>3 DEF KnowsGeneration
<1>3. CASE ~Current(s)
  <2>1. con'[s].mark = 0 /\ Len(con'[s].gen) = Len(src[s].gen) + 1 /\ con'[s].gen # src[s].gen
    BY <1>3, LatestKnown
  <2>2. Len(con'[s].gen) > 0 /\ con'[s].gen[1] < fresh
    BY LatestKnown
  <2>3. ~Current(s)'
    BY <1>3 DEF Current
  <2> QED BY <2>1, <2>2, <2>3 DEF KnowsGeneration
<1> QED BY <1>2, <1>3

LEMMA LookGrant ==
  ASSUME SafetyInv, GrantInv, NEW s \in Sources, Look(s)
  PROVE  GrantInv'
<1>1. /\ con \in [Sources -> ConsumeTasks] /\ news \in [Sources -> BOOLEAN]
      /\ fresh \in Nat /\ fresh <= fresh' /\ fresh' \in Nat
      /\ UNCHANGED <<hostVars, epoch, clockValid, hub, src, ring, lagged, fresh, last, run>>
      /\ con[s].pc = "loop" /\ Chain(s)
  BY InvParts DEF TaskPart, HostPart, SourcePart, Look, hostVars, srcVars, GrantInv
<1>2. \A x \in Sources \ {s} : con'[x] = con[x] /\ news'[x] = news[x]
  BY <1>1 DEF Look, Goes
<1>3. CASE stop
  <2>1. con'[s].pc = "final" /\ con'[s].gen = con[s].gen /\ con'[s].mark = con[s].mark
    BY <1>1, <1>3 DEF Look, Goes, ConsumeTasks
  <2>2. LooksAgain(s)' /\ HandInv(s)'
    BY <2>1 DEF LooksAgain, HandInv, InHand
  <2>3. Chain(s)'
    BY <1>1, <2>1, <2>2, MovedChain
  <2>4. s \notin DOMAIN hub.ep
    BY <1>3, InvParts DEF HubPart
  <2> QED BY <1>1, <1>2, <2>3, <2>4, ActorGrant
<1>4. CASE ~stop /\ con[s].gen = Latest(s).gen
  <2>1. /\ con'[s].pc = "select" /\ con'[s].gen = con[s].gen /\ con'[s].mark = con[s].mark
        /\ con'[s].from = con[s].from
    BY <1>1, <1>4 DEF Look, ConsumeTasks
  <2>2. LooksAgain(s)'
    <3>1. Current(s) => con'[s].gen = src[s].gen
      BY <1>4, <2>1, LatestKnown
    <3>2. Current(s)' = Current(s)
      BY <1>1 DEF Current
    <3> QED BY <1>1, <3>1, <3>2 DEF LooksAgain
  <2>3. HandInv(s)'
    BY <2>1 DEF HandInv, InHand
  <2>4. Chain(s)'
    BY <1>1, <2>1, <2>2, <2>3, MovedChain
  <2>5. s \in DOMAIN hub.ep => Judged(s)'
    BY <1>1, <2>1, MovedJudged DEF GrantInv
  <2> QED BY <1>1, <1>2, <2>4, <2>5, ActorGrant
<1>5. CASE ~stop /\ con[s].gen # Latest(s).gen
  <2>1. con'[s] = Adopt(s, Latest(s).gen, 0, "select")
    BY <1>1, <1>5 DEF Look
  <2>2. /\ con'[s].pc = "reset" /\ con'[s].then = "select" /\ con'[s].gen = Latest(s).gen
        /\ con'[s].mark = 0
    BY <1>1, <2>1 DEF Adopt, ConsumeTasks
  <2>3. Current(s)' = Current(s) /\ Sending(s)' = Sending(s)
    BY <1>1 DEF Current, Sending
  <2>4. LooksAgain(s)' /\ HandInv(s)'
    BY <1>1, <2>2, <2>3, LatestKnown DEF LooksAgain, HandInv, InHand
  <2>5. KnowsGeneration(s)'
    BY <1>1, <2>2, TakesLatest
  <2>6. StreamInv(s)' /\ OneEvent(s)'
    BY <1>1, <2>3 DEF Chain, StreamInv, Reached, OneEvent, Sending
  <2>7. NothingMissed(s)'
    <3>1. Current(s) => Seen(s) = 0 /\ Seen(s)' = 0
      BY <1>1, <1>5, <2>2, LatestKnown DEF Seen
    <3>2. \A q : Arriving(s, q)' = Arriving(s, q)
      BY <1>1, <2>3 DEF Arriving
    <3> QED BY <1>1, <2>3, <3>1, <3>2 DEF Chain, NothingMissed
  <2>8. Chain(s)'
    BY <2>4, <2>5, <2>6, <2>7 DEF Chain
  <2>9. s \in DOMAIN hub.ep => Judged(s)'
    BY <1>1, <2>2, AdoptedJudged DEF GrantInv
  <2> QED BY <1>1, <1>2, <2>8, <2>9, ActorGrant
<1> QED BY <1>3, <1>4, <1>5

(* After a loss the task starts over with what the source says now.        *)
LEMMA LaggedGrant ==
  ASSUME SafetyInv, GrantInv, NEW s \in Sources, Lagged(s)
  PROVE  GrantInv'
<1>1. /\ con \in [Sources -> ConsumeTasks] /\ ring \in [Sources -> Seq(Events)]
      /\ lagged \in [Sources -> BOOLEAN] /\ fresh \in Nat /\ fresh <= fresh' /\ fresh' \in Nat
      /\ UNCHANGED <<hostVars, epoch, clockValid, hub, src, fresh, last, news, run>>
      /\ con[s].pc = "select" /\ Chain(s) /\ src[s].seq \in Nat
  BY InvParts DEF TaskPart, HostPart, SourcePart, Lagged, hostVars, GrantInv, SourceStates
<1>2. /\ con'[s] = Adopt(s, Latest(s).gen, Latest(s).seq, "loop") /\ ring'[s] = <<>>
      /\ \A x \in Sources \ {s} : con'[x] = con[x] /\ ring'[x] = ring[x] /\ lagged'[x] = lagged[x]
  BY <1>1 DEF Lagged
<1>3. /\ con'[s].pc = "reset" /\ con'[s].then = "loop" /\ con'[s].gen = Latest(s).gen
      /\ con'[s].mark = Latest(s).seq
  BY <1>1, <1>2 DEF Adopt, ConsumeTasks
<1>4. Current(s)' = Current(s) /\ Sending(s)' = Sending(s)
  BY <1>1 DEF Current, Sending
<1>5. LooksAgain(s)' /\ HandInv(s)'
  BY <1>3 DEF LooksAgain, HandInv, InHand
<1>6. KnowsGeneration(s)'
  BY <1>1, <1>3, TakesLatest
<1>7. StreamInv(s)' /\ OneEvent(s)'
  BY <1>1, <1>2, <1>4 DEF Chain, StreamInv, Reached, OneEvent, Sending
<1>8. NothingMissed(s)'
  <2>1. Current(s) => Seen(s)' = src[s].seq
    BY <1>1, <1>3, LatestKnown DEF Seen
  <2>2. src[s].seq + 1 .. src[s].seq = {}
    BY <1>1
  <2> QED BY <1>1, <1>4, <2>1, <2>2 DEF NothingMissed
<1>9. Chain(s)'
  BY <1>5, <1>6, <1>7, <1>8 DEF Chain
<1>10. s \in DOMAIN hub.ep => Judged(s)'
  BY <1>1, <1>3, AdoptedJudged DEF GrantInv
<1> QED BY <1>1, <1>2, <1>9, <1>10, ActorGrant

-----------------------------------------------------------------------------
(* The task receives an event                                              *)

(* The oldest event leaves, and the others tell of what came after it.     *)
LEMMA ReceiveTail ==
  ASSUME SafetyInv, NEW s \in Sources, Chain(s), Receive(s), NEW e, e = Head(ring[s])
  PROVE  /\ e \in Events /\ Sane(e) /\ Reached(s, e) /\ Known(s, e.gen)
         /\ \A i \in DOMAIN ring'[s] : \E j \in DOMAIN ring[s] : ring'[s][i] = ring[s][j]
         /\ \A i \in DOMAIN ring'[s] : Follows(e, ring'[s][i])
         /\ Sending(s) => Follows(e, src[s].sending)
         /\ \A i \in DOMAIN ring[s] : ring[s][i] = e \/ Follows(e, ring[s][i])
         /\ \E i \in DOMAIN ring[s] : ring[s][i] = e
         /\ StreamInv(s)' /\ OneEvent(s)'
         /\ \A q : Arriving(s, q) => (e.gen = src[s].gen /\ e.seq = q) \/ Arriving(s, q)'
<1> DEFINE n == Len(ring[s])
<1>1. /\ ring[s] \in Seq(Events) /\ n \in Nat /\ n > 0 /\ ring' = [ring EXCEPT ![s] = Tail(@)]
      /\ ring \in [Sources -> Seq(Events)] /\ UNCHANGED <<src, last>> /\ StreamInv(s) /\ OneEvent(s)
  BY InvParts DEF SourcePart, Receive, Chain
<1>2. /\ 1 \in DOMAIN ring[s] /\ e = ring[s][1] /\ DOMAIN ring[s] = 1 .. n
      /\ ring'[s] = Tail(ring[s])
  BY <1>1
<1>3. /\ DOMAIN ring'[s] = 1 .. n - 1
      /\ \A i \in 1 .. n - 1 : i + 1 \in 1 .. n /\ ring'[s][i] = ring[s][i + 1]
  BY <1>1, <1>2
<1>4. e \in Events /\ Sane(e) /\ Reached(s, e) /\ Known(s, e.gen)
  BY <1>1, <1>2, SentIsKnown DEF StreamInv
<1>5. ASSUME NEW i \in DOMAIN ring[s] PROVE i = 1 \/ Follows(e, ring[s][i])
  <2>1. i \in Nat /\ (i = 1 \/ 1 < i)
    BY <1>1, <1>2
  <2> QED BY <1>1, <1>2, <2>1 DEF StreamInv
<1>6. ASSUME NEW i \in DOMAIN ring'[s]
      PROVE  /\ i \in Nat /\ i + 1 \in DOMAIN ring[s] /\ ring'[s][i] = ring[s][i + 1] /\ i + 1 # 1
  BY <1>1, <1>2, <1>3
<1>7. ASSUME NEW i \in DOMAIN ring'[s] PROVE Follows(e, ring'[s][i])
  <2>1. Follows(e, ring[s][i + 1])
    BY <1>5, <1>6
  <2> QED BY <1>6, <2>1
<1>8. StreamInv(s)'
  <2>1. \A f : Reached(s, f)' = Reached(s, f)
    BY <1>1 DEF Reached
  <2>2. Sending(s)' = Sending(s)
    BY <1>1 DEF Sending
  <2>3. ASSUME NEW i \in DOMAIN ring'[s], NEW j \in DOMAIN ring'[s], i < j
        PROVE  Follows(ring'[s][i], ring'[s][j])
    <3>1. i + 1 < j + 1
      BY <1>6, <2>3
    <3> QED BY <1>1, <1>6, <3>1 DEF StreamInv
  <2>4. ASSUME NEW i \in DOMAIN ring'[s]
        PROVE  /\ Sane(ring'[s][i]) /\ Reached(s, ring'[s][i])
               /\ Sending(s) => Follows(ring'[s][i], src[s].sending)
    BY <1>1, <1>6 DEF StreamInv
  <2> QED BY <1>1, <2>1, <2>2, <2>3, <2>4 DEF StreamInv
<1>9. ASSUME NEW q, Arriving(s, q), ~(e.gen = src[s].gen /\ e.seq = q) PROVE Arriving(s, q)'
  <2>1. ASSUME NEW i \in DOMAIN ring[s], ring[s][i].gen = src[s].gen, ring[s][i].seq = q
        PROVE  Arriving(s, q)'
    <3>1. i \in 1 .. n /\ i # 1
      BY <1>2, <1>9, <2>1
    <3>2. i - 1 \in 1 .. n - 1 /\ i - 1 + 1 = i
      BY <1>1, <3>1
    <3>3. i - 1 \in DOMAIN ring'[s] /\ ring'[s][i - 1] = ring[s][i]
      BY <1>3, <3>2
    <3> QED BY <1>1, <2>1, <3>3 DEF Arriving
  <2>2. CASE Sending(s) /\ src[s].sending.gen = src[s].gen /\ src[s].sending.seq = q
    BY <1>1, <2>2 DEF Arriving, Sending
  <2> QED BY <1>9, <2>1, <2>2 DEF Arriving
<1>10. OneEvent(s)'
  BY <1>1 DEF OneEvent, Sending
<1>11. Sending(s) => Follows(e, src[s].sending)
  BY <1>1, <1>2 DEF StreamInv
<1> QED BY <1>2, <1>4, <1>5, <1>6, <1>7, <1>8, <1>9, <1>10, <1>11

(* An event that is not ignored is of the source's own generation.         *)
LEMMA AdmittedIsCurrent ==
  ASSUME SafetyInv, NEW s \in Sources, NEW g, Known(s, g), g = Latest(s).gen
  PROVE  Current(s) /\ g = src[s].gen
<1>1. Len(src[s].gen) \in Nat
  BY InvParts DEF SourcePart, SourceStates, Generations
<1>2. ASSUME ~Current(s) PROVE FALSE
  <2>1. g[1] = src[s].gen[1] /\ Len(g) = Len(src[s].gen) + 1
    BY <1>2, LatestKnown
  <2> QED BY <1>1, <2>1 DEF Known
<1> QED BY <1>2, LatestKnown

(* What is left of the chain once the task has heard the event.            *)
LEMMA HeardChain ==
  ASSUME SafetyInv, NEW s \in Sources, Chain(s), Receive(s), NEW e, e = Head(ring[s]),
         e.gen = Latest(s).gen, con'[s].gen = e.gen, con'[s].mark \in Nat,
         Seen(s) <= con'[s].mark, e.seq <= con'[s].mark, con'[s].mark <= src[s].seq,
         con'[s].pc # "select", ~(con'[s].pc = "reset" /\ con'[s].then = "select"),
         InHand(con'[s]) =>
           /\ con'[s].event = e /\ con'[s].mark = e.seq
           /\ e.outcome = "safe" => e.start >= con'[s].from
  PROVE  Chain(s)'
<1>1. /\ e \in Events /\ Sane(e) /\ Reached(s, e) /\ Known(s, e.gen)
      /\ \A i \in DOMAIN ring'[s] : Follows(e, ring'[s][i])
      /\ Sending(s) => Follows(e, src[s].sending)
      /\ StreamInv(s)' /\ OneEvent(s)'
      /\ \A q : Arriving(s, q) => (e.gen = src[s].gen /\ e.seq = q) \/ Arriving(s, q)'
  BY ReceiveTail
<1>2. Current(s) /\ e.gen = src[s].gen
  BY <1>1, AdmittedIsCurrent
<1>3. /\ UNCHANGED <<epoch, clockValid, src, fresh, last>> /\ lagged' = lagged /\ ~lagged[s]
      /\ Len(src[s].gen) \in Nat /\ src[s].seq \in Nat /\ Seen(s) \in Nat /\ e.seq \in Nat
  <2>1. con[s].mark \in Nat
    BY InvParts DEF TaskPart, ConsumeTasks
  <2>2. Len(src[s].gen) \in Nat /\ src[s].seq \in Nat
    BY InvParts DEF SourcePart, SourceStates, Generations
  <2>3. e.seq \in Nat
    BY <1>1 DEF Events
  <2>4. Seen(s) \in Nat
    BY <2>1 DEF Seen
  <2> QED BY <2>2, <2>3, <2>4 DEF Receive, hostVars
<1>4. Current(s)' = Current(s) /\ Sending(s)' = Sending(s)
  BY <1>3 DEF Current, Sending
<1>5. NothingMissed(s)'
  <2> SUFFICES ASSUME NEW q \in con'[s].mark + 1 .. src[s].seq PROVE Arriving(s, q)'
    BY <1>2, <1>3 DEF NothingMissed, Seen
  <2>1. q \in Seen(s) + 1 .. src[s].seq /\ q # e.seq
    BY <1>3
  <2> QED BY <1>1, <1>2, <1>3, <2>1 DEF Chain, NothingMissed
<1>6. KnowsGeneration(s)'
  <2>1. Len(con'[s].gen) > 0 /\ con'[s].gen[1] < fresh
    BY <1>1 DEF Known
  <2>2. ~(Len(con'[s].gen) > Len(src[s].gen))
    BY <1>2, <1>3
  <2> QED BY <1>3, <2>1, <2>2 DEF KnowsGeneration
<1>7. LooksAgain(s)'
  BY DEF LooksAgain
<1>8. HandInv(s)'
  BY <1>1, <1>3, <1>4 DEF HandInv, Known, Reached
<1> QED BY <1>1, <1>5, <1>6, <1>7, <1>8 DEF Chain

(* The next event of the task's generation is the next of the source.      *)
LEMMA NextHeard ==
  ASSUME SafetyInv, NEW s \in Sources, Chain(s), Receive(s), NEW e, e = Head(ring[s]),
         Current(s), e.gen = src[s].gen, con[s].gen = src[s].gen, e.seq > con[s].mark
  PROVE  e.seq = con[s].mark + 1
<1> DEFINE q == con[s].mark + 1
<1>1. /\ e \in Events /\ Reached(s, e)
      /\ Sending(s) => Follows(e, src[s].sending)
      /\ \A i \in DOMAIN ring[s] : ring[s][i] = e \/ Follows(e, ring[s][i])
  BY ReceiveTail
<1>2. con[s].mark \in Nat /\ src[s].seq \in Nat /\ e.seq \in Nat
  BY <1>1, InvParts DEF TaskPart, ConsumeTasks, SourcePart, SourceStates, Events
<1>3. Arriving(s, q)
  <2>1. e.seq <= src[s].seq
    BY <1>1 DEF Reached
  <2>2. q \in Seen(s) + 1 .. src[s].seq
    BY <1>2, <2>1 DEF Seen
  <2>3. ~lagged[s]
    BY DEF Receive
  <2> QED BY <2>2, <2>3 DEF Chain, NothingMissed
<1>4. ASSUME NEW f, Follows(e, f), f.gen = src[s].gen, f.seq = q PROVE FALSE
  <2>1. e.seq < q
    BY <1>4 DEF Follows
  <2> QED BY <1>2, <2>1
<1>5. CASE \E i \in DOMAIN ring[s] : ring[s][i].gen = src[s].gen /\ ring[s][i].seq = q
  BY <1>1, <1>4, <1>5
<1>6. CASE Sending(s) /\ src[s].sending.gen = src[s].gen /\ src[s].sending.seq = q
  BY <1>1, <1>4, <1>6
<1> QED BY <1>3, <1>5, <1>6 DEF Arriving

(* A safe event does not part the run: a bad reading before it would have  *)
(* been heard.                                                             *)
LEMMA RunGoesOn ==
  ASSUME SafetyInv, NEW s \in Sources, Chain(s), Receive(s), NEW e, e = Head(ring[s]),
         Current(s), e.gen = src[s].gen, con[s].gen = src[s].gen, e.seq > con[s].mark,
         e.outcome = "safe", RunUnbroken(s)
  PROVE  /\ e.bad = run[s].bad
         /\ con'[s].gen = con[s].gen /\ con'[s].mark = e.seq /\ UNCHANGED <<src, run>>
              => RunUnbroken(s)'
<1>1. /\ e \in Events /\ Sane(e) /\ Reached(s, e)
      /\ \A i \in DOMAIN ring'[s] : Follows(e, ring'[s][i])
      /\ Sending(s) => Follows(e, src[s].sending)
      /\ \E i \in DOMAIN ring[s] : ring[s][i] = e
  BY ReceiveTail
<1>2. e.bad = run[s].bad
  <2>1. con[s].mark \in Nat /\ e.seq \in Nat /\ e.bad \in Nat
    BY <1>1, InvParts DEF TaskPart, ConsumeTasks, Events
  <2>2. e.seq = con[s].mark + 1 /\ e.bad < e.seq
    BY <1>1, NextHeard DEF Sane
  <2>3. e.bad = run[s].bad \/ e.bad > con[s].mark
    BY <1>1 DEF RunUnbroken, Continues
  <2> QED BY <2>1, <2>2, <2>3
<1>3. ASSUME con'[s].gen = con[s].gen, con'[s].mark = e.seq, UNCHANGED <<src, run>>
      PROVE  RunUnbroken(s)'
  <2>1. ASSUME NEW f, Follows(e, f), f.gen = con'[s].gen
        PROVE  f.bad = run[s].bad \/ f.bad > con'[s].mark
    BY <1>2, <1>3, <2>1 DEF Follows
  <2>2. src[s].bad = run[s].bad \/ src[s].bad > con'[s].mark
    BY <1>1, <1>2, <1>3 DEF Reached
  <2>3. Sending(s)' = Sending(s)
    BY <1>3 DEF Sending
  <2>4. \A i \in DOMAIN ring'[s] : Continues(s, ring[s][i])'
    BY <1>1, <1>3, <2>1 DEF Continues
  <2>5. Sending(s) => Continues(s, src[s].sending)'
    BY <1>1, <1>3, <2>1 DEF Continues
  <2> QED BY <1>3, <2>2, <2>3, <2>4, <2>5 DEF RunUnbroken, Continues
<1> QED BY <1>2, <1>3

(* The task ignores, drops or takes the event; or adopts its generation.   *)
LEMMA ReceiveGrant ==
  ASSUME SafetyInv, GrantInv, NEW s \in Sources, Receive(s)
  PROVE  GrantInv'
<1> DEFINE e == Head(ring[s])
           a == Adopt(s, e.gen, 0, "loop")
           heard == [con[s] EXCEPT !.pc = "loop", !.mark = IF e.seq <= con[s].mark THEN con[s].mark ELSE e.seq,
                                   !.event = NoEvent, !.epoch = 0]
           taken == [con[s] EXCEPT !.pc = "deliver", !.mark = e.seq, !.event = e, !.epoch = epoch]
           adopted(d) == [a EXCEPT !.then = IF d THEN "loop" ELSE "deliver", !.mark = e.seq,
                                   !.event = IF d THEN NoEvent ELSE e, !.epoch = IF d THEN 0 ELSE epoch]
<1>1. /\ con \in [Sources -> ConsumeTasks] /\ ring \in [Sources -> Seq(Events)]
      /\ fresh \in Nat /\ fresh <= fresh' /\ fresh' \in Nat /\ Chain(s)
      /\ UNCHANGED <<hostVars, epoch, clockValid, hub, src, lagged, fresh, last, news, run>>
      /\ con[s].pc = "select" /\ con[s].mark \in Nat /\ con[s] \in ConsumeTasks
  BY InvParts DEF TaskPart, HostPart, SourcePart, Receive, hostVars, GrantInv, ConsumeTasks
<1>2. /\ e \in Events /\ Sane(e) /\ Reached(s, e) /\ Known(s, e.gen) /\ e.seq \in Nat /\ 1 <= e.seq
      /\ \A i \in DOMAIN ring'[s] : \E j \in DOMAIN ring[s] : ring'[s][i] = ring[s][j]
      /\ StreamInv(s)' /\ OneEvent(s)'
      /\ \A q : Arriving(s, q) => (e.gen = src[s].gen /\ e.seq = q) \/ Arriving(s, q)'
  BY <1>1, ReceiveTail DEF Events, Sane
<1>3. \A x \in Sources \ {s} : con'[x] = con[x] /\ ring'[x] = ring[x]
  BY <1>1 DEF Receive
<1>4. Latest(s).epoch = epoch
  BY LatestTyped
<1>5. \/ e.gen # Latest(s).gen /\ con'[s] = [con[s] EXCEPT !.pc = "loop"]
      \/ /\ e.gen = Latest(s).gen /\ con[s].gen = e.gen
         /\ e.seq <= con[s].mark \/ TooEarly(con[s], e)
         /\ con'[s] = heard
      \/ /\ e.gen = Latest(s).gen /\ con[s].gen = e.gen
         /\ ~(e.seq <= con[s].mark) /\ ~TooEarly(con[s], e)
         /\ con'[s] = taken
      \/ /\ e.gen = Latest(s).gen /\ con[s].gen # e.gen
         /\ con'[s] = adopted(TooEarly(a, e))
  <2> DEFINE c == IF con[s].gen = e.gen THEN con[s] ELSE a
               drop == e.seq <= c.mark \/ TooEarly(c, e)
               next == IF drop THEN "loop" ELSE "deliver"
               to == IF c.pc = "reset" THEN [c EXCEPT !.then = next] ELSE [c EXCEPT !.pc = next]
               new == [to EXCEPT !.mark = IF e.seq <= c.mark THEN c.mark ELSE e.seq,
                                 !.event = IF drop THEN NoEvent ELSE e,
                                 !.epoch = IF drop THEN 0 ELSE Latest(s).epoch]
  <2>2. con'[s] = IF e.gen # Latest(s).gen THEN [con[s] EXCEPT !.pc = "loop"] ELSE new
    BY <1>1 DEF Receive
  <2>3. CASE e.gen # Latest(s).gen
    BY <2>2, <2>3
  <2>4. CASE e.gen = Latest(s).gen /\ con[s].gen = e.gen
    <3>1. c = con[s] /\ c.pc # "reset" /\ con'[s] = new
      BY <1>1, <2>2, <2>4
    <3>2. to = [con[s] EXCEPT !.pc = next]
      BY <3>1
    <3>3. CASE drop
      <4>1. new = heard
        BY <1>1, <3>1, <3>2, <3>3 DEF ConsumeTasks
      <4> QED BY <2>4, <3>1, <3>3, <4>1
    <3>4. CASE ~drop
      <4>1. new = taken
        BY <1>1, <1>4, <3>1, <3>2, <3>4 DEF ConsumeTasks
      <4> QED BY <2>4, <3>1, <3>4, <4>1
    <3> QED BY <3>3, <3>4
  <2>5. CASE e.gen = Latest(s).gen /\ con[s].gen # e.gen
    <3>1. c = a /\ con'[s] = new
      BY <2>2, <2>5
    <3>2. a.pc = "reset" /\ a.mark = 0 /\ a \in ConsumeTasks
      BY <1>1, <1>2, InvParts DEF Adopt, ConsumeTasks, HostPart, Events
    <3>3. to = [a EXCEPT !.then = next] /\ (drop <=> TooEarly(a, e)) /\ ~(e.seq <= c.mark)
      BY <1>2, <3>1, <3>2
    <3>4. new = adopted(TooEarly(a, e))
      BY <1>4, <3>1, <3>2, <3>3 DEF ConsumeTasks
    <3> QED BY <2>5, <3>1, <3>4
  <2> QED BY <2>3, <2>4, <2>5
<1>6. Current(s)' = Current(s) /\ Sending(s)' = Sending(s)
  BY <1>1 DEF Current, Sending
<1> SUFFICES Chain(s)' /\ (s \in DOMAIN hub.ep => Judged(s)')
  BY <1>1, <1>3, ActorGrant
<1>7. CASE e.gen # Latest(s).gen /\ con'[s] = [con[s] EXCEPT !.pc = "loop"]
  <2>1. /\ con'[s].pc = "loop" /\ con'[s].gen = con[s].gen /\ con'[s].mark = con[s].mark
        /\ con'[s].from = con[s].from
    BY <1>1, <1>7 DEF ConsumeTasks
  <2>2. LooksAgain(s)' /\ HandInv(s)'
    BY <2>1 DEF LooksAgain, HandInv, InHand
  <2>3. KnowsGeneration(s)'
    BY <1>1, <1>6, <2>1 DEF Chain, KnowsGeneration
  <2>4. NothingMissed(s)'
    <3>1. Seen(s)' = Seen(s)
      BY <1>1, <2>1 DEF Seen
    <3>2. Current(s) => e.gen # src[s].gen
      BY <1>7, LatestKnown
    <3> QED BY <1>1, <1>2, <1>6, <3>1, <3>2 DEF Chain, NothingMissed
  <2>5. s \in DOMAIN hub.ep => Judged(s)'
    BY <1>1, <1>2, <2>1, MovedJudged DEF GrantInv
  <2> QED BY <1>2, <2>2, <2>3, <2>4, <2>5 DEF Chain
<1>8. ASSUME e.gen = Latest(s).gen PROVE Current(s) /\ e.gen = src[s].gen /\ e.seq <= src[s].seq
  <2>1. Current(s) /\ e.gen = src[s].gen
    BY <1>2, <1>8, AdmittedIsCurrent
  <2> QED BY <1>2, <2>1 DEF Reached
<1>9. ASSUME e.gen = Latest(s).gen, con[s].gen = e.gen
      PROVE  Seen(s) = con[s].mark /\ con[s].mark <= src[s].seq
  BY <1>1, <1>8, <1>9 DEF Seen, Chain, KnowsGeneration
<1>10. ASSUME e.gen = Latest(s).gen, con[s].gen = e.gen, e.seq > con[s].mark, e.outcome = "safe",
              RunUnbroken(s)
       PROVE  /\ e.bad = run[s].bad
              /\ con'[s].gen = con[s].gen /\ con'[s].mark = e.seq => RunUnbroken(s)'
  BY <1>1, <1>8, <1>10, RunGoesOn
<1>11. CASE /\ e.gen = Latest(s).gen /\ con[s].gen = e.gen
            /\ e.seq <= con[s].mark \/ TooEarly(con[s], e)
            /\ con'[s] = heard
  <2>1. /\ con'[s].pc = "loop" /\ con'[s].gen = con[s].gen /\ con'[s].from = con[s].from
        /\ con'[s].mark = IF e.seq <= con[s].mark THEN con[s].mark ELSE e.seq
    BY <1>1, <1>11 DEF ConsumeTasks
  <2> HIDE DEF heard
  <2>2. Chain(s)'
    <3>1. /\ con'[s].mark \in Nat /\ Seen(s) <= con'[s].mark /\ e.seq <= con'[s].mark
          /\ con'[s].mark <= src[s].seq
      BY <1>1, <1>2, <1>8, <1>9, <1>11, <2>1
    <3> QED BY <1>1, <1>11, <2>1, <3>1, HeardChain DEF InHand
  <2>3. ASSUME s \in DOMAIN hub.ep PROVE Judged(s)'
    <3>1. Judged(s)
      BY <2>3 DEF GrantInv
    <3>2. CASE e.seq <= con[s].mark
      BY <1>1, <1>2, <2>1, <2>3, <3>1, <3>2, MovedJudged
    <3>3. CASE ~(e.seq <= con[s].mark)
      <4>1. con'[s].mark = e.seq /\ e.seq > con[s].mark /\ e.outcome = "safe"
        BY <1>1, <1>2, <1>11, <2>1, <3>3 DEF TooEarly
      <4>2. hub.ep[s].seq \in Nat
        BY <2>3, InvParts DEF HubPart, Hubs, Endpoints
      <4>3. hub.ep[s].seq <= con[s].mark => hub.ep[s].seq <= e.seq
        BY <1>1, <1>2, <4>1, <4>2
      <4>4. AliveInv(s)'
        BY <1>1, <2>1, <3>1, <4>1, <4>3 DEF Judged, AliveInv, Alive, Running
      <4>5. RunUnbroken(s) => RunUnbroken(s)'
        BY <1>10, <1>11, <2>1, <4>1
      <4>6. RunInv(s)'
        BY <1>1, <2>1, <3>1, <4>5 DEF Judged, RunInv, Running, hostVars
      <4>7. HeardInv(s)'
        BY <1>1, <1>2, <1>8, <1>11, <2>1, <4>1 DEF HeardInv, Reached, Fatal
      <4> QED BY <1>1, <3>1, <4>4, <4>6, <4>7 DEF Judged, Counts, Running
    <3> QED BY <3>2, <3>3
  <2> QED BY <2>2, <2>3
<1>12. CASE /\ e.gen = Latest(s).gen /\ con[s].gen = e.gen
            /\ ~(e.seq <= con[s].mark) /\ ~TooEarly(con[s], e)
            /\ con'[s] = taken
  <2>1. /\ con'[s].pc = "deliver" /\ con'[s].gen = con[s].gen /\ con'[s].from = con[s].from
        /\ con'[s].mark = e.seq /\ con'[s].event = e /\ con'[s].epoch = epoch
    BY <1>1, <1>12 DEF ConsumeTasks
  <2>2. /\ e.seq > con[s].mark
        /\ e.outcome = "safe" => e.start >= con[s].from
    <3>1. e.start \in Nat /\ con[s].from \in Nat
      BY <1>1, <1>2 DEF Events, ConsumeTasks
    <3> QED BY <1>1, <1>2, <1>12, <3>1 DEF TooEarly
  <2> HIDE DEF taken
  <2>3. Chain(s)'
    <3>1. /\ con'[s].mark \in Nat /\ Seen(s) <= con'[s].mark /\ e.seq <= con'[s].mark
          /\ con'[s].mark <= src[s].seq
      BY <1>1, <1>2, <1>8, <1>9, <1>12, <2>1, <2>2
    <3> QED BY <1>1, <1>12, <2>1, <2>2, <3>1, HeardChain
  <2>4. ASSUME s \in DOMAIN hub.ep PROVE Judged(s)'
    <3>1. Judged(s)
      BY <2>4 DEF GrantInv
    <3>2. hub.ep[s].seq \in Nat
      BY <2>4, InvParts DEF HubPart, Hubs, Endpoints
    <3>3. hub.ep[s].seq <= con[s].mark => hub.ep[s].seq < e.seq /\ hub.ep[s].seq <= e.seq
      BY <1>1, <1>2, <2>2, <3>2
    <3>4. AliveInv(s)'
      BY <1>1, <2>1, <3>1, <3>3 DEF Judged, AliveInv, Alive, Running
    <3>5. RunUnbroken(s) /\ e.outcome = "safe" => e.bad = run[s].bad
      BY <1>10, <1>12, <2>2
    <3>6. RunInv(s)'
      BY <1>1, <2>1, <3>1, <3>5 DEF Judged, RunInv, Running, hostVars
    <3>7. HeardInv(s)'
      BY <2>1 DEF HeardInv
    <3> QED BY <1>1, <3>1, <3>4, <3>6, <3>7 DEF Judged, Counts, Running
  <2> QED BY <2>3, <2>4
<1>13. CASE /\ e.gen = Latest(s).gen /\ con[s].gen # e.gen
            /\ con'[s] = adopted(TooEarly(a, e))
  <2> DEFINE d == TooEarly(a, e)
  <2>1. /\ con'[s].pc = "reset" /\ con'[s].then = (IF d THEN "loop" ELSE "deliver")
        /\ con'[s].gen = e.gen /\ con'[s].mark = e.seq /\ con'[s].from = now
        /\ con'[s].event = IF d THEN NoEvent ELSE e
    <3>1. a \in ConsumeTasks /\ a.pc = "reset" /\ a.gen = e.gen /\ a.from = now
      BY <1>1, <1>2, InvParts DEF Adopt, ConsumeTasks, HostPart, Events
    <3> HIDE DEF d, a
    <3> QED BY <1>13, <3>1 DEF ConsumeTasks, d
  <2>2. ~d /\ e.outcome = "safe" => e.start >= con'[s].from
    <3>1. e.start \in Nat /\ now \in Nat /\ a.from = now
      BY <1>1, <1>2, InvParts DEF Events, HostPart, Adopt, ConsumeTasks
    <3> QED BY <2>1, <3>1 DEF TooEarly
  <2> HIDE DEF adopted, d
  <2>3. Chain(s)'
    <3>1. Seen(s) = 0
      BY <1>8, <1>13 DEF Seen
    <3>2. /\ con'[s].mark \in Nat /\ Seen(s) <= con'[s].mark /\ e.seq <= con'[s].mark
          /\ con'[s].mark <= src[s].seq
      BY <1>2, <1>8, <1>13, <2>1, <3>1
    <3>3. InHand(con'[s]) => ~d
      BY <2>1 DEF InHand
    <3> QED BY <1>1, <1>13, <2>1, <2>2, <3>2, <3>3, HeardChain
  <2>4. s \in DOMAIN hub.ep => Judged(s)'
    BY <1>1, <2>1, AdoptedJudged DEF GrantInv
  <2> QED BY <2>3, <2>4
<1> HIDE DEF e, a, heard, taken, adopted
<1> QED BY <1>5, <1>7, <1>11, <1>12, <1>13

-----------------------------------------------------------------------------
(* The hub                                                                 *)

(* The endpoint of a task that starts over, or ends, has nothing left.     *)
LEMMA ResetGrant ==
  ASSUME SafetyInv, GrantInv, NEW s \in Sources, Reset(s) \/ Finish(s)
  PROVE  GrantInv'
<1> DEFINE h == ResetSource(Synced(hub), s, con[s].gen)
           D == DOMAIN hub.ep
<1>1. /\ con \in [Sources -> ConsumeTasks] /\ con[s].gen \in Generations
      /\ UNCHANGED <<hostVars, srcVars, news>>
      /\ UNCHANGED <<epoch, clockValid, src, ring, lagged, fresh, last, news>>
      /\ HubIs(Snapshot(h)) /\ Chain(s) /\ D \subseteq Sources
  BY InvParts, AskedOK DEF TaskPart, ConsumeTasks, Reset, Finish, hostVars, srcVars, GrantInv
<1>2. /\ Counted(Synced(hub), D) /\ \A x \in D : KeptOrGone(Synced(hub), x)
      /\ Settled(Synced(hub)) /\ (Synced(hub).safe => hub.safe)
  BY SyncedCounted
<1>3. /\ Counted(h, D) /\ (s \in D => ~Alive(h.ep[s]))
      /\ \A x \in D : h.ep[x] = Synced(hub).ep[x] \/ ~Alive(h.ep[x])
  BY <1>1, <1>2, ResetCounted
<1>4. \A x \in D : KeptOrGone(h, x)
  <2> HIDE DEF h
  <2> QED BY <1>2, <1>3 DEF KeptOrGone
<1> HIDE DEF h
<1>5. /\ Settled(hub') /\ DOMAIN hub'.ep = D
      /\ \A x \in D :
           /\ Counts(hub'.ep[x]) /\ KeptOrGone(hub', x)
           /\ Running(hub'.ep[x]) => run'[x] = run[x]
           /\ ~Alive(h.ep[x]) => ~Alive(hub'.ep[x])
  BY <1>1, <1>3, <1>4, LookEffect
<1>6. s \in D => Judged(s)'
  BY <1>3, <1>5, GoneJudged
<1>7. /\ con'[s].gen = con[s].gen /\ con'[s].mark = con[s].mark /\ con'[s].from = con[s].from
      /\ con'[s].event = con[s].event /\ con'[s].then = con[s].then
      /\ \/ con[s].pc = "reset" /\ con'[s].pc = con[s].then /\ con'[s].pc # "reset"
         \/ con'[s].pc = "done"
      /\ \A x \in Sources \ {s} : con'[x] = con[x]
  BY <1>1 DEF Reset, Finish, Goes, ConsumeTasks
<1>8. Current(s)' = Current(s) /\ Sending(s)' = Sending(s)
  BY <1>1 DEF Current, Sending
<1>9. LooksAgain(s)'
  <2>1. con'[s].pc = "select" => con[s].pc = "reset" /\ con[s].then = "select"
    BY <1>7
  <2> QED BY <1>1, <1>7, <1>8, <2>1 DEF Chain, LooksAgain
<1>10. HandInv(s)'
  <2>1. InHand(con'[s]) => InHand(con[s])
    BY <1>7 DEF InHand
  <2> QED BY <1>1, <1>7, <1>8, <2>1 DEF Chain, HandInv, Known, Reached
<1>11. Chain(s)'
  BY <1>1, <1>7, <1>9, <1>10, MovedChain
<1> QED
  <2> DEFINE T == {s}
  <2>1. /\ \A x \in D \ T : /\ KeptOrGone(hub', x) /\ Counts(hub'.ep[x])
                            /\ Running(hub'.ep[x]) => run'[x] = run[x]
        /\ \A x \in Sources \ T : con'[x] = con[x]
        /\ \A x \in T : Chain(x)' /\ (x \in D => Judged(x)')
    BY <1>5, <1>6, <1>7, <1>11
  <2> HIDE DEF T
  <2> QED BY <1>1, <1>5, <2>1, HubGrant

(* Anybody may look.                                                       *)
LEMMA ExpiryGrant ==
  ASSUME SafetyInv, GrantInv, Expiry
  PROVE  GrantInv'
<1> DEFINE D == DOMAIN hub.ep
<1>1. /\ UNCHANGED <<hostVars, srcVars, news, con>> /\ HubIs(Snapshot(Synced(hub)))
      /\ \A x \in Sources : con'[x] = con[x]
  BY DEF Expiry, Asked
<1>2. Counted(Synced(hub), D) /\ \A x \in D : KeptOrGone(Synced(hub), x)
  BY SyncedCounted
<1>3. /\ Settled(hub') /\ DOMAIN hub'.ep = D
      /\ \A x \in D :
           /\ Counts(hub'.ep[x]) /\ KeptOrGone(hub', x)
           /\ Running(hub'.ep[x]) => run'[x] = run[x]
  BY <1>1, <1>2, LookEffect
<1> QED
  <2> DEFINE T == {}
  <2>1. /\ \A x \in D \ T : /\ KeptOrGone(hub', x) /\ Counts(hub'.ep[x])
                            /\ Running(hub'.ep[x]) => run'[x] = run[x]
        /\ \A x \in Sources \ T : con'[x] = con[x]
        /\ \A x \in T : Chain(x)' /\ (x \in D => Judged(x)')
    BY <1>1, <1>3
  <2> HIDE DEF T
  <2> QED BY <1>1, <1>3, <2>1, HubGrant

(* A shut down hub has nothing.                                            *)
LEMMA ShutdownGrant ==
  ASSUME SafetyInv, GrantInv, Shutdown
  PROVE  GrantInv'
<1>1. /\ UNCHANGED <<epoch, clockValid, src, ring, lagged, fresh, last, news, con>>
      /\ DOMAIN hub'.ep = {} /\ ~hub'.safe /\ fresh \in Nat /\ fresh <= fresh'
  BY InvParts DEF Shutdown, HubIs, hostVars, srcVars, HostPart
<1>2. ASSUME NEW x \in Sources PROVE Chain(x)'
  <2>1. Chain(x)
    BY DEF GrantInv
  <2>2. OneEvent(x)'
    BY <1>1, <2>1 DEF Chain, OneEvent, Sending
  <2> QED BY <1>1, <2>1, <2>2, ChainFrame
<1>3. Settled(hub)'
  BY <1>1 DEF Settled
<1> QED BY <1>1, <1>2, <1>3 DEF GrantInv

-----------------------------------------------------------------------------
(* An event is delivered                                                   *)

(* Each counted reading adds an interval.                                  *)
LEMMA OneMoreInterval ==
  ASSUME NEW n \in Nat, NEW m, m = n + 1, NEW begin \in Nat, NEW counted \in Nat, NEW start \in Nat,
         counted - begin >= (n - 1) * Confirmation, start - counted >= Confirmation
  PROVE  start - begin >= (m - 1) * Confirmation
<1>1. Confirmation \in Nat
  BY PolicyAssumption
<1>2. (n - 1) * Confirmation = n * Confirmation - Confirmation
  BY <1>1
<1>3. m - 1 = n /\ n * Confirmation \in Nat
  BY <1>1
<1> QED BY <1>1, <1>2, <1>3

(* A safe reading that goes on with a run leaves it longer, or as it was.  *)
LEMMA RunGetsLonger ==
  ASSUME SafetyInv, GrantInv, NEW s \in DOMAIN hub.ep, NEW o \in Events, NEW f,
         Running(hub.ep[s]), Extends(f, hub.ep[s], o, now)
  PROVE  /\ f.runStart = run[s].recv /\ run[s].recv <= now
         /\ f.countedSafe - run[s].start >= (f.safeCount - 1) * Confirmation
         /\ f.confirmed => f.safeCount >= SafeReadings /\ now - run[s].recv >= Hold
<1> DEFINE e == hub.ep[s]
<1>1. /\ e \in Endpoints /\ RunInv(s) /\ Counts(e) /\ run[s] \in Runs /\ now \in Nat
      /\ Confirmation \in Nat \ {0} /\ Hold \in Nat
  BY InvParts, AskedOK, PolicyAssumption DEF HubPart, Hubs, GrantInv, Judged, HostPart, TaskPart
<1>2. /\ e.safeCount \in Nat /\ e.countedSafe \in Nat /\ run[s].start \in Nat /\ run[s].recv \in Nat
      /\ o.start \in Nat
  <2>1. e.safeCount \in Nat /\ e.countedSafe \in Nat
    BY <1>1 DEF Endpoints, Counts, Times
  <2> QED BY <1>1, <2>1 DEF Runs, Events
<1>3. /\ run[s].recv = e.runStart /\ run[s].recv <= now
      /\ e.countedSafe - run[s].start >= (e.safeCount - 1) * Confirmation
      /\ e.confirmed => e.safeCount >= SafeReadings /\ now - run[s].recv >= Hold
  BY <1>1 DEF RunInv
<1>4. f.runStart = run[s].recv
  BY <1>3 DEF Extends
<1>5. CASE f.safeCount = e.safeCount /\ f.countedSafe = e.countedSafe /\ f.confirmed = e.confirmed
  BY <1>3, <1>4, <1>5
<1>6. CASE /\ f.safeCount = e.safeCount + 1 /\ f.countedSafe = o.start
           /\ Eligible(e.countedSafe, o.start)
           /\ f.confirmed => f.safeCount >= SafeReadings /\ Since(now, f.runStart) >= Hold
  <2>1. e.countedSafe # NoTime
    BY <1>1 DEF Counts
  <2>2. o.start - e.countedSafe >= Confirmation
    BY <1>1, <1>2, <1>6, <2>1 DEF Eligible, Since
  <2>3. f.countedSafe - run[s].start >= (f.safeCount - 1) * Confirmation
    <3> HIDE DEF e
    <3>1. f.safeCount = e.safeCount + 1 /\ f.countedSafe = o.start
      BY <1>6
    <3> QED BY <1>2, <1>3, <2>2, <3>1, OneMoreInterval
  <2>4. Since(now, run[s].recv) = now - run[s].recv
    BY <1>1, <1>2, <1>3 DEF Since
  <2> QED BY <1>3, <1>4, <1>6, <2>3, <2>4
<1> QED BY <1>5, <1>6 DEF Extends

(* A run that a reading begins has that one reading.                       *)
LEMMA RunBegins ==
  ASSUME NEW o \in Events, NEW e, NEW f, Counts(e), ~Running(e), Extends(f, e, o, now),
         o.recv <= now, now \in Nat
  PROVE  /\ f.runStart = o.recv
         /\ f.countedSafe - o.start >= (f.safeCount - 1) * Confirmation
         /\ f.confirmed => f.safeCount >= SafeReadings /\ now - o.recv >= Hold
<1>1. o.start \in Nat /\ o.recv \in Nat /\ Confirmation \in Nat /\ Hold \in Nat
  BY PolicyAssumption DEF Events
<1>2. /\ f.runStart = o.recv /\ f.safeCount = 1 /\ f.countedSafe = o.start
      /\ f.confirmed => f.safeCount >= SafeReadings /\ Since(now, o.recv) >= Hold
  BY DEF Extends, Counts
<1>3. Since(now, o.recv) = now - o.recv
  BY <1>1 DEF Since
<1>4. (1 - 1) * Confirmation = 0 /\ o.start - o.start >= 0
  BY <1>1
<1> QED BY <1>2, <1>3, <1>4

(* The endpoint has what the event says; the task has heard it.            *)
LEMMA DeliverGrant ==
  ASSUME SafetyInv, GrantInv, NEW s \in Sources, Deliver(s)
  PROVE  GrantInv'
<1> DEFINE D == DOMAIN hub.ep
           o == con[s].event
<1>1. /\ con \in [Sources -> ConsumeTasks] /\ o \in Events /\ run \in [Sources -> Runs]
      /\ now \in Nat /\ D \subseteq Sources /\ con[s].mark \in Nat
      /\ UNCHANGED <<hostVars, srcVars, news>>
      /\ UNCHANGED <<now, epoch, clockValid, src, ring, lagged, fresh, last>>
      /\ con[s].pc = "deliver" /\ Chain(s)
  BY InvParts, AskedOK DEF TaskPart, ConsumeTasks, Deliver, hostVars, srcVars, GrantInv, HostPart
<1>2. /\ con'[s].gen = con[s].gen /\ con'[s].mark = con[s].mark /\ con'[s].from = con[s].from
      /\ con'[s].pc = "loop" /\ \A x \in Sources \ {s} : con'[x] = con[x]
  BY <1>1 DEF Deliver, ConsumeTasks
<1>3. Chain(s)'
  <2>1. LooksAgain(s)' /\ HandInv(s)'
    BY <1>2 DEF LooksAgain, HandInv, InHand
  <2> QED BY <1>1, <1>2, <2>1, MovedChain
<1>4. /\ o.gen = con[s].gen /\ o.seq = con[s].mark /\ Sane(o) /\ Reached(s, o)
      /\ o.outcome = "safe" => o.start >= con[s].from
      /\ \A i \in DOMAIN ring[s] : Follows(o, ring[s][i])
      /\ Sending(s) => Follows(o, src[s].sending)
  BY <1>1 DEF Chain, HandInv, InHand
<1>5. /\ Settled(hub') /\ DOMAIN hub'.ep = D
      /\ \A x \in D : Counts(hub'.ep[x])
      /\ \A x \in D \ {s} : KeptOrGone(hub', x) /\ (Running(hub'.ep[x]) => run'[x] = run[x])
  BY DeliverEffect
<1>6. ASSUME s \in D, Alive(hub'.ep[s])
      PROVE  /\ hub'.ep[s].gen = o.gen /\ hub'.ep[s].seq = o.seq
             /\ Fatal(o.outcome) => ~hub'.ep[s].permits
             /\ Running(hub'.ep[s]) =>
                   /\ o.outcome = "safe" /\ o.recv <= now
                   /\ \E x \in Endpoints :
                        /\ Extends(hub'.ep[s], x, o, now)
                        /\ Running(x) => x = hub.ep[s] /\ run'[s] = [run[s] EXCEPT !.bad = o.bad]
                        /\ ~Running(x) => /\ Counts(x)
                                          /\ run'[s] = [seq |-> o.seq, start |-> o.start,
                                                        recv |-> o.recv, bad |-> o.bad]
  BY <1>6, DeliverEffect
<1>7. ASSUME s \in D, Alive(hub'.ep[s]) PROVE Judged(s)'
  <2> DEFINE f == hub'.ep[s]
             r == run'[s]
  <2>1. AliveInv(s)'
    BY <1>1, <1>2, <1>4, <1>6, <1>7 DEF AliveInv, Sane
  <2>2. HeardInv(s)'
    <3>1. f.permits => ~Fatal(o.outcome)
      BY <1>6, <1>7
    <3>2. ASSUME con[s].gen = src[s].gen, con[s].mark = src[s].seq PROVE o.outcome = last[s]
      BY <1>4, <3>2 DEF Reached
    <3> QED BY <1>1, <1>2, <3>1, <3>2 DEF HeardInv
  <2>3. ASSUME Running(f)
        PROVE  /\ r.recv = f.runStart /\ r.recv <= now
               /\ f.countedSafe - r.start >= (f.safeCount - 1) * Confirmation
               /\ f.confirmed => f.safeCount >= SafeReadings /\ now - r.recv >= Hold
               /\ r.bad < r.seq /\ r.bad = o.bad /\ r.start >= con[s].from
    <3>1. PICK x \in Endpoints :
            /\ Extends(f, x, o, now)
            /\ Running(x) => x = hub.ep[s] /\ r = [run[s] EXCEPT !.bad = o.bad]
            /\ ~Running(x) => /\ Counts(x)
                              /\ r = [seq |-> o.seq, start |-> o.start, recv |-> o.recv, bad |-> o.bad]
      BY <1>6, <1>7, <2>3
    <3>2. o.outcome = "safe" /\ o.recv <= now
      BY <1>6, <1>7, <2>3
    <3> HIDE DEF f, r, o
    <3>3. CASE Running(x)
      <4>1. x = hub.ep[s] /\ r = [run[s] EXCEPT !.bad = o.bad] /\ run[s] \in Runs
        BY <1>1, <3>1, <3>3
      <4>2. RunInv(s) /\ Running(hub.ep[s])
        BY <1>7, <3>3, <4>1 DEF GrantInv, Judged
      <4>3. o.bad = run[s].bad /\ run[s].bad < run[s].seq /\ run[s].start >= con[s].from
        BY <1>1, <3>2, <4>2 DEF RunInv, o
      <4>4. r.recv = run[s].recv /\ r.start = run[s].start /\ r.seq = run[s].seq /\ r.bad = o.bad
        BY <4>1 DEF Runs
      <4> QED BY <1>1, <1>7, <3>1, <4>1, <4>2, <4>3, <4>4, RunGetsLonger
    <3>4. CASE ~Running(x)
      <4>1. r.recv = o.recv /\ r.start = o.start /\ r.seq = o.seq /\ r.bad = o.bad
        BY <3>1, <3>4
      <4>2. o.bad < o.seq /\ o.start >= con[s].from
        BY <1>4, <3>2 DEF Sane
      <4> QED BY <1>1, <3>1, <3>2, <3>4, <4>1, <4>2, RunBegins
    <3> QED BY <3>3, <3>4
  <2>4. ASSUME Running(f) PROVE RunUnbroken(s)'
    <3>1. r.bad = o.bad
      BY <2>3, <2>4
    <3>2. con[s].gen = src[s].gen => src[s].bad = o.bad \/ src[s].bad > con[s].mark
      BY <1>4 DEF Reached
    <3>3. \A e : Follows(o, e) /\ e.gen = con[s].gen => e.bad = o.bad \/ e.bad > con[s].mark
      BY <1>4 DEF Follows
    <3>4. Sending(s)' = Sending(s)
      BY <1>1 DEF Sending
    <3> HIDE DEF o
    <3> QED BY <1>1, <1>2, <1>4, <3>1, <3>2, <3>3, <3>4 DEF RunUnbroken, Continues
  <2>5. RunInv(s)'
    <3> HIDE DEF f, r
    <3> SUFFICES ASSUME Running(f) PROVE RunInv(s)'
      BY DEF RunInv, f
    <3>1. /\ r.recv = f.runStart /\ r.recv <= now
          /\ f.countedSafe - r.start >= (f.safeCount - 1) * Confirmation
          /\ f.confirmed => f.safeCount >= SafeReadings /\ now - r.recv >= Hold
          /\ r.bad < r.seq /\ r.start >= con[s].from
      BY <2>3
    <3> QED BY <1>1, <1>2, <2>4, <3>1 DEF RunInv, f, r
  <2>6. Counts(f)
    BY <1>5, <1>7
  <2> QED BY <2>1, <2>2, <2>5, <2>6 DEF Judged, Counts, Running
<1>8. s \in D => Judged(s)'
  BY <1>5, <1>7, GoneJudged
<1> QED
  <2> DEFINE T == {s}
  <2>1. /\ \A x \in D \ T : /\ KeptOrGone(hub', x) /\ Counts(hub'.ep[x])
                            /\ Running(hub'.ep[x]) => run'[x] = run[x]
        /\ \A x \in Sources \ T : con'[x] = con[x]
        /\ \A x \in T : Chain(x)' /\ (x \in D => Judged(x)')
    BY <1>2, <1>3, <1>5, <1>8
  <2>2. /\ UNCHANGED <<hostVars, srcVars, news>>
        /\ Settled(hub') /\ DOMAIN hub'.ep = D
    BY <1>1, <1>5
  <2> HIDE DEF T, o
  <2> QED BY <2>1, <2>2, HubGrant

-----------------------------------------------------------------------------
(* The invariant                                                           *)

(* In the beginning nothing has run, and nothing has been said.            *)
LEMMA InitGrant == Init => GrantInv
<1> SUFFICES ASSUME Init PROVE GrantInv
  OBVIOUS
<1>1. /\ <<0>> \in Generations /\ <<0>>[1] = 0 /\ Len(<<0>>) = 1 /\ fresh = 1
      /\ hub = [ep |-> [s \in Sources |-> NewEndpoint(<<0>>)], safe |-> FALSE, epoch |-> 0]
  BY DEF Init, Generations
<1>2. Counts(NewEndpoint(<<0>>)) /\ ~Alive(NewEndpoint(<<0>>))
  BY <1>1, NewEndpointCounts
<1>3. /\ DOMAIN hub.ep = Sources /\ ~hub.safe
      /\ \A s \in Sources : hub.ep[s] = NewEndpoint(<<0>>)
  BY <1>1
<1>4. Settled(hub)
  BY <1>2, <1>3 DEF Settled, Earns, Alive
<1>5. ASSUME NEW s \in Sources PROVE Judged(s)
  <2>1. Counts(hub.ep[s]) /\ ~Alive(hub.ep[s])
    BY <1>2, <1>3
  <2> QED BY <2>1 DEF Judged, AliveInv, RunInv, HeardInv, Alive
<1>6. ASSUME NEW s \in Sources PROVE Chain(s)
  <2>1. /\ src[s].gen = <<0>> /\ src[s].seq = 0 /\ src[s].bad = 0 /\ src[s].sending = NoEvent
        /\ ring[s] = <<>> /\ con[s].pc = "acquire" /\ con[s].gen = <<0>> /\ con[s].mark = 0
    BY DEF Init
  <2>2. StreamInv(s) /\ OneEvent(s) /\ LooksAgain(s) /\ HandInv(s)
    BY <2>1 DEF StreamInv, OneEvent, Sending, LooksAgain, HandInv, InHand
  <2>3. NothingMissed(s)
    <3>1. Seen(s) + 1 .. src[s].seq = {}
      BY <2>1 DEF Seen
    <3> QED BY <3>1 DEF NothingMissed
  <2>4. KnowsGeneration(s)
    BY <1>1, <2>1 DEF KnowsGeneration
  <2> QED BY <2>2, <2>3, <2>4 DEF Chain
<1> QED BY <1>3, <1>4, <1>5, <1>6 DEF GrantInv

(* Every step leaves the chains and what they have come to in order.       *)
LEMMA NextGrant == SafetyInv /\ SafetyInv' /\ GrantInv /\ [Next]_vars => GrantInv'
<1> SUFFICES ASSUME SafetyInv, SafetyInv', GrantInv, [Next]_vars PROVE GrantInv'
  OBVIOUS
<1>1. CASE Tick
  BY <1>1, TickGrant
<1>2. CASE Resume
  BY <1>2, ResumeGrant
<1>3. CASE Expiry
  BY <1>3, ExpiryGrant
<1>4. CASE Shutdown
  BY <1>4, ShutdownGrant
<1>5. ASSUME NEW s \in Sources, Source(s) PROVE GrantInv'
  <2>1. CASE ActorResume(s) \/ Regenerate(s) \/ SourceStops(s)
    BY <2>1, NewGenerationSteps
  <2>2. CASE StartPoll(s) \/ SourceDies(s)
    BY <2>2, QuietGrant
  <2>3. CASE SendEvent(s)
    BY <2>3, SendEventGrant
  <2>4. CASE \E o \in Readings, d \in Backdates, lost \in BOOLEAN : FinishPoll(s, o, d, lost)
    BY <2>4, FinishPollGrant
  <2> QED BY <1>5, <2>1, <2>2, <2>3, <2>4 DEF Source
<1>6. ASSUME NEW s \in Sources, Task(s) PROVE GrantInv'
  <2>1. CASE AcquireLease(s)
    BY <2>1, AcquireLeaseGrant
  <2>2. CASE Look(s)
    BY <2>2, LookGrant
  <2>3. CASE Reset(s) \/ Finish(s)
    BY <2>3, ResetGrant
  <2>4. CASE Wake(s)
    BY <2>4, WakeGrant
  <2>5. CASE Lagged(s)
    BY <2>5, LaggedGrant
  <2>6. CASE Receive(s)
    BY <2>6, ReceiveGrant
  <2>7. CASE Deliver(s)
    BY <2>7, DeliverGrant
  <2> QED BY <1>6, <2>1, <2>2, <2>3, <2>4, <2>5, <2>6, <2>7 DEF Task
<1>7. CASE UNCHANGED vars
  <2>1. /\ UNCHANGED <<now, epoch, clockValid, hub, src, ring, lagged, fresh, last, news, con, run>>
        /\ now \in Nat /\ fresh \in Nat /\ now <= now /\ fresh <= fresh
    BY <1>7, InvParts DEF vars, hostVars, srcVars, HostPart
  <2>2. ASSUME NEW x \in Sources PROVE Chain(x)'
    <3>1. Chain(x)
      BY DEF GrantInv
    <3>2. OneEvent(x)'
      BY <2>1, <3>1 DEF Chain, OneEvent, Sending
    <3> QED BY <2>1, <3>1, <3>2, ChainFrame
  <2>3. ASSUME NEW x \in DOMAIN hub.ep PROVE Judged(x)'
    BY <2>1, KeptJudged DEF GrantInv
  <2>4. Settled(hub)'
    BY <2>1 DEF GrantInv
  <2> QED BY <2>1, <2>2, <2>3, <2>4 DEF GrantInv
<1> QED BY <1>1, <1>2, <1>3, <1>4, <1>5, <1>6, <1>7 DEF Next

(* What a source has published and its task has not heard is on its way or *)
(* the task starts over, a run has no bad reading between its first and the*)
(* task's mark, and the permission follows the endpoints (consume,         *)
(* Endpoint::observe, SafetyHub::snapshot).                                *)
THEOREM GrantInvariant == Spec => []GrantInv
<1>1. Init => SafetyInv /\ GrantInv
  BY InitInv, InitGrant
<1>2. SafetyInv /\ SafetyInv' /\ GrantInv /\ [Next]_vars => GrantInv'
  BY NextGrant
<1>3. Spec => []SafetyInv
  BY EvidenceIsGenuine
<1> QED BY <1>1, <1>2, <1>3, PTL DEF Spec

-----------------------------------------------------------------------------
(* Permission                                                              *)

(* The endpoints are there as long as there is a permission.               *)
LEMMA SafeHasEndpoints ==
  ASSUME SafetyInv, DOMAIN hub.ep # {}
  PROVE  DOMAIN hub.ep = Sources /\ ~stop
BY InvParts DEF HubPart

(* Only the endpoints that are confirmed together give permission.         *)
LEMMA GrantConfirms ==
  ASSUME SafetyInv, GrantInv, [Next]_vars, ~hub.safe, hub'.safe
  PROVE  \A x \in DOMAIN hub'.ep : hub'.ep[x].confirmed
<1> DEFINE D == DOMAIN hub.ep
           y == Synced(hub)
<1>1. hub' # hub
  OBVIOUS
<1>2. Counted(y, D) /\ (\A x \in D : KeptOrGone(y, x)) /\ ~y.safe
  BY SyncedCounted
<1>3. CASE Expiry
  <2>1. HubIs(Snapshot(y))
    BY <1>3 DEF Expiry, Asked
  <2> HIDE DEF y
  <2>2. DOMAIN hub'.ep = D /\ \A x \in D : Earns(hub'.ep[x])
    BY <1>2, <2>1, LookEffect
  <2> QED BY <2>2 DEF Earns
<1>4. ASSUME NEW s \in Sources, Reset(s) \/ Finish(s)
      PROVE  \A x \in DOMAIN hub'.ep : hub'.ep[x].confirmed
  <2> DEFINE h == ResetSource(y, s, con[s].gen)
  <2>1. HubIs(Snapshot(h)) /\ con[s].gen \in Generations /\ D \subseteq Sources
    BY <1>4, InvParts, AskedOK DEF Reset, Finish, TaskPart, ConsumeTasks
  <2>2. /\ Counted(h, D) /\ ~h.safe
        /\ \A x \in D : h.ep[x] = y.ep[x] \/ ~Alive(h.ep[x])
    BY <1>2, <2>1, ResetCounted
  <2>3. \A x \in D : KeptOrGone(h, x)
    <3> HIDE DEF h
    <3> QED BY <1>2, <2>2 DEF KeptOrGone
  <2> HIDE DEF h, y
  <2>4. DOMAIN hub'.ep = D /\ \A x \in D : Earns(hub'.ep[x])
    BY <2>1, <2>2, <2>3, LookEffect
  <2> QED BY <2>4 DEF Earns
<1>5. ASSUME NEW s \in Sources, Deliver(s) PROVE \A x \in DOMAIN hub'.ep : hub'.ep[x].confirmed
  BY <1>5, DeliverEffect
<1>6. CASE Shutdown
  BY <1>6 DEF Shutdown, HubIs
<1>7. ASSUME NEW s \in Sources, Source(s) PROVE hub' = hub
  <2>1. CASE \E o \in Readings, d \in Backdates, lost \in BOOLEAN : FinishPoll(s, o, d, lost)
    BY <2>1 DEF FinishPoll
  <2>2. CASE ActorResume(s) \/ Regenerate(s) \/ StartPoll(s) \/ SendEvent(s) \/ SourceStops(s)
             \/ SourceDies(s)
    BY <2>2 DEF ActorResume, Regenerate, StartPoll, SendEvent, SourceStops, SourceDies
  <2> QED BY <1>7, <2>1, <2>2 DEF Source
<1>8. ASSUME NEW s \in Sources, AcquireLease(s) \/ Look(s) \/ Wake(s) \/ Lagged(s) \/ Receive(s)
      PROVE  hub' = hub
  BY <1>8 DEF AcquireLease, Look, Wake, Lagged, Receive
<1>9. Tick \/ Resume \/ UNCHANGED vars => hub' = hub
  BY DEF Tick, Resume, vars
<1> QED BY <1>1, <1>3, <1>4, <1>5, <1>6, <1>7, <1>8, <1>9 DEF Next, Task

(* Readings that are confirmed together are the policy's number of         *)
(* intervals apart.                                                        *)
LEMMA EnoughIntervals ==
  ASSUME NEW n \in Nat, n >= SafeReadings, NEW d \in Int, d >= (n - 1) * Confirmation
  PROVE  d >= (SafeReadings - 1) * Confirmation
<1>1. Confirmation \in Nat /\ SafeReadings \in Nat
  BY PolicyAssumption
<1>2. PICK k \in Nat : n = SafeReadings + k
  <2>1. n - SafeReadings \in Nat /\ n = SafeReadings + (n - SafeReadings)
    BY <1>1
  <2> QED BY <2>1
<1>3. n - 1 = (SafeReadings - 1) + k /\ SafeReadings - 1 \in Int
  BY <1>1, <1>2
<1>4. (n - 1) * Confirmation = (SafeReadings - 1) * Confirmation + k * Confirmation
  BY <1>1, <1>3
<1>5. k * Confirmation \in Nat /\ (SafeReadings - 1) * Confirmation \in Int
  BY <1>1, <1>3
<1> QED BY <1>4, <1>5

(* GrantIsEarned: permission is given only when every source's endpoint has*)
(* an unbroken run of confirmed readings behind it, begun after its last   *)
(* reset (SafetyHub::snapshot, Endpoint::observe).                         *)
THEOREM GrantIsEarnedHolds == Spec => GrantIsEarned
<1>1. SafetyInv /\ GrantInv /\ SafetyInv' /\ GrantInv' /\ [Next]_vars
        => [~hub.safe /\ hub'.safe => \A s \in Sources : Earned(s)']_vars
  <2> SUFFICES ASSUME SafetyInv, GrantInv, SafetyInv', GrantInv', [Next]_vars,
                      ~hub.safe, hub'.safe, NEW s \in Sources
               PROVE  Earned(s)'
    BY Zenon
  <2> DEFINE f == hub'.ep[s]
             r == run'[s]
  <2>1. DOMAIN hub'.ep = Sources
    <3>1. DOMAIN hub'.ep # {}
      BY DEF GrantInv, Settled
    <3>2. DOMAIN hub'.ep = IF stop' THEN {} ELSE Sources
      BY DEF SafetyInv, TypeOK
    <3> QED BY <3>1, <3>2
  <2>2. f.confirmed
    BY <2>1, GrantConfirms
  <2>3. Judged(s)'
    BY <2>1 DEF GrantInv
  <2>4. Running(f) /\ f.countedSafe # NoTime
    BY <2>2, <2>3 DEF Judged, Counts, Running
  <2>5. /\ f.countedSafe - r.start >= (f.safeCount - 1) * Confirmation
        /\ f.safeCount >= SafeReadings /\ now' - r.recv >= Hold /\ r.bad < r.seq
        /\ con'[s].pc # "reset" => r.start >= con'[s].from
    BY <2>2, <2>3, <2>4 DEF Judged, RunInv, Running
  <2>6. f.safeCount \in Nat /\ f.countedSafe - r.start \in Int
    <3>1. f \in Endpoints /\ r \in Runs
      BY <2>1 DEF SafetyInv, TypeOK, Hubs
    <3> HIDE DEF f, r
    <3>2. f.safeCount \in Nat /\ f.countedSafe \in Int /\ r.start \in Int
      BY <3>1 DEF Endpoints, Times, NoTime, Runs
    <3> QED BY <3>2
  <2>7. f.countedSafe - r.start >= (SafeReadings - 1) * Confirmation
    <3> HIDE DEF f, r
    <3> QED BY <2>5, <2>6, EnoughIntervals
  <2> QED BY <2>4, <2>5, <2>7 DEF Earned, Running
<1> QED BY <1>1, EvidenceIsGenuine, GrantInvariant, PTL DEF Spec, GrantIsEarned

(* LastWordHeeded: when a task has nothing left to hear, a fatal last word *)
(* of its source has taken the permission away; and none outlives the      *)
(* output or the task (consume, SafetyOutput::shutdown).                   *)
THEOREM LastWordHolds == Spec => []LastWordHeeded
<1>1. ASSUME SafetyInv, GrantInv, NEW s \in Sources, CaughtUp(s), Fatal(last[s]), Asked.safe
      PROVE  FALSE
  <2> DEFINE D == DOMAIN hub.ep
             y == Synced(hub)
  <2>1. Counted(y, D) /\ \A x \in D : KeptOrGone(y, x)
    BY <1>1, SyncedCounted
  <2>2. now \in Nat
    BY <1>1, InvParts DEF HostPart
  <2>3. /\ D # {} /\ \A x \in D : Snapshot(y).ep[x].permits
        /\ \A x \in D : Snapshot(y).ep[x] = y.ep[x] \/ ~Alive(Snapshot(y).ep[x])
    <3>1. Snapshot(y).safe
      BY <1>1 DEF Asked
    <3> HIDE DEF y
    <3> QED BY <2>1, <2>2, <3>1, SnapshotCounted
  <2>4. s \in D
    BY <1>1, <2>3, SafeHasEndpoints
  <2>5. hub.ep[s].permits /\ clockValid
    <3>1. Alive(y.ep[s]) /\ y.ep[s].permits
      BY <2>3, <2>4 DEF Alive
    <3> HIDE DEF y
    <3> QED BY <2>1, <2>4, <3>1 DEF KeptOrGone
  <2>6. Current(s) /\ con[s].pc = "select" /\ ~news[s] /\ ring[s] = <<>> /\ ~lagged[s] /\ ~Sending(s)
    BY <1>1, <2>5 DEF CaughtUp, Current, Sending
  <2>7. Chain(s) /\ Judged(s)
    BY <1>1, <2>4 DEF GrantInv
  <2>8. con[s].gen = src[s].gen
    BY <2>6, <2>7 DEF Chain, LooksAgain
  <2>9. con[s].mark = src[s].seq
    <3>1. con[s].mark \in Nat /\ src[s].seq \in Nat
      BY <1>1, InvParts DEF TaskPart, ConsumeTasks, SourcePart, SourceStates
    <3>2. con[s].mark <= src[s].seq
      BY <2>7, <2>8 DEF Chain, KnowsGeneration
    <3>3. ~(src[s].seq \in con[s].mark + 1 .. src[s].seq)
      <4>1. \A q : ~Arriving(s, q)
        BY <2>6 DEF Arriving
      <4> QED BY <2>6, <2>7, <2>8, <4>1 DEF Chain, NothingMissed, Seen
    <3> QED BY <3>1, <3>2, <3>3
  <2> QED BY <1>1, <2>5, <2>6, <2>7, <2>8, <2>9 DEF Judged, HeardInv
<1>2. SafetyInv /\ GrantInv => UnsafeIsHeard
  BY <1>1 DEF UnsafeIsHeard, Fatal
<1>3. SafetyInv /\ GrantInv => NoOrphanPermission
  <2> SUFFICES ASSUME SafetyInv, GrantInv, hub.safe
               PROVE  ~stop /\ \A s \in Sources : con[s].pc # "done"
    BY DEF NoOrphanPermission
  <2>1. DOMAIN hub.ep # {} /\ \A s \in DOMAIN hub.ep : Alive(hub.ep[s])
    BY DEF GrantInv, Settled, Alive
  <2>2. DOMAIN hub.ep = Sources /\ ~stop
    BY <2>1, SafeHasEndpoints
  <2> QED BY <2>1, <2>2 DEF GrantInv, Judged, AliveInv
<1>4. SafetyInv /\ GrantInv => LastWordHeeded
  BY <1>2, <1>3 DEF LastWordHeeded
<1> QED BY <1>4, EvidenceIsGenuine, GrantInvariant, PTL
=============================================================================
