-------------------------- MODULE SafetyHubProofs --------------------------
(***************************************************************************)
(* Proofs about SafetyHub for any policy, any set of sources and any       *)
(* bounds.                                                                 *)
(***************************************************************************)
EXTENDS SafetyHub, TLAPS

(* What the operations of an endpoint keep, whatever happened before: its  *)
(* type, and that it permits only on a remembered safe request.            *)
Sound(e) == e \in Endpoints /\ PermitsOK(e)

(* A new endpoint knows of no safe request.                                *)
LEMMA NewEndpointSound ==
  ASSUME NEW g \in Generations
  PROVE  Sound(NewEndpoint(g)) /\ NewEndpoint(g).lastSafe = NoTime
BY DEF Sound, Endpoints, NewEndpoint, PermitsOK, Times, NoTime, Phases

(* Starting the run over changes neither permission nor evidence.          *)
LEMMA WithoutRunSound ==
  ASSUME NEW e \in Endpoints
  PROVE  /\ WithoutRun(e) \in Endpoints
         /\ WithoutRun(e).permits = e.permits
         /\ WithoutRun(e).phase = e.phase
         /\ WithoutRun(e).lastSafe = e.lastSafe
BY DEF Endpoints, WithoutRun, Times, NoTime

(* A withdrawn endpoint does not permit (Endpoint::withdraw).              *)
LEMMA WithdrawSound ==
  ASSUME NEW e \in Endpoints, NEW p \in Phases
  PROVE  Sound(Withdraw(e, p)) /\ Withdraw(e, p).lastSafe = e.lastSafe
         /\ ~Withdraw(e, p).permits
BY WithoutRunSound DEF Sound, PermitsOK, Endpoints, Withdraw

(* After expiry, permission means evidence younger than SafeAge            *)
(* (Endpoint::expire).                                                     *)
LEMMA ExpireSound ==
  ASSUME NEW e, Sound(e), NEW t \in Nat
  PROVE  /\ Sound(Expire(e, t))
         /\ Expire(e, t).lastSafe = e.lastSafe
         /\ Expire(e, t).permits => t - e.lastSafe < SafeAge
<1>1. e \in Endpoints /\ PermitsOK(e) /\ e.lastSafe \in Times
  BY DEF Sound, Endpoints
<1>2. "stale" \in Phases
  BY DEF Phases
<1>3. CASE Expire(e, t) = e
  <2>1. e.permits => ~(Since(t, e.lastSafe) >= SafeAge)
    <3>1. SUFFICES ASSUME e.permits, Since(t, e.lastSafe) >= SafeAge PROVE FALSE
      OBVIOUS
    <3>2. Expire(e, t) = Withdraw(e, "stale")
      BY <1>1, <3>1 DEF Expire, PermitsOK
    <3> QED BY <1>1, <1>2, <1>3, <3>1, <3>2, WithdrawSound
  <2>2. e.permits => t - e.lastSafe < SafeAge
    BY <1>1, <2>1, PolicyAssumption DEF Since, Times, NoTime
  <2> QED BY <1>1, <1>3, <2>2 DEF Sound
<1>4. CASE Expire(e, t) = Withdraw(e, "stale")
  BY <1>1, <1>2, <1>4, WithdrawSound
<1> QED BY <1>3, <1>4 DEF Expire

(* A failure lends no evidence and grants nothing.                         *)
LEMMA OnFailureSound ==
  ASSUME NEW e, Sound(e), NEW o \in Events
  PROVE  Sound(OnFailure(e, o)) /\ OnFailure(e, o).lastSafe = e.lastSafe
<1> DEFINE r == WithoutRun(e)
           ph == IF r.permits
                 THEN IF r.unsafeCount > 0 THEN "pendingUnsafe" ELSE "graceSafe"
                 ELSE IF r.phase = "pendingSafe" THEN "unknown" ELSE r.phase
           g == [r EXCEPT !.phase = ph]
           f == [g EXCEPT !.countedFailure = o.start, !.failures = @ + 1]
<1>1. r \in Endpoints /\ r.lastSafe = e.lastSafe /\ (r.permits => r.lastSafe # NoTime)
  BY WithoutRunSound DEF Sound, PermitsOK
<1>2. ph \in Phases /\ (r.permits => ph \notin {"stale", "unsafe", "faulted"})
  BY <1>1 DEF Endpoints, Phases
<1> HIDE DEF r, ph
<1>3. g \in Endpoints /\ g.lastSafe = e.lastSafe /\ PermitsOK(g)
  BY <1>1, <1>2 DEF Endpoints, PermitsOK
<1> HIDE DEF g
<1>4. f \in Endpoints /\ f.lastSafe = e.lastSafe /\ PermitsOK(f)
  <2>1. g.failures + 1 \in Nat /\ o.start \in Times
    BY <1>3 DEF Endpoints, Events, Times
  <2> QED BY <1>3, <2>1 DEF Endpoints, PermitsOK
<1>5. "unsafe" \in Phases
  BY DEF Phases
<1>6. OnFailure(e, o) \in {g, f, Withdraw(f, "unsafe")}
  BY DEF OnFailure, r, ph, g
<1> HIDE DEF f
<1> QED BY <1>3, <1>4, <1>5, <1>6, WithdrawSound DEF Sound

(* An unsafe reading lends no evidence.                                    *)
LEMMA OnUnsafeSound ==
  ASSUME NEW e, Sound(e), NEW o \in Events
  PROVE  Sound(OnUnsafe(e, o)) /\ OnUnsafe(e, o).lastSafe = e.lastSafe
<1> DEFINE z == [e EXCEPT !.failures = 0, !.countedFailure = NoTime]
           r == WithoutRun(z)
           d == [r EXCEPT !.countedUnsafe = o.start, !.unsafeCount = @ + 1]
           c == IF Eligible(r.countedUnsafe, o.start) THEN d ELSE r
           q == [c EXCEPT !.phase = "pendingUnsafe"]
<1>1. z \in Endpoints /\ z.lastSafe = e.lastSafe /\ (z.permits => z.lastSafe # NoTime)
  BY DEF Sound, PermitsOK, Endpoints, Times, NoTime
<1> HIDE DEF z
<1>2. r \in Endpoints /\ r.lastSafe = e.lastSafe /\ (r.permits => r.lastSafe # NoTime)
  BY <1>1, WithoutRunSound
<1> HIDE DEF r
<1>3. d \in Endpoints /\ d.lastSafe = e.lastSafe /\ (d.permits => d.lastSafe # NoTime)
  <2>1. r.unsafeCount + 1 \in Nat /\ o.start \in Times
    BY <1>2 DEF Endpoints, Events, Times
  <2> QED BY <1>2, <2>1 DEF Endpoints
<1>4. c \in Endpoints /\ c.lastSafe = e.lastSafe /\ (c.permits => c.lastSafe # NoTime)
  BY <1>2, <1>3
<1> HIDE DEF c
<1>5. q \in Endpoints /\ q.lastSafe = e.lastSafe /\ PermitsOK(q)
  BY <1>4 DEF Endpoints, PermitsOK, Phases
<1>6. OnUnsafe(e, o) \in {q, Withdraw(c, "unsafe")}
  BY DEF OnUnsafe, c, r, z
<1>7. "unsafe" \in Phases
  BY DEF Phases
<1> HIDE DEF q
<1> QED BY <1>4, <1>5, <1>6, <1>7, WithdrawSound DEF Sound

(* Counting a reading leaves the evidence alone.                           *)
LEMMA CountSafeSound ==
  ASSUME NEW e \in Endpoints, NEW o \in Events, NEW t \in Nat
  PROVE  CountSafe(e, o, t) \in Endpoints /\ CountSafe(e, o, t).lastSafe = e.lastSafe
<1> DEFINE begun == IF e.runStart = NoTime THEN o.recv ELSE e.runStart
           done  == e.safeCount + 1 >= SafeReadings /\ Since(t, begun) >= Hold
           per   == e.permits \/ done
           c == [e EXCEPT !.countedSafe = o.start, !.runStart = begun, !.safeCount = @ + 1,
                          !.confirmed = done, !.permits = per]
<1>1. begun \in Times
  BY DEF Endpoints, Events, Times
<1>2. done \in BOOLEAN /\ per \in BOOLEAN
  BY Zenon
<1>3. CountSafe(e, o, t) \in {e, c}
  BY DEF CountSafe
<1> HIDE DEF begun, done, per
<1>4. c \in Endpoints /\ c.lastSafe = e.lastSafe
  <2>1. e.safeCount + 1 \in Nat /\ o.start \in Times
    BY DEF Endpoints, Events, Times
  <2> QED BY <1>1, <1>2, <2>1 DEF Endpoints
<1> QED BY <1>3, <1>4

(* A safe reading is evidence as old as its request.                       *)
LEMMA OnSafeSound ==
  ASSUME NEW e, Sound(e), NEW o \in Events, NEW t \in Nat
  PROVE  Sound(OnSafe(e, o, t)) /\ OnSafe(e, o, t).lastSafe = o.start
<1> DEFINE z == [e EXCEPT !.failures = 0, !.countedFailure = NoTime, !.unsafeCount = 0,
                          !.countedUnsafe = NoTime, !.lastSafe = o.start]
           c == CountSafe(z, o, t)
           q == [c EXCEPT !.phase = IF c.permits THEN "freshSafe" ELSE "pendingSafe"]
<1>1. z \in Endpoints /\ z.lastSafe = o.start
  BY DEF Sound, Endpoints, Events, Times, NoTime
<1> HIDE DEF z
<1>2. c \in Endpoints /\ c.lastSafe = o.start
  BY <1>1, CountSafeSound
<1> HIDE DEF c
<1>3. q \in Endpoints /\ q.lastSafe = o.start /\ PermitsOK(q)
  BY <1>2 DEF Endpoints, PermitsOK, Phases, Events, NoTime
<1>4. OnSafe(e, o, t) = q
  BY DEF OnSafe, c, z
<1> HIDE DEF q
<1> QED BY <1>3, <1>4 DEF Sound

(* A safe answer that is too old lends nothing and withdraws.              *)
LEMMA OnSafeTooLateSound ==
  ASSUME NEW e, Sound(e)
  PROVE  Sound(OnSafeTooLate(e)) /\ OnSafeTooLate(e).lastSafe = e.lastSafe
<1> DEFINE z == [e EXCEPT !.failures = 0, !.countedFailure = NoTime, !.unsafeCount = 0,
                          !.countedUnsafe = NoTime]
<1>1. z \in Endpoints /\ z.lastSafe = e.lastSafe /\ "stale" \in Phases
  BY DEF Sound, Endpoints, Times, NoTime, Phases
<1>2. OnSafeTooLate(e) = Withdraw(z, "stale")
  BY DEF OnSafeTooLate
<1> HIDE DEF z
<1> QED BY <1>1, <1>2, WithdrawSound

(* An observation adds evidence only if it is a safe reading, and that     *)
(* evidence is as old as its request (Endpoint::observe).                  *)
LEMMA ObserveSound ==
  ASSUME NEW e, Sound(e), NEW o \in Events, NEW t \in Nat
  PROVE  /\ Sound(Observe(e, o, t))
         /\ \/ Observe(e, o, t).lastSafe = e.lastSafe
            \/ o.outcome = "safe" /\ Observe(e, o, t).lastSafe = o.start
<1> DEFINE x == Expire(e, t)
           y == [x EXCEPT !.seq = o.seq]
           z == [y EXCEPT !.lastRequest = o.start]
           Good(f) == /\ Sound(f)
                      /\ f.lastSafe = e.lastSafe \/ (o.outcome = "safe" /\ f.lastSafe = o.start)
           Kept(f) == Sound(f) /\ f.lastSafe = e.lastSafe
<1>1. Kept(x)
  BY ExpireSound
<1> HIDE DEF x
<1>2. Kept(y)
  BY <1>1 DEF Sound, Endpoints, Events, PermitsOK
<1>3. Kept(z)
  BY <1>1 DEF Sound, Endpoints, Events, PermitsOK, Times
<1>4. Kept(Withdraw(y, "faulted"))
  BY <1>2, WithdrawSound DEF Sound, Phases
<1> HIDE DEF y, z
<1>5. Good(Applied(z, o, t))
  <2> DEFINE a == CASE o.outcome = "safe"   -> OnSafe(z, o, t)
                    [] o.outcome = "unsafe" -> OnUnsafe(z, o)
                    [] o.outcome = "fault"  -> Withdraw(z, "faulted")
                    [] OTHER                -> OnFailure(z, o)
  <2>1. Kept(OnSafeTooLate(z))
    BY <1>3, OnSafeTooLateSound
  <2>2. Good(a)
    <3>1. CASE o.outcome = "safe"
      BY <1>3, <3>1, OnSafeSound
    <3>2. CASE o.outcome = "unsafe"
      BY <1>3, <3>2, OnUnsafeSound
    <3>3. CASE o.outcome = "fault"
      BY <1>3, <3>3, WithdrawSound DEF Sound, Phases
    <3>4. CASE o.outcome \notin {"safe", "unsafe", "fault"}
      BY <1>3, <3>4, OnFailureSound
    <3> QED BY <3>1, <3>2, <3>3, <3>4
  <2> HIDE DEF a
  <2>3. Good(Expire(a, t))
    BY <2>2, ExpireSound
  <2>4. Applied(z, o, t) \in {OnSafeTooLate(z), Expire(a, t)}
    BY DEF Applied, a
  <2> QED BY <2>1, <2>3, <2>4
<1>6. Observe(e, o, t) \in {x, Withdraw(y, "faulted"), Applied(z, o, t)}
  BY DEF Observe, x, y, z
<1> QED BY <1>1, <1>4, <1>5, <1>6
-----------------------------------------------------------------------------
(* A hub with endpoints D that has seen this epoch, and what it knows of it.*)
HubOK(h, D) ==
  /\ h \in [ep : [D -> Endpoints], safe : BOOLEAN, epoch : Nat]
  /\ h.epoch = epoch
  /\ \A s \in D : PermitsOK(h.ep[s]) /\ h.ep[s].lastSafe <= proof[s]

(* Forgetting everything is always right (sync_resume).                    *)
LEMMA SyncedOK ==
  ASSUME NEW h, NEW D,
         D \subseteq Sources, proof \in [Sources -> Times], epoch \in Nat,
         h \in [ep : [D -> Endpoints], safe : BOOLEAN, epoch : Nat],
         \A s \in D : PermitsOK(h.ep[s]),
         h.epoch = epoch => \A s \in D : h.ep[s].lastSafe <= proof[s]
  PROVE  HubOK(Synced(h), D)
<1>1. CASE Synced(h) = h
  <2>1. h.epoch = epoch
    BY <1>1 DEF Synced
  <2> QED BY <1>1, <2>1 DEF HubOK
<1>2. CASE Synced(h) # h
  <2> DEFINE k == [ep |-> [s \in D |-> NewEndpoint(Retired)], safe |-> FALSE, epoch |-> epoch]
  <2>1. Synced(h) = k
    BY <1>2 DEF Synced
  <2>2. Sound(NewEndpoint(Retired)) /\ NewEndpoint(Retired).lastSafe = NoTime
    <3>1. Retired \in Generations
      BY DEF Retired, Generations
    <3> QED BY <3>1, NewEndpointSound
  <2>3. FALSE \in BOOLEAN
    BY Zenon
  <2>4. \A s \in D : NoTime <= proof[s]
    BY DEF Times, NoTime
  <2>5. k.ep \in [D -> Endpoints] /\ \A s \in D : k.ep[s] = NewEndpoint(Retired)
    BY <2>2 DEF Sound
  <2>6. k \in [ep : [D -> Endpoints], safe : BOOLEAN, epoch : Nat] /\ k.epoch = epoch
    BY <2>3, <2>5
  <2> HIDE DEF k
  <2> QED BY <2>1, <2>2, <2>4, <2>5, <2>6 DEF HubOK, Sound
<1> QED BY <1>1, <1>2

(* A snapshot adds no evidence, and a safe one stands on what is younger   *)
(* than SafeAge at every endpoint (SafetyHub::snapshot).                   *)
LEMMA SnapshotOK ==
  ASSUME NEW h, NEW D, HubOK(h, D), now \in Nat
  PROVE  /\ HubOK(Snapshot(h), D)
         /\ \A s \in D : Snapshot(h).ep[s].lastSafe = h.ep[s].lastSafe
         /\ Snapshot(h).safe =>
              /\ D # {}
              /\ \A s \in D : h.ep[s].lastSafe # NoTime /\ now - h.ep[s].lastSafe < SafeAge
<1> DEFINE eps == [s \in D |-> Expire(h.ep[s], now)]
           safe == Aggregate(h.safe, eps)
           k == [h EXCEPT !.ep = eps, !.safe = safe]
<1>1. Snapshot(h) = k
  BY DEF Snapshot, HubOK
<1>2. ASSUME NEW s \in D
      PROVE  /\ eps[s] \in Endpoints
             /\ PermitsOK(eps[s])
             /\ eps[s].lastSafe = h.ep[s].lastSafe
             /\ eps[s].permits => now - h.ep[s].lastSafe < SafeAge
  <2>1. Sound(h.ep[s])
    BY DEF HubOK, Sound
  <2>2. eps[s] = Expire(h.ep[s], now)
    OBVIOUS
  <2> QED BY <2>1, <2>2, ExpireSound DEF Sound
<1>3. eps \in [D -> Endpoints] /\ DOMAIN eps = D
  BY <1>2
<1> HIDE DEF eps
<1>4. safe \in BOOLEAN
  BY Zenon DEF Aggregate
<1>5. safe => D # {} /\ \A s \in D : eps[s].permits
  BY <1>3 DEF Aggregate
<1> HIDE DEF safe
<1>6. /\ k \in [ep : [D -> Endpoints], safe : BOOLEAN, epoch : Nat]
      /\ k.ep = eps /\ k.safe = safe /\ k.epoch = h.epoch
  BY <1>3, <1>4 DEF HubOK
<1> HIDE DEF k
<1>7. HubOK(k, D)
  BY <1>2, <1>6 DEF HubOK
<1>8. ASSUME k.safe, NEW s \in D
      PROVE  h.ep[s].lastSafe # NoTime /\ now - h.ep[s].lastSafe < SafeAge
  BY <1>2, <1>5, <1>6, <1>8 DEF PermitsOK
<1> QED BY <1>1, <1>2, <1>5, <1>6, <1>7, <1>8

(* A reset forgets one source (reset_source).                              *)
LEMMA ResetSourceOK ==
  ASSUME NEW h, NEW D, HubOK(h, D), NEW s, NEW g \in Generations,
         D \subseteq Sources, proof \in [Sources -> Times]
  PROVE  HubOK(ResetSource(h, s, g), D)
<1> DEFINE k == [h EXCEPT !.ep[s] = NewEndpoint(g), !.safe = FALSE]
<1>1. CASE s \notin D
  BY <1>1 DEF ResetSource, HubOK
<1>2. CASE s \in D
  <2>1. ResetSource(h, s, g) = k
    BY <1>2 DEF ResetSource, HubOK
  <2>2. Sound(NewEndpoint(g)) /\ NewEndpoint(g).lastSafe <= proof[s]
    BY <1>2, NewEndpointSound DEF Times, NoTime
  <2>3. FALSE \in BOOLEAN
    BY Zenon
  <2>4. /\ k \in [ep : [D -> Endpoints], safe : BOOLEAN, epoch : Nat]
        /\ k.ep = [h.ep EXCEPT ![s] = NewEndpoint(g)] /\ k.epoch = h.epoch
    BY <1>2, <2>2, <2>3 DEF HubOK, Sound
  <2> HIDE DEF k
  <2> QED BY <2>1, <2>2, <2>4 DEF HubOK, Sound
<1> QED BY <1>1, <1>2

(* An observation brings evidence no later than the source's proof.        *)
LEMMA HubObserveOK ==
  ASSUME NEW h, NEW D, HubOK(h, D), NEW s, NEW o \in Events, now \in Nat,
         o.outcome = "safe" => o.start <= proof[s]
  PROVE  HubOK(HubObserve(h, s, o), D)
<1> DEFINE b == Snapshot(h)
           k == [b EXCEPT !.ep[s] = Observe(b.ep[s], o, now)]
<1>1. HubOK(b, D)
  BY SnapshotOK
<1> HIDE DEF b
<1>2. CASE s \in D
  <2> DEFINE f == Observe(b.ep[s], o, now)
  <2>1. Sound(b.ep[s])
    BY <1>1, <1>2 DEF HubOK, Sound
  <2>2. Sound(f) /\ (f.lastSafe = b.ep[s].lastSafe \/ f.lastSafe <= proof[s])
    BY <2>1, ObserveSound
  <2> HIDE DEF f
  <2>3. /\ k \in [ep : [D -> Endpoints], safe : BOOLEAN, epoch : Nat]
        /\ k.ep = [b.ep EXCEPT ![s] = f] /\ k.epoch = b.epoch
    BY <1>1, <1>2, <2>2 DEF HubOK, Sound, f
  <2> HIDE DEF k
  <2>4. HubOK(k, D)
    BY <1>1, <1>2, <2>2, <2>3 DEF HubOK, Sound
  <2>5. HubObserve(h, s, o) = Snapshot(k)
    BY <1>1, <1>2 DEF HubObserve, HubOK, b, k
  <2> QED BY <2>4, <2>5, SnapshotOK
<1>3. CASE s \notin D
  <2>1. HubObserve(h, s, o) = Snapshot(b)
    BY <1>1, <1>3 DEF HubObserve, HubOK, b
  <2> QED BY <1>1, <2>1, SnapshotOK
<1> QED BY <1>2, <1>3
-----------------------------------------------------------------------------
(* The parts of the invariant that the actions disturb one at a time.      *)
HubPart ==
  /\ hub \in Hubs
  /\ DOMAIN hub.ep = (IF stop THEN {} ELSE Sources)
  /\ hub.epoch <= epoch
  /\ \A s \in DOMAIN hub.ep : PermitsOK(hub.ep[s])
  /\ EndpointsProven

HostPart ==
  /\ now \in Nat /\ epoch \in Nat /\ clockValid \in BOOLEAN /\ stop \in BOOLEAN /\ fresh \in Nat

SourcePart ==
  /\ src \in [Sources -> SourceStates]
  /\ ring \in [Sources -> Seq(Events)] /\ lagged \in [Sources -> BOOLEAN]
  /\ news \in [Sources -> BOOLEAN]
  /\ proof \in [Sources -> Times] /\ last \in [Sources -> Outcomes \cup {"none"}]
  /\ \A s \in Sources : Len(ring[s]) <= RingCap

TaskPart == con \in [Sources -> ConsumeTasks] /\ run \in [Sources -> Runs]

Flow(s) == SourceOK(s) /\ EventsOK(s) /\ HandOK(s)

(* The parts make the invariant.                                           *)
LEMMA InvParts ==
  SafetyInv <=> /\ HostPart /\ HubPart /\ SourcePart /\ TaskPart
                /\ \A s \in Sources : Flow(s)
BY Zenon DEF SafetyInv, TypeOK, HostPart, HubPart, SourcePart, TaskPart, Flow

(* The same of the next state.                                             *)
LEMMA InvPartsNext ==
  ASSUME HostPart', HubPart', SourcePart', TaskPart', \A s \in Sources : Flow(s)'
  PROVE  SafetyInv'
BY Zenon DEF SafetyInv, TypeOK, HostPart, HubPart, SourcePart, TaskPart, Flow

(* What the hub is when it is locked, and when it is asked.                *)
LEMMA AskedOK ==
  ASSUME SafetyInv
  PROVE  /\ hub \in [ep : [DOMAIN hub.ep -> Endpoints], safe : BOOLEAN, epoch : Nat]
         /\ DOMAIN hub.ep \subseteq Sources
         /\ HubOK(Synced(hub), DOMAIN hub.ep)
         /\ HubOK(Asked, DOMAIN hub.ep)
<1>1. HubPart /\ HostPart /\ SourcePart
  BY InvParts
<1>2. DOMAIN hub.ep \subseteq Sources
  BY <1>1 DEF HubPart
<1>3. hub \in [ep : [DOMAIN hub.ep -> Endpoints], safe : BOOLEAN, epoch : Nat]
  BY <1>1 DEF HubPart, Hubs
<1>4. HubOK(Synced(hub), DOMAIN hub.ep)
  BY <1>1, <1>2, <1>3, SyncedOK DEF HubPart, HostPart, SourcePart, EndpointsProven
<1> QED BY <1>1, <1>2, <1>3, <1>4, SnapshotOK DEF Asked, HostPart

(* Whatever the runtime makes of the hub is again such a hub.              *)
LEMMA HubReplaced ==
  ASSUME SafetyInv, HubOK(hub', DOMAIN hub.ep), epoch' = epoch, proof' = proof, stop' = stop
  PROVE  HubPart'
<1>1. HubPart /\ HostPart
  BY InvParts
<1>2. DOMAIN hub'.ep = DOMAIN hub.ep
  BY DEF HubOK
<1>3. hub' \in Hubs
  BY <1>1 DEF HubOK, HubPart, Hubs
<1> QED BY <1>1, <1>2, <1>3 DEF HubOK, HubPart, HostPart, EndpointsProven

(* While it is left alone, more recent proof does no harm.                 *)
LEMMA HubLeftAlone ==
  ASSUME SafetyInv, UNCHANGED <<hub, stop, epoch>>,
         proof' \in [Sources -> Times], \A s \in Sources : proof[s] <= proof'[s]
  PROVE  HubPart'
<1>1. HubPart /\ HostPart /\ SourcePart
  BY InvParts
<1>2. \A s \in DOMAIN hub.ep : hub.ep[s].lastSafe \in Times /\ s \in Sources
  BY <1>1 DEF HubPart, Hubs, Endpoints
<1>3. EndpointsProven'
  <2>1. SUFFICES ASSUME hub.epoch = epoch, NEW s \in DOMAIN hub.ep
                 PROVE  hub.ep[s].lastSafe <= proof'[s]
    BY DEF EndpointsProven
  <2>2. hub.ep[s].lastSafe <= proof[s] /\ proof[s] <= proof'[s]
    BY <1>1, <1>2, <2>1 DEF HubPart, EndpointsProven
  <2>3. hub.ep[s].lastSafe \in Int /\ proof[s] \in Int /\ proof'[s] \in Int
    BY <1>1, <1>2 DEF SourcePart, Times, NoTime
  <2> QED BY <2>2, <2>3
<1> QED BY <1>1, <1>3 DEF HubPart

(* The runs that the history keeps have their type.                        *)
LEMMA HubIsTyped ==
  ASSUME TaskPart, NEW h, HubIs(h)
  PROVE  run' \in [Sources -> Runs]
<1>1. NoRun \in Runs
  BY DEF NoRun, Runs
<1> QED BY <1>1 DEF HubIs, TaskPart

(* What another source does, and what is sent elsewhere, is no matter.     *)
LEMMA FlowElsewhere ==
  ASSUME SafetyInv, NEW x \in Sources,
         src'[x] = src[x], ring'[x] = ring[x], con'[x] = con[x], proof'[x] = proof[x],
         epoch' = epoch, fresh' \in Nat, fresh <= fresh'
  PROVE  Flow(x)'
<1>1. Flow(x) /\ HostPart /\ SourcePart
  BY InvParts
<1>2. src[x].gen \in Seq(Nat) /\ src[x].sending \in Events /\ ring[x] \in Seq(Events)
  BY <1>1 DEF SourcePart, SourceStates, Generations
<1>3. ASSUME NEW e \in Events, EventOK(x, e)
      PROVE  EventOK(x, e)'
  <2>1. e.gen \in Seq(Nat) /\ Len(e.gen) > 0 /\ e.gen[1] < fresh
    BY <1>3 DEF Events, Generations, EventOK
  <2>2. e.gen[1] \in Nat
    BY <2>1
  <2>3. e.gen[1] < fresh'
    BY <1>1, <2>1, <2>2 DEF HostPart
  <2> QED BY <1>3, <2>1, <2>3 DEF EventOK
<1>4. EventsOK(x)'
  BY <1>1, <1>2, <1>3 DEF Flow, EventsOK
<1>5. SourceOK(x)'
  BY <1>1, <1>2 DEF Flow, SourceOK, HostPart
<1>6. HandOK(x)'
  BY <1>1 DEF Flow, HandOK
<1> QED BY <1>4, <1>5, <1>6 DEF Flow

(* FALSE and TRUE are Boolean, for the provers that need to be told.       *)
LEMMA Booleans == TRUE \in BOOLEAN /\ FALSE \in BOOLEAN
BY Zenon

(* The place where no event is holds no safe reading.                      *)
LEMMA NoEventTyped == NoEvent \in Events /\ NoEvent.outcome # "safe"
BY DEF NoEvent, Events, Generations, Outcomes

(* Nothing is known, nothing is on its way.                                *)
LEMMA InitInv == Init => SafetyInv
<1> SUFFICES ASSUME Init PROVE SafetyInv
  OBVIOUS
<1>1. <<0>> \in Generations /\ <<0>>[1] = 0 /\ Len(<<0>>) = 1 /\ {NoTime, 0} \subseteq Times
  BY DEF Generations, Times, NoTime
<1>2. HostPart
  <2>1. clockValid \in BOOLEAN /\ stop \in BOOLEAN
    BY Booleans DEF Init
  <2> QED BY <2>1 DEF Init, HostPart
<1>3. HubPart
  <2>1. Sound(NewEndpoint(<<0>>)) /\ NewEndpoint(<<0>>).lastSafe = NoTime
    BY <1>1, NewEndpointSound
  <2>2. hub.ep \in [Sources -> Endpoints] /\ hub.epoch = epoch /\ epoch = 0
        /\ \A s \in Sources : hub.ep[s] = NewEndpoint(<<0>>)
    BY <2>1 DEF Init, Sound
  <2>3. hub \in Hubs
    BY <2>2, Booleans DEF Init, Hubs
  <2>4. EndpointsProven
    <3>1. \A s \in Sources : proof[s] = NoTime
      BY DEF Init
    <3>2. NoTime <= NoTime
      BY DEF NoTime
    <3> QED BY <2>1, <2>2, <3>1, <3>2 DEF EndpointsProven
  <2> QED BY <2>1, <2>2, <2>3, <2>4, Booleans DEF HubPart, Init, Sound
<1>4. SourcePart
  <2>1. src \in [Sources -> SourceStates]
    <3> DEFINE Starts == [gen : {<<0>>}, seq : {0}, bad : {0}, epoch : {0}, up : {TRUE},
                          poll : {NoTime, 0}, sending : {NoEvent}]
    <3>1. ASSUME NEW v \in Starts PROVE v \in SourceStates
      <4>1. v.up = TRUE
        OBVIOUS
      <4>2. v.up \in BOOLEAN
        BY <4>1, Zenon
      <4>3. v.gen \in Generations /\ v.poll \in Times /\ v.sending \in Events
            /\ v.seq \in Nat /\ v.bad \in Nat /\ v.epoch \in Nat
        BY <1>1, NoEventTyped
      <4> QED BY <4>2, <4>3 DEF SourceStates
    <3> QED BY <3>1 DEF Init
  <2>2. ring \in [Sources -> Seq(Events)] /\ \A s \in Sources : Len(ring[s]) <= RingCap
    BY HubAssumption DEF Init
  <2>3. lagged \in [Sources -> BOOLEAN] /\ news \in [Sources -> BOOLEAN]
    BY Booleans DEF Init
  <2>4. proof \in [Sources -> Times] /\ last \in [Sources -> Outcomes \cup {"none"}]
    BY <1>1 DEF Init
  <2> QED BY <2>1, <2>2, <2>3, <2>4 DEF SourcePart
<1>5. TaskPart
  <2>1. con \in [Sources -> ConsumeTasks]
    BY <1>1, NoEventTyped DEF Init, ConsumeTasks
  <2>2. run \in [Sources -> Runs]
    BY DEF Init, NoRun, Runs
  <2> QED BY <2>1, <2>2 DEF TaskPart
<1>6. ASSUME NEW s \in Sources PROVE Flow(s)
  <2>1. /\ src[s].gen = <<0>> /\ src[s].epoch = 0 /\ src[s].sending = NoEvent
        /\ con[s].epoch = 0 /\ con[s].event = NoEvent /\ ring[s] = <<>>
        /\ epoch = 0 /\ fresh = 1
    BY DEF Init
  <2> QED BY <1>1, <2>1, NoEventTyped DEF Flow, SourceOK, EventsOK, HandOK
<1> QED BY <1>2, <1>3, <1>4, <1>5, <1>6, InvParts

(* No event that is out is of a generation that is new, or derived in this *)
(* step from the one the source has.                                       *)
LEMMA EventOutdated ==
  ASSUME SafetyInv, NEW s \in Sources, NEW e \in Events, EventOK(s, e),
         fresh' \in Nat, fresh <= fresh',
         \/ src'[s].gen = <<fresh>>
         \/ src'[s].gen = Append(src[s].gen, epoch)
  PROVE  EventOK(s, e)'
<1>1. HostPart /\ SourcePart /\ SourceOK(s)
  BY InvParts DEF Flow
<1>2. src[s].gen \in Seq(Nat) /\ Len(src[s].gen) > 0 /\ src[s].gen[1] \in Nat
  BY <1>1 DEF SourcePart, SourceStates, Generations, SourceOK
<1>3. e.gen \in Seq(Nat) /\ Len(e.gen) > 0 /\ e.gen[1] < fresh
  BY DEF Events, Generations, EventOK
<1>4. e.gen[1] \in Nat
  BY <1>3
<1>5. e.gen[1] < fresh'
  BY <1>1, <1>3, <1>4 DEF HostPart
<1>6. CASE src'[s].gen = <<fresh>>
  <2>1. src'[s].gen[1] = fresh /\ fresh \in Nat
    BY <1>1, <1>6 DEF HostPart
  <2>2. e.gen[1] # src'[s].gen[1]
    BY <1>3, <1>4, <2>1
  <2> QED BY <1>3, <1>5, <2>2 DEF EventOK
<1>7. CASE src'[s].gen = Append(src[s].gen, epoch)
  <2>1. src'[s].gen[1] = src[s].gen[1] /\ Len(src'[s].gen) = Len(src[s].gen) + 1
    BY <1>1, <1>2, <1>7 DEF HostPart
  <2>2. e.gen[1] = src[s].gen[1] => Len(e.gen) < Len(src'[s].gen)
    BY <1>2, <1>3, <2>1 DEF EventOK
  <2>3. e.gen # src'[s].gen
    BY <1>2, <2>1, <2>2, <1>3
  <2>4. e.gen[1] = src'[s].gen[1] => Len(e.gen) <= Len(src'[s].gen)
    BY <1>2, <1>3, <2>1, <2>2
  <2> QED BY <1>3, <1>5, <2>3, <2>4 DEF EventOK
<1> QED BY <1>6, <1>7

(* A source that has got another generation, and has at most one event to  *)
(* send, of that generation.                                               *)
LEMMA GenerationChanges ==
  ASSUME SafetyInv, NEW s \in Sources,
         src' \in [Sources -> SourceStates], src'[s].epoch <= epoch,
         UNCHANGED <<epoch, ring, con, proof>>, fresh' \in Nat, fresh <= fresh',
         \/ src'[s].gen = <<fresh>> /\ fresh < fresh'
         \/ src'[s].gen = Append(src[s].gen, epoch),
         (src[s].sending = NoEvent \/ EventOK(s, src[s].sending))'
  PROVE  Flow(s)'
<1>1. HostPart /\ SourcePart /\ Flow(s)
  BY InvParts
<1>2. src[s].gen \in Seq(Nat) /\ Len(src[s].gen) > 0 /\ src[s].gen[1] \in Nat
      /\ src[s].gen[1] < fresh /\ fresh \in Nat /\ epoch \in Nat
  <2>1. src[s].gen \in Seq(Nat) /\ Len(src[s].gen) > 0 /\ src[s].gen[1] < fresh
    BY <1>1 DEF SourcePart, SourceStates, Generations, Flow, SourceOK
  <2> QED BY <1>1, <2>1 DEF HostPart
<1>3. Len(src'[s].gen) > 0 /\ src'[s].gen[1] < fresh'
  <2>1. CASE src'[s].gen = <<fresh>> /\ fresh < fresh'
    BY <1>2, <2>1
  <2>2. CASE src'[s].gen = Append(src[s].gen, epoch)
    <3>1. src'[s].gen[1] = src[s].gen[1] /\ Len(src'[s].gen) = Len(src[s].gen) + 1
      BY <1>2, <2>2
    <3> QED BY <1>2, <3>1
  <2> QED BY <2>1, <2>2
<1>4. SourceOK(s)'
  BY <1>1, <1>3 DEF Flow, SourceOK
<1>5. EventsOK(s)'
  <2>1. ASSUME NEW e \in Events, EventOK(s, e) PROVE EventOK(s, e)'
    <3>1. \/ src'[s].gen = <<fresh>>
          \/ src'[s].gen = Append(src[s].gen, epoch)
      OBVIOUS
    <3> QED BY <2>1, <3>1, EventOutdated
  <2>2. ring[s] \in Seq(Events) /\ ring'[s] = ring[s]
    BY <1>1 DEF SourcePart
  <2> QED BY <1>1, <2>1, <2>2 DEF Flow, EventsOK
<1>6. HandOK(s)'
  BY <1>1 DEF Flow, HandOK
<1> QED BY <1>4, <1>5, <1>6 DEF Flow

(* Time passes.                                                            *)
LEMMA TickStep == SafetyInv /\ Tick => SafetyInv'
<1> SUFFICES ASSUME SafetyInv, Tick PROVE SafetyInv'
  OBVIOUS
<1>1. HostPart /\ SourcePart /\ TaskPart
  BY InvParts
<1>2. HostPart'
  BY <1>1 DEF Tick, HostPart, srcVars
<1>3. HubPart'
  <2>1. \A s \in Sources : proof[s] <= proof'[s]
    BY <1>1 DEF SourcePart, Tick, srcVars, Times, NoTime
  <2> QED BY <1>1, <2>1, HubLeftAlone DEF Tick, srcVars, SourcePart
<1>4. SourcePart' /\ TaskPart'
  BY <1>1 DEF SourcePart, TaskPart, Tick, srcVars
<1>5. ASSUME NEW x \in Sources PROVE Flow(x)'
  BY <1>1, FlowElsewhere DEF Tick, srcVars, HostPart
<1> QED BY <1>2, <1>3, <1>4, <1>5, InvPartsNext

(* A new epoch: nothing that was seen before is of it.                     *)
LEMMA ResumeStep == SafetyInv /\ Resume => SafetyInv'
<1> SUFFICES ASSUME SafetyInv, Resume PROVE SafetyInv'
  OBVIOUS
<1>1. HostPart /\ HubPart /\ SourcePart /\ TaskPart /\ \A s \in Sources : Flow(s)
  BY InvParts
<1>2. epoch \in Nat /\ epoch' = epoch + 1 /\ hub.epoch \in Nat
  BY <1>1 DEF HostPart, Resume, HubPart, Hubs
<1>3. HostPart'
  <2>1. clockValid' \in BOOLEAN
    BY Booleans DEF Resume
  <2> QED BY <1>1, <1>2, <2>1 DEF HostPart, Resume
<1>4. HubPart'
  <2>1. hub.epoch <= epoch' /\ hub.epoch # epoch'
    BY <1>1, <1>2 DEF HubPart
  <2> QED BY <1>1, <2>1 DEF HubPart, EndpointsProven, Resume
<1>5. SourcePart' /\ TaskPart'
  BY <1>1 DEF SourcePart, TaskPart, Resume, Times
<1>6. ASSUME NEW x \in Sources PROVE Flow(x)'
  <2>1. src[x].epoch \in Nat /\ con[x].epoch \in Nat
    BY <1>1 DEF SourcePart, TaskPart, SourceStates, ConsumeTasks
  <2>2. Flow(x) /\ UNCHANGED <<src, con, ring, fresh>>
    BY <1>1 DEF Resume
  <2>3. /\ src[x].epoch <= epoch' /\ src[x].epoch # epoch'
        /\ con[x].epoch <= epoch' /\ con[x].epoch # epoch'
    BY <1>2, <2>1, <2>2 DEF Flow, SourceOK
  <2>4. SourceOK(x)' /\ HandOK(x)'
    BY <2>2, <2>3 DEF Flow, SourceOK, HandOK
  <2>5. EventsOK(x)'
    BY <2>2, <2>3 DEF Flow, EventsOK, EventOK
  <2> QED BY <2>4, <2>5 DEF Flow
<1> QED BY <1>3, <1>4, <1>5, <1>6, InvPartsNext

(* What a step of a source leaves to be shown: its own types and its flow. *)
LEMMA SourceStep ==
  ASSUME SafetyInv, NEW s \in Sources, SourcePart', Flow(s)',
         UNCHANGED <<hostVars, hub, con, stop, run>>, fresh' \in Nat, fresh <= fresh',
         \A x \in Sources : proof[x] <= proof'[x],
         \A x \in Sources \ {s} : src'[x] = src[x] /\ ring'[x] = ring[x] /\ proof'[x] = proof[x]
  PROVE  SafetyInv'
<1>1. HostPart /\ TaskPart
  BY InvParts
<1>2. HostPart' /\ TaskPart'
  BY <1>1 DEF HostPart, TaskPart, hostVars
<1>3. HubPart'
  BY HubLeftAlone DEF SourcePart, hostVars
<1>4. ASSUME NEW x \in Sources \ {s} PROVE Flow(x)'
  BY FlowElsewhere DEF hostVars
<1> QED BY <1>2, <1>3, <1>4, InvPartsNext

(* A proof that is not touched is no older.                                *)
LEMMA ProofKept ==
  ASSUME SourcePart, proof' = proof
  PROVE  \A x \in Sources : proof[x] <= proof'[x]
<1>1. ASSUME NEW x \in Sources PROVE proof[x] \in Int
  BY DEF SourcePart, Times, NoTime
<1> QED BY <1>1

(* The actor derives its generation of the new epoch.                      *)
LEMMA ActorResumeStep ==
  ASSUME SafetyInv, NEW s \in Sources, ActorResume(s)
  PROVE  SafetyInv'
<1>1. HostPart /\ SourcePart /\ Flow(s)
  BY InvParts
<1> DEFINE g == Append(src[s].gen, epoch)
           v == [src[s] EXCEPT !.gen = g, !.seq = 0, !.bad = 0, !.epoch = epoch, !.poll = NoTime]
<1>2. src' = [src EXCEPT ![s] = v] /\ src[s] \in SourceStates
  BY <1>1 DEF ActorResume, SourcePart
<1>3. g \in Generations /\ epoch \in Nat /\ NoTime \in Times
  BY <1>1 DEF SourcePart, SourceStates, Generations, HostPart, Times
<1>4. v \in SourceStates /\ v.gen = g /\ v.epoch = epoch /\ v.sending = NoEvent
  <2> HIDE DEF g
  <2> QED BY <1>2, <1>3 DEF SourceStates, ActorResume
<1> HIDE DEF v
<1>5. src' \in [Sources -> SourceStates] /\ src'[s] = v
  BY <1>1, <1>2, <1>4 DEF SourcePart
<1>6. SourcePart'
  <2>1. news' \in [Sources -> BOOLEAN]
    BY <1>1, Booleans DEF ActorResume, Published, SourcePart
  <2>2. last' \in [Sources -> Outcomes \cup {"none"}]
    BY <1>1 DEF ActorResume, SourcePart
  <2> QED BY <1>1, <1>5, <2>1, <2>2 DEF ActorResume, SourcePart
<1>7. Flow(s)'
  <2>1. UNCHANGED <<epoch, ring, con, proof, fresh>>
    BY DEF ActorResume, hostVars
  <2> QED BY <1>1, <1>3, <1>4, <1>5, <2>1, GenerationChanges DEF HostPart
<1>8. fresh' \in Nat /\ fresh <= fresh'
  BY <1>1 DEF ActorResume, HostPart
<1>9. \A x \in Sources \ {s} : src'[x] = src[x] /\ ring'[x] = ring[x] /\ proof'[x] = proof[x]
  BY <1>1, <1>2 DEF ActorResume, SourcePart
<1> QED BY <1>1, <1>6, <1>7, <1>8, <1>9, SourceStep, ProofKept DEF ActorResume

(* Regenerate and SourceStops: a generation that nobody had.               *)
LEMMA NewGenerationStep ==
  ASSUME SafetyInv, NEW s \in Sources, Regenerate(s) \/ SourceStops(s) PROVE SafetyInv'
<1>1. HostPart /\ SourcePart /\ Flow(s)
  BY InvParts
<1>2. PICK v \in SourceStates : src' = [src EXCEPT ![s] = v] /\ v.gen = <<fresh>>
                                 /\ v.epoch = src[s].epoch /\ v.sending = NoEvent
  <2>1. <<fresh>> \in Generations /\ NoTime \in Times /\ src[s] \in SourceStates
    BY <1>1 DEF Generations, HostPart, Times, SourcePart
  <2>2. CASE Regenerate(s)
    <3> DEFINE w == [src[s] EXCEPT !.gen = <<fresh>>, !.seq = 0, !.bad = 0]
    <3>1. src' = [src EXCEPT ![s] = w]
      BY <1>1, <2>2 DEF Regenerate, SourcePart
    <3>2. w \in SourceStates /\ w.gen = <<fresh>> /\ w.epoch = src[s].epoch /\ w.sending = NoEvent
      BY <2>1, <2>2 DEF SourceStates, Regenerate
    <3> QED BY <3>1, <3>2
  <2>3. CASE SourceStops(s)
    <3> DEFINE w == [src[s] EXCEPT !.up = FALSE, !.poll = NoTime, !.gen = <<fresh>>,
                                   !.seq = 0, !.bad = 0]
    <3>1. src' = [src EXCEPT ![s] = w]
      BY <1>1, <2>3 DEF SourceStops, SourcePart
    <3>2. w \in SourceStates /\ w.gen = <<fresh>> /\ w.epoch = src[s].epoch /\ w.sending = NoEvent
      BY <2>1, <2>3, Booleans DEF SourceStates, SourceStops
    <3> QED BY <3>1, <3>2
  <2> QED BY <2>2, <2>3
<1>3. /\ fresh' = fresh + 1 /\ fresh \in Nat
      /\ last' = [last EXCEPT ![s] = "none"] /\ news' = [news EXCEPT ![s] = TRUE]
      /\ UNCHANGED <<hostVars, hub, ring, lagged, proof, con, stop, run>>
  BY <1>1 DEF Regenerate, SourceStops, Published, HostPart
<1>4. src' \in [Sources -> SourceStates] /\ src'[s] = v
  BY <1>1, <1>2 DEF SourcePart
<1>5. SourcePart'
  <2>1. news' \in [Sources -> BOOLEAN]
    BY <1>1, <1>3, Booleans DEF SourcePart
  <2>2. last' \in [Sources -> Outcomes \cup {"none"}]
    BY <1>1, <1>3 DEF SourcePart
  <2> QED BY <1>1, <1>3, <1>4, <2>1, <2>2 DEF SourcePart
<1>6. fresh' \in Nat /\ fresh < fresh' /\ fresh <= fresh'
  BY <1>3
<1>7. Flow(s)'
  BY <1>1, <1>2, <1>3, <1>4, <1>6, GenerationChanges DEF Flow, SourceOK, hostVars
<1> QED BY <1>1, <1>2, <1>3, <1>5, <1>6, <1>7, SourceStep, ProofKept DEF SourcePart

(* StartPoll and SourceDies: generation, epoch and events stay as they are.*)
LEMMA QuietSourceStep ==
  ASSUME SafetyInv, NEW s \in Sources, StartPoll(s) \/ SourceDies(s)
  PROVE  SafetyInv'
<1>1. HostPart /\ SourcePart /\ Flow(s)
  BY InvParts
<1>2. PICK v \in SourceStates : src' = [src EXCEPT ![s] = v] /\ v.gen = src[s].gen
                                 /\ v.epoch = src[s].epoch /\ v.sending = src[s].sending
  <2>1. src[s] \in SourceStates /\ now \in Times /\ NoTime \in Times
    BY <1>1 DEF HostPart, Times, SourcePart
  <2>2. CASE StartPoll(s)
    <3> DEFINE w == [src[s] EXCEPT !.poll = now]
    <3>1. src' = [src EXCEPT ![s] = w]
      BY <1>1, <2>2 DEF StartPoll, SourcePart
    <3>2. w \in SourceStates /\ w.gen = src[s].gen /\ w.epoch = src[s].epoch
          /\ w.sending = src[s].sending
      BY <2>1 DEF SourceStates
    <3> QED BY <3>1, <3>2
  <2>3. CASE SourceDies(s)
    <3> DEFINE w == [src[s] EXCEPT !.up = FALSE, !.poll = NoTime]
    <3>1. src' = [src EXCEPT ![s] = w]
      BY <1>1, <2>3 DEF SourceDies, SourcePart
    <3>2. w \in SourceStates /\ w.gen = src[s].gen /\ w.epoch = src[s].epoch
          /\ w.sending = src[s].sending
      BY <2>1, Booleans DEF SourceStates
    <3> QED BY <3>1, <3>2
  <2> QED BY <2>2, <2>3
<1>3. UNCHANGED <<hostVars, hub, lagged, last, news, stop, run>>
  BY DEF StartPoll, SourceDies
<1>4. src' \in [Sources -> SourceStates] /\ src'[s] = v
  BY <1>1, <1>2 DEF SourcePart
<1>5. UNCHANGED <<ring, con, proof, fresh, epoch>>
  BY DEF StartPoll, SourceDies, hostVars
<1>6. SourcePart'
  BY <1>1, <1>3, <1>4, <1>5 DEF SourcePart
<1>7. Flow(s)'
  <2>1. SourceOK(s)'
    BY <1>1, <1>2, <1>4, <1>5 DEF Flow, SourceOK
  <2>2. EventsOK(s)'
    BY <1>1, <1>2, <1>4, <1>5 DEF Flow, EventsOK, EventOK
  <2>3. HandOK(s)'
    BY <1>1, <1>5 DEF Flow, HandOK
  <2> QED BY <2>1, <2>2, <2>3 DEF Flow
<1>8. fresh' \in Nat /\ fresh <= fresh'
  BY <1>1, <1>5 DEF HostPart
<1>9. \A x \in Sources \ {s} : src'[x] = src[x] /\ ring'[x] = ring[x] /\ proof'[x] = proof[x]
  BY <1>1, <1>2, <1>5 DEF SourcePart
<1> QED BY <1>1, <1>3, <1>5, <1>6, <1>7, <1>8, <1>9, SourceStep, ProofKept

(* A poll that ends: its evidence is the source's proof, if it is safe.    *)
LEMMA FinishPollStep ==
  ASSUME SafetyInv, NEW s \in Sources,
         NEW o \in Readings, NEW d \in Backdates, NEW lost \in BOOLEAN, FinishPoll(s, o, d, lost)
  PROVE  SafetyInv'
<1>1. HostPart /\ SourcePart /\ Flow(s)
  BY InvParts
<1> DEFINE g == IF lost THEN <<fresh>> ELSE src[s].gen
           q == IF lost THEN 1 ELSE src[s].seq + 1
           b == IF o # "safe" THEN q ELSE src[s].bad
           e == [gen |-> g, seq |-> q, start |-> src[s].poll - d, recv |-> now,
                 outcome |-> o, bad |-> b]
           v == [src[s] EXCEPT !.gen = g, !.seq = q, !.bad = b, !.poll = NoTime, !.sending = e]
           p == IF o = "safe" /\ e.start > proof[s] THEN e.start ELSE proof[s]
<1>2. /\ src' = [src EXCEPT ![s] = v] /\ proof' = [proof EXCEPT ![s] = p]
      /\ src[s] \in SourceStates /\ proof[s] \in Int /\ proof[s] \in Times
  <2>1. src' = [src EXCEPT ![s] = v]
    BY <1>1, Zenon DEF FinishPoll
  <2>2. proof' = [proof EXCEPT ![s] = p]
    BY <1>1, Zenon DEF FinishPoll
  <2> QED BY <1>1, <2>1, <2>2 DEF SourcePart, Times, NoTime
<1>3. /\ src[s].gen \in Seq(Nat) /\ Len(src[s].gen) > 0 /\ src[s].gen[1] < fresh
      /\ fresh \in Nat /\ epoch \in Nat /\ now \in Nat
  BY <1>1 DEF SourcePart, SourceStates, Generations, Flow, SourceOK, HostPart
<1>4. src[s].poll - d \in Nat
  BY <1>2, HubAssumption DEF FinishPoll, SourceStates, Times, NoTime
<1>5. g \in Generations /\ Len(g) > 0
  BY <1>3 DEF Generations
<1>6. q \in Nat /\ b \in Nat /\ o \in Outcomes /\ NoTime \in Times
  BY <1>2, HubAssumption DEF SourceStates, Times
<1>7. fresh' \in Nat /\ fresh <= fresh' /\ g[1] < fresh'
  <2>1. CASE lost
    BY <1>3, <2>1 DEF FinishPoll
  <2>2. CASE ~lost
    BY <1>3, <2>2 DEF FinishPoll
  <2> QED BY <2>1, <2>2
<1>8. e \in Events /\ e.gen = g /\ e.start = src[s].poll - d /\ e.outcome = o
  <2> HIDE DEF g, q, b
  <2> QED BY <1>3, <1>4, <1>5, <1>6 DEF Events
<1>9. p \in Times /\ proof[s] <= p /\ (o = "safe" => e.start <= p)
  BY <1>2, <1>4, <1>8 DEF Times
<1>10. (o # "safe" => p = proof[s])
  OBVIOUS
<1>11. lost => g = <<fresh>> /\ fresh < fresh' /\ o # "safe"
  BY <1>3 DEF FinishPoll
<1>12. ~lost => g = src[s].gen
  OBVIOUS
<1> HIDE DEF g, q, b, e, p
<1>13. v \in SourceStates /\ v.gen = g /\ v.epoch = src[s].epoch /\ v.sending = e
  BY <1>2, <1>5, <1>6, <1>8 DEF SourceStates
<1> HIDE DEF v
<1>14. src' \in [Sources -> SourceStates] /\ src'[s] = v
  BY <1>1, <1>2, <1>13 DEF SourcePart
<1>15. proof' \in [Sources -> Times] /\ proof'[s] = p
  BY <1>1, <1>2, <1>9 DEF SourcePart
<1>16. UNCHANGED <<hostVars, epoch, hub, ring, con, stop, run>>
  BY DEF FinishPoll, hostVars
<1>17. SourcePart'
  <2>1. news' \in [Sources -> BOOLEAN]
    BY <1>1, Booleans DEF FinishPoll, Published, SourcePart
  <2>2. last' \in [Sources -> Outcomes \cup {"none"}]
    BY <1>1, <1>6 DEF FinishPoll, SourcePart
  <2>3. lagged' = lagged
    BY DEF FinishPoll
  <2> QED BY <1>1, <1>14, <1>15, <1>16, <2>1, <2>2, <2>3 DEF SourcePart
<1>18. Len(g) <= Len(g)
  BY <1>5 DEF Generations
<1>19. EventOK(s, src[s].sending)'
  BY <1>5, <1>7, <1>8, <1>9, <1>13, <1>14, <1>15, <1>18 DEF EventOK
<1>20. Flow(s)'
  <2>1. CASE lost
    <3>1. proof' = proof
      BY <1>1, <1>2, <1>10, <1>11, <2>1 DEF SourcePart
    <3>2. src'[s].epoch <= epoch
      BY <1>1, <1>13, <1>14 DEF Flow, SourceOK
    <3> QED BY <1>7, <1>11, <1>13, <1>14, <1>16, <1>19, <2>1, <3>1, <3>2, GenerationChanges
  <2>2. CASE ~lost
    <3>1. src'[s].gen = src[s].gen /\ src'[s].epoch = src[s].epoch /\ fresh' = fresh
      BY <1>12, <1>13, <1>14, <2>2 DEF FinishPoll
    <3>2. SourceOK(s)'
      BY <1>1, <1>16, <3>1 DEF Flow, SourceOK
    <3>3. ASSUME NEW f \in Events, EventOK(s, f)
          PROVE  EventOK(s, f)'
      <4>1. f.start \in Nat
        BY DEF Events
      <4>2. f.start <= proof[s] => f.start <= proof'[s]
        BY <1>2, <1>9, <1>15, <4>1 DEF Times, NoTime
      <4> QED BY <1>16, <3>1, <3>3, <4>2 DEF EventOK
    <3>4. EventsOK(s)'
      <4>1. ring[s] \in Seq(Events) /\ ring'[s] = ring[s]
        BY <1>1, <1>16 DEF SourcePart
      <4> QED BY <1>1, <1>19, <3>3, <4>1 DEF Flow, EventsOK
    <3>5. HandOK(s)'
      <4>1. con[s].event.start \in Nat
        <5>1. con[s].event \in Events
          BY InvParts DEF TaskPart, ConsumeTasks
        <5> QED BY <5>1 DEF Events
      <4>2. con[s].event.start <= proof[s] => con[s].event.start <= proof'[s]
        BY <1>2, <1>9, <1>15, <4>1 DEF Times, NoTime
      <4> QED BY <1>1, <1>16, <4>2 DEF Flow, HandOK
    <3> QED BY <3>2, <3>4, <3>5 DEF Flow
  <2> QED BY <2>1, <2>2
<1>21. \A x \in Sources \ {s} : src'[x] = src[x] /\ ring'[x] = ring[x] /\ proof'[x] = proof[x]
  BY <1>1, <1>2, <1>16 DEF SourcePart
<1>22. \A x \in Sources : proof[x] <= proof'[x]
  <2>1. ASSUME NEW x \in Sources \ {s} PROVE proof[x] <= proof'[x]
    <3>1. proof[x] \in Int
      BY <1>1 DEF SourcePart, Times, NoTime
    <3> QED BY <1>21, <3>1
  <2> QED BY <1>9, <1>15, <2>1
<1> QED BY <1>7, <1>16, <1>17, <1>20, <1>21, <1>22, SourceStep

(* An event goes out, perhaps in the place of the oldest.                  *)
LEMMA SendEventStep ==
  ASSUME SafetyInv, NEW s \in Sources, SendEvent(s)
  PROVE  SafetyInv'
<1>1. HostPart /\ SourcePart /\ Flow(s)
  BY InvParts
<1> DEFINE v == [src[s] EXCEPT !.sending = NoEvent]
           e == src[s].sending
           r == IF Len(ring[s]) = RingCap THEN Append(Tail(ring[s]), e) ELSE Append(ring[s], e)
<1>2. src' = [src EXCEPT ![s] = v] /\ ring' = [ring EXCEPT ![s] = r]
  BY <1>1 DEF SendEvent, SourcePart
<1>3. src[s] \in SourceStates /\ e \in Events /\ EventOK(s, e) /\ ring[s] \in Seq(Events)
      /\ Len(ring[s]) <= RingCap /\ RingCap \in Nat \ {0}
  BY <1>1, HubAssumption DEF SourcePart, SourceStates, SendEvent, Flow, EventsOK
<1>4. v \in SourceStates /\ v.gen = src[s].gen /\ v.epoch = src[s].epoch /\ v.sending = NoEvent
  BY <1>3, NoEventTyped DEF SourceStates
<1> HIDE DEF e, v
<1>5. r \in Seq(Events) /\ Len(r) <= RingCap
      /\ \A i \in DOMAIN r : r[i] = e \/ \E j \in DOMAIN ring[s] : r[i] = ring[s][j]
  <2>1. CASE Len(ring[s]) = RingCap
    <3>1. r = Append(Tail(ring[s]), e)
      BY <2>1
    <3>2. ring[s] # <<>>
      BY <1>3, <2>1
    <3>3. Tail(ring[s]) \in Seq(Events) /\ Len(Tail(ring[s])) = Len(ring[s]) - 1
          /\ \A i \in 1..(Len(ring[s]) - 1) : Tail(ring[s])[i] = ring[s][i + 1]
      BY <1>3, <3>2
    <3>4. r \in Seq(Events) /\ Len(r) = RingCap
      BY <1>3, <2>1, <3>1, <3>3
    <3>5. ASSUME NEW i \in 1..Len(r)
          PROVE  r[i] = e \/ \E j \in DOMAIN ring[s] : r[i] = ring[s][j]
      <4>1. CASE i = Len(r)
        BY <1>3, <2>1, <3>1, <3>3, <3>4, <4>1
      <4>2. CASE i # Len(r)
        <5>1. r[i] = ring[s][i + 1] /\ i + 1 \in 1..Len(ring[s])
          BY <1>3, <2>1, <3>1, <3>3, <3>4, <4>2
        <5> QED BY <1>3, <5>1
      <4> QED BY <4>1, <4>2
    <3> QED BY <1>3, <3>4, <3>5
  <2>2. CASE Len(ring[s]) # RingCap
    <3>1. r = Append(ring[s], e)
      BY <2>2
    <3> HIDE DEF r
    <3> QED BY <1>3, <2>2, <3>1
  <2> QED BY <2>1, <2>2
<1> HIDE DEF r
<1>6. SourcePart'
  <2>1. src' \in [Sources -> SourceStates] /\ ring' \in [Sources -> Seq(Events)]
        /\ \A x \in Sources : Len(ring'[x]) <= RingCap
    BY <1>1, <1>2, <1>4, <1>5 DEF SourcePart
  <2>2. lagged' \in [Sources -> BOOLEAN]
    BY <1>1, Booleans DEF SendEvent, SourcePart
  <2> QED BY <1>1, <2>1, <2>2 DEF SendEvent, SourcePart
<1>7. UNCHANGED <<hostVars, epoch, hub, con, stop, run, proof, fresh>>
  BY DEF SendEvent, hostVars
<1>8. src'[s] = v /\ ring'[s] = r
  BY <1>1, <1>2 DEF SourcePart
<1>9. Flow(s)'
  <2>1. SourceOK(s)' /\ HandOK(s)'
    BY <1>1, <1>4, <1>7, <1>8 DEF Flow, SourceOK, HandOK
  <2>2. ASSUME NEW f \in Events, EventOK(s, f) PROVE EventOK(s, f)'
    BY <1>4, <1>7, <1>8, <2>2 DEF EventOK
  <2>3. \A i \in DOMAIN r : r[i] \in Events /\ EventOK(s, r[i])
    BY <1>1, <1>3, <1>5 DEF Flow, EventsOK
  <2>4. EventsOK(s)'
    BY <1>4, <1>8, <2>2, <2>3 DEF EventsOK
  <2> QED BY <2>1, <2>4 DEF Flow
<1>10. fresh' \in Nat /\ fresh <= fresh'
  BY <1>1, <1>7 DEF HostPart
<1>11. \A x \in Sources \ {s} : src'[x] = src[x] /\ ring'[x] = ring[x] /\ proof'[x] = proof[x]
  BY <1>1, <1>2, <1>7 DEF SourcePart
<1> QED BY <1>1, <1>6, <1>7, <1>9, <1>10, <1>11, SourceStep, ProofKept

-----------------------------------------------------------------------------
(* A task that goes on as v, with what it may hold in its hands.           *)
HandsOK(s, v) ==
  /\ v \in ConsumeTasks /\ v.epoch <= epoch
  /\ v.event.outcome = "safe" /\ v.epoch = epoch => v.event.start <= proof[s]

(* What the task holds before its step.                                    *)
LEMMA HandsBefore ==
  ASSUME SafetyInv, NEW s \in Sources
  PROVE  HandsOK(s, con[s])
BY InvParts DEF TaskPart, Flow, SourceOK, HandOK, HandsOK

(* What a step of a task leaves to be shown.                               *)
LEMMA TaskStep ==
  ASSUME SafetyInv, NEW s \in Sources, NEW v, HandsOK(s, v), con' = [con EXCEPT ![s] = v],
         run' \in [Sources -> Runs], HubPart', SourcePart',
         UNCHANGED <<now, epoch, clockValid, src, fresh, proof, stop>>,
         \A x \in Sources : \A i \in DOMAIN ring'[x] : \E j \in DOMAIN ring[x] :
            ring'[x][i] = ring[x][j]
  PROVE  SafetyInv'
<1>1. HostPart /\ TaskPart /\ SourcePart /\ \A x \in Sources : Flow(x)
  BY InvParts
<1>2. HostPart'
  BY <1>1 DEF HostPart
<1>3. TaskPart'
  BY <1>1 DEF TaskPart, HandsOK
<1>4. ASSUME NEW x \in Sources PROVE Flow(x)'
  <2>1. con'[x].epoch <= epoch
        /\ (con'[x].event.outcome = "safe" /\ con'[x].epoch = epoch => con'[x].event.start <= proof[x])
    <3>1. CASE x = s
      BY <1>1, <3>1 DEF TaskPart, HandsOK
    <3>2. CASE x # s
      BY <1>1, <3>2 DEF TaskPart, Flow, SourceOK, HandOK
    <3> QED BY <3>1, <3>2
  <2>2. SourceOK(x)' /\ HandOK(x)'
    BY <1>1, <2>1 DEF Flow, SourceOK, HandOK
  <2>3. ASSUME NEW f \in Events, EventOK(x, f) PROVE EventOK(x, f)'
    BY <2>3 DEF EventOK
  <2>4. \A j \in DOMAIN ring[x] : ring[x][j] \in Events /\ EventOK(x, ring[x][j])
    BY <1>1 DEF SourcePart, Flow, EventsOK
  <2>5. \A i \in DOMAIN ring'[x] : ring'[x][i] \in Events /\ EventOK(x, ring[x][i])'
    BY <2>3, <2>4
  <2>6. src[x].sending \in Events /\ (src[x].sending = NoEvent \/ EventOK(x, src[x].sending))
    BY <1>1 DEF SourcePart, SourceStates, Flow, EventsOK
  <2>7. EventsOK(x)'
    BY <2>3, <2>5, <2>6 DEF EventsOK
  <2> QED BY <2>2, <2>7 DEF Flow
<1> QED BY <1>2, <1>3, <1>4, InvPartsNext

(* A task that only goes elsewhere.                                        *)
LEMMA GoesOK ==
  ASSUME SafetyInv, NEW s \in Sources,
         NEW pc \in {"loop", "select", "deliver", "final", "done"}, Goes(s, pc)
  PROVE  \E v : HandsOK(s, v) /\ con' = [con EXCEPT ![s] = v]
<1> DEFINE v == [con[s] EXCEPT !.pc = pc]
<1>1. con[s] \in ConsumeTasks /\ HandsOK(s, con[s])
  BY HandsBefore DEF HandsOK
<1>2. v \in ConsumeTasks /\ v.epoch = con[s].epoch /\ v.event = con[s].event
  BY <1>1 DEF ConsumeTasks
<1>3. con' = [con EXCEPT ![s] = v]
  BY InvParts DEF Goes, TaskPart
<1> HIDE DEF v
<1> QED BY <1>1, <1>2, <1>3 DEF HandsOK

(* Ring, source and history are left alone by most steps of a task.        *)
LEMMA RingKept ==
  ASSUME ring' = ring
  PROVE  \A x \in Sources : \A i \in DOMAIN ring'[x] : \E j \in DOMAIN ring[x] :
            ring'[x][i] = ring[x][j]
OBVIOUS

(* AcquireLease, Wake, and the loop's exit: the task goes elsewhere.       *)
LEMMA GoesStep ==
  ASSUME SafetyInv, NEW s \in Sources, NEW pc \in {"loop", "select", "deliver", "final", "done"},
         Goes(s, pc), UNCHANGED <<hostVars, hub, srcVars, news, stop, run>>
  PROVE  SafetyInv'
<1>1. HubPart /\ SourcePart /\ TaskPart
  BY InvParts
<1>2. SourcePart'
  BY <1>1 DEF SourcePart, srcVars
<1>3. HubPart'
  BY <1>1, <1>2, HubLeftAlone, ProofKept DEF hostVars, srcVars, SourcePart
<1>4. PICK v : HandsOK(s, v) /\ con' = [con EXCEPT ![s] = v]
  BY GoesOK
<1> QED BY <1>1, <1>2, <1>3, <1>4, TaskStep, RingKept DEF hostVars, srcVars, TaskPart

(* Every operation of the runtime that a task calls.                       *)
LEMMA HubStep ==
  ASSUME SafetyInv, NEW s \in Sources, NEW v, HandsOK(s, v), con' = [con EXCEPT ![s] = v],
         run' \in [Sources -> Runs], HubOK(hub', DOMAIN hub.ep),
         UNCHANGED <<hostVars, srcVars, news, stop>>
  PROVE  SafetyInv'
<1>1. SourcePart
  BY InvParts
<1>2. SourcePart'
  BY <1>1 DEF SourcePart, srcVars
<1>3. HubPart'
  BY HubReplaced DEF hostVars, srcVars
<1> QED BY <1>2, <1>3, TaskStep, RingKept DEF hostVars, srcVars

(* Reset and Finish: the endpoint forgets.                                 *)
LEMMA ResetStep ==
  ASSUME SafetyInv, NEW s \in Sources, Reset(s) \/ Finish(s) PROVE SafetyInv'
<1>1. HostPart /\ SourcePart /\ TaskPart /\ con[s] \in ConsumeTasks
  BY InvParts DEF TaskPart
<1>2. con[s].gen \in Generations /\ con[s].then \in {"loop", "select", "deliver"}
  BY <1>1 DEF ConsumeTasks
<1>3. HubOK(Snapshot(ResetSource(Synced(hub), s, con[s].gen)), DOMAIN hub.ep)
  <2>1. HubOK(ResetSource(Synced(hub), s, con[s].gen), DOMAIN hub.ep)
    BY <1>1, <1>2, AskedOK, ResetSourceOK DEF SourcePart
  <2> QED BY <1>1, <2>1, SnapshotOK DEF HostPart
<1>4. hub' = Snapshot(ResetSource(Synced(hub), s, con[s].gen)) /\ run' \in [Sources -> Runs]
  BY <1>1, HubIsTyped DEF Reset, Finish, HubIs
<1>5. Goes(s, con[s].then) \/ Goes(s, "done")
  BY DEF Reset, Finish
<1>6. PICK v : HandsOK(s, v) /\ con' = [con EXCEPT ![s] = v]
  BY <1>2, <1>5, GoesOK
<1>7. HubOK(hub', DOMAIN hub.ep)
  BY <1>3, <1>4
<1> QED BY <1>4, <1>6, <1>7, HubStep DEF Reset, Finish

(* What a reader sees of a source is of this epoch.                        *)
LEMMA LatestTyped ==
  ASSUME SafetyInv, NEW s \in Sources
  PROVE  Latest(s).gen \in Generations /\ Latest(s).seq \in Nat /\ Latest(s).epoch = epoch
BY InvParts DEF Latest, SourcePart, SourceStates, HostPart, Generations

(* Adopting a generation changes nothing in the task's hands.              *)
LEMMA AdoptOK ==
  ASSUME SafetyInv, NEW s \in Sources, NEW g \in Generations, NEW mark \in Nat,
         NEW then \in {"loop", "select", "deliver"}
  PROVE  /\ HandsOK(s, Adopt(s, g, mark, then))
         /\ Adopt(s, g, mark, then).mark = mark /\ Adopt(s, g, mark, then).gen = g
<1> DEFINE v == Adopt(s, g, mark, then)
<1>1. HandsOK(s, con[s]) /\ con[s] \in ConsumeTasks /\ now \in Nat
  BY HandsBefore, InvParts DEF HandsOK, HostPart
<1>2. v \in ConsumeTasks /\ v.epoch = con[s].epoch /\ v.event = con[s].event
      /\ v.mark = mark /\ v.gen = g
  BY <1>1 DEF Adopt, ConsumeTasks
<1> HIDE DEF v
<1>3. HandsOK(s, v)
  BY <1>1, <1>2 DEF HandsOK
<1> QED BY <1>2, <1>3 DEF v

(* The task looks at the source's status.                                  *)
LEMMA LookStep ==
  ASSUME SafetyInv, NEW s \in Sources, Look(s)
  PROVE  SafetyInv'
<1>1. HubPart /\ SourcePart /\ TaskPart
  BY InvParts
<1>2. CASE stop
  BY <1>2, GoesStep DEF Look
<1>3. CASE ~stop
  <2> DEFINE w == [con[s] EXCEPT !.pc = "select"]
             v == IF con[s].gen # Latest(s).gen THEN Adopt(s, Latest(s).gen, 0, "select") ELSE w
  <2>1. con' = [con EXCEPT ![s] = v]
    BY <1>3, Zenon DEF Look
  <2>2. HandsOK(s, w)
    <3>1. HandsOK(s, con[s]) /\ con[s] \in ConsumeTasks
      BY HandsBefore DEF HandsOK
    <3>2. w \in ConsumeTasks /\ w.epoch = con[s].epoch /\ w.event = con[s].event
      BY <3>1 DEF ConsumeTasks
    <3> HIDE DEF w
    <3> QED BY <3>1, <3>2 DEF HandsOK
  <2> HIDE DEF w
  <2>3. HandsOK(s, v)
    BY <2>2, AdoptOK, LatestTyped
  <2> HIDE DEF v
  <2>4. news' \in [Sources -> BOOLEAN]
    BY <1>1, <1>3, Booleans DEF Look, SourcePart
  <2>5. SourcePart'
    BY <1>1, <2>4 DEF SourcePart, Look, srcVars
  <2>6. HubPart'
    BY <1>1, <2>5, HubLeftAlone, ProofKept DEF Look, hostVars, srcVars, SourcePart
  <2> QED BY <1>1, <2>1, <2>3, <2>5, <2>6, TaskStep, RingKept DEF Look, hostVars, srcVars, TaskPart
<1> QED BY <1>2, <1>3

(* The task begins again after lost events.                                *)
LEMMA LaggedStep ==
  ASSUME SafetyInv, NEW s \in Sources, Lagged(s)
  PROVE  SafetyInv'
<1>1. HubPart /\ SourcePart /\ TaskPart
  BY InvParts
<1> DEFINE v == Adopt(s, Latest(s).gen, Latest(s).seq, "loop")
<1>2. HandsOK(s, v) /\ con' = [con EXCEPT ![s] = v]
  BY AdoptOK, LatestTyped DEF Lagged
<1> HIDE DEF v
<1>3. lagged' \in [Sources -> BOOLEAN]
  BY <1>1, Booleans DEF Lagged, SourcePart
<1>4. ring' = [ring EXCEPT ![s] = <<>>]
  BY DEF Lagged
<1>5. ring' \in [Sources -> Seq(Events)] /\ \A x \in Sources : Len(ring'[x]) <= RingCap
  BY <1>1, <1>4, HubAssumption DEF SourcePart
<1>6. SourcePart'
  BY <1>1, <1>3, <1>5 DEF SourcePart, Lagged
<1>7. HubPart'
  BY <1>1, <1>6, HubLeftAlone, ProofKept DEF Lagged, hostVars, SourcePart
<1>8. \A x \in Sources : \A i \in DOMAIN ring'[x] : \E j \in DOMAIN ring[x] :
        ring'[x][i] = ring[x][j]
  BY <1>1, <1>4 DEF SourcePart
<1> QED BY <1>1, <1>2, <1>6, <1>7, <1>8, TaskStep DEF Lagged, hostVars, TaskPart

(* An event whose generation is what a reader sees now is of this epoch:   *)
(* the generation that a reader derives is longer than any of its kind.    *)
LEMMA AdmittedIsProven ==
  ASSUME SafetyInv, NEW s \in Sources, NEW e \in Events, EventOK(s, e),
         e.gen = Latest(s).gen, e.outcome = "safe"
  PROVE  e.start <= proof[s]
<1>1. HostPart /\ SourcePart /\ SourceOK(s)
  BY InvParts DEF Flow
<1>2. src[s].gen \in Seq(Nat) /\ Len(src[s].gen) > 0
  BY <1>1 DEF SourcePart, SourceStates, Generations, SourceOK
<1>3. CASE src[s].epoch = epoch /\ clockValid
  BY <1>3 DEF Latest, EventOK
<1>4. CASE ~(src[s].epoch = epoch /\ clockValid)
  <2>1. e.gen = Append(src[s].gen, epoch)
    BY <1>4 DEF Latest
  <2>2. e.gen[1] = src[s].gen[1] /\ Len(e.gen) = Len(src[s].gen) + 1
    BY <1>1, <1>2, <2>1 DEF HostPart
  <2>3. Len(e.gen) <= Len(src[s].gen)
    BY <2>2 DEF EventOK
  <2> QED BY <1>2, <2>2, <2>3
<1> QED BY <1>3, <1>4

(* The task takes an event into its hands.                                 *)
LEMMA ReceiveStep ==
  ASSUME SafetyInv, NEW s \in Sources, Receive(s)
  PROVE  SafetyInv'
<1>1. HostPart /\ HubPart /\ SourcePart /\ TaskPart /\ Flow(s)
  BY InvParts
<1> DEFINE e == Head(ring[s])
           a == Adopt(s, e.gen, 0, "loop")
           c == IF con[s].gen = e.gen THEN con[s] ELSE a
           drop == e.seq <= c.mark \/ TooEarly(c, e)
           next == IF drop THEN "loop" ELSE "deliver"
           to == IF c.pc = "reset" THEN [c EXCEPT !.then = next] ELSE [c EXCEPT !.pc = next]
           w == [con[s] EXCEPT !.pc = "loop"]
           t == [to EXCEPT !.mark = IF e.seq <= c.mark THEN c.mark ELSE e.seq,
                           !.event = IF drop THEN NoEvent ELSE e,
                           !.epoch = IF drop THEN 0 ELSE Latest(s).epoch]
           v == IF e.gen # Latest(s).gen THEN w ELSE t
<1>2. con' = [con EXCEPT ![s] = v] /\ ring' = [ring EXCEPT ![s] = Tail(ring[s])]
  BY Zenon DEF Receive
<1>3. ring[s] \in Seq(Events) /\ ring[s] # <<>> /\ Len(ring[s]) <= RingCap
  BY <1>1 DEF Receive, SourcePart
<1>4. e \in Events /\ EventOK(s, e)
  <2>1. e = ring[s][1] /\ 1 \in DOMAIN ring[s]
    BY <1>3
  <2> QED BY <1>1, <1>3, <2>1 DEF Flow, EventsOK
<1> HIDE DEF e
<1>5. e.gen \in Generations /\ e.seq \in Nat
  BY <1>4 DEF Events
<1>6. HandsOK(s, con[s]) /\ con[s] \in ConsumeTasks
  BY HandsBefore DEF HandsOK
<1>7. c \in ConsumeTasks
  BY <1>5, <1>6, AdoptOK DEF HandsOK
<1> HIDE DEF c
<1>8. next \in {"loop", "deliver"}
  OBVIOUS
<1>9. (drop => t.event = NoEvent /\ t.epoch = 0) /\ (~drop => t.event = e /\ t.epoch = epoch)
      /\ t \in ConsumeTasks
  <2> HIDE DEF drop, next
  <2>1. to \in ConsumeTasks
    BY <1>7, <1>8 DEF ConsumeTasks
  <2> HIDE DEF to
  <2>2. Latest(s).epoch = epoch /\ epoch \in Nat /\ c.mark \in Nat
    BY <1>1, <1>7, LatestTyped DEF HostPart, ConsumeTasks
  <2> QED BY <1>4, <1>5, <2>1, <2>2, NoEventTyped DEF ConsumeTasks
<1>10. HandsOK(s, w)
  <2>1. w \in ConsumeTasks /\ w.epoch = con[s].epoch /\ w.event = con[s].event
    BY <1>6 DEF ConsumeTasks
  <2> HIDE DEF w
  <2> QED BY <1>6, <2>1 DEF HandsOK
<1> HIDE DEF drop, t, w
<1>11. e.gen = Latest(s).gen => HandsOK(s, t)
  <2>1. e.gen = Latest(s).gen /\ e.outcome = "safe" => e.start <= proof[s]
    BY <1>4, AdmittedIsProven
  <2>2. epoch \in Nat
    BY <1>1 DEF HostPart
  <2>3. CASE drop
    BY <1>9, <2>2, <2>3, NoEventTyped DEF HandsOK
  <2>4. CASE ~drop
    BY <1>9, <2>1, <2>2, <2>4 DEF HandsOK
  <2> QED BY <2>3, <2>4
<1>12. HandsOK(s, v)
  BY <1>10, <1>11
<1> HIDE DEF v
<1>13. Tail(ring[s]) \in Seq(Events) /\ Len(Tail(ring[s])) = Len(ring[s]) - 1
       /\ \A i \in 1..(Len(ring[s]) - 1) : Tail(ring[s])[i] = ring[s][i + 1]
  BY <1>3
<1>14. ring' \in [Sources -> Seq(Events)] /\ \A x \in Sources : Len(ring'[x]) <= RingCap
  <2>1. Len(Tail(ring[s])) <= RingCap
    BY <1>3, <1>13, HubAssumption
  <2> QED BY <1>1, <1>2, <1>13, <2>1 DEF SourcePart
<1>15. SourcePart'
  BY <1>1, <1>14 DEF SourcePart, Receive
<1>16. HubPart'
  BY <1>1, <1>15, HubLeftAlone, ProofKept DEF Receive, hostVars, SourcePart
<1>17. ASSUME NEW x \in Sources, NEW i \in DOMAIN ring'[x]
       PROVE  \E j \in DOMAIN ring[x] : ring'[x][i] = ring[x][j]
  <2>1. CASE x # s
    <3>1. ring'[x] = ring[x]
      BY <1>1, <1>2, <2>1 DEF SourcePart
    <3> QED BY <3>1
  <2>2. CASE x = s
    <3>1. ring'[s] = Tail(ring[s]) /\ i \in 1..(Len(ring[s]) - 1)
      BY <1>1, <1>2, <1>13, <2>2 DEF SourcePart
    <3>2. ring'[s][i] = ring[s][i + 1] /\ i + 1 \in DOMAIN ring[s]
      BY <1>3, <1>13, <3>1
    <3> QED BY <2>2, <3>2
  <2> QED BY <2>1, <2>2
<1> QED BY <1>1, <1>2, <1>12, <1>15, <1>16, <1>17, TaskStep DEF Receive, hostVars, TaskPart

(* SafetyRuntime::observe: an event of another epoch changes nothing.      *)
LEMMA RuntimeObserveOK ==
  ASSUME SafetyInv, NEW s \in Sources
  PROVE  HubOK(RuntimeObserve(hub, s, con[s].event, con[s].epoch), DOMAIN hub.ep)
<1> DEFINE o == con[s].event
           y == Synced(hub)
           D == DOMAIN hub.ep
<1>1. HubOK(y, D) /\ y.epoch = epoch /\ now \in Nat
  BY AskedOK, InvParts DEF HubOK, HostPart
<1>2. HandsOK(s, con[s]) /\ o \in Events
  BY HandsBefore DEF HandsOK, ConsumeTasks
<1> HIDE DEF y, D, o
<1>3. CASE con[s].epoch = epoch /\ clockValid
  <2>1. HubOK(HubObserve(y, s, o), D)
    BY <1>1, <1>2, <1>3, HubObserveOK DEF HandsOK, o
  <2>2. RuntimeObserve(hub, s, o, con[s].epoch) = Snapshot(HubObserve(y, s, o))
    BY <1>1, <1>3 DEF RuntimeObserve, y
  <2> QED BY <1>1, <2>1, <2>2, SnapshotOK DEF o, D
<1>4. CASE ~(con[s].epoch = epoch /\ clockValid)
  <2>1. RuntimeObserve(hub, s, o, con[s].epoch) = Snapshot(y)
    BY <1>1, <1>4 DEF RuntimeObserve, y
  <2> QED BY <1>1, <2>1, SnapshotOK DEF o, D
<1> QED BY <1>3, <1>4

(* The endpoint observes what the task holds.                              *)
LEMMA DeliverStep ==
  ASSUME SafetyInv, NEW s \in Sources, Deliver(s)
  PROVE  SafetyInv'
<1>1. HostPart /\ TaskPart
  BY InvParts
<1> DEFINE v == [con[s] EXCEPT !.pc = "loop", !.event = NoEvent, !.epoch = 0]
<1>2. HubOK(hub', DOMAIN hub.ep)
  BY RuntimeObserveOK DEF Deliver
<1>3. run' \in [Sources -> Runs]
  <2>1. con[s].event \in Events /\ NoRun \in Runs
    BY <1>1 DEF TaskPart, ConsumeTasks, NoRun, Runs
  <2> DEFINE o == con[s].event
             first == [seq |-> o.seq, start |-> o.start, recv |-> o.recv, bad |-> o.bad]
             more == [run[s] EXCEPT !.bad = o.bad]
  <2>2. first \in Runs /\ run[s] \in Runs
    BY <1>1, <2>1 DEF TaskPart, Events, Runs
  <2>3. more \in Runs
    BY <2>1, <2>2 DEF Events, Runs
  <2>4. PICK f : /\ run' = [x \in Sources |-> f[x]]
                 /\ \A x \in Sources : f[x] \in {NoRun, run[x]} \/ (x = s /\ f[x] \in {first, more})
    <3> HIDE DEF first, more
    <3>1. run' = [x \in Sources |-> run'[x]]
      BY DEF Deliver
    <3>2. \A x \in Sources : run'[x] \in {NoRun, run[x]} \/ (x = s /\ run'[x] \in {first, more})
      BY DEF Deliver, first, more
    <3> QED BY <3>1, <3>2
  <2> HIDE DEF first, more
  <2> QED BY <1>1, <2>1, <2>2, <2>3, <2>4 DEF TaskPart
<1>4. con' = [con EXCEPT ![s] = v]
  BY <1>1 DEF Deliver, TaskPart
<1>5. HandsOK(s, v)
  <2>1. con[s] \in ConsumeTasks /\ epoch \in Nat
    BY <1>1 DEF TaskPart, HostPart
  <2>2. v \in ConsumeTasks /\ v.event = NoEvent /\ v.epoch = 0
    BY <2>1, NoEventTyped DEF ConsumeTasks
  <2> HIDE DEF v
  <2> QED BY <2>1, <2>2, NoEventTyped DEF HandsOK
<1> HIDE DEF v
<1> QED BY <1>2, <1>3, <1>4, <1>5, HubStep DEF Deliver

(* The hub is asked, or its expiry task looks.                             *)
LEMMA ExpiryStep == SafetyInv /\ Expiry => SafetyInv'
<1> SUFFICES ASSUME SafetyInv, Expiry PROVE SafetyInv'
  OBVIOUS
<1>1. HostPart /\ SourcePart /\ TaskPart
  BY InvParts
<1>2. HubPart'
  BY AskedOK, HubReplaced DEF Expiry, HubIs, hostVars, srcVars
<1>3. HostPart' /\ SourcePart'
  BY <1>1 DEF HostPart, SourcePart, Expiry, hostVars, srcVars
<1>4. TaskPart'
  <2>1. run' \in [Sources -> Runs]
    BY <1>1, HubIsTyped DEF Expiry
  <2> QED BY <1>1, <2>1 DEF TaskPart, Expiry
<1>5. ASSUME NEW x \in Sources PROVE Flow(x)'
  BY <1>1, FlowElsewhere DEF Expiry, hostVars, srcVars, HostPart
<1> QED BY <1>2, <1>3, <1>4, <1>5, InvPartsNext

(* The output goes, and its endpoints with it.                             *)
LEMMA ShutdownStep == SafetyInv /\ Shutdown => SafetyInv'
<1> SUFFICES ASSUME SafetyInv, Shutdown PROVE SafetyInv'
  OBVIOUS
<1>1. HostPart /\ SourcePart /\ TaskPart
  BY InvParts
<1>2. HubPart'
  <2>1. hub'.ep \in [{} -> Endpoints] /\ hub'.epoch = 0 /\ DOMAIN hub'.ep = {} /\ stop' = TRUE
    BY DEF Shutdown, HubIs
  <2>2. hub' \in Hubs
    BY <2>1, Booleans DEF Shutdown, HubIs, Hubs
  <2>3. hub'.epoch <= epoch'
    BY <1>1, <2>1 DEF Shutdown, hostVars, HostPart
  <2> QED BY <2>1, <2>2, <2>3 DEF HubPart, EndpointsProven
<1>3. HostPart'
  <2>1. stop' \in BOOLEAN
    BY Booleans DEF Shutdown
  <2> QED BY <1>1, <2>1 DEF HostPart, Shutdown, hostVars, srcVars
<1>4. SourcePart'
  BY <1>1 DEF SourcePart, Shutdown, srcVars
<1>5. TaskPart'
  <2>1. run' \in [Sources -> Runs]
    BY <1>1, HubIsTyped DEF Shutdown
  <2> QED BY <1>1, <2>1 DEF TaskPart, Shutdown
<1>6. ASSUME NEW x \in Sources PROVE Flow(x)'
  BY <1>1, FlowElsewhere DEF Shutdown, hostVars, srcVars, HostPart
<1> QED BY <1>2, <1>3, <1>4, <1>5, <1>6, InvPartsNext

-----------------------------------------------------------------------------
(* Every piece of evidence on its way to the permission is of a safe poll  *)
(* of the source's current generation in the host's current epoch, in every*)
(* reachable state, whatever the policy, the sources, the capacity of the  *)
(* broadcast and the interleaving (safety.rs, safety_output.rs consume).   *)
THEOREM EvidenceIsGenuine == Spec => []SafetyInv
<1>1. SafetyInv /\ [Next]_vars => SafetyInv'
  <2> SUFFICES ASSUME SafetyInv, [Next]_vars PROVE SafetyInv'
    OBVIOUS
  <2>1. CASE Tick
    BY <2>1, TickStep
  <2>2. CASE Resume
    BY <2>2, ResumeStep
  <2>3. CASE Expiry
    BY <2>3, ExpiryStep
  <2>4. CASE Shutdown
    BY <2>4, ShutdownStep
  <2>5. ASSUME NEW s \in Sources, Source(s) PROVE SafetyInv'
    BY <2>5, ActorResumeStep, NewGenerationStep, QuietSourceStep, FinishPollStep, SendEventStep
       DEF Source
  <2>6. ASSUME NEW s \in Sources, Task(s) PROVE SafetyInv'
    <3>1. CASE AcquireLease(s)
      BY <3>1, GoesStep DEF AcquireLease
    <3>2. CASE Wake(s)
      BY <3>2, GoesStep DEF Wake
    <3> QED BY <2>6, <3>1, <3>2, LookStep, ResetStep, LaggedStep, ReceiveStep, DeliverStep
            DEF Task
  <2>7. CASE UNCHANGED vars
    <3>1. HostPart /\ HubPart /\ SourcePart /\ TaskPart /\ \A s \in Sources : Flow(s)
      BY InvParts
    <3>2. HostPart' /\ SourcePart' /\ TaskPart'
      BY <2>7, <3>1 DEF HostPart, SourcePart, TaskPart, vars, hostVars, srcVars
    <3>3. HubPart'
      BY <2>7, <3>1, <3>2, HubLeftAlone, ProofKept DEF vars, hostVars, srcVars, SourcePart
    <3>4. ASSUME NEW x \in Sources PROVE Flow(x)'
      BY <2>7, <3>1, FlowElsewhere DEF vars, hostVars, srcVars, HostPart
    <3> QED BY <3>2, <3>3, <3>4, InvPartsNext
  <2> QED BY <2>1, <2>2, <2>3, <2>4, <2>5, <2>6, <2>7 DEF Next
<1> QED BY <1>1, InitInv, PTL DEF Spec

(* Whoever asks is told "safe" only on the strength of a safe poll of every*)
(* source that began in this epoch, less than SafeAge ago.                 *)
THEOREM SafeOnlyOnProof == Spec => []SafeIsProven
<1>1. SafetyInv => SafeIsProven
  <2> SUFFICES ASSUME SafetyInv, Asked.safe, NEW s \in Sources
               PROVE  proof[s] # NoTime /\ now - proof[s] < SafeAge
    BY DEF SafeIsProven
  <2> DEFINE D == DOMAIN hub.ep
             h == Synced(hub)
  <2>1. HostPart /\ HubPart /\ SourcePart /\ HubOK(h, D)
    BY InvParts, AskedOK
  <2>2. D # {} /\ \A x \in D : h.ep[x].lastSafe # NoTime /\ now - h.ep[x].lastSafe < SafeAge
    BY <2>1, SnapshotOK DEF Asked, HostPart
  <2>3. s \in D
    BY <2>1, <2>2 DEF HubPart
  <2>4. /\ h.ep[s].lastSafe \in Times /\ h.ep[s].lastSafe <= proof[s] /\ proof[s] \in Times
        /\ now \in Nat /\ SafeAge \in Nat
    BY <2>1, <2>3, PolicyAssumption DEF HubOK, Endpoints, SourcePart, HostPart
  <2> HIDE DEF h, D
  <2> QED BY <2>2, <2>3, <2>4 DEF Times, NoTime
<1> QED BY <1>1, EvidenceIsGenuine, PTL
=============================================================================
