---------------------------- MODULE TypedSamples ----------------------------
(***************************************************************************)
(* How a polled property gets its age (sampling.rs PropertyPoll, the part  *)
(* of source.rs Actor::poll that keeps samples, readout.rs typed_sample    *)
(* and the cached_property functions of the typed outputs). Properties are *)
(* polled one request at a time; a weather sensor is first asked for the   *)
(* age of its value and then for the value. Requests take time, may fail   *)
(* and are retried; sensors take new values whenever they like.            *)
(***************************************************************************)
EXTENDS Integers, Sequences, FiniteSets

CONSTANTS
  SampleKeys,      \* a sequence: the polled properties in order
  AgedKeys,        \* those whose sensor tells the age of its value
  Depends,         \* per property: the ones its reading is only valid with
  SampleAttempts,  \* attempts_per_cycle
  MaxSampleTime, MaxSampleFailures    \* bounds

Keys == {SampleKeys[k] : k \in DOMAIN SampleKeys}

ASSUME SamplesAssumption ==
  /\ SampleKeys \in Seq(Keys) /\ Len(SampleKeys) >= 1 /\ SampleAttempts \in Nat \ {0}
  /\ Depends \in [Keys -> SUBSET Keys]
  /\ {MaxSampleTime, MaxSampleFailures} \subseteq Nat

VARIABLES
  mclk,     \* the time; requests that failed so far
  msens,    \* per property: when its sensor took the value it has
  mpoll,    \* PropertyPoll: cursor, the age that waits for its value, failures
  mio,      \* the request under way
  mcache    \* the snapshot: per property its value, age and start

smVars == <<mclk, msens, mpoll, mio, mcache>>

NoAge == [at |-> -1, age |-> 0]
NoSample == [started |-> -1, age |-> 0, taken |-> 0]
NoIo == [pc |-> "none", started |-> 0, key |-> "", began |-> 0, needsAge |-> FALSE,
         age |-> 0, told |-> 0, taken |-> 0]
Fresh0 == [cursor |-> 1, pending |-> NoAge, failures |-> 0]

SmInit ==
  /\ mclk = [now |-> 0, failed |-> 0]
  /\ msens = [k \in Keys |-> 0]
  /\ mpoll = Fresh0
  /\ mio = NoIo
  /\ mcache = [k \in Keys |-> NoSample]

SmTick ==
  /\ mclk.now < MaxSampleTime /\ mclk' = [mclk EXCEPT !.now = @ + 1]
  /\ UNCHANGED <<msens, mpoll, mio, mcache>>

SmSensor(k) ==
  /\ msens[k] # mclk.now /\ msens' = [msens EXCEPT ![k] = mclk.now]
  /\ UNCHANGED <<mclk, mpoll, mio, mcache>>

-----------------------------------------------------------------------------
(* Actor::poll notes its start; the transport may first have to be made.   *)
SmPoll ==
  /\ mio = NoIo
  /\ mio' = [NoIo EXCEPT !.pc = "connect", !.started = mclk.now]
  /\ UNCHANGED <<mclk, msens, mpoll, mcache>>

(* prepare: the age first, unless it waits for its value already; by now   *)
(* it has grown.                                                           *)
SmPrepare ==
  /\ mio.pc = "connect"
  /\ LET k == SampleKeys[mpoll.cursor] IN
     mio' = [mio EXCEPT !.pc = "sent", !.key = k, !.began = mclk.now,
               !.needsAge = k \in AgedKeys /\ mpoll.pending = NoAge,
               !.age = IF mpoll.pending = NoAge THEN 0
                       ELSE mpoll.pending.age + mclk.now - mpoll.pending.at]
  /\ UNCHANGED <<mclk, msens, mpoll, mcache>>

(* The device answers with the age or the value it has now. A property     *)
(* that is no sensor's is as it is when it is read.                        *)
SmAnswer ==
  /\ mio.pc = "sent"
  /\ LET taken == IF mio.key \in AgedKeys THEN msens[mio.key] ELSE mclk.now IN
     mio' = [mio EXCEPT !.pc = "answered", !.told = mclk.now - taken, !.taken = taken]
  /\ UNCHANGED <<mclk, msens, mpoll, mcache>>

SmFailure ==
  /\ mio.pc = "sent" /\ mclk.failed < MaxSampleFailures
  /\ mclk' = [mclk EXCEPT !.failed = @ + 1]
  /\ mio' = [mio EXCEPT !.pc = "failed"]
  /\ UNCHANGED <<msens, mpoll, mcache>>

(* Fault: the next property inherits the age that waits for a value.       *)
NextKeyKeepsAge == [mpoll EXCEPT !.failures = 0, !.cursor = (@ % Len(SampleKeys)) + 1]

(* finish, for a property that is done with: the next one.                 *)
NextKey == [Fresh0 EXCEPT !.cursor = (mpoll.cursor % Len(SampleKeys)) + 1]

(* finish, for an age: it is counted from before it was asked for.         *)
SmAge ==
  /\ mio.pc = "answered" /\ mio.needsAge
  /\ mpoll' = [mpoll EXCEPT !.failures = 0, !.pending = [at |-> mio.began, age |-> mio.told]]
  /\ mio' = NoIo
  /\ UNCHANGED <<mclk, msens, mcache>>

SmValue ==
  /\ mio.pc = "answered" /\ ~mio.needsAge
  /\ mcache' = [mcache EXCEPT ![mio.key] =
                  [started |-> mio.started, age |-> mio.age, taken |-> mio.taken]]
  /\ mpoll' = NextKey /\ mio' = NoIo
  /\ UNCHANGED <<mclk, msens>>

(* finish, for an error, a wrong type or no valid update time: the sample  *)
(* is gone. A transient error is retried with the same property, and the   *)
(* age that waits stays.                                                   *)
SmError ==
  /\ mio.pc \in {"failed", "answered"}
  /\ mcache' = [mcache EXCEPT ![mio.key] = NoSample]
  /\ mpoll' \in {NextKey} \cup
       IF mio.pc = "failed" /\ mpoll.failures + 1 < SampleAttempts
       THEN {[mpoll EXCEPT !.failures = @ + 1]} ELSE {}
  /\ mio' = NoIo
  /\ UNCHANGED <<mclk, msens>>

(* A write, a resume or a new transport: restart, with an empty snapshot.  *)
SmRestart ==
  /\ mpoll # Fresh0 \/ \E k \in Keys : mcache[k] # NoSample
  /\ mpoll' = Fresh0 /\ mio' = NoIo
  /\ mcache' = [k \in Keys |-> NoSample]
  /\ UNCHANGED <<mclk, msens>>

SmNext ==
  \/ SmTick \/ SmPoll \/ SmPrepare \/ SmAnswer \/ SmFailure \/ SmAge \/ SmValue \/ SmError
  \/ SmRestart \/ \E k \in Keys : SmSensor(k)

-----------------------------------------------------------------------------
(* typed_sample, scalar: the age that a client is told.                    *)
AgeOf(k) == mclk.now - mcache[k].started + mcache[k].age

(* cached_property: a reading that depends on others is as old as the      *)
(* oldest, and not there without them.                                     *)
CachedAge(k) ==
  LET on == Depends[k] \cup {k} IN
  CHOOSE a \in {AgeOf(d) : d \in on} : \A d \in on : AgeOf(d) <= a
Served(k) == \A d \in Depends[k] \cup {k} : mcache[d] # NoSample

(* No client is told that a reading is younger than it is: the age served  *)
(* covers the time since the sensor took the value, and every value the    *)
(* reading depends on, however slowly the age and the value came, with     *)
(* failures and retries between them. And no request is retried for one    *)
(* property beyond the attempts of a cycle.                                *)
AgesHonest ==
  /\ \A k \in Keys : Served(k) =>
       \A d \in Depends[k] \cup {k} : CachedAge(k) >= mclk.now - mcache[d].taken
  /\ mpoll.failures < SampleAttempts
=============================================================================
