-------------------------- MODULE SafetyEndpoint ---------------------------
(***************************************************************************)
(* One required member of a safety output (regain-hub safety.rs Endpoint): *)
(* what it makes of the observations of its source, under its policy.      *)
(*                                                                         *)
(* Everything here is a function of the endpoint's record: the hub that    *)
(* holds the endpoints and the tasks that feed them are in SafetyHub.      *)
(* The raw reading and the reason are only reported and are left out.      *)
(***************************************************************************)
EXTENDS Integers, Sequences

CONSTANTS
  Confirmation,     \* confirmation_seconds: least distance of counted readings
  SafeAge,          \* maximum_safe_age_seconds
  Hold,             \* return_to_safe_hold_seconds
  SafeReadings,     \* safe_readings_to_safe
  UnsafeReadings,   \* unsafe_readings_to_unsafe
  FailedCycles      \* failed_cycles_to_unsafe

(* SafetyPolicy::validate, in units of time that the policy divides.       *)
ASSUME PolicyAssumption ==
  /\ Confirmation \in Nat \ {0} /\ SafeAge \in Nat \ {0} /\ Hold \in Nat
  /\ SafeReadings \in Nat \ {0} /\ UnsafeReadings \in Nat \ {0}
  /\ FailedCycles \in Nat \ {0}

NoTime == -1
Times == Nat \cup {NoTime}

(* A generation is an identity. One that a resume derives from another is  *)
(* that one with the epoch added (Uuid::new_v5); the rest are random.      *)
Generations == Seq(Nat)

Phases == {"unknown", "freshSafe", "graceSafe", "pendingUnsafe", "pendingSafe",
           "unsafe", "stale", "faulted"}
Outcomes == {"safe", "unsafe", "attemptFailed", "cycleFailed", "fault"}

Endpoints ==
  [gen : Generations, phase : Phases, permits : BOOLEAN, confirmed : BOOLEAN,
   seq : Nat, lastRequest : Times, lastSafe : Times, runStart : Times,
   countedSafe : Times, countedUnsafe : Times, countedFailure : Times,
   failures : Nat, unsafeCount : Nat, safeCount : Nat]

Observations ==
  [gen : Generations, seq : Nat, start : Nat, recv : Nat, outcome : Outcomes]

NewEndpoint(g) ==
  [gen |-> g, phase |-> "unknown", permits |-> FALSE, confirmed |-> FALSE,
   seq |-> 0, lastRequest |-> NoTime, lastSafe |-> NoTime,
   runStart |-> NoTime, countedSafe |-> NoTime, countedUnsafe |-> NoTime,
   countedFailure |-> NoTime, failures |-> 0, unsafeCount |-> 0, safeCount |-> 0]

(* Duration::saturating_sub                                                *)
Since(a, b) == IF a > b THEN a - b ELSE 0

(* reset_recovery: the run of safe readings starts over.                   *)
WithoutRun(e) ==
  [e EXCEPT !.safeCount = 0, !.runStart = NoTime, !.countedSafe = NoTime,
            !.confirmed = FALSE]

Withdraw(e, p) == [WithoutRun(e) EXCEPT !.permits = FALSE, !.phase = p]

(* A reading counts when it began long enough after the last counted one.  *)
Eligible(last, start) == last = NoTime \/ Since(start, last) >= Confirmation

(* Fault: the age is only looked at while no failure is being waited out.  *)
ExpireFreshOnly(e, t) ==
  IF /\ e.lastSafe # NoTime /\ Since(t, e.lastSafe) >= SafeAge
     /\ e.phase \notin {"stale", "unsafe", "faulted", "graceSafe"}
  THEN Withdraw(e, "stale") ELSE e

(* expire: the last safe request lends its permission for SafeAge and no   *)
(* longer. The other half of expire, a clock that went back, cannot happen:*)
(* the hub reads a monotonic clock, and reads it under its lock.           *)
Expire(e, t) ==
  IF /\ e.lastSafe # NoTime /\ Since(t, e.lastSafe) >= SafeAge
     /\ e.phase \notin {"stale", "unsafe", "faulted"}
  THEN Withdraw(e, "stale") ELSE e

(* AttemptFailed and CycleFailed: grace, until enough cycles have failed.  *)
OnFailure(e, o) ==
  LET r == WithoutRun(e)
      g == [r EXCEPT !.phase = IF r.permits
                               THEN IF r.unsafeCount > 0 THEN "pendingUnsafe" ELSE "graceSafe"
                               ELSE IF r.phase = "pendingSafe" THEN "unknown" ELSE r.phase]
      f == [g EXCEPT !.countedFailure = o.start, !.failures = @ + 1]
  IN IF o.outcome = "cycleFailed" /\ Eligible(g.countedFailure, o.start)
     THEN IF f.failures >= FailedCycles THEN Withdraw(f, "unsafe") ELSE f
     ELSE g

OnUnsafe(e, o) ==
  LET r == WithoutRun([e EXCEPT !.failures = 0, !.countedFailure = NoTime])
      c == IF Eligible(r.countedUnsafe, o.start)
           THEN [r EXCEPT !.countedUnsafe = o.start, !.unsafeCount = @ + 1] ELSE r
  IN IF c.unsafeCount >= UnsafeReadings THEN Withdraw(c, "unsafe")
     ELSE [c EXCEPT !.phase = "pendingUnsafe"]

(* A counted safe reading; the one that completes both the count and the   *)
(* hold gives permission.                                                  *)
CountSafe(e, o, t) ==
  LET begun == IF e.runStart = NoTime THEN o.recv ELSE e.runStart
      done  == e.safeCount + 1 >= SafeReadings /\ Since(t, begun) >= Hold
  IN IF ~Eligible(e.countedSafe, o.start) THEN e
     ELSE [e EXCEPT !.countedSafe = o.start, !.runStart = begun, !.safeCount = @ + 1,
                    !.confirmed = done, !.permits = @ \/ done]

OnSafe(e, o, t) ==
  LET c == CountSafe([e EXCEPT !.failures = 0, !.countedFailure = NoTime, !.unsafeCount = 0,
                               !.countedUnsafe = NoTime, !.lastSafe = o.start], o, t)
  IN [c EXCEPT !.phase = IF c.permits THEN "freshSafe" ELSE "pendingSafe"]

(* A safe answer that was too old when it came.                            *)
OnSafeTooLate(e) ==
  Withdraw([e EXCEPT !.failures = 0, !.countedFailure = NoTime, !.unsafeCount = 0,
                     !.countedUnsafe = NoTime], "stale")

(* The match on the observation's outcome, and the expiry after it.        *)
Applied(e, o, t) ==
  IF o.outcome = "safe" /\ Since(t, o.start) >= SafeAge
  THEN OnSafeTooLate(e)
  ELSE Expire(CASE o.outcome = "safe"   -> OnSafe(e, o, t)
                [] o.outcome = "unsafe" -> OnUnsafe(e, o)
                [] o.outcome = "fault"  -> Withdraw(e, "faulted")
                [] OTHER                -> OnFailure(e, o), t)

(* Observations that are accepted at all: not replayed, not retired.       *)
Accepts(e, o) == o.gen = e.gen /\ o.seq > e.seq

(* observe: expiry comes first, whatever the observation says.             *)
Observe(e, o, t) ==
  LET x == Expire(e, t)
      y == [x EXCEPT !.seq = o.seq]
  IN IF ~Accepts(x, o) THEN x
     ELSE IF \/ o.start > o.recv \/ o.recv > t
             \/ y.lastRequest # NoTime /\ o.start < y.lastRequest
     THEN Withdraw(y, "faulted")
     ELSE Applied([y EXCEPT !.lastRequest = o.start], o, t)
=============================================================================
