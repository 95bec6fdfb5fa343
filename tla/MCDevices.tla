----------------------------- MODULE MCDevices -----------------------------
(***************************************************************************)
(* Instance of the parts that stand between devices and their clients: a   *)
(* weather output with a fallback, a safety output of two members of which *)
(* one may be in grace, a rotator and its saved reference, a continuous    *)
(* stream, a native camera's owner. They share no state: a behaviour       *)
(* exercises one of them.                                                  *)
(***************************************************************************)
EXTENDS WeatherOutput, RotatorReference, ContinuousStream, NativeOwner

CONSTANT Pair   \* the members of the safety output

VARIABLE part   \* the part under test

(* SafetyHub *)
VARIABLES now, epoch, clockValid, hub, src, ring, lagged, news, con, stop, fresh,
          proof, last, run

Two == INSTANCE SafetyHub WITH
  Confirmation <- 1, SafeAge <- 2, Hold <- 0, SafeReadings <- 1, UnsafeReadings <- 1,
  FailedCycles <- 1, Sources <- Pair, RingCap <- 1, Backdates <- {0},
  Readings <- {"safe", "attemptFailed"}, MaxTime <- 1, MaxSeq <- 2, MaxGen <- 1, MaxEpoch <- 0

MCWxSources == <<"preferred", "fallback">>

twoVars == <<now, epoch, clockValid, hub, src, ring, lagged, news, con, stop, fresh,
             proof, last, run>>
devVars == <<wxVars, rtVars, csVars, noVars, twoVars, part>>

Init ==
  /\ WxInit /\ RtInit /\ CsInit /\ NoInit /\ Two!Init
  /\ part \in {"weather", "rotator", "stream", "camera", "safety"}
  /\ part # "safety" => \A s \in Pair : src[s].poll = Two!NoTime

Next ==
  \/ part = "weather" /\ WxNext /\ UNCHANGED <<rtVars, csVars, noVars, twoVars, part>>
  \/ part = "rotator" /\ RtNext /\ UNCHANGED <<wxVars, csVars, noVars, twoVars, part>>
  \/ part = "stream" /\ CsNext /\ UNCHANGED <<wxVars, rtVars, noVars, twoVars, part>>
  \/ part = "camera" /\ NoNext /\ UNCHANGED <<wxVars, rtVars, csVars, twoVars, part>>
  \/ part = "safety" /\ Two!Next /\ ~stop' /\ UNCHANGED <<wxVars, rtVars, csVars, noVars, part>>

Spec == Init /\ [][Next]_devVars

-----------------------------------------------------------------------------
(* The aggregate permission is given only when both members have earned it *)
(* at the same time, none of them being in grace (safety.rs snapshot).     *)
GrantIsEarnedByBoth ==
  [][~hub.safe /\ hub'.safe => \A s \in Pair : Two!Earned(s)']_devVars

(* Nothing old is passed off as current: no weather value over a gap, of a *)
(* former epoch or past its age, no frame of a former stream or exposed    *)
(* under settings that have changed (weather.rs, continuous.rs).           *)
NothingStale == WeatherHonest /\ FramesAreCurrent

(* Nothing is commanded on a reference or certainty that is not there: no  *)
(* rotator move by an unproven reference, no write to a camera in doubt    *)
(* (native_reference.rs, native_owner.rs).                                 *)
NoBlindCommand == MovesByReference /\ DoubtIsKept
=============================================================================
