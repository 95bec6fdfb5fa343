------------------------------- MODULE MCHub -------------------------------
(***************************************************************************)
(* Instance of what coordinates the hub's work: two focuser groups with    *)
(* the same members in opposite orders, a group of two cameras, a host     *)
(* with its runtimes, and one client stream. They share no state: a        *)
(* behaviour exercises one of them.                                        *)
(***************************************************************************)
EXTENDS Coordination, HubLifecycle, HubIpc

CONSTANTS f1, f2, ga, gb, c1, c2

VARIABLE part   \* the part under test

MCMembersOf == [g \in {ga, gb} |-> IF g = ga THEN <<f1, f2>> ELSE <<f2, f1>>]
MCCameraOrder == <<c1, c2>>

hubVars == <<fgVars, cgVars, hlVars, ipcVars, part>>

Init ==
  /\ FgInit /\ CgInit /\ HlInit /\ IpcInit
  /\ part \in {"focusers", "cameras", "host", "stream"}
  /\ part # "cameras" => cpolicy = [failure |-> TRUE, stop |-> TRUE]

Next ==
  \/ part = "focusers" /\ FgNext /\ UNCHANGED <<cgVars, hlVars, ipcVars, part>>
  \/ part = "cameras" /\ CgNext /\ UNCHANGED <<fgVars, hlVars, ipcVars, part>>
  \/ part = "host" /\ HlNext /\ UNCHANGED <<fgVars, cgVars, ipcVars, part>>
  \/ part = "stream" /\ IpcNext /\ UNCHANGED <<fgVars, cgVars, hlVars, part>>

Spec ==
  /\ Init /\ [][Next]_hubVars
  /\ FgFairness /\ CgFairness /\ HlFairness /\ IpcFairness

(* Nothing waits for good: focuser groups with members in common, a camera *)
(* group whose aborts race its images, a host that is asked to stop while  *)
(* work is admitted, and the callers of a stream that breaks all get to    *)
(* their end (coordination.rs, service.rs shutdown, client.rs pump).       *)
HubLive ==
  <>[](FocuserGroupsOver /\ CameraGroupOver /\ HostNotStopping /\ IpcAnswered)
=============================================================================
