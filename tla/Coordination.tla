---------------------------- MODULE Coordination ----------------------------
(***************************************************************************)
(* Both kinds of coordinated operations of a host: focuser groups and the  *)
(* capture of a camera group (regain-hub coordination.rs). They share no   *)
(* state, and make the same promise about their reports.                   *)
(***************************************************************************)
EXTENDS FocuserGroup, CameraGroup

(* What a group reports of its members is what happened to them, although  *)
(* nothing is rolled back (coordination.rs, coordination/camera.rs run).   *)
GroupReportsTrue == FocuserReportTrue /\ CameraReportTrue
=============================================================================
