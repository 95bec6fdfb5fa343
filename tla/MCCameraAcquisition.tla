------------------------ MODULE MCCameraAcquisition ------------------------
(***************************************************************************)
(* The camera supervisor on a small instance. Sessions are alike and so    *)
(* are acquisitions, all of them reserved for groups: such a start does    *)
(* everything a client's own start does, and may be cut in its release.    *)
(* A bounded number of tasks is under way at once; the setting slot counts *)
(* as two of them.                                                         *)
(***************************************************************************)
EXTENDS CameraAcquisition, FiniteSets, TLC

CONSTANT MaxTasks   \* bound on the tasks under way at once

Symmetry == Permutations(Sessions) \cup Permutations(Exposures)

Running(tasks) == Cardinality({i \in DOMAIN tasks : tasks[i].pc \notin {"unused", "end"}})
UnderWay == Running(exp) + Running(cmd) + Running(gd) + (IF setg.pc = "free" THEN 0 ELSE 2)

MCSpec == Init /\ [][Next /\ UnderWay' <= MaxTasks]_vars
=============================================================================
