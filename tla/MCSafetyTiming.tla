--------------------------- MODULE MCSafetyTiming ---------------------------
(***************************************************************************)
(* A safety output over time: confirmation, hold, grace and expiry of one  *)
(* source's readings. What a sleep or a new generation does to evidence is *)
(* the question of MCFences; here one of them happens early, if at all.    *)
(***************************************************************************)
EXTENDS SafetyHub

CONSTANTS
  MaxChanges,      \* bound on sleeps and new generations
  MaxChangeTime    \* bound on the time in a behaviour that has one

Changes == epoch + fresh - 1

MCNext ==
  /\ Next
  /\ Changes' > 0 => Changes' <= MaxChanges /\ now' <= MaxChangeTime

MCSpec == Init /\ [][MCNext]_vars
=============================================================================
