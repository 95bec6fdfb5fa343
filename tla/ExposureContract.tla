-------------------------- MODULE ExposureContract --------------------------
(***************************************************************************)
(* What one capture request promises, whatever recovery happens inside it: *)
(* the sensor is armed once, and again only to replace a failed short      *)
(* exposure within the configured budget; never after the client cancelled *)
(* the request, and never once a control write has an unknown outcome. A   *)
(* frame is delivered only by a request that armed the sensor and is free  *)
(* of such doubt.                                                          *)
(***************************************************************************)
EXTENDS Naturals

CONSTANT Replacements(_)   \* replacement exposures a kind of exposure may use

VARIABLES busy, kind, armed, stopped, doubt, delivered

vars == <<busy, kind, armed, stopped, doubt, delivered>>

Kinds == {"short", "long"}

Init == /\ busy = FALSE
        /\ kind \in Kinds
        /\ armed = 0
        /\ stopped = FALSE
        /\ doubt = FALSE
        /\ delivered = FALSE

Begin == /\ ~busy
         /\ busy' = TRUE
         /\ kind' \in Kinds
         /\ armed' = 0
         /\ stopped' = FALSE
         /\ doubt' = FALSE
         /\ delivered' = FALSE

Arm == /\ busy
       /\ ~stopped
       /\ ~doubt
       /\ armed <= Replacements(kind)
       /\ armed' = armed + 1
       /\ UNCHANGED <<busy, kind, stopped, doubt, delivered>>

Stop == busy /\ stopped' = TRUE /\ UNCHANGED <<busy, kind, armed, doubt, delivered>>

Lose == busy /\ doubt' = TRUE /\ UNCHANGED <<busy, kind, armed, stopped, delivered>>

Deliver == /\ busy
           /\ armed > 0
           /\ ~doubt
           /\ busy' = FALSE
           /\ delivered' = TRUE
           /\ UNCHANGED <<kind, armed, stopped, doubt>>

Fail == busy /\ busy' = FALSE /\ UNCHANGED <<kind, armed, stopped, doubt, delivered>>

Next == Begin \/ Arm \/ Stop \/ Lose \/ Deliver \/ Fail

Spec == Init /\ [][Next]_vars
=============================================================================
