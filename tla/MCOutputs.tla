----------------------------- MODULE MCOutputs -----------------------------
(***************************************************************************)
(* Instance of the parts that face a client or a device directly: the      *)
(* hub's typed outputs and their samples, the Alpaca server's camera slot, *)
(* its accessory slots and its hub publisher, and the SDK-less ZWO camera  *)
(* worker. They share no state: a behaviour exercises one of them.         *)
(***************************************************************************)
EXTENDS TypedCommands, TypedSamples, AlpacaCamera, AlpacaSlots, HubPublisher, DirectCamera, TLC

VARIABLE part   \* the part under test

MCSampleKeys == <<"position", "temperature">>
MCDepends == [position |-> {}, temperature |-> {"position"}]
Symmetry == Permutations(Callers)

outVars == <<tyVars, smVars, acVars, asVars, pbVars, dcVars, part>>

(* The parts whose initial state is a choice start from one of them when   *)
(* they are not under test.                                                *)
Init ==
  /\ TyInit /\ SmInit /\ AcInit /\ AsInit /\ PbInit /\ DcInit
  /\ part \in {"typed", "samples", "camera", "slots", "publisher", "direct"}
  /\ part # "typed" => tdev.class = "focuser"
  /\ part # "slots" => family = "focuser" /\ \A s \in PairSlots : slots[s].serial = NoSerial
  /\ part # "direct" => host.family = "guide"

Next ==
  \/ part = "typed" /\ TyNext /\ UNCHANGED <<smVars, acVars, asVars, pbVars, dcVars, part>>
  \/ part = "samples" /\ SmNext /\ UNCHANGED <<tyVars, acVars, asVars, pbVars, dcVars, part>>
  \/ part = "camera" /\ AcNext /\ UNCHANGED <<tyVars, smVars, asVars, pbVars, dcVars, part>>
  \/ part = "slots" /\ AsNext /\ UNCHANGED <<tyVars, smVars, acVars, pbVars, dcVars, part>>
  \/ part = "publisher" /\ PbNext /\ UNCHANGED <<tyVars, smVars, acVars, asVars, dcVars, part>>
  \/ part = "direct" /\ DcNext /\ UNCHANGED <<tyVars, smVars, acVars, asVars, pbVars, part>>

Spec == Init /\ [][Next]_outVars

-----------------------------------------------------------------------------
(* The Alpaca server gives nobody another one's frame, device or slot,     *)
(* whatever requests come at once: see DeviceHonest (device.rs: captures   *)
(* and their cancelled tasks) and SlotsHonest (server.rs, accessory.rs:    *)
(* the gate, and which device a request is answered by).                   *)
AlpacaServerHonest == DeviceHonest /\ SlotsHonest
=============================================================================
