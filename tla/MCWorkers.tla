------------------------------ MODULE MCWorkers ------------------------------
(***************************************************************************)
(* Instance of what works below the hub's sources or for them: a QHY       *)
(* camera's worker under its supervisor, the images that the hub holds,    *)
(* the elevated helper that cycles a camera's port, and the sources that   *)
(* are a Windows driver, another Alpaca server's device or another output  *)
(* of the hub. They share no state: a behaviour exercises one of them.     *)
(***************************************************************************)
EXTENDS QhyCamera, CameraImages, UsbBroker, ComBackend, AlpacaBackend, VirtualSource, TLC

VARIABLE part   \* the part under test

Symmetry == Permutations(UbClients) \cup Permutations(ImTasks)

partVars == <<qhyVars, imVars, ubVars, comVars, alpVars, vsVars>>
workerVars == <<partVars, part>>

(* The parts whose initial state is a choice start from one of them when   *)
(* they are not under test.                                                *)
Init ==
  /\ QhyInit /\ ImInit /\ UbInit /\ ComInit /\ AlpInit /\ VsInit
  /\ part \in {"qhy", "images", "broker", "com", "alpaca", "virtual"}
  /\ part # "qhy" => qhy.backend = "direct" /\ qhy.wheel.at = 0 /\ ~qhy.drive
  /\ part # "com" => com.managed /\ cdev.modern /\ cdev.on
  /\ part # "alpaca" => alp.managed /\ alp.pinned /\ asrv.modern /\ asrv.on
  /\ part # "virtual" => virt.kind = "camera"

Next ==
  \/ part = "qhy" /\ QhyNext /\ UNCHANGED <<imVars, ubVars, comVars, alpVars, vsVars, part>>
  \/ part = "images" /\ ImNext /\ UNCHANGED <<qhyVars, ubVars, comVars, alpVars, vsVars, part>>
  \/ part = "broker" /\ UbNext /\ UNCHANGED <<qhyVars, imVars, comVars, alpVars, vsVars, part>>
  \/ part = "com" /\ ComNext /\ UNCHANGED <<qhyVars, imVars, ubVars, alpVars, vsVars, part>>
  \/ part = "alpaca" /\ AlpNext /\ UNCHANGED <<qhyVars, imVars, ubVars, comVars, vsVars, part>>
  \/ part = "virtual" /\ VsNext /\ UNCHANGED <<qhyVars, imVars, ubVars, comVars, alpVars, part>>

Spec == Init /\ [][Next]_workerVars

-----------------------------------------------------------------------------
(* What a source that is another's device tells of its connection and its  *)
(* frames is true although answers are lost and workers killed: see        *)
(* ComHonest (com.rs), AlpacaHonest (alpaca.rs) and VirtualHonest          *)
(* (virtual_source/camera.rs).                                             *)
ImportsHonest == ComHonest /\ AlpacaHonest /\ VirtualHonest
=============================================================================
