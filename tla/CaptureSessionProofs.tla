------------------------ MODULE CaptureSessionProofs ------------------------
(***************************************************************************)
(* Proofs about CaptureSession for any recovery options and any bounds:    *)
(* the bookkeeping of a capture, what has to be restored before a start    *)
(* command, and that a capture request keeps ExposureContract.             *)
(***************************************************************************)
EXTENDS CaptureSession, TLAPS

(* A reset that brought the camera back and is not confirmed: the fence is *)
(* held by its episode, or it is blocked and what capture is in progress   *)
(* carries an error that no preparation may retry.                         *)
FenceInv ==
  /\ ~FenceEnabled => owed = 0
  /\ pending # 0 => owed \in {0, pending}
  /\ pending # 0 /\ reply = "yes" => owed = 0
  /\ owed # 0 /\ ~unproven =>
       \/ pc \in {"rebind", "awaitAck"} /\ pending = owed
       \/ pc = "idle" /\ blocked
       \/ /\ pc \in {"resetFailed", "preparingFailed", "failed"} /\ blocked
          /\ error \in {"fatal", "cancelled"}

(* Whoever replaces the worker has its settling required, and between the  *)
(* settings and the start command nothing is left to settle.               *)
SettleInv ==
  /\ disturbed => settle
  /\ pc \in {"validate", "start"} => ~disturbed

(* The inductive invariant.                                                *)
IInv ==
  /\ CaptureInv
  /\ connected => everOpened
  /\ pc # "idle" => outcome = "none"
  /\ FenceInv
  /\ SettleInv

-----------------------------------------------------------------------------
(* The initial state                                                       *)

(* The invariant holds before the first connect.                          *)
LEMMA InitIInv == Init => IInv
<1> SUFFICES ASSUME Init PROVE IInv
  OBVIOUS
<1> USE ConstantsAssumption DEF Init
<1>1. TypeOK
  <2>1. SessionTypeOK
    <3>1. failures \in 0..FailureCap
      OBVIOUS
    <3>2. QED BY <3>1 DEF SessionTypeOK
  <2>2. FenceTypeOK /\ LocalTypeOK
    BY DEF FenceTypeOK, LocalTypeOK, Pcs
  <2>3. HistoryTypeOK
    BY DEF HistoryTypeOK
  <2>4. QED BY <2>1, <2>2, <2>3 DEF TypeOK
<1>2. Bookkeeping /\ ResetBookkeeping
  BY DEF Bookkeeping, ResetBookkeeping, Resetting, OneResetPerOutage
<1>3. FenceInv /\ SettleInv
  BY DEF FenceInv, SettleInv
<1>4. QED BY <1>1, <1>2, <1>3 DEF IInv, CaptureInv

-----------------------------------------------------------------------------
(* Steps preserve each part                                                *)

(* The session's own fields keep their types.                              *)
LEMMA SessionTypeStep ==
  ASSUME TypeOK, Next
  PROVE  SessionTypeOK'
<1> USE ConstantsAssumption DEF TypeOK, SessionTypeOK, FenceTypeOK,
        LocalTypeOK, HistoryTypeOK, Pcs, Errors
<1>1. CASE ConnectOk
  <2>1. worker' \in {"none", "live", "dead"}
    BY <1>1 DEF ConnectOk, FenceReconnected, IdleUnchanged, localVars
  <2>2. direct' \in BOOLEAN /\ everOpened' \in BOOLEAN /\ connected' \in BOOLEAN
    BY <1>1 DEF ConnectOk, FenceReconnected, IdleUnchanged, localVars
  <2>3. failures' \in 0..FailureCap
    BY <1>1 DEF ConnectOk, FenceReconnected, IdleUnchanged, localVars
  <2>4. outageReset' \in BOOLEAN /\ usbTarget' \in BOOLEAN
    BY <1>1 DEF ConnectOk, FenceReconnected, IdleUnchanged, localVars
  <2>5. settle' \in BOOLEAN /\ cooler' \in BOOLEAN
    BY <1>1 DEF ConnectOk, FenceReconnected, IdleUnchanged, localVars
  <2>6. QED BY <2>1, <2>2, <2>3, <2>4, <2>5
<1>2. CASE ConnectFails
  BY <1>2 DEF ConnectFails, FenceReconnected, sessionVars, Invalidated,
     IdleUnchanged, localVars
<1>3. CASE RefreshFails
  BY <1>3 DEF RefreshFails, Invalidated, OneMoreFailure, fenceVars,
     IdleUnchanged, localVars
<1>4. CASE SetCooler
  BY <1>4 DEF SetCooler, fenceVars, IdleUnchanged, localVars
<1>5. CASE Close
  BY <1>5 DEF Close, Invalidated, IdleUnchanged, localVars
<1>6. CASE Capture
  BY <1>6 DEF Capture, Ready, sessionVars, fenceVars
<1>7. CASE AttemptBegin
  BY <1>7 DEF AttemptBegin, Raise, Goto, sessionVars, fenceVars, history
<1>8. CASE Prepare
  BY <1>8 DEF Prepare, Goto, Raise, ResetDue, fenceVars, history
<1>9. CASE Open
  BY <1>9 DEF Open, Goto, CallFails, localVars, Steady, Raise, Invalidated,
     fenceVars
<1>10. CASE Apply
  BY <1>10 DEF Apply, Goto, CallFails, localVars, Steady, Raise, Invalidated,
     fenceVars
<1>11. CASE Settle
  BY <1>11 DEF Settle, Goto, CallFails, localVars, Steady, Raise, Invalidated,
     fenceVars
<1>12. CASE Validate
  BY <1>12 DEF Validate, Goto, Invalidated, Raise, CallFails, localVars,
     fenceVars
<1>13. CASE PreparationFailed
  BY <1>13 DEF PreparationFailed, Retryable, OneMoreFailure, Invalidated,
     Goto, fenceVars
<1>14. CASE Start
  BY <1>14 DEF Start, Raise, Goto, fenceVars
<1>15. CASE Exposing
  BY <1>15 DEF Exposing, Raise, Goto, CallFails, localVars, Steady,
     Invalidated, fenceVars
<1>16. CASE Download
  BY <1>16 DEF Download, Goto, CallFails, Retained, Steady, Raise,
     Invalidated, fenceVars
<1>17. CASE Received
  <2>1. worker' \in {"none", "live", "dead"}
    BY <1>17 DEF Received, Raise, CallFails, Goto, Invalidated,
       OneMoreFailure, fenceVars, localVars
  <2>2. direct' \in BOOLEAN /\ everOpened' \in BOOLEAN /\ connected' \in BOOLEAN
    BY <1>17 DEF Received, Raise, CallFails, Goto, Invalidated,
       OneMoreFailure, fenceVars, localVars
  <2>3. failures' \in 0..FailureCap
    BY <1>17 DEF Received, Raise, CallFails, Goto, Invalidated,
       OneMoreFailure, fenceVars, localVars
  <2>4. outageReset' \in BOOLEAN /\ usbTarget' \in BOOLEAN
    BY <1>17 DEF Received, Raise, CallFails, Goto, Invalidated,
       OneMoreFailure, fenceVars, localVars
  <2>5. settle' \in BOOLEAN /\ cooler' \in BOOLEAN
    BY <1>17 DEF Received, Raise, CallFails, Goto, Invalidated,
       OneMoreFailure, fenceVars, localVars
  <2>6. QED BY <2>1, <2>2, <2>3, <2>4, <2>5
<1>18. CASE AttemptFailed
  <2>1. worker' \in {"none", "live", "dead"}
    BY <1>18 DEF AttemptFailed, Invalidated, Retryable, OneMoreFailure,
       CanRetry, ResetDue, fenceVars, Replacements
  <2>2. direct' \in BOOLEAN /\ everOpened' \in BOOLEAN /\ connected' \in BOOLEAN
    BY <1>18 DEF AttemptFailed, Invalidated, Retryable, OneMoreFailure,
       CanRetry, ResetDue, fenceVars, Replacements
  <2>3. failures' \in 0..FailureCap
    BY <1>18 DEF AttemptFailed, Invalidated, Retryable, OneMoreFailure,
       CanRetry, ResetDue, fenceVars, Replacements
  <2>4. outageReset' \in BOOLEAN /\ usbTarget' \in BOOLEAN
    BY <1>18 DEF AttemptFailed, Invalidated, Retryable, OneMoreFailure,
       CanRetry, ResetDue, fenceVars, Replacements
  <2>5. settle' \in BOOLEAN /\ cooler' \in BOOLEAN
    BY <1>18 DEF AttemptFailed, Invalidated, Retryable, OneMoreFailure,
       CanRetry, ResetDue, fenceVars, Replacements
  <2>6. QED BY <2>1, <2>2, <2>3, <2>4, <2>5
<1>19. CASE NextAttempt
  BY <1>19 DEF NextAttempt, Goto, fenceVars, history
<1>20. CASE Reset
  BY <1>20 DEF Reset, Ready, Raise, fenceVars, Goto, ResetUnchanged, localVars
<1>21. CASE Rebind
  BY <1>21 DEF Rebind, Goto, FenceFinished, Raise, ResetUnchanged, localVars
<1>22. CASE AwaitAck
  <2>1. worker' \in {"none", "live", "dead"}
    BY <1>22 DEF AwaitAck, FenceFinished, Goto, Raise, ResetUnchanged,
       localVars
  <2>2. direct' \in BOOLEAN /\ everOpened' \in BOOLEAN /\ connected' \in BOOLEAN
    BY <1>22 DEF AwaitAck, FenceFinished, Goto, Raise, ResetUnchanged,
       localVars
  <2>3. failures' \in 0..FailureCap
    BY <1>22 DEF AwaitAck, FenceFinished, Goto, Raise, ResetUnchanged,
       localVars
  <2>4. outageReset' \in BOOLEAN /\ usbTarget' \in BOOLEAN
    BY <1>22 DEF AwaitAck, FenceFinished, Goto, Raise, ResetUnchanged,
       localVars
  <2>5. settle' \in BOOLEAN /\ cooler' \in BOOLEAN
    BY <1>22 DEF AwaitAck, FenceFinished, Goto, Raise, ResetUnchanged,
       localVars
  <2>6. QED BY <2>1, <2>2, <2>3, <2>4, <2>5
<1>23. CASE ResetFailed
  BY <1>23 DEF ResetFailed, Goto, sessionVars, fenceVars, localVars
<1>24. CASE Cancel
  BY <1>24 DEF Cancel, sessionVars, fenceVars, localVars, history
<1>25. CASE AckTimeout
  BY <1>25 DEF AckTimeout, sessionVars, localVars, history
<1>26. ASSUME NEW id \in 1..episode, NEW success \in BOOLEAN,
            Acknowledge(id, success)
     PROVE  SessionTypeOK'
  BY <1>26 DEF Acknowledge, sessionVars, localVars
<1>27. QED BY <1>1, <1>2, <1>3, <1>4, <1>5, <1>6, <1>7, <1>8, <1>9, <1>10,
          <1>11, <1>12, <1>13, <1>14, <1>15, <1>16, <1>17, <1>18, <1>19,
          <1>20, <1>21, <1>22, <1>23, <1>24, <1>25, <1>26 DEF Next,
          CaptureStep

(* So do those of the peripheral fence; episode numbers only grow.         *)
LEMMA FenceTypeStep ==
  ASSUME TypeOK, Next
  PROVE  FenceTypeOK'
<1> USE ConstantsAssumption DEF TypeOK, SessionTypeOK, FenceTypeOK,
        LocalTypeOK, HistoryTypeOK, Pcs, Errors
<1>1. CASE ConnectOk
  BY <1>1 DEF ConnectOk, FenceReconnected, IdleUnchanged, localVars
<1>2. CASE ConnectFails
  BY <1>2 DEF ConnectFails, FenceReconnected, sessionVars, Invalidated,
     IdleUnchanged, localVars
<1>3. CASE RefreshFails
  BY <1>3 DEF RefreshFails, Invalidated, OneMoreFailure, fenceVars,
     IdleUnchanged, localVars
<1>4. CASE SetCooler
  BY <1>4 DEF SetCooler, fenceVars, IdleUnchanged, localVars
<1>5. CASE Close
  BY <1>5 DEF Close, Invalidated, IdleUnchanged, localVars
<1>6. CASE Capture
  BY <1>6 DEF Capture, Ready, sessionVars, fenceVars
<1>7. CASE AttemptBegin
  BY <1>7 DEF AttemptBegin, Raise, Goto, sessionVars, fenceVars, history
<1>8. CASE Prepare
  BY <1>8 DEF Prepare, Goto, Raise, ResetDue, fenceVars, history
<1>9. CASE Open
  BY <1>9 DEF Open, Goto, CallFails, localVars, Steady, Raise, Invalidated,
     fenceVars
<1>10. CASE Apply
  BY <1>10 DEF Apply, Goto, CallFails, localVars, Steady, Raise, Invalidated,
     fenceVars
<1>11. CASE Settle
  BY <1>11 DEF Settle, Goto, CallFails, localVars, Steady, Raise, Invalidated,
     fenceVars
<1>12. CASE Validate
  BY <1>12 DEF Validate, Goto, Invalidated, Raise, CallFails, localVars,
     fenceVars
<1>13. CASE PreparationFailed
  BY <1>13 DEF PreparationFailed, Retryable, OneMoreFailure, Invalidated,
     Goto, fenceVars
<1>14. CASE Start
  BY <1>14 DEF Start, Raise, Goto, fenceVars
<1>15. CASE Exposing
  BY <1>15 DEF Exposing, Raise, Goto, CallFails, localVars, Steady,
     Invalidated, fenceVars
<1>16. CASE Download
  BY <1>16 DEF Download, Goto, CallFails, Retained, Steady, Raise,
     Invalidated, fenceVars
<1>17. CASE Received
  BY <1>17 DEF Received, Raise, CallFails, Goto, Invalidated, OneMoreFailure,
     fenceVars, localVars
<1>18. CASE AttemptFailed
  BY <1>18 DEF AttemptFailed, Invalidated, Retryable, OneMoreFailure,
     CanRetry, ResetDue, fenceVars, Replacements
<1>19. CASE NextAttempt
  BY <1>19 DEF NextAttempt, Goto, fenceVars, history
<1>20. CASE Reset
  BY <1>20 DEF Reset, Ready, Raise, fenceVars, Goto, ResetUnchanged, localVars
<1>21. CASE Rebind
  <2>1. retired' \in BOOLEAN /\ blocked' \in BOOLEAN
    BY <1>21 DEF Rebind, Goto, FenceFinished, Raise, ResetUnchanged, localVars
  <2>2. pending' \in {0, pending} /\ episode' = episode
    BY <1>21 DEF Rebind, Goto, FenceFinished, Raise, ResetUnchanged, localVars
  <2>3. deadline' \in {"unset", "set", "passed"} /\ reply' = reply
    BY <1>21 DEF Rebind, Goto, FenceFinished, Raise, ResetUnchanged, localVars
  <2>4. QED BY <2>1, <2>2, <2>3
<1>22. CASE AwaitAck
  <2>1. retired' \in BOOLEAN /\ blocked' \in BOOLEAN
    BY <1>22 DEF AwaitAck, FenceFinished, Goto, Raise, ResetUnchanged,
       localVars
  <2>2. pending' \in {0, pending} /\ episode' = episode
    BY <1>22 DEF AwaitAck, FenceFinished, Goto, Raise, ResetUnchanged,
       localVars
  <2>3. deadline' \in {"unset", "set", "passed"} /\ reply' = reply
    BY <1>22 DEF AwaitAck, FenceFinished, Goto, Raise, ResetUnchanged,
       localVars
  <2>4. QED BY <2>1, <2>2, <2>3
<1>23. CASE ResetFailed
  BY <1>23 DEF ResetFailed, Goto, sessionVars, fenceVars, localVars
<1>24. CASE Cancel
  BY <1>24 DEF Cancel, sessionVars, fenceVars, localVars, history
<1>25. CASE AckTimeout
  BY <1>25 DEF AckTimeout, sessionVars, localVars, history
<1>26. ASSUME NEW id \in 1..episode, NEW success \in BOOLEAN,
            Acknowledge(id, success)
     PROVE  FenceTypeOK'
  BY <1>26 DEF Acknowledge, sessionVars, localVars
<1>27. QED BY <1>1, <1>2, <1>3, <1>4, <1>5, <1>6, <1>7, <1>8, <1>9, <1>10,
          <1>11, <1>12, <1>13, <1>14, <1>15, <1>16, <1>17, <1>18, <1>19,
          <1>20, <1>21, <1>22, <1>23, <1>24, <1>25, <1>26 DEF Next,
          CaptureStep

(* So do those of the capture in progress.                                 *)
LEMMA LocalTypeStep ==
  ASSUME TypeOK, Next
  PROVE  LocalTypeOK'
<1> USE ConstantsAssumption DEF TypeOK, SessionTypeOK, FenceTypeOK,
        LocalTypeOK, HistoryTypeOK, Pcs, Errors
<1>1. CASE ConnectOk
  BY <1>1 DEF ConnectOk, FenceReconnected, IdleUnchanged, localVars
<1>2. CASE ConnectFails
  BY <1>2 DEF ConnectFails, FenceReconnected, sessionVars, Invalidated,
     IdleUnchanged, localVars
<1>3. CASE RefreshFails
  BY <1>3 DEF RefreshFails, Invalidated, OneMoreFailure, fenceVars,
     IdleUnchanged, localVars
<1>4. CASE SetCooler
  BY <1>4 DEF SetCooler, fenceVars, IdleUnchanged, localVars
<1>5. CASE Close
  BY <1>5 DEF Close, Invalidated, IdleUnchanged, localVars
<1>6. CASE Capture
  BY <1>6 DEF Capture, Ready, sessionVars, fenceVars
<1>7. CASE AttemptBegin
  BY <1>7 DEF AttemptBegin, Raise, Goto, sessionVars, fenceVars, history
<1>8. CASE Prepare
  BY <1>8 DEF Prepare, Goto, Raise, ResetDue, fenceVars, history
<1>9. CASE Open
  BY <1>9 DEF Open, Goto, CallFails, localVars, Steady, Raise, Invalidated,
     fenceVars
<1>10. CASE Apply
  BY <1>10 DEF Apply, Goto, CallFails, localVars, Steady, Raise, Invalidated,
     fenceVars
<1>11. CASE Settle
  BY <1>11 DEF Settle, Goto, CallFails, localVars, Steady, Raise, Invalidated,
     fenceVars
<1>12. CASE Validate
  BY <1>12 DEF Validate, Goto, Invalidated, Raise, CallFails, localVars,
     fenceVars
<1>13. CASE PreparationFailed
  BY <1>13 DEF PreparationFailed, Retryable, OneMoreFailure, Invalidated,
     Goto, fenceVars
<1>14. CASE Start
  BY <1>14 DEF Start, Raise, Goto, fenceVars
<1>15. CASE Exposing
  BY <1>15 DEF Exposing, Raise, Goto, CallFails, localVars, Steady,
     Invalidated, fenceVars
<1>16. CASE Download
  BY <1>16 DEF Download, Goto, CallFails, Retained, Steady, Raise,
     Invalidated, fenceVars
<1>17. CASE Received
  BY <1>17 DEF Received, Raise, CallFails, Goto, Invalidated, OneMoreFailure,
     fenceVars, localVars
<1>18. CASE AttemptFailed
  BY <1>18 DEF AttemptFailed, Invalidated, Retryable, OneMoreFailure,
     CanRetry, ResetDue, fenceVars, Replacements
<1>19. CASE NextAttempt
  <2>1. attempt' \in Nat
    BY <1>19 DEF NextAttempt, Goto, fenceVars, history
  <2>2. pc' = "attempt" /\ dispatched' = FALSE
    BY <1>19 DEF NextAttempt, Goto, fenceVars, history
  <2>3. UNCHANGED <<back, exposure, preparation, usbResets, reads, cancelled, error>>
    BY <1>19 DEF NextAttempt, Goto, fenceVars, history
  <2>4. QED BY <2>1, <2>2, <2>3
<1>20. CASE Reset
  BY <1>20 DEF Reset, Ready, Raise, fenceVars, Goto, ResetUnchanged, localVars
<1>21. CASE Rebind
  BY <1>21 DEF Rebind, Goto, FenceFinished, Raise, ResetUnchanged, localVars
<1>22. CASE AwaitAck
  BY <1>22 DEF AwaitAck, FenceFinished, Goto, Raise, ResetUnchanged, localVars
<1>23. CASE ResetFailed
  BY <1>23 DEF ResetFailed, Goto, sessionVars, fenceVars, localVars
<1>24. CASE Cancel
  BY <1>24 DEF Cancel, sessionVars, fenceVars, localVars, history
<1>25. CASE AckTimeout
  BY <1>25 DEF AckTimeout, sessionVars, localVars, history
<1>26. ASSUME NEW id \in 1..episode, NEW success \in BOOLEAN,
            Acknowledge(id, success)
     PROVE  LocalTypeOK'
  BY <1>26 DEF Acknowledge, sessionVars, localVars
<1>27. QED BY <1>1, <1>2, <1>3, <1>4, <1>5, <1>6, <1>7, <1>8, <1>9, <1>10,
          <1>11, <1>12, <1>13, <1>14, <1>15, <1>16, <1>17, <1>18, <1>19,
          <1>20, <1>21, <1>22, <1>23, <1>24, <1>25, <1>26 DEF Next,
          CaptureStep

(* So do the history variables.                                            *)
LEMMA HistoryTypeStep ==
  ASSUME TypeOK, Next
  PROVE  HistoryTypeOK'
<1> USE ConstantsAssumption DEF TypeOK, SessionTypeOK, FenceTypeOK,
        LocalTypeOK, HistoryTypeOK, Pcs, Errors
<1>1. CASE ConnectOk
  BY <1>1 DEF ConnectOk, FenceReconnected, IdleUnchanged, localVars
<1>2. CASE ConnectFails
  BY <1>2 DEF ConnectFails, FenceReconnected, sessionVars, Invalidated,
     IdleUnchanged, localVars
<1>3. CASE RefreshFails
  BY <1>3 DEF RefreshFails, Invalidated, OneMoreFailure, fenceVars,
     IdleUnchanged, localVars
<1>4. CASE SetCooler
  BY <1>4 DEF SetCooler, fenceVars, IdleUnchanged, localVars
<1>5. CASE Close
  BY <1>5 DEF Close, Invalidated, IdleUnchanged, localVars
<1>6. CASE Capture
  <2>1. starts' \in Nat /\ outageCycles' \in Nat /\ captures' \in Nat
    BY <1>6 DEF Capture, Ready, sessionVars, fenceVars
  <2>2. doubt' \in BOOLEAN /\ unproven' \in BOOLEAN /\ disturbed' \in BOOLEAN
    BY <1>6 DEF Capture, Ready, sessionVars, fenceVars
  <2>3. outcome' \in {"none", "frame", "cancelled", "error"}
    BY <1>6 DEF Capture, Ready, sessionVars, fenceVars
  <2>4. owed' \in Nat
    BY <1>6 DEF Capture, Ready, sessionVars, fenceVars
  <2>5. QED BY <2>1, <2>2, <2>3, <2>4
<1>7. CASE AttemptBegin
  BY <1>7 DEF AttemptBegin, Raise, Goto, sessionVars, fenceVars, history
<1>8. CASE Prepare
  BY <1>8 DEF Prepare, Goto, Raise, ResetDue, fenceVars, history
<1>9. CASE Open
  BY <1>9 DEF Open, Goto, CallFails, localVars, Steady, Raise, Invalidated,
     fenceVars
<1>10. CASE Apply
  BY <1>10 DEF Apply, Goto, CallFails, localVars, Steady, Raise, Invalidated,
     fenceVars
<1>11. CASE Settle
  BY <1>11 DEF Settle, Goto, CallFails, localVars, Steady, Raise, Invalidated,
     fenceVars
<1>12. CASE Validate
  BY <1>12 DEF Validate, Goto, Invalidated, Raise, CallFails, localVars,
     fenceVars
<1>13. CASE PreparationFailed
  BY <1>13 DEF PreparationFailed, Retryable, OneMoreFailure, Invalidated,
     Goto, fenceVars
<1>14. CASE Start
  BY <1>14 DEF Start, Raise, Goto, fenceVars
<1>15. CASE Exposing
  BY <1>15 DEF Exposing, Raise, Goto, CallFails, localVars, Steady,
     Invalidated, fenceVars
<1>16. CASE Download
  BY <1>16 DEF Download, Goto, CallFails, Retained, Steady, Raise,
     Invalidated, fenceVars
<1>17. CASE Received
  <2>1. starts' \in Nat /\ outageCycles' \in Nat /\ captures' \in Nat
    BY <1>17 DEF Received, Raise, CallFails, Goto, Invalidated,
       OneMoreFailure, fenceVars, localVars
  <2>2. doubt' \in BOOLEAN /\ unproven' \in BOOLEAN /\ disturbed' \in BOOLEAN
    BY <1>17 DEF Received, Raise, CallFails, Goto, Invalidated,
       OneMoreFailure, fenceVars, localVars
  <2>3. outcome' \in {"none", "frame", "cancelled", "error"}
    BY <1>17 DEF Received, Raise, CallFails, Goto, Invalidated,
       OneMoreFailure, fenceVars, localVars
  <2>4. owed' \in Nat
    BY <1>17 DEF Received, Raise, CallFails, Goto, Invalidated,
       OneMoreFailure, fenceVars, localVars
  <2>5. QED BY <2>1, <2>2, <2>3, <2>4
<1>18. CASE AttemptFailed
  BY <1>18 DEF AttemptFailed, Invalidated, Retryable, OneMoreFailure,
     CanRetry, ResetDue, fenceVars, Replacements
<1>19. CASE NextAttempt
  BY <1>19 DEF NextAttempt, Goto, fenceVars, history
<1>20. CASE Reset
  <2>1. episode' \in Nat
    BY <1>20 DEF Reset, Ready, Raise, fenceVars, Goto, ResetUnchanged,
       localVars
  <2>2. owed' \in Nat
    BY <1>20, <2>1 DEF Reset, Ready, Raise, fenceVars, Goto, ResetUnchanged,
       localVars
  <2>3. outageCycles' \in Nat
    BY <1>20 DEF Reset, Ready, Raise, fenceVars, Goto, ResetUnchanged,
       localVars
  <2>4. unproven' \in BOOLEAN
    BY <1>20 DEF Reset, Ready, Raise, fenceVars, Goto, ResetUnchanged,
       localVars
  <2>5. UNCHANGED <<starts, captures, doubt, disturbed, outcome>>
    BY <1>20 DEF Reset, Ready, Raise, fenceVars, Goto, ResetUnchanged,
       localVars
  <2>6. QED BY <2>1, <2>2, <2>3, <2>4, <2>5
<1>21. CASE Rebind
  BY <1>21 DEF Rebind, Goto, FenceFinished, Raise, ResetUnchanged, localVars
<1>22. CASE AwaitAck
  BY <1>22 DEF AwaitAck, FenceFinished, Goto, Raise, ResetUnchanged, localVars
<1>23. CASE ResetFailed
  BY <1>23 DEF ResetFailed, Goto, sessionVars, fenceVars, localVars
<1>24. CASE Cancel
  BY <1>24 DEF Cancel, sessionVars, fenceVars, localVars, history
<1>25. CASE AckTimeout
  BY <1>25 DEF AckTimeout, sessionVars, localVars, history
<1>26. ASSUME NEW id \in 1..episode, NEW success \in BOOLEAN,
            Acknowledge(id, success)
     PROVE  HistoryTypeOK'
  BY <1>26 DEF Acknowledge, sessionVars, localVars
<1>27. QED BY <1>1, <1>2, <1>3, <1>4, <1>5, <1>6, <1>7, <1>8, <1>9, <1>10,
          <1>11, <1>12, <1>13, <1>14, <1>15, <1>16, <1>17, <1>18, <1>19,
          <1>20, <1>21, <1>22, <1>23, <1>24, <1>25, <1>26 DEF Next,
          CaptureStep

(* Starts are accounted for, and no way leads on from an uncertain write:  *)
(* a replacement attempt is only granted with its budget in hand.          *)
LEMMA BookkeepingStep ==
  ASSUME TypeOK, Bookkeeping, connected => everOpened, Next
  PROVE  Bookkeeping'
<1> USE ConstantsAssumption DEF TypeOK, SessionTypeOK, LocalTypeOK,
        HistoryTypeOK, localVars, Bookkeeping, Resetting, Replacements
<1>1. CASE ConnectOk
  BY <1>1 DEF ConnectOk, FenceReconnected, IdleUnchanged
<1>2. CASE ConnectFails
  BY <1>2 DEF ConnectFails, FenceReconnected, sessionVars, Invalidated,
     IdleUnchanged
<1>3. CASE RefreshFails
  BY <1>3 DEF RefreshFails, Invalidated, OneMoreFailure, fenceVars,
     IdleUnchanged
<1>4. CASE SetCooler
  BY <1>4 DEF SetCooler, fenceVars, IdleUnchanged
<1>5. CASE Close
  BY <1>5 DEF Close, Invalidated, IdleUnchanged
<1>6. CASE Capture
  BY <1>6 DEF Capture, Ready, sessionVars, fenceVars
<1>7. CASE AttemptBegin
  BY <1>7 DEF AttemptBegin, Raise, Goto, sessionVars, fenceVars, history
<1>8. CASE Prepare
  BY <1>8 DEF Prepare, Goto, Raise, ResetDue, fenceVars, history
<1>9. CASE Open
  BY <1>9 DEF Open, Goto, CallFails, Steady, Raise, Invalidated, fenceVars
<1>10. CASE Apply
  BY <1>10 DEF Apply, Goto, CallFails, Steady, Raise, Invalidated, fenceVars
<1>11. CASE Settle
  BY <1>11 DEF Settle, Goto, CallFails, Steady, Raise, Invalidated, fenceVars
<1>12. CASE Validate
  BY <1>12 DEF Validate, Goto, Invalidated, Raise, CallFails, fenceVars
<1>13. CASE PreparationFailed
  BY <1>13 DEF PreparationFailed, Retryable, OneMoreFailure, Invalidated,
     Goto, fenceVars
<1>14. CASE Start
  BY <1>14 DEF Start, Raise, Goto, fenceVars
<1>15. CASE Exposing
  BY <1>15 DEF Exposing, Raise, Goto, CallFails, Steady, Invalidated,
     fenceVars
<1>16. CASE Download
  BY <1>16 DEF Download, Goto, CallFails, Retained, Steady, Raise,
     Invalidated, fenceVars
<1>17. CASE Received
  BY <1>17 DEF Received, Raise, CallFails, Goto, Invalidated, OneMoreFailure,
     fenceVars
<1>18. CASE AttemptFailed
  BY <1>18 DEF AttemptFailed, Invalidated, Retryable, OneMoreFailure,
     CanRetry, ResetDue, fenceVars
<1>19. CASE NextAttempt
  BY <1>19 DEF NextAttempt, Goto, fenceVars, history
<1>20. CASE Reset
  BY <1>20 DEF Reset, Ready, Raise, fenceVars, Goto, ResetUnchanged
<1>21. CASE Rebind
  <2>1. pc = "rebind" /\ pc' \in {"awaitAck", "resetFailed", back}
    BY <1>21 DEF Rebind, Goto, FenceFinished, Raise, ResetUnchanged
  <2>2. back' = back
    BY <1>21 DEF Rebind, Goto, FenceFinished, Raise, ResetUnchanged
  <2>3. UNCHANGED <<worker, connected, everOpened, retired, localVars, starts, doubt>>
    BY <1>21 DEF Rebind, Goto, FenceFinished, Raise, ResetUnchanged
  <2>4. QED BY <2>1, <2>2, <2>3
<1>22. CASE AwaitAck
  <2>1. pc = "awaitAck" /\ pc' \in {"resetFailed", back}
    BY <1>22 DEF AwaitAck, FenceFinished, Goto, Raise, ResetUnchanged
  <2>2. back' = back
    BY <1>22 DEF AwaitAck, FenceFinished, Goto, Raise, ResetUnchanged
  <2>3. UNCHANGED <<worker, connected, everOpened, retired, localVars, starts, doubt>>
    BY <1>22 DEF AwaitAck, FenceFinished, Goto, Raise, ResetUnchanged
  <2>4. QED BY <2>1, <2>2, <2>3
<1>23. CASE ResetFailed
  BY <1>23 DEF ResetFailed, Goto, sessionVars, fenceVars
<1>24. CASE Cancel
  BY <1>24 DEF Cancel, sessionVars, fenceVars, history
<1>25. CASE AckTimeout
  BY <1>25 DEF AckTimeout, sessionVars, history
<1>26. ASSUME NEW id \in 1..episode, NEW success \in BOOLEAN,
            Acknowledge(id, success)
     PROVE  Bookkeeping'
  BY <1>26 DEF Acknowledge, sessionVars
<1>27. QED BY <1>1, <1>2, <1>3, <1>4, <1>5, <1>6, <1>7, <1>8, <1>9, <1>10,
          <1>11, <1>12, <1>13, <1>14, <1>15, <1>16, <1>17, <1>18, <1>19,
          <1>20, <1>21, <1>22, <1>23, <1>24, <1>25, <1>26 DEF Next,
          CaptureStep

(* The pending episode is the last one, and a reset is only due in an      *)
(* outage that had none.                                                   *)
LEMMA ResetBookkeepingStep ==
  ASSUME TypeOK, Bookkeeping, ResetBookkeeping, Next
  PROVE  ResetBookkeeping'
<1> USE ConstantsAssumption DEF TypeOK, SessionTypeOK, FenceTypeOK,
        LocalTypeOK, HistoryTypeOK, Bookkeeping, Resetting, ResetBookkeeping,
        OneResetPerOutage
<1>1. CASE ConnectOk
  BY <1>1 DEF ConnectOk, FenceReconnected, IdleUnchanged, localVars
<1>2. CASE ConnectFails
  BY <1>2 DEF ConnectFails, FenceReconnected, sessionVars, Invalidated,
     IdleUnchanged, localVars
<1>3. CASE RefreshFails
  BY <1>3 DEF RefreshFails, Invalidated, OneMoreFailure, fenceVars,
     IdleUnchanged, localVars
<1>4. CASE SetCooler
  BY <1>4 DEF SetCooler, fenceVars, IdleUnchanged, localVars
<1>5. CASE Close
  BY <1>5 DEF Close, Invalidated, IdleUnchanged, localVars
<1>6. CASE Capture
  BY <1>6 DEF Capture, Ready, sessionVars, fenceVars
<1>7. CASE AttemptBegin
  BY <1>7 DEF AttemptBegin, Raise, Goto, sessionVars, fenceVars, history
<1>8. CASE Prepare
  BY <1>8 DEF Prepare, Goto, Raise, ResetDue, fenceVars, history
<1>9. CASE Open
  BY <1>9 DEF Open, Goto, CallFails, localVars, Steady, Raise, Invalidated,
     fenceVars
<1>10. CASE Apply
  BY <1>10 DEF Apply, Goto, CallFails, localVars, Steady, Raise, Invalidated,
     fenceVars
<1>11. CASE Settle
  BY <1>11 DEF Settle, Goto, CallFails, localVars, Steady, Raise, Invalidated,
     fenceVars
<1>12. CASE Validate
  BY <1>12 DEF Validate, Goto, Invalidated, Raise, CallFails, localVars,
     fenceVars
<1>13. CASE PreparationFailed
  BY <1>13 DEF PreparationFailed, Retryable, OneMoreFailure, Invalidated,
     Goto, fenceVars
<1>14. CASE Start
  BY <1>14 DEF Start, Raise, Goto, fenceVars
<1>15. CASE Exposing
  BY <1>15 DEF Exposing, Raise, Goto, CallFails, localVars, Steady,
     Invalidated, fenceVars
<1>16. CASE Download
  BY <1>16 DEF Download, Goto, CallFails, Retained, Steady, Raise,
     Invalidated, fenceVars
<1>17. CASE Received
  BY <1>17 DEF Received, Raise, CallFails, Goto, Invalidated, OneMoreFailure,
     fenceVars, localVars
<1>18. CASE AttemptFailed
  BY <1>18 DEF AttemptFailed, Invalidated, Retryable, OneMoreFailure,
     CanRetry, ResetDue, fenceVars, Replacements
<1>19. CASE NextAttempt
  BY <1>19 DEF NextAttempt, Goto, fenceVars, history
<1>20. CASE Reset
  BY <1>20 DEF Reset, Ready, Raise, fenceVars, Goto, ResetUnchanged, localVars
<1>21. CASE Rebind
  BY <1>21 DEF Rebind, Goto, FenceFinished, Raise, ResetUnchanged, localVars
<1>22. CASE AwaitAck
  BY <1>22 DEF AwaitAck, FenceFinished, Goto, Raise, ResetUnchanged, localVars
<1>23. CASE ResetFailed
  BY <1>23 DEF ResetFailed, Goto, sessionVars, fenceVars, localVars
<1>24. CASE Cancel
  BY <1>24 DEF Cancel, sessionVars, fenceVars, localVars, history
<1>25. CASE AckTimeout
  BY <1>25 DEF AckTimeout, sessionVars, localVars, history
<1>26. ASSUME NEW id \in 1..episode, NEW success \in BOOLEAN,
            Acknowledge(id, success)
     PROVE  ResetBookkeeping'
  BY <1>26 DEF Acknowledge, sessionVars, localVars
<1>27. QED BY <1>1, <1>2, <1>3, <1>4, <1>5, <1>6, <1>7, <1>8, <1>9, <1>10,
          <1>11, <1>12, <1>13, <1>14, <1>15, <1>16, <1>17, <1>18, <1>19,
          <1>20, <1>21, <1>22, <1>23, <1>24, <1>25, <1>26 DEF Next,
          CaptureStep

(* A reset that awaits confirmation holds the fence, or has blocked it     *)
(* with an error that ends the capture.                                    *)
LEMMA FenceStep ==
  ASSUME TypeOK, Bookkeeping, ResetBookkeeping, FenceInv, Next
  PROVE  FenceInv'
<1> USE ConstantsAssumption DEF TypeOK, SessionTypeOK, FenceTypeOK,
        LocalTypeOK, HistoryTypeOK, Bookkeeping, Resetting, ResetBookkeeping,
        OneResetPerOutage, FenceInv, Errors
<1>1. CASE ConnectOk
  BY <1>1 DEF ConnectOk, FenceReconnected, IdleUnchanged, localVars
<1>2. CASE ConnectFails
  BY <1>2 DEF ConnectFails, FenceReconnected, sessionVars, Invalidated,
     IdleUnchanged, localVars
<1>3. CASE RefreshFails
  BY <1>3 DEF RefreshFails, Invalidated, OneMoreFailure, fenceVars,
     IdleUnchanged, localVars
<1>4. CASE SetCooler
  BY <1>4 DEF SetCooler, fenceVars, IdleUnchanged, localVars
<1>5. CASE Close
  BY <1>5 DEF Close, Invalidated, IdleUnchanged, localVars
<1>6. CASE Capture
  BY <1>6 DEF Capture, Ready, sessionVars, fenceVars
<1>7. CASE AttemptBegin
  BY <1>7 DEF AttemptBegin, Raise, Goto, sessionVars, fenceVars, history
<1>8. CASE Prepare
  BY <1>8 DEF Prepare, Goto, Raise, ResetDue, fenceVars, history
<1>9. CASE Open
  BY <1>9 DEF Open, Goto, CallFails, localVars, Steady, Raise, Invalidated,
     fenceVars
<1>10. CASE Apply
  BY <1>10 DEF Apply, Goto, CallFails, localVars, Steady, Raise, Invalidated,
     fenceVars
<1>11. CASE Settle
  BY <1>11 DEF Settle, Goto, CallFails, localVars, Steady, Raise, Invalidated,
     fenceVars
<1>12. CASE Validate
  BY <1>12 DEF Validate, Goto, Invalidated, Raise, CallFails, localVars,
     fenceVars
<1>13. CASE PreparationFailed
  BY <1>13 DEF PreparationFailed, Retryable, OneMoreFailure, Invalidated,
     Goto, fenceVars
<1>14. CASE Start
  BY <1>14 DEF Start, Raise, Goto, fenceVars
<1>15. CASE Exposing
  BY <1>15 DEF Exposing, Raise, Goto, CallFails, localVars, Steady,
     Invalidated, fenceVars
<1>16. CASE Download
  BY <1>16 DEF Download, Goto, CallFails, Retained, Steady, Raise,
     Invalidated, fenceVars
<1>17. CASE Received
  BY <1>17 DEF Received, Raise, CallFails, Goto, Invalidated, OneMoreFailure,
     fenceVars, localVars
<1>18. CASE AttemptFailed
  BY <1>18 DEF AttemptFailed, Invalidated, Retryable, OneMoreFailure,
     CanRetry, ResetDue, fenceVars, Replacements
<1>19. CASE NextAttempt
  BY <1>19 DEF NextAttempt, Goto, fenceVars, history
<1>20. CASE Reset
  BY <1>20 DEF Reset, Ready, Raise, fenceVars, Goto, ResetUnchanged, localVars
<1>21. CASE Rebind
  BY <1>21 DEF Rebind, Goto, FenceFinished, Raise, ResetUnchanged, localVars
<1>22. CASE AwaitAck
  BY <1>22 DEF AwaitAck, FenceFinished, Goto, Raise, ResetUnchanged, localVars
<1>23. CASE ResetFailed
  BY <1>23 DEF ResetFailed, Goto, sessionVars, fenceVars, localVars
<1>24. CASE Cancel
  BY <1>24 DEF Cancel, sessionVars, fenceVars, localVars, history
<1>25. CASE AckTimeout
  BY <1>25 DEF AckTimeout, sessionVars, localVars, history
<1>26. ASSUME NEW id \in 1..episode, NEW success \in BOOLEAN,
            Acknowledge(id, success)
     PROVE  FenceInv'
  BY <1>26 DEF Acknowledge, sessionVars, localVars
<1>27. QED BY <1>1, <1>2, <1>3, <1>4, <1>5, <1>6, <1>7, <1>8, <1>9, <1>10,
          <1>11, <1>12, <1>13, <1>14, <1>15, <1>16, <1>17, <1>18, <1>19,
          <1>20, <1>21, <1>22, <1>23, <1>24, <1>25, <1>26 DEF Next,
          CaptureStep

(* Whoever replaces the worker has its settling required.                  *)
LEMMA SettleStep ==
  ASSUME TypeOK, SettleInv, Next
  PROVE  SettleInv'
<1> USE ConstantsAssumption DEF TypeOK, SessionTypeOK, LocalTypeOK,
        HistoryTypeOK, SettleInv
<1>1. CASE ConnectOk
  BY <1>1 DEF ConnectOk, FenceReconnected, IdleUnchanged, localVars
<1>2. CASE ConnectFails
  BY <1>2 DEF ConnectFails, FenceReconnected, sessionVars, Invalidated,
     IdleUnchanged, localVars
<1>3. CASE RefreshFails
  BY <1>3 DEF RefreshFails, Invalidated, OneMoreFailure, fenceVars,
     IdleUnchanged, localVars
<1>4. CASE SetCooler
  BY <1>4 DEF SetCooler, fenceVars, IdleUnchanged, localVars
<1>5. CASE Close
  BY <1>5 DEF Close, Invalidated, IdleUnchanged, localVars
<1>6. CASE Capture
  BY <1>6 DEF Capture, Ready, sessionVars, fenceVars
<1>7. CASE AttemptBegin
  BY <1>7 DEF AttemptBegin, Raise, Goto, sessionVars, fenceVars, history
<1>8. CASE Prepare
  BY <1>8 DEF Prepare, Goto, Raise, ResetDue, fenceVars, history
<1>9. CASE Open
  BY <1>9 DEF Open, Goto, CallFails, localVars, Steady, Raise, Invalidated,
     fenceVars
<1>10. CASE Apply
  BY <1>10 DEF Apply, Goto, CallFails, localVars, Steady, Raise, Invalidated,
     fenceVars
<1>11. CASE Settle
  BY <1>11 DEF Settle, Goto, CallFails, localVars, Steady, Raise, Invalidated,
     fenceVars
<1>12. CASE Validate
  BY <1>12 DEF Validate, Goto, Invalidated, Raise, CallFails, localVars,
     fenceVars
<1>13. CASE PreparationFailed
  BY <1>13 DEF PreparationFailed, Retryable, OneMoreFailure, Invalidated,
     Goto, fenceVars
<1>14. CASE Start
  BY <1>14 DEF Start, Raise, Goto, fenceVars
<1>15. CASE Exposing
  BY <1>15 DEF Exposing, Raise, Goto, CallFails, localVars, Steady,
     Invalidated, fenceVars
<1>16. CASE Download
  BY <1>16 DEF Download, Goto, CallFails, Retained, Steady, Raise,
     Invalidated, fenceVars
<1>17. CASE Received
  BY <1>17 DEF Received, Raise, CallFails, Goto, Invalidated, OneMoreFailure,
     fenceVars, localVars
<1>18. CASE AttemptFailed
  BY <1>18 DEF AttemptFailed, Invalidated, Retryable, OneMoreFailure,
     CanRetry, ResetDue, fenceVars, Replacements
<1>19. CASE NextAttempt
  BY <1>19 DEF NextAttempt, Goto, fenceVars, history
<1>20. CASE Reset
  BY <1>20 DEF Reset, Ready, Raise, fenceVars, Goto, ResetUnchanged, localVars
<1>21. CASE Rebind
  BY <1>21 DEF Rebind, Goto, FenceFinished, Raise, ResetUnchanged, localVars
<1>22. CASE AwaitAck
  BY <1>22 DEF AwaitAck, FenceFinished, Goto, Raise, ResetUnchanged, localVars
<1>23. CASE ResetFailed
  BY <1>23 DEF ResetFailed, Goto, sessionVars, fenceVars, localVars
<1>24. CASE Cancel
  BY <1>24 DEF Cancel, sessionVars, fenceVars, localVars, history
<1>25. CASE AckTimeout
  BY <1>25 DEF AckTimeout, sessionVars, localVars, history
<1>26. ASSUME NEW id \in 1..episode, NEW success \in BOOLEAN,
            Acknowledge(id, success)
     PROVE  SettleInv'
  BY <1>26 DEF Acknowledge, sessionVars, localVars
<1>27. QED BY <1>1, <1>2, <1>3, <1>4, <1>5, <1>6, <1>7, <1>8, <1>9, <1>10,
          <1>11, <1>12, <1>13, <1>14, <1>15, <1>16, <1>17, <1>18, <1>19,
          <1>20, <1>21, <1>22, <1>23, <1>24, <1>25, <1>26 DEF Next,
          CaptureStep

(* A connected camera has been opened, and a capture in progress has no    *)
(* outcome yet.                                                            *)
LEMMA OpenedStep ==
  ASSUME TypeOK, connected => everOpened, pc # "idle" => outcome = "none", Next
  PROVE  (connected => everOpened)' /\ (pc # "idle" => outcome = "none")'
<1> USE ConstantsAssumption DEF TypeOK, SessionTypeOK, LocalTypeOK
<1>1. CASE ConnectOk
  BY <1>1 DEF ConnectOk, FenceReconnected, IdleUnchanged, localVars
<1>2. CASE ConnectFails
  BY <1>2 DEF ConnectFails, FenceReconnected, sessionVars, Invalidated,
     IdleUnchanged, localVars
<1>3. CASE RefreshFails
  BY <1>3 DEF RefreshFails, Invalidated, OneMoreFailure, fenceVars,
     IdleUnchanged, localVars
<1>4. CASE SetCooler
  BY <1>4 DEF SetCooler, fenceVars, IdleUnchanged, localVars
<1>5. CASE Close
  BY <1>5 DEF Close, Invalidated, IdleUnchanged, localVars
<1>6. CASE Capture
  BY <1>6 DEF Capture, Ready, sessionVars, fenceVars
<1>7. CASE AttemptBegin
  BY <1>7 DEF AttemptBegin, Raise, Goto, sessionVars, fenceVars, history
<1>8. CASE Prepare
  BY <1>8 DEF Prepare, Goto, Raise, ResetDue, fenceVars, history
<1>9. CASE Open
  BY <1>9 DEF Open, Goto, CallFails, localVars, Steady, Raise, Invalidated,
     fenceVars
<1>10. CASE Apply
  BY <1>10 DEF Apply, Goto, CallFails, localVars, Steady, Raise, Invalidated,
     fenceVars
<1>11. CASE Settle
  BY <1>11 DEF Settle, Goto, CallFails, localVars, Steady, Raise, Invalidated,
     fenceVars
<1>12. CASE Validate
  BY <1>12 DEF Validate, Goto, Invalidated, Raise, CallFails, localVars,
     fenceVars
<1>13. CASE PreparationFailed
  BY <1>13 DEF PreparationFailed, Retryable, OneMoreFailure, Invalidated,
     Goto, fenceVars
<1>14. CASE Start
  BY <1>14 DEF Start, Raise, Goto, fenceVars
<1>15. CASE Exposing
  BY <1>15 DEF Exposing, Raise, Goto, CallFails, localVars, Steady,
     Invalidated, fenceVars
<1>16. CASE Download
  BY <1>16 DEF Download, Goto, CallFails, Retained, Steady, Raise,
     Invalidated, fenceVars
<1>17. CASE Received
  BY <1>17 DEF Received, Raise, CallFails, Goto, Invalidated, OneMoreFailure,
     fenceVars, localVars
<1>18. CASE AttemptFailed
  BY <1>18 DEF AttemptFailed, Invalidated, Retryable, OneMoreFailure,
     CanRetry, ResetDue, fenceVars, Replacements
<1>19. CASE NextAttempt
  BY <1>19 DEF NextAttempt, Goto, fenceVars, history
<1>20. CASE Reset
  BY <1>20 DEF Reset, Ready, Raise, fenceVars, Goto, ResetUnchanged, localVars
<1>21. CASE Rebind
  BY <1>21 DEF Rebind, Goto, FenceFinished, Raise, ResetUnchanged, localVars
<1>22. CASE AwaitAck
  BY <1>22 DEF AwaitAck, FenceFinished, Goto, Raise, ResetUnchanged, localVars
<1>23. CASE ResetFailed
  BY <1>23 DEF ResetFailed, Goto, sessionVars, fenceVars, localVars
<1>24. CASE Cancel
  BY <1>24 DEF Cancel, sessionVars, fenceVars, localVars, history
<1>25. CASE AckTimeout
  BY <1>25 DEF AckTimeout, sessionVars, localVars, history
<1>26. ASSUME NEW id \in 1..episode, NEW success \in BOOLEAN,
            Acknowledge(id, success)
     PROVE  (connected => everOpened)' /\ (pc # "idle" => outcome = "none")'
  BY <1>26 DEF Acknowledge, sessionVars, localVars
<1>27. QED BY <1>1, <1>2, <1>3, <1>4, <1>5, <1>6, <1>7, <1>8, <1>9, <1>10,
          <1>11, <1>12, <1>13, <1>14, <1>15, <1>16, <1>17, <1>18, <1>19,
          <1>20, <1>21, <1>22, <1>23, <1>24, <1>25, <1>26 DEF Next,
          CaptureStep

(* Steps that change nothing preserve it.                                  *)
LEMMA StutterIInv == ASSUME IInv, UNCHANGED vars PROVE IInv'
BY DEF IInv, CaptureInv, TypeOK, SessionTypeOK, FenceTypeOK, LocalTypeOK, HistoryTypeOK,
   Bookkeeping, ResetBookkeeping, OneResetPerOutage, FenceInv, SettleInv, vars, sessionVars,
   fenceVars, localVars, history

(* Every step preserves the invariant.                                     *)
LEMMA StepIInv == IInv /\ [Next]_vars => IInv'
<1> SUFFICES ASSUME IInv, [Next]_vars PROVE IInv'
  OBVIOUS
<1>1. CASE Next
  <2>1. TypeOK'
    BY <1>1, SessionTypeStep, FenceTypeStep, LocalTypeStep, HistoryTypeStep
       DEF IInv, CaptureInv, TypeOK
  <2>2. Bookkeeping' /\ ResetBookkeeping'
    BY <1>1, BookkeepingStep, ResetBookkeepingStep DEF IInv, CaptureInv
  <2>3. FenceInv' /\ SettleInv'
    BY <1>1, FenceStep, SettleStep DEF IInv, CaptureInv
  <2>4. (connected => everOpened)' /\ (pc # "idle" => outcome = "none")'
    BY <1>1, OpenedStep DEF IInv, CaptureInv
  <2>5. QED BY <2>1, <2>2, <2>3, <2>4 DEF IInv, CaptureInv
<1>2. CASE UNCHANGED vars
  BY <1>2, StutterIInv
<1>3. QED BY <1>1, <1>2

(* It holds in every reachable state.                                      *)
LEMMA Inductive == Spec => []IInv
BY InitIInv, StepIInv, PTL DEF Spec

-----------------------------------------------------------------------------
(* What is proved of every behaviour                                       *)

(* The bookkeeping of a capture agrees with what was dispatched, whatever  *)
(* fails, is cancelled or is answered late (session.rs capture, attempt).  *)
THEOREM CaptureBookkeeping == Spec => []CaptureInv
BY Inductive, PTL DEF IInv

(* Only the start command dispatches a start.                              *)
LEMMA OnlyStartStarts ==
  ASSUME TypeOK, starts' > starts, Next
  PROVE  Start
<1> USE  DEF TypeOK, HistoryTypeOK
<1>1. CASE ConnectOk
  BY <1>1 DEF ConnectOk, FenceReconnected, IdleUnchanged, localVars
<1>2. CASE ConnectFails
  BY <1>2 DEF ConnectFails, FenceReconnected, sessionVars, Invalidated,
     IdleUnchanged, localVars
<1>3. CASE RefreshFails
  BY <1>3 DEF RefreshFails, Invalidated, OneMoreFailure, fenceVars,
     IdleUnchanged, localVars
<1>4. CASE SetCooler
  BY <1>4 DEF SetCooler, fenceVars, IdleUnchanged, localVars
<1>5. CASE Close
  BY <1>5 DEF Close, Invalidated, IdleUnchanged, localVars
<1>6. CASE Capture
  BY <1>6 DEF Capture, Ready, sessionVars, fenceVars
<1>7. CASE AttemptBegin
  BY <1>7 DEF AttemptBegin, Raise, Goto, sessionVars, fenceVars, history
<1>8. CASE Prepare
  BY <1>8 DEF Prepare, Goto, Raise, ResetDue, fenceVars, history
<1>9. CASE Open
  BY <1>9 DEF Open, Goto, CallFails, localVars, Steady, Raise, Invalidated,
     fenceVars
<1>10. CASE Apply
  BY <1>10 DEF Apply, Goto, CallFails, localVars, Steady, Raise, Invalidated,
     fenceVars
<1>11. CASE Settle
  BY <1>11 DEF Settle, Goto, CallFails, localVars, Steady, Raise, Invalidated,
     fenceVars
<1>12. CASE Validate
  BY <1>12 DEF Validate, Goto, Invalidated, Raise, CallFails, localVars,
     fenceVars
<1>13. CASE PreparationFailed
  BY <1>13 DEF PreparationFailed, Retryable, OneMoreFailure, Invalidated,
     Goto, fenceVars
<1>14. CASE Start
  BY <1>14 DEF Start, Raise, Goto, fenceVars
<1>15. CASE Exposing
  BY <1>15 DEF Exposing, Raise, Goto, CallFails, localVars, Steady,
     Invalidated, fenceVars
<1>16. CASE Download
  BY <1>16 DEF Download, Goto, CallFails, Retained, Steady, Raise,
     Invalidated, fenceVars
<1>17. CASE Received
  BY <1>17 DEF Received, Raise, CallFails, Goto, Invalidated, OneMoreFailure,
     fenceVars, localVars
<1>18. CASE AttemptFailed
  BY <1>18 DEF AttemptFailed, Invalidated, Retryable, OneMoreFailure,
     CanRetry, ResetDue, fenceVars, Replacements
<1>19. CASE NextAttempt
  BY <1>19 DEF NextAttempt, Goto, fenceVars, history
<1>20. CASE Reset
  BY <1>20 DEF Reset, Ready, Raise, fenceVars, Goto, ResetUnchanged, localVars
<1>21. CASE Rebind
  BY <1>21 DEF Rebind, Goto, FenceFinished, Raise, ResetUnchanged, localVars
<1>22. CASE AwaitAck
  BY <1>22 DEF AwaitAck, FenceFinished, Goto, Raise, ResetUnchanged, localVars
<1>23. CASE ResetFailed
  BY <1>23 DEF ResetFailed, Goto, sessionVars, fenceVars, localVars
<1>24. CASE Cancel
  BY <1>24 DEF Cancel, sessionVars, fenceVars, localVars, history
<1>25. CASE AckTimeout
  BY <1>25 DEF AckTimeout, sessionVars, localVars, history
<1>26. ASSUME NEW id \in 1..episode, NEW success \in BOOLEAN,
            Acknowledge(id, success)
     PROVE  Start
  BY <1>26 DEF Acknowledge, sessionVars, localVars
<1>27. QED BY <1>1, <1>2, <1>3, <1>4, <1>5, <1>6, <1>7, <1>8, <1>9, <1>10,
          <1>11, <1>12, <1>13, <1>14, <1>15, <1>16, <1>17, <1>18, <1>19,
          <1>20, <1>21, <1>22, <1>23, <1>24, <1>25, <1>26 DEF Next,
          CaptureStep

(* A start command finds confirmed peripherals and settled cooling.        *)
LEMMA StartIsRestored ==
  ASSUME IInv, Next, starts' > starts
  PROVE  /\ owed = 0 \/ unproven
         /\ cooler => ~disturbed
<1>1. Start /\ pc = "start"
  BY OnlyStartStarts DEF IInv, CaptureInv, Start
<1>2. QED BY <1>1 DEF IInv, FenceInv, SettleInv

(* An exposure starts only once the peripherals are confirmed after a reset*)
(* and the cooling is restored after a new worker (usb_peripherals.rs,     *)
(* session.rs settle).                                                     *)
THEOREM StartsAreRestored == Spec => StartsRestored
<1>1. IInv /\ [Next]_vars => [starts' > starts => owed = 0 \/ unproven]_vars
  BY StartIsRestored DEF IInv, CaptureInv, TypeOK, HistoryTypeOK
<1>2. IInv /\ [Next]_vars => [starts' > starts /\ cooler => ~disturbed]_vars
  BY StartIsRestored
<1>3. QED BY <1>1, <1>2, Inductive, PTL
         DEF Spec, StartsRestored, StartAfterConfirmation, SettledBeforeStart

-----------------------------------------------------------------------------
(* A capture request implements its contract                               *)

(* No capture is in progress at first.                                     *)
LEMMA ContractInit == Init => Contract!Init
BY DEF Init, Contract!Init, Contract!Kinds

(* Every step of the supervisor is a step of the contract or a stutter.    *)
LEMMA ContractStep ==
  ASSUME IInv, Next
  PROVE  [Contract!Next]_(Contract!vars)
<1> USE ConstantsAssumption DEF IInv, CaptureInv, TypeOK, LocalTypeOK,
        HistoryTypeOK, Bookkeeping, Contract!vars
<1>1. CASE ConnectOk
  BY <1>1 DEF ConnectOk, FenceReconnected, IdleUnchanged, localVars
<1>2. CASE ConnectFails
  BY <1>2 DEF ConnectFails, FenceReconnected, sessionVars, Invalidated,
     IdleUnchanged, localVars
<1>3. CASE RefreshFails
  BY <1>3 DEF RefreshFails, Invalidated, OneMoreFailure, fenceVars,
     IdleUnchanged, localVars
<1>4. CASE SetCooler
  BY <1>4 DEF SetCooler, fenceVars, IdleUnchanged, localVars
<1>5. CASE Close
  BY <1>5 DEF Close, Invalidated, IdleUnchanged, localVars
<1>6. CASE Capture
  <2>1. Contract!Begin
    BY <1>6 DEF Capture, Ready, sessionVars, fenceVars, Contract!Begin,
       Contract!Kinds
  <2>2. QED BY <2>1 DEF Contract!Next
<1>7. CASE AttemptBegin
  BY <1>7 DEF AttemptBegin, Raise, Goto, sessionVars, fenceVars, history
<1>8. CASE Prepare
  BY <1>8 DEF Prepare, Goto, Raise, ResetDue, fenceVars, history
<1>9. CASE Open
  BY <1>9 DEF Open, Goto, CallFails, localVars, Steady, Raise, Invalidated,
     fenceVars
<1>10. CASE Apply
  <2>1. /\ pc # "idle" /\ pc' # "idle"
        /\ UNCHANGED <<exposure, starts, cancelled, outcome>>
        /\ doubt' \in {doubt, TRUE}
    BY <1>10 DEF Apply, Goto, CallFails, localVars, Steady, Raise,
       Invalidated, fenceVars
  <2>2. QED BY <2>1 DEF Contract!Next, Contract!Lose, Contract!vars
<1>11. CASE Settle
  <2>1. /\ pc # "idle" /\ pc' # "idle"
        /\ UNCHANGED <<exposure, starts, cancelled, outcome>>
        /\ doubt' \in {doubt, TRUE}
    BY <1>11 DEF Settle, Goto, CallFails, localVars, Steady, Raise,
       Invalidated, fenceVars
  <2>2. QED BY <2>1 DEF Contract!Next, Contract!Lose, Contract!vars
<1>12. CASE Validate
  BY <1>12 DEF Validate, Goto, Invalidated, Raise, CallFails, localVars,
     fenceVars
<1>13. CASE PreparationFailed
  BY <1>13 DEF PreparationFailed, Retryable, OneMoreFailure, Invalidated,
     Goto, fenceVars
<1>14. CASE Start
  <2>1. CASE cancelled
    BY <1>14, <2>1 DEF Start, Raise, Goto, fenceVars, Contract!vars
  <2>2. CASE ~(cancelled)
    <3>1. Contract!Arm
      BY <1>14, <2>2 DEF Start, Raise, Goto, fenceVars, Contract!Arm,
         Replacements
    <3>2. QED BY <3>1 DEF Contract!Next
  <2>3. QED BY <2>1, <2>2
<1>15. CASE Exposing
  <2>1. /\ pc # "idle" /\ pc' # "idle"
        /\ UNCHANGED <<exposure, starts, cancelled, outcome>>
        /\ doubt' \in {doubt, TRUE}
    BY <1>15 DEF Exposing, Raise, Goto, CallFails, localVars, Steady,
       Invalidated, fenceVars
  <2>2. QED BY <2>1 DEF Contract!Next, Contract!Lose, Contract!vars
<1>16. CASE Download
  BY <1>16 DEF Download, Goto, CallFails, Retained, Steady, Raise,
     Invalidated, fenceVars
<1>17. CASE Received
  <2>1. CASE pc' = "idle"
    <3>1. Contract!Deliver
      BY <1>17, <2>1 DEF Received, Raise, CallFails, Goto, Invalidated,
         OneMoreFailure, fenceVars, localVars, Contract!Deliver
    <3>2. QED BY <3>1 DEF Contract!Next
  <2>2. CASE pc' # "idle"
    <3>1. /\ pc # "idle" /\ UNCHANGED <<exposure, starts, cancelled, outcome>>
          /\ doubt' \in {doubt, TRUE}
      BY <1>17, <2>2 DEF Received, Raise, CallFails, Goto, Invalidated,
         OneMoreFailure, fenceVars, localVars
    <3>2. QED BY <2>2, <3>1 DEF Contract!Next, Contract!Lose, Contract!vars
  <2>3. QED BY <2>1, <2>2
<1>18. CASE AttemptFailed
  <2>1. CASE pc' # "idle"
    BY <1>18, <2>1 DEF AttemptFailed, Invalidated, Retryable, OneMoreFailure,
       CanRetry, ResetDue, fenceVars, Replacements, Contract!vars
  <2>2. CASE ~(pc' # "idle")
    <3>1. Contract!Fail
      BY <1>18, <2>2 DEF AttemptFailed, Invalidated, Retryable,
         OneMoreFailure, CanRetry, ResetDue, fenceVars, Replacements,
         Contract!Fail
    <3>2. QED BY <3>1 DEF Contract!Next
  <2>3. QED BY <2>1, <2>2
<1>19. CASE NextAttempt
  BY <1>19 DEF NextAttempt, Goto, fenceVars, history
<1>20. CASE Reset
  BY <1>20 DEF Reset, Ready, Raise, fenceVars, Goto, ResetUnchanged, localVars
<1>21. CASE Rebind
  BY <1>21 DEF Rebind, Goto, FenceFinished, Raise, ResetUnchanged, localVars
<1>22. CASE AwaitAck
  BY <1>22 DEF AwaitAck, FenceFinished, Goto, Raise, ResetUnchanged, localVars
<1>23. CASE ResetFailed
  <2>1. CASE pc' # "idle"
    BY <1>23, <2>1 DEF ResetFailed, Goto, sessionVars, fenceVars, localVars,
       Contract!vars
  <2>2. CASE ~(pc' # "idle")
    <3>1. Contract!Fail
      BY <1>23, <2>2 DEF ResetFailed, Goto, sessionVars, fenceVars, localVars,
         Contract!Fail
    <3>2. QED BY <3>1 DEF Contract!Next
  <2>3. QED BY <2>1, <2>2
<1>24. CASE Cancel
  <2>1. Contract!Stop
    BY <1>24 DEF Cancel, sessionVars, fenceVars, localVars, history,
       Contract!Stop
  <2>2. QED BY <2>1 DEF Contract!Next
<1>25. CASE AckTimeout
  BY <1>25 DEF AckTimeout, sessionVars, localVars, history
<1>26. ASSUME NEW id \in 1..episode, NEW success \in BOOLEAN,
            Acknowledge(id, success)
     PROVE  [Contract!Next]_(Contract!vars)
  BY <1>26 DEF Acknowledge, sessionVars, localVars
<1>27. QED BY <1>1, <1>2, <1>3, <1>4, <1>5, <1>6, <1>7, <1>8, <1>9, <1>10,
          <1>11, <1>12, <1>13, <1>14, <1>15, <1>16, <1>17, <1>18, <1>19,
          <1>20, <1>21, <1>22, <1>23, <1>24, <1>25, <1>26 DEF Next,
          CaptureStep

(* Whatever recovery happens inside it, a capture request keeps            *)
(* ExposureContract: see there (session.rs capture, model.rs retryable).   *)
THEOREM CaptureImplementsContract == Spec => ImplementsExposureContract
<1>1. IInv /\ [Next]_vars => [Contract!Next]_(Contract!vars)
  BY ContractStep DEF vars, localVars, history, Contract!vars
<1>2. QED BY ContractInit, <1>1, Inductive, PTL
         DEF Spec, ImplementsExposureContract, Contract!Spec
==============================================================================
