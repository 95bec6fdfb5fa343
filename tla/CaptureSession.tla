--------------------------- MODULE CaptureSession ---------------------------
(***************************************************************************)
(* The camera supervisor of regain-core: Session::connect, capture with    *)
(* its attempts and preparations, the USB reset with its peripheral fence  *)
(* (usb_peripherals.rs), idle refresh and close.                           *)
(*                                                                         *)
(* The owner holds the Session exclusively, so its calls never interleave  *)
(* with one another; what interleaves with them, at every await, is the    *)
(* client cancelling the token and the frontend acknowledging recovery     *)
(* episodes. One step of the owner is what it does between two awaits,     *)
(* with the outcome of the worker call that ends it.                       *)
(*                                                                         *)
(* An error is one of the classes that the recovery policy tells apart     *)
(* (model.rs retryable): "transient" is retryable, "fatal" (Invalid),      *)
(* "uncertain" (UncertainControl) and "cancelled" are not.                 *)
(***************************************************************************)
EXTENDS Naturals, FiniteSets

CONSTANTS
  MaxRetries,      \* RecoveryOptions.max_retries
  Preparations,    \* RecoveryOptions.pre_exposure_reconnect_attempts
  Rereads,         \* RecoveryOptions.ready_frame_download_retries
  ResetThreshold,  \* RecoveryOptions.usb_reset_after_failures, 0 disables
  SdkFallback,     \* Selection.sdk_fallback
  FenceEnabled,    \* wait_for_usb_peripherals
  RetainedReads,   \* info.retainedFrameReads of the direct backend
  FailureCap,      \* bound: where connection_failures saturates
  MaxCaptures      \* bound: capture requests in one behaviour

ASSUME ConstantsAssumption ==
  /\ MaxRetries \in Nat /\ Rereads \in Nat /\ ResetThreshold \in Nat
  /\ Preparations \in Nat \ {0}
  /\ FailureCap \in Nat \ {0} /\ MaxCaptures \in Nat
  /\ SdkFallback \in BOOLEAN /\ FenceEnabled \in BOOLEAN /\ RetainedReads \in BOOLEAN

VARIABLES
  (* Session *)
  worker,        \* Session.worker: "none", "live", or "dead" (killed, not taken)
  direct,        \* Session.direct
  everOpened,    \* Session.ever_opened
  connected,     \* Status.connected
  failures,      \* Session.connection_failures
  outageReset,   \* Session.outage_usb_reset
  usbTarget,     \* Session.usb_target is known
  settle,        \* Session.settle_required
  cooler,        \* the desired cooler enable (control 17)
  (* usb_peripherals::State *)
  retired, blocked,
  pending,       \* the id of the pending episode, 0 when there is none
  deadline,      \* Pending.deadline: "unset", "set" or "passed"
  reply,         \* what acknowledge has sent: "none", "yes" or "no"
  episode,       \* the last id handed out
  (* the capture in progress *)
  pc, back,      \* where the owner is; what a USB reset returns to
  exposure, attempt, preparation, usbResets, dispatched, reads, error, cancelled,
  (* history: what the equipment and the client have seen *)
  starts,        \* start commands dispatched by this capture
  doubt,         \* a control write of this capture has an unknown outcome
  outcome,       \* of the last finished capture
  outageCycles,  \* USB resets dispatched since the camera was last restored
  unproven,      \* the last USB reset failed half-way, so no one was asked
  owed,          \* the episode whose confirmation the next start has to wait for
  disturbed,     \* the worker was replaced and the sensor has not settled since
  captures       \* capture requests so far

sessionVars == <<worker, direct, everOpened, connected, failures, outageReset,
                 usbTarget, settle, cooler>>
fenceVars   == <<retired, blocked, pending, deadline, reply, episode>>
localVars   == <<exposure, attempt, preparation, usbResets, dispatched, reads>>
history     == <<starts, doubt, outcome, outageCycles, unproven, owed,
                 disturbed, captures>>
vars == <<sessionVars, fenceVars, pc, back, localVars, error, cancelled, history>>

Errors == {"transient", "fatal", "uncertain", "cancelled"}
Pcs == {"idle", "attempt", "prepare", "open", "apply", "settle", "validate",
        "start", "exposing", "download", "received", "preparingFailed",
        "failed", "next", "reset", "rebind", "awaitAck", "resetFailed"}

SessionTypeOK ==
  /\ worker \in {"none", "live", "dead"}
  /\ direct \in BOOLEAN /\ everOpened \in BOOLEAN /\ connected \in BOOLEAN
  /\ failures \in 0..FailureCap
  /\ outageReset \in BOOLEAN /\ usbTarget \in BOOLEAN
  /\ settle \in BOOLEAN /\ cooler \in BOOLEAN

FenceTypeOK ==
  /\ retired \in BOOLEAN /\ blocked \in BOOLEAN
  /\ pending \in Nat /\ episode \in Nat
  /\ deadline \in {"unset", "set", "passed"}
  /\ reply \in {"none", "yes", "no"}

LocalTypeOK ==
  /\ pc \in Pcs /\ back \in {"open", "next"}
  /\ exposure \in {"short", "long"}
  /\ attempt \in Nat /\ preparation \in Nat /\ usbResets \in Nat /\ reads \in Nat
  /\ dispatched \in BOOLEAN /\ cancelled \in BOOLEAN
  /\ error \in Errors \cup {"none"}

HistoryTypeOK ==
  /\ starts \in Nat /\ outageCycles \in Nat /\ captures \in Nat
  /\ doubt \in BOOLEAN /\ unproven \in BOOLEAN /\ disturbed \in BOOLEAN
  /\ outcome \in {"none", "frame", "cancelled", "error"}
  /\ owed \in Nat

TypeOK == SessionTypeOK /\ FenceTypeOK /\ LocalTypeOK /\ HistoryTypeOK

Init ==
  /\ worker = "none" /\ direct \in BOOLEAN
  /\ everOpened = FALSE /\ connected = FALSE
  /\ failures = 0 /\ outageReset = FALSE /\ usbTarget = FALSE
  /\ settle = FALSE /\ cooler \in BOOLEAN
  /\ retired = FALSE /\ blocked = FALSE /\ pending = 0
  /\ deadline = "unset" /\ reply = "none" /\ episode = 0
  /\ pc = "idle" /\ back = "open"
  /\ exposure = "short" /\ attempt = 0 /\ preparation = 0 /\ usbResets = 0
  /\ dispatched = FALSE /\ reads = 0 /\ error = "none" /\ cancelled = FALSE
  /\ starts = 0 /\ doubt = FALSE /\ outcome = "none" /\ outageCycles = 0
  /\ unproven = FALSE /\ owed = 0 /\ disturbed = FALSE /\ captures = 0

-----------------------------------------------------------------------------
(* RecoveryOptions::replacement_exposures                                  *)
Replacements(kind) == IF kind = "short" THEN MaxRetries ELSE 0

(* Fault: an uncertain control write is retried like a lost connection.    *)
RetryableUncertain(e) == e \in {"transient", "uncertain"}

(* retryable, over the error classes.                                      *)
Retryable(e) == e = "transient"

(* Session::retained                                                       *)
Retained == direct /\ RetainedReads

(* Session::connection_failed: saturating.                                 *)
OneMoreFailure == IF failures < FailureCap THEN failures + 1 ELSE failures

(* Session::invalidate: the worker is killed and, once the camera has been *)
(* opened, its cooling has to settle again before an exposure.             *)
Invalidated ==
  /\ worker' = "none"
  /\ settle' = (settle \/ everOpened)
  /\ disturbed' = (disturbed \/ everOpened)

(* Fault: the outage's reset is forgotten when the next capture begins.    *)
ResetDuePerCapture(n) ==
  usbResets = 0 /\ ResetThreshold > 0 /\ n >= ResetThreshold

(* Whether n failures earn the USB reset of this outage and capture.       *)
ResetDue(n) ==
  ~outageReset /\ usbResets = 0 /\ ResetThreshold > 0 /\ n >= ResetThreshold

(* Whether a failed attempt may be replaced (capture, can_retry).          *)
CanRetry == dispatched /\ Retryable(error) /\ attempt < Replacements(exposure)

(* PeripheralRecoveryHandle::ensure_ready                                  *)
Ready == ~retired /\ ~blocked /\ pending = 0

(* Recovery::finish, also from its Drop: only its own episode is ended.    *)
FenceFinished(failed) ==
  /\ pending' = 0
  /\ deadline' = "unset"
  /\ blocked' = IF pending # 0 THEN failed ELSE blocked
  /\ UNCHANGED <<retired, reply, episode>>

-----------------------------------------------------------------------------
(* Idle owner                                                              *)

IdleUnchanged == UNCHANGED <<pc, back, localVars, error, cancelled, starts, doubt,
                             outcome, captures>>

(* The state that connect leaves in the fence: an explicit close is what   *)
(* lets a later connect clear a block.                                     *)
FenceReconnected ==
  /\ retired' = FALSE
  /\ blocked' = (blocked /\ ~retired)
  /\ owed' = IF retired THEN 0 ELSE owed
  /\ unproven' = (unproven /\ ~retired)
  /\ UNCHANGED <<pending, deadline, reply, episode>>

(* Session::connect succeeds, possibly through the SDK fallback, and binds *)
(* the USB target when resets are configured.                              *)
ConnectOk ==
  /\ pc = "idle" /\ worker = "none"
  /\ FenceReconnected
  /\ ~blocked'
  /\ direct' \in {direct, direct /\ ~SdkFallback}
  /\ worker' = "live"
  /\ usbTarget' = (usbTarget \/ ResetThreshold > 0)
  /\ everOpened' = TRUE /\ connected' = TRUE
  /\ failures' = 0 /\ outageReset' = FALSE
  /\ outageCycles' = 0
  /\ UNCHANGED <<settle, cooler, disturbed>>
  /\ IdleUnchanged

(* Session::connect fails: refused by the fence, or invalidated.           *)
ConnectFails ==
  /\ pc = "idle" /\ worker = "none"
  /\ FenceReconnected
  /\ IF blocked' THEN UNCHANGED <<sessionVars, disturbed>>
     ELSE /\ direct' \in {direct, direct /\ ~SdkFallback}
          /\ Invalidated
          /\ usbTarget' \in {usbTarget, usbTarget \/ ResetThreshold > 0}
          /\ UNCHANGED <<everOpened, connected, failures, outageReset, cooler>>
  /\ UNCHANGED outageCycles
  /\ IdleUnchanged

(* Session::refresh / refresh_environment fail: the worker is retired and  *)
(* the outage clock runs, whoever asked.                                   *)
RefreshFails ==
  /\ pc = "idle" /\ connected /\ worker # "none"
  /\ Invalidated
  /\ failures' \in {failures, OneMoreFailure}
  /\ UNCHANGED <<direct, everOpened, connected, outageReset, usbTarget, cooler,
                 fenceVars, outageCycles, unproven, owed>>
  /\ IdleUnchanged

(* The frontend switches the cooler through the mailbox while idle.        *)
SetCooler ==
  /\ pc = "idle" /\ connected /\ worker = "live"
  /\ cooler' = ~cooler
  /\ UNCHANGED <<worker, direct, everOpened, connected, failures, outageReset,
                 usbTarget, settle, fenceVars, outageCycles, unproven, owed, disturbed>>
  /\ IdleUnchanged

(* Session::close: the fence is retired; the worker is closed, invalidated *)
(* and, if the close failed, reopened once for thermal shutdown only.      *)
Close ==
  /\ pc = "idle" /\ connected
  /\ retired' = TRUE /\ pending' = 0 /\ deadline' = "unset"
  /\ connected' = FALSE
  /\ usbTarget' = FALSE
  /\ Invalidated
  /\ UNCHANGED <<blocked, reply, episode, direct, everOpened, failures, outageReset,
                 cooler, outageCycles, unproven, owed>>
  /\ IdleUnchanged

(* Session::capture is entered: refused while the fence is not ready.      *)
Capture ==
  /\ pc = "idle" /\ connected
  /\ captures < MaxCaptures
  /\ Ready
  /\ exposure' \in {"short", "long"}
  /\ pc' = "attempt"
  /\ attempt' = 0 /\ preparation' = 0 /\ usbResets' = 0 /\ reads' = 0
  /\ dispatched' = FALSE /\ error' = "none" /\ cancelled' = FALSE
  /\ starts' = 0 /\ doubt' = FALSE /\ outcome' = "none"
  /\ captures' = captures + 1
  /\ UNCHANGED <<sessionVars, fenceVars, back, outageCycles, unproven, owed, disturbed>>

-----------------------------------------------------------------------------
(* One attempt                                                             *)

Goto(l) == pc' = l /\ UNCHANGED <<back, error>>
Raise(l, e) == pc' = l /\ error' = e /\ UNCHANGED back

Steady == UNCHANGED <<direct, everOpened, connected, failures, outageReset, usbTarget,
                      fenceVars, cancelled, starts, outcome, outageCycles, unproven,
                      owed, captures>>

(* A worker call made with the client's token fails. A framed error leaves *)
(* the process alive, anything else kills it; an uncertain control write   *)
(* has been invalidated by control_result.                                 *)
CallFails(l, uncertain) ==
  \/ /\ \E e \in {"transient", "fatal"} : Raise(l, e)
     /\ worker' \in {worker, "dead"}
     /\ UNCHANGED <<settle, disturbed, doubt>>
  \/ /\ cancelled
     /\ Raise(l, "cancelled")
     /\ worker' \in {worker, "dead"}
     /\ UNCHANGED <<settle, disturbed, doubt>>
  \/ /\ uncertain
     /\ Raise(l, "uncertain")
     /\ Invalidated
     /\ doubt' = TRUE

(* attempt(): the number of preparations depends on the attempt.           *)
AttemptBegin ==
  /\ pc = "attempt"
  /\ IF cancelled THEN Raise("failed", "cancelled") ELSE Goto("prepare")
  /\ preparation' = 0 /\ reads' = 0
  /\ UNCHANGED <<sessionVars, fenceVars, exposure, attempt, usbResets, dispatched, cancelled,
                 history>>

(* prepare_exposure, first part: without a worker, wait out the reconnect  *)
(* delay and decide whether this outage has earned its USB reset.          *)
Prepare ==
  /\ pc = "prepare"
  /\ \/ worker # "none" /\ Goto("apply") /\ UNCHANGED <<outageReset, usbResets>>
     \/ /\ worker = "none" /\ cancelled
        /\ Raise("preparingFailed", "cancelled")
        /\ UNCHANGED <<outageReset, usbResets>>
     \/ /\ worker = "none" /\ ~cancelled
        /\ IF ResetDue(failures)
           THEN /\ outageReset' = TRUE
                /\ usbResets' = usbResets + 1
                /\ pc' = "reset" /\ back' = "open" /\ UNCHANGED error
           ELSE Goto("open") /\ UNCHANGED <<outageReset, usbResets>>
  /\ UNCHANGED <<worker, direct, everOpened, connected, failures, usbTarget, settle,
                 cooler, fenceVars, exposure, attempt, preparation, dispatched, reads,
                 cancelled, history>>

(* open_worker: identity and geometry mismatches are fatal.                *)
Open ==
  /\ pc = "open"
  /\ \/ /\ worker' = "live" /\ ~cancelled
        /\ Goto("apply")
        /\ UNCHANGED <<settle, disturbed, doubt>>
     \/ CallFails("preparingFailed", FALSE)
  /\ UNCHANGED <<cooler, localVars>>
  /\ Steady

(* The pending cooler command is served, then every setting that the new   *)
(* worker has not acknowledged is written and read back.                   *)
Apply ==
  /\ pc = "apply"
  /\ cooler' \in BOOLEAN
  /\ \/ /\ worker = "live" /\ ~cancelled
        /\ IF settle /\ cooler' THEN Goto("settle") ELSE Goto("validate")
        /\ disturbed' = (disturbed /\ cooler')
        /\ UNCHANGED <<worker, settle, doubt>>
     \/ CallFails("preparingFailed", TRUE)
  /\ UNCHANGED localVars
  /\ Steady

(* settle: until the temperature has held, the client switches the cooler  *)
(* off, or the settling deadline passes.                                   *)
Settle ==
  /\ pc = "settle"
  /\ cooler' \in BOOLEAN
  /\ \/ /\ worker = "live" /\ ~cancelled
        /\ disturbed' = FALSE
        /\ Goto("validate")
        /\ UNCHANGED <<worker, settle, doubt>>
     \/ CallFails("preparingFailed", TRUE)
  /\ UNCHANGED localVars
  /\ Steady

(* The rest of prepare_exposure: read the environment and, for a direct    *)
(* backend that may fall back, validate the exposure. An unsupported       *)
(* exposure switches to the SDK: a new worker, settings and settling.      *)
Validate ==
  /\ pc = "validate"
  /\ \/ /\ worker = "live" /\ ~cancelled
        /\ Goto("start")
        /\ UNCHANGED <<worker, direct, settle, disturbed, doubt>>
     \/ /\ worker = "live" /\ direct /\ SdkFallback
        /\ Invalidated
        /\ direct' = FALSE
        /\ IF cancelled THEN Raise("preparingFailed", "cancelled") ELSE Goto("open")
        /\ UNCHANGED doubt
     \/ CallFails("preparingFailed", FALSE) /\ UNCHANGED direct
  /\ UNCHANGED <<cooler, localVars, everOpened, connected, failures, outageReset,
                 usbTarget, fenceVars, cancelled, starts, outcome, outageCycles,
                 unproven, owed, captures>>

(* attempt(), a preparation failed: another one while the policy allows,   *)
(* which does not replace an exposure.                                     *)
PreparationFailed ==
  /\ pc = "preparingFailed"
  /\ IF /\ Retryable(error) /\ ~cancelled
        /\ preparation + 1 < (IF attempt = 0 THEN Preparations ELSE 1)
     THEN /\ failures' = OneMoreFailure
          /\ Invalidated
          /\ preparation' = preparation + 1
          /\ pc' = "prepare" /\ error' = "none" /\ UNCHANGED back
     ELSE /\ Goto("failed")
          /\ UNCHANGED <<failures, worker, settle, disturbed, preparation>>
  /\ UNCHANGED <<direct, everOpened, connected, outageReset, usbTarget, cooler, fenceVars,
                 exposure, attempt, usbResets, dispatched, reads, cancelled, starts, doubt,
                 outcome, outageCycles, unproven, owed, captures>>

(* The start command. From its dispatch on the sensor may be armed, so     *)
(* only the replacement policy may try again.                              *)
Start ==
  /\ pc = "start"
  /\ settle' = FALSE
  /\ IF cancelled
     THEN /\ Raise("failed", "cancelled")
          /\ UNCHANGED <<worker, dispatched, starts>>
     ELSE /\ dispatched' = TRUE
          /\ starts' = starts + 1
          /\ \/ worker = "live" /\ Goto("exposing") /\ UNCHANGED worker
             \/ /\ \E e \in {"transient", "fatal"} : Raise("failed", e)
                /\ worker' \in {worker, "dead"}
  /\ UNCHANGED <<direct, everOpened, connected, failures, outageReset, usbTarget, cooler,
                 fenceVars, exposure, attempt, preparation, usbResets, reads, cancelled,
                 doubt, outcome, outageCycles, unproven, owed, disturbed, captures>>

(* The exposure loop: cancellation, the pending cooler command, then the   *)
(* camera's state: ready, failed, or not ready before the deadline.        *)
Exposing ==
  /\ pc = "exposing"
  /\ cooler' \in BOOLEAN
  /\ \/ /\ cancelled /\ Raise("failed", "cancelled")
        /\ UNCHANGED <<worker, settle, disturbed, doubt>>
     \/ /\ worker = "live" /\ ~cancelled /\ Goto("download")
        /\ UNCHANGED <<worker, settle, disturbed, doubt>>
     \/ ~cancelled /\ CallFails("failed", TRUE)
  /\ UNCHANGED localVars
  /\ Steady

(* The download loop. A failed transfer of a frame that the backend does   *)
(* not retain is read again while the camera still reports it ready.       *)
Download ==
  /\ pc = "download"
  /\ \/ /\ worker = "live" /\ Goto("received")
        /\ UNCHANGED <<worker, settle, disturbed, doubt, reads>>
     \/ CallFails("failed", FALSE) /\ UNCHANGED reads
     \/ /\ worker = "live" /\ ~Retained /\ ~cancelled /\ reads < Rereads
        /\ reads' = reads + 1
        /\ UNCHANGED <<pc, back, error, worker, settle, disturbed, doubt>>
  /\ UNCHANGED <<cooler, exposure, attempt, preparation, usbResets, dispatched>>
  /\ Steady

(* A frame was received: cancellation and the geometry checks come first.  *)
(* A cleanup error keeps the frame and retires the worker, otherwise the   *)
(* cooler command is served once more. Then capture returns the frame and, *)
(* if the worker is still there, ends the outage.                          *)
Received ==
  /\ pc = "received"
  /\ cooler' \in BOOLEAN
  /\ \/ /\ cancelled
        /\ Raise("failed", "cancelled")
        /\ UNCHANGED <<worker, settle, disturbed, doubt, failures, outageReset,
                       outageCycles, unproven, outcome>>
     \/ /\ ~cancelled /\ CallFails("failed", TRUE)
        /\ UNCHANGED <<failures, outageReset, outageCycles, unproven, outcome>>
     \/ /\ ~cancelled
        /\ Goto("idle") /\ outcome' = "frame"
        /\ \/ /\ Invalidated
              /\ failures' = OneMoreFailure
              /\ UNCHANGED <<outageReset, outageCycles, unproven>>
           \/ /\ failures' = 0 /\ outageReset' = FALSE /\ outageCycles' = 0
              /\ UNCHANGED <<worker, settle, disturbed, unproven>>
        /\ UNCHANGED doubt
  /\ UNCHANGED <<direct, everOpened, connected, usbTarget, fenceVars, localVars,
                 cancelled, starts, owed, captures>>

(* capture(), an attempt failed. A cancelled request stops the sensor and  *)
(* returns; otherwise the worker is retired and the attempt is replaced    *)
(* only if its start was dispatched, the error is retryable and the budget *)
(* is not spent, with one USB reset when enough attempts have failed.      *)
AttemptFailed ==
  /\ pc = "failed"
  /\ \/ /\ cancelled
        /\ \/ worker = "live" /\ UNCHANGED <<worker, settle, disturbed>>
           \/ Invalidated
        /\ pc' = "idle" /\ outcome' = "cancelled"
        /\ UNCHANGED <<back, failures, outageReset, usbResets>>
     \/ /\ ~cancelled
        /\ failures' = IF Retryable(error) THEN OneMoreFailure ELSE failures
        /\ Invalidated
        /\ IF ~CanRetry
           THEN /\ pc' = "idle" /\ outcome' = "error"
                /\ UNCHANGED <<back, outageReset, usbResets>>
           ELSE IF ResetDue(attempt + 1)
           THEN /\ usbResets' = usbResets + 1
                /\ outageReset' = TRUE
                /\ pc' = "reset" /\ back' = "next"
                /\ UNCHANGED outcome
           ELSE pc' = "next" /\ UNCHANGED <<back, outageReset, usbResets, outcome>>
  /\ error' = "none"
  /\ UNCHANGED <<direct, everOpened, connected, usbTarget, cooler, fenceVars, exposure,
                 attempt, preparation, dispatched, reads, cancelled, starts, doubt,
                 outageCycles, unproven, owed, captures>>

(* The next permitted attempt uses the SDK where fallback is configured.   *)
NextAttempt ==
  /\ pc = "next"
  /\ direct' = (direct /\ ~SdkFallback)
  /\ attempt' = attempt + 1
  /\ dispatched' = FALSE
  /\ Goto("attempt")
  /\ UNCHANGED <<worker, everOpened, connected, failures, outageReset, usbTarget, settle,
                 cooler, fenceVars, exposure, preparation, usbResets, reads, cancelled,
                 history>>

-----------------------------------------------------------------------------
(* reset_usb                                                               *)

ResetUnchanged == UNCHANGED <<worker, direct, everOpened, connected, failures, outageReset,
                              settle, cooler, localVars, cancelled, starts, doubt,
                              outcome, disturbed, captures>>

(* The episode is reserved before the reset is dispatched; the bounded     *)
(* helper then runs to its end whatever the token says. Its failure drops  *)
(* the unfinished Recovery, which blocks later captures.                   *)
Reset ==
  /\ pc = "reset"
  /\ IF cancelled \/ ~usbTarget \/ ~Ready
     THEN /\ Raise("resetFailed", IF cancelled THEN "cancelled"
                                   ELSE IF ~usbTarget THEN "transient" ELSE "fatal")
          /\ UNCHANGED <<usbTarget, fenceVars, outageCycles, unproven, owed>>
     ELSE /\ outageCycles' = outageCycles + 1
          /\ episode' = IF FenceEnabled THEN episode + 1 ELSE episode
          /\ owed' = IF FenceEnabled THEN episode' ELSE owed
          /\ \/ /\ pending' = IF FenceEnabled THEN episode' ELSE 0
                /\ deadline' = "unset" /\ reply' = "none"
                /\ usbTarget' = FALSE
                /\ unproven' = FALSE
                /\ Goto("rebind")
                /\ UNCHANGED <<retired, blocked>>
             \/ /\ blocked' = FenceEnabled
                /\ unproven' = TRUE
                /\ Raise("resetFailed", "transient")
                /\ UNCHANGED <<usbTarget, retired, pending, deadline, reply>>
  /\ ResetUnchanged

(* The same serial must come back before the rebind deadline. Without the  *)
(* fence the reset is then complete; with it the frontend is asked.        *)
Rebind ==
  /\ pc = "rebind"
  /\ \/ /\ usbTarget' = TRUE /\ ~cancelled
        /\ IF pending # 0 THEN deadline' = "set" /\ Goto("awaitAck")
                          ELSE UNCHANGED deadline /\ Goto(back)
        /\ UNCHANGED <<retired, blocked, pending, reply, episode, unproven>>
     \/ /\ FenceFinished(TRUE)
        /\ unproven' = TRUE
        /\ Raise("resetFailed", IF cancelled THEN "cancelled" ELSE "transient")
        /\ UNCHANGED usbTarget
  /\ UNCHANGED <<outageCycles, owed>>
  /\ ResetUnchanged

(* Fault: the wait for the frontend has no deadline of its own.            *)
AwaitAckForever ==
  /\ pc = "awaitAck"
  /\ \/ /\ reply = "yes" /\ ~cancelled
        /\ FenceFinished(FALSE)
        /\ Goto(back)
     \/ /\ cancelled \/ reply = "no"
        /\ FenceFinished(TRUE)
        /\ Raise("resetFailed", IF cancelled THEN "cancelled" ELSE "fatal")
  /\ UNCHANGED <<usbTarget, outageCycles, unproven, owed>>
  /\ ResetUnchanged

(* Recovery::wait: cancellation, the deadline, or the frontend's answer.   *)
AwaitAck ==
  /\ pc = "awaitAck"
  /\ \/ /\ reply = "yes" /\ ~cancelled /\ deadline = "set"
        /\ FenceFinished(FALSE)
        /\ Goto(back)
     \/ /\ cancelled \/ deadline = "passed" \/ reply = "no"
        /\ FenceFinished(TRUE)
        /\ Raise("resetFailed", IF cancelled THEN "cancelled" ELSE "fatal")
  /\ UNCHANGED <<usbTarget, outageCycles, unproven, owed>>
  /\ ResetUnchanged

(* A failed reset ends the capture between attempts; inside a preparation  *)
(* it is just another preparation error.                                   *)
ResetFailed ==
  /\ pc = "resetFailed"
  /\ IF back = "open"
     THEN Goto("preparingFailed") /\ UNCHANGED outcome
     ELSE /\ pc' = "idle" /\ error' = "none" /\ UNCHANGED back
          /\ outcome' = IF error = "cancelled" THEN "cancelled" ELSE "error"
  /\ UNCHANGED <<sessionVars, fenceVars, localVars, cancelled, starts, doubt, outageCycles,
                 unproven, owed, disturbed, captures>>

-----------------------------------------------------------------------------
(* The other actors                                                        *)

(* The client cancels the capture.                                         *)
Cancel ==
  /\ pc # "idle" /\ ~cancelled
  /\ cancelled' = TRUE
  /\ UNCHANGED <<sessionVars, fenceVars, pc, back, localVars, error, history>>

(* Fault: an answer is taken for the pending episode whatever its id.      *)
AcknowledgeAnyEpisode(id, success) ==
  /\ reply' = IF pending # 0 /\ deadline = "set" /\ reply = "none"
              THEN IF success THEN "yes" ELSE "no"
              ELSE reply
  /\ owed' = IF success /\ owed = id /\ deadline = "set" THEN 0 ELSE owed
  /\ UNCHANGED <<sessionVars, retired, blocked, pending, deadline, episode, pc, back,
                 localVars, error, cancelled, starts, doubt, outcome, outageCycles,
                 unproven, disturbed, captures>>

(* PeripheralRecoveryHandle::acknowledge, with the id of any episode the   *)
(* frontend has seen: only the pending one, once, before its deadline.     *)
Acknowledge(id, success) ==
  /\ reply' = IF pending = id /\ deadline = "set" /\ reply = "none"
              THEN IF success THEN "yes" ELSE "no"
              ELSE reply
  /\ owed' = IF success /\ owed = id /\ deadline = "set" THEN 0 ELSE owed
  /\ UNCHANGED <<sessionVars, retired, blocked, pending, deadline, episode, pc, back,
                 localVars, error, cancelled, starts, doubt, outcome, outageCycles,
                 unproven, disturbed, captures>>

(* The confirmation deadline (WAIT_SECONDS) passes.                        *)
AckTimeout ==
  /\ deadline = "set"
  /\ deadline' = "passed"
  /\ UNCHANGED <<sessionVars, retired, blocked, pending, reply, episode, pc, back,
                 localVars, error, cancelled, history>>

CaptureStep == \/ AttemptBegin \/ Prepare \/ Open \/ Apply \/ Settle \/ Validate
               \/ PreparationFailed \/ Start \/ Exposing \/ Download \/ Received
               \/ AttemptFailed \/ NextAttempt
               \/ Reset \/ Rebind \/ AwaitAck \/ ResetFailed

Next == \/ ConnectOk \/ ConnectFails \/ RefreshFails \/ SetCooler \/ Close \/ Capture
        \/ CaptureStep
        \/ Cancel \/ AckTimeout
        \/ \E id \in 1..episode, success \in BOOLEAN : Acknowledge(id, success)

(* Every await of a capture is bounded by a timeout, so the owner always   *)
(* takes its next step, and the confirmation deadline passes.              *)
Fairness == WF_vars(CaptureStep) /\ WF_vars(AckTimeout)

Spec == Init /\ [][Next]_vars /\ Fairness

-----------------------------------------------------------------------------
(* Properties                                                              *)

Resetting == {"reset", "rebind", "awaitAck"}

(* The promise of usbResetAfterFailures (recovery.rs:161): "at most one    *)
(* USB reset per outage and capture". An outage lasts over failed          *)
(* captures, refreshes and cancelled requests until a capture or an        *)
(* explicit connect has restored the worker.                               *)
OneResetPerOutage == outageCycles <= 1 /\ usbResets <= 1

(* What the owner has of a capture in progress: a connected camera, the    *)
(* starts that its attempts account for, no worker while a port is reset,  *)
(* and no way on from a control write of unknown outcome.                  *)
Bookkeeping ==
  /\ pc # "idle" => /\ connected /\ everOpened /\ ~retired
                    /\ attempt <= Replacements(exposure)
                    /\ starts = attempt + (IF dispatched THEN 1 ELSE 0)
  /\ pc \in {"exposing", "download", "received", "next"} => dispatched
  /\ pc \in {"attempt", "prepare", "open", "apply", "settle", "validate", "start",
             "preparingFailed"} => ~dispatched
  /\ pc = "next" => attempt < Replacements(exposure)
  /\ pc \in Resetting \cup {"resetFailed"} =>
        IF back = "next" THEN dispatched /\ attempt < Replacements(exposure) ELSE ~dispatched
  /\ pc \in Resetting => worker = "none"
  /\ doubt /\ pc # "idle" => error = "uncertain" /\ pc \in {"preparingFailed", "failed"}

(* One episode at a time, and one reset per outage.                        *)
ResetBookkeeping ==
  /\ pending # 0 => pending = episode /\ pc \in {"rebind", "awaitAck"}
  /\ pc = "reset" => outageReset /\ outageCycles = 0
  /\ ~outageReset => outageCycles = 0
  /\ OneResetPerOutage

(* The bookkeeping of a capture agrees with what was dispatched.           *)
CaptureInv == TypeOK /\ Bookkeeping /\ ResetBookkeeping

(* After a USB reset that brought the camera back, no exposure starts      *)
(* before the frontend has confirmed its peripherals for this very episode *)
(* (a late answer to an earlier one does not count), or the camera was     *)
(* explicitly closed and connected again. A reset that failed half-way is  *)
(* left to NoStartWhileBlocked.                                            *)
StartAfterConfirmation == [][starts' > starts => owed = 0 \/ unproven]_vars

(* usb_peripherals.rs:79: "Reject captures after an unconfirmed reset":    *)
(* no exposure starts while the fence is blocked.                          *)
NoStartWhileBlocked == [][starts' > starts => ~blocked]_vars

(* With the cooler on, an exposure starts only after the cooling that a    *)
(* replaced worker interrupted has been restored (settle), on every path   *)
(* that replaces the worker, the fallback inside a preparation included.   *)
SettledBeforeStart == [][starts' > starts /\ cooler => ~disturbed]_vars

(* An exposure starts only on equipment that a recovery has brought back:  *)
(* peripherals confirmed after a reset, cooling restored after a new worker*)
(* (usb_peripherals.rs, session.rs settle).                                *)
StartsRestored == StartAfterConfirmation /\ SettledBeforeStart

(* Every capture ends: the retry, preparation, reread and reset loops are  *)
(* all bounded.                                                            *)
CaptureEnds == pc # "idle" ~> pc = "idle"

(* A capture request keeps the exposure contract: within its replacement   *)
(* budget, never for a long exposure, never after a cancellation and never *)
(* after a control write whose outcome is unknown.                         *)
Contract == INSTANCE ExposureContract WITH
  busy      <- pc # "idle",
  kind      <- exposure,
  armed     <- starts,
  stopped   <- cancelled,
  delivered <- outcome = "frame"
ImplementsExposureContract == Contract!Spec
=============================================================================
