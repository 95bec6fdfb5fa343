--------------------------- MODULE CoolingMailbox ---------------------------
(***************************************************************************)
(* The one-slot mailbox through which frontends hand a cooler command to   *)
(* the camera's Session owner (regain-core cooling.rs), together with the  *)
(* owner's side of it (Session::service_cooling_with, write_control and    *)
(* control_result in session.rs).                                          *)
(*                                                                         *)
(* Every mailbox method holds one mutex, so each is one step. Submitting   *)
(* is two steps (validate reads the shared status, then the slot is        *)
(* reserved), and the owner's service is one step per lock or await.       *)
(* A deadline is the membership of a request in `late`: time may pass it   *)
(* between any two steps.                                                  *)
(***************************************************************************)
EXTENDS FiniteSets

CONSTANTS Requests,   \* the commands clients will submit, one receipt each
          None        \* "no request"

ASSUME NoneAssumption == None \notin Requests

VARIABLES
  accepting,    \* State.accepting
  pending,      \* State.pending
  phase,        \* Request.phase ("new" until the slot was reserved)
  uncertain,    \* the requests whose Request.uncertain is set
  reply,        \* what was sent on Request.reply ("none" while it is unsent)
  client,       \* what the submitting client is doing, then what it was told
  late,         \* the requests whose deadline has passed
  available,    \* Status.connected /\ Status.control_connection_available
  limits,       \* the requests that the current control capabilities admit
  worker,       \* the camera worker process: none, live or killed
  pc,           \* where the owner is in service_cooling_with / open_worker
  cur,          \* the request the owner has claimed
  result,       \* the outcome write_control computed for cur
  cancelled,    \* the token of the owner's current call
  sent,         \* requests whose `set` was written to a live worker
  committed     \* requests recorded in Session.applied and Status.values

mailbox == <<accepting, pending, phase, uncertain, reply>>
session == <<available, limits, worker>>
owner   == <<pc, cur, result, cancelled>>
vars    == <<mailbox, client, late, session, owner, sent, committed>>

Refusals == {"busy", "unavailable", "expired", "cancelled", "invalid"}
Outcomes == Refusals \cup {"ok", "uncertain"}
Unsent   == {"Queued", "Claimed"}
Phases   == {"new"} \cup Unsent \cup {"Running", "Finished"}
OwnerPcs == {"idle", "opening", "claimed", "checked", "running", "sent",
             "acked", "finishing", "invalidating", "gone"}

TypeOK ==
  /\ accepting \in BOOLEAN
  /\ pending \in Requests \cup {None}
  /\ phase \in [Requests -> Phases]
  /\ uncertain \in SUBSET Requests
  /\ reply \in [Requests -> {"none"} \cup Outcomes]
  /\ client \in [Requests -> {"new", "validated", "waiting", "dropped"} \cup Outcomes]
  /\ late \in SUBSET Requests
  /\ available \in BOOLEAN
  /\ limits \in SUBSET Requests
  /\ worker \in {"none", "live", "killed"}
  /\ pc \in OwnerPcs
  /\ cur \in Requests \cup {None}
  /\ result \in {"none", "ok", "expired", "cancelled", "uncertain"}
  /\ cancelled \in BOOLEAN
  /\ sent \in SUBSET Requests
  /\ committed \in SUBSET Requests

Init ==
  /\ accepting = FALSE
  /\ pending = None
  /\ phase = [r \in Requests |-> "new"]
  /\ uncertain = {}
  /\ reply = [r \in Requests |-> "none"]
  /\ client = [r \in Requests |-> "new"]
  /\ late = {}
  /\ available = FALSE
  /\ limits = {}
  /\ worker = "none"
  /\ pc = "idle"
  /\ cur = None
  /\ result = "none"
  /\ cancelled = FALSE
  /\ sent = {}
  /\ committed = {}

-----------------------------------------------------------------------------
(* Mailbox methods, as what they do to the mailbox variables.              *)

(* The request leaves the slot with outcome o: phase, slot and reply move  *)
(* together under the lock.                                                *)
Conclude(r, o) ==
  /\ phase' = [phase EXCEPT ![r] = "Finished"]
  /\ pending' = None
  /\ reply' = [reply EXCEPT ![r] = o]

(* retire: whatever is in the slot is answered, uncertain once dispatched. *)
Retire ==
  /\ accepting' = FALSE
  /\ UNCHANGED uncertain
  /\ IF pending = None
     THEN UNCHANGED <<pending, phase, reply>>
     ELSE Conclude(pending, IF phase[pending] = "Running" THEN "uncertain"
                                                          ELSE "unavailable")

(* activate: retire, then accept.                                          *)
Activate ==
  /\ accepting' = TRUE
  /\ UNCHANGED uncertain
  /\ IF pending = None
     THEN UNCHANGED <<pending, phase, reply>>
     ELSE Conclude(pending, IF phase[pending] = "Running" THEN "uncertain"
                                                          ELSE "unavailable")

(* Fault: the phase is not looked at, so a dispatched request is withdrawn.*)
CancelQueuedAnyPhase(r) ==
  /\ IF pending = r THEN Conclude(r, "cancelled") ELSE UNCHANGED <<pending, phase, reply>>
  /\ UNCHANGED <<accepting, uncertain>>

(* cancel_queued: withdraws an undispatched request, inert afterwards.     *)
CancelQueued(r) ==
  /\ IF pending = r /\ phase[r] \in Unsent
     THEN Conclude(r, "cancelled")
     ELSE UNCHANGED <<pending, phase, reply>>
  /\ UNCHANGED <<accepting, uncertain>>

(* Fault: the owner's result is reported as it is, however late.          *)
FinalResultAsIs(r, o) == o

(* What finish reports for a result computed by the owner: anything but a  *)
(* timely acknowledgement of a running request on an accepting mailbox is  *)
(* uncertain.                                                              *)
FinalResult(r, o) ==
  IF o # "uncertain" /\ (\/ r \in uncertain
                         \/ ~accepting
                         \/ o = "ok" /\ (phase[r] # "Running" \/ r \in late))
  THEN "uncertain" ELSE o

(* Fault: a failed request is answered but left in the slot.               *)
FinishRequestKeepsSlot(r, o) ==
  IF pending = r /\ phase[r] \in {"Claimed", "Running"}
  THEN LET final == FinalResult(r, o) IN
       /\ reply' = [reply EXCEPT ![r] = final]
       /\ committed' = IF final = "ok" THEN committed \cup {r} ELSE committed
       /\ UNCHANGED <<accepting, uncertain, pending, phase>>
  ELSE UNCHANGED <<mailbox, committed>>

(* finish: ignored when the slot has changed hands. The commit closure     *)
(* runs before the reply is published.                                     *)
FinishRequest(r, o) ==
  IF pending = r /\ phase[r] \in {"Claimed", "Running"}
  THEN LET final == FinalResult(r, o) IN
       /\ Conclude(r, final)
       /\ accepting' = (accepting /\ final # "uncertain")
       /\ committed' = IF final = "ok" THEN committed \cup {r} ELSE committed
       /\ UNCHANGED uncertain
  ELSE UNCHANGED <<mailbox, committed>>

-----------------------------------------------------------------------------
(* Clients                                                                 *)

Told(r, o) == client' = [client EXCEPT ![r] = o]

(* cooling::validate, on the shared status.                                *)
Admitted(r) == available /\ r \in limits

(* submit, first half: validation against the published status.            *)
SubmitValidate(r) ==
  /\ client[r] = "new"
  /\ Told(r, IF ~available THEN "unavailable"
             ELSE IF r \notin limits THEN "invalid" ELSE "validated")
  /\ UNCHANGED <<mailbox, late, session, owner, sent, committed>>

(* submit, second half: the slot, under the mailbox lock.                  *)
SubmitReserve(r) ==
  /\ client[r] = "validated"
  /\ IF accepting /\ pending = None
     THEN /\ pending' = r
          /\ phase' = [phase EXCEPT ![r] = "Queued"]
          /\ Told(r, "waiting")
     ELSE /\ Told(r, IF accepting THEN "busy" ELSE "unavailable")
          /\ UNCHANGED <<pending, phase>>
  /\ UNCHANGED <<accepting, uncertain, reply, late, session, owner, sent, committed>>

(* CoolingReceipt::wait, reply branch.                                     *)
WaitReply(r) ==
  /\ client[r] = "waiting"
  /\ reply[r] # "none"
  /\ Told(r, reply[r])
  /\ UNCHANGED <<mailbox, late, session, owner, sent, committed>>

(* CoolingReceipt::wait, deadline branch: Mailbox::expire. A dispatched    *)
(* request keeps its slot; its client is told it is uncertain.             *)
WaitExpire(r) ==
  /\ client[r] = "waiting"
  /\ r \in late
  /\ pending = r
  /\ IF phase[r] \in Unsent
     THEN /\ Conclude(r, "expired")
          /\ Told(r, "expired")
          /\ UNCHANGED <<accepting, uncertain>>
     ELSE /\ uncertain' = uncertain \cup {r}
          /\ accepting' = FALSE
          /\ Told(r, "uncertain")
          /\ UNCHANGED <<pending, phase, reply>>
  /\ UNCHANGED <<late, session, owner, sent, committed>>

(* CoolingCancellation::cancel_before_dispatch.                            *)
CancelBeforeDispatch(r) ==
  /\ client[r] = "waiting"
  /\ CancelQueued(r)
  /\ UNCHANGED <<client, late, session, owner, sent, committed>>

(* Drop for CoolingReceipt, before an outcome was read.                    *)
DropReceipt(r) ==
  /\ client[r] = "waiting"
  /\ CancelQueued(r)
  /\ Told(r, "dropped")
  /\ UNCHANGED <<late, session, owner, sent, committed>>

(* The clock passes the request's deadline.                                *)
DeadlinePasses(r) ==
  /\ client[r] # "new"
  /\ r \notin late
  /\ late' = late \cup {r}
  /\ UNCHANGED <<mailbox, client, session, owner, sent, committed>>

-----------------------------------------------------------------------------
(* The Session owner                                                       *)

ReturnIdle == pc' = "idle" /\ cur' = None /\ result' = "none" /\ cancelled' = FALSE

(* service_cooling_with: claim. An overdue request is answered instead.    *)
Claim ==
  /\ pc = "idle"
  /\ pending # None
  /\ phase[pending] = "Queued"
  /\ IF pending \in late
     THEN Conclude(pending, "expired") /\ UNCHANGED <<pc, cur>>
     ELSE /\ phase' = [phase EXCEPT ![pending] = "Claimed"]
          /\ pc' = "claimed"
          /\ cur' = pending
          /\ UNCHANGED <<pending, reply>>
  /\ UNCHANGED <<accepting, uncertain, client, late, session, result, cancelled,
                 sent, committed>>

(* Fault: the owner trusts the validation made at submission.              *)
CheckTrustsSubmit ==
  /\ pc = "claimed"
  /\ IF ~cancelled /\ cur \notin late
     THEN pc' = "checked" /\ UNCHANGED <<mailbox, cur, result, cancelled, committed>>
     ELSE /\ FinishRequest(cur, IF cancelled THEN "cancelled" ELSE "expired")
          /\ ReturnIdle
  /\ UNCHANGED <<client, late, session, sent>>

(* The owner's own checks between claim and dispatch: validation against   *)
(* the capabilities of the worker it now has, the token, the deadline.     *)
Check ==
  /\ pc = "claimed"
  /\ IF Admitted(cur) /\ ~cancelled /\ cur \notin late
     THEN pc' = "checked" /\ UNCHANGED <<mailbox, cur, result, cancelled, committed>>
     ELSE /\ FinishRequest(cur, IF ~available THEN "unavailable"
                                ELSE IF cur \notin limits THEN "invalid"
                                ELSE IF cancelled THEN "cancelled" ELSE "expired")
          /\ ReturnIdle
  /\ UNCHANGED <<client, late, session, sent>>

(* Fault: a request withdrawn since the claim is dispatched all the same.  *)
DispatchWithdrawn ==
  /\ pc = "checked"
  /\ pc' = "running"
  /\ UNCHANGED <<mailbox, client, late, session, cur, result, cancelled, sent, committed>>

(* Mailbox::dispatch: the last point at which a request can be withdrawn.  *)
Dispatch ==
  /\ pc = "checked"
  /\ IF pending # cur \/ phase[cur] # "Claimed" \/ ~accepting
     THEN ReturnIdle /\ UNCHANGED <<pending, phase, reply>>
     ELSE IF cur \in late
     THEN ReturnIdle /\ Conclude(cur, "expired")
     ELSE /\ phase' = [phase EXCEPT ![cur] = "Running"]
          /\ pc' = "running"
          /\ UNCHANGED <<pending, reply, cur, result, cancelled>>
  /\ UNCHANGED <<accepting, uncertain, client, late, session, sent, committed>>

(* write_control hands `result` to finish.                                 *)
Computed(o) == pc' = "finishing" /\ result' = o /\ UNCHANGED <<cur, cancelled>>

(* The `set` exchange is never started: the biased select saw the token    *)
(* (and kills the untouched process), or the deadline passed first.        *)
SetUnsent ==
  /\ pc = "running"
  /\ \/ cancelled /\ Computed("cancelled") /\ worker' = "killed"
     \/ ~cancelled /\ cur \in late /\ Computed("expired") /\ UNCHANGED worker
  /\ UNCHANGED <<mailbox, client, late, available, limits, sent, committed>>

(* The `set` frame is written; a killed worker never gets it.              *)
SetSent ==
  /\ pc = "running"
  /\ ~cancelled
  /\ cur \notin late
  /\ pc' = "sent"
  /\ sent' = IF worker = "live" THEN sent \cup {cur} ELSE sent
  /\ UNCHANGED <<mailbox, client, late, session, cur, result, cancelled, committed>>

(* The reply to `set`: an acknowledgement, or any failure after dispatch,  *)
(* which is uncertain and retires the process.                             *)
SetReply ==
  /\ pc = "sent"
  /\ \/ /\ cur \in sent
        /\ ~cancelled
        /\ pc' = "acked"
        /\ UNCHANGED <<worker, cur, result, cancelled>>
     \/ Computed("uncertain") /\ worker' = "killed"
  /\ UNCHANGED <<mailbox, client, late, available, limits, sent, committed>>

(* The readback: a matching value before the deadline, or uncertain.       *)
Readback ==
  /\ pc = "acked"
  /\ \/ ~cancelled /\ cur \notin late /\ Computed("ok")
     \/ Computed("uncertain")
  /\ UNCHANGED <<mailbox, client, late, session, sent, committed>>

(* finish. An uncertain outcome goes on to control_result's invalidate;    *)
(* a cancelled one returns without it.                                     *)
Finish ==
  /\ pc = "finishing"
  /\ FinishRequest(cur, result)
  /\ IF FinalResult(cur, result) = "uncertain"
     THEN pc' = "invalidating" /\ UNCHANGED <<cur, result, cancelled>>
     ELSE ReturnIdle
  /\ UNCHANGED <<client, late, session, sent>>

(* invalidate, from control_result or from any other failed owner call.    *)
Invalidate ==
  /\ \/ pc = "invalidating"
     \/ pc = "opening"
     \/ pc = "idle" /\ worker # "none"
  /\ Retire
  /\ ReturnIdle
  /\ available' = FALSE
  /\ worker' = "none"
  /\ UNCHANGED <<client, late, limits, sent, committed>>

(* open_worker: a new process publishes its (possibly different)           *)
(* capabilities and its availability ...                                   *)
OpenPublish ==
  /\ pc = "idle"
  /\ worker = "none"
  /\ worker' = "live"
  /\ available' = TRUE
  /\ limits' \in SUBSET Requests
  /\ pc' = "opening"
  /\ UNCHANGED <<mailbox, client, late, cur, result, cancelled, sent, committed>>

(* ... and only then activates the mailbox.                                *)
OpenActivate ==
  /\ pc = "opening"
  /\ Activate
  /\ pc' = "idle"
  /\ UNCHANGED <<client, late, session, cur, result, cancelled, sent, committed>>

(* The frontend cancels the token of the owner's call.                     *)
CancelToken ==
  /\ pc \in {"claimed", "checked", "running", "sent", "acked"}
  /\ ~cancelled
  /\ cancelled' = TRUE
  /\ UNCHANGED <<mailbox, client, late, session, pc, cur, result, sent, committed>>

(* The worker process dies on its own.                                     *)
WorkerDies ==
  /\ worker = "live"
  /\ worker' = "killed"
  /\ UNCHANGED <<mailbox, client, late, available, limits, owner, sent, committed>>

(* Drop for Session: the owner task is abandoned wherever it was.          *)
DropSession ==
  /\ pc # "gone"
  /\ Retire
  /\ pc' = "gone"
  /\ cur' = None
  /\ result' = "none"
  /\ cancelled' = FALSE
  /\ worker' = "none"
  /\ UNCHANGED <<client, late, available, limits, sent, committed>>

-----------------------------------------------------------------------------
Client(r) == \/ SubmitValidate(r) \/ SubmitReserve(r)
             \/ WaitReply(r) \/ WaitExpire(r)
             \/ CancelBeforeDispatch(r) \/ DropReceipt(r)

Exchange == Dispatch \/ SetUnsent \/ SetSent \/ SetReply \/ Readback \/ Finish

Next == \/ \E r \in Requests : Client(r) \/ DeadlinePasses(r)
        \/ Claim \/ Check \/ Exchange
        \/ Invalidate \/ OpenPublish \/ OpenActivate
        \/ CancelToken \/ WorkerDies \/ DropSession

(* Time passes, a waiting receipt is polled, and the owner's service call  *)
(* is bounded by its deadline and so returns. Nothing obliges a client to  *)
(* submit, nor the owner to start servicing.                               *)
Fairness == /\ \A r \in Requests : /\ WF_vars(DeadlinePasses(r))
                                   /\ WF_vars(WaitReply(r))
                                   /\ WF_vars(WaitExpire(r))
            /\ WF_vars(Check \/ Exchange)

Spec == Init /\ [][Next]_vars /\ Fairness

-----------------------------------------------------------------------------
(* Properties                                                              *)

Exchanging == {"running", "sent", "acked", "finishing"}

(* Slot, phase, reply and the owner's position agree: a request is in the  *)
(* slot exactly while it is undecided, its reply is sent exactly when it   *)
(* is finished, and it runs exactly while the owner exchanges it.          *)
SlotInv ==
  /\ \A r \in Requests : pending = r <=> phase[r] \in Unsent \cup {"Running"}
  /\ \A r \in Requests : reply[r] # "none" <=> phase[r] = "Finished"
  /\ \A r \in Requests : phase[r] = "Running" <=> (cur = r /\ pc \in Exchanging)
  /\ pc \in {"claimed", "checked"} \cup Exchanging => cur \in Requests
  /\ pc = "finishing" => result # "none"

(* What has been written, by how far its exchange has come.                *)
SentInv ==
  /\ \A r \in sent : \/ phase[r] = "Running"
                      \/ reply[r] \in {"ok", "uncertain"}
  /\ pc = "running" => cur \notin sent
  /\ pc = "acked" => cur \in sent
  /\ pc = "finishing" => /\ result = "ok" => cur \in sent
                         /\ result \in {"expired", "cancelled"} => cur \notin sent

(* What a client was told, against the request's own outcome.              *)
ClientInv ==
  /\ \A r \in Requests : phase[r] = "new" =>
        client[r] \in {"new", "validated", "busy", "unavailable", "invalid"}
  /\ \A r \in Requests : phase[r] # "new" =>
        \/ client[r] \in {"waiting", "dropped"}
        \/ client[r] = "uncertain" /\ r \in uncertain
        \/ client[r] = reply[r]
  /\ \A r \in uncertain : reply[r] \in {"none", "uncertain"} /\ phase[r] # "new"
  /\ \A r \in uncertain : phase[r] \notin Unsent
  /\ \A r \in Requests : reply[r] = "ok" <=> r \in committed
  /\ committed \subseteq sent

(* The mailbox is consistent in every state (cooling.rs keeps slot, phase  *)
(* and reply in step under one lock, and the owner never loses a           *)
(* dispatched request): the inductive invariant of this module.            *)
MailboxInv == TypeOK /\ SlotInv /\ SentInv /\ ClientInv

(* Session records a value as applied exactly when the client is given an  *)
(* ok: a client that was told "uncertain" never sees its value committed   *)
(* behind its back by the acknowledgement that arrives later (finish).     *)
CommitMatchesOutcome ==
  /\ \A r \in Requests : client[r] = "ok" => r \in committed /\ r \in sent
  /\ \A r \in committed : client[r] \in {"ok", "waiting", "dropped"}

(* Only a value that the capabilities of the current worker admit is ever  *)
(* written to it: a client's validation may predate a replacement worker   *)
(* with other limits, so the owner validates again (session.rs:291).       *)
WritesWithinLimits == [][\A r \in sent' \ sent : r \in limits]_vars

(* Once an outcome is in doubt nothing more is written until the worker    *)
(* has been replaced: a verdict of "uncertain", by expiry, by finish or by *)
(* retire, closes the mailbox in the same step, nothing is written while   *)
(* it is closed, and only open_worker opens it again.                      *)
UncertaintyFences ==
  [][/\ (\E r \in Requests : reply[r] # "uncertain" /\ reply'[r] = "uncertain")
           \/ uncertain' # uncertain
        => ~accepting'
     /\ sent' # sent => accepting
     /\ ~accepting /\ accepting' => pc = "opening" /\ worker # "none"]_vars

(* Every client that reserved the slot gets an outcome, whatever the owner *)
(* does: the deadline is enforced by the receipt itself.                   *)
EveryReceiptResolves ==
  \A r \in Requests : client[r] = "waiting" ~> client[r] # "waiting"

(* A dispatched command does not keep the slot for ever.                   *)
SlotIsFreed ==
  \A r \in Requests : (pending = r /\ phase[r] = "Running") ~> (pending # r)

(* Nothing is written that the worker must not have: neither a value out of*)
(* the limits of the worker in place, however long ago its client had it   *)
(* validated, nor anything after an outcome that is in doubt.              *)
OnlyDueWrites == WritesWithinLimits /\ UncertaintyFences

(* The slot never blocks for good: its client gets an outcome, and the next*)
(* command gets the slot (cooling.rs wait, finish, retire).                *)
MailboxLive == EveryReceiptResolves /\ SlotIsFreed

(* The mailbox keeps the contract of an acknowledged command: in           *)
(* particular a client told that its command did not happen (busy,         *)
(* unavailable, expired, cancelled, invalid) is right and stays right,     *)
(* although expire, cancel_queued, retire, claim and dispatch race for it. *)
OutcomeOf(r) == CASE client[r] \in {"new", "validated", "waiting"} -> "none"
                  [] client[r] \in Refusals -> "refused"
                  [] client[r] = "uncertain" -> "unknown"
                  [] client[r] = "ok" -> "ok"
                  [] client[r] = "dropped" -> "dropped"
Contract == INSTANCE CommandContract WITH
  Commands <- Requests,
  applied  <- sent,
  outcome  <- [r \in Requests |-> OutcomeOf(r)]
ImplementsContract == Contract!Spec
=============================================================================
