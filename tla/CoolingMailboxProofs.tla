------------------------ MODULE CoolingMailboxProofs ------------------------
(***************************************************************************)
(* Proofs about CoolingMailbox for any set of requests: the consistency    *)
(* invariant MailboxInv is inductive, it gives CommitMatchesOutcome, and   *)
(* every step is a step of CommandContract under the refinement mapping.   *)
(***************************************************************************)
EXTENDS CoolingMailbox, TLAPS

(* The mailbox starts consistent: nothing submitted, nothing sent.         *)
LEMMA InitMailbox == Init => MailboxInv
BY NoneAssumption
   DEF Init, MailboxInv, TypeOK, SlotInv, SentInv, ClientInv, Phases, Unsent,
       Outcomes, Refusals, OwnerPcs, Exchanging

(* Answering a request keeps slot, phases and replies well-typed.          *)
LEMMA ConcludeTypes ==
  ASSUME TypeOK, NEW r \in Requests, NEW o \in Outcomes, Conclude(r, o)
  PROVE  /\ pending' \in Requests \cup {None}
         /\ phase' \in [Requests -> Phases]
         /\ reply' \in [Requests -> {"none"} \cup Outcomes]
BY DEF TypeOK, Conclude, Phases

(* A client step (submit, wait, cancel, drop) keeps the mailbox consistent.*)
LEMMA ClientStep ==
  ASSUME MailboxInv, NEW r \in Requests, Client(r)
  PROVE  MailboxInv'
<1> USE NoneAssumption
    DEF MailboxInv, TypeOK, SlotInv, SentInv, ClientInv, Phases, Unsent, Outcomes,
        Refusals, OwnerPcs, Exchanging, mailbox, session, owner, Told
<1>1. CASE SubmitValidate(r)
  BY <1>1 DEF SubmitValidate
<1>2. CASE SubmitReserve(r)
  BY <1>2 DEF SubmitReserve
<1>3. CASE WaitReply(r)
  BY <1>3 DEF WaitReply
<1>4. CASE WaitExpire(r)
  <2>1. TypeOK'
    <3>1. accepting' \in BOOLEAN /\ available' \in BOOLEAN /\ cancelled' \in BOOLEAN
      BY <1>4, Zenon DEF WaitExpire
    <3> QED
      BY <1>4, <3>1, ConcludeTypes DEF WaitExpire
  <2>2. SlotInv'
    BY <1>4 DEF WaitExpire, Conclude
  <2>3. SentInv'
    BY <1>4 DEF WaitExpire, Conclude
  <2>4. ClientInv'
    BY <1>4 DEF WaitExpire, Conclude
  <2> QED
    BY <2>1, <2>2, <2>3, <2>4
<1>5. CASE CancelBeforeDispatch(r)
  BY <1>5 DEF CancelBeforeDispatch, CancelQueued, Conclude
<1>6. CASE DropReceipt(r)
  BY <1>6 DEF DropReceipt, CancelQueued, Conclude
<1> QED
  BY <1>1, <1>2, <1>3, <1>4, <1>5, <1>6 DEF Client

(* An owner step (claim, exchange, finish, invalidate, open, drop) does.   *)
LEMMA OwnerStep ==
  ASSUME MailboxInv,
         \/ Claim \/ Check \/ Exchange \/ Invalidate \/ OpenPublish
         \/ OpenActivate \/ CancelToken \/ WorkerDies \/ DropSession
  PROVE  MailboxInv'
<1> USE NoneAssumption
    DEF MailboxInv, TypeOK, SlotInv, SentInv, ClientInv, Phases, Unsent, Outcomes,
        Refusals, OwnerPcs, Exchanging, mailbox, session, owner, ReturnIdle
<1>1. CASE Claim
  BY <1>1 DEF Claim, Conclude
<1>2. CASE Check
  <2>1. TypeOK'
    <3>1. accepting' \in BOOLEAN /\ available' \in BOOLEAN /\ cancelled' \in BOOLEAN
      BY <1>2, Zenon DEF Check, FinishRequest, FinalResult
    <3> QED
      BY <1>2, <3>1, ConcludeTypes DEF Check, FinishRequest, FinalResult
  <2>2. SlotInv'
    BY <1>2 DEF Check, FinishRequest, FinalResult, Conclude
  <2>3. SentInv'
    BY <1>2 DEF Check, FinishRequest, FinalResult, Conclude
  <2>4. ClientInv'
    BY <1>2 DEF Check, FinishRequest, FinalResult, Conclude
  <2> QED
    BY <2>1, <2>2, <2>3, <2>4
<1>3. CASE Dispatch
  <2>1. TypeOK'
    <3>1. accepting' \in BOOLEAN /\ available' \in BOOLEAN /\ cancelled' \in BOOLEAN
      BY <1>3, Zenon DEF Dispatch
    <3> QED
      BY <1>3, <3>1, ConcludeTypes DEF Dispatch
  <2>2. SlotInv'
    BY <1>3 DEF Dispatch, Conclude
  <2>3. SentInv'
    BY <1>3 DEF Dispatch, Conclude
  <2>4. ClientInv'
    BY <1>3 DEF Dispatch, Conclude
  <2> QED
    BY <2>1, <2>2, <2>3, <2>4
<1>4. CASE SetUnsent
  BY <1>4 DEF SetUnsent, Computed
<1>5. CASE SetSent
  BY <1>5 DEF SetSent
<1>6. CASE SetReply
  BY <1>6 DEF SetReply, Computed
<1>7. CASE Readback
  BY <1>7 DEF Readback, Computed
<1>8. CASE Finish
  <2>1. TypeOK'
    <3>1. accepting' \in BOOLEAN /\ available' \in BOOLEAN /\ cancelled' \in BOOLEAN
      BY <1>8, Zenon DEF Finish, FinishRequest, FinalResult
    <3> QED
      BY <1>8, <3>1, ConcludeTypes DEF Finish, FinishRequest, FinalResult
  <2>2. SlotInv'
    BY <1>8 DEF Finish, FinishRequest, FinalResult, Conclude
  <2>3. SentInv'
    BY <1>8 DEF Finish, FinishRequest, FinalResult, Conclude
  <2>4. ClientInv'
    BY <1>8 DEF Finish, FinishRequest, FinalResult, Conclude
  <2> QED
    BY <2>1, <2>2, <2>3, <2>4
<1>9. CASE Invalidate
  <2>1. TypeOK'
    <3>1. accepting' \in BOOLEAN /\ available' \in BOOLEAN /\ cancelled' \in BOOLEAN
      BY <1>9, Zenon DEF Invalidate, Retire
    <3> QED
      BY <1>9, <3>1, ConcludeTypes DEF Invalidate, Retire
  <2>2. SlotInv'
    BY <1>9 DEF Invalidate, Retire, Conclude
  <2>3. SentInv'
    BY <1>9 DEF Invalidate, Retire, Conclude
  <2>4. ClientInv'
    BY <1>9 DEF Invalidate, Retire, Conclude
  <2> QED
    BY <2>1, <2>2, <2>3, <2>4
<1>10. CASE OpenPublish
  BY <1>10 DEF OpenPublish
<1>11. CASE OpenActivate
  BY <1>11 DEF OpenActivate, Activate, Conclude
<1>12. CASE CancelToken
  BY <1>12 DEF CancelToken
<1>13. CASE WorkerDies
  BY <1>13 DEF WorkerDies
<1>14. CASE DropSession
  <2>1. TypeOK'
    <3>1. accepting' \in BOOLEAN /\ available' \in BOOLEAN /\ cancelled' \in BOOLEAN
      BY <1>14, Zenon DEF DropSession, Retire
    <3> QED
      BY <1>14, <3>1, ConcludeTypes DEF DropSession, Retire
  <2>2. SlotInv'
    BY <1>14 DEF DropSession, Retire, Conclude
  <2>3. SentInv'
    BY <1>14 DEF DropSession, Retire, Conclude
  <2>4. ClientInv'
    BY <1>14 DEF DropSession, Retire, Conclude
  <2> QED
    BY <2>1, <2>2, <2>3, <2>4
<1> QED
  BY <1>1, <1>2, <1>3, <1>4, <1>5, <1>6, <1>7, <1>8, <1>9, <1>10, <1>11, <1>12,
     <1>13, <1>14 DEF Exchange

(* So does the passing of a deadline, and doing nothing.                   *)
LEMMA TimeStep ==
  ASSUME MailboxInv, NEW r \in Requests, DeadlinePasses(r)
  PROVE  MailboxInv'
BY DEF MailboxInv, TypeOK, SlotInv, SentInv, ClientInv, mailbox, session, owner,
       DeadlinePasses

(* Nothing happens.                                                        *)
LEMMA StutterStep ==
  ASSUME MailboxInv, UNCHANGED vars
  PROVE  MailboxInv'
BY DEF MailboxInv, TypeOK, SlotInv, SentInv, ClientInv, vars, mailbox, session, owner

(* The mailbox stays consistent: slot, phase, reply, client and the        *)
(* owner's exchange agree in every reachable state (cooling.rs).           *)
THEOREM MailboxCorrect == Spec => []MailboxInv
<1>1. Init => MailboxInv
  BY InitMailbox
<1>2. MailboxInv /\ [Next]_vars => MailboxInv'
  BY ClientStep, OwnerStep, TimeStep, StutterStep DEF Next
<1> QED
  BY <1>1, <1>2, PTL DEF Spec

(* A value is recorded as applied exactly for a client that is told ok,    *)
(* never for one that was told the outcome is uncertain (finish).          *)
THEOREM CommitTheorem == Spec => []CommitMatchesOutcome
<1>1. MailboxInv => CommitMatchesOutcome
  BY DEF MailboxInv, TypeOK, SlotInv, ClientInv, CommitMatchesOutcome
<1> QED
  BY <1>1, MailboxCorrect, PTL

-----------------------------------------------------------------------------
(* Only due writes                                                         *)

(* What holds of a request between the owner's checks and the write: the   *)
(* current worker admits its value, and while its deadline has not passed  *)
(* the mailbox that dispatched it still accepts, because only an expired   *)
(* receipt closes the mailbox behind the owner's back.                     *)
WriteInv ==
  /\ pc \in {"checked", "running"} => cur \in limits
  /\ pc = "running" /\ cur \notin late => accepting
  /\ pc = "opening" => worker # "none"

(* Every step keeps it.                                                    *)
LEMMA WriteInvStep ==
  ASSUME MailboxInv, WriteInv, [Next]_vars
  PROVE  WriteInv'
<1> USE NoneAssumption
    DEF MailboxInv, SlotInv, WriteInv, Unsent, Exchanging, mailbox, session, owner,
        ReturnIdle, Computed
<1>1. ASSUME NEW r \in Requests, Client(r)
      PROVE  WriteInv'
  BY <1>1 DEF Client, SubmitValidate, SubmitReserve, WaitReply, WaitExpire,
              CancelBeforeDispatch, DropReceipt, CancelQueued
<1>2. ASSUME NEW r \in Requests, DeadlinePasses(r)
      PROVE  WriteInv'
  BY <1>2 DEF DeadlinePasses
<1>3. CASE Claim \/ Check
  BY <1>3 DEF Claim, Check, Admitted
<1>4. CASE Dispatch
  BY <1>4 DEF Dispatch
<1>5. CASE SetUnsent \/ SetSent \/ SetReply \/ Readback \/ Finish
  BY <1>5 DEF SetUnsent, SetSent, SetReply, Readback, Finish
<1>6. CASE Invalidate \/ DropSession
  BY <1>6 DEF Invalidate, DropSession
<1>7. CASE OpenPublish \/ OpenActivate
  BY <1>7 DEF OpenPublish, OpenActivate
<1>8. CASE CancelToken \/ WorkerDies \/ UNCHANGED vars
  BY <1>8 DEF CancelToken, WorkerDies, vars
<1> QED
  BY <1>1, <1>2, <1>3, <1>4, <1>5, <1>6, <1>7, <1>8 DEF Next, Exchange

(* The verdict "uncertain" and the closing of the mailbox are one step.    *)
LEMMA DoubtCloses ==
  ASSUME MailboxInv, [Next]_vars,
         \/ uncertain' # uncertain
         \/ \E r \in Requests : reply[r] # "uncertain" /\ reply'[r] = "uncertain"
  PROVE  ~accepting'
<1> USE NoneAssumption
    DEF MailboxInv, TypeOK, SlotInv, Unsent, Exchanging, mailbox, session, owner, Conclude
<1>1. ASSUME NEW r \in Requests, Client(r)
      PROVE  ~accepting'
  BY <1>1 DEF Client, SubmitValidate, SubmitReserve, WaitReply, WaitExpire,
              CancelBeforeDispatch, DropReceipt, CancelQueued
<1>2. CASE Claim
  BY <1>2 DEF Claim
<1>3. CASE Dispatch
  BY <1>3 DEF Dispatch
<1>4. ASSUME NEW o \in Outcomes \ {"uncertain"}, FinishRequest(cur, o)
      PROVE  ~accepting'
  <2>1. pending = cur /\ phase[cur] \in {"Claimed", "Running"} /\ cur \in Requests
    BY <1>4 DEF FinishRequest
  <2> QED
    BY <1>4, <2>1 DEF FinishRequest, FinalResult
<1>5. CASE Finish
  BY <1>5 DEF Finish, FinishRequest, FinalResult
<1>6. CASE Check
  BY <1>4, <1>6 DEF Check, Outcomes, Refusals
<1>7. CASE Invalidate \/ DropSession
  BY <1>7 DEF Invalidate, DropSession, Retire
<1>8. CASE OpenActivate
  <2>1. pending # None => phase[pending] # "Running"
    BY <1>8 DEF OpenActivate
  <2> QED
    BY <1>8, <2>1 DEF OpenActivate, Activate
<1>9. CASE \/ \E r \in Requests : DeadlinePasses(r)
           \/ SetUnsent \/ SetSent \/ SetReply \/ Readback \/ OpenPublish
           \/ CancelToken \/ WorkerDies \/ UNCHANGED vars
  BY <1>9 DEF DeadlinePasses, SetUnsent, SetSent, SetReply, Readback, OpenPublish,
              CancelToken, WorkerDies, vars
<1> QED
  BY <1>1, <1>2, <1>3, <1>5, <1>6, <1>7, <1>8, <1>9 DEF Next, Exchange

(* Only the owner's exchange writes, and what it writes is due.            *)
LEMMA DueWriteStep ==
  ASSUME MailboxInv, WriteInv, [Next]_vars, sent' # sent
  PROVE  accepting /\ \A r \in sent' \ sent : r \in limits
<1>1. SetSent
  BY DEF Next, Exchange, Client, SubmitValidate, SubmitReserve, WaitReply, WaitExpire,
         CancelBeforeDispatch, DropReceipt, DeadlinePasses, Claim, Check, Dispatch,
         SetUnsent, SetReply, Readback, Finish, Invalidate, OpenPublish, OpenActivate,
         CancelToken, WorkerDies, DropSession, vars
<1> QED
  BY <1>1 DEF SetSent, WriteInv

(* Only open_worker opens a closed mailbox.                                *)
LEMMA ReopenStep ==
  ASSUME MailboxInv, WriteInv, [Next]_vars, ~accepting, accepting'
  PROVE  pc = "opening" /\ worker # "none"
<1>1. OpenActivate
  BY DEF Next, Exchange, Client, SubmitValidate, SubmitReserve, WaitReply, WaitExpire,
         CancelBeforeDispatch, DropReceipt, CancelQueued, DeadlinePasses, Claim, Check,
         FinishRequest, Dispatch, SetUnsent, SetSent, SetReply, Readback, Finish, Retire,
         Invalidate, OpenPublish, CancelToken, WorkerDies, DropSession, vars, mailbox
<1> QED
  BY <1>1 DEF OpenActivate, WriteInv

(* The worker is written only what its own limits admit, and nothing after *)
(* an outcome in doubt until open_worker replaced it (session.rs           *)
(* write_control, cooling.rs finish, expire, retire, activate).            *)
THEOREM OnlyDueWritesHold == Spec => OnlyDueWrites
<1>1. Init => WriteInv
  BY DEF Init, WriteInv
<1>2. MailboxInv /\ WriteInv /\ [Next]_vars => WriteInv'
  BY WriteInvStep
<1>3. MailboxInv /\ WriteInv /\ [Next]_vars =>
        [\A r \in sent' \ sent : r \in limits]_vars
  BY DueWriteStep DEF vars
<1>4. MailboxInv /\ WriteInv /\ [Next]_vars =>
        [/\ (\E r \in Requests : reply[r] # "uncertain" /\ reply'[r] = "uncertain")
               \/ uncertain' # uncertain
             => ~accepting'
         /\ sent' # sent => accepting
         /\ ~accepting /\ accepting' => pc = "opening" /\ worker # "none"]_vars
  BY DoubtCloses, DueWriteStep, ReopenStep
<1> QED
  BY <1>1, <1>2, <1>3, <1>4, MailboxCorrect, PTL
     DEF Spec, OnlyDueWrites, WritesWithinLimits, UncertaintyFences

-----------------------------------------------------------------------------
(* Refinement of CommandContract                                           *)

(* Steps that tell no client anything and write nothing are stutters.      *)
LEMMA QuietStep ==
  ASSUME UNCHANGED <<client, sent>>
  PROVE  UNCHANGED Contract!vars
BY DEF Contract!vars, OutcomeOf

(* Telling one client something is a step of the contract, or a stutter.   *)
LEMMA TellStep ==
  ASSUME MailboxInv, NEW r \in Requests, Client(r)
  PROVE  [Contract!Next]_(Contract!vars)
<1> USE DEF MailboxInv, TypeOK, SlotInv, SentInv, ClientInv, Phases, Unsent, Outcomes,
            Refusals, OwnerPcs, Exchanging, mailbox, session, owner, Told
<1> DEFINE out == [q \in Requests |-> OutcomeOf(q)]
<1>1. sent' = sent
  BY DEF Client, SubmitValidate, SubmitReserve, WaitReply, WaitExpire,
         CancelBeforeDispatch, DropReceipt
<1>2. client' = client \/ client' = [client EXCEPT ![r] = client'[r]]
  BY DEF Client, SubmitValidate, SubmitReserve, WaitReply, WaitExpire,
         CancelBeforeDispatch, DropReceipt
<1>3. client' # client =>
         /\ client[r] \in {"new", "validated", "waiting"}
         /\ \/ client'[r] \in {"validated", "waiting", "dropped", "uncertain"}
            \/ client'[r] \in Refusals /\ r \notin sent
            \/ client'[r] = "ok" /\ r \in sent
  BY DEF Client, SubmitValidate, SubmitReserve, WaitReply, WaitExpire,
         CancelBeforeDispatch, DropReceipt
<1>4. CASE client' = client
  BY <1>1, <1>4, QuietStep
<1>5. CASE client' # client
  <2>0. \A q \in Requests : q # r => OutcomeOf(q)' = OutcomeOf(q)
    <3>1. \A q \in Requests : q # r => client'[q] = client[q]
      BY <1>2, <1>5
    <3> QED
      BY <3>1 DEF OutcomeOf
  <2>1. out' = [out EXCEPT ![r] = OutcomeOf(r)']
    BY <2>0
  <2>2. OutcomeOf(r) = "none"
    BY <1>3, <1>5 DEF OutcomeOf
  <2>3. CASE client'[r] \in {"validated", "waiting"}
    <3>1. OutcomeOf(r)' = "none"
      BY <2>3 DEF OutcomeOf
    <3>2. out' = out
      BY <2>2, <2>0, <3>1
    <3> QED
      BY <1>1, <3>2 DEF Contract!vars
  <2>4. CASE client'[r] = "dropped"
    <3>1. Contract!GiveUp(r)
      BY <1>1, <2>1, <2>2, <2>4 DEF Contract!GiveUp, Contract!Tell, OutcomeOf
    <3> QED
      BY <3>1 DEF Contract!Next
  <2>5. CASE client'[r] = "uncertain"
    <3>1. Contract!Lose(r)
      BY <1>1, <2>1, <2>2, <2>5 DEF Contract!Lose, Contract!Tell, OutcomeOf
    <3> QED
      BY <3>1 DEF Contract!Next
  <2>6. CASE client'[r] \in Refusals /\ r \notin sent
    <3>1. Contract!Refuse(r)
      BY <1>1, <2>1, <2>2, <2>6 DEF Contract!Refuse, Contract!Tell, OutcomeOf
    <3> QED
      BY <3>1 DEF Contract!Next
  <2>7. CASE client'[r] = "ok" /\ r \in sent
    <3>1. Contract!Confirm(r)
      BY <1>1, <2>1, <2>2, <2>7 DEF Contract!Confirm, Contract!Tell, OutcomeOf
    <3> QED
      BY <3>1 DEF Contract!Next
  <2> QED
    BY <1>3, <1>5, <2>3, <2>4, <2>5, <2>6, <2>7
<1> QED
  BY <1>4, <1>5

(* Writing the `set` frame is the contract's Apply, or a stutter when the  *)
(* worker is gone.                                                         *)
LEMMA WriteStep ==
  ASSUME MailboxInv, SetSent
  PROVE  [Contract!Next]_(Contract!vars)
<1> USE DEF MailboxInv, TypeOK, SlotInv, SentInv, ClientInv, Phases, Unsent, Outcomes,
            Refusals, OwnerPcs, Exchanging, SetSent
<1>1. UNCHANGED client /\ cur \in Requests /\ cur \notin sent
  OBVIOUS
<1>2. CASE worker = "live"
  <2>1. OutcomeOf(cur) \in {"none", "unknown", "dropped"}
    BY DEF OutcomeOf
  <2>2. Contract!Apply(cur)
    BY <1>1, <1>2, <2>1 DEF Contract!Apply, OutcomeOf
  <2> QED
    BY <1>1, <2>2 DEF Contract!Next
<1>3. CASE worker # "live"
  BY <1>1, <1>3, QuietStep
<1> QED
  BY <1>2, <1>3

(* The mailbox and its owner implement the contract of an acknowledged     *)
(* command: what a client is told about its cooler command is true of what *)
(* the worker was sent, under every race of expiry, cancellation,          *)
(* retirement and dispatch.                                                *)
THEOREM MailboxImplementsContract == Spec => ImplementsContract
<1>1. Init => Contract!Init
  <2>1. Init => \A r \in Requests : OutcomeOf(r) = "none"
    BY DEF Init, OutcomeOf, Refusals
  <2> QED
    BY <2>1 DEF Init, Contract!Init
<1>2. MailboxInv /\ [Next]_vars => [Contract!Next]_(Contract!vars)
  <2> SUFFICES ASSUME MailboxInv, [Next]_vars PROVE [Contract!Next]_(Contract!vars)
    OBVIOUS
  <2>1. CASE \E r \in Requests : Client(r)
    BY <2>1, TellStep
  <2>2. CASE SetSent
    BY <2>2, WriteStep
  <2>3. CASE \/ \E r \in Requests : DeadlinePasses(r)
             \/ Claim \/ Check \/ Dispatch \/ SetUnsent \/ SetReply \/ Readback \/ Finish
             \/ Invalidate \/ OpenPublish \/ OpenActivate
             \/ CancelToken \/ WorkerDies \/ DropSession \/ UNCHANGED vars
    <3>1. UNCHANGED <<client, sent>>
      BY <2>3 DEF DeadlinePasses, Claim, Check, Dispatch, SetUnsent, SetReply, Readback,
                  Finish, Invalidate, OpenPublish, OpenActivate, CancelToken,
                  WorkerDies, DropSession, vars
    <3> QED
      BY <3>1, QuietStep
  <2> QED
    BY <2>1, <2>2, <2>3 DEF Next, Exchange
<1> QED
  BY <1>1, <1>2, MailboxCorrect, PTL DEF Spec, ImplementsContract, Contract!Spec
=============================================================================
