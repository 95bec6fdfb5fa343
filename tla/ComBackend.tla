---------------------------- MODULE ComBackend ----------------------------
(***************************************************************************)
(* A source behind a Windows driver: crates/regain-hub/src/com.rs and the  *)
(* worker process that holds the driver's object, src/Regain.Hub.ASCOM/    *)
(* ImportDriver.cs.  The backend asks one thing at a time; its caller may  *)
(* drop any request and reset it.  A worker that is lost is killed and a   *)
(* fresh one started: nobody knows then what the driver did last.          *)
(*                                                                         *)
(* What is read or written is left out; a connection is opened and closed  *)
(* in steps.  The activation of the object and the reading of its version  *)
(* are one step of the worker.                                             *)
(***************************************************************************)
EXTENDS Naturals

VARIABLES com,      \* ComBackend
          cwk,      \* the worker's ImportDriver
          cdev,     \* the device as its drivers see it
          creq,     \* the request in the pipe
          chist     \* what was lost, and what followed

comVars == <<com, cwk, cdev, creq, chist>>

Readings == {"read", "image"}
Mutations == {"write", "refresh"}
Steps == {"connectStep", "disconnectStep"}
NoReq == [op |-> "none", pc |-> "idle", val |-> FALSE, err |-> "none",
          owns |-> FALSE, unc |-> FALSE, ready |-> FALSE]
NoDriver == [alive |-> FALSE, phase |-> "Activate", owns |-> FALSE, unc |-> FALSE,
             wunc |-> FALSE]

ComInit ==
  /\ \E managed \in BOOLEAN : com = [managed |-> managed, worker |-> FALSE, whole |-> TRUE,
        ready |-> FALSE, unc |-> FALSE, disc |-> FALSE, since |-> FALSE,
        owns |-> FALSE, iunc |-> FALSE]
  /\ cwk = NoDriver
  /\ \E modern, connected \in BOOLEAN :
       cdev = [modern |-> modern, on |-> connected, busy |-> FALSE, claim |-> "none"]
  /\ creq = NoReq
  /\ chist = [doubt |-> FALSE, replayed |-> FALSE, rejected |-> FALSE, unclean |-> FALSE]

-----------------------------------------------------------------------------
(* The worker *)

\* A refusal proves that the driver did nothing.
Refusals == {"invalidValue", "unsupported"}
Faults == Refusals \cup {"disconnected", "permanent", "transient"}

\* A failed change of the connection: the object is of no more use.
ErrorOf(w, kind) ==
  [err |-> IF w.unc /\ kind \notin Refusals THEN "uncertain" ELSE kind,
   wk |-> [w EXCEPT !.phase = "Failed", !.unc = @ /\ kind \notin Refusals]]

\* A call of the driver; one that fails without refusing may have had effect.
Called(dev, on) ==
  [dev EXCEPT !.busy = dev.modern, !.on = IF dev.modern THEN @ ELSE on,
              !.claim = IF on THEN "mine" ELSE "none"]

Ends(op, w, dev, val, err) ==
  /\ cwk' = w /\ cdev' = dev
  /\ creq' = [op |-> op, pc |-> "answered", val |-> val, err |-> err, owns |-> w.owns,
              unc |-> w.unc, ready |-> w.phase = "Ready"]

Moves(w, dev, phase) == Ends("connectStep", [w EXCEPT !.phase = phase], dev, phase = "Ready", "none")
Throws(op, w, dev, kind) == Ends(op, ErrorOf(w, kind).wk, dev, FALSE, ErrorOf(w, kind).err)

\* Open and the closing call: doubt is armed before the driver is called.
Opens(w) ==
  LET armed == [w EXCEPT !.unc = TRUE] IN
  \/ Moves([w EXCEPT !.owns = TRUE], Called(cdev, TRUE),
           IF cdev.modern THEN "WaitOpen" ELSE "Verify")
  \/ \E kind \in Faults : Throws("connectStep", armed, cdev, kind)
  \/ \E kind \in Faults \ Refusals : Throws("connectStep", armed, Called(cdev, TRUE), kind)

Closes(w) ==
  LET armed == [w EXCEPT !.owns = FALSE, !.unc = TRUE] IN
  \/ Ends("disconnectStep",
          [w EXCEPT !.owns = FALSE, !.phase = IF cdev.modern THEN "WaitClose" ELSE "Closed"],
          Called(cdev, FALSE), ~cdev.modern, "none")
  \/ \E kind \in Faults : Throws("disconnectStep", armed, cdev, kind)
  \/ \E kind \in Faults \ Refusals : Throws("disconnectStep", armed, Called(cdev, FALSE), kind)

ConnectStep(w) ==
  \/ /\ w.phase \in {"Failed", "WaitClose", "Closed"} \/ w.unc
     /\ Throws("connectStep", w, cdev, "permanent")
  \/ /\ w.phase \notin {"Failed", "Open", "Ready", "WaitClose", "Closed"}
     /\ \E kind \in Faults : Throws("connectStep", w, cdev, kind)
  \/ w.phase = "Activate" /\ Moves(w, cdev, "Check")
  \/ /\ w.phase = "Check"
     /\ IF cdev.on /\ (~com.managed \/ ~cdev.modern) THEN Moves(w, cdev, "Ready")
        ELSE IF ~com.managed THEN Throws("connectStep", w, cdev, "disconnected")
        ELSE Moves(w, cdev, "Open")
  \/ w.phase = "Open" /\ Opens(w)
  \/ w.phase = "WaitOpen" /\ Moves(w, cdev, IF cdev.busy THEN "WaitOpen" ELSE "Verify")
  \/ /\ w.phase = "Verify"
     /\ IF cdev.on THEN Moves(w, cdev, "Ready") ELSE Throws("connectStep", w, cdev, "permanent")
  \/ w.phase = "Ready" /\ Moves(w, cdev, "Ready")

DisconnectStep(w) ==
  \/ w.unc /\ Throws("disconnectStep", w, cdev, "permanent")
  \/ /\ ~w.unc /\ w.phase = "WaitClose"
     /\ \/ LET closed == ~cdev.busy IN
             Ends("disconnectStep", IF closed THEN [w EXCEPT !.phase = "Closed"] ELSE w,
                  cdev, closed, "none")
        \/ \E kind \in Faults : Throws("disconnectStep", w, cdev, kind)
  \/ ~w.unc /\ w.phase # "WaitClose" /\ w.owns /\ Closes(w)
  \/ /\ ~w.unc /\ w.phase # "WaitClose" /\ ~w.owns
     /\ Ends("disconnectStep", [w EXCEPT !.phase = "Closed"], cdev, TRUE, "none")

\* Reading and commanding need a ready object; a write in doubt ends writing.
Uses(op, w) ==
  \/ w.phase # "Ready" /\ Ends(op, w, cdev, FALSE, "disconnected")
  \/ /\ w.phase = "Ready" /\ (op \in Mutations => ~w.wunc)
     /\ \/ Ends(op, w, cdev, FALSE, "none")
        \/ \E kind \in Faults \ {"transient"} : Ends(op, w, cdev, FALSE, kind)
        \/ IF op \in Mutations THEN Ends(op, [w EXCEPT !.wunc = TRUE], cdev, FALSE, "uncertain")
                               ELSE Ends(op, w, cdev, FALSE, "transient")
  \/ w.phase = "Ready" /\ op \in Mutations /\ w.wunc /\ Ends(op, w, cdev, FALSE, "uncertain")

ComExecute ==
  /\ cwk.alive /\ creq.pc = "sent"
  /\ \/ creq.op = "connectStep" /\ ConnectStep(cwk)
     \/ creq.op = "disconnectStep" /\ DisconnectStep(cwk)
     \/ creq.op \in Readings \cup Mutations /\ Uses(creq.op, cwk)
  /\ chist' = [chist EXCEPT !.replayed = @ \/ (chist.doubt /\ creq.op \in Steps)]
  /\ UNCHANGED com

\* The worker crashes.
Died == [cwk EXCEPT !.alive = FALSE]
Left == [cdev EXCEPT !.claim = IF @ = "mine" THEN "left" ELSE @]
ComCrash ==
  /\ cwk.alive /\ cwk' = Died /\ cdev' = Left
  /\ UNCHANGED <<com, creq, chist>>

\* The device: a connection that was begun ends, and other programs use it.
ComDevice ==
  /\ \/ cdev.busy /\ \E on \in BOOLEAN : cdev' = [cdev EXCEPT !.busy = FALSE, !.on = on]
     \/ ~cdev.busy /\ cdev' = [cdev EXCEPT !.on = ~@]
  /\ UNCHANGED <<com, cwk, creq, chist>>

-----------------------------------------------------------------------------
(* The backend *)

\* reset: a disconnection under way leaves the connection in doubt.
ResetOf(b) ==
  LET doubt == b.unc \/ (b.disc /\ b.managed) IN
  [b EXCEPT !.unc = doubt, !.worker = FALSE, !.whole = TRUE, !.ready = FALSE, !.since = FALSE,
            !.iunc = @ \/ b.owns \/ doubt]

\* The worker is dropped with the backend's hold of it. A managed connection
\* change that it was about, or a disconnection it had begun, is in doubt.
Kills ==
  /\ cwk' = NoDriver /\ cdev' = Left
  /\ chist' = [chist EXCEPT !.doubt = @ \/ (com.managed /\
       ((creq.op \in Steps /\ creq.pc # "idle") \/ (com.disc /\ com.worker /\ cwk.phase # "Closed")))]

ComReset ==
  /\ creq.pc = "idle"
  /\ com' = ResetOf(com)
  /\ Kills /\ UNCHANGED creq

Armed(op) == op \in Steps /\ com.managed

\* start: a fresh worker, of which nothing is known yet.
Started(b) == [b EXCEPT !.worker = TRUE, !.ready = FALSE, !.owns = FALSE, !.iunc = FALSE]

Send(b, op) ==
  /\ com' = [b EXCEPT !.unc = @ \/ Armed(op)]
  /\ creq' = [NoReq EXCEPT !.op = op, !.pc = "sent"]
  /\ UNCHANGED chist

\* connection_step: what is uncertain or ready is answered without asking.
ComConnectStep ==
  /\ creq.pc = "idle" /\ ~com.unc /\ ~com.ready
  /\ \/ com.since /\ com' = ResetOf(com) /\ Kills /\ UNCHANGED creq      \* expired
     \/ /\ com.worker
        /\ Send([com EXCEPT !.since = TRUE], "connectStep")
        /\ UNCHANGED <<cwk, cdev>>
     \/ /\ ~com.worker
        /\ cwk' = [NoDriver EXCEPT !.alive = TRUE]
        /\ Send(Started([com EXCEPT !.since = TRUE]), "connectStep")
        /\ UNCHANGED cdev
     \/ /\ ~com.worker /\ ~com.since /\ com' = [com EXCEPT !.since = TRUE]  \* not started
        /\ UNCHANGED <<cwk, cdev, creq, chist>>

\* read, write and refresh: the actor asks a source that is connected,
\* but the backend itself only needs a worker.
ComAsk ==
  /\ creq.pc = "idle" /\ com.worker
  /\ \E op \in {"read"} \cup Mutations : Send(com, op)
  /\ UNCHANGED <<cwk, cdev>>

\* An image follows its answer in the stream: one that is cut short is a
\* failure of the stream (ComFails).
ComImage ==
  /\ creq.pc = "idle" /\ com.worker
  /\ Send(com, "image")
  /\ UNCHANGED <<cwk, cdev>>

ComDisconnect ==
  /\ creq.pc = "idle" /\ ~com.unc /\ com.worker
  /\ Send([com EXCEPT !.disc = TRUE], "disconnectStep")
  /\ UNCHANGED <<cwk, cdev>>

\* disconnect asks again after a pause until the worker says it is done.
ComDisconnectAgain ==
  /\ creq.pc = "pausing"
  /\ Send(com, "disconnectStep")
  /\ UNCHANGED <<cwk, cdev>>

ValidReply(op, r) ==
  /\ ~(r.unc /\ r.ready)
  /\ ~com.managed => ~r.owns
  /\ r.err = "none" /\ op \in Readings \cup Mutations => r.ready
  /\ r.err = "none" /\ op = "connectStep" => r.val = r.ready
  /\ r.err = "none" /\ op = "disconnectStep" => ~r.ready /\ (r.val => ~(r.owns \/ r.unc))

Accepted(op, r) ==
  [com EXCEPT !.ready = r.ready, !.unc = IF Armed(op) THEN r.unc ELSE @,
              !.owns = r.owns, !.iunc = r.unc]

\* The answer is read and accepted; what the operation does with it.
ComReply ==
  /\ creq.pc = "answered" /\ com.whole
  /\ LET r == creq  op == creq.op  b == Accepted(op, r) IN
     IF ~ValidReply(op, r)
     THEN /\ com' = ResetOf(com) /\ cwk' = NoDriver /\ cdev' = Left /\ creq' = NoReq
          /\ chist' = [chist EXCEPT !.rejected = TRUE, !.doubt = @ \/ Armed(op)]
     ELSE IF op = "disconnectStep" /\ r.err = "none" /\ r.val
     THEN /\ com' = [b EXCEPT !.disc = FALSE, !.ready = FALSE, !.since = FALSE, !.worker = FALSE]
          /\ cwk' = NoDriver /\ cdev' = Left /\ creq' = NoReq
          /\ chist' = [chist EXCEPT !.unclean = @ \/ cdev.claim = "mine"]
     ELSE IF op = "disconnectStep" /\ r.err = "none"
     THEN com' = b /\ creq' = [NoReq EXCEPT !.pc = "pausing"] /\ UNCHANGED <<cwk, cdev, chist>>
     ELSE IF op = "disconnectStep"     \* disconnect resets after an error
     THEN /\ com' = ResetOf(b) /\ cwk' = NoDriver /\ cdev' = Left /\ creq' = NoReq
          /\ chist' = [chist EXCEPT !.doubt = @ \/ com.managed]
     ELSE /\ com' = [b EXCEPT !.since = @ /\ ~(op = "connectStep" /\ r.err = "none" /\ r.ready)]
          /\ creq' = NoReq /\ UNCHANGED <<cwk, cdev, chist>>

\* The deadline passes, the worker is gone or its stream broken.
ComFails ==
  /\ creq.pc \in {"sent", "answered"}
  /\ com' = ResetOf([com EXCEPT !.ready = FALSE, !.iunc = @ \/ creq.op \in Mutations \/ Armed(creq.op)
                                  \/ creq.op = "disconnectStep"])
  /\ creq' = NoReq /\ Kills

\* disconnect's own deadline passes in its pause.
ComDisconnectLate ==
  /\ creq.pc = "pausing"
  /\ com' = ResetOf(com)
  /\ creq' = NoReq /\ Kills

\* The caller drops the request: its stream is retired, the worker killed.
ComDropped ==
  /\ creq.pc # "idle"
  /\ creq' = NoReq
  /\ IF creq.pc = "pausing" THEN UNCHANGED <<com, cwk, cdev, chist>>
     ELSE com' = [com EXCEPT !.whole = FALSE] /\ Kills

ComNext ==
  \/ ComExecute \/ ComCrash \/ ComDevice \/ ComReset \/ ComConnectStep \/ ComAsk \/ ComImage
  \/ ComDisconnect \/ ComDisconnectAgain \/ ComReply \/ ComFails \/ ComDisconnectLate
  \/ ComDropped

-----------------------------------------------------------------------------
(* No connection change is sent again, by a fresh worker or the same, once *)
(* the outcome of one was lost; an answer that the worker really gives is  *)
(* never taken for a broken one; a disconnection that succeeded has undone *)
(* what this worker opened; and the backend never counts on a worker whose *)
(* object is not ready (com.rs request, reset, valid_reply;                *)
(* ImportDriver.cs ConnectStep, DisconnectStep).                           *)
ComHonest ==
  /\ ~chist.replayed
  /\ ~chist.rejected
  /\ ~chist.unclean
  /\ com.ready /\ cwk.alive /\ creq.pc = "idle" => cwk.phase = "Ready"
  /\ chist.doubt => com.unc \/ ~com.managed \/ (com.worker /\ ~com.whole)
=============================================================================
