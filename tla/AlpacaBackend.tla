--------------------------- MODULE AlpacaBackend ---------------------------
(***************************************************************************)
(* A source behind another Alpaca server: crates/regain-hub/src/alpaca.rs  *)
(* over the transport of alpaca/http.rs.  A request is one exchange, whose *)
(* answer may be lost or unclear; its caller may drop it.  The connection  *)
(* is opened and closed by steps, and what became of a change of it that   *)
(* was not told is in doubt for good.                                      *)
(*                                                                         *)
(* Members, parameters and values are left out.  The server is external:   *)
(* a definite refusal of it has had no effect.                             *)
(***************************************************************************)
EXTENDS Naturals

VARIABLES alp,     \* AlpacaBackend
          asrv,    \* the upstream device, as its server sees it
          areq,    \* the exchange under way
          ahist    \* what was lost, and what followed

alpVars == <<alp, asrv, areq, ahist>>

Changes == {"open", "close"}
Writes == Changes \cup {"write"}
NoExchange == [pc |-> "idle", op |-> "none", step |-> FALSE, answer |-> "none", val |-> FALSE]

AlpInit ==
  /\ \E managed, pinned \in BOOLEAN :
       alp = [managed |-> managed, pinned |-> pinned, phase |-> "Discover", meth |-> "none",
              opened |-> "none", unc |-> FALSE, begun |-> FALSE]
  /\ \E modern, on \in BOOLEAN :
       asrv = [modern |-> modern, on |-> on, busy |-> FALSE, mine |-> FALSE]
  /\ areq = NoExchange
  /\ ahist = [doubt |-> FALSE, replayed |-> FALSE, denied |-> FALSE]

-----------------------------------------------------------------------------
(* Answers *)

\* upstream_error, and the HTTP errors that are not worth another attempt.
Definite == {"unsupported", "invalidValue", "unavailable", "disconnected", "permanent"}
\* A busy server, an answer that cannot be read or is another's, none at all.
Unclear == {"busy", "garbled", "broken"}

\* Fault: an answer to a write that cannot be read is a refusal.
KindOfUnread(op, answer) ==
  CASE answer = "busy" -> "transient"
    [] answer = "garbled" -> "permanent"
    [] answer = "broken" -> IF op \in Writes THEN "uncertain" ELSE "transient"
    [] OTHER -> IF answer \in Definite THEN answer ELSE "none"

KindOf(op, answer) ==
  CASE answer = "busy" -> "transient"
    [] answer = "garbled" -> IF op \in Writes THEN "uncertain" ELSE "permanent"
    [] answer = "broken" -> IF op \in Writes THEN "uncertain" ELSE "transient"
    [] OTHER -> IF answer \in Definite THEN answer ELSE "none"

\* image_error: a body that is cut short, or a failure of this process's own.
ImageKinds == {"none", "permanent", "transient"} \cup Definite

-----------------------------------------------------------------------------
(* The upstream server *)

Effect(op) ==
  IF op \notin Changes THEN asrv
  ELSE [asrv EXCEPT !.mine = op = "open", !.busy = asrv.modern,
                    !.on = IF asrv.modern THEN @ ELSE op = "open"]

AlpAnswered(answer) ==
  areq' = [areq EXCEPT !.pc = "answered", !.answer = answer,
                       !.val = IF areq.op = "connecting" THEN asrv.busy ELSE asrv.on]

AlpServe ==
  /\ areq.pc = "sent"
  /\ \/ /\ asrv' = Effect(areq.op)
        /\ \E answer \in {"value"} \cup Unclear :
             /\ AlpAnswered(answer)
             /\ ahist' = [ahist EXCEPT
                  !.replayed = @ \/ (ahist.doubt /\ areq.op \in Changes),
                  !.denied = @ \/ (areq.op \in Writes /\ KindOf(areq.op, answer) \in Definite)]
     \/ /\ \E answer \in Definite \cup Unclear : AlpAnswered(answer)
        /\ UNCHANGED <<asrv, ahist>>
  /\ UNCHANGED alp

\* What the device was told ends; other clients use it.
AlpDevice ==
  /\ \/ asrv.busy /\ \E on \in BOOLEAN : asrv' = [asrv EXCEPT !.busy = FALSE, !.on = on]
     \/ ~asrv.busy /\ asrv' = [asrv EXCEPT !.on = ~@]
  /\ UNCHANGED <<alp, areq, ahist>>

-----------------------------------------------------------------------------
(* The backend *)

\* request: a pinned identity is verified by an exchange of its own.
AlpExchange(op, step) ==
  areq' = [NoExchange EXCEPT !.pc = IF alp.pinned THEN "verify" ELSE "sent",
                             !.op = op, !.step = step]

\* Nothing of the request itself was sent when its address names another
\* device, or the catalog cannot be had.
AlpVerify ==
  /\ areq.pc = "verify"
  /\ \/ areq' = [areq EXCEPT !.pc = "sent"]
     \/ \E kind \in {"permanent", "transient"} \cup Definite :
          areq' = [areq EXCEPT !.pc = "refused", !.answer = kind]
  /\ UNCHANGED <<alp, asrv, ahist>>

\* send: no connection to the server, which counts as a lost answer.
AlpUnreached ==
  /\ areq.pc = "sent"
  /\ AlpAnswered("broken")
  /\ UNCHANGED <<alp, asrv, ahist>>

StepOps == [Discover |-> "version", Check |-> "connected", Open |-> "open",
            WaitOpen |-> "connecting", Verify |-> "connected", WaitClose |-> "connecting"]

\* connection_step: a change is in doubt from before it is sent.
AlpConnectStep ==
  /\ areq.pc = "idle" /\ ~alp.unc /\ alp.phase \notin {"Ready", "Failed"}
  /\ \/ /\ alp.begun /\ alp' = [alp EXCEPT !.phase = "Failed"]
        /\ UNCHANGED areq
     \/ /\ alp' = [alp EXCEPT !.begun = TRUE, !.unc = alp.phase = "Open"]
        /\ AlpExchange(StepOps[alp.phase], TRUE)
  /\ UNCHANGED <<asrv, ahist>>

\* An exchange that is given up; a change that was sent may yet take effect.
Lost == [ahist EXCEPT !.doubt = @ \/ (areq.op \in Changes /\ areq.pc \in {"sent", "answered"})]

AlpExpire ==
  /\ areq.pc # "idle" /\ areq.step
  /\ alp' = [alp EXCEPT !.phase = "Failed"]
  /\ \/ asrv' = asrv
     \/ areq.pc = "sent" /\ asrv' = Effect(areq.op)
  /\ areq' = NoExchange /\ ahist' = Lost

AlpDropped ==
  /\ areq.pc # "idle"
  /\ \/ asrv' = asrv
     \/ areq.pc = "sent" /\ asrv' = Effect(areq.op)
  /\ areq' = NoExchange /\ ahist' = Lost
  /\ UNCHANGED alp

\* Modern hardware that others have connected is claimed all the same.
Checked(connected) ==
  IF connected /\ ~(alp.managed /\ alp.meth = "async") THEN "Ready"
  ELSE IF alp.managed THEN "Open" ELSE "Check"

\* connection_operation: what the answer to a step makes of the connection.
Operated(kind) ==
  LET ok == kind = "none" IN
  CASE areq.op = "version" /\ (ok \/ kind = "unsupported") ->
         [alp EXCEPT !.phase = "Check", !.meth = IF ok /\ asrv.modern THEN "async" ELSE "legacy"]
    [] areq.op = "connected" /\ ok /\ alp.phase = "Check" ->
         [alp EXCEPT !.phase = Checked(areq.val)]
    [] areq.op = "connected" /\ ok /\ alp.phase = "Verify" ->
         [alp EXCEPT !.phase = IF areq.val THEN "Ready" ELSE "Failed"]
    [] areq.op = "connecting" /\ ok /\ ~areq.val ->
         [alp EXCEPT !.phase = IF @ = "WaitOpen" THEN "Verify" ELSE "Discover"]
    [] areq.op = "open" /\ ok ->
         [alp EXCEPT !.opened = alp.meth, !.unc = FALSE,
                     !.phase = IF alp.meth = "async" THEN "WaitOpen" ELSE "Ready"]
    [] areq.op = "open" /\ ~ok -> [alp EXCEPT !.unc = @ /\ kind \in {"transient", "uncertain"}]
    [] OTHER -> alp

\* disconnect: whatever its error, it is not tried again.
Closed(kind) ==
  IF kind # "none" THEN alp
  ELSE [alp EXCEPT !.opened = "none", !.unc = FALSE, !.begun = FALSE,
                   !.phase = IF alp.opened = "async" THEN "WaitClose" ELSE "Discover"]

AlpReply ==
  /\ areq.pc \in {"answered", "refused"}
  /\ LET kind == IF areq.pc = "refused" THEN areq.answer ELSE KindOf(areq.op, areq.answer) IN
     alp' = CASE areq.step -> Operated(kind)
              [] areq.op = "close" -> Closed(kind)
              [] OTHER -> alp
  /\ areq' = NoExchange
  /\ ahist' = [ahist EXCEPT
       !.doubt = @ \/ (areq.op \in Changes /\ areq.pc = "answered" /\ areq.answer \in Unclear)]
  /\ UNCHANGED asrv

AlpDisconnect ==
  /\ areq.pc = "idle"
  /\ \/ /\ alp.opened # "none" /\ ~alp.unc
        /\ alp' = [alp EXCEPT !.unc = TRUE]
        /\ AlpExchange("close", FALSE)
     \/ /\ alp.opened = "none" /\ alp.phase # "WaitClose"
        /\ alp' = [alp EXCEPT !.phase = "Discover", !.begun = FALSE]
        /\ UNCHANGED areq
  /\ UNCHANGED <<asrv, ahist>>

\* read, write and refresh; write refuses the members that change a connection.
AlpAsk ==
  /\ areq.pc = "idle" /\ alp.phase = "Ready"
  /\ \E op \in {"read", "write"} : AlpExchange(op, FALSE)
  /\ UNCHANGED <<alp, asrv, ahist>>

\* An image is read as it arrives: its answer is told by ImageKinds.
AlpImage ==
  /\ areq.pc = "idle" /\ alp.phase = "Ready"
  /\ \E kind \in ImageKinds : areq' = [NoExchange EXCEPT !.pc = "refused", !.op = "image", !.answer = kind]
  /\ UNCHANGED <<alp, asrv, ahist>>

AlpReset ==
  /\ areq.pc = "idle" /\ alp.phase \in {"Ready", "Discover", "Check", "Open"}
  /\ alp' = [alp EXCEPT !.phase = "Discover", !.begun = FALSE]
  /\ UNCHANGED <<asrv, areq, ahist>>

AlpNext ==
  \/ AlpServe \/ AlpDevice \/ AlpVerify \/ AlpUnreached \/ AlpConnectStep \/ AlpExpire
  \/ AlpDropped \/ AlpReply \/ AlpDisconnect \/ AlpAsk \/ AlpImage \/ AlpReset

-----------------------------------------------------------------------------
(* No change of the connection reaches the server once the outcome of one  *)
(* was not told; no write that took effect is told as refused; a           *)
(* connection of ours that is not remembered is in doubt; a modern device  *)
(* is used only while this client itself holds it; and a source that       *)
(* others manage is never claimed (alpaca.rs connection_operation,         *)
(* disconnect, reset, parse_response).                                     *)
AlpacaHonest ==
  /\ ~ahist.replayed
  /\ ~ahist.denied
  /\ alp.opened = "none" /\ areq.pc = "idle" => alp.unc \/ ~asrv.mine
  /\ alp.phase = "Ready" /\ alp.meth = "async" /\ alp.managed => alp.unc \/ asrv.mine
  /\ ~alp.managed => ~asrv.mine
=============================================================================
