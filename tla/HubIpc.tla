------------------------------- MODULE HubIpc -------------------------------
(***************************************************************************)
(* One stream of the hub's local IPC, both ends: the multiplexing client   *)
(* (regain-hub client.rs) and the server's loop (ipc.rs). The client's     *)
(* pump neither takes answers while it writes nor writes while it takes    *)
(* them; the server answers operations in the order they end. Each end     *)
(* closes the stream at its first error, and nothing is ever replayed.     *)
(***************************************************************************)
EXTENDS Naturals, Sequences, FiniteSets

CONSTANTS
  IpcRequests, Mutating,   \* the requests, and those that change something
  MaxInFlight,             \* operations per stream, announced by the server
  Pipe                     \* frames a direction of the stream can buffer

ASSUME HubIpcAssumption ==
  /\ Mutating \subseteq IpcRequests /\ MaxInFlight \in Nat \ {0} /\ Pipe \in Nat \ {0}

VARIABLES
  iask,     \* per request: idle, queued, written, answered
  iheld,    \* per request: whether its caller still waits
  ians,     \* per request: what its caller is told, or would be
  iqueue,   \* requests handed to the pump
  ipump,    \* the client's pump: loop, or the request it is writing; closed
  iout,     \* the stream from the client to the server
  iback,    \* the stream from the server to the client: <<request, answer>>
  iserver,  \* the server's loop: loop, or the answer it is writing; closed
  itask,    \* per request: its operation on the server
  idev      \* per request: what became of it at the device

ipcVars == <<iask, iheld, ians, iqueue, ipump, iout, iback, iserver, itask, idev>>

Loop == [pc |-> "loop", frame |-> <<>>]
Gone == [pc |-> "closed", frame |-> <<>>]
InFlight == {q \in IpcRequests : iask[q] \in {"queued", "written"}}
Operating == {q \in IpcRequests : itask[q] = "running"}

IpcInit ==
  /\ iask = [q \in IpcRequests |-> "idle"] /\ iheld = [q \in IpcRequests |-> TRUE]
  /\ ians = [q \in IpcRequests |-> "none"]
  /\ iqueue = <<>> /\ iout = <<>> /\ iback = <<>> /\ ipump = Loop /\ iserver = Loop
  /\ itask = [q \in IpcRequests |-> "none"] /\ idev = [q \in IpcRequests |-> "untouched"]

ServerSide == <<iout, iback, iserver, itask, idev>>

-----------------------------------------------------------------------------
(* The client                                                              *)

(* The permits in use: until an answer, also of forgotten requests.        *)
Permits == InFlight

(* request: a permit and a place in the queue, or an error at once.        *)
IpcAsk(q) ==
  /\ iask[q] = "idle"
  /\ IF ipump.pc # "closed" /\ Cardinality(Permits) < MaxInFlight
     THEN /\ iask' = [iask EXCEPT ![q] = "queued"] /\ iqueue' = Append(iqueue, q)
          /\ UNCHANGED ians
     ELSE /\ iask' = [iask EXCEPT ![q] = "answered"] /\ UNCHANGED iqueue
          /\ ians' = [ians EXCEPT ![q] = IF ipump.pc = "closed" THEN "disconnected" ELSE "busy"]
  /\ UNCHANGED <<iheld, ipump, ServerSide>>

IpcForget(q) ==
  /\ iask[q] \in {"queued", "written"} /\ iheld[q]
  /\ iheld' = [iheld EXCEPT ![q] = FALSE]
  /\ UNCHANGED <<iask, ians, iqueue, ipump, ServerSide>>

Answered(q, a) ==
  /\ iask' = [iask EXCEPT ![q] = "answered"] /\ ians' = [ians EXCEPT ![q] = a]

(* The pump takes a request: forgotten ones and late ones are not written. *)
IpcTake ==
  /\ ipump.pc = "loop" /\ iqueue # <<>> /\ iqueue' = Tail(iqueue)
  /\ LET q == Head(iqueue) IN
     \/ ~iheld[q] /\ Answered(q, "skipped") /\ UNCHANGED ipump
     \/ iheld[q] /\ Answered(q, "timeout") /\ UNCHANGED ipump
     \/ /\ iheld[q] /\ iask' = [iask EXCEPT ![q] = "written"] /\ UNCHANGED ians
        /\ ipump' = [pc |-> "writing", frame |-> <<q>>]
  /\ UNCHANGED <<iheld, ServerSide>>

(* The frame fits into the stream.                                         *)
IpcWritten ==
  /\ ipump.pc = "writing" /\ Len(iout) < Pipe
  /\ iout' = iout \o ipump.frame /\ ipump' = Loop
  /\ UNCHANGED <<iask, iheld, ians, iqueue, iback, iserver, itask, idev>>

IpcHear ==
  /\ ipump.pc = "loop" /\ iback # <<>> /\ iback' = Tail(iback)
  /\ iask[iback[1][1]] = "written"
  /\ Answered(iback[1][1], iback[1][2])
  /\ UNCHANGED <<iheld, iqueue, ipump, iout, iserver, itask, idev>>

(* Fault: only the request whose frame was cut off is in doubt.            *)
LostAnswerFrameOnly(q) ==
  IF q \in Mutating /\ ipump.frame = <<q>> THEN "uncertain" ELSE "timeout"

(* What the request's caller is told when the stream breaks.               *)
LostAnswer(q) ==
  IF iask[q] = "queued" THEN "disconnected"
  ELSE IF q \in Mutating THEN "uncertain" ELSE "timeout"

(* A deadline, an error, a protocol violation or close(): the pump ends.   *)
(* A frame that was being written may or may not have left.                *)
IpcBreak ==
  /\ ipump.pc # "closed" /\ ipump' = Gone
  /\ iout' \in {iout, iout \o ipump.frame}
  /\ iask' = [q \in IpcRequests |-> IF q \in InFlight THEN "answered" ELSE iask[q]]
  /\ ians' = [q \in IpcRequests |-> IF q \in InFlight THEN LostAnswer(q) ELSE ians[q]]
  /\ iqueue' = <<>>
  /\ UNCHANGED <<iheld, iback, iserver, itask, idev>>

(* The cases in which it has to: a deadline of a pending request, the end  *)
(* of the stream, a frame that does not get out in time.                   *)
IpcMustBreak ==
  /\ \/ \E q \in IpcRequests : iask[q] = "written"
     \/ iserver.pc = "closed" /\ iback = <<>>
     \/ ipump.pc = "writing"
  /\ IpcBreak

-----------------------------------------------------------------------------
(* The server                                                              *)

ClientSide == <<iask, iheld, ians, iqueue, ipump>>

(* A frame: a ninth operation is a violation of the protocol; otherwise it *)
(* is started at once, in the order of arrival.                            *)
IpcServe ==
  /\ iserver.pc = "loop" /\ iout # <<>> /\ iout' = Tail(iout)
  /\ LET q == Head(iout) IN
     IF Cardinality(Operating) >= MaxInFlight
     THEN /\ iserver' = [Gone EXCEPT !.frame = <<"overloaded">>]
          /\ itask' = [p \in IpcRequests |-> IF p \in Operating THEN "dropped" ELSE itask[p]]
          /\ UNCHANGED idev
     ELSE \/ /\ itask' = [itask EXCEPT ![q] = "running"]
             /\ idev' = [idev EXCEPT ![q] = "submitted"] /\ UNCHANGED iserver
          \/ /\ itask' = [itask EXCEPT ![q] = "ended"]
             /\ iserver' = [pc |-> "writing", frame |-> <<q, "refused">>] /\ UNCHANGED idev
  /\ UNCHANGED <<ClientSide, iback>>

(* Device work ends on its own, with or without an operation that waits.   *)
IpcDevice(q) ==
  /\ idev[q] = "submitted"
  /\ \E d \in {"done", "refused"} : idev' = [idev EXCEPT ![q] = d]
  /\ UNCHANGED <<ClientSide, iout, iback, iserver, itask>>

(* The answer of dispatch_bounded.                                         *)
Outcome(q) ==
  {IF q \in Mutating THEN "uncertain" ELSE "late"}
    \cup CASE idev[q] = "done" -> {"ok"} [] idev[q] = "refused" -> {"refused"} [] OTHER -> {}

IpcEnds(q) ==
  /\ iserver.pc = "loop" /\ itask[q] = "running"
  /\ \E a \in Outcome(q) : iserver' = [pc |-> "writing", frame |-> <<q, a>>]
  /\ itask' = [itask EXCEPT ![q] = "ended"]
  /\ UNCHANGED <<ClientSide, iout, iback, idev>>

IpcRespond ==
  /\ iserver.pc = "writing" /\ ipump.pc # "closed" /\ Len(iback) < Pipe
  /\ iback' = Append(iback, iserver.frame) /\ iserver' = Loop
  /\ UNCHANGED <<ClientSide, iout, itask, idev>>

(* The end of the stream, or an answer that does not get out in time: the  *)
(* operations that wait are dropped, and the client session is closed.     *)
IpcServerEnds ==
  /\ iserver.pc # "closed"
  /\ iserver.pc = "writing" \/ (ipump.pc = "closed" /\ iout = <<>>)
  /\ iserver' = Gone
  /\ itask' = [q \in IpcRequests |-> IF q \in Operating THEN "dropped" ELSE itask[q]]
  /\ UNCHANGED <<ClientSide, iout, iback, idev>>

IpcServer ==
  IpcServe \/ IpcRespond \/ IpcServerEnds \/ \E q \in IpcRequests : IpcEnds(q)

IpcNext ==
  \/ \E q \in IpcRequests : IpcAsk(q) \/ IpcForget(q) \/ IpcDevice(q)
  \/ IpcTake \/ IpcWritten \/ IpcHear \/ IpcBreak \/ IpcServer

(* The pump runs and keeps its deadlines. Nothing is assumed of the server *)
(* or of the device.                                                       *)
IpcFairness ==
  /\ WF_ipcVars(IpcTake \/ IpcWritten \/ IpcHear)
  /\ WF_ipcVars(IpcMustBreak)

-----------------------------------------------------------------------------
(* Callers are told the truth about requests that change something: one    *)
(* reported as busy, skipped, refused, out of time or cut off while queued *)
(* was not done and never will be, one reported done was done; whatever    *)
(* else may have reached the device is reported as uncertain. And the      *)
(* permits of the client keep the server's limit: a stream is never closed *)
(* because its callers gave up.                                            *)
IpcAnswersTrue ==
  /\ \A q \in Mutating :
       /\ ians[q] \in {"busy", "skipped", "timeout", "disconnected", "refused"} =>
            /\ idev[q] \in {"untouched", "refused"}
            /\ \A i \in DOMAIN iout : iout[i] # q
       /\ ians[q] = "ok" => idev[q] = "done"
  /\ iserver.frame # <<"overloaded">>

(* No caller waits for an answer.                                          *)
IpcAnswered == \A q \in IpcRequests : iask[q] \in {"idle", "answered"}
=============================================================================
