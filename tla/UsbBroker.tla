------------------------------ MODULE UsbBroker ------------------------------
(***************************************************************************)
(* The elevated helper that cycles a camera's USB port for its supervisor  *)
(* (regain-transport, usb/windows). An explicit preparation asks the user  *)
(* once and leaves a helper behind; a recovery later finds it, or fails:   *)
(* it never asks. The helper has one pipe instance and serves one client   *)
(* at a time; clients time out, are killed, and come back. Meanwhile the   *)
(* camera may be pulled out and return as a new arrival.                   *)
(*                                                                         *)
(* A target is a camera's binding with the arrival generation its client   *)
(* once saw. The last look at the arrival and the dispatch are one step,   *)
(* two adjacent system calls: everything before them is not.               *)
(***************************************************************************)
EXTENDS Naturals, FiniteSets

CONSTANTS
  UbClients,      \* processes that call the helper
  UbCameras,      \* bindings: one physical camera at one port each
  UbTargets,      \* MAX_TARGETS
  UbCall,         \* CALL_SECONDS, in ticks
  UbOperation,    \* OPERATION_SECONDS, in ticks
  MaxUbArrivals,  \* bound: arrivals of a camera
  MaxUbTime,      \* bound: the clock
  MaxUbRequests   \* bound: calls of the clients

ASSUME UbAssumption ==
  /\ UbTargets \in Nat \ {0} /\ UbCall \in Nat \ {0} /\ UbOperation \in Nat \ {0}
  /\ MaxUbArrivals \in Nat /\ MaxUbTime \in Nat /\ MaxUbRequests \in Nat

VARIABLES
  ubNow,      \* the clock
  ubPort,     \* the arrival of each camera, and how many there were; 0 is absent
  ubHelper,   \* the process that owns the pipe
  ubCall,     \* what each client asks, and what it was told
  ubBoot,     \* the elevated process each client's preparation launched
  ubCycles,   \* history: the ports cycled, and what stood behind each
  ubConsent   \* history: cameras approved, and not revoked to anyone's knowledge

ubVars == <<ubNow, ubPort, ubHelper, ubCall, ubBoot, ubCycles, ubConsent>>

Call(kind, cam, gen, deadline, id) ==
  [kind |-> kind, cam |-> cam, gen |-> gen, deadline |-> deadline, until |-> 0, id |-> id,
   phase |-> "asks", told |-> "nothing"]
AnyCamera == CHOOSE k \in UbCameras : TRUE
NoCall == [Call("none", AnyCamera, 0, 0, 0) EXCEPT !.phase = "over"]
NoBoot == [phase |-> "none", deadline |-> 0, cam |-> AnyCamera, gen |-> 0]
NoHelper ==
  [phase |-> "none", request |-> NoCall, approved |-> {}, until |-> 0, answer |-> "none", stop |-> FALSE]
Issued == CHOOSE n \in 0 .. MaxUbRequests :
            /\ \A c \in UbClients : ubCall[c].id <= n
            /\ n = 0 \/ \E c \in UbClients : ubCall[c].id = n

---------------------------------------------------------------------------
(* The policy: Broker and validate_binding.                                *)

Live(k) == ubPort[k].arrival
ValidBinding(k, gen) == gen # 0 /\ gen = Live(k)
Approved(k) == k \in ubHelper.approved
Room(k) == Approved(k) \/ Cardinality(ubHelper.approved) < UbTargets
Revoked(k) == ubHelper.approved \ {k}

Authorized(k, gen, deadline) ==
  Approved(k) /\ gen # 0 /\ ubNow < deadline /\ deadline <= ubNow + UbOperation + 1

(* Fault: the arrival is not looked at again after the search.             *)
MayDispatchUnseen(k, gen, deadline) == ubNow < deadline

(* cycle_camera, after its search for the parent hub and the query of the  *)
(* port: the second look at the arrival, and the deadline.                 *)
MayDispatch(k, gen, deadline) == ValidBinding(k, gen) /\ ubNow < deadline

---------------------------------------------------------------------------
(* Clients. A client connects to the pipe, sends, waits and acknowledges,  *)
(* all before its deadline; its supervisor may kill it at any point.       *)

Issue(c, kind, k, gen) ==
  /\ ubCall[c].phase = "over" /\ Issued < MaxUbRequests
  /\ gen <= ubPort[k].seen
  /\ kind = "stop" => k = AnyCamera /\ gen = 1     \* a stop names no target
  /\ kind = "prepare" => ValidBinding(k, gen) /\ ubBoot[c].phase = "none"
  /\ ubCall' = [ubCall EXCEPT ![c] =
       Call(kind, k, gen, IF kind = "recover" THEN ubNow + UbOperation ELSE 0, Issued + 1)]
  /\ UNCHANGED <<ubNow, ubPort, ubHelper, ubBoot, ubCycles, ubConsent>>

(* What a client was told of a recovery; the rest is not looked at again.  *)
Told(c, what) ==
  [ubCall EXCEPT ![c] =
     [NoCall EXCEPT !.id = ubCall[c].id, !.told = IF ubCall[c].kind = "recover" THEN what ELSE "nothing"]]
Attends(c) == ubCall[c].phase = "sent" /\ ubHelper.request.id = ubCall[c].id
CallTime(kind) == IF kind = "recover" THEN UbOperation + 1 ELSE UbCall

(* CreateFileW on the pipe, and the request behind it. *)
Connect(c) ==
  /\ ubCall[c].phase = "asks" /\ ubCall[c].kind # "prepare" /\ ubHelper.phase = "idle"
  /\ ubCall' = [ubCall EXCEPT ![c].phase = "sent", ![c].until = ubNow + CallTime(ubCall[c].kind)]
  /\ ubHelper' = [ubHelper EXCEPT !.phase = "received", !.request = ubCall[c]]
  /\ UNCHANGED <<ubNow, ubPort, ubBoot, ubCycles, ubConsent>>

(* No pipe: a revocation has nothing to revoke, a recovery fails, and      *)
(* nobody asks for elevation.                                              *)
Absent(c) ==
  /\ ubCall[c].phase = "asks" /\ ubCall[c].kind # "prepare" /\ ubHelper.phase = "none"
  /\ ubCall' = Told(c, IF ubCall[c].kind = "revoke" THEN "done" ELSE "refused")
  /\ ubConsent' = IF ubCall[c].kind = "revoke" THEN ubConsent \ {ubCall[c].cam} ELSE ubConsent
  /\ UNCHANGED <<ubNow, ubPort, ubHelper, ubBoot, ubCycles>>

(* WaitNamedPipeW ran out: another client is being served. *)
Busy(c) ==
  /\ ubCall[c].phase = "asks" /\ ubCall[c].kind # "prepare"
  /\ ubHelper.phase \notin {"none", "idle"}
  /\ ubCall' = Told(c, "refused")
  /\ UNCHANGED <<ubNow, ubPort, ubHelper, ubBoot, ubCycles, ubConsent>>

(* The deadline of the exchange, a kill of the client, or a helper that    *)
(* died: the client does not know.                                         *)
GiveUp(c) ==
  /\ ubCall[c].phase = "sent"
  /\ ubCall' = Told(c, "unknown")
  /\ UNCHANGED <<ubNow, ubPort, ubHelper, ubBoot, ubCycles, ubConsent>>

Consume(c) ==
  /\ Attends(c) /\ ubHelper.phase = "answers"
  /\ ubNow < ubCall[c].until
  /\ ubCall' = Told(c, ubHelper.answer)
  /\ ubHelper' = [ubHelper EXCEPT !.phase = "acknowledged"]
  /\ ubConsent' =
       CASE ubHelper.answer = "done" /\ ubCall[c].kind = "revoke" -> ubConsent \ {ubCall[c].cam}
         [] ubHelper.answer = "done" /\ ubCall[c].kind = "stop" -> {}
         [] OTHER -> ubConsent
  /\ UNCHANGED <<ubNow, ubPort, ubBoot, ubCycles>>

---------------------------------------------------------------------------
(* prepare: a look for an approval, then the user's consent, a bootstrap   *)
(* with a deadline from before the prompt, and polls of the status.        *)

Prepared(c) == ubHelper.phase = "idle" /\ Approved(ubCall[c].cam)

PrepareSeen(c) ==
  /\ ubCall[c].kind = "prepare" /\ ubCall[c].phase \in {"asks", "polls"} /\ Prepared(c)
  /\ ubCall' = Told(c, "done")
  /\ UNCHANGED <<ubNow, ubPort, ubHelper, ubBoot, ubCycles, ubConsent>>

PreparePrompts(c) ==
  /\ ubCall[c].kind = "prepare" /\ ubCall[c].phase = "asks" /\ ~Prepared(c)
  /\ \/ /\ ubCall' = [ubCall EXCEPT ![c].phase = "polls"]
        /\ ubBoot' = [ubBoot EXCEPT ![c] = 
             [phase |-> "prompt", deadline |-> ubNow + UbOperation,
              cam |-> ubCall[c].cam, gen |-> ubCall[c].gen]]
     \/ ubCall' = Told(c, "refused") /\ UNCHANGED ubBoot   \* the user declined
  /\ UNCHANGED <<ubNow, ubPort, ubHelper, ubCycles, ubConsent>>

PrepareFails(c) ==
  /\ ubCall[c].kind = "prepare" /\ ubCall[c].phase = "polls"
  /\ ubCall' = Told(c, "unknown")
  /\ UNCHANGED <<ubNow, ubPort, ubHelper, ubBoot, ubCycles, ubConsent>>

(* helper serve, as far as the pipe: an expired authorization ends it, an  *)
(* existing helper may take the binding, and otherwise the binding is      *)
(* looked at again and the pipe created, if nobody else has.               *)
BootStarts(c) ==
  /\ ubBoot[c].phase = "prompt"
  /\ ubBoot' = [ubBoot EXCEPT ![c] =
       IF ubNow < ubBoot[c].deadline THEN [@ EXCEPT !.phase = "asks"] ELSE NoBoot]
  /\ UNCHANGED <<ubNow, ubPort, ubHelper, ubCall, ubCycles, ubConsent>>

BootApproves(c) ==
  LET k == ubBoot[c].cam  gen == ubBoot[c].gen
  IN /\ ubBoot[c].phase = "asks" /\ ubHelper.phase = "idle"
     /\ IF ValidBinding(k, gen) /\ Room(k)
        THEN /\ ubHelper' = [ubHelper EXCEPT !.approved = @ \cup {k}]
             /\ ubConsent' = ubConsent \cup {k}
             /\ ubBoot' = [ubBoot EXCEPT ![c] = NoBoot]
        ELSE ubBoot' = [ubBoot EXCEPT ![c].phase = "alone"] /\ UNCHANGED <<ubHelper, ubConsent>>
     /\ UNCHANGED <<ubNow, ubPort, ubCall, ubCycles>>

BootFindsNobody(c) ==
  /\ ubBoot[c].phase = "asks" /\ ubHelper.phase # "idle"
  /\ ubBoot' = [ubBoot EXCEPT ![c].phase = "alone"]
  /\ UNCHANGED <<ubNow, ubPort, ubHelper, ubCall, ubCycles, ubConsent>>

BootServes(c) ==
  LET k == ubBoot[c].cam  gen == ubBoot[c].gen
  IN /\ ubBoot[c].phase = "alone"
     /\ ubBoot' = [ubBoot EXCEPT ![c] = NoBoot]
     /\ IF ValidBinding(k, gen) /\ ubHelper.phase = "none"
        THEN /\ ubHelper' = [NoHelper EXCEPT !.phase = "idle", !.approved = {k}]
             /\ ubConsent' = ubConsent \cup {k}
        ELSE UNCHANGED <<ubHelper, ubConsent>>
     /\ UNCHANGED <<ubNow, ubPort, ubCall, ubCycles>>

---------------------------------------------------------------------------
(* The helper: serve, recovery, and the watchdog.                          *)

Request == ubHelper.request
Answers(what, stop) == [ubHelper EXCEPT !.phase = "answers", !.answer = what, !.stop = stop, !.until = ubNow + UbCall]

ServeRevoke ==
  /\ ubHelper.phase = "received" /\ Request.kind = "revoke"
  /\ LET left == Revoked(Request.cam)
     IN ubHelper' = [Answers("done", left = {}) EXCEPT !.approved = left]
  /\ UNCHANGED <<ubNow, ubPort, ubCall, ubBoot, ubCycles, ubConsent>>

(* The client went away before its request was whole. *)
ReceiveFails ==
  /\ ubHelper.phase = "received" /\ \A c \in UbClients : ~Attends(c)
  /\ ubHelper' = Answers("refused", FALSE)
  /\ UNCHANGED <<ubNow, ubPort, ubCall, ubBoot, ubCycles, ubConsent>>

ServeStop ==
  /\ ubHelper.phase = "received" /\ Request.kind = "stop"
  /\ ubHelper' = Answers("done", TRUE)
  /\ UNCHANGED <<ubNow, ubPort, ubCall, ubBoot, ubCycles, ubConsent>>

Allowance(deadline) == IF deadline - ubNow < UbOperation + 1 THEN deadline - ubNow ELSE UbOperation + 1

(* authorize and the first look at the binding; then the inventory and the *)
(* search for the port, which take time.                                   *)
ServeRecover ==
  /\ ubHelper.phase = "received" /\ Request.kind = "recover"
  /\ ubHelper' =
       IF /\ Authorized(Request.cam, Request.gen, Request.deadline)
          /\ ValidBinding(Request.cam, Request.gen)
       THEN [ubHelper EXCEPT !.phase = "searches", !.until = ubNow + Allowance(Request.deadline) + 1]
       ELSE Answers("refused", FALSE)
  /\ UNCHANGED <<ubNow, ubPort, ubCall, ubBoot, ubCycles, ubConsent>>

Cycle(k) ==
  [by |-> Request.id, named |-> Request.gen, hit |-> Live(k), late |-> ubNow >= Request.deadline,
   wanted |-> k \in ubConsent]

Dispatch ==
  LET k == Request.cam
  IN /\ ubHelper.phase = "searches"
     /\ IF MayDispatch(k, Request.gen, Request.deadline)
        THEN /\ ubCycles' = ubCycles \cup {Cycle(k)}
             /\ ubPort' = [ubPort EXCEPT ![k].arrival = 0]
             /\ \/ ubHelper' = [ubHelper EXCEPT !.phase = "awaits return"]
                \/ ubHelper' = Answers("failed", FALSE)   \* an error for what may have happened
        ELSE ubHelper' = Answers("refused", FALSE) /\ UNCHANGED <<ubPort, ubCycles>>
     /\ UNCHANGED <<ubNow, ubCall, ubBoot, ubConsent>>

(* The search for the port failed, or the port is no longer this camera's. *)
SearchFails ==
  /\ ubHelper.phase = "searches"
  /\ ubHelper' = Answers("failed", FALSE)
  /\ UNCHANGED <<ubNow, ubPort, ubCall, ubBoot, ubCycles, ubConsent>>

(* The camera came back, or was not waited for any longer; a deadline that *)
(* passed meanwhile makes an error of it.                                  *)
Recovered ==
  /\ ubHelper.phase = "awaits return"
  /\ ubHelper' = Answers(IF ubNow >= Request.deadline THEN "failed" ELSE "reset", FALSE)
  /\ UNCHANGED <<ubNow, ubPort, ubCall, ubBoot, ubCycles, ubConsent>>

(* The response was acknowledged, or nobody took it; the pipe is freed,    *)
(* and a stopped helper ends.                                              *)
Disconnect ==
  /\ \/ ubHelper.phase = "acknowledged"
     \/ ubHelper.phase = "answers" /\ ((\A c \in UbClients : ~Attends(c)) \/ ubNow >= ubHelper.until)
  /\ ubHelper' =
       IF ubHelper.stop THEN NoHelper ELSE [NoHelper EXCEPT !.phase = "idle", !.approved = ubHelper.approved]
  /\ UNCHANGED <<ubNow, ubPort, ubCall, ubBoot, ubCycles, ubConsent>>

(* Pipe I/O whose cancellation does not drain ends the process, and so     *)
(* does the watchdog of a native call that does not return.                *)
Undrained ==
  /\ ubHelper.phase = "answers" /\ ubNow >= ubHelper.until
  /\ ubHelper' = NoHelper
  /\ UNCHANGED <<ubNow, ubPort, ubCall, ubBoot, ubCycles, ubConsent>>

Watchdog ==
  /\ ubHelper.phase \in {"searches", "awaits return"} /\ ubNow >= ubHelper.until
  /\ ubHelper' = NoHelper
  /\ UNCHANGED <<ubNow, ubPort, ubCall, ubBoot, ubCycles, ubConsent>>

---------------------------------------------------------------------------
(* The world: cables and time.                                             *)

Arrives(k) ==
  /\ ubPort[k].arrival = 0 /\ ubPort[k].seen < MaxUbArrivals
  /\ ubPort' = [ubPort EXCEPT ![k] = [arrival |-> @.seen + 1, seen |-> @.seen + 1]]
  /\ UNCHANGED <<ubNow, ubHelper, ubCall, ubBoot, ubCycles, ubConsent>>

Leaves(k) ==
  /\ ubPort[k].arrival # 0
  /\ ubPort' = [ubPort EXCEPT ![k].arrival = 0]
  /\ UNCHANGED <<ubNow, ubHelper, ubCall, ubBoot, ubCycles, ubConsent>>

UbTick ==
  /\ ubNow < MaxUbTime
  /\ ubHelper.phase \in {"searches", "awaits return", "answers"} => ubNow < ubHelper.until
  /\ \A c \in UbClients : ubCall[c].phase = "sent" => ubNow < ubCall[c].until
  /\ ubNow' = ubNow + 1
  /\ UNCHANGED <<ubPort, ubHelper, ubCall, ubBoot, ubCycles, ubConsent>>

UbInit ==
  /\ ubNow = 0 /\ ubHelper = NoHelper /\ ubCycles = {} /\ ubConsent = {}
  /\ ubPort = [k \in UbCameras |-> [arrival |-> 1, seen |-> 1]]
  /\ ubCall = [c \in UbClients |-> NoCall] /\ ubBoot = [c \in UbClients |-> NoBoot]

UbNext ==
  \/ \E c \in UbClients :
       \/ \E kind \in {"recover", "revoke", "stop", "prepare"}, k \in UbCameras, gen \in 1 .. MaxUbArrivals :
            Issue(c, kind, k, gen)
       \/ Connect(c) \/ Absent(c) \/ Busy(c) \/ GiveUp(c) \/ Consume(c)
       \/ PrepareSeen(c) \/ PreparePrompts(c) \/ PrepareFails(c)
       \/ BootStarts(c) \/ BootApproves(c) \/ BootFindsNobody(c) \/ BootServes(c)
  \/ ReceiveFails \/ ServeRevoke \/ ServeStop \/ ServeRecover \/ Dispatch \/ SearchFails \/ Recovered
  \/ Disconnect \/ Undrained \/ Watchdog
  \/ \E k \in UbCameras : Arrives(k) \/ Leaves(k)
  \/ UbTick

UbSpec == UbInit /\ [][UbNext]_ubVars

---------------------------------------------------------------------------
(* A port is cycled for the arrival its request names and no other, before *)
(* the request's deadline, and for a camera that was prepared and that     *)
(* nobody was told is revoked; no request cycles it twice, and no arrival  *)
(* is cycled twice. A client told of a reset had one; a client refused had *)
(* none (broker.rs serve, recovery; usb/windows.rs cycle_camera).          *)
UsbHonest ==
  /\ \A r \in ubCycles : r.hit = r.named /\ ~r.late /\ r.wanted
  /\ \A r, q \in ubCycles : r.by = q.by => r = q
  /\ \A c \in UbClients :
       /\ ubCall[c].told = "reset" => \E r \in ubCycles : r.by = ubCall[c].id
       /\ ubCall[c].told = "refused" => \A r \in ubCycles : r.by # ubCall[c].id
=============================================================================
