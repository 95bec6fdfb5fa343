----------------------------- MODULE AlpacaSlots -----------------------------
(***************************************************************************)
(* The accessory slots of the Alpaca server (regain-alpaca server.rs,      *)
(* accessory.rs, rotator.rs, flatpanel.rs).  A slot has a profile that     *)
(* names a device by serial, a set of connected clients and at most one    *)
(* worker process that owns the device.  A slot's state is behind its own  *)
(* asynchronous lock; connects and profile edits of slots that could claim *)
(* the same device are serialised by the server's connections gate.        *)
(*                                                                         *)
(* Each network client has one request under way at a time and may go away *)
(* at every await, which drops the request where it stands.  A worker is   *)
(* "ok", "retired" (a request to it was lost: it is killed and never       *)
(* written to again) or "exited".                                          *)
(***************************************************************************)
EXTENDS FiniteSets

CONSTANTS
    NetClients,   \* HTTP clients
    PairSlots,    \* slots of one model
    PanelSlot,    \* the one of them that exists when the model is the panel
    Serials       \* the devices' serials

VARIABLES
    family,   \* what the slots are: "focuser", "rotator" or "panel"
    slots,    \* State of each slot
    gate,     \* Server.connections
    asked     \* the request of each client

asVars == <<family, slots, gate, asked>>

ASSUME PanelAssumption == PanelSlot \in PairSlots

NoSerial == "none"
Free == "free"
NoWorker == [serial |-> NoSerial, health |-> "none"]
NoRequest == [pc |-> "none", slot |-> PanelSlot, member |-> "none", serial |-> NoSerial, left |-> {}]

(* There is one flat panel. *)
Live == IF family = "panel" THEN {PanelSlot} ELSE PairSlots

(* Accessory::new, Rotator::new, FlatPanel::new and load: what a restored  *)
(* profile file names is arbitrary, two slots may name one device.         *)
AsInit ==
    /\ family \in {"focuser", "rotator", "panel"}
    /\ \E profile \in [PairSlots -> Serials \cup {NoSerial}] :
          slots = [s \in PairSlots |->
                     [serial |-> profile[s], worker |-> NoWorker, clients |-> {},
                      fault |-> FALSE, lock |-> Free,
                      unaware |-> {}, misled |-> FALSE]]
    /\ gate = Free
    /\ asked = [h \in NetClients |-> NoRequest]

-----------------------------------------------------------------------------
(* A request arrives (accessory_request, rotator_request, *_configure,     *)
(* *_select, *_discover).                                                  *)

Members == {"on", "off", "command", "configure", "discover"}

(* Fault: a connect is not serialised with the other slots'. *)
GatedEdits(k, member) ==
    \/ k = "rotator" /\ member \notin {"on", "off"}
    \/ k = "focuser" /\ member \notin {"on", "off", "command"}

(* A rotator's requests are all gated, a focuser's those that claim a      *)
(* device; the panel is the only slot of its model.                        *)
Gated(k, member) ==
    \/ k = "rotator"
    \/ k = "focuser" /\ member # "command"

AsAsk(h, s, member, serial) ==
    /\ asked[h].pc = "none"
    /\ (member # "configure") => serial = NoSerial
    /\ asked' = [asked EXCEPT ![h] =
          [pc |-> IF Gated(family, member) THEN "gate"
                  ELSE IF family # "panel" /\ member \in {"on", "configure", "discover"} THEN "look"
                  ELSE "lock",
           slot |-> s, member |-> member, serial |-> serial,
           left |-> Live \ {s}]]
    /\ UNCHANGED <<family, slots, gate>>

(* A connect first reads its own profile: setup. *)
AsGate(h) ==
    /\ asked[h].pc = "gate"
    /\ gate = Free
    /\ gate' = h
    /\ asked' = [asked EXCEPT ![h].pc =
          IF asked[h].member \in {"on", "configure", "discover"} THEN "look" ELSE "lock"]
    /\ UNCHANGED <<family, slots>>

(* check_focuser_selection, check_rotator_selection, and the scan's check: *)
(* the serial asked for, and the slots that stand against it.              *)
Wanted(h) ==
    IF asked[h].member = "configure" THEN asked[h].serial ELSE slots[asked[h].slot].serial

Conflict(h, other) ==
    CASE asked[h].member = "on" ->
           other.clients # {} /\ Wanted(h) # NoSerial /\ other.serial = Wanted(h)
      [] asked[h].member = "configure" -> Wanted(h) # NoSerial /\ other.serial = Wanted(h)
      [] OTHER -> other.clients # {}

(* The request ends: its locks are released. *)
Freed(h) == gate' = IF gate = h THEN Free ELSE gate

AsLook(h, other) ==
    /\ asked[h].pc = "look"
    /\ other \in asked[h].left
    /\ slots[other].lock = Free
    /\ IF Conflict(h, slots[other])
       THEN asked' = [asked EXCEPT ![h] = NoRequest] /\ Freed(h)
       ELSE asked' = [asked EXCEPT ![h].left = @ \ {other},
                                   ![h].pc = IF asked[h].left = {other} THEN "lock" ELSE "look"]
            /\ gate' = gate
    /\ UNCHANGED <<family, slots>>

(* request: a worker that exited is dropped with its clients; the panel    *)
(* keeps both, it must be disconnected by everyone first.                  *)
Reaped(k, s) ==
    IF k # "panel" /\ s.worker.health = "exited"
    THEN [s EXCEPT !.worker = NoWorker, !.clients = {}] ELSE s

AsLock(h) ==
    LET s == asked[h].slot IN
    /\ asked[h].pc = "lock"
    /\ slots[s].lock = Free
    /\ slots' = [slots EXCEPT ![s] =
          [(IF asked[h].member \in {"on", "off", "command"} THEN Reaped(family, @) ELSE @)
              EXCEPT !.lock = h]]
    /\ asked' = [asked EXCEPT ![h].pc = "held"]
    /\ UNCHANGED <<family, gate>>

Done(h, state) ==
    /\ slots' = [slots EXCEPT ![asked[h].slot] = [state EXCEPT !.lock = Free]]
    /\ asked' = [asked EXCEPT ![h] = NoRequest]
    /\ Freed(h)
    /\ UNCHANGED family

-----------------------------------------------------------------------------
(* connect, on.                                                            *)

Held(h, member) == asked[h].pc = "held" /\ asked[h].member = member

(* The panel refuses while it is faulted or its worker has exited. *)
Refuses(k, s) == k = "panel" /\ (s.fault \/ s.worker.health = "exited")

AsOn(h) ==
    LET s == asked[h].slot
        st == slots[s] IN
    /\ Held(h, "on")
    /\ IF Refuses(family, st) THEN Done(h, st)
       ELSE IF st.worker # NoWorker THEN Done(h, [st EXCEPT !.clients = @ \cup {h}])
       ELSE IF st.serial = NoSerial THEN Done(h, st)
       ELSE /\ asked' = [asked EXCEPT ![h].pc = "spawning"]
            /\ UNCHANGED <<family, slots, gate>>

(* The new worker's identity and status are read before it is kept. *)
AsSpawned(h, ok) ==
    LET st == slots[asked[h].slot] IN
    /\ asked[h].pc = "spawning"
    /\ Done(h, IF ok THEN [st EXCEPT !.worker = [serial |-> st.serial, health |-> "ok"],
                                     !.clients = @ \cup {h}]
               ELSE st)

(* connect, off: the last client takes the worker away; a rotator is       *)
(* stopped, and its position remembered, while the slot still has it.      *)
AsOff(h) ==
    LET s == asked[h].slot
        rest == [slots[s] EXCEPT !.clients = @ \ {h}, !.unaware = @ \ {h}]
        last == rest.clients = {} IN
    /\ Held(h, "off")
    /\ IF last /\ rest.worker # NoWorker
       THEN /\ slots' = [slots EXCEPT ![s] =
                  IF family = "rotator" THEN rest ELSE [rest EXCEPT !.worker = NoWorker]]
            /\ asked' = [asked EXCEPT ![h].pc = "closing"]
            /\ UNCHANGED <<family, gate>>
       ELSE Done(h, IF last THEN [rest EXCEPT !.fault = FALSE] ELSE rest)

AsClosed(h) ==
    /\ asked[h].pc = "closing"
    /\ Done(h, [slots[asked[h].slot] EXCEPT !.worker = NoWorker, !.fault = FALSE])

-----------------------------------------------------------------------------
(* The commands.                                                           *)

(* A member that reads or commands the device; the panel's go through      *)
(* native, which refuses once it is faulted.                               *)
Commandable(k, s, h) ==
    /\ h \in s.clients
    /\ k = "panel" => ~s.fault

(* The panel's failure; the ghost `unaware` has the clients that were      *)
(* connected then and have not disconnected since.                         *)
Faulted(st, failed) ==
    IF family = "panel" /\ failed
    THEN [st EXCEPT !.fault = TRUE, !.unaware = @ \cup st.clients] ELSE st

(* A retired or exited worker answers nothing. *)
AsCommand(h) ==
    LET s == asked[h].slot
        st == slots[s] IN
    /\ Held(h, "command")
    /\ IF ~Commandable(family, st, h) THEN Done(h, st)
       ELSE IF st.worker.health = "ok"
       THEN /\ asked' = [asked EXCEPT ![h].pc = "sent"]
            /\ slots' = [slots EXCEPT ![s].misled =
                  @ \/ st.unaware # {} \/ st.worker.serial # st.serial]
            /\ UNCHANGED <<family, gate>>
       ELSE Done(h, Faulted(st, TRUE))

(* The worker answers, refuses the command, or is lost: a lost request     *)
(* retires it.                                                             *)
AsAnswered(h, answer) ==
    LET s == asked[h].slot
        st == slots[s] IN
    /\ asked[h].pc = "sent"
    /\ (answer = "ok") => st.worker.health = "ok"
    /\ Done(h, [Faulted(st, answer # "ok") EXCEPT
                   !.worker.health = IF answer = "lost" /\ @ = "ok" THEN "retired" ELSE @])

(* configure, select: only without clients. *)
AsConfigure(h) ==
    LET st == slots[asked[h].slot] IN
    /\ Held(h, "configure")
    /\ Done(h, IF st.clients = {} THEN [st EXCEPT !.serial = asked[h].serial] ELSE st)

(* discover: a scan, only without clients, holding the slot. *)
AsDiscover(h) ==
    /\ Held(h, "discover")
    /\ Done(h, slots[asked[h].slot])

(* The client goes away: the request is dropped with its locks.  A worker  *)
(* that was being opened or closed is killed; one that had a request is    *)
(* retired by PendingRequest.                                              *)
AsDropped(h) ==
    LET s == asked[h].slot
        st == slots[s]
        retired == [st EXCEPT !.worker.health = IF @ = "ok" THEN "retired" ELSE @] IN
    /\ asked[h].pc # "none"
    /\ IF st.lock = h
       THEN Done(h, IF asked[h].pc = "sent" \/ (asked[h].pc = "closing" /\ family = "rotator")
                    THEN retired ELSE st)
       ELSE /\ asked' = [asked EXCEPT ![h] = NoRequest]
            /\ Freed(h)
            /\ UNCHANGED <<family, slots>>

(* The worker process exits: killed, or by itself. *)
AsExit(s) ==
    /\ slots[s].worker.health \in {"ok", "retired"}
    /\ slots' = [slots EXCEPT ![s].worker.health = "exited"]
    /\ UNCHANGED <<family, gate, asked>>

AsNext ==
    \/ \E h \in NetClients :
          \/ \E s \in Live, member \in Members, serial \in Serials \cup {NoSerial} :
                AsAsk(h, s, member, serial)
          \/ AsGate(h) \/ AsLock(h) \/ AsOn(h) \/ AsOff(h) \/ AsClosed(h)
          \/ \E other \in PairSlots : AsLook(h, other)
          \/ \E ok \in BOOLEAN : AsSpawned(h, ok)
          \/ AsCommand(h)
          \/ \E answer \in {"ok", "refused", "lost"} : AsAnswered(h, answer)
          \/ AsConfigure(h) \/ AsDiscover(h) \/ AsDropped(h)
    \/ \E s \in PairSlots : AsExit(s)

-----------------------------------------------------------------------------
(* The properties.                                                         *)

(* Two slots of one model never both hold a working worker of one device:  *)
(* the check of the other slots and the connect are one critical section.  *)
OneSlotPerDevice ==
    \A s, t \in PairSlots :
        s # t /\ slots[s].worker.health = "ok" /\ slots[t].worker.health = "ok"
            => slots[s].worker.serial # slots[t].worker.serial

(* A slot that has clients has a worker for them, which the request        *)
(* handlers take for granted.                                              *)
ClientsHaveWorker ==
    \A s \in PairSlots : slots[s].clients # {} => slots[s].worker # NoWorker

(* No command reached a device that the profile no longer names, nor a     *)
(* panel after a failure that not every client has been disconnected from. *)
NoneMisled == \A s \in PairSlots : ~slots[s].misled

(* What the slots promise, in the three parts above. *)
SlotsHonest == OneSlotPerDevice /\ ClientsHaveWorker /\ NoneMisled
=============================================================================
