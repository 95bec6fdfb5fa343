---------------------------- MODULE AlpacaCamera ----------------------------
(***************************************************************************)
(* One camera slot of the Alpaca server (regain-alpaca device.rs): camera  *)
(* and filter-wheel clients share one recovery session.  The state behind  *)
(* the synchronous lock (clients, busy, wheel_busy, the frame) admits      *)
(* requests; the session itself is behind an asynchronous FIFO lock, the   *)
(* engine, that captures, wheel moves, polls and connection changes take   *)
(* one after the other.                                                    *)
(*                                                                         *)
(* A task that has been spawned waits in "spawned" until it is first       *)
(* polled; a task that found the engine taken waits in engine.queue.  The  *)
(* session is a black box that answers or fails (CaptureSession models     *)
(* it).  Exposures are numbered; MaxExposures bounds them and MaxChanges   *)
(* the connection changes.                                                 *)
(***************************************************************************)
EXTENDS Naturals, Sequences, FiniteSets

CONSTANTS
    CameraClients,  \* clients of the camera role
    WheelClients,   \* clients of the wheel role
    MaxExposures,
    MaxChanges

VARIABLES
    dv,       \* device.rs State
    engine,   \* the session and the queue of tasks at its lock
    change,   \* the connection change task
    shots,    \* the capture tasks, one per admitted exposure
    wheel,    \* the wheel request being served
    aborts    \* the abort requests, and the shutdown

acVars == <<dv, engine, change, shots, wheel, aborts>>

Nobody == "nobody"
AllClients == CameraClients \cup WheelClients
Exposures == 1 .. MaxExposures

(* The tasks at the engine: an exposure's number is its capture task. *)
Unheld == 0
ChangeTask == MaxExposures + 1
WheelTask == MaxExposures + 2
PollTask == MaxExposures + 3
ShutdownTask == MaxExposures + 4

NoChange == [pc |-> "none", client |-> Nobody, on |-> FALSE]
NoWheel == [pc |-> "none", client |-> Nobody]

(* State::default and Device::new.  token is the exposure whose            *)
(* cancellation token is in the state, 0 for the initial one; warm is true *)
(* once a failed call left the thermal outputs in an unknown state.        *)
AcInit ==
    /\ dv = [clients |-> {}, status |-> FALSE, changing |-> FALSE, busy |-> FALSE,
             wheelBusy |-> FALSE, frame |-> 0, error |-> FALSE, token |-> 0,
             cancelled |-> {}, bin |-> 1, closed |-> FALSE, made |-> 0]
    /\ engine = [holder |-> Unheld, queue |-> <<>>, session |-> 0, cool |-> FALSE, warm |-> FALSE]
    /\ change = NoChange
    /\ shots = [e \in Exposures |-> "none"]
    /\ wheel = NoWheel
    /\ aborts = [c \in CameraClients \cup {"shutdown"} |-> "none"]

-----------------------------------------------------------------------------
(* The engine lock: tokio's mutex serves its waiters in order.             *)

Locked(e, task) ==
    IF e.holder = Unheld THEN [e EXCEPT !.holder = task]
    ELSE [e EXCEPT !.queue = Append(@, task)]

Unlocked(e) ==
    IF e.queue = <<>> THEN [e EXCEPT !.holder = Unheld]
    ELSE [e EXCEPT !.holder = Head(e.queue), !.queue = Tail(e.queue)]

(* A dropped future leaves the lock, or the queue. *)
Left(e, task) ==
    IF e.holder = task THEN Unlocked(e)
    ELSE [e EXCEPT !.queue = SelectSeq(@, LAMBDA t : t # task)]

Pending == {e \in Exposures : shots[e] \in {"spawned", "queued"}}

(* Cancelling the token in the state; that of an ended capture has no      *)
(* reader left.                                                            *)
Cancelled(d) == [d EXCEPT !.cancelled = @ \cup ({d.token} \cap Pending)]

HasCamera(clients) == clients \cap CameraClients # {}

-----------------------------------------------------------------------------
(* connected_role and change.                                              *)

(* connected_role: one change at a time; the work is spawned. *)
AcConnected(c, on) ==
    /\ ~dv.changing
    /\ ~dv.closed
    /\ dv.made < MaxChanges
    /\ dv' = [dv EXCEPT !.changing = TRUE, !.made = @ + 1]
    /\ change' = [pc |-> "spawned", client |-> c, on |-> on]
    /\ UNCHANGED <<engine, shots, wheel, aborts>>

(* The spawned task's end. *)
ChangeEnds(d) ==
    /\ dv' = [d EXCEPT !.changing = FALSE]
    /\ change' = NoChange

(* shutdown holds the connection gate from its first lock to its end. *)
GateFree == aborts["shutdown"] \notin {"queued", "closing"}

(* change, off: a client that leaves others behind only leaves. *)
StaysOpen(c, rest) == rest # {} /\ (c \in WheelClients \/ HasCamera(rest))

AcLeave ==
    LET rest == dv.clients \ {change.client} IN
    /\ change.pc = "spawned"
    /\ ~change.on
    /\ GateFree
    /\ IF change.client \notin dv.clients \/ StaysOpen(change.client, rest)
       THEN ChangeEnds([dv EXCEPT !.clients = rest]) /\ engine' = engine
       ELSE /\ dv' = Cancelled([dv EXCEPT !.clients = rest])
            /\ change' = [change EXCEPT !.pc = "closing"]
            /\ engine' = Locked(engine, ChangeTask)
    /\ UNCHANGED <<shots, wheel, aborts>>

(* change, off, with the engine: the wheel keeps the transport and the     *)
(* thermal outputs are disabled, or the session is closed.                 *)
AcRelease ==
    /\ change.pc = "closing"
    /\ engine.holder = ChangeTask
    /\ dv.clients # {}
    /\ \E ok \in BOOLEAN :
          engine' = Unlocked(IF engine.session = 0 THEN engine
                             ELSE IF ok THEN [engine EXCEPT !.cool = FALSE]
                             ELSE [engine EXCEPT !.warm = TRUE])
    /\ ChangeEnds(dv)
    /\ UNCHANGED <<shots, wheel, aborts>>

AcClose ==
    /\ change.pc = "closing"
    /\ engine.holder = ChangeTask
    /\ dv.clients = {}
    /\ engine' = [Unlocked(engine) EXCEPT !.session = 0, !.cool = FALSE, !.warm = FALSE]
    /\ ChangeEnds([dv EXCEPT !.status = FALSE, !.frame = 0, !.error = FALSE, !.busy = FALSE])
    /\ UNCHANGED <<shots, wheel, aborts>>

(* change, on: a role that joins an open session first has the wheel read  *)
(* or the profile's controls applied, with the engine.                     *)
AcJoin ==
    LET asks == \/ change.client \in WheelClients
                \/ ~HasCamera(dv.clients) IN
    /\ change.pc = "spawned"
    /\ change.on
    /\ GateFree
    /\ dv.status
    /\ IF asks
       THEN /\ change' = [change EXCEPT !.pc = "joining"]
            /\ engine' = Locked(engine, ChangeTask)
            /\ dv' = dv
       ELSE ChangeEnds([dv EXCEPT !.clients = @ \cup {change.client}]) /\ engine' = engine
    /\ UNCHANGED <<shots, wheel, aborts>>

(* The first camera client's controls are queued before the refresh that   *)
(* applies them: the refresh may fail after that.                          *)
AcJoined ==
    /\ change.pc = "joining"
    /\ engine.holder = ChangeTask
    /\ \E ok \in BOOLEAN, cooled \in BOOLEAN :
          /\ ok => engine.session # 0
          /\ LET camera == change.client \in CameraClients
                 cools == camera /\ engine.session # 0 IN
             engine' = Unlocked([engine EXCEPT !.cool = IF cools THEN @ \/ cooled ELSE @,
                                               !.warm = @ \/ (cools /\ ~ok)])
          /\ ChangeEnds(IF ok /\ dv.status THEN [dv EXCEPT !.clients = @ \cup {change.client}] ELSE dv)
    /\ UNCHANGED <<shots, wheel, aborts>>

(* A worker process is launched and identified: every task spawned before  *)
(* has been polled by then.                                                *)
Polled == \A e \in Exposures : shots[e] # "spawned"

(* change, on: a new session is opened, published, and then installed.     *)
(* The wheel role leaves the thermal controls alone.                       *)
AcOpen ==
    /\ change.pc = "spawned"
    /\ change.on
    /\ GateFree
    /\ ~dv.status
    /\ Polled
    /\ \/ /\ ChangeEnds(dv)
          /\ engine' = engine
       \/ /\ dv' = [dv EXCEPT !.status = TRUE, !.clients = @ \cup {change.client},
                              !.error = FALSE, !.frame = 0, !.bin = 1]
          /\ change' = [change EXCEPT !.pc = "installing"]
          /\ engine' = Locked(engine, ChangeTask)
    /\ UNCHANGED <<shots, wheel, aborts>>

AcInstall ==
    /\ change.pc = "installing"
    /\ engine.holder = ChangeTask
    /\ \E cooled \in BOOLEAN :
          engine' = [Unlocked(engine) EXCEPT !.session = dv.made,
                                             !.cool = cooled /\ change.client \in CameraClients]
    /\ ChangeEnds(dv)
    /\ UNCHANGED <<shots, wheel, aborts>>

-----------------------------------------------------------------------------
(* put: the camera client's commands.                                      *)

(* put: check, the change fence, the wheel fence. *)
Admitted(c) == c \in dv.clients /\ dv.status /\ ~dv.changing

(* put binx/biny/startx/numx...: the geometry, refused while busy. *)
AcGeometry(c, bin) ==
    /\ Admitted(c)
    /\ ~dv.busy
    /\ dv' = [dv EXCEPT !.bin = bin]
    /\ UNCHANGED <<engine, change, shots, wheel, aborts>>

(* put cooleron, setccdtemperature: queued at any time. *)
AcCooler(c, on) ==
    /\ Admitted(c)
    /\ engine.session # 0
    /\ engine' = [engine EXCEPT !.cool = on]
    /\ UNCHANGED <<dv, change, shots, wheel, aborts>>

(* The exposures started so far. *)
Started == Cardinality({e \in Exposures : shots[e] # "none"})

(* What keeps an exposure from being admitted. *)
ExposureFence == dv.busy \/ dv.wheelBusy

AcStartExposure(c) ==
    LET e == Started + 1 IN
    /\ Admitted(c)
    /\ ~ExposureFence
    /\ e \in Exposures
    /\ dv' = [dv EXCEPT !.frame = 0, !.error = FALSE, !.busy = TRUE, !.token = e]
    /\ shots' = [shots EXCEPT ![e] = "spawned"]
    /\ UNCHANGED <<engine, change, wheel, aborts>>

(* The capture task reaches the engine. *)
AcShotPolled(e) ==
    /\ shots[e] = "spawned"
    /\ shots' = [shots EXCEPT ![e] = "queued"]
    /\ engine' = Locked(engine, e)
    /\ UNCHANGED <<dv, change, wheel, aborts>>

(* What the capture task leaves behind: nothing if it was cancelled. *)
Published(d, e, ok) ==
    IF e \in d.cancelled THEN d
    ELSE IF ok THEN [d EXCEPT !.frame = e]
    ELSE [d EXCEPT !.error = TRUE]

(* idle.notify_waiters wakes the aborts that are asleep. *)
Woken(a) == [c \in DOMAIN a |-> IF a[c] = "asleep" THEN "awake" ELSE a[c]]

AcShotEnds(e) ==
    /\ shots[e] = "queued"
    /\ engine.holder = e
    /\ \E ok \in BOOLEAN :
          /\ ok => engine.session # 0
          /\ dv' = [Published(dv, e, ok) EXCEPT !.busy = FALSE]
    /\ shots' = [shots EXCEPT ![e] = "ended"]
    /\ engine' = Unlocked(engine)
    /\ aborts' = Woken(aborts)
    /\ UNCHANGED <<change, wheel>>

(* abort: cancels a busy exposure and waits until the camera is idle; the  *)
(* waiter is registered before it looks at busy.                           *)
AcAbort(c) ==
    /\ Admitted(c)
    /\ aborts[c] = "none"
    /\ dv' = IF dv.busy THEN Cancelled(dv) ELSE dv
    /\ aborts' = [aborts EXCEPT ![c] = "awake"]
    /\ UNCHANGED <<engine, change, shots, wheel>>

AcAbortLooks(c) ==
    /\ aborts[c] = "awake"
    /\ aborts' = [aborts EXCEPT ![c] = IF dv.busy THEN "asleep" ELSE "none"]
    /\ UNCHANGED <<dv, engine, change, shots, wheel>>

-----------------------------------------------------------------------------
(* wheel_request.                                                          *)

(* reserve_wheel: admission is taken before waiting for the engine. *)
AcReserveWheel(c) ==
    /\ c \in dv.clients
    /\ ~dv.busy /\ ~dv.wheelBusy /\ ~dv.changing
    /\ dv' = [dv EXCEPT !.wheelBusy = TRUE]
    /\ wheel' = [pc |-> "moving", client |-> c]
    /\ engine' = Locked(engine, WheelTask)
    /\ UNCHANGED <<change, shots, aborts>>

(* The move ends, fails, or finds no session; the reservation is dropped.  *)
(* The HTTP client may also go away, which drops the request anywhere.     *)
AcWheelEnds ==
    /\ wheel.pc = "moving"
    /\ wheel' = NoWheel
    /\ dv' = [dv EXCEPT !.wheelBusy = FALSE]
    /\ engine' = Left(engine, WheelTask)
    /\ UNCHANGED <<change, shots, aborts>>

(* The two-second refresh of a camera in use takes the engine when it is   *)
(* free, whatever has been admitted meanwhile; a client's poll of the      *)
(* wheel does so only while nothing is. Both hold it across a request to   *)
(* the session, and may be dropped there.                                  *)
AcPoll ==
    /\ engine.holder = Unheld
    /\ engine.session # 0
    /\ dv.status \/ dv.changing
    /\ engine' = Locked(engine, PollTask)
    /\ UNCHANGED <<dv, change, shots, wheel, aborts>>

AcPolled ==
    /\ engine.holder = PollTask
    /\ engine' = Unlocked(engine)
    /\ UNCHANGED <<dv, change, shots, wheel, aborts>>

-----------------------------------------------------------------------------
(* shutdown: no change is admitted afterwards.                             *)

AcShutdown ==
    /\ aborts["shutdown"] = "none"
    /\ dv' = Cancelled([dv EXCEPT !.closed = TRUE])
    /\ aborts' = [aborts EXCEPT !["shutdown"] = "gate"]
    /\ UNCHANGED <<engine, change, shots, wheel>>

AcShutdownQueues ==
    /\ aborts["shutdown"] = "gate"
    /\ change.pc \in {"none", "spawned"}
    /\ aborts' = [aborts EXCEPT !["shutdown"] = "queued"]
    /\ engine' = Locked(engine, ShutdownTask)
    /\ UNCHANGED <<dv, change, shots, wheel>>

AcShutdownEnds ==
    /\ aborts["shutdown"] = "queued"
    /\ engine.holder = ShutdownTask
    /\ engine' = [Unlocked(engine) EXCEPT !.session = 0, !.cool = FALSE, !.warm = FALSE]
    /\ dv' = [dv EXCEPT !.clients = {}, !.status = FALSE, !.frame = 0]
    /\ aborts' = [aborts EXCEPT !["shutdown"] = "ended"]
    /\ UNCHANGED <<change, shots, wheel>>

AcNext ==
    \/ \E c \in AllClients, on \in BOOLEAN : AcConnected(c, on)
    \/ AcLeave \/ AcRelease \/ AcClose
    \/ AcJoin \/ AcJoined \/ AcOpen \/ AcInstall
    \/ \E c \in CameraClients :
          \/ \E bin \in 1 .. 2 : AcGeometry(c, bin)
          \/ \E on \in BOOLEAN : AcCooler(c, on)
          \/ AcStartExposure(c) \/ AcAbort(c) \/ AcAbortLooks(c)
    \/ \E e \in Exposures : AcShotPolled(e) \/ AcShotEnds(e)
    \/ \E c \in WheelClients : AcReserveWheel(c)
    \/ AcWheelEnds \/ AcPoll \/ AcPolled
    \/ AcShutdown \/ AcShutdownQueues \/ AcShutdownEnds

-----------------------------------------------------------------------------
(* The properties.                                                         *)

(* An image the camera offers is the last exposure that was started, and   *)
(* that exposure was not aborted while it was taken.                       *)
ImageIsLast ==
    dv.frame # 0 => dv.frame = Started /\ Pending = {} /\ dv.frame \notin dv.cancelled

(* A wheel command and an exposure are never both admitted: neither is     *)
(* carried out behind the other's back.                                    *)
OneAdmitted ==
    /\ wheel.pc = "moving" => Pending \subseteq dv.cancelled
    /\ \A e, f \in Pending \ dv.cancelled : e = f

(* Between two changes a session is open exactly while a client is         *)
(* connected, and the published status is that session's.                  *)
SessionMatches ==
    ~dv.changing /\ ~dv.closed =>
        /\ dv.status = (engine.session # 0)
        /\ dv.status = (dv.clients # {})

(* Without a camera client the thermal outputs are off, unless a call that *)
(* would have switched them off, or a join, failed.                        *)
ThermalReleased ==
    ~dv.changing /\ ~HasCamera(dv.clients) /\ engine.cool => engine.warm

(* An abort that sleeps is woken: a capture task is still to end. *)
AbortWakes ==
    \A c \in CameraClients : aborts[c] = "asleep" => Pending # {}

(* What the slot promises its clients, in the five parts above. *)
DeviceHonest ==
    ImageIsLast /\ OneAdmitted /\ SessionMatches /\ ThermalReleased /\ AbortWakes
=============================================================================
