----------------------------- MODULE QhyCamera -----------------------------
(***************************************************************************)
(* The QHY camera worker (regain-qhy) with the filter wheel on the         *)
(* camera's own connection, and the supervisor that owns it (the wheel     *)
(* operations of regain-core's Session, its open, capture, abort and       *)
(* close). The worker runs one command at a time, and between commands its *)
(* idle callback pumps a video stream and regulates the cooler; the camera *)
(* and its wheel go on by themselves. A supervisor that loses trust in the *)
(* worker kills it: what the worker knew is gone, the camera goes on.      *)
(*                                                                         *)
(* A worker function is an operator from a state to the set of its         *)
(* outcomes: any exchange with the camera may fail, and a write that       *)
(* failed may have been applied or not. Gains stand for the three imaging  *)
(* controls; geometry, bit depth and read mode for the mode of a start.    *)
(***************************************************************************)
EXTENDS Naturals

CONSTANTS
  QhyBackends,      \* a set of "direct" and "sdk"
  QhySlots,         \* the positions of the wheel
  QhyGains,         \* the values of the imaging controls
  QhyDefault,       \* the one that initialization programs
  MaxQhyFaults,     \* bound: exchanges that fail
  MaxQhyStarts,     \* bound: starts dispatched
  MaxQhyMoves,      \* bound: moves of the wheel
  Nil               \* Option::None

ASSUME QhyAssumption ==
  /\ QhyBackends \subseteq {"direct", "sdk"} /\ QhyDefault \in QhyGains
  /\ MaxQhyFaults \in Nat /\ MaxQhyStarts \in Nat /\ MaxQhyMoves \in Nat

VARIABLES
  qhy,    \* the worker's Host and Backend, and the camera behind them
  qsv     \* the supervisor's Session

qhyVars == <<qhy, qsv>>

---------------------------------------------------------------------------
(* Outcomes.                                                               *)

Failed(s) == IF s.faults > 0 THEN {[s EXCEPT !.ok = FALSE, !.faults = @ - 1]} ELSE {}
Refused(s) == {[s EXCEPT !.ok = FALSE]}
Exchange(s) == {s} \cup Failed(s)
Written(s, t) == {t} \cup Failed(s) \cup Failed(t)
Then(S, Op(_)) == UNION {IF s.ok THEN Op(s) ELSE {s} : s \in S}

---------------------------------------------------------------------------
(* The camera (external): its wheel, its cooler's drive, its gain, and the *)
(* exposure in progress. A frame records how it was exposed: by the start  *)
(* that asked for it or by an earlier one, with which gain, with the wheel *)
(* at which position (nil when it was not still all the time), and whether *)
(* by a worker that was opened while the wheel was not still. Its position *)
(* after the readout is noted when it is published.                        *)

Wheel(at, to, phase) == [at |-> at, to |-> to, phase |-> phase]
Standing(s) == IF s.wheel.phase = "still" THEN s.wheel.at ELSE Nil
Readback(s) == IF s.wheel.phase = "moving" THEN Nil ELSE s.wheel.at

Exposed(s, mode) ==
  [mode |-> mode, gain |-> s.sensor, own |-> s.run = Nil, at |-> Standing(s),
   adrift |-> s.adrift, end |-> Nil, done |-> FALSE]

(* A start of the sensor: over an exposure still in progress it yields     *)
(* that one's data.                                                        *)
Arm(s, mode) == Written(s, [s EXCEPT !.run = Exposed(s, mode)])

(* The wheel executes its last order, which it may have taken although its *)
(* acknowledgement was lost. Near its end the move reads as complete while *)
(* the wheel still settles: whatever is exposed then has no position.      *)
Blur(r) == IF r = Nil THEN Nil ELSE [r EXCEPT !.at = Nil]
WheelBegins ==
  /\ qhy.wheel.phase = "queued"
  /\ qhy' = [qhy EXCEPT !.wheel.phase = "moving", !.run = Blur(@)]
  /\ UNCHANGED qsv
WheelArrives ==
  /\ qhy.wheel.phase = "moving"
  /\ qhy' = [qhy EXCEPT !.wheel = Wheel(@.to, @.to, "settling"), !.run = Blur(@)]
  /\ UNCHANGED qsv
StillDone ==
  /\ qhy.run # Nil
  /\ qhy.run.mode = "still" /\ ~qhy.run.done
  /\ qhy' = [qhy EXCEPT !.run.done = TRUE]
  /\ UNCHANGED qsv

---------------------------------------------------------------------------
(* cfw::Motion: a move is complete after two matching readbacks a quarter  *)
(* of a second apart, and late after 45 seconds.  Fault: one is enough.    *)

Motion(target) == [target |-> target, matched |-> "no", late |-> FALSE]
Observe(m, position) ==
  IF position # m.target THEN [m EXCEPT !.matched = "no"]
  ELSE [m EXCEPT !.matched = IF @ = "no" THEN "now" ELSE @]
CompletedAtOnce(m, position) == position = m.target
Completed(m, position) == position = m.target /\ m.matched = "before"

(* A quarter of a second: longer than the wheel's settling, shorter than   *)
(* the opening of a camera.                                                *)
Settled(s) == IF s.wheel.phase = "settling" THEN [s EXCEPT !.wheel.phase = "still"] ELSE s
QuarterSecond ==
  LET settled == Settled(qhy)
  IN /\ qhy' = IF qhy.pending # Nil /\ qhy.pending.matched = "now"
                 THEN [settled EXCEPT !.pending.matched = "before"] ELSE settled
     /\ qhy' # qhy
     /\ UNCHANGED qsv
MotionLate ==
  /\ qhy.pending # Nil
  /\ ~qhy.pending.late
  /\ qhy' = [qhy EXCEPT !.pending.late = TRUE]
  /\ UNCHANGED qsv

---------------------------------------------------------------------------
(* The backends: direct::Camera and sdk::Sdk.                              *)

WheelSlots(s) == Exchange(s)
WheelPosition(s) == {[s EXCEPT !.got = Readback(s)]} \cup Failed(s)
(* A wheel that turns already turns on to its new target. *)
Ordered(w, p) == Wheel(w.at, p, IF w.phase \in {"still", "queued"} THEN "queued" ELSE "moving")
WheelOrder(s, p) ==
  Written(s, [s EXCEPT !.wheel = Ordered(@, p)])
Telemetry(s) == Exchange(s)
Power(s, on) == Written(s, [s EXCEPT !.drive = on])
SetGain(s, g) == Written(s, [s EXCEPT !.sensor = g])

(* direct::Camera::initialize_mode: whatever ran before is reset. *)
InitializeMode(s, mode) ==
  Written(s, [s EXCEPT !.run = Nil, !.sensor = QhyDefault, !.stream = mode])

(* direct::Camera::start_video: the sensor runs free, and its first frames *)
(* may still carry the former exposure.                                    *)
StartVideo(s) ==
  IF s.active \/ s.videoOn THEN Refused(s)
  ELSE Then(Then(InitializeMode(s, "video"), LAMBDA t : Arm(t, "video")),
            LAMBDA t : {[t EXCEPT !.active = TRUE, !.videoOn = TRUE, !.latest = Nil,
                                  !.discard = 2, !.stale = 2]})

(* direct::Camera::pump_video: at most one complete frame is retained, the *)
(* first two are discarded; a stream without progress is an error.         *)
VideoFrame(s) == [s.run EXCEPT !.own = @ /\ s.stale = 0, !.gain = s.sensor, !.done = TRUE]
NextVideoRun(s) == [s.run EXCEPT !.at = Standing(s)]
PumpVideo(s) ==
  IF ~s.videoOn \/ s.run = Nil THEN Exchange(s)
  ELSE LET t == [s EXCEPT !.run = NextVideoRun(s), !.stale = IF @ > 0 THEN @ - 1 ELSE 0]
       IN {s} \cup Failed(s)
          \cup {IF s.discard > 0 THEN [t EXCEPT !.discard = @ - 1]
                ELSE [t EXCEPT !.latest = VideoFrame(s)]}

(* direct::Camera::start programs the window and the time, and counts the  *)
(* acquisition as active before it dispatches the start.                   *)
DirectStart(s) ==
  IF s.active THEN Refused(s)
  ELSE Then(Exchange(s), LAMBDA t : Arm([t EXCEPT !.active = TRUE], "still"))

(* sdk::Sdk::start_full_frame. *)
SdkStart(s) ==
  IF s.active THEN Refused(s)
  ELSE Then(Exchange(s),
            LAMBDA t : Arm([t EXCEPT !.active = TRUE, !.attempted = FALSE], "still"))
BackendStart(s) == IF s.backend = "direct" THEN DirectStart(s) ELSE SdkStart(s)

(* direct::Camera::stop: a video is dropped and its pipe aborted, and the  *)
(* sensor left in its stream mode; a still is ended by a register write.   *)
DirectStop(s) ==
  IF s.videoOn
    THEN LET t == [s EXCEPT !.videoOn = FALSE, !.latest = Nil]
         IN Then(Exchange(t), LAMBDA u : {[u EXCEPT !.active = FALSE]})
    ELSE Then(Written(s, [s EXCEPT !.run = Nil]), LAMBDA u : {[u EXCEPT !.active = FALSE]})
SdkStop(s) ==
  IF ~s.active THEN {s}
  ELSE Then(Written(s, [s EXCEPT !.run = Nil]),
            LAMBDA u : {[u EXCEPT !.active = FALSE, !.attempted = FALSE]})
BackendStop(s) == IF s.backend = "direct" THEN DirectStop(s) ELSE SdkStop(s)

Ready(s) ==
  IF ~s.active THEN Refused(s)
  ELSE IF s.videoOn THEN {[s EXCEPT !.ready = s.latest # Nil]}
  ELSE {[s EXCEPT !.ready = s.run # Nil /\ s.run.done]} \cup Failed(s)

(* direct::Camera::download takes the retained video frame, or drains the  *)
(* image and ends the acquisition.                                         *)
DirectDownload(s) ==
  IF ~s.active THEN Refused(s)
  ELSE IF s.videoOn
    THEN IF s.latest = Nil THEN Refused(s)
         ELSE {[s EXCEPT !.frame = s.latest, !.latest = Nil]}
  ELSE IF s.run = Nil \/ ~s.run.done THEN Refused(s)
  ELSE Written(s, [s EXCEPT !.frame = s.run, !.run = Nil, !.active = FALSE])

(* sdk::Sdk::download: the vendor's read consumes the frame, so it is      *)
(* attempted once.                                                         *)
SdkDownload(s) ==
  IF s.attempted \/ ~s.active \/ s.run = Nil THEN Refused(s)
  ELSE LET t == [s EXCEPT !.attempted = TRUE]
       IN Written(t, [t EXCEPT !.frame = s.run, !.run = Nil, !.active = FALSE,
                               !.attempted = FALSE])
BackendDownload(s) == IF s.backend = "direct" THEN DirectDownload(s) ELSE SdkDownload(s)

---------------------------------------------------------------------------
(* worker::Host.                                                           *)

Fresh == [open |-> FALSE, exposing |-> FALSE, ready |-> FALSE, gain |-> QhyDefault,
          cool |-> FALSE, cancelled |-> FALSE, expected |-> Nil, pending |-> Nil,
          video |-> Nil, failed |-> FALSE, active |-> FALSE, videoOn |-> FALSE,
          latest |-> Nil, discard |-> 0, attempted |-> FALSE, frame |-> Nil,
          got |-> Nil, adrift |-> FALSE, ok |-> TRUE]
(* A new worker process, or none, behind the same camera. *)
Replaced(s) == [f \in DOMAIN s |-> IF f \in DOMAIN Fresh THEN Fresh[f] ELSE s[f]]

MovingNow(s) == s.got = Nil \/ s.pending # Nil

Noticed(s) ==
  IF s.pending = Nil THEN {s}
  ELSE IF s.pending.late THEN Refused(s)
  ELSE IF Completed(s.pending, s.got) THEN {[s EXCEPT !.pending = Nil, !.adrift = FALSE]}
  ELSE {[s EXCEPT !.pending = Observe(@, s.got)]}
WheelStatus(s) == Then(Then(WheelSlots(s), WheelPosition), Noticed)

Matching(s) == IF ~MovingNow(s) /\ s.got = s.expected THEN {s} ELSE Refused(s)
VerifyWheel(s) == IF s.expected = Nil THEN {s} ELSE Then(WheelStatus(s), Matching)

(* Host::tick: regulation may change the drive, every time or at each      *)
(* keepalive.                                                              *)
Regulate(s) == IF s.cool THEN {s} \cup Power(s, TRUE) ELSE {s}
Tick(s) == Then(Telemetry(s), Regulate)

(* Host::idle between commands; its failure is kept for the next command. *)
IdleOf(s) == Then(IF s.backend = "direct" THEN PumpVideo(s) ELSE {s}, Tick)
QhyIdle ==
  /\ qhy.open /\ ~qhy.failed
  /\ \E t \in IdleOf(qhy) : qhy' = [t EXCEPT !.ok = TRUE, !.failed = ~t.ok]
  /\ UNCHANGED qsv

(* Host::stop_with: the acquisition stays owned until the camera has       *)
(* acknowledged its end, and counts as cancelled from the first.           *)
Forgotten(s) == {[s EXCEPT !.exposing = FALSE, !.video = Nil]}
StopWith(s) ==
  Then(IF s.exposing \/ s.video # Nil
         THEN Then(BackendStop([s EXCEPT !.ready = FALSE, !.cancelled = TRUE]), Forgotten)
         ELSE {s},
       LAMBDA t : {[t EXCEPT !.failed = FALSE]})

(* Host::close: the cooler is driven off whatever became of the stop, and  *)
(* the answer is clean only when both were acknowledged.                   *)
Both(t, wasOk) == [t EXCEPT !.ok = @ /\ wasOk]
Close(s) ==
  IF ~s.open THEN {s}
  ELSE UNION {{Both([u EXCEPT !.open = FALSE], t.ok) :
                 u \in Power([t EXCEPT !.ok = TRUE], FALSE)} : t \in StopWith(s)}

(* Host::open: identity, initialization, telemetry, cooler off. The SDK    *)
(* reports the gain it has, the direct backend programs the default.       *)
Opened(s) == [s EXCEPT !.open = TRUE, !.cool = FALSE, !.cancelled = FALSE,
                       !.gain = s.sensor, !.adrift = s.wheel.phase # "still"]
Open(s) ==
  IF s.open THEN Refused(s)
  ELSE Then(Then(Then(InitializeMode(Settled(s), "still"), LAMBDA t : {Opened(t)}), Telemetry),
            LAMBDA t : Power(t, FALSE))

(* Host::command: after a failure in the background only stop and close    *)
(* are served.                                                             *)
Served(s, method) == s.failed => method \in {"stop", "close"}
Command(s, method, S) == IF Served(s, method) THEN S ELSE Refused(s)

(* "wheel-move": the intent is recorded before the order is dispatched. *)
WheelMove(s, p) ==
  IF s.exposing \/ s.video # Nil THEN Refused(s)
  ELSE Then(WheelStatus(s), LAMBDA t :
         IF MovingNow(t) THEN Refused(t)
         ELSE IF t.got = p THEN {[t EXCEPT !.expected = p]}
         ELSE WheelOrder([t EXCEPT !.expected = p, !.pending = Motion(p)], p))

(* "set" of an imaging control, and of the cooler (17). *)
SetImaging(s, g) ==
  IF s.exposing \/ s.video # Nil THEN Refused(s)
  ELSE Then(SetGain(s, g), LAMBDA t : {[t EXCEPT !.gain = g]})
SetCooler(s, on) ==
  Then(IF on THEN {s} ELSE Power(s, FALSE), LAMBDA t : {[t EXCEPT !.cool = on]})

(* "resume-cooling": the former demand is written before regulation. *)
ResumeCooling(s) ==
  Then(Telemetry(s), LAMBDA t : IF t.cool THEN Power(t, TRUE) ELSE {t})

(* "start": the expected wheel position is verified, and no earlier        *)
(* acquisition may be unfinished.                                          *)
Expecting(s, expected) ==
  IF expected = Nil THEN {s}
  ELSE Then(WheelStatus(s), LAMBDA t : VerifyWheel([t EXCEPT !.expected = expected]))

(* A stream with the same settings goes on; another one is stopped, and    *)
(* the new one owned before it is started.                                 *)
VideoReused(s, g) == s.video = [gain |-> g]
StreamOf(s, g) ==
  Then(Then(StopWith(s), LAMBDA t : StartVideo([t EXCEPT !.exposing = TRUE])),
       LAMBDA t : Then(SetGain(t, g),
                       LAMBDA u : {[u EXCEPT !.gain = g, !.video = [gain |-> g]]}))
StartStream(s, g) ==
  Then(IF VideoReused(s, g) THEN {s} ELSE StreamOf(s, g),
       LAMBDA t : {[t EXCEPT !.exposing = TRUE, !.cancelled = FALSE, !.ready = FALSE]})

(* A still ends a stream, reprograms a camera whose last acquisition was   *)
(* cancelled or failed, and owns the exposure before it is dispatched.     *)
Reprogrammed(s) ==
  Then(Then(IF s.backend = "direct" THEN InitializeMode(s, "still") ELSE {s},
            LAMBDA t : SetGain(t, s.gain)),
       LAMBDA t : {[t EXCEPT !.cancelled = FALSE]})
StartStill(s) ==
  Then(Then(IF s.video # Nil THEN StopWith(s) ELSE {s},
            LAMBDA t : IF t.cancelled THEN Reprogrammed(t) ELSE {t}),
       LAMBDA t : BackendStart([t EXCEPT !.exposing = TRUE, !.ready = FALSE]))
Start(s, mode, g, expected) ==
  Then(Expecting(s, expected), LAMBDA t :
    IF t.exposing THEN Refused(t)
    ELSE IF mode = "video" THEN StartStream(t, g) ELSE StartStill(t))

(* "status": 3 when cancelled, 0 without an exposure, else 2 when ready;   *)
(* a stream's frames are also paced, which delays an answer of 2.          *)
Status(s) ==
  IF s.cancelled \/ ~s.exposing THEN {[s EXCEPT !.ready = FALSE]}
  ELSE Then(Then(Tick(s), Ready),
            LAMBDA t : {t} \cup IF t.video # Nil THEN {[t EXCEPT !.ready = FALSE]} ELSE {})

(* "download": the exposure counts as cancelled until its frame is there   *)
(* and the wheel is verified once more.                                    *)
Verified(s) == VerifyWheel(s)
Download(s) ==
  IF ~s.exposing \/ ~s.ready THEN Refused(s)
  ELSE Then(Then(BackendDownload([s EXCEPT !.ready = FALSE, !.cancelled = TRUE]), Verified),
            LAMBDA t : {[t EXCEPT !.exposing = FALSE, !.cancelled = FALSE]})

---------------------------------------------------------------------------
(* The supervisor: Session.                                                *)

Idle(q) == q.live /\ q.pc = "idle"

(* The frame last published is looked at until the supervisor's next step,  *)
(* and what was asked for until then or the end of the exposure.            *)
Onward(q) == [q EXCEPT !.frame = Nil, !.asked = IF q.pc = "idle" THEN Nil ELSE @]
WithoutWorker(q) == Onward([q EXCEPT !.live = FALSE, !.pc = "idle"])

(* An answer without error; any other makes the supervisor kill the worker. *)
Answered(S, q) ==
  \/ \E t \in {t \in S : t.ok} : qhy' = [t EXCEPT !.got = Nil, !.frame = Nil] /\ qsv' = Onward(q)
  \/ \E t \in {t \in S : ~t.ok} :
       qhy' = Replaced(t) /\ qsv' = WithoutWorker(qsv)

(* Session::invalidate, or the end of the worker process. *)
WorkerDies ==
  /\ qsv.live /\ qhy.faults > 0
  /\ qhy' = [Replaced(qhy) EXCEPT !.faults = @ - 1]
  /\ qsv' = WithoutWorker(qsv)

(* Session::open and apply: the desired controls are restored, the cooler  *)
(* last, and its former demand resumed.                                    *)
Restored(s) ==
  Then(Then(IF s.gain # qsv.gain THEN SetImaging(s, qsv.gain) ELSE {s},
            LAMBDA t : IF qsv.cool THEN SetCooler(t, TRUE) ELSE {t}),
       LAMBDA t : IF qsv.cool THEN ResumeCooling(t) ELSE {t})
SessionOpen ==
  /\ ~qsv.live
  /\ Answered(Then(Open(qhy), Restored), [qsv EXCEPT !.live = TRUE, !.off = FALSE])

(* Session::filter_wheel_status: the first one must find the wheel at      *)
(* rest, later ones keep the expected position. Its errors, and those of   *)
(* a move, are returned and the worker kept.                               *)
Kept(S, Q(_)) ==
  \E t \in S : qhy' = [t EXCEPT !.ok = TRUE, !.got = Nil] /\ qsv' = IF t.ok THEN Q(t) ELSE qsv
Adopted(t) ==
  IF qsv.expected # Nil THEN qsv
  ELSE IF MovingNow(t) THEN qsv
  ELSE [qsv EXCEPT !.expected = t.got]
FilterWheelStatus ==
  /\ Idle(qsv)
  /\ Kept(Command(qhy, "wheel-status", WheelStatus(qhy)), Adopted)

(* Session::filter_wheel_move: the supervisor too records the target       *)
(* before the order leaves, and never repeats an order.                    *)
FilterWheelMove ==
  /\ Idle(qsv) /\ qsv.moves < MaxQhyMoves
  /\ \E p \in QhySlots : \E t \in Command(qhy, "wheel-status", WheelStatus(qhy)) :
       IF ~t.ok \/ MovingNow(t)
         THEN qhy' = [t EXCEPT !.ok = TRUE, !.got = Nil] /\ UNCHANGED qsv
         ELSE \E u \in WheelMove(t, p) :
                /\ qhy' = [u EXCEPT !.ok = TRUE, !.got = Nil]
                /\ qsv' = [qsv EXCEPT !.expected = p, !.moves = @ + 1]

SetImagingControl ==
  /\ Idle(qsv)
  /\ \E g \in QhyGains \ {qsv.gain} :
       Answered(Command(qhy, "set", SetImaging(qhy, g)), [qsv EXCEPT !.gain = g])
ServiceCooling ==
  /\ Idle(qsv)
  /\ Answered(Command(qhy, "set", SetCooler(qhy, ~qsv.cool)), [qsv EXCEPT !.cool = ~@])

(* Session::attempt: start with the expected wheel position, poll,         *)
(* download, publish. An error at any stage ends the worker.               *)
SessionStart ==
  /\ Idle(qsv) /\ qsv.starts < MaxQhyStarts
  /\ \E mode \in {"still"} \cup {m \in {"video"} : qhy.backend = "direct"} :
       Answered(Command(qhy, "start", Start(qhy, mode, qsv.gain, qsv.expected)),
                [qsv EXCEPT !.pc = "polling", !.starts = @ + 1,
                            !.asked = [mode |-> mode, gain |-> qsv.gain,
                                       expected |-> qsv.expected]])
SessionPoll ==
  /\ qsv.live /\ qsv.pc = "polling"
  /\ \E t \in Command(qhy, "status", Status(qhy)) :
       IF t.ok /\ t.exposing /\ ~t.cancelled
         THEN qhy' = t /\ qsv' = [qsv EXCEPT !.pc = IF t.ready THEN "ready" ELSE "polling"]
         ELSE qhy' = Replaced(t) /\ qsv' = WithoutWorker(qsv)
SessionDownload ==
  /\ qsv.live /\ qsv.pc = "ready"
  /\ \E t \in Command(qhy, "download", Download(qhy)) :
       IF t.ok
         THEN /\ qhy' = [t EXCEPT !.frame = Nil, !.got = Nil]
              /\ qsv' = [qsv EXCEPT !.pc = "idle",
                                  !.frame = [t.frame EXCEPT !.end = Readback(t)]]
         ELSE qhy' = Replaced(t) /\ qsv' = WithoutWorker(qsv)

(* An abort, or the end of a stream: an acknowledged stop keeps the worker. *)
SessionAbort ==
  /\ qsv.live /\ (qsv.pc # "idle" \/ qhy.video # Nil)
  /\ Answered(Command(qhy, "stop", StopWith(qhy)), [qsv EXCEPT !.pc = "idle"])

(* Session::close: when the worker's close is not clean, a new worker is   *)
(* opened only to close it; a disconnect known to be clean is noted.       *)
Retried(t) == {t} \cup Then(Then(Open(Replaced(t)), Close), LAMBDA u : {u})
SessionClose ==
  /\ qsv.live /\ qsv.pc = "idle"
  /\ \E t \in Close(qhy) :
       \E u \in IF t.ok THEN {t} ELSE Retried(t) :
         /\ qhy' = Replaced(u)
         /\ qsv' = [qsv EXCEPT !.live = FALSE, !.off = u.ok, !.cool = FALSE, !.frame = Nil,
                                 !.asked = Nil]

---------------------------------------------------------------------------
(* A camera found in any state of its cooler and gain.                     *)
QhyInit ==
  /\ \E b \in QhyBackends, p \in QhySlots, d \in BOOLEAN :
       qhy = [f \in DOMAIN Fresh \cup {"backend", "wheel", "drive", "sensor", "stream",
                                       "run", "stale", "faults"} |->
                CASE f = "backend" -> b [] f = "wheel" -> Wheel(p, p, "still")
                  [] f = "drive" -> d [] f = "sensor" -> QhyDefault
                  [] f = "stream" -> "still" [] f = "run" -> Nil [] f = "stale" -> 0
                  [] f = "faults" -> MaxQhyFaults [] OTHER -> Fresh[f]]
  /\ qsv = [live |-> FALSE, expected |-> Nil, pc |-> "idle", gain |-> QhyDefault,
            cool |-> FALSE, asked |-> Nil, frame |-> Nil, starts |-> 0, moves |-> 0,
            off |-> FALSE]

QhyNext ==
  \/ WheelBegins \/ WheelArrives \/ StillDone \/ QuarterSecond \/ MotionLate
  \/ QhyIdle \/ WorkerDies \/ SessionOpen
  \/ FilterWheelStatus \/ FilterWheelMove \/ SetImagingControl \/ ServiceCooling
  \/ SessionStart \/ SessionPoll \/ SessionDownload \/ SessionAbort \/ SessionClose

QhySpec == QhyInit /\ [][QhyNext]_qhyVars

---------------------------------------------------------------------------
(* A frame that the supervisor publishes was exposed by the start that     *)
(* asked for it, in its mode and with the gain last acknowledged, with the *)
(* wheel still at the expected position from the start to the readout:     *)
(* whatever was cancelled, streamed, ordered without acknowledgement or    *)
(* lost with a former worker (worker.rs start, download, stop_with; cfw.rs *)
(* observe; session.rs).  A worker that was opened in the middle of a move *)
(* is excepted: until a move of its own completes it knows of no pending   *)
(* move (worker.rs:241) and takes the first matching readback for its end; *)
(* of its frames only the position after the readout is claimed.           *)
FrameAsAsked ==
  qsv.frame # Nil =>
    /\ qsv.frame.own /\ qsv.frame.mode = qsv.asked.mode /\ qsv.frame.gain = qsv.asked.gain
    /\ qsv.asked.expected # Nil =>
         /\ qsv.frame.end = qsv.asked.expected
         /\ ~qsv.frame.adrift => qsv.frame.at = qsv.asked.expected

(* While the worker holds the camera with cooling off, and after a         *)
(* disconnect it called clean, the cooler is not driven.                   *)
CoolerOffIsOff == (qhy.open /\ ~qhy.cool) \/ qsv.off => ~qhy.drive

QhyHonest == FrameAsAsked /\ CoolerOffIsOff
=============================================================================
