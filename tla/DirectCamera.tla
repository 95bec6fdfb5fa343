---------------------------- MODULE DirectCamera ----------------------------
(***************************************************************************)
(* The SDK-less ZWO camera worker of regain-zwo (asi/direct).  A command   *)
(* thread (Host in server.rs) serves one request at a time; a USB owner    *)
(* thread (Worker::open) takes work from a channel, runs a model's capture *)
(* as a sequence of register transactions, and services the cooler between *)
(* them.  The two share the cancellation flag and the one-slot queue of    *)
(* cooling requests (environment/control.rs).                              *)
(*                                                                         *)
(* A capture is the list of the steps the model's source takes in order.   *)
(* What a step does to the camera is common to the models: the exposure    *)
(* gates, the acquisition that is armed, the frame its memory retains and  *)
(* the cooler's output.  A USB transfer may fail, with or without its      *)
(* effect; the camera may accept a stop and keep its frame.                *)
(***************************************************************************)
EXTENDS Naturals, Sequences

CONSTANTS Families,        \* the capture sequences, a subset of the four
          MaxShots,        \* exposures a run starts
          MaxFaults,       \* failures of the USB or of the camera
          ReadRetries,     \* read_retries of the settings
          MaxSets          \* cooler commands a run issues

VARIABLES host,      \* the command thread
          work,      \* the USB owner thread
          cool,      \* the cooling queue and the environment's own state
          cam,       \* the camera
          bounds     \* shots, faults and cooler commands so far

dcVars == <<host, work, cool, cam, bounds>>

Cooled(f) == f # "guide"
HasVideo(f) == f = "bayer"

(* capture_native of the ASI6200: factory data and initialization are      *)
(* skipped while the connection state of the last capture is valid.  The   *)
(* queued read overlaps the exposure, the frame is frozen afterwards.      *)
Program6200(ready) ==
    (IF ready THEN <<>> ELSE <<"load", "init", "restore">>)
        \o <<"program", "halt", "cleared", "check", "arm">>
Read6200 == <<"expose", "integrate", "read">>

(* capture_native of the ASI2600, which initializes for every frame and    *)
(* waits for it in the camera's memory before it is read.                  *)
Program2600 == <<"init", "load", "restore", "program", "halt", "cleared", "check", "arm">>
Read2600 == <<"expose", "integrate", "ready", "freeze", "read">>

(* bayer::configure and capture.                                           *)
ConfigureBayer == <<"init", "load", "restore", "program">>
CaptureBayer ==
    <<"halt", "cleared", "check", "arm", "expose", "integrate", "ready", "freeze", "read">>

(* asi220::capture: a stream without retained memory.                      *)
ProgramGuide == <<"halt", "load", "init", "program", "halt", "check", "arm">>
StreamGuide == <<"stream", "halt">>

(* Video::start.                                                           *)
StartVideo == ConfigureBayer \o <<"halt", "check", "arm", "started">>

StillSteps(f, ready) ==
    CASE f = "asi6200" -> Program6200(ready) \o Read6200
      [] f = "asi2600" -> Program2600 \o Read2600
      [] f = "bayer"   -> ConfigureBayer \o CaptureBayer
      [] OTHER         -> ProgramGuide \o StreamGuide

(* The steps at which the owner services the environment: it looks at the  *)
(* cancellation flag there and takes a queued cooling request.             *)
Checkpoints == {"pace", "check", "integrate", "ready", "read", "stream", "vread"}

NewHost(f) == [family |-> f, open |-> FALSE, pending |-> 0, frame |-> "none", got |-> 0,
               doubt |-> FALSE, video |-> FALSE, wait |-> "none", method |-> "none",
               last |-> 0, said |-> "none"]
Gone == [alive |-> FALSE, queue |-> <<>>, steps |-> <<>>, err |-> "none", shot |-> 0,
         video |-> FALSE, got |-> 0, reads |-> 0, restarted |-> FALSE, ready |-> FALSE,
         session |-> "none", reply |-> "none", stopped |-> "none", cancel |-> FALSE,
         closing |-> FALSE, last |-> "none"]
NoCooling == [slot |-> "none", value |-> FALSE, closed |-> TRUE, enabled |-> FALSE,
              answer |-> "none", doubted |-> FALSE, after |-> FALSE]

DcInit == /\ host \in {NewHost(f) : f \in Families}
          /\ work = Gone
          /\ cool = NoCooling
          /\ cam = [gated |-> FALSE, armed |-> 0, ddr |-> 0, cold |-> FALSE]
          /\ bounds = [shots |-> 0, faults |-> 0, sets |-> 0]

Quiet == host.wait = "none"
Faulty == bounds.faults < MaxFaults
Fault(n) == bounds' = [bounds EXCEPT !.faults = @ + n]
AtRest == ~cam.gated /\ cam.armed = 0 /\ cam.ddr = 0

-----------------------------------------------------------------------------
(* The command thread.                                                     *)

(* Host::update: the result of the capture is taken from its channel.      *)
Updated(h) ==
    IF h.pending = 0 THEN h
    ELSE IF work.reply # "none"
         THEN [h EXCEPT !.frame = work.reply, !.got = work.got, !.pending = 0]
         ELSE IF ~work.alive THEN [h EXCEPT !.frame = "failed", !.pending = 0]
         ELSE h

(* open: the environment is read from the camera, so that a cooler left on *)
(* by an earlier worker is known; the ASI6200 is initialized at once.  The *)
(* failure of that ends the thermal output before the error is reported.   *)
Opened == /\ host' = [host EXCEPT !.open = TRUE, !.doubt = FALSE, !.said = "none", !.last = 0]
          /\ work' = [Gone EXCEPT !.alive = TRUE, !.ready = host.family = "asi6200"]
          /\ cool' = [NoCooling EXCEPT !.closed = FALSE, !.enabled = cam.cold]

DcOpen ==
    /\ Quiet /\ ~host.open
    /\ \/ Opened /\ UNCHANGED <<cam, bounds>>
       \/ /\ Faulty /\ Fault(1)
          /\ cam' = [cam EXCEPT !.cold = IF host.family = "asi6200" THEN FALSE ELSE @]
          /\ UNCHANGED <<host, work, cool>>

(* The work of a start: the mode and the flag are set before the channel   *)
(* is found closed.                                                        *)
Begun(h, v) ==
    LET shot == bounds.shots + 1
        begun == [h EXCEPT !.video = v, !.wait = "none", !.said = "none"] IN
    /\ bounds' = [bounds EXCEPT !.shots = shot]
    /\ IF work.alive
       THEN /\ host' = [begun EXCEPT !.pending = shot, !.last = shot]
            /\ work' = [work EXCEPT !.cancel = FALSE, !.reply = "none",
                            !.queue = Append(@, [kind |-> "capture", shot |-> shot, video |-> v])]
       ELSE host' = begun /\ work' = [work EXCEPT !.cancel = FALSE]

(* Worker::stop_video, up to its wait for the answer.                      *)
AskStopVideo(h, why) ==
    IF work.alive
    THEN /\ host' = [h EXCEPT !.wait = why]
         /\ work' = [work EXCEPT !.cancel = TRUE, !.stopped = "none",
                         !.queue = Append(@, [kind |-> "stopvideo", shot |-> 0, video |-> TRUE])]
    ELSE /\ host' = IF why = "video" THEN [h EXCEPT !.doubt = TRUE, !.method = "none"] ELSE h
         /\ work' = [work EXCEPT !.cancel = TRUE]

DcStart(v) ==
    LET h == Updated(host) IN
    /\ Quiet /\ h.open /\ bounds.shots < MaxShots
    /\ v => HasVideo(h.family)
    /\ h.pending = 0 /\ h.frame = "none" /\ ~h.doubt
    /\ IF h.video /\ ~v
       THEN AskStopVideo(h, "mode") /\ UNCHANGED bounds
       ELSE Begun(h, v)
    /\ UNCHANGED <<cool, cam>>

(* A still exposure after video waits for the stop of the stream.          *)
DcModeStopped ==
    /\ host.wait = "mode"
    /\ \/ work.stopped = "ok" /\ Begun(host, FALSE)
       \/ /\ \/ (work.stopped = "failed" \/ ~work.alive) /\ UNCHANGED bounds
             \/ work.stopped = "none" /\ work.alive /\ Faulty /\ Fault(1)
          /\ host' = [host EXCEPT !.wait = "none"]
          /\ UNCHANGED work
    /\ UNCHANGED <<cool, cam>>

(* download.                                                               *)
DcDownload ==
    LET h == Updated(host) IN
    /\ Quiet /\ h.frame # "none"
    /\ host' = [h EXCEPT !.frame = "none", !.doubt = h.frame # "ok"]
    /\ UNCHANGED <<work, cool, cam, bounds>>

Clean(frame) == frame \in {"none", "ok", "cancelled"}

(* The end of stop; close goes on with the thermal controls.               *)
StopEnds(h) ==
    [h EXCEPT !.frame = "none", !.pending = 0,
              !.wait = IF h.method = "close" /\ h.open THEN "off" ELSE "none",
              !.method = IF h.method = "close" THEN @ ELSE "none",
              !.said = IF h.method = "stop" /\ h.last # 0 THEN "stopped" ELSE @]
StopFails(h) == [h EXCEPT !.doubt = TRUE, !.wait = "none", !.method = "none"]

DcStop(method) ==
    LET h == [Updated(host) EXCEPT !.method = method] IN
    /\ Quiet /\ h.open
    /\ ~(method = "stop" /\ h.doubt)
    /\ \/ /\ ~Clean(h.frame) /\ method = "stop"
          /\ host' = StopFails(h) /\ UNCHANGED work
       \/ /\ Clean(h.frame) \/ method = "close"
          /\ \/ /\ h.pending # 0 /\ ~h.video
                /\ host' = [h EXCEPT !.wait = "abort"]
                /\ work' = [work EXCEPT !.cancel = TRUE]
             \/ h.video /\ AskStopVideo(h, "video")
             \/ /\ h.pending = 0 /\ ~h.video
                /\ host' = StopEnds(h) /\ UNCHANGED work
    /\ UNCHANGED <<cool, cam, bounds>>

(* The abort of a still exposure waits for the capture's own result, at    *)
(* most for twenty seconds.  Its receiver is dropped when that has passed. *)
DcAborted ==
    /\ host.wait = "abort"
    /\ \/ /\ work.reply # "none"
          /\ host' = IF Clean(work.reply) THEN StopEnds(host)
                     ELSE StopFails([host EXCEPT !.pending = 0])
          /\ UNCHANGED bounds
       \/ /\ work.reply = "none" /\ ~work.alive
          /\ host' = StopFails([host EXCEPT !.pending = 0])
          /\ UNCHANGED bounds
       \/ /\ work.reply = "none" /\ work.alive /\ Faulty
          /\ Fault(1)
          /\ host' = StopFails([host EXCEPT !.pending = 0])
    /\ UNCHANGED <<work, cool, cam>>

(* The answer to stop_video.                                               *)
DcVideoStopped ==
    /\ host.wait = "video"
    /\ \/ /\ work.stopped = "ok"
          /\ host' = StopEnds([host EXCEPT !.video = FALSE])
          /\ UNCHANGED bounds
       \/ /\ work.stopped = "failed" \/ ~work.alive
          /\ host' = StopFails(host)
          /\ UNCHANGED bounds
       \/ /\ work.stopped = "none" /\ work.alive /\ Faulty
          /\ Fault(1)
          /\ host' = StopFails(host)
    /\ UNCHANGED <<work, cool, cam>>

(* CoolingQueue::call.                                                     *)
Called(v) ==
    IF cool.closed THEN [cool EXCEPT !.answer = "closed"]
    ELSE IF cool.slot # "none" THEN [cool EXCEPT !.answer = "busy"]
    ELSE [cool EXCEPT !.slot = "queued", !.value = v, !.answer = "none"]

(* set of the cooler, which is admitted during a capture as well.          *)
DcSet(v) ==
    LET h == Updated(host) IN
    /\ Quiet /\ h.open /\ Cooled(h.family) /\ bounds.sets < MaxSets
    /\ host' = [h EXCEPT !.wait = "set"]
    /\ cool' = Called(v)
    /\ bounds' = [bounds EXCEPT !.sets = @ + 1]
    /\ UNCHANGED <<work, cam>>

(* close turns the cooler off through the same queue, then ends the owner. *)
DcOff ==
    /\ host.wait = "off"
    /\ host' = [host EXCEPT !.wait = "offset"]
    /\ cool' = IF Cooled(host.family) THEN Called(FALSE) ELSE [cool EXCEPT !.answer = "ok"]
    /\ UNCHANGED <<work, cam, bounds>>

(* What the caller of the queue is told: the owner's answer, or its own    *)
(* deadline, at which a request not yet taken is withdrawn and one already *)
(* dispatched keeps the slot.                                              *)
Told(h, answer) ==
    IF h.wait = "set"
    THEN [h EXCEPT !.wait = "none", !.doubt = @ \/ answer = "uncertain"]
    ELSE [h EXCEPT !.wait = "join", !.said = IF answer = "ok" THEN "off" ELSE "none"]

DcCooled ==
    /\ host.wait \in {"set", "offset"}
    /\ \/ /\ cool.answer # "none"
          /\ host' = Told(host, cool.answer)
          /\ cool' = [cool EXCEPT !.answer = "none", !.doubted = @ \/ cool.answer = "uncertain"]
       \/ /\ cool.answer = "none" /\ cool.slot = "queued"
          /\ host' = Told(host, "expired")
          /\ cool' = [cool EXCEPT !.slot = "none"]
       \/ /\ cool.answer = "none" /\ cool.slot = "running"
          /\ host' = Told(host, "uncertain")
          /\ cool' = [cool EXCEPT !.doubted = TRUE]
    /\ UNCHANGED <<work, cam, bounds>>

(* Worker::close: the sender is dropped and the thread joined.             *)
DcJoin ==
    /\ host.wait = "join"
    /\ \/ /\ work.alive /\ ~work.closing
          /\ work' = [work EXCEPT !.cancel = TRUE, !.closing = TRUE]
          /\ UNCHANGED host
       \/ /\ ~work.alive
          /\ host' = [NewHost(host.family) EXCEPT !.video = host.video, !.doubt = host.doubt,
                         !.said = IF host.said = "off" THEN "closed" ELSE "none"]
          /\ UNCHANGED work
    /\ UNCHANGED <<cool, cam, bounds>>

-----------------------------------------------------------------------------
(* The USB owner.                                                          *)

Idle == work.alive /\ work.steps = <<>> /\ cool.slot # "running"
Busy == work.alive /\ work.steps # <<>> /\ cool.slot # "running"
At(s) == Busy /\ Head(work.steps) = s

(* CoolingQueue::retire, when the owner thread ends.                       *)
Retired ==
    [cool EXCEPT !.closed = TRUE, !.slot = "none",
                 !.answer = CASE cool.slot = "queued" -> "closed"
                              [] cool.slot = "running" -> "uncertain"
                              [] OTHER -> @]
ThreadEnds(w) == /\ work' = [w EXCEPT !.alive = FALSE, !.queue = <<>>, !.steps = <<>>, !.session = "none"]
                 /\ cool' = Retired

(* The next work of the channel.                                           *)
DcTake ==
    LET job == Head(work.queue) IN
    /\ Idle /\ work.queue # <<>>
    /\ work' = [work EXCEPT !.queue = Tail(@), !.err = "none", !.got = 0, !.reads = 0,
                    !.restarted = FALSE, !.shot = job.shot, !.video = job.video,
                    !.steps = IF job.kind = "stopvideo" THEN <<"vstop">>
                              ELSE IF job.video THEN <<"pace", "vopen">>
                              ELSE (IF work.session # "none" THEN <<"vold">> ELSE <<>>)
                                       \o StillSteps(host.family, work.ready) \o <<"clean">>]
    /\ UNCHANGED <<host, cool, cam, bounds>>

(* service_environment of an idle owner: without a temperature the cooler  *)
(* is turned off and the thread ends.                                      *)
DcIdleFails ==
    /\ Idle /\ work.queue = <<>> /\ ~work.closing /\ Cooled(host.family) /\ Faulty
    /\ Fault(1)
    /\ cam' \in {cam, [cam EXCEPT !.cold = FALSE]}
    /\ ThreadEnds(work)
    /\ UNCHANGED host

(* The channel is closed: the stream is stopped and the thermal controls   *)
(* are turned off directly, whatever the queue's state.                    *)
DcDisconnected ==
    /\ Idle /\ work.queue = <<>> /\ work.closing
    /\ \/ cam' = [cam EXCEPT !.cold = FALSE] /\ UNCHANGED bounds
       \/ Faulty /\ Fault(1) /\ UNCHANGED cam
    /\ ThreadEnds(work)
    /\ UNCHANGED host

(* The watchdog ends the process when USB work hangs: the camera keeps its *)
(* state, the next process knows nothing of it.                            *)
DcWatchdog ==
    /\ Busy /\ Faulty /\ Fault(1)
    /\ host' = NewHost(host.family) /\ work' = Gone /\ cool' = NoCooling
    /\ UNCHANGED cam

(* CoolingQueue::service takes the request at a checkpoint ...             *)
DcDispatch ==
    /\ cool.slot = "queued" /\ work.alive
    /\ \/ Idle
       \/ Busy /\ Head(work.steps) \in Checkpoints /\ ~work.cancel
    /\ cool' = [cool EXCEPT !.slot = "running", !.after = @ \/ cool.doubted]
    /\ UNCHANGED <<host, work, cam, bounds>>

(* ... and publishes its outcome.  A failure, or an acknowledgement after  *)
(* the caller's deadline, closes the queue.                                *)
Settled(ok, late) ==
    [cool EXCEPT !.slot = "none", !.closed = ~ok \/ late,
                 !.enabled = IF ok THEN cool.value ELSE @,
                 !.answer = IF late THEN @ ELSE IF ok THEN "ok" ELSE "uncertain"]

DcApplied ==
    LET late == cool.doubted IN
    /\ cool.slot = "running" /\ work.alive
    /\ \/ /\ cam' = [cam EXCEPT !.cold = cool.value]
          /\ cool' = Settled(TRUE, late) /\ UNCHANGED bounds
       \/ /\ Faulty /\ Fault(1)
          /\ cam' \in {cam, [cam EXCEPT !.cold = cool.value]}
          /\ cool' = Settled(FALSE, late)
    /\ UNCHANGED <<host, work>>

-----------------------------------------------------------------------------
(* The steps of a capture.                                                 *)

Next1(w) == [w EXCEPT !.steps = Tail(@)]

(* Where an error leads.  Initialization restores the thermal outputs      *)
(* whatever happened in it (preserve_environment), every capture ends with *)
(* its full stop; an error of Video::start is followed by bayer::stop, an  *)
(* error of Video::next by Video::stop, one before either by nothing.      *)
OnError(w, err) ==
    LET s == Head(w.steps)
        Has(t) == \E i \in 1..Len(w.steps) : w.steps[i] = t
        end == CASE s \in {"pace", "vopen", "vold", "vrestart"} -> <<"reply">>
                 [] s = "vread" -> <<"vclean">>
                 [] w.video -> <<"vundo">>
                 [] OTHER -> <<"clean">> IN
    [w EXCEPT !.err = err, !.ready = @ /\ err = "cancelled",
              !.steps = IF Has("restore") /\ s \in {"init", "load"} /\ Cooled(host.family)
                        THEN <<"restore">> \o end ELSE end]

Advance(w) == work' = Next1(w) /\ UNCHANGED bounds
Fails(w) == Faulty /\ Fault(1) /\ work' = OnError(w, "failed")

(* Transactions without an effect the model keeps: the factory's           *)
(* calibration, the window, gain and exposure registers, standby.          *)
DcLoad ==
    /\ At("load")
    /\ Advance(work) \/ Fails(work)
    /\ UNCHANGED <<host, cool, cam>>

DcProgram ==
    /\ At("program")
    /\ Advance(work) \/ Fails(work)
    /\ UNCHANGED <<host, cool, cam>>

DcFreeze ==
    /\ At("freeze")
    /\ Advance(work) \/ Fails(work)
    /\ UNCHANGED <<host, cool, cam>>

(* Sensor initialization may reset the thermal outputs.                    *)
DcInitialize ==
    /\ At("init")
    /\ cam' \in {cam, [cam EXCEPT !.cold = FALSE]}
    /\ Advance(work) \/ Fails(work)
    /\ UNCHANGED <<host, cool>>

(* Environment::reapply.  Its failure is not a cancellation.               *)
DcRestore ==
    /\ At("restore")
    /\ \/ /\ Advance([work EXCEPT !.ready = work.err = "none"])
          /\ cam' = [cam EXCEPT !.cold = cool.enabled]
       \/ Fails(work) /\ UNCHANGED cam
    /\ UNCHANGED <<host, cool>>

(* A full stop: the gates are opened, the acquisition and the frame        *)
(* dropped.  A camera may answer it and keep its frame; bayer::stop reads  *)
(* the status back, the others leave that to the step after.               *)
Halted == [cam EXCEPT !.gated = FALSE, !.armed = 0, !.ddr = 0]
DcHalt ==
    /\ At("halt")
    /\ \/ Advance(work) /\ cam' = Halted
       \/ Fails(work) /\ cam' \in {cam, Halted}
       \/ /\ Faulty /\ Fault(1) /\ cam' = [Halted EXCEPT !.ddr = cam.ddr]
          /\ work' = IF host.family = "bayer" /\ cam.ddr # 0 THEN OnError(work, "failed") ELSE Next1(work)
    /\ UNCHANGED <<host, cool>>

DcCleared ==
    /\ At("cleared")
    /\ IF cam.ddr = 0 THEN Advance(work) \/ Fails(work)
       ELSE work' = OnError(work, "failed") /\ UNCHANGED bounds
    /\ UNCHANGED <<host, cool, cam>>

(* check_capture_cancelled.                                                *)
Stops(w) == work' = OnError(w, "cancelled") /\ UNCHANGED bounds
DcCheck ==
    /\ At("check")
    /\ IF work.cancel THEN Stops(work) ELSE Advance(work) \/ Fails(work)
    /\ UNCHANGED <<host, cool, cam>>

DcArm ==
    /\ At("arm")
    /\ \/ Advance(work) /\ cam' = [cam EXCEPT !.armed = work.shot]
       \/ Fails(work) /\ cam' \in {cam, [cam EXCEPT !.armed = work.shot]}
    /\ UNCHANGED <<host, cool>>

(* A long exposure is timed by the host with the gates closed, a short one *)
(* by the sensor.                                                          *)
DcExpose ==
    /\ At("expose")
    /\ \/ /\ Advance(work) /\ cam' = [cam EXCEPT !.gated = TRUE]
       \/ /\ work' = Next1(Next1(work)) /\ UNCHANGED <<cam, bounds>>
    /\ UNCHANGED <<host, cool>>

(* host_timed::expose restores the clocks whatever ended it, and a failure *)
(* of that is the result; the Bayer models leave it to the stop.           *)
Ungated(c) == [c EXCEPT !.gated = FALSE]
DcIntegrate ==
    LET own == host.family # "bayer" IN
    /\ At("integrate")
    /\ \/ Advance(work) /\ ~work.cancel /\ cam' = Ungated(cam)
       \/ work.cancel /\ Stops(work) /\ cam' = IF own THEN Ungated(cam) ELSE cam
       \/ Fails(work) /\ cam' \in (IF own THEN {cam, Ungated(cam)} ELSE {cam})
    /\ UNCHANGED <<host, cool>>

(* The sensor finishes the exposure and the frame reaches the memory.      *)
DcSensor ==
    /\ cam.armed # 0 /\ ~cam.gated /\ cam.ddr = 0
    /\ host.family # "guide" /\ ~work.video
    /\ cam' = [cam EXCEPT !.ddr = cam.armed, !.armed = 0]
    /\ UNCHANGED <<host, work, cool, bounds>>

(* The wait for the retained frame.                                        *)
DcReady ==
    /\ At("ready")
    /\ \/ cam.ddr # 0 /\ Advance(work)
       \/ work.cancel /\ Stops(work)
       \/ Fails(work)
    /\ UNCHANGED <<host, cool, cam>>

(* A read, or the repetition of one from the retained frame.               *)
DcRead ==
    /\ At("read") \/ At("stream")
    /\ \/ /\ ~work.cancel
          /\ \E frame \in (IF At("read") THEN {cam.ddr} ELSE {cam.armed}) \ {0} :
                Advance([work EXCEPT !.got = frame])
       \/ work.cancel /\ Stops(work)
       \/ /\ ~work.cancel /\ Faulty /\ Fault(1)
          /\ work' = IF work.reads < ReadRetries /\ (At("stream") \/ cam.ddr # 0)
                     THEN [work EXCEPT !.reads = @ + 1, !.ready = FALSE]
                     ELSE OnError(work, "failed")
    /\ UNCHANGED <<host, cool, cam>>

(* Fault: a cancelled capture counts as cancelled whatever its stop says.  *)
FinishedAnyway(err, cleaned) ==
    CASE err = "none" -> IF cleaned THEN "ok" ELSE "unclean"
      [] err = "cancelled" -> "cancelled"
      [] OTHER -> "failed"

(* completion::finish: a frame survives the failure of its cleanup, a      *)
(* cancellation does not.                                                  *)
Finished(err, cleaned) ==
    CASE err = "none" -> IF cleaned THEN "ok" ELSE "unclean"
      [] err = "cancelled" /\ cleaned -> "cancelled"
      [] OTHER -> "failed"

(* The full stop that ends every still capture.                            *)
DcClean ==
    /\ At("clean")
    /\ \E cleaned \in BOOLEAN, cam1 \in {cam, Halted, [Halted EXCEPT !.ddr = cam.ddr]} :
         /\ cleaned /\ cam1 = Halted => UNCHANGED bounds
         /\ ~(cleaned /\ cam1 = Halted) => Faulty /\ Fault(1)
         /\ cleaned => cam1.armed = 0 /\ ~cam1.gated
         /\ cleaned /\ host.family = "bayer" => cam1.ddr = 0
         /\ cam' = cam1
         /\ work' = [work EXCEPT !.err = Finished(work.err, cleaned), !.steps = <<"verify">>,
                                 !.ready = @ /\ cleaned]
    /\ UNCHANGED <<host, cool>>

(* The server looks at the memory once more after a cancelled still        *)
(* capture, unless the model has none.                                     *)
DcVerify ==
    LET asked == work.cancel /\ host.family # "guide" /\ work.err # "failed" IN
    /\ At("verify")
    /\ \/ /\ work' = [work EXCEPT !.steps = <<"reply">>,
                          !.err = IF asked /\ cam.ddr # 0 THEN "failed" ELSE @]
          /\ UNCHANGED bounds
       \/ /\ asked /\ Faulty /\ Fault(1)
          /\ work' = [work EXCEPT !.steps = <<"reply">>, !.err = "failed"]
    /\ UNCHANGED <<host, cool, cam>>

(* The reply: an owner whose receiver is gone ends.                        *)
DcReply ==
    LET said == IF work.err = "none" THEN "ok" ELSE work.err
        w == [work EXCEPT !.steps = <<>>, !.err = "none", !.last = said] IN
    /\ At("reply")
    /\ IF host.pending = work.shot
       THEN work' = [w EXCEPT !.reply = said] /\ UNCHANGED cool
       ELSE ThreadEnds(w)
    /\ UNCHANGED <<host, cam, bounds>>

-----------------------------------------------------------------------------
(* Video.                                                                  *)

(* The pacing of the stream, whose cancellation is an ordinary error.      *)
DcPace ==
    /\ At("pace")
    /\ IF work.cancel THEN work' = OnError(work, "failed") /\ UNCHANGED bounds
       ELSE Advance(work) \/ Fails(work)
    /\ UNCHANGED <<host, cool, cam>>

(* bayer::stop on behalf of a session: Video::stop and the cleanup of      *)
(* Video::start.                                                           *)
Stopping(done, failed) ==
    \/ cam' = Halted /\ work' = done /\ UNCHANGED bounds
    \/ Faulty /\ Fault(1) /\ cam' \in {cam, Halted} /\ work' = failed
Stopped(session) == session \in {"none", "stopped"}

(* A session that runs goes on; any other is stopped and started anew.     *)
DcVideoOpen ==
    LET fresh == [work EXCEPT !.session = "none", !.steps = StartVideo]
        lost == [work EXCEPT !.session = "none", !.err = "failed", !.steps = <<"reply">>] IN
    /\ At("vopen")
    /\ \/ /\ work.session = "active"
          /\ work' = [work EXCEPT !.steps = <<"vread">>] /\ UNCHANGED <<cam, bounds>>
       \/ /\ Stopped(work.session)
          /\ work' = (IF work.cancel THEN lost ELSE fresh) /\ UNCHANGED <<cam, bounds>>
       \/ work.session # "none" /\ ~Stopped(work.session)
          /\ Stopping(IF work.cancel THEN lost ELSE fresh, lost)
    /\ UNCHANGED <<host, cool>>

DcVideoStarted ==
    /\ At("started")
    /\ work' = [work EXCEPT !.session = "active", !.steps = <<"vread">>]
    /\ UNCHANGED <<host, cool, cam, bounds>>

(* Video::start failed: the camera is stopped, and the session is not kept *)
(* (the one before, already stopped, is when the stream was restarted).    *)
DcVideoUndo ==
    /\ At("vundo")
    /\ Stopping([work EXCEPT !.steps = <<"reply">>], [work EXCEPT !.steps = <<"reply">>, !.err = "failed"])
    /\ UNCHANGED <<host, cool>>

(* Video::read.  A frame with broken boundaries restarts the stream once.  *)
DcVideoRead ==
    /\ At("vread")
    /\ \/ /\ ~work.cancel
          /\ work' = [work EXCEPT !.got = cam.armed, !.steps = <<"reply">>] /\ UNCHANGED bounds
       \/ /\ work.cancel
          /\ \E err \in {"failed", "cancelled"} : work' = OnError(work, err)
          /\ UNCHANGED bounds
       \/ Fails(work)
       \/ /\ ~work.cancel /\ ~work.restarted /\ Faulty /\ Fault(1)
          /\ work' = [work EXCEPT !.restarted = TRUE, !.steps = <<"vrestart">>]
    /\ UNCHANGED <<host, cool, cam>>

DcVideoRestart ==
    /\ At("vrestart")
    /\ Stopping([work EXCEPT !.session = "stopped", !.steps = StartVideo],
                [work EXCEPT !.session = "failed", !.err = "failed", !.steps = <<"vclean">>])
    /\ UNCHANGED <<host, cool>>

(* Video::next ends the session after an error.                            *)
DcVideoClean ==
    /\ At("vclean")
    /\ Stopping([work EXCEPT !.session = "stopped", !.steps = <<"reply">>],
                [work EXCEPT !.session = "failed", !.steps = <<"reply">>, !.err = "failed"])
    /\ UNCHANGED <<host, cool>>

(* The stream an earlier capture left, before a still one.                 *)
DcVideoOld ==
    /\ At("vold")
    /\ IF Stopped(work.session)
       THEN work' = Next1([work EXCEPT !.session = "none"]) /\ UNCHANGED <<cam, bounds>>
       ELSE Stopping(Next1([work EXCEPT !.session = "none"]),
                     [work EXCEPT !.session = "none", !.err = "failed", !.steps = <<"reply">>])
    /\ UNCHANGED <<host, cool>>

(* Work::StopVideo: the session is taken, whatever its stop reports.       *)
DcVideoStop ==
    LET Answer(a) == [work EXCEPT !.session = "none", !.steps = <<>>, !.stopped = a] IN
    /\ At("vstop")
    /\ IF Stopped(work.session)
       THEN work' = Answer("ok") /\ UNCHANGED <<cam, bounds>>
       ELSE Stopping(Answer("ok"), Answer("failed"))
    /\ UNCHANGED <<host, cool>>

DcNext ==
    \/ DcOpen \/ (\E v \in BOOLEAN : DcStart(v) \/ DcSet(v)) \/ DcModeStopped \/ DcDownload
    \/ \E m \in {"stop", "close"} : DcStop(m)
    \/ DcAborted \/ DcVideoStopped \/ DcOff \/ DcCooled \/ DcJoin
    \/ DcTake \/ DcIdleFails \/ DcDisconnected \/ DcWatchdog \/ DcDispatch \/ DcApplied
    \/ DcLoad \/ DcProgram \/ DcFreeze \/ DcInitialize \/ DcRestore \/ DcHalt \/ DcCleared \/ DcCheck \/ DcArm
    \/ DcExpose \/ DcIntegrate \/ DcSensor \/ DcReady \/ DcRead \/ DcClean \/ DcVerify \/ DcReply
    \/ DcPace \/ DcVideoOpen \/ DcVideoStarted \/ DcVideoUndo \/ DcVideoRead \/ DcVideoRestart
    \/ DcVideoClean \/ DcVideoOld \/ DcVideoStop

-----------------------------------------------------------------------------
(* The frame a client can download was exposed by the start it follows: no *)
(* frame the camera retained from an aborted, failed or crashed capture is *)
(* ever delivered as the new one.                                          *)
FrameIsCurrent ==
    /\ host.frame \in {"ok", "unclean"} /\ ~host.video => host.got = host.last
    /\ host.pending # 0 /\ work.reply \in {"ok", "unclean"} /\ ~work.video => work.got = host.pending

(* A stop acknowledged after a still exposure leaves the clocks running    *)
(* and nothing armed; one that cancelled the exposure also leaves nothing  *)
(* retained, even by a camera that answers its stop and keeps the frame.   *)
AbortIsClean ==
    host.said = "stopped" /\ ~host.video /\ ~work.video =>
        /\ ~cam.gated /\ cam.armed = 0
        /\ work.last = "cancelled" /\ host.family # "guide" => cam.ddr = 0

(* A capture that ends well or by cancellation leaves the cooler as it was *)
(* commanded, although initialization may have reset it.                   *)
ThermalKept ==
    work.alive /\ work.steps = <<>> /\ cool.slot = "none" /\ ~cool.closed
        /\ work.last \in {"ok", "cancelled"} => cam.cold = cool.enabled

(* A close reported as done left the cooler off.                           *)
CloseIsCold == host.said = "closed" => ~cam.cold

(* No cooling request reaches the camera after one whose outcome the       *)
(* caller was told is unknown, until the camera is opened again.           *)
NoWriteAfterDoubt == ~cool.after

DirectHonest == FrameIsCurrent /\ AbortIsClean /\ ThermalKept /\ CloseIsCold /\ NoWriteAfterDoubt
=============================================================================
