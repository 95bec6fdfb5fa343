-------------------------- MODULE ContinuousStream --------------------------
(***************************************************************************)
(* Continuous acquisition of a camera worker (regain-core continuous.rs):  *)
(* the owner thread drains the camera and publishes the newest frame; the  *)
(* I/O thread serves one client request at a time from what is published   *)
(* and passes on only what needs the camera. A step of the owner ends with *)
(* publish; what it did before is not visible to anyone. Settings "a" and  *)
(* "b" are video modes that differ in exposure or gain, "still" is not     *)
(* video.                                                                  *)
(***************************************************************************)
EXTENDS Naturals, Sequences

CONSTANT MaxConfigs   \* bound on the settings applied

ASSUME StreamAssumption == MaxConfigs \in Nat

VARIABLES
  xcam,   \* the camera: the settings of the frames in it, oldest first
  xown,   \* Stream: the owner's state
  xpub,   \* Published: what the threads share
  xio,    \* the request the I/O thread has handed to the owner
  xcl     \* history: what the client asked, was told and was given

csVars == <<xcam, xown, xpub, xio, xcl>>

Settings == {"a", "b", "still"}
NoFrame == [exp |-> "none", settled |-> FALSE, sess |-> 0]

NewStream ==
  [params |-> "none", req |-> "none", discard |-> 0, settling |-> FALSE, trans |-> FALSE,
   latest |-> NoFrame, failed |-> FALSE, stopping |-> FALSE, gen |-> 0, applied |-> 0]

CsInit ==
  /\ xcam = [cfg |-> "none", pipe |-> <<>>]
  /\ xown = NewStream
  /\ xpub = [active |-> FALSE, failed |-> FALSE, gen |-> 0, pending |-> FALSE,
             latest |-> NoFrame, unresponsive |-> FALSE, late |-> FALSE]
  /\ xio = [method |-> "none", p |-> "none", trans |-> FALSE]
  /\ xcl = [want |-> "none", trans |-> FALSE, told |-> FALSE, sess |-> 0, got |-> NoFrame]

NoRequest == [method |-> "none", p |-> "none", trans |-> FALSE]

-----------------------------------------------------------------------------
(* The camera                                                              *)

(* A video camera has one frame ready and one in exposure; a still camera  *)
(* exposes what it was started for.                                        *)
Filled(p) == IF p = "still" THEN <<p>> ELSE <<p, p>>
CameraStopped == [cfg |-> "none", pipe |-> <<>>]
CameraStarted(p) == [cfg |-> p, pipe |-> Filled(p)]
CameraRead == [xcam EXCEPT !.pipe = Append(Tail(@), xcam.cfg)]

-----------------------------------------------------------------------------
(* The owner                                                               *)

(* Whether the frame that was published before may stay.                   *)
StaysAvailable(s) ==
  /\ s.params # "none" /\ ~s.failed /\ s.req = "none" /\ xpub.gen = s.gen
  /\ s.trans \/ xpub.latest.settled

(* publish, of the state s; an owner that was given up on has failed.      *)
Publish(s) ==
  LET f == IF xpub.unresponsive /\ s.params # "none"
           THEN [s EXCEPT !.failed = TRUE, !.latest = NoFrame] ELSE s
      kept == IF StaysAvailable(f) THEN xpub.latest ELSE NoFrame IN
  /\ xown' = [f EXCEPT !.latest = NoFrame]
  /\ xpub' = [active |-> f.params # "none", failed |-> f.failed, gen |-> f.gen,
              pending |-> f.req # "none", late |-> FALSE,
              latest |-> IF f.latest # NoFrame THEN f.latest ELSE kept,
              unresponsive |-> xpub.unresponsive /\ f.params # "none"]

(* stop: cleaned up, or faulted for good.                                  *)
StopStream ==
  [NewStream EXCEPT !.trans = xown.trans, !.gen = xown.gen, !.applied = xown.applied]
StopFailed == [xown EXCEPT !.failed = TRUE, !.latest = NoFrame, !.req = "none"]

Acknowledged(c) == xio' = NoRequest /\ xcl' = [c EXCEPT !.got = NoFrame]
Refused == Acknowledged(xcl)   \* or nothing changed for the client

(* stream-start while nothing runs.                                        *)
CsStart ==
  /\ xio.method = "start" /\ ~xown.stopping /\ ~xown.failed /\ xown.params = "none"
  /\ xown.applied < MaxConfigs
  /\ xcam' = CameraStarted(xio.p)
  /\ Publish([StopStream EXCEPT !.params = xio.p, !.trans = xio.trans, !.gen = @ + 1,
                                !.applied = @ + 1])
  /\ Acknowledged([xcl EXCEPT !.want = xio.p, !.trans = xio.trans, !.told = FALSE, !.sess = @ + 1])

(* stream-start while a stream runs: the change waits for a frame's end.   *)
CsChange ==
  /\ xio.method = "start" /\ ~xown.stopping /\ ~xown.failed
  /\ xown.params \notin {"none", xio.p}
  /\ Publish([xown EXCEPT !.req = xio.p, !.latest = NoFrame, !.trans = xio.trans])
  /\ Acknowledged([xcl EXCEPT !.want = xio.p, !.trans = xio.trans])
  /\ UNCHANGED xcam

(* The settings that are in use already: a change that waits is dropped.   *)
CsSame ==
  /\ xio.method = "start" /\ ~xown.stopping /\ ~xown.failed
  /\ xown.params = xio.p
  /\ Publish([xown EXCEPT !.req = "none", !.trans = xio.trans])
  /\ Acknowledged([xcl EXCEPT !.want = xio.p, !.trans = xio.trans])
  /\ UNCHANGED xcam

(* Stopping, faulted, or a camera that refuses.                            *)
CsStartRefused ==
  /\ xio.method = "start" /\ (xown.params # xio.p \/ xown.failed \/ xown.stopping)
  /\ Publish(xown) /\ Refused /\ UNCHANGED xcam

(* stream-stop: a still exposure is waited out. The frame that was already *)
(* published stays available until then.                                   *)
CsStop ==
  /\ xio.method \in {"stop", "close"}
  /\ \/ /\ xio.method = "stop" /\ xown.params = "still" /\ ~xown.failed
        /\ Publish([xown EXCEPT !.stopping = TRUE, !.req = "none", !.latest = NoFrame])
        /\ Refused /\ UNCHANGED xcam
     \/ /\ xio.method = "stop" => xown.params # "still" \/ xown.failed
        /\ \/ /\ Publish(StopStream) /\ xcam' = CameraStopped
              /\ Acknowledged([xcl EXCEPT !.want = "none", !.told = FALSE])
           \/ /\ xown.params # "none" /\ Publish(StopFailed) /\ UNCHANGED xcam
              /\ Refused

(* open: refused while a stream is active; generations start again.        *)
CsOpen ==
  /\ xio.method = "open"
  /\ Publish(IF xown.params = "none" THEN [xown EXCEPT !.gen = 0] ELSE xown)
  /\ Refused /\ UNCHANGED xcam

TransitionFrames == 2

ScalarUpdate(old, new) == {old, new} \subseteq {"a", "b"}

(* tick with a change waiting: the frame in flight is drained first.       *)
CsApply ==
  /\ xown.params # "none" /\ ~xown.failed /\ ~xown.stopping /\ xown.req # "none"
  /\ xcam.pipe # <<>> /\ xown.applied < MaxConfigs
  /\ LET next == xown.req live == ScalarUpdate(xown.params, next) IN
     /\ xcam' = IF live THEN [CameraRead EXCEPT !.cfg = next] ELSE CameraStarted(next)
     /\ Publish([xown EXCEPT !.req = "none", !.params = next, !.latest = NoFrame, !.gen = @ + 1,
                   !.applied = @ + 1,
                   !.discard = IF live THEN TransitionFrames ELSE 0, !.settling = live])
  /\ UNCHANGED <<xio, xcl>>

(* tick with a frame: one that may be of the former settings is dropped or *)
(* marked. The settling time is over, or not yet, when it is read.         *)
CsFrame ==
  /\ xown.params # "none" /\ ~xown.failed /\ ~xown.stopping /\ xown.req = "none"
  /\ xcam.pipe # <<>>
  /\ \E early \in {FALSE, xown.settling} :
       LET transitional == xown.discard > 0 \/ early
           frame == [exp |-> Head(xcam.pipe), settled |-> ~transitional, sess |-> xcl.sess]
           seen == [xown EXCEPT !.discard = IF @ > 0 THEN @ - 1 ELSE 0,
                                !.settling = @ /\ transitional] IN
       Publish([seen EXCEPT !.latest = IF transitional /\ ~xown.trans THEN NoFrame ELSE frame])
  /\ xcam' = CameraRead
  /\ UNCHANGED <<xio, xcl>>

(* tick of a stream that stops at the exposure's end.                      *)
CsStopped ==
  /\ xown.params # "none" /\ ~xown.failed /\ xown.stopping /\ xcam.pipe # <<>>
  /\ xcam' = CameraStopped
  /\ Publish([xown EXCEPT !.params = "none", !.stopping = FALSE])
  /\ xcl' = [xcl EXCEPT !.want = "none", !.got = NoFrame]
  /\ UNCHANGED xio

(* Any call of the camera fails.                                           *)
CsFails ==
  /\ xown.params # "none" /\ ~xown.failed
  /\ Publish([xown EXCEPT !.failed = TRUE, !.latest = NoFrame])
  /\ UNCHANGED <<xcam, xio, xcl>>

(* tick with nothing to do: the owner shows that it is alive.              *)
CsAlive ==
  /\ xpub.late /\ Publish(xown) /\ UNCHANGED <<xcam, xio, xcl>>

(* More than ten seconds without a publication.                            *)
CsLate ==
  /\ xpub.active /\ ~xpub.late
  /\ xpub' = [xpub EXCEPT !.late = TRUE]
  /\ UNCHANGED <<xcam, xown, xio, xcl>>

-----------------------------------------------------------------------------
(* The I/O thread and the client                                           *)

CsAsk(method, p, trans) ==
  /\ xio = NoRequest
  /\ xio' = [method |-> method, p |-> p, trans |-> trans]
  /\ UNCHANGED <<xcam, xown, xpub, xcl>>

(* call: an owner that is late is given up.                                *)
GivenUp ==
  IF xpub.active /\ ~xpub.failed /\ xpub.late
  THEN [xpub EXCEPT !.unresponsive = TRUE, !.latest = NoFrame] ELSE xpub

CsStatus ==
  /\ xio = NoRequest
  /\ xpub' = GivenUp
  /\ xcl' = [xcl EXCEPT !.told = @ \/ GivenUp.failed \/ GivenUp.unresponsive, !.got = NoFrame]
  /\ UNCHANGED <<xcam, xown, xio>>

(* stream-poll or stream-download with a frame that is ready.              *)
CsDownload(poll) ==
  /\ xio = NoRequest
  /\ GivenUp.latest # NoFrame /\ ~GivenUp.failed /\ ~GivenUp.unresponsive
  /\ poll => ~GivenUp.pending
  /\ xcl' = [xcl EXCEPT !.got = GivenUp.latest]
  /\ xpub' = [GivenUp EXCEPT !.latest = NoFrame]
  /\ UNCHANGED <<xcam, xown, xio>>

-----------------------------------------------------------------------------
CsNext ==
  \/ CsStart \/ CsChange \/ CsSame \/ CsStartRefused \/ CsStop \/ CsOpen
  \/ CsApply \/ CsFrame \/ CsStopped \/ CsFails \/ CsAlive \/ CsLate
  \/ CsStatus \/ \E poll \in BOOLEAN : CsDownload(poll)
  \/ \E p \in Settings, trans \in BOOLEAN : CsAsk("start", p, trans)
  \/ \E method \in {"stop", "close", "open"} : CsAsk(method, "none", FALSE)

-----------------------------------------------------------------------------
(* A frame that a client is given belongs to the stream it asked for: a    *)
(* settled one was exposed under the settings acknowledged last, however   *)
(* many frames of the former ones were under way, an unsettled one is only *)
(* given to who asked for them, and none comes from an earlier stream, from*)
(* one that was stopped or from one that the client was told has failed.   *)
FramesAreCurrent ==
  xcl.got # NoFrame =>
    /\ xcl.want # "none" /\ ~xcl.told /\ xcl.got.sess = xcl.sess
    /\ xcl.got.settled => xcl.got.exp = xcl.want
    /\ ~xcl.got.settled => xcl.trans
=============================================================================
