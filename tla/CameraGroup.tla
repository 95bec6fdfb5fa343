---------------------------- MODULE CameraGroup ----------------------------
(***************************************************************************)
(* One coordinated camera capture (regain-hub coordination/camera.rs and   *)
(* camera_host.rs). It reserves and rechecks every camera, dispatches all  *)
(* starts in one burst and then reacts to whatever comes first: answers of *)
(* starts, images, answers of the aborts its policies ask for, the cancel  *)
(* request, the deadline. Each camera's supervisor runs on its own.        *)
(***************************************************************************)
EXTENDS Naturals, Sequences, FiniteSets

CONSTANTS Cameras, CameraOrder   \* the members, and their sequence

ASSUME CameraGroupAssumption ==
  /\ CameraOrder \in Seq(Cameras) /\ Cameras = {CameraOrder[i] : i \in DOMAIN CameraOrder}
  /\ Len(CameraOrder) = Cardinality(Cameras) /\ Len(CameraOrder) >= 2

VARIABLES
  ccam,     \* per camera: where this operation's acquisition really is
  cev,      \* per camera: answers that wait to be taken: start, image, abort
  cop,      \* the operation's task
  crep,     \* the published phases of the members
  cphase,   \* the published phase of the group
  cpolicy   \* whether a failure, and a stop request, aborts what was started

cgVars == <<ccam, cev, cop, crep, cphase, cpolicy>>

NoEvent == [start |-> "none", image |-> "none", abort |-> "none"]
CgMember == CameraOrder[cop.at]
CgLast == cop.at = Len(CameraOrder)

CgInit ==
  /\ ccam = [m \in Cameras |-> "free"] /\ cev = [m \in Cameras |-> NoEvent]
  /\ cop = [pc |-> "idle", at |-> 1, stop |-> "none", cancelled |-> FALSE, expired |-> FALSE,
            deadlineHit |-> FALSE, failure |-> FALSE, starts |-> {}, aborts |-> {},
            asked |-> {}, images |-> {}, futures |-> {}]
  /\ crep = [m \in Cameras |-> "notStarted"] /\ cphase = "none"
  /\ cpolicy \in [failure : BOOLEAN, stop : BOOLEAN]

-----------------------------------------------------------------------------
(* The cameras' supervisors                                                *)

(* dispatch_start: acknowledged, refused, or in doubt.                     *)
CamStarts(m) ==
  /\ ccam[m] = "starting"
  /\ \/ /\ ccam' = [ccam EXCEPT ![m] = "exposing"] /\ cev' = [cev EXCEPT ![m].start = "ok"]
     \/ /\ ccam' = [ccam EXCEPT ![m] = "free"] /\ cev' = [cev EXCEPT ![m].start = "failed"]
     \/ /\ ccam' = [ccam EXCEPT ![m] = "lost"] /\ cev' = [cev EXCEPT ![m].start = "uncertain"]
  /\ UNCHANGED <<cop, crep, cphase, cpolicy>>

(* complete_exposure: an image, or an exposure nobody can vouch for.       *)
CamEnds(m) ==
  /\ ccam[m] = "exposing"
  /\ \/ ccam' = [ccam EXCEPT ![m] = "imaged"] /\ cev' = [cev EXCEPT ![m].image = "ok"]
     \/ ccam' = [ccam EXCEPT ![m] = "lost"] /\ cev' = [cev EXCEPT ![m].image = "failed"]
  /\ UNCHANGED <<cop, crep, cphase, cpolicy>>

(* abort_group: for this acquisition only; refused during the readout.     *)
CamAborts(m) ==
  /\ m \in cop.aborts /\ cev[m].abort = "none"
  /\ \/ /\ UNCHANGED ccam /\ cev' = [cev EXCEPT ![m].abort = "failed"]
     \/ /\ ccam[m] = "exposing"
        /\ \/ /\ ccam' = [ccam EXCEPT ![m] = "aborted"]
              /\ cev' = [cev EXCEPT ![m].abort = "ok", ![m].image = "failed"]
           \/ /\ ccam' = [ccam EXCEPT ![m] = "lost"]
              /\ cev' = [cev EXCEPT ![m].abort = "failed", ![m].image = "failed"]
  /\ UNCHANGED <<cop, crep, cphase, cpolicy>>

-----------------------------------------------------------------------------
(* Reservation                                                             *)

CgStopping == cop.cancelled \/ cop.expired
StopPhase == IF cop.cancelled THEN "cancelled" ELSE "deadline"

CgStart ==
  /\ cop.pc = "idle"
  /\ cop' = [cop EXCEPT !.pc = "prepare"] /\ cphase' = "preflight"
  /\ UNCHANGED <<ccam, cev, crep, cpolicy>>

(* A client cancels the operation; its deadline passes.                    *)
CgStopAsked ==
  /\ cop.pc \notin {"idle", "done"}
  /\ \/ ~cop.cancelled /\ cop' = [cop EXCEPT !.cancelled = TRUE]
     \/ ~cop.expired /\ cop' = [cop EXCEPT !.expired = TRUE]
  /\ UNCHANGED <<ccam, cev, crep, cphase, cpolicy>>

NextMember(stage) ==
  cop' = IF CgLast THEN [cop EXCEPT !.pc = stage, !.at = 1] ELSE [cop EXCEPT !.at = @ + 1]

CgPrepare ==
  /\ cop.pc = "prepare" /\ ~CgStopping
  /\ ccam' = [ccam EXCEPT ![CgMember] = "prepared"]
  /\ crep' = [crep EXCEPT ![CgMember] = "prepared"]
  /\ NextMember("recheck")
  /\ UNCHANGED <<cev, cphase, cpolicy>>

CgRecheck ==
  /\ cop.pc = "recheck" /\ ~CgStopping
  /\ NextMember("burst")
  /\ UNCHANGED <<ccam, cev, crep, cphase, cpolicy>>

(* A camera refuses: the others are released again.                        *)
CgRejected ==
  /\ cop.pc \in {"prepare", "recheck"} /\ ~CgStopping
  /\ crep' = [crep EXCEPT ![CgMember] = "rejected"]
  /\ cphase' = "preflightFailed" /\ cop' = [cop EXCEPT !.pc = "release", !.at = 1]
  /\ UNCHANGED <<ccam, cev, cpolicy>>

CgInterrupted ==
  /\ cop.pc \in {"prepare", "recheck", "burst"} /\ CgStopping
  /\ cphase' = StopPhase /\ cop' = [cop EXCEPT !.pc = "release", !.at = 1]
  /\ UNCHANGED <<ccam, cev, crep, cpolicy>>

(* release: each reservation in turn; one that cannot be given back is     *)
(* reported so.                                                            *)
CgRelease ==
  /\ cop.pc = "release"
  /\ \/ /\ ccam[CgMember] = "prepared" /\ ccam' = [ccam EXCEPT ![CgMember] = "free"]
        /\ crep' = [crep EXCEPT ![CgMember] = IF @ = "prepared" THEN "notStarted" ELSE @]
     \/ /\ ccam[CgMember] = "prepared" /\ ccam' = [ccam EXCEPT ![CgMember] = "stuck"]
        /\ \E r \in {"failed", "uncertain"} : crep' = [crep EXCEPT ![CgMember] = r]
     \/ ccam[CgMember] # "prepared" /\ UNCHANGED <<ccam, crep>>
  /\ NextMember("done")
  /\ UNCHANGED <<cev, cphase, cpolicy>>

-----------------------------------------------------------------------------
(* The capture                                                             *)

(* The head of the loop: exposures that a policy asks to abort, each once. *)
CgAbort(o) == (o.failure /\ cpolicy.failure) \/ (o.stop # "none" /\ cpolicy.stop)
ToAbort(o, rep) ==
  IF CgAbort(o) THEN {m \in Cameras : rep[m] = "exposing" /\ m \notin o.asked} ELSE {}
CgLooped(o, rep) ==
  LET more == ToAbort(o, rep) IN
  /\ cop' = [o EXCEPT !.aborts = @ \cup more, !.asked = @ \cup more]
  /\ crep' = [m \in Cameras |-> IF m \in more THEN "aborting" ELSE rep[m]]

(* All starts, with nothing awaited between them.                          *)
CgBurst ==
  /\ cop.pc = "burst" /\ ~CgStopping
  /\ ccam' = [m \in Cameras |-> "starting"]
  /\ cphase' = "capturing"
  /\ CgLooped([cop EXCEPT !.pc = "loop", !.starts = Cameras], [m \in Cameras |-> "starting"])
  /\ UNCHANGED <<cev, cpolicy>>

CgReady == {m \in Cameras : \/ m \in cop.starts /\ cev[m].start # "none"
                            \/ m \in cop.futures /\ cev[m].image # "none"
                            \/ m \in cop.aborts /\ cev[m].abort # "none"}
CgFinishing ==
  /\ cop.starts = {} /\ cop.aborts = {}
  /\ cop.stop # "none" \/ CgAbort(cop)
  /\ ~CgAbort(cop) \/ cop.images = {} \/ cop.deadlineHit

CgStartHeard(m) ==
  LET e == cev[m].start ok == e = "ok" IN
  /\ cop.pc = "loop" /\ m \in cop.starts /\ e # "none"
  /\ cev' = [cev EXCEPT ![m].start = "none"]
  /\ CgLooped([cop EXCEPT !.starts = @ \ {m}, !.failure = @ \/ ~ok,
                        !.images = IF ok THEN @ \cup {m} ELSE @,
                        !.futures = IF ok THEN @ \cup {m} ELSE @],
            [crep EXCEPT ![m] = IF ok THEN "exposing" ELSE e])
  /\ UNCHANGED <<ccam, cphase, cpolicy>>

(* What an image event makes of a member in `phase'.                       *)
ImageOutcome(e, phase) ==
  IF e = "ok" THEN "complete"
  ELSE IF phase \in {"aborting", "aborted"} THEN phase ELSE "uncertain"

CgImageHeard(m) ==
  LET e == cev[m].image now == ImageOutcome(e, crep[m]) IN
  /\ cop.pc = "loop" /\ m \in cop.futures /\ e # "none"
  /\ cev' = [cev EXCEPT ![m].image = "none"]
  /\ CgLooped([cop EXCEPT !.images = @ \ {m}, !.futures = @ \ {m},
                        !.failure = @ \/ now = "uncertain"],
            [crep EXCEPT ![m] = now])
  /\ UNCHANGED <<ccam, cphase, cpolicy>>

(* Fault: the answer of an abort that came too late for its image replaces *)
(* the image.                                                              *)
AbortOutcomeAlways(e, phase) == IF e = "ok" THEN "aborted" ELSE "uncertain"

(* What an abort's answer makes of a member in `phase'.                    *)
AbortOutcome(e, phase) ==
  IF phase = "complete" THEN "complete" ELSE IF e = "ok" THEN "aborted" ELSE "uncertain"

AbortCounted(o, m) == [o EXCEPT !.aborts = @ \ {m}]

CgAbortHeard(m) ==
  LET e == cev[m].abort now == AbortOutcome(e, crep[m]) IN
  /\ cop.pc = "loop" /\ m \in cop.aborts /\ e \notin {"none", "taken"}
  /\ cev' = [cev EXCEPT ![m].abort = "taken"]
  /\ CgLooped([AbortCounted(cop, m) EXCEPT !.images = IF now = "aborted" THEN @ \ {m} ELSE @],
            [crep EXCEPT ![m] = now])
  /\ UNCHANGED <<ccam, cphase, cpolicy>>

(* Events go first; a stop request is noticed when none is ready.          *)
CgStopSeen ==
  /\ cop.pc = "loop" /\ ~CgFinishing /\ CgReady = {}
  /\ \/ /\ cop.cancelled /\ cop.stop = "none"
        /\ CgLooped([cop EXCEPT !.stop = "cancelled"], crep)
     \/ /\ cop.expired /\ ~cop.deadlineHit /\ ~(cop.cancelled /\ cop.stop = "none")
        /\ CgLooped([cop EXCEPT !.deadlineHit = TRUE,
                              !.stop = IF @ = "none" THEN "deadline" ELSE @], crep)
  /\ UNCHANGED <<ccam, cev, cphase, cpolicy>>

NothingLeft == cop.starts = {} /\ cop.aborts = {} /\ cop.futures = {}

(* CgReady answers are taken before a stopped report is final; a stop that   *)
(* was asked for by then is not forgotten.                                 *)
CgFinish ==
  /\ cop.pc = "loop"
  /\ NothingLeft \/ (CgFinishing /\ CgReady = {})
  /\ cphase' = IF CgStopping THEN StopPhase
               ELSE IF cop.stop # "none" THEN cop.stop
               ELSE IF \A m \in Cameras : crep[m] = "complete" THEN "complete"
               ELSE "partialFailure"
  /\ cop' = [cop EXCEPT !.pc = "done"]
  /\ UNCHANGED <<ccam, cev, crep, cpolicy>>

CgSettled == {"complete", "aborted", "rejected", "failed", "uncertain"}

(* GroupTaskGuard: a task that dies leaves a final report.                 *)
CgTaskDies ==
  /\ cop.pc \in {"prepare", "recheck", "burst", "loop"}
  /\ crep' = [m \in Cameras |-> IF crep[m] \in CgSettled THEN crep[m] ELSE "uncertain"]
  /\ cphase' = "partialFailure" /\ cop' = [cop EXCEPT !.pc = "done"]
  /\ UNCHANGED <<ccam, cev, cpolicy>>

CgTask ==
  \/ CgPrepare \/ CgRecheck \/ CgRejected \/ CgInterrupted \/ CgRelease \/ CgBurst
  \/ CgStopSeen \/ CgFinish
  \/ \E m \in Cameras : CgStartHeard(m) \/ CgImageHeard(m) \/ CgAbortHeard(m)

CgNext ==
  \/ CgStart \/ CgStopAsked \/ CgTask \/ CgTaskDies
  \/ \E m \in Cameras : CamStarts(m) \/ CamEnds(m) \/ CamAborts(m)

(* The task is run, and every supervisor bounds its starts, exposures and  *)
(* aborts by deadlines of its own.                                         *)
CgFairness ==
  /\ WF_cgVars(CgTask)
  /\ \A m \in Cameras : WF_cgVars(CamStarts(m)) /\ WF_cgVars(CamEnds(m)) /\ WF_cgVars(CamAborts(m))

-----------------------------------------------------------------------------
(* The final report of a camera group is true, in whatever order answers,  *)
(* images and stop requests arrived: complete members have their image and *)
(* no later answer takes it from them, aborted ones were aborted, the      *)
(* others that are not in doubt never exposed. A failed preflight exposed  *)
(* nobody, complete means everyone, a partial failure leaves nobody open,  *)
(* and no exposure that a policy had to abort is left running unreported.  *)
CameraReportTrue ==
  cop.pc = "done" =>
    /\ \A m \in Cameras :
         /\ crep[m] = "complete" => ccam[m] = "imaged"
         /\ crep[m] = "aborted" => ccam[m] = "aborted"
         /\ crep[m] \in {"notStarted", "rejected", "failed"} =>
              ccam[m] \in {"free", "prepared", "stuck"}
         /\ ccam[m] = "imaged" /\ cev[m].image = "none" => crep[m] = "complete"
         /\ CgAbort(cop) /\ ccam[m] = "exposing" => crep[m] = "uncertain"
    /\ cphase = "preflightFailed" => \A m \in Cameras : ccam[m] \in {"free", "stuck"}
    /\ cphase = "complete" => \A m \in Cameras : crep[m] = "complete"
    /\ cphase = "partialFailure" => \A m \in Cameras : crep[m] \in CgSettled

(* No operation is under way.                                              *)
CameraGroupOver == cop.pc \in {"idle", "done"}
=============================================================================
