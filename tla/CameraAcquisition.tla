------------------------- MODULE CameraAcquisition -------------------------
(***************************************************************************)
(* The hub's camera supervisor (regain-hub camera/acquisition.rs,          *)
(* guiding.rs, prepared.rs, on typed_source.rs sessions). Clients of       *)
(* several sessions start, stop and abort exposures, reserve one for a     *)
(* group, change settings and pulse guide one camera. Each request runs in *)
(* a task of its own that outlives its caller; the tasks meet in one state *)
(* under a lock and in the control lease of the source.                    *)
(*                                                                         *)
(* A step is what a task does between two awaits. The source serves its    *)
(* queue in order, so a command takes effect where it is sent and its task *)
(* hears of it in a later step. A lease is named after the request it was  *)
(* acquired for. A caller that goes away is a choice of its task. The      *)
(* phases Exposing and Reading, which are always treated alike, are one.   *)
(***************************************************************************)
EXTENDS Naturals

CONSTANTS
  Sessions,    \* client sessions; each connects once
  Exposures,   \* acquisition ids; each is used once
  Guides,      \* guide pulse ids; each is used once
  Setter,      \* the name of the setting slot's lease
  None,
  MaxGen,      \* bound on the source's generations
  Grouped      \* the acquisitions that are reserved for a group

ASSUME AcquisitionAssumption ==
  /\ MaxGen \in Nat \ {0} /\ Grouped \subseteq Exposures
  /\ None \notin Sessions \cup Exposures \cup Guides \cup {Setter}
  /\ Exposures \cap Guides = {} /\ Setter \notin Exposures \cup Guides

VARIABLES
  src,    \* the source: generation, transport, uncertain-write latch, stopped
  ctrl,   \* the lease that has control of the source
  eq,     \* the camera: the exposure it makes, the frame in its buffer
  sess,   \* per session: the generation it connected to, 0 before
  active, \* State.active: the acquisition of the supervisor
  guide,  \* State.guide: its guide pulse
  done,   \* State.completed: the image on offer
  setting, retired,   \* State.setting, State.retired
  exp,    \* per acquisition: the task of run_start or prepare_group
  cmd,    \* per acquisition: the task of its stop or abort
  gd,     \* per pulse: the task of run_guide
  setg,   \* the task of the setting slot
  overReleased  \* history: an abort gave up the control of an exposure that was gone

supVars == <<active, guide, done, setting, retired>>
vars == <<src, ctrl, eq, sess, supVars, exp, cmd, gd, setg, overReleased>>

Leases == Exposures \cup Guides \cup {Setter}
Gens == 0..MaxGen
Flight == {"none", "ok", "late", "refused", "lost", "unknown"}
Live == {"exposing", "stopping", "aborting", "downloading"}

Idle == [id |-> None, owner |-> None, gen |-> 0, phase |-> "idle",
         op |-> None, pending |-> FALSE]
NoExp(pc) == [pc |-> pc, gen |-> 0, op |-> None, note |-> "none",
          meta |-> None, frame |-> None]
NoCmd(pc) == [pc |-> pc, gen |-> 0, op |-> None, note |-> "none",
          abort |-> FALSE]
NoGuide(pc) == [pc |-> pc, gen |-> 0, op |-> None, note |-> "none"]
NoSetting == [pc |-> "free", gen |-> 0, op |-> None, note |-> "none",
              acq |-> None]
NoImage == [id |-> None, gen |-> 0, frame |-> None]

Sources == [gen : Gens, up : BOOLEAN, doubt : BOOLEAN, stopped : BOOLEAN]
Acquisitions ==
  [id : Exposures \cup {None}, owner : Sessions \cup {None}, gen : Gens,
   phase : Live \cup {"idle", "starting", "uncertain"}, op : Leases \cup {None},
   pending : BOOLEAN]
Pulses ==
  [id : Guides \cup {None}, owner : Sessions \cup {None}, gen : Gens,
   phase : {"idle", "starting", "guiding", "finishing", "uncertain"},
   op : Leases \cup {None}, pending : BOOLEAN]
Images == [id : Exposures \cup {None}, gen : Gens, frame : Exposures \cup {None}]

ExposureTasks ==
  [pc : {"unused", "new", "granted", "geometry", "ready", "sent", "rejected", "wait",
         "polled", "before", "fetch", "after", "publish", "end"},
   gen : Gens, op : Leases \cup {None}, note : Flight \cup {"ready", "running"},
   meta : Exposures \cup {None}, frame : Exposures \cup {None}]
CommandTasks ==
  [pc : {"unused", "check", "sent", "yield", "end"}, gen : Gens,
   op : Leases \cup {None}, note : Flight, abort : BOOLEAN]
GuideTasks ==
  [pc : {"unused", "new", "granted", "check", "sent", "started", "watch", "yield", "end"},
   gen : Gens, op : Leases \cup {None}, note : Flight]
SettingTasks ==
  [pc : {"free", "new", "granted", "sent", "yield"}, gen : Gens, op : Leases \cup {None},
   note : Flight, acq : Exposures \cup {None}]

TypeOK ==
  /\ src \in Sources
  /\ ctrl \in Leases \cup {None}
  /\ eq \in [run : Exposures \cup {None}, frame : Exposures \cup {None}]
  /\ sess \in [Sessions -> Gens]
  /\ active \in Acquisitions /\ guide \in Pulses /\ done \in Images
  /\ setting \in BOOLEAN /\ retired \in BOOLEAN
  /\ exp \in [Exposures -> ExposureTasks]
  /\ cmd \in [Exposures -> CommandTasks]
  /\ gd \in [Guides -> GuideTasks]
  /\ setg \in SettingTasks
  /\ overReleased \in BOOLEAN

Init ==
  /\ src = [gen |-> 1, up |-> TRUE, doubt |-> FALSE, stopped |-> FALSE]
  /\ ctrl = None /\ eq = [run |-> None, frame |-> None]
  /\ sess = [s \in Sessions |-> 0]
  /\ active = Idle /\ guide = Idle /\ done = NoImage
  /\ setting = FALSE /\ retired = FALSE
  /\ exp = [e \in Exposures |-> NoExp("unused")]
  /\ cmd = [e \in Exposures |-> NoCmd("unused")]
  /\ gd = [g \in Guides |-> NoGuide("unused")]
  /\ setg = NoSetting /\ overReleased = FALSE

-----------------------------------------------------------------------------
(* The source, as its sessions and leases see it                           *)

(* A task goes on, with what it has heard; one that has ended holds nothing.*)
ExpTo(e, pc, note) == [exp EXCEPT ![e].pc = pc, ![e].note = note]
CmdTo(e, pc, note) == [cmd EXCEPT ![e].pc = pc, ![e].note = note]
GuideTo(g, pc, note) == [gd EXCEPT ![g].pc = pc, ![g].note = note]
ExpEnds(e) == [exp EXCEPT ![e] = NoExp("end")]
CmdEnds(e) == [cmd EXCEPT ![e] = NoCmd("end")]
GuideEnds(g) == [gd EXCEPT ![g] = NoGuide("end")]

(* TypedSourceSession::snapshot                                            *)
Connected(gen) == src.up /\ src.gen = gen

(* TypedSourceSession::operation: a lease of its own, with control.        *)
Grantable(gen) == ~src.doubt /\ Connected(gen) /\ ctrl = None

(* What can become of a write: refused before or by the camera; done; done *)
(* with a sleep before its waiter ran; refused with the transport lost;    *)
(* sent with no known outcome.                                             *)
Outcomes(t) ==
  IF ~(Connected(t.gen) /\ ctrl = t.op /\ ~src.doubt) THEN {"refused"}
  ELSE {"ok", "late", "refused"} \cup (IF src.gen < MaxGen THEN {"lost", "unknown"} ELSE {})

(* The write t with outcome o and effect `after' on the camera.            *)
Write(t, o, after) ==
  /\ o \in Outcomes(t)
  /\ \/ o \in {"ok", "late", "unknown"} /\ eq' = after
     \/ o \in {"refused", "lost", "unknown"} /\ eq' = eq
  /\ src' = CASE o = "late" -> [src EXCEPT !.up = FALSE]
              [] o = "lost" -> [src EXCEPT !.up = FALSE, !.gen = @ + 1]
              [] o = "unknown" -> [src EXCEPT !.up = FALSE, !.gen = @ + 1, !.doubt = TRUE]
              [] OTHER -> src

Doubtful == {"late", "lost", "unknown"}

(* SourceHandle::control(lease, false): refused by a full queue or by an   *)
(* actor that has stopped.                                                 *)
Yield(l, o) ==
  \/ o = "ok" /\ ~src.stopped /\ ctrl' = IF ctrl = l THEN None ELSE ctrl
  \/ o = "refused" /\ ctrl' = ctrl

(* Lease guards that something still refers to.                            *)
Referenced(l) ==
  \/ active.op = l \/ guide.op = l
  \/ \E e \in Exposures : exp[e].op = l \/ cmd[e].op = l
  \/ \E g \in Guides : gd[g].op = l
  \/ setg.op = l

(* The last reference is dropped and the release is served.                *)
Release ==
  /\ ctrl # None /\ ~Referenced(ctrl)
  /\ ctrl' = None
  /\ UNCHANGED <<src, eq, sess, supVars, exp, cmd, gd, setg, overReleased>>

Source ==
  /\ ~src.stopped
  /\ \/ src.up /\ src.gen < MaxGen /\ src' = [src EXCEPT !.up = FALSE, !.gen = @ + 1]
     \/ src.up /\ src' = [src EXCEPT !.up = FALSE]
     \/ ~src.up /\ src.gen < MaxGen /\ src' = [src EXCEPT !.up = TRUE, !.gen = @ + 1]
     \/ src' = [src EXCEPT !.up = FALSE, !.stopped = TRUE]
  /\ UNCHANGED <<ctrl, eq, sess, supVars, exp, cmd, gd, setg, overReleased>>

(* The camera completes its exposure.                                      *)
Frame ==
  /\ eq.run # None
  /\ eq' = [run |-> None, frame |-> eq.run]
  /\ UNCHANGED <<src, ctrl, sess, supVars, exp, cmd, gd, setg, overReleased>>

Connect(s) ==
  /\ sess[s] = 0 /\ src.up /\ ~retired
  /\ sess' = [sess EXCEPT ![s] = src.gen]
  /\ UNCHANGED <<src, ctrl, eq, supVars, exp, cmd, gd, setg, overReleased>>

-----------------------------------------------------------------------------
(* The supervisor's state                                                  *)

(* CameraSupervisor::uncertain                                             *)
Uncertain(e) ==
  IF active.id = e
  THEN [active EXCEPT !.phase = "uncertain", !.pending = FALSE] ELSE active

GuideUncertain(g) ==
  IF guide.id = g THEN [guide EXCEPT !.phase = "uncertain"] ELSE guide

(* CameraSupervisor::end_command                                           *)
EndCommand(e) ==
  IF active.id = e /\ active.phase # "uncertain"
  THEN [active EXCEPT !.phase = "exposing", !.pending = FALSE] ELSE active

(* The acquisition e is over.                                              *)
Without(e) == IF active.id = e THEN Idle ELSE active
Aborted(e) ==
  /\ active' = Without(e)
  /\ done' = IF active.id = e THEN NoImage ELSE done

(* Fault: a guide pulse does not keep the control it shares.               *)
GuideNeverRetains(l) == FALSE

(* CameraSupervisor::guide_retains                                         *)
GuideRetains(l) == l # None /\ guide.op = l

(* Status reads of anyone: an exposure of another generation is uncertain. *)
Status ==
  /\ active.id # None /\ active.gen # src.gen
  /\ active' = Uncertain(active.id)
  /\ UNCHANGED <<src, ctrl, eq, sess, guide, done, setting, retired,
                 exp, cmd, gd, setg, overReleased>>

(* abandon_uncertain of its owner or of an administrator; abandon_guiding. *)
Abandon ==
  /\ \/ active.phase = "uncertain" /\ active' = Idle /\ UNCHANGED guide
     \/ guide.phase = "uncertain" /\ guide' = Idle /\ UNCHANGED active
  /\ UNCHANGED <<src, ctrl, eq, sess, done, setting, retired, exp, cmd, gd, setg, overReleased>>

Retire ==
  /\ src.stopped /\ ~retired
  /\ retired' = TRUE /\ active' = Idle /\ guide' = Idle /\ done' = NoImage
  /\ UNCHANGED <<src, ctrl, eq, sess, setting, exp, cmd, gd, setg, overReleased>>

-----------------------------------------------------------------------------
(* Exposures                                                               *)

restOfExp == <<sess, guide, setting, retired, cmd, gd, setg, overReleased>>

(* admit_start, for a client's start and for a group's reservation.        *)
Admit(s, e) ==
  /\ exp[e].pc = "unused" /\ sess[s] # 0 /\ Connected(sess[s])
  /\ ~retired /\ ~setting /\ active.id = None
  /\ \/ guide.id = None
     \/ guide.owner = s /\ guide.phase = "guiding"
  /\ active' = [id |-> e, owner |-> s, gen |-> sess[s], phase |-> "starting",
                op |-> guide.op, pending |-> FALSE]
  /\ exp' = [exp EXCEPT ![e].pc = "new", ![e].gen = sess[s]]
  /\ UNCHANGED <<src, ctrl, eq, done, restOfExp>>

(* end_rejected, up to the request that gives control back.                *)
OwnsLease(e) == active.id = e /\ active.op # None /\ ~GuideRetains(active.op)
EndRejected(e) ==
  \/ /\ ~OwnsLease(e) /\ active' = Without(e)
     /\ exp' = ExpEnds(e) /\ UNCHANGED ctrl
  \/ /\ OwnsLease(e) /\ UNCHANGED active
     /\ \E o \in {"ok", "refused"} :
          Yield(active.op, o) /\ exp' = ExpTo(e, "rejected", o)

Rejected(e) ==
  /\ exp[e].pc = "rejected"
  /\ active' = IF exp[e].note = "ok" THEN Without(e) ELSE Uncertain(e)
  /\ exp' = ExpEnds(e)
  /\ UNCHANGED <<src, ctrl, eq, done, restOfExp>>

(* A group that is dropped while it releases its reservation.              *)
ReleaseCut(e) ==
  /\ e \in Grouped /\ exp[e].pc = "rejected"
  /\ active' = Uncertain(e)
  /\ exp' = ExpEnds(e)
  /\ UNCHANGED <<src, ctrl, eq, done, restOfExp>>

(* Fault: a reservation that is dropped is not cleaned up.                 *)
GiveUpUnreserved(e) ==
  /\ exp[e].pc \in {"new", "granted", "geometry", "ready"}
  /\ IF exp[e].pc = "ready" THEN exp' = ExpEnds(e) /\ UNCHANGED <<active, ctrl>>
     ELSE EndRejected(e)
  /\ UNCHANGED <<src, eq, done, restOfExp>>

(* Before its dispatch a start ends with its caller, a refusal, a failed   *)
(* read or the admission timeout; a reservation with its release or drop.  *)
GiveUp(e) ==
  /\ exp[e].pc \in {"new", "granted", "geometry", "ready"}
  /\ EndRejected(e)
  /\ UNCHANGED <<src, eq, done, restOfExp>>

(* prepare_start: control, borrowed from the owner's pulse or new.         *)
Claim(e) ==
  /\ exp[e].pc = "new"
  /\ \/ /\ active.id = e /\ active.op # None
        /\ exp' = [exp EXCEPT ![e].pc = "granted", ![e].op = active.op]
        /\ UNCHANGED ctrl
     \/ /\ ~(active.id = e /\ active.op # None) /\ Grantable(exp[e].gen)
        /\ exp' = [exp EXCEPT ![e].pc = "granted", ![e].op = e] /\ ctrl' = e
  /\ UNCHANGED <<src, eq, active, done, restOfExp>>

Hold(e) ==
  /\ exp[e].pc = "granted" /\ Connected(exp[e].gen) /\ active.id = e
  /\ active' = [active EXCEPT !.op = exp[e].op]
  /\ exp' = [exp EXCEPT ![e].pc = "geometry"]
  /\ UNCHANGED <<src, ctrl, eq, done, restOfExp>>

(* prepare: the camera is idle and its geometry is in order.               *)
Prepare(e) ==
  /\ exp[e].pc = "geometry" /\ Connected(exp[e].gen) /\ eq.run = None
  /\ exp' = ExpTo(e, "ready", "none")
  /\ UNCHANGED <<src, ctrl, eq, active, done, restOfExp>>

(* dispatch_start, up to the write.                                        *)
Dispatch(e) ==
  /\ exp[e].pc = "ready"
  /\ IF active.id # e
     THEN exp' = ExpEnds(e) /\ UNCHANGED <<src, eq, active>>
     ELSE /\ active' = [active EXCEPT !.op = exp[e].op]
          /\ \E o \in Flight :
               /\ Write(exp[e], o, [run |-> e, frame |-> None])
               /\ exp' = ExpTo(e, "sent", o)
  /\ UNCHANGED <<ctrl, done, restOfExp>>

Gone(e) == active.id # e \/ active.phase = "uncertain"

(* Only an exposure that is still certain starts to run.                   *)
Acknowledged(e) ==
  /\ exp[e].pc = "sent"
  /\ \/ exp[e].note = "refused" /\ EndRejected(e) /\ UNCHANGED done
     \/ /\ exp[e].note \in Doubtful /\ active' = Uncertain(e)
        /\ exp' = ExpEnds(e) /\ UNCHANGED <<ctrl, done>>
     \/ /\ exp[e].note = "ok" /\ Gone(e)
        /\ exp' = ExpEnds(e) /\ UNCHANGED <<ctrl, active, done>>
     \/ /\ exp[e].note = "ok" /\ ~Gone(e)
        /\ active' = [active EXCEPT !.phase = "exposing"] /\ done' = NoImage
        /\ exp' = ExpTo(e, "wait", "none")
        /\ UNCHANGED ctrl
  /\ UNCHANGED <<src, eq, restOfExp>>

(* complete_exposure: every failure and either deadline leave it uncertain.*)
Failed(e) ==
  /\ exp[e].pc \in {"wait", "polled", "before", "fetch", "after", "publish"}
  /\ active' = Uncertain(e)
  /\ exp' = ExpEnds(e)
  /\ UNCHANGED <<src, ctrl, eq, done, restOfExp>>

Paused(e) == active.pending \/ setting \/ guide.phase = "starting"

(* wait_ready: the look at the state, then the two reads.                  *)
Poll(e) ==
  /\ exp[e].pc = "wait" /\ Connected(exp[e].gen)
  /\ \/ Gone(e) /\ exp' = ExpEnds(e)
     \/ /\ ~Gone(e) /\ ~Paused(e)
        /\ exp' = ExpTo(e, "polled", IF eq.frame # None THEN "ready" ELSE "running")
  /\ UNCHANGED <<src, ctrl, eq, active, done, restOfExp>>

(* wait_ready: the state is looked at again before what was read counts.   *)
Polled(e) ==
  /\ exp[e].pc = "polled"
  /\ LET ready == exp[e].note = "ready"
         next == IF ~Paused(e) /\ ready THEN "before" ELSE "wait"
     IN /\ exp' = IF Gone(e) THEN ExpEnds(e)
                  ELSE ExpTo(e, next, "none")
        /\ active' = IF Gone(e) \/ Paused(e) THEN active
                     ELSE [active EXCEPT !.phase = IF ready THEN "downloading" ELSE "exposing"]
  /\ UNCHANGED <<src, ctrl, eq, done, restOfExp>>

Before(e) ==
  /\ exp[e].pc = "before" /\ Connected(exp[e].gen)
  /\ exp' = [exp EXCEPT ![e].pc = "fetch", ![e].meta = eq.frame]
  /\ UNCHANGED <<src, ctrl, eq, active, done, restOfExp>>

(* camera_image_fenced                                                     *)
Fetch(e) ==
  /\ exp[e].pc = "fetch" /\ Connected(exp[e].gen)
  /\ ctrl = exp[e].op /\ eq.frame # None
  /\ exp' = [exp EXCEPT ![e].pc = "after", ![e].frame = eq.frame]
  /\ UNCHANGED <<src, ctrl, eq, active, done, restOfExp>>

Downloaded(e) == active.id = e /\ active.phase = "downloading"
Published(e) ==
  /\ active' = Idle
  /\ done' = [id |-> e, gen |-> exp[e].gen, frame |-> exp[e].frame]

(* The same metadata after the copy. The image is published at once when a *)
(* pulse keeps the control, otherwise once control is given back.          *)
After(e) ==
  /\ exp[e].pc = "after" /\ Connected(exp[e].gen) /\ eq.frame = exp[e].meta
  /\ \/ /\ Downloaded(e) /\ GuideRetains(exp[e].op)
        /\ Published(e) /\ exp' = ExpEnds(e) /\ UNCHANGED ctrl
     \/ /\ ~(Downloaded(e) /\ GuideRetains(exp[e].op))
        /\ Yield(exp[e].op, "ok")
        /\ exp' = ExpTo(e, "publish", "none") /\ UNCHANGED <<active, done>>
  /\ UNCHANGED <<src, eq, restOfExp>>

Publish(e) ==
  /\ exp[e].pc = "publish" /\ Connected(exp[e].gen)
  /\ IF Downloaded(e) THEN Published(e) ELSE UNCHANGED <<active, done>>
  /\ exp' = ExpEnds(e)
  /\ UNCHANGED <<src, ctrl, eq, restOfExp>>

-----------------------------------------------------------------------------
(* Stop and abort                                                          *)

restOfCmd == <<sess, guide, setting, retired, exp, gd, setg>>

Command(s, abort) ==
  LET a == active IN
  /\ a.id # None /\ sess[s] # 0 /\ Connected(sess[s])
  /\ ~retired /\ ~setting /\ guide.phase # "starting"
  /\ a.owner = s /\ ~a.pending /\ a.gen = sess[s] /\ a.phase = "exposing"
  /\ active' = [a EXCEPT !.phase = IF abort THEN "aborting" ELSE "stopping",
                         !.pending = TRUE]
  /\ cmd' = [cmd EXCEPT ![a.id] = [pc |-> "check", gen |-> a.gen, op |-> a.op,
                                   note |-> "none", abort |-> abort]]
  /\ UNCHANGED <<src, ctrl, eq, done, restOfCmd, overReleased>>

(* The caller is gone, or the capability is refused or cannot be read.     *)
CommandEnds(e) ==
  /\ cmd[e].pc = "check"
  /\ active' \in {EndCommand(e), Uncertain(e)}
  /\ cmd' = CmdEnds(e)
  /\ UNCHANGED <<src, ctrl, eq, done, restOfCmd, overReleased>>

(* Fault: a command is not checked against the exposure it was admitted    *)
(* for once its capability is known.                                       *)
UncheckedDispatch(e) == TRUE

(* The exposure this command was admitted for, still certain.              *)
DispatchAllowed(e) == active.id = e /\ active.phase # "uncertain"

CommandSent(e) ==
  /\ cmd[e].pc = "check" /\ Connected(cmd[e].gen) /\ DispatchAllowed(e)
  /\ \E o \in Flight :
       /\ Write(cmd[e], o, [run |-> None, frame |-> IF cmd[e].abort \/ eq.run = None
                                                     THEN eq.frame ELSE eq.run])
       /\ cmd' = CmdTo(e, "sent", o)
  /\ UNCHANGED <<ctrl, active, done, restOfCmd, overReleased>>

CommandHeard(e) ==
  LET c == cmd[e] shared == active.id = e /\ GuideRetains(c.op) IN
  /\ c.pc = "sent"
  /\ \/ /\ c.note \in Doubtful /\ active' = Uncertain(e)
        /\ cmd' = CmdEnds(e) /\ UNCHANGED <<ctrl, done, overReleased>>
     \/ /\ c.note = "refused" \/ (c.note = "ok" /\ ~c.abort)
        /\ active' = EndCommand(e)
        /\ cmd' = CmdEnds(e) /\ UNCHANGED <<ctrl, done, overReleased>>
     \/ /\ c.note = "ok" /\ c.abort /\ shared
        /\ Aborted(e)
        /\ cmd' = CmdEnds(e) /\ UNCHANGED <<ctrl, overReleased>>
     \/ /\ c.note = "ok" /\ c.abort /\ ~shared
        /\ \E o \in {"ok", "refused"} :
             /\ Yield(c.op, o)
             /\ cmd' = CmdTo(e, "yield", o)
        /\ overReleased' = (overReleased \/ active.id # e)
        /\ UNCHANGED <<active, done>>
  /\ UNCHANGED <<src, eq, restOfCmd>>

AbortEnds(e) ==
  /\ cmd[e].pc = "yield"
  /\ IF cmd[e].note = "ok" THEN Aborted(e) ELSE active' = Uncertain(e) /\ UNCHANGED done
  /\ cmd' = CmdEnds(e)
  /\ UNCHANGED <<src, ctrl, eq, restOfCmd, overReleased>>

-----------------------------------------------------------------------------
(* Pulse guiding                                                           *)

restOfGuide == <<sess, active, done, setting, retired, exp, cmd, setg, overReleased>>

(* pulse_guide: alone, or beside the owner's running exposure on its lease.*)
Pulse(s, g) ==
  LET a == active
      beside == a.owner = s /\ ~a.pending /\ a.phase = "exposing"
  IN /\ gd[g].pc = "unused" /\ ~src.doubt /\ sess[s] # 0 /\ Connected(sess[s])
     /\ ~retired /\ guide.id = None /\ ~setting
     /\ a.id = None \/ beside
     /\ guide' = [id |-> g, owner |-> s, gen |-> sess[s], phase |-> "starting",
                  op |-> a.op, pending |-> FALSE]
     /\ gd' = [gd EXCEPT ![g] = [pc |-> "new", gen |-> sess[s], op |-> a.op,
                                 note |-> "none"]]
     /\ UNCHANGED <<src, ctrl, eq, restOfGuide>>

(* finish_guide: control stays with an exposure that shares it.            *)
PulseOwns(g) == guide.id = g /\ guide.op # None /\ active.op # guide.op
FinishGuide(g) ==
  \/ /\ ~PulseOwns(g) /\ guide' = IF guide.id = g THEN Idle ELSE guide
     /\ gd' = GuideEnds(g) /\ UNCHANGED ctrl
  \/ /\ PulseOwns(g) /\ guide' = [guide EXCEPT !.phase = "finishing"]
     /\ \E o \in {"ok", "refused"} :
          Yield(guide.op, o) /\ gd' = GuideTo(g, "yield", o)

GuideGivesUp(g) ==
  /\ gd[g].pc \in {"new", "granted", "check"}
  /\ FinishGuide(g)
  /\ UNCHANGED <<src, eq, restOfGuide>>

GuideClaim(g) ==
  /\ gd[g].pc = "new"
  /\ \/ gd[g].op # None /\ gd' = [gd EXCEPT ![g].pc = "granted"] /\ UNCHANGED ctrl
     \/ /\ gd[g].op = None /\ Grantable(gd[g].gen) /\ ctrl' = g
        /\ gd' = [gd EXCEPT ![g].pc = "granted", ![g].op = g]
  /\ UNCHANGED <<src, eq, guide, restOfGuide>>

GuideHold(g) ==
  /\ gd[g].pc = "granted" /\ Connected(gd[g].gen) /\ guide.id = g
  /\ guide' = [guide EXCEPT !.op = gd[g].op]
  /\ gd' = [gd EXCEPT ![g].pc = "check"]
  /\ UNCHANGED <<src, ctrl, eq, restOfGuide>>

GuideSent(g) ==
  /\ gd[g].pc = "check" /\ Connected(gd[g].gen)
  /\ \E o \in Flight : Write(gd[g], o, eq) /\ gd' = GuideTo(g, "sent", o)
  /\ UNCHANGED <<ctrl, guide, restOfGuide>>

GuideHeard(g) ==
  /\ gd[g].pc = "sent"
  /\ \/ gd[g].note = "refused" /\ FinishGuide(g)
     \/ /\ gd[g].note \in Doubtful /\ guide' = GuideUncertain(g)
        /\ gd' = GuideEnds(g) /\ UNCHANGED ctrl
     \/ /\ gd[g].note = "ok" /\ UNCHANGED <<guide, ctrl>>
        /\ gd' = GuideTo(g, "started", "none")
  /\ UNCHANGED <<src, eq, restOfGuide>>

(* The read that follows the acknowledgement finds the pulse running.      *)
GuideRuns(g) ==
  /\ gd[g].pc = "started" /\ Connected(gd[g].gen)
  /\ guide' = IF guide.id = g THEN [guide EXCEPT !.phase = "guiding"] ELSE guide
  /\ gd' = IF guide.id = g THEN GuideTo(g, "watch", "none") ELSE GuideEnds(g)
  /\ UNCHANGED <<src, ctrl, eq, restOfGuide>>

(* The pulse is seen to be over, or the camera has retired.                *)
GuideOver(g) ==
  /\ \/ gd[g].pc \in {"started", "watch"} /\ Connected(gd[g].gen)
     \/ gd[g].pc = "watch" /\ retired
  /\ FinishGuide(g)
  /\ UNCHANGED <<src, eq, restOfGuide>>

(* It cannot be observed, or not in time.                                  *)
GuideLost(g) ==
  /\ gd[g].pc \in {"started", "watch"}
  /\ guide' = GuideUncertain(g)
  /\ gd' = GuideEnds(g)
  /\ UNCHANGED <<src, ctrl, eq, restOfGuide>>

GuideFinished(g) ==
  /\ gd[g].pc = "yield"
  /\ guide' = IF gd[g].note = "refused" THEN GuideUncertain(g)
              ELSE IF guide.id = g THEN Idle ELSE guide
  /\ gd' = GuideEnds(g)
  /\ UNCHANGED <<src, ctrl, eq, restOfGuide>>

-----------------------------------------------------------------------------
(* Settings                                                                *)

restOfSet == <<sess, active, guide, done, retired, exp, cmd, gd, overReleased>>

(* CameraSession::set with settings_operation: alone, or beside the        *)
(* owner's running exposure when it does not change the capture.           *)
Set(s, capture) ==
  LET a == active
      beside == a.owner = s /\ ~capture /\ ~a.pending /\ a.phase = "exposing"
  IN /\ ~src.doubt /\ sess[s] # 0 /\ Connected(sess[s]) /\ ~retired
     /\ guide.id = None /\ ~setting
     /\ a.id = None \/ beside
     /\ setting' = TRUE
     /\ setg' = [pc |-> "new", gen |-> sess[s], op |-> a.op, note |-> "none",
                 acq |-> a.id]
     /\ UNCHANGED <<src, ctrl, eq, restOfSet>>

(* SettingWork is dropped with its task.                                   *)
SettingEnds ==
  /\ setg.pc \in {"new", "granted", "yield"} \/ (setg.pc = "sent" /\ setg.acq # None)
  /\ setg' = NoSetting /\ setting' = FALSE
  /\ UNCHANGED <<src, ctrl, eq, restOfSet>>

SettingClaim ==
  /\ setg.pc = "new"
  /\ \/ setg.op # None /\ setg' = [setg EXCEPT !.pc = "granted"] /\ UNCHANGED ctrl
     \/ /\ setg.op = None /\ Grantable(setg.gen) /\ ctrl' = Setter
        /\ setg' = [setg EXCEPT !.pc = "granted", !.op = Setter]
  /\ UNCHANGED <<src, eq, setting, restOfSet>>

SettingSent ==
  /\ setg.pc = "granted" /\ Connected(setg.gen)
  /\ setg.acq # None => /\ active.id = setg.acq /\ ~active.pending
                        /\ active.phase = "exposing"
  /\ \E o \in Flight : Write(setg, o, eq) /\ setg' = [setg EXCEPT !.pc = "sent", !.note = o]
  /\ UNCHANGED <<ctrl, setting, restOfSet>>

(* Whatever became of the write, a lease of its own gives control back.    *)
SettingHeard ==
  /\ setg.pc = "sent" /\ setg.acq = None
  /\ \E o \in {"ok", "refused"} : Yield(setg.op, o)
  /\ setg' = [setg EXCEPT !.pc = "yield"]
  /\ UNCHANGED <<src, eq, setting, restOfSet>>

-----------------------------------------------------------------------------
ExposureTask(e) ==
  \/ GiveUp(e) \/ Claim(e) \/ Hold(e) \/ Prepare(e) \/ Dispatch(e) \/ Acknowledged(e)
  \/ Rejected(e) \/ ReleaseCut(e) \/ Failed(e) \/ Poll(e) \/ Polled(e)
  \/ Before(e) \/ Fetch(e) \/ After(e) \/ Publish(e)

CommandTask(e) == CommandEnds(e) \/ CommandSent(e) \/ CommandHeard(e) \/ AbortEnds(e)

GuideTask(g) ==
  \/ GuideGivesUp(g) \/ GuideClaim(g) \/ GuideHold(g) \/ GuideSent(g) \/ GuideHeard(g)
  \/ GuideRuns(g) \/ GuideOver(g) \/ GuideLost(g) \/ GuideFinished(g)

SettingTask == SettingEnds \/ SettingClaim \/ SettingSent \/ SettingHeard

Next ==
  \/ Release \/ Source \/ Frame \/ Status \/ Abandon \/ Retire
  \/ \E s \in Sessions :
       \/ Connect(s)
       \/ \E e \in Exposures : Admit(s, e)
       \/ \E abort \in BOOLEAN : Command(s, abort)
       \/ \E g \in Guides : Pulse(s, g)
       \/ \E capture \in BOOLEAN : Set(s, capture)
  \/ \E e \in Exposures : ExposureTask(e) \/ CommandTask(e)
  \/ \E g \in Guides : GuideTask(g)
  \/ SettingTask

Spec == Init /\ [][Next]_vars

-----------------------------------------------------------------------------
(* Properties                                                              *)

(* A start reaches the camera only when it makes no other exposure, also   *)
(* one that was abandoned in doubt; a stop or abort only reaches the       *)
(* exposure it was admitted for, however late its task runs and whoever    *)
(* has started another one on the same shared control lease meanwhile.     *)
Reaches(before, after) == before # "sent" /\ after = "sent"
ReachOnlyOwn ==
  \A e \in Exposures :
    /\ Reaches(exp[e].pc, exp'[e].pc) /\ exp'[e].note # "refused" => eq.run = None
    /\ Reaches(cmd[e].pc, cmd'[e].pc) /\ cmd'[e].note # "refused" => eq.run \in {e, None}
OwnTarget == [][ReachOnlyOwn]_vars

(* A running exposure or guide pulse has control through the lease it      *)
(* holds, although exposures, pulses and settings borrow each other's      *)
(* leases and end in any order; the exception is an abort that is answered *)
(* after its exposure was abandoned.                                       *)
Covered ==
  /\ active.phase \in {"exposing", "stopping"} => ctrl = active.op
  /\ guide.phase = "guiding" => ctrl = guide.op
ControlCoversWork == overReleased \/ Covered

(* An exposure that was declared uncertain is never certain again: its     *)
(* late acknowledgements, polls and ended commands change nothing; it can  *)
(* only be taken away as a whole.                                          *)
StayUncertain ==
  \A e \in Exposures :
    active.id = e /\ active.phase = "uncertain" =>
      active'.id # e \/ active'.phase = "uncertain"
CertaintyIsNotRestored == [][StayUncertain]_vars

(* The image offered as an acquisition's is the frame of its own exposure, *)
(* and no earlier image is offered while a later exposure runs.            *)
ImageIsOwn ==
  done.id # None => done.frame = done.id /\ active.phase \notin Live

(* No request of a task reaches another exposure than its own, and nothing *)
(* late makes an exposure certain that was declared uncertain.             *)
TasksKeepTheirOwn == OwnTarget /\ CertaintyIsNotRestored

(* No exposure is left behind: one that is active and not uncertain has a  *)
(* task that has not ended, and all a task waits for has a deadline. A     *)
(* caller that went away, a dropped reservation, a refused release or an   *)
(* ended command never leaves the camera busy for good.                    *)
NoOrphanExposure ==
  \A e \in Exposures :
    active.id = e /\ active.phase # "uncertain" => exp[e].pc \notin {"unused", "end"}

(* The state has its types, no exposure is left behind by its task, and the*)
(* frame on offer is that of the exposure it is offered for.               *)
SupervisorInv == TypeOK /\ NoOrphanExposure /\ ImageIsOwn
=============================================================================
