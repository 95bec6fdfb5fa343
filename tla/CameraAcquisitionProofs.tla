----------------------- MODULE CameraAcquisitionProofs -----------------------
(***************************************************************************)
(* Proofs about CameraAcquisition for any sessions, acquisitions, guide    *)
(* pulses and generations: no exposure is left without its task, the image *)
(* on offer is its own, tasks reach only their own exposure, and what runs *)
(* has control.  The second half is about NativeOwner, the owner of one    *)
(* native camera, for any number of operations: what it serves, marks and  *)
(* uses is its own, and doubt stays.                                       *)
(***************************************************************************)
EXTENDS CameraAcquisition, NativeOwner, TLAPS

InFlight == {"check", "sent", "yield"}
Transfer == {"before", "fetch", "after", "publish"}

(* The source does not come back once stopped, and generations only grow.  *)
SourceGrows ==
  /\ src.stopped => ~src.up
  /\ retired => src.stopped
  /\ active.gen <= src.gen
  /\ \A e \in Exposures : exp[e].gen <= src.gen

(* A command follows the start of its exposure.                            *)
CommandsFollow ==
  \A e \in Exposures : exp[e].pc = "unused" => cmd[e].pc = "unused" /\ active.id # e

(* The phase of a certain exposure says where its task is.                 *)
PhaseOfTask ==
  \A e \in Exposures : active.id = e =>
    /\ active.phase # "idle"
    /\ active.phase = "starting" =>
         exp[e].pc \in {"new", "granted", "geometry", "ready", "sent", "rejected"}
    /\ active.phase \in {"exposing", "stopping", "aborting"} =>
         exp[e].pc \in {"wait", "polled"}
    /\ active.phase = "downloading" => exp[e].pc \in Transfer
    /\ exp[e].pc # "end" => exp[e].gen = active.gen

(* No acquisition or pulse, no trace of one.                               *)
NoneIdles ==
  /\ active.id = None => active = Idle
  /\ guide.id = None => guide = Idle

(* A command in flight holds its exposure in the phase it has asked for.   *)
PhaseOfCommand ==
  /\ active.phase \in {"stopping", "aborting"} => active.pending
  /\ \A e \in Exposures :
       active.id = e /\ active.phase # "uncertain" /\ cmd[e].pc \in InFlight =>
         /\ active.pending
         /\ active.phase = IF cmd[e].abort THEN "aborting" ELSE "stopping"

(* A task that transfers its frame still has its exposure, unless the      *)
(* source has moved on and will refuse it.                                 *)
TransferKept ==
  \A e \in Exposures : exp[e].pc \in Transfer =>
    \/ Downloaded(e)
    \/ exp[e].gen < src.gen
    \/ src.stopped

(* The camera makes no other exposure than the active one, from the look   *)
(* that finds it idle on, and has no other frame once it was started.      *)
CameraIsOwn ==
  \A e \in Exposures : active.id = e =>
    /\ exp[e].pc = "ready" => eq.run = None
    /\ \/ exp[e].pc \in {"wait", "polled"} \cup Transfer
       \/ exp[e].pc = "sent" /\ exp[e].note = "ok"
       \/ cmd[e].pc \in InFlight
       => eq.run \in {e, None} /\ eq.frame \in {e, None}
    /\ exp[e].pc \in {"after", "publish"} => exp[e].frame = e

(* What is offered was transferred by its own task, and taken back when    *)
(* the next exposure runs.                                                 *)
OfferIsOwn ==
  done.id # None =>
    /\ done.frame = done.id
    /\ active.phase \notin Live

(* No exposure or pulse holds the setting slot's lease, and a task holds   *)
(* the lease that the supervisor has for it.                               *)
LeasesOK ==
  /\ active.op # Setter /\ guide.op # Setter
  /\ \A e \in Exposures :
       /\ exp[e].op # Setter
       /\ active.id = e /\ exp[e].pc \in {"geometry", "ready"} =>
            exp[e].op # None /\ active.op = exp[e].op
       /\ exp[e].pc = "granted" => exp[e].op # None
  /\ \A g \in Guides :
       /\ gd[g].op # Setter
       /\ gd[g].pc \in {"granted", "check", "sent", "started", "watch"} => gd[g].op # None
       /\ guide.id = g /\ gd[g].pc \in {"check", "sent", "started", "watch"} =>
            guide.op = gd[g].op
       /\ guide.id = g /\ guide.phase = "guiding" => gd[g].pc = "watch"
       /\ guide.id = g => guide.phase # "idle" /\ gd[g].pc # "unused"
  /\ setg.pc = "sent" /\ setg.acq = None => setg.op = Setter
  /\ setg.pc = "granted" /\ setg.acq = None => setg.op = Setter
  /\ setg.pc = "new" /\ setg.acq = None => setg.op = None

(* Whatever runs, or was just started, has control through its lease.      *)
Controlled ==
  /\ \/ active.phase \in {"exposing", "stopping"}
     \/ \E e \in Exposures : /\ active.id = e /\ active.phase = "starting"
                             /\ exp[e].pc = "sent" /\ exp[e].note = "ok"
     \/ \E e \in Exposures : /\ active.id = e /\ active.phase = "aborting"
                             /\ cmd[e].pc \in {"check", "sent"}
     => active.op # None /\ ctrl = active.op
  /\ \A g \in Guides :
       /\ guide.id = g
       /\ \/ gd[g].pc = "sent" /\ gd[g].note = "ok"
          \/ gd[g].pc \in {"started", "watch"}
       => guide.op # None /\ ctrl = guide.op

(* The inductive invariant.                                                *)
IInv ==
  /\ TypeOK /\ SourceGrows /\ CommandsFollow /\ PhaseOfTask /\ NoneIdles
  /\ PhaseOfCommand /\ TransferKept /\ CameraIsOwn /\ OfferIsOwn /\ LeasesOK
  /\ overReleased \/ Controlled

-----------------------------------------------------------------------------
(* What the operators on the state do                                      *)

(* Nothing is there when no acquisition or pulse is.                       *)
LEMMA IdleFacts ==
  /\ Idle \in Acquisitions /\ Idle \in Pulses /\ NoImage \in Images
  /\ Idle.id = None /\ Idle.gen = 0 /\ Idle.phase = "idle" /\ Idle.op = None
  /\ Idle.owner = None /\ Idle.pending = FALSE
  /\ NoImage.id = None
BY AcquisitionAssumption DEF Idle, NoImage, Acquisitions, Pulses, Images, Gens

(* An acquisition in doubt keeps its identity and its lease.               *)
LEMMA UncertainFacts ==
  ASSUME active \in Acquisitions, NEW e
  PROVE  /\ Uncertain(e) \in Acquisitions
         /\ active.id # e => Uncertain(e) = active
         /\ active.id = e => Uncertain(e).phase = "uncertain" /\ ~Uncertain(e).pending
         /\ Uncertain(e).id = active.id /\ Uncertain(e).gen = active.gen
         /\ Uncertain(e).op = active.op /\ Uncertain(e).owner = active.owner
BY DEF Uncertain, Acquisitions

(* A command that has ended leaves a certain exposure exposing.            *)
LEMMA EndCommandFacts ==
  ASSUME active \in Acquisitions, NEW e
  PROVE  /\ EndCommand(e) \in Acquisitions
         /\ active.id # e \/ active.phase = "uncertain" => EndCommand(e) = active
         /\ active.id = e /\ active.phase # "uncertain" =>
              EndCommand(e).phase = "exposing" /\ ~EndCommand(e).pending
         /\ EndCommand(e).id = active.id /\ EndCommand(e).gen = active.gen
         /\ EndCommand(e).op = active.op /\ EndCommand(e).owner = active.owner
BY DEF EndCommand, Acquisitions, Live

LEMMA GuideUncertainFacts ==
  ASSUME guide \in Pulses, NEW g
  PROVE  /\ GuideUncertain(g) \in Pulses
         /\ guide.id # g => GuideUncertain(g) = guide
         /\ guide.id = g => GuideUncertain(g).phase = "uncertain"
         /\ GuideUncertain(g).id = guide.id /\ GuideUncertain(g).gen = guide.gen
         /\ GuideUncertain(g).op = guide.op /\ GuideUncertain(g).owner = guide.owner
BY DEF GuideUncertain, Pulses

(* Generations are numbers.                                                *)
LEMMA GenFacts ==
  ASSUME TypeOK
  PROVE  /\ src.gen \in Nat /\ active.gen \in Nat
         /\ \A s \in Sessions : sess[s] \in Nat
         /\ \A e \in Exposures : exp[e].gen \in Nat
BY AcquisitionAssumption
   DEF TypeOK, Sources, Acquisitions, ExposureTasks, Gens

(* A task that goes on changes nothing else.                               *)
LEMMA ExpToFacts ==
  ASSUME exp \in [Exposures -> ExposureTasks], NEW e \in Exposures, NEW pc, NEW note
  PROVE  /\ ExpTo(e, pc, note)[e].pc = pc /\ ExpTo(e, pc, note)[e].note = note
         /\ ExpTo(e, pc, note)[e].meta = exp[e].meta
         /\ ExpTo(e, pc, note)[e].frame = exp[e].frame
         /\ ExpTo(e, pc, note)[e].gen = exp[e].gen
         /\ ExpTo(e, pc, note)[e].op = exp[e].op
         /\ \A f \in Exposures : f # e => ExpTo(e, pc, note)[f] = exp[f]
BY DEF ExpTo, ExposureTasks

LEMMA CmdToFacts ==
  ASSUME cmd \in [Exposures -> CommandTasks], NEW e \in Exposures, NEW pc, NEW note
  PROVE  /\ CmdTo(e, pc, note)[e].pc = pc /\ CmdTo(e, pc, note)[e].note = note
         /\ CmdTo(e, pc, note)[e].gen = cmd[e].gen
         /\ CmdTo(e, pc, note)[e].op = cmd[e].op
         /\ CmdTo(e, pc, note)[e].abort = cmd[e].abort
         /\ \A f \in Exposures : f # e => CmdTo(e, pc, note)[f] = cmd[f]
BY DEF CmdTo, CommandTasks

LEMMA GuideToFacts ==
  ASSUME gd \in [Guides -> GuideTasks], NEW g \in Guides, NEW pc, NEW note
  PROVE  /\ GuideTo(g, pc, note)[g].pc = pc /\ GuideTo(g, pc, note)[g].note = note
         /\ GuideTo(g, pc, note)[g].gen = gd[g].gen
         /\ GuideTo(g, pc, note)[g].op = gd[g].op
         /\ \A f \in Guides : f # g => GuideTo(g, pc, note)[f] = gd[f]
BY DEF GuideTo, GuideTasks

(* A task that goes on stays a task.                                      *)
LEMMA ExpToType ==
  ASSUME exp \in [Exposures -> ExposureTasks], NEW e \in Exposures,
         NEW pc \in {"ready", "sent", "rejected", "wait", "polled", "before", "publish"},
         NEW note \in Flight \cup {"ready", "running"}
  PROVE  ExpTo(e, pc, note) \in [Exposures -> ExposureTasks]
<1>1. [exp[e] EXCEPT !.pc = pc, !.note = note] \in ExposureTasks
  BY DEF ExposureTasks
<1>2. ExpTo(e, pc, note) = [exp EXCEPT ![e] = [exp[e] EXCEPT !.pc = pc, !.note = note]]
  BY DEF ExpTo
<1>3. QED BY <1>1, <1>2

LEMMA CmdToType ==
  ASSUME cmd \in [Exposures -> CommandTasks], NEW e \in Exposures,
         NEW pc \in {"sent", "yield"},
         NEW note \in Flight
  PROVE  CmdTo(e, pc, note) \in [Exposures -> CommandTasks]
BY DEF CmdTo, CommandTasks

LEMMA GuideToType ==
  ASSUME gd \in [Guides -> GuideTasks], NEW g \in Guides,
         NEW pc \in {"sent", "started", "watch", "yield"},
         NEW note \in Flight
  PROVE  GuideTo(g, pc, note) \in [Guides -> GuideTasks]
BY DEF GuideTo, GuideTasks

LEMMA TaskEdits ==
  ASSUME NEW t \in ExposureTasks
  PROVE  /\ \A gen \in Gens : [t EXCEPT !.pc = "new", !.gen = gen] \in ExposureTasks
         /\ \A f \in Exposures \cup {None} :
              /\ [t EXCEPT !.pc = "fetch", !.meta = f] \in ExposureTasks
              /\ [t EXCEPT !.pc = "after", !.frame = f] \in ExposureTasks
<1>1. ASSUME NEW gen \in Gens
      PROVE  [t EXCEPT !.pc = "new", !.gen = gen] \in ExposureTasks
  BY <1>1 DEF ExposureTasks
<1>2. ASSUME NEW f \in Exposures \cup {None}
      PROVE  [t EXCEPT !.pc = "fetch", !.meta = f] \in ExposureTasks
  BY <1>2 DEF ExposureTasks
<1>3. ASSUME NEW f \in Exposures \cup {None}
      PROVE  [t EXCEPT !.pc = "after", !.frame = f] \in ExposureTasks
  BY <1>3 DEF ExposureTasks
<1>4. QED BY <1>1, <1>2, <1>3

(* A task that has ended holds nothing, and no other task changes.         *)
LEMMA ExpEndsFacts ==
  ASSUME exp \in [Exposures -> ExposureTasks], NEW e \in Exposures
  PROVE  /\ ExpEnds(e) \in [Exposures -> ExposureTasks]
         /\ ExpEnds(e)[e].pc = "end" /\ ExpEnds(e)[e].gen = 0
         /\ ExpEnds(e)[e].op = None
         /\ \A f \in Exposures : f # e => ExpEnds(e)[f] = exp[f]
<1>1. NoExp("end") \in ExposureTasks
  BY AcquisitionAssumption DEF NoExp, ExposureTasks, Gens, Flight, Leases
<1>2. /\ NoExp("end").pc = "end" /\ NoExp("end").gen = 0
      /\ NoExp("end").op = None
  BY DEF NoExp
<1>3. QED BY <1>1, <1>2 DEF ExpEnds

LEMMA CmdEndsFacts ==
  ASSUME cmd \in [Exposures -> CommandTasks], NEW e \in Exposures
  PROVE  /\ CmdEnds(e) \in [Exposures -> CommandTasks]
         /\ CmdEnds(e)[e].pc = "end"
         /\ \A f \in Exposures : f # e => CmdEnds(e)[f] = cmd[f]
<1>1. NoCmd("end") \in CommandTasks
  BY AcquisitionAssumption DEF NoCmd, CommandTasks, Gens, Flight, Leases
<1>2. NoCmd("end").pc = "end"
  BY DEF NoCmd
<1>3. QED BY <1>1, <1>2 DEF CmdEnds

LEMMA GuideEndsFacts ==
  ASSUME gd \in [Guides -> GuideTasks], NEW g \in Guides
  PROVE  /\ GuideEnds(g) \in [Guides -> GuideTasks]
         /\ GuideEnds(g)[g].pc = "end" /\ GuideEnds(g)[g].op = None
         /\ \A f \in Guides : f # g => GuideEnds(g)[f] = gd[f]
<1>1. NoGuide("end") \in GuideTasks
  BY AcquisitionAssumption DEF NoGuide, GuideTasks, Gens, Flight, Leases
<1>2. NoGuide("end").pc = "end" /\ NoGuide("end").op = None
  BY DEF NoGuide
<1>3. QED BY <1>1, <1>2 DEF GuideEnds

(* A write keeps the types, the generation never goes back, and a write    *)
(* whose sender heard an ok found the source connected and in control.     *)
LEMMA WriteFacts ==
  ASSUME src \in Sources,
         NEW t, NEW o, NEW after, Write(t, o, after)
  PROVE  /\ src' \in Sources
         /\ src'.gen \in Nat /\ src'.gen >= src.gen /\ src'.stopped = src.stopped
         /\ src'.up => src.up
         /\ eq' \in {eq, after}
         /\ o = "refused" => eq' = eq
         /\ o = "ok" => eq' = after /\ src' = src
         /\ o # "refused" => Connected(t.gen) /\ ctrl = t.op
<1> USE AcquisitionAssumption DEF Write, Sources, Gens
<1>1. /\ o \in {"refused", "ok", "late", "lost", "unknown"}
      /\ (o \in {"lost", "unknown"} => src.gen < MaxGen)
  BY DEF Outcomes
<1>2. o # "refused" => Connected(t.gen) /\ ctrl = t.op
  BY DEF Outcomes
<1>3. CASE o \in {"refused", "ok"}
  BY <1>2, <1>3
<1>4. CASE o = "late"
  <2>1. src' = [src EXCEPT !.up = FALSE]
    BY <1>4
  <2>2. src' \in Sources
    BY <2>1
  <2>3. src'.gen = src.gen /\ src'.stopped = src.stopped /\ ~src'.up
    BY <2>1
  <2>4. eq' \in {eq, after}
    BY <1>4
  <2>5. QED BY <1>2, <1>4, <2>2, <2>3, <2>4
<1>5. CASE o = "lost"
  <2>1. src' = [src EXCEPT !.up = FALSE, !.gen = @ + 1]
    BY <1>5
  <2>2. src.gen + 1 \in 0..MaxGen
    BY <1>1, <1>5
  <2>3. src' \in Sources
    BY <2>1, <2>2
  <2>4. src'.gen = src.gen + 1 /\ src'.stopped = src.stopped /\ ~src'.up
    BY <2>1
  <2>5. eq' \in {eq, after}
    BY <1>5
  <2>6. QED BY <1>2, <1>5, <2>2, <2>3, <2>4, <2>5
<1>6. CASE o = "unknown"
  <2>1. src' = [src EXCEPT !.up = FALSE, !.gen = @ + 1, !.doubt = TRUE]
    BY <1>6
  <2>2. src.gen + 1 \in 0..MaxGen
    BY <1>1, <1>6
  <2>3. src' \in Sources
    BY <2>1, <2>2
  <2>4. src'.gen = src.gen + 1 /\ src'.stopped = src.stopped /\ ~src'.up
    BY <2>1
  <2>5. eq' \in {eq, after}
    BY <1>6
  <2>6. QED BY <1>2, <1>6, <2>2, <2>3, <2>4, <2>5
<1>7. QED BY <1>1, <1>3, <1>4, <1>5, <1>6

(* What a pulse's task, and the setting slot's, leave alone.               *)
LEMMA GuideFrame ==
  ASSUME TypeOK, NEW g \in Guides, GuideTask(g)
  PROVE  /\ UNCHANGED <<sess, eq, active, done, setting, retired,
                        exp, cmd, setg, overReleased>>
         /\ \/ src' = src
            \/ /\ src'.gen \in Nat /\ src'.gen >= src.gen
               /\ src'.stopped = src.stopped /\ (src'.up => src.up)
<1>1. CASE GuideSent(g)
  BY <1>1, WriteFacts DEF GuideSent, restOfGuide, TypeOK
<1>2. CASE GuideGivesUp(g) \/ GuideClaim(g) \/ GuideHold(g) \/ GuideHeard(g)
  BY <1>2 DEF GuideGivesUp, GuideClaim, GuideHold, GuideHeard, restOfGuide
<1>3. CASE GuideRuns(g) \/ GuideOver(g) \/ GuideLost(g) \/ GuideFinished(g)
  BY <1>3 DEF GuideRuns, GuideOver, GuideLost, GuideFinished, restOfGuide
<1>4. QED BY <1>1, <1>2, <1>3 DEF GuideTask

LEMMA SettingFrame ==
  ASSUME TypeOK, SettingTask
  PROVE  /\ UNCHANGED <<sess, eq, active, guide, done, retired, exp, cmd, gd, overReleased>>
         /\ \/ src' = src
            \/ /\ src'.gen \in Nat /\ src'.gen >= src.gen
               /\ src'.stopped = src.stopped /\ (src'.up => src.up)
<1>1. CASE SettingSent
  BY <1>1, WriteFacts DEF SettingSent, restOfSet, TypeOK
<1>2. CASE SettingEnds \/ SettingClaim \/ SettingHeard
  BY <1>2 DEF SettingEnds, SettingClaim, SettingHeard, restOfSet
<1>3. QED BY <1>1, <1>2 DEF SettingTask


(* Every step keeps the types.                                              *)
LEMMA TypeStep ==
  ASSUME TypeOK, Next
  PROVE  TypeOK'
<1> USE AcquisitionAssumption DEF TypeOK
<1>1. CASE Release
  <2>1. ctrl' \in Leases \cup {None}
    BY <1>1 DEF Release, Referenced, Leases
  <2>2. QED BY <1>1, <2>1 DEF Release, supVars
<1>2. CASE Source
  <2>1. src' \in Sources
    <3>1. src.gen < MaxGen => src.gen + 1 \in Gens
      BY DEF Sources, Gens
    <3>2. CASE src' = [src EXCEPT !.up = FALSE, !.gen = @ + 1] /\ src.gen < MaxGen
      BY <3>1, <3>2 DEF Sources
    <3>3. CASE src' = [src EXCEPT !.up = FALSE]
      BY <3>3 DEF Sources
    <3>4. CASE src' = [src EXCEPT !.up = TRUE, !.gen = @ + 1] /\ src.gen < MaxGen
      BY <3>1, <3>4 DEF Sources
    <3>5. CASE src' = [src EXCEPT !.up = FALSE, !.stopped = TRUE]
      BY <3>5 DEF Sources
    <3>6. QED BY <1>2, <3>2, <3>3, <3>4, <3>5 DEF Source
  <2>2. QED BY <1>2, <2>1 DEF Source, supVars
<1>3. CASE Frame
  <2>1. eq' \in [run : Exposures \cup {None}, frame : Exposures \cup {None}]
    BY <1>3 DEF Frame
  <2>2. QED BY <1>3, <2>1 DEF Frame, supVars
<1>4. CASE Status
  <2>1. active' \in Acquisitions
    BY <1>4, UncertainFacts DEF Status
  <2>2. QED BY <1>4, <2>1 DEF Status
<1>5. CASE Abandon
  <2>1. active' \in Acquisitions
    BY <1>5, IdleFacts DEF Abandon
  <2>2. guide' \in Pulses
    BY <1>5, IdleFacts DEF Abandon
  <2>3. QED BY <1>5, <2>1, <2>2 DEF Abandon
<1>6. CASE Retire
  <2>1. active' \in Acquisitions
    BY <1>6, IdleFacts DEF Retire
  <2>2. guide' \in Pulses
    BY <1>6, IdleFacts DEF Retire
  <2>3. done' \in Images
    BY <1>6, IdleFacts DEF Retire
  <2>4. retired' \in BOOLEAN
    BY <1>6 DEF Retire
  <2>5. QED BY <1>6, <2>1, <2>2, <2>3, <2>4 DEF Retire
<1>7. ASSUME NEW s \in Sessions, Connect(s)
     PROVE  TypeOK'
  <2>1. sess' \in [Sessions -> Gens]
    BY <1>7 DEF Connect, Sources
  <2>2. QED BY <1>7, <2>1 DEF Connect, supVars
<1>8. ASSUME NEW s \in Sessions, NEW e \in Exposures, Admit(s, e)
     PROVE  TypeOK'
  <2>1. active' \in Acquisitions
    BY <1>8 DEF Admit, Acquisitions, Pulses, Leases
  <2>2. exp' \in [Exposures -> ExposureTasks]
    <3>1. [exp[e] EXCEPT !.pc = "new", !.gen = sess[s]] \in ExposureTasks
      BY TaskEdits
    <3>2. exp' = [exp EXCEPT ![e] = [exp[e] EXCEPT !.pc = "new", !.gen = sess[s]]]
      BY <1>8 DEF Admit
    <3>3. QED BY <3>1, <3>2
  <2>3. QED BY <1>8, <2>1, <2>2 DEF Admit, restOfExp
<1>9. ASSUME NEW s \in Sessions, NEW abort \in BOOLEAN, Command(s, abort)
     PROVE  TypeOK'
  <2>1. active' \in Acquisitions
    BY <1>9 DEF Command, Acquisitions, Live
  <2>2. cmd' \in [Exposures -> CommandTasks]
    BY <1>9 DEF Command, CommandTasks, Acquisitions, Flight
  <2>3. QED BY <1>9, <2>1, <2>2 DEF Command, restOfCmd
<1>10. ASSUME NEW s \in Sessions, NEW g \in Guides, Pulse(s, g)
     PROVE  TypeOK'
  <2>1. guide' \in Pulses
    BY <1>10 DEF Pulse, Pulses, Acquisitions, Leases
  <2>2. gd' \in [Guides -> GuideTasks]
    BY <1>10 DEF Pulse, GuideTasks, Acquisitions, Flight
  <2>3. QED BY <1>10, <2>1, <2>2 DEF Pulse, restOfGuide
<1>11. ASSUME NEW s \in Sessions, NEW capture \in BOOLEAN, Set(s, capture)
     PROVE  TypeOK'
  <2>1. setting' \in BOOLEAN
    BY <1>11 DEF Set
  <2>2. setg' \in SettingTasks
    BY <1>11 DEF Set, SettingTasks, Acquisitions, Flight
  <2>3. QED BY <1>11, <2>1, <2>2 DEF Set, restOfSet
<1>12. ASSUME NEW e \in Exposures, GiveUp(e)
     PROVE  TypeOK'
  <2>1. ctrl' \in Leases \cup {None}
    BY <1>12 DEF GiveUp, EndRejected, Yield, Leases
  <2>2. active' \in Acquisitions
    BY <1>12, IdleFacts DEF GiveUp, EndRejected, Without
  <2>3. exp' \in [Exposures -> ExposureTasks]
    BY <1>12, ExpEndsFacts, ExpToType DEF GiveUp, EndRejected, Flight
  <2>4. QED BY <1>12, <2>1, <2>2, <2>3 DEF GiveUp, EndRejected, restOfExp
<1>13. ASSUME NEW e \in Exposures, Claim(e)
     PROVE  TypeOK'
  <2>1. ctrl' \in Leases \cup {None}
    BY <1>13 DEF Claim, Leases
  <2>2. exp' \in [Exposures -> ExposureTasks]
    BY <1>13 DEF Claim, ExposureTasks, Acquisitions, Pulses, Leases
  <2>3. QED BY <1>13, <2>1, <2>2 DEF Claim, restOfExp
<1>14. ASSUME NEW e \in Exposures, Hold(e)
     PROVE  TypeOK'
  <2>1. active' \in Acquisitions
    BY <1>14 DEF Hold, Acquisitions, Live, ExposureTasks, Pulses, Leases
  <2>2. exp' \in [Exposures -> ExposureTasks]
    BY <1>14 DEF Hold, ExposureTasks, Acquisitions, Pulses, Leases
  <2>3. QED BY <1>14, <2>1, <2>2 DEF Hold, restOfExp
<1>15. ASSUME NEW e \in Exposures, Prepare(e)
     PROVE  TypeOK'
  <2>1. exp' \in [Exposures -> ExposureTasks]
    BY <1>15, ExpToType DEF Prepare, Flight
  <2>2. QED BY <1>15, <2>1 DEF Prepare, restOfExp
<1>16. ASSUME NEW e \in Exposures, Dispatch(e)
     PROVE  TypeOK'
  <2>1. src' \in Sources
    BY <1>16, WriteFacts DEF Dispatch
  <2>2. eq' \in [run : Exposures \cup {None}, frame : Exposures \cup {None}]
    BY <1>16, WriteFacts DEF Dispatch
  <2>3. active' \in Acquisitions
    BY <1>16 DEF Dispatch, Acquisitions, Live, ExposureTasks, Pulses, Leases
  <2>4. exp' \in [Exposures -> ExposureTasks]
    BY <1>16, ExpEndsFacts, ExpToType DEF Dispatch
  <2>5. QED BY <1>16, <2>1, <2>2, <2>3, <2>4 DEF Dispatch, restOfExp
<1>17. ASSUME NEW e \in Exposures, Acknowledged(e)
     PROVE  TypeOK'
  <2>1. ctrl' \in Leases \cup {None}
    BY <1>17 DEF Acknowledged, EndRejected, Yield, Leases
  <2>2. active' \in Acquisitions
    BY <1>17, IdleFacts, UncertainFacts DEF Acknowledged, EndRejected,
       Without, Acquisitions, Live, Pulses, Leases
  <2>3. done' \in Images
    BY <1>17, IdleFacts DEF Acknowledged, EndRejected
  <2>4. exp' \in [Exposures -> ExposureTasks]
    BY <1>17, ExpEndsFacts, ExpToType DEF Acknowledged, EndRejected, Flight,
       Acquisitions, Pulses, Leases
  <2>5. QED BY <1>17, <2>1, <2>2, <2>3, <2>4 DEF Acknowledged, EndRejected,
           restOfExp
<1>18. ASSUME NEW e \in Exposures, Rejected(e)
     PROVE  TypeOK'
  <2>1. active' \in Acquisitions
    BY <1>18, IdleFacts, UncertainFacts DEF Rejected, Without
  <2>2. exp' \in [Exposures -> ExposureTasks]
    BY <1>18, ExpEndsFacts DEF Rejected
  <2>3. QED BY <1>18, <2>1, <2>2 DEF Rejected, restOfExp
<1>19. ASSUME NEW e \in Exposures, ReleaseCut(e)
     PROVE  TypeOK'
  <2>1. active' \in Acquisitions
    BY <1>19, UncertainFacts DEF ReleaseCut
  <2>2. exp' \in [Exposures -> ExposureTasks]
    BY <1>19, ExpEndsFacts DEF ReleaseCut
  <2>3. QED BY <1>19, <2>1, <2>2 DEF ReleaseCut, restOfExp
<1>20. ASSUME NEW e \in Exposures, Failed(e)
     PROVE  TypeOK'
  <2>1. active' \in Acquisitions
    BY <1>20, UncertainFacts DEF Failed
  <2>2. exp' \in [Exposures -> ExposureTasks]
    BY <1>20, ExpEndsFacts DEF Failed
  <2>3. QED BY <1>20, <2>1, <2>2 DEF Failed, restOfExp
<1>21. ASSUME NEW e \in Exposures, Poll(e)
     PROVE  TypeOK'
  <2>1. exp' \in [Exposures -> ExposureTasks]
    BY <1>21, ExpEndsFacts, ExpToType DEF Poll, Flight
  <2>2. QED BY <1>21, <2>1 DEF Poll, restOfExp
<1>22. ASSUME NEW e \in Exposures, Polled(e)
     PROVE  TypeOK'
  <2>1. active' \in Acquisitions
    BY <1>22 DEF Polled, Acquisitions, Live
  <2>2. exp' \in [Exposures -> ExposureTasks]
    BY <1>22, ExpEndsFacts, ExpToType DEF Polled, Flight
  <2>3. QED BY <1>22, <2>1, <2>2 DEF Polled, restOfExp
<1>23. ASSUME NEW e \in Exposures, Before(e)
     PROVE  TypeOK'
  <2>1. exp' \in [Exposures -> ExposureTasks]
    <3>1. [exp[e] EXCEPT !.pc = "fetch", !.meta = eq.frame] \in ExposureTasks
      BY TaskEdits
    <3>2. exp' = [exp EXCEPT ![e] = [exp[e] EXCEPT !.pc = "fetch", !.meta = eq.frame]]
      BY <1>23 DEF Before
    <3>3. QED BY <3>1, <3>2
  <2>2. QED BY <1>23, <2>1 DEF Before, restOfExp
<1>24. ASSUME NEW e \in Exposures, Fetch(e)
     PROVE  TypeOK'
  <2>1. exp' \in [Exposures -> ExposureTasks]
    <3>1. [exp[e] EXCEPT !.pc = "after", !.frame = eq.frame] \in ExposureTasks
      BY TaskEdits
    <3>2. exp' = [exp EXCEPT ![e] = [exp[e] EXCEPT !.pc = "after", !.frame = eq.frame]]
      BY <1>24 DEF Fetch
    <3>3. QED BY <3>1, <3>2
  <2>2. QED BY <1>24, <2>1 DEF Fetch, restOfExp
<1>25. ASSUME NEW e \in Exposures, After(e)
     PROVE  TypeOK'
  <2>1. ctrl' \in Leases \cup {None}
    BY <1>25 DEF After, Yield, Leases
  <2>2. active' \in Acquisitions
    BY <1>25, IdleFacts DEF After, Published, Acquisitions, ExposureTasks
  <2>3. done' \in Images
    BY <1>25, IdleFacts DEF After, Published, Images, ExposureTasks
  <2>4. exp' \in [Exposures -> ExposureTasks]
    BY <1>25, ExpEndsFacts, ExpToType DEF After, Flight
  <2>5. QED BY <1>25, <2>1, <2>2, <2>3, <2>4 DEF After, Published, restOfExp
<1>26. ASSUME NEW e \in Exposures, Publish(e)
     PROVE  TypeOK'
  <2>1. active' \in Acquisitions
    BY <1>26, IdleFacts DEF Publish, Published, Acquisitions
  <2>2. done' \in Images
    BY <1>26, IdleFacts DEF Publish, Published, Images, ExposureTasks
  <2>3. exp' \in [Exposures -> ExposureTasks]
    BY <1>26, ExpEndsFacts DEF Publish, ExposureTasks
  <2>4. QED BY <1>26, <2>1, <2>2, <2>3 DEF Publish, Published, restOfExp
<1>27. ASSUME NEW e \in Exposures, CommandEnds(e)
     PROVE  TypeOK'
  <2>1. active' \in Acquisitions
    BY <1>27, EndCommandFacts, UncertainFacts DEF CommandEnds
  <2>2. cmd' \in [Exposures -> CommandTasks]
    BY <1>27, CmdEndsFacts DEF CommandEnds
  <2>3. QED BY <1>27, <2>1, <2>2 DEF CommandEnds, restOfCmd
<1>28. ASSUME NEW e \in Exposures, CommandSent(e)
     PROVE  TypeOK'
  <2>1. src' \in Sources
    BY <1>28, WriteFacts DEF CommandSent
  <2>2. eq' \in [run : Exposures \cup {None}, frame : Exposures \cup {None}]
    BY <1>28, WriteFacts DEF CommandSent
  <2>3. cmd' \in [Exposures -> CommandTasks]
    BY <1>28, CmdToType DEF CommandSent, CommandTasks, Flight
  <2>4. QED BY <1>28, <2>1, <2>2, <2>3 DEF CommandSent, restOfCmd
<1>29. ASSUME NEW e \in Exposures, CommandHeard(e)
     PROVE  TypeOK'
  <2>1. ctrl' \in Leases \cup {None}
    BY <1>29 DEF CommandHeard, Yield, Leases
  <2>2. active' \in Acquisitions
    BY <1>29, EndCommandFacts, IdleFacts, UncertainFacts DEF CommandHeard,
       Aborted, Without
  <2>3. done' \in Images
    BY <1>29, IdleFacts DEF CommandHeard, Aborted
  <2>4. cmd' \in [Exposures -> CommandTasks]
    BY <1>29, CmdEndsFacts, CmdToType DEF CommandHeard, Flight
  <2>5. overReleased' \in BOOLEAN
    BY <1>29 DEF CommandHeard
  <2>6. QED BY <1>29, <2>1, <2>2, <2>3, <2>4, <2>5 DEF CommandHeard, Aborted,
           restOfCmd
<1>30. ASSUME NEW e \in Exposures, AbortEnds(e)
     PROVE  TypeOK'
  <2>1. active' \in Acquisitions
    BY <1>30, IdleFacts, UncertainFacts DEF AbortEnds, Aborted, Without
  <2>2. done' \in Images
    BY <1>30, IdleFacts DEF AbortEnds, Aborted
  <2>3. cmd' \in [Exposures -> CommandTasks]
    BY <1>30, CmdEndsFacts DEF AbortEnds
  <2>4. QED BY <1>30, <2>1, <2>2, <2>3 DEF AbortEnds, Aborted, restOfCmd
<1>31. ASSUME NEW g \in Guides, GuideGivesUp(g)
     PROVE  TypeOK'
  <2>1. ctrl' \in Leases \cup {None}
    BY <1>31 DEF GuideGivesUp, FinishGuide, Yield, Leases
  <2>2. guide' \in Pulses
    BY <1>31, IdleFacts DEF GuideGivesUp, FinishGuide, Pulses, Acquisitions,
       Leases
  <2>3. gd' \in [Guides -> GuideTasks]
    BY <1>31, GuideEndsFacts, GuideToType DEF GuideGivesUp, FinishGuide,
       Flight, Acquisitions, Pulses, Leases
  <2>4. QED BY <1>31, <2>1, <2>2, <2>3 DEF GuideGivesUp, FinishGuide,
           restOfGuide
<1>32. ASSUME NEW g \in Guides, GuideClaim(g)
     PROVE  TypeOK'
  <2>1. ctrl' \in Leases \cup {None}
    BY <1>32 DEF GuideClaim, Leases
  <2>2. gd' \in [Guides -> GuideTasks]
    BY <1>32 DEF GuideClaim, GuideTasks, Acquisitions, Pulses, Leases
  <2>3. QED BY <1>32, <2>1, <2>2 DEF GuideClaim, restOfGuide
<1>33. ASSUME NEW g \in Guides, GuideHold(g)
     PROVE  TypeOK'
  <2>1. guide' \in Pulses
    BY <1>33 DEF GuideHold, Pulses, GuideTasks, Acquisitions, Leases
  <2>2. gd' \in [Guides -> GuideTasks]
    BY <1>33 DEF GuideHold, GuideTasks, Acquisitions, Pulses, Leases
  <2>3. QED BY <1>33, <2>1, <2>2 DEF GuideHold, restOfGuide
<1>34. ASSUME NEW g \in Guides, GuideSent(g)
     PROVE  TypeOK'
  <2>1. src' \in Sources
    BY <1>34, WriteFacts DEF GuideSent
  <2>2. eq' \in [run : Exposures \cup {None}, frame : Exposures \cup {None}]
    BY <1>34, WriteFacts DEF GuideSent
  <2>3. gd' \in [Guides -> GuideTasks]
    BY <1>34, GuideToType DEF GuideSent, Flight
  <2>4. QED BY <1>34, <2>1, <2>2, <2>3 DEF GuideSent, restOfGuide
<1>35. ASSUME NEW g \in Guides, GuideHeard(g)
     PROVE  TypeOK'
  <2>1. ctrl' \in Leases \cup {None}
    BY <1>35 DEF GuideHeard, FinishGuide, Yield, Leases
  <2>2. guide' \in Pulses
    BY <1>35, GuideUncertainFacts, IdleFacts DEF GuideHeard, FinishGuide,
       Pulses, Acquisitions, Leases
  <2>3. gd' \in [Guides -> GuideTasks]
    BY <1>35, GuideEndsFacts, GuideToType DEF GuideHeard, FinishGuide, Flight,
       Acquisitions, Pulses, Leases
  <2>4. QED BY <1>35, <2>1, <2>2, <2>3 DEF GuideHeard, FinishGuide,
           restOfGuide
<1>36. ASSUME NEW g \in Guides, GuideRuns(g)
     PROVE  TypeOK'
  <2>1. guide' \in Pulses
    BY <1>36 DEF GuideRuns, Pulses
  <2>2. gd' \in [Guides -> GuideTasks]
    BY <1>36, GuideEndsFacts, GuideToType DEF GuideRuns, Flight
  <2>3. QED BY <1>36, <2>1, <2>2 DEF GuideRuns, restOfGuide
<1>37. ASSUME NEW g \in Guides, GuideOver(g)
     PROVE  TypeOK'
  <2>1. ctrl' \in Leases \cup {None}
    BY <1>37 DEF GuideOver, FinishGuide, Yield, Leases
  <2>2. guide' \in Pulses
    BY <1>37, IdleFacts DEF GuideOver, FinishGuide, Pulses, Acquisitions,
       Leases
  <2>3. gd' \in [Guides -> GuideTasks]
    BY <1>37, GuideEndsFacts, GuideToType DEF GuideOver, FinishGuide, Flight,
       Acquisitions, Pulses, Leases
  <2>4. QED BY <1>37, <2>1, <2>2, <2>3 DEF GuideOver, FinishGuide, restOfGuide
<1>38. ASSUME NEW g \in Guides, GuideLost(g)
     PROVE  TypeOK'
  <2>1. guide' \in Pulses
    BY <1>38, GuideUncertainFacts DEF GuideLost
  <2>2. gd' \in [Guides -> GuideTasks]
    BY <1>38, GuideEndsFacts DEF GuideLost
  <2>3. QED BY <1>38, <2>1, <2>2 DEF GuideLost, restOfGuide
<1>39. ASSUME NEW g \in Guides, GuideFinished(g)
     PROVE  TypeOK'
  <2>1. guide' \in Pulses
    BY <1>39, GuideUncertainFacts, IdleFacts DEF GuideFinished
  <2>2. gd' \in [Guides -> GuideTasks]
    BY <1>39, GuideEndsFacts DEF GuideFinished
  <2>3. QED BY <1>39, <2>1, <2>2 DEF GuideFinished, restOfGuide
<1>40. CASE SettingEnds
  <2>1. setting' \in BOOLEAN
    BY <1>40 DEF SettingEnds
  <2>2. setg' \in SettingTasks
    BY <1>40 DEF SettingEnds, NoSetting, SettingTasks, Flight, Gens
  <2>3. QED BY <1>40, <2>1, <2>2 DEF SettingEnds, restOfSet
<1>41. CASE SettingClaim
  <2>1. ctrl' \in Leases \cup {None}
    BY <1>41 DEF SettingClaim, Leases
  <2>2. setg' \in SettingTasks
    <3>1. [setg EXCEPT !.pc = "granted"] \in SettingTasks
      BY DEF SettingTasks
    <3>2. [setg EXCEPT !.pc = "granted", !.op = Setter] \in SettingTasks
      BY DEF SettingTasks, Leases
    <3>3. QED BY <1>41, <3>1, <3>2 DEF SettingClaim
  <2>3. QED BY <1>41, <2>1, <2>2 DEF SettingClaim, restOfSet
<1>42. CASE SettingSent
  <2>1. src' \in Sources
    BY <1>42, WriteFacts DEF SettingSent
  <2>2. eq' \in [run : Exposures \cup {None}, frame : Exposures \cup {None}]
    BY <1>42, WriteFacts DEF SettingSent
  <2>3. setg' \in SettingTasks
    BY <1>42 DEF SettingSent, SettingTasks, Flight
  <2>4. QED BY <1>42, <2>1, <2>2, <2>3 DEF SettingSent, restOfSet
<1>43. CASE SettingHeard
  <2>1. ctrl' \in Leases \cup {None}
    BY <1>43 DEF SettingHeard, Yield, Leases
  <2>2. setg' \in SettingTasks
    BY <1>43 DEF SettingHeard, SettingTasks, Acquisitions, Pulses, Leases
  <2>3. QED BY <1>43, <2>1, <2>2 DEF SettingHeard, restOfSet
<1>44. QED BY <1>1, <1>2, <1>3, <1>4, <1>5, <1>6, <1>7, <1>8, <1>9, <1>10,
          <1>11, <1>12, <1>13, <1>14, <1>15, <1>16, <1>17, <1>18, <1>19,
          <1>20, <1>21, <1>22, <1>23, <1>24, <1>25, <1>26, <1>27, <1>28,
          <1>29, <1>30, <1>31, <1>32, <1>33, <1>34, <1>35, <1>36, <1>37,
          <1>38, <1>39, <1>40, <1>41, <1>42, <1>43 DEF Next, ExposureTask,
          CommandTask, GuideTask, SettingTask

(* Generations never exceed that of the source.                            *)
LEMMA SourceStep ==
  ASSUME TypeOK, SourceGrows, Next
  PROVE  SourceGrows'
<1> USE AcquisitionAssumption DEF TypeOK, SourceGrows
<1>0. src.gen \in Nat /\ active.gen \in Nat /\ \A e \in Exposures : exp[e].gen \in Nat
  BY GenFacts
<1>1. CASE Release
  BY <1>1, <1>0 DEF Release, Referenced, supVars
<1>2. CASE Source
  <2>1. CASE src' = [src EXCEPT !.up = FALSE, !.gen = @ + 1] /\ src.gen < MaxGen /\
           src.up
    BY <1>2, <2>1, <1>0 DEF Source, supVars, Sources
  <2>2. CASE src' = [src EXCEPT !.up = FALSE]
    BY <1>2, <2>2, <1>0 DEF Source, supVars, Sources
  <2>3. CASE src' = [src EXCEPT !.up = TRUE, !.gen = @ + 1] /\ src.gen < MaxGen
    BY <1>2, <2>3, <1>0 DEF Source, supVars, Sources
  <2>4. CASE src' = [src EXCEPT !.up = FALSE, !.stopped = TRUE]
    BY <1>2, <2>4, <1>0 DEF Source, supVars, Sources
  <2>5. QED BY <1>2, <2>1, <2>2, <2>3, <2>4 DEF Source
<1>3. CASE Frame
  BY <1>3, <1>0 DEF Frame, supVars
<1>4. CASE Status
  BY <1>4, <1>0, UncertainFacts DEF Status
<1>5. CASE Abandon
  BY <1>5, <1>0, IdleFacts DEF Abandon
<1>6. CASE Retire
  BY <1>6, <1>0, IdleFacts DEF Retire
<1>7. ASSUME NEW s \in Sessions, Connect(s)
     PROVE  SourceGrows'
  BY <1>7, <1>0 DEF Connect, supVars
<1>8. ASSUME NEW s \in Sessions, NEW e \in Exposures, Admit(s, e)
     PROVE  SourceGrows'
  BY <1>8, <1>0 DEF Admit, Connected, restOfExp, ExposureTasks
<1>9. ASSUME NEW s \in Sessions, NEW abort \in BOOLEAN, Command(s, abort)
     PROVE  SourceGrows'
  BY <1>9, <1>0 DEF Command, Connected, restOfCmd, Acquisitions, CommandTasks
<1>10. ASSUME NEW s \in Sessions, NEW g \in Guides, Pulse(s, g)
     PROVE  SourceGrows'
  BY <1>10, <1>0, IdleFacts DEF Pulse, Connected, restOfGuide, GuideTasks
<1>11. ASSUME NEW s \in Sessions, NEW capture \in BOOLEAN, Set(s, capture)
     PROVE  SourceGrows'
  BY <1>11, <1>0, IdleFacts DEF Set, Connected, restOfSet
<1>12. ASSUME NEW e \in Exposures, GiveUp(e)
     PROVE  SourceGrows'
  <2>1. exp' = ExpEnds(e) \/ \E o : exp' = ExpTo(e, "rejected", o)
    BY <1>12 DEF GiveUp, EndRejected
  <2>2. \A f \in Exposures : exp'[f].gen \in {exp[f].gen, 0}
    BY <2>1, ExpEndsFacts, ExpToFacts
  <2>3. active'.gen \in {active.gen, 0} /\ UNCHANGED <<src, retired>>
    BY <1>12, IdleFacts DEF GiveUp, EndRejected, Without, restOfExp
  <2>4. QED BY <1>0, <2>2, <2>3
<1>13. ASSUME NEW e \in Exposures, Claim(e)
     PROVE  SourceGrows'
  <2>1. \E l : exp' = [exp EXCEPT ![e].pc = "granted", ![e].op = l]
    BY <1>13 DEF Claim
  <2>2. \A f \in Exposures : exp'[f].gen = exp[f].gen
    BY <2>1 DEF ExposureTasks
  <2>3. UNCHANGED <<active, src, retired>>
    BY <1>13 DEF Claim, restOfExp
  <2>4. QED BY <2>2, <2>3
<1>14. ASSUME NEW e \in Exposures, Hold(e)
     PROVE  SourceGrows'
  BY <1>14, <1>0 DEF Hold, Connected, restOfExp, Acquisitions, ExposureTasks
<1>15. ASSUME NEW e \in Exposures, Prepare(e)
     PROVE  SourceGrows'
  BY <1>15, <1>0, ExpToFacts DEF Prepare, Connected, restOfExp
<1>16. ASSUME NEW e \in Exposures, Dispatch(e)
     PROVE  SourceGrows'
  <2>1. \A f \in Exposures : exp'[f].gen \in {exp[f].gen, 0}
    BY <1>16, ExpEndsFacts, ExpToFacts DEF Dispatch
  <2>2. active'.gen = active.gen /\ UNCHANGED retired
    BY <1>16 DEF Dispatch, restOfExp, Acquisitions
  <2>3. \/ src' = src
        \/ /\ src'.gen \in Nat /\ src'.gen >= src.gen
           /\ src'.stopped = src.stopped /\ (src'.up => src.up)
    BY <1>16, WriteFacts DEF Dispatch
  <2>4. QED BY <1>0, <2>1, <2>2, <2>3
<1>17. ASSUME NEW e \in Exposures, Acknowledged(e)
     PROVE  SourceGrows'
  <2>1. CASE exp[e].note = "refused" /\ ~OwnsLease(e)
    BY <1>17, <2>1, <1>0, ExpEndsFacts, IdleFacts DEF Acknowledged,
       EndRejected, Doubtful, Gone, restOfExp, OwnsLease, Without,
       GuideRetains, Acquisitions
  <2>2. CASE exp[e].note = "refused" /\ OwnsLease(e)
    BY <1>17, <2>2, <1>0, ExpToFacts DEF Acknowledged, EndRejected, Doubtful,
       Gone, restOfExp, OwnsLease, GuideRetains, Acquisitions
  <2>3. CASE exp[e].note \in Doubtful
    BY <1>17, <2>3, <1>0, ExpEndsFacts, UncertainFacts DEF Acknowledged,
       Doubtful, Gone, restOfExp, OwnsLease, Acquisitions
  <2>4. CASE exp[e].note = "ok" /\ Gone(e)
    BY <1>17, <2>4, <1>0, ExpEndsFacts DEF Acknowledged, Doubtful, Gone,
       restOfExp, OwnsLease, Acquisitions
  <2>5. CASE exp[e].note = "ok" /\ ~Gone(e)
    BY <1>17, <2>5, <1>0, ExpToFacts, IdleFacts DEF Acknowledged, Doubtful,
       Gone, restOfExp, OwnsLease, Acquisitions
  <2>6. QED BY <1>17, <2>1, <2>2, <2>3, <2>4, <2>5 DEF Acknowledged
<1>18. ASSUME NEW e \in Exposures, Rejected(e)
     PROVE  SourceGrows'
  BY <1>18, <1>0, ExpEndsFacts, IdleFacts, UncertainFacts DEF Rejected,
     Without, restOfExp
<1>19. ASSUME NEW e \in Exposures, ReleaseCut(e)
     PROVE  SourceGrows'
  <2>1. \A f \in Exposures : exp'[f].gen \in {exp[f].gen, 0}
    BY <1>19, ExpEndsFacts DEF ReleaseCut
  <2>2. active'.gen = active.gen /\ UNCHANGED <<src, retired>>
    BY <1>19, UncertainFacts DEF ReleaseCut, restOfExp
  <2>3. QED BY <1>0, <2>1, <2>2
<1>20. ASSUME NEW e \in Exposures, Failed(e)
     PROVE  SourceGrows'
  BY <1>20, <1>0, ExpEndsFacts, UncertainFacts DEF Failed, restOfExp
<1>21. ASSUME NEW e \in Exposures, Poll(e)
     PROVE  SourceGrows'
  BY <1>21, <1>0, ExpEndsFacts, ExpToFacts DEF Poll, Connected, Gone, Paused,
     restOfExp
<1>22. ASSUME NEW e \in Exposures, Polled(e)
     PROVE  SourceGrows'
  <2>1. CASE Gone(e)
    BY <1>22, <2>1, <1>0, ExpEndsFacts DEF Polled, Paused, Gone, restOfExp,
       Acquisitions
  <2>2. CASE ~Gone(e) /\ Paused(e)
    BY <1>22, <2>2, <1>0, ExpToFacts DEF Polled, Paused, Gone, restOfExp,
       Acquisitions
  <2>3. CASE ~Gone(e) /\ ~Paused(e) /\ exp[e].note = "ready"
    BY <1>22, <2>3, <1>0, ExpToFacts DEF Polled, Paused, Gone, restOfExp,
       Acquisitions
  <2>4. CASE ~Gone(e) /\ ~Paused(e) /\ exp[e].note # "ready"
    BY <1>22, <2>4, <1>0, ExpToFacts DEF Polled, Paused, Gone, restOfExp,
       Acquisitions
  <2>5. QED BY <1>22, <2>1, <2>2, <2>3, <2>4 DEF Polled
<1>23. ASSUME NEW e \in Exposures, Before(e)
     PROVE  SourceGrows'
  BY <1>23, <1>0 DEF Before, Connected, restOfExp, ExposureTasks
<1>24. ASSUME NEW e \in Exposures, Fetch(e)
     PROVE  SourceGrows'
  BY <1>24, <1>0 DEF Fetch, Connected, restOfExp, ExposureTasks
<1>25. ASSUME NEW e \in Exposures, After(e)
     PROVE  SourceGrows'
  <2>1. CASE Downloaded(e) /\ GuideRetains(exp[e].op)
    BY <1>25, <2>1, <1>0, ExpEndsFacts, IdleFacts DEF After, Connected,
       Downloaded, GuideRetains, Published, restOfExp
  <2>2. CASE ~(Downloaded(e) /\ GuideRetains(exp[e].op))
    BY <1>25, <2>2, <1>0, ExpToFacts DEF After, Connected, Downloaded,
       GuideRetains, restOfExp
  <2>3. QED BY <1>25, <2>1, <2>2 DEF After
<1>26. ASSUME NEW e \in Exposures, Publish(e)
     PROVE  SourceGrows'
  BY <1>26, <1>0, ExpEndsFacts, IdleFacts DEF Publish, Connected, Downloaded,
     Published, restOfExp
<1>27. ASSUME NEW e \in Exposures, CommandEnds(e)
     PROVE  SourceGrows'
  BY <1>27, <1>0, CmdEndsFacts, EndCommandFacts, UncertainFacts DEF
     CommandEnds, restOfCmd
<1>28. ASSUME NEW e \in Exposures, CommandSent(e)
     PROVE  SourceGrows'
  BY <1>28, <1>0, CmdToFacts, WriteFacts DEF CommandSent, Connected,
     DispatchAllowed, restOfCmd
<1>29. ASSUME NEW e \in Exposures, CommandHeard(e)
     PROVE  SourceGrows'
  BY <1>29, <1>0, CmdEndsFacts, CmdToFacts, EndCommandFacts, IdleFacts,
     UncertainFacts DEF CommandHeard, GuideRetains, Doubtful, Aborted,
     restOfCmd, Without
<1>30. ASSUME NEW e \in Exposures, AbortEnds(e)
     PROVE  SourceGrows'
  BY <1>30, <1>0, CmdEndsFacts, IdleFacts, UncertainFacts DEF AbortEnds,
     Aborted, restOfCmd, Without
<1>31. ASSUME NEW g \in Guides, GuideTask(g)
     PROVE  SourceGrows'
  BY <1>31, <1>0, GuideFrame
<1>32. CASE SettingTask
  BY <1>32, <1>0, SettingFrame
<1> HIDE DEF TypeOK, SourceGrows
<1>33. QED BY <1>1, <1>2, <1>3, <1>4, <1>5, <1>6, <1>7, <1>8, <1>9, <1>10,
          <1>11, <1>12, <1>13, <1>14, <1>15, <1>16, <1>17, <1>18, <1>19,
          <1>20, <1>21, <1>22, <1>23, <1>24, <1>25, <1>26, <1>27, <1>28,
          <1>29, <1>30, <1>31, <1>32 DEF Next, ExposureTask, CommandTask

(* A stop or abort exists only for an exposure that was admitted.          *)
LEMMA FollowStep ==
  ASSUME TypeOK, CommandsFollow, Next
  PROVE  CommandsFollow'
<1> USE AcquisitionAssumption DEF TypeOK, CommandsFollow
<1>1. CASE Release
  BY <1>1 DEF Release, Referenced, supVars
<1>2. CASE Source
  BY <1>2 DEF Source, supVars, Sources
<1>3. CASE Frame
  BY <1>3 DEF Frame, supVars
<1>4. CASE Status
  BY <1>4, UncertainFacts DEF Status
<1>5. CASE Abandon
  BY <1>5, IdleFacts DEF Abandon
<1>6. CASE Retire
  BY <1>6, IdleFacts DEF Retire
<1>7. ASSUME NEW s \in Sessions, Connect(s)
     PROVE  CommandsFollow'
  BY <1>7 DEF Connect, supVars
<1>8. ASSUME NEW s \in Sessions, NEW e \in Exposures, Admit(s, e)
     PROVE  CommandsFollow'
  BY <1>8 DEF Admit, Connected, restOfExp, ExposureTasks
<1>9. ASSUME NEW s \in Sessions, NEW abort \in BOOLEAN, Command(s, abort)
     PROVE  CommandsFollow'
  BY <1>9 DEF Command, Connected, restOfCmd, Acquisitions, CommandTasks
<1>10. ASSUME NEW s \in Sessions, NEW g \in Guides, Pulse(s, g)
     PROVE  CommandsFollow'
  BY <1>10, IdleFacts DEF Pulse, Connected, restOfGuide, GuideTasks
<1>11. ASSUME NEW s \in Sessions, NEW capture \in BOOLEAN, Set(s, capture)
     PROVE  CommandsFollow'
  BY <1>11, IdleFacts DEF Set, Connected, restOfSet
<1>12. ASSUME NEW e \in Exposures, GiveUp(e)
     PROVE  CommandsFollow'
  BY <1>12, ExpEndsFacts, ExpToFacts, IdleFacts DEF GiveUp, EndRejected,
     restOfExp, OwnsLease, Without, GuideRetains
<1>13. ASSUME NEW e \in Exposures, Claim(e)
     PROVE  CommandsFollow'
  BY <1>13 DEF Claim, Grantable, restOfExp, Connected, ExposureTasks
<1>14. ASSUME NEW e \in Exposures, Hold(e)
     PROVE  CommandsFollow'
  BY <1>14 DEF Hold, Connected, restOfExp, Acquisitions, ExposureTasks
<1>15. ASSUME NEW e \in Exposures, Prepare(e)
     PROVE  CommandsFollow'
  BY <1>15, ExpToFacts DEF Prepare, Connected, restOfExp
<1>16. ASSUME NEW e \in Exposures, Dispatch(e)
     PROVE  CommandsFollow'
  BY <1>16, ExpEndsFacts, ExpToFacts, WriteFacts DEF Dispatch, restOfExp,
     Acquisitions
<1>17. ASSUME NEW e \in Exposures, Acknowledged(e)
     PROVE  CommandsFollow'
  BY <1>17, ExpEndsFacts, ExpToFacts, IdleFacts, UncertainFacts DEF
     Acknowledged, EndRejected, Doubtful, Gone, restOfExp, OwnsLease, Without,
     GuideRetains, Acquisitions
<1>18. ASSUME NEW e \in Exposures, Rejected(e)
     PROVE  CommandsFollow'
  BY <1>18, ExpEndsFacts, IdleFacts, UncertainFacts DEF Rejected, Without,
     restOfExp
<1>19. ASSUME NEW e \in Exposures, ReleaseCut(e)
     PROVE  CommandsFollow'
  BY <1>19, ExpEndsFacts, UncertainFacts DEF ReleaseCut, restOfExp
<1>20. ASSUME NEW e \in Exposures, Failed(e)
     PROVE  CommandsFollow'
  BY <1>20, ExpEndsFacts, UncertainFacts DEF Failed, restOfExp
<1>21. ASSUME NEW e \in Exposures, Poll(e)
     PROVE  CommandsFollow'
  BY <1>21, ExpEndsFacts, ExpToFacts DEF Poll, Connected, Gone, Paused,
     restOfExp
<1>22. ASSUME NEW e \in Exposures, Polled(e)
     PROVE  CommandsFollow'
  <2>1. CASE Gone(e)
    BY <1>22, <2>1, ExpEndsFacts DEF Polled, Paused, Gone, restOfExp,
       Acquisitions
  <2>2. CASE ~Gone(e) /\ Paused(e)
    BY <1>22, <2>2, ExpToFacts DEF Polled, Paused, Gone, restOfExp,
       Acquisitions
  <2>3. CASE ~Gone(e) /\ ~Paused(e) /\ exp[e].note = "ready"
    BY <1>22, <2>3, ExpToFacts DEF Polled, Paused, Gone, restOfExp,
       Acquisitions
  <2>4. CASE ~Gone(e) /\ ~Paused(e) /\ exp[e].note # "ready"
    BY <1>22, <2>4, ExpToFacts DEF Polled, Paused, Gone, restOfExp,
       Acquisitions
  <2>5. QED BY <1>22, <2>1, <2>2, <2>3, <2>4 DEF Polled
<1>23. ASSUME NEW e \in Exposures, Before(e)
     PROVE  CommandsFollow'
  BY <1>23 DEF Before, Connected, restOfExp, ExposureTasks
<1>24. ASSUME NEW e \in Exposures, Fetch(e)
     PROVE  CommandsFollow'
  BY <1>24 DEF Fetch, Connected, restOfExp, ExposureTasks
<1>25. ASSUME NEW e \in Exposures, After(e)
     PROVE  CommandsFollow'
  BY <1>25, ExpEndsFacts, ExpToFacts, IdleFacts DEF After, Connected,
     Downloaded, GuideRetains, Published, restOfExp
<1>26. ASSUME NEW e \in Exposures, Publish(e)
     PROVE  CommandsFollow'
  BY <1>26, ExpEndsFacts, IdleFacts DEF Publish, Connected, Downloaded,
     Published, restOfExp
<1>27. ASSUME NEW e \in Exposures, CommandEnds(e)
     PROVE  CommandsFollow'
  BY <1>27, CmdEndsFacts, EndCommandFacts, UncertainFacts DEF CommandEnds,
     restOfCmd
<1>28. ASSUME NEW e \in Exposures, CommandSent(e)
     PROVE  CommandsFollow'
  BY <1>28, CmdToFacts, WriteFacts DEF CommandSent, Connected,
     DispatchAllowed, restOfCmd
<1>29. ASSUME NEW e \in Exposures, CommandHeard(e)
     PROVE  CommandsFollow'
  BY <1>29, CmdEndsFacts, CmdToFacts, EndCommandFacts, IdleFacts,
     UncertainFacts DEF CommandHeard, GuideRetains, Doubtful, Aborted,
     restOfCmd, Without
<1>30. ASSUME NEW e \in Exposures, AbortEnds(e)
     PROVE  CommandsFollow'
  <2>1. CASE cmd[e].note = "ok"
    BY <1>30, <2>1, CmdEndsFacts, IdleFacts, UncertainFacts DEF AbortEnds,
       Aborted, restOfCmd, Without
  <2>2. CASE cmd[e].note # "ok"
    BY <1>30, <2>2, CmdEndsFacts, IdleFacts, UncertainFacts DEF AbortEnds,
       Aborted, restOfCmd, Without
  <2>3. QED BY <1>30, <2>1, <2>2 DEF AbortEnds
<1>31. ASSUME NEW g \in Guides, GuideTask(g)
     PROVE  CommandsFollow'
  BY <1>31, GuideFrame
<1>32. CASE SettingTask
  BY <1>32, SettingFrame
<1> HIDE DEF TypeOK, CommandsFollow
<1>33. QED BY <1>1, <1>2, <1>3, <1>4, <1>5, <1>6, <1>7, <1>8, <1>9, <1>10,
          <1>11, <1>12, <1>13, <1>14, <1>15, <1>16, <1>17, <1>18, <1>19,
          <1>20, <1>21, <1>22, <1>23, <1>24, <1>25, <1>26, <1>27, <1>28,
          <1>29, <1>30, <1>31, <1>32 DEF Next, ExposureTask, CommandTask

(* Each step moves the phase of the acquisition with its task.             *)
LEMMA TaskStep ==
  ASSUME TypeOK, CommandsFollow, PhaseOfTask, NoneIdles, PhaseOfCommand, Next
  PROVE  PhaseOfTask'
<1> USE AcquisitionAssumption DEF TypeOK, CommandsFollow, PhaseOfTask,
        Transfer, PhaseOfCommand, InFlight, NoneIdles
<1>1. CASE Release
  BY <1>1 DEF Release, Referenced, supVars
<1>2. CASE Source
  BY <1>2 DEF Source, supVars, Sources
<1>3. CASE Frame
  BY <1>3 DEF Frame, supVars
<1>4. CASE Status
  BY <1>4, UncertainFacts DEF Status
<1>5. CASE Abandon
  BY <1>5, IdleFacts DEF Abandon
<1>6. CASE Retire
  BY <1>6, IdleFacts DEF Retire
<1>7. ASSUME NEW s \in Sessions, Connect(s)
     PROVE  PhaseOfTask'
  BY <1>7 DEF Connect, supVars
<1>8. ASSUME NEW s \in Sessions, NEW e \in Exposures, Admit(s, e)
     PROVE  PhaseOfTask'
  BY <1>8 DEF Admit, Connected, restOfExp, ExposureTasks
<1>9. ASSUME NEW s \in Sessions, NEW abort \in BOOLEAN, Command(s, abort)
     PROVE  PhaseOfTask'
  BY <1>9 DEF Command, Connected, restOfCmd, Acquisitions, CommandTasks
<1>10. ASSUME NEW s \in Sessions, NEW g \in Guides, Pulse(s, g)
     PROVE  PhaseOfTask'
  BY <1>10, IdleFacts DEF Pulse, Connected, restOfGuide, GuideTasks
<1>11. ASSUME NEW s \in Sessions, NEW capture \in BOOLEAN, Set(s, capture)
     PROVE  PhaseOfTask'
  BY <1>11, IdleFacts DEF Set, Connected, restOfSet
<1>12. ASSUME NEW e \in Exposures, GiveUp(e)
     PROVE  PhaseOfTask'
  BY <1>12, ExpEndsFacts, ExpToFacts, IdleFacts DEF GiveUp, EndRejected,
     restOfExp, OwnsLease, Without, GuideRetains
<1>13. ASSUME NEW e \in Exposures, Claim(e)
     PROVE  PhaseOfTask'
  BY <1>13 DEF Claim, Grantable, restOfExp, Connected, ExposureTasks
<1>14. ASSUME NEW e \in Exposures, Hold(e)
     PROVE  PhaseOfTask'
  BY <1>14 DEF Hold, Connected, restOfExp, Acquisitions, ExposureTasks
<1>15. ASSUME NEW e \in Exposures, Prepare(e)
     PROVE  PhaseOfTask'
  BY <1>15, ExpToFacts DEF Prepare, Connected, restOfExp
<1>16. ASSUME NEW e \in Exposures, Dispatch(e)
     PROVE  PhaseOfTask'
  BY <1>16, ExpEndsFacts, ExpToFacts, WriteFacts DEF Dispatch, restOfExp,
     Acquisitions
<1>17. ASSUME NEW e \in Exposures, Acknowledged(e)
     PROVE  PhaseOfTask'
  BY <1>17, ExpEndsFacts, ExpToFacts, IdleFacts, UncertainFacts DEF
     Acknowledged, EndRejected, Doubtful, Gone, restOfExp, OwnsLease, Without,
     GuideRetains, Acquisitions
<1>18. ASSUME NEW e \in Exposures, Rejected(e)
     PROVE  PhaseOfTask'
  BY <1>18, ExpEndsFacts, IdleFacts, UncertainFacts DEF Rejected, Without,
     restOfExp
<1>19. ASSUME NEW e \in Exposures, ReleaseCut(e)
     PROVE  PhaseOfTask'
  BY <1>19, ExpEndsFacts, UncertainFacts DEF ReleaseCut, restOfExp
<1>20. ASSUME NEW e \in Exposures, Failed(e)
     PROVE  PhaseOfTask'
  BY <1>20, ExpEndsFacts, UncertainFacts DEF Failed, restOfExp
<1>21. ASSUME NEW e \in Exposures, Poll(e)
     PROVE  PhaseOfTask'
  BY <1>21, ExpEndsFacts, ExpToFacts DEF Poll, Connected, Gone, Paused,
     restOfExp
<1>22. ASSUME NEW e \in Exposures, Polled(e)
     PROVE  PhaseOfTask'
  BY <1>22, ExpEndsFacts, ExpToFacts DEF Polled, Paused, Gone, restOfExp,
     Acquisitions
<1>23. ASSUME NEW e \in Exposures, Before(e)
     PROVE  PhaseOfTask'
  BY <1>23 DEF Before, Connected, restOfExp, ExposureTasks
<1>24. ASSUME NEW e \in Exposures, Fetch(e)
     PROVE  PhaseOfTask'
  BY <1>24 DEF Fetch, Connected, restOfExp, ExposureTasks
<1>25. ASSUME NEW e \in Exposures, After(e)
     PROVE  PhaseOfTask'
  BY <1>25, ExpEndsFacts, ExpToFacts, IdleFacts DEF After, Connected,
     Downloaded, GuideRetains, Published, restOfExp
<1>26. ASSUME NEW e \in Exposures, Publish(e)
     PROVE  PhaseOfTask'
  BY <1>26, ExpEndsFacts, IdleFacts DEF Publish, Connected, Downloaded,
     Published, restOfExp
<1>27. ASSUME NEW e \in Exposures, CommandEnds(e)
     PROVE  PhaseOfTask'
  BY <1>27, CmdEndsFacts, EndCommandFacts, UncertainFacts DEF CommandEnds,
     restOfCmd
<1>28. ASSUME NEW e \in Exposures, CommandSent(e)
     PROVE  PhaseOfTask'
  BY <1>28, CmdToFacts, WriteFacts DEF CommandSent, Connected,
     DispatchAllowed, restOfCmd
<1>29. ASSUME NEW e \in Exposures, CommandHeard(e)
     PROVE  PhaseOfTask'
  BY <1>29, CmdEndsFacts, CmdToFacts, EndCommandFacts, IdleFacts,
     UncertainFacts DEF CommandHeard, GuideRetains, Doubtful, Aborted,
     restOfCmd, Without
<1>30. ASSUME NEW e \in Exposures, AbortEnds(e)
     PROVE  PhaseOfTask'
  BY <1>30, CmdEndsFacts, IdleFacts, UncertainFacts DEF AbortEnds, Aborted,
     restOfCmd, Without
<1>31. ASSUME NEW g \in Guides, GuideTask(g)
     PROVE  PhaseOfTask'
  BY <1>31, GuideFrame
<1>32. CASE SettingTask
  BY <1>32, SettingFrame
<1> HIDE DEF TypeOK, CommandsFollow, PhaseOfTask, Transfer, PhaseOfCommand,
             InFlight, NoneIdles
<1>33. QED BY <1>1, <1>2, <1>3, <1>4, <1>5, <1>6, <1>7, <1>8, <1>9, <1>10,
          <1>11, <1>12, <1>13, <1>14, <1>15, <1>16, <1>17, <1>18, <1>19,
          <1>20, <1>21, <1>22, <1>23, <1>24, <1>25, <1>26, <1>27, <1>28,
          <1>29, <1>30, <1>31, <1>32 DEF Next, ExposureTask, CommandTask

(* What has no id is idle in every field.                                  *)
LEMMA NoneStep ==
  ASSUME TypeOK, SourceGrows, NoneIdles, Next
  PROVE  NoneIdles'
<1> USE AcquisitionAssumption DEF TypeOK, NoneIdles
<1>1. CASE Release
  BY <1>1 DEF Release, Referenced, supVars
<1>2. CASE Source
  BY <1>2 DEF Source, supVars, Sources
<1>3. CASE Frame
  BY <1>3 DEF Frame, supVars
<1>4. CASE Status
  BY <1>4, UncertainFacts DEF Status
<1>5. CASE Abandon
  BY <1>5, IdleFacts DEF Abandon
<1>6. CASE Retire
  BY <1>6, IdleFacts DEF Retire
<1>7. ASSUME NEW s \in Sessions, Connect(s)
     PROVE  NoneIdles'
  BY <1>7 DEF Connect, supVars
<1>8. ASSUME NEW s \in Sessions, NEW e \in Exposures, Admit(s, e)
     PROVE  NoneIdles'
  BY <1>8 DEF Admit, Connected, restOfExp, ExposureTasks
<1>9. ASSUME NEW s \in Sessions, NEW abort \in BOOLEAN, Command(s, abort)
     PROVE  NoneIdles'
  BY <1>9 DEF Command, Connected, restOfCmd, Acquisitions, CommandTasks
<1>10. ASSUME NEW s \in Sessions, NEW g \in Guides, Pulse(s, g)
     PROVE  NoneIdles'
  BY <1>10, IdleFacts DEF Pulse, Connected, restOfGuide, GuideTasks
<1>11. ASSUME NEW s \in Sessions, NEW capture \in BOOLEAN, Set(s, capture)
     PROVE  NoneIdles'
  BY <1>11, IdleFacts DEF Set, Connected, restOfSet
<1>12. ASSUME NEW e \in Exposures, GiveUp(e)
     PROVE  NoneIdles'
  BY <1>12, ExpEndsFacts, ExpToFacts, IdleFacts DEF GiveUp, EndRejected,
     restOfExp, OwnsLease, Without, GuideRetains
<1>13. ASSUME NEW e \in Exposures, Claim(e)
     PROVE  NoneIdles'
  BY <1>13 DEF Claim, Grantable, restOfExp, Connected, ExposureTasks
<1>14. ASSUME NEW e \in Exposures, Hold(e)
     PROVE  NoneIdles'
  BY <1>14 DEF Hold, Connected, restOfExp, Acquisitions, ExposureTasks
<1>15. ASSUME NEW e \in Exposures, Prepare(e)
     PROVE  NoneIdles'
  BY <1>15, ExpToFacts DEF Prepare, Connected, restOfExp
<1>16. ASSUME NEW e \in Exposures, Dispatch(e)
     PROVE  NoneIdles'
  BY <1>16, ExpEndsFacts, ExpToFacts, WriteFacts DEF Dispatch, restOfExp,
     Acquisitions
<1>17. ASSUME NEW e \in Exposures, Acknowledged(e)
     PROVE  NoneIdles'
  BY <1>17, ExpEndsFacts, ExpToFacts, IdleFacts, UncertainFacts DEF
     Acknowledged, EndRejected, Doubtful, Gone, restOfExp, OwnsLease, Without,
     GuideRetains, Acquisitions
<1>18. ASSUME NEW e \in Exposures, Rejected(e)
     PROVE  NoneIdles'
  BY <1>18, ExpEndsFacts, IdleFacts, UncertainFacts DEF Rejected, Without,
     restOfExp
<1>19. ASSUME NEW e \in Exposures, ReleaseCut(e)
     PROVE  NoneIdles'
  BY <1>19, ExpEndsFacts, UncertainFacts DEF ReleaseCut, restOfExp
<1>20. ASSUME NEW e \in Exposures, Failed(e)
     PROVE  NoneIdles'
  BY <1>20, ExpEndsFacts, UncertainFacts DEF Failed, restOfExp
<1>21. ASSUME NEW e \in Exposures, Poll(e)
     PROVE  NoneIdles'
  BY <1>21, ExpEndsFacts, ExpToFacts DEF Poll, Connected, Gone, Paused,
     restOfExp
<1>22. ASSUME NEW e \in Exposures, Polled(e)
     PROVE  NoneIdles'
  BY <1>22, ExpEndsFacts, ExpToFacts DEF Polled, Paused, Gone, restOfExp,
     Acquisitions
<1>23. ASSUME NEW e \in Exposures, Before(e)
     PROVE  NoneIdles'
  BY <1>23 DEF Before, Connected, restOfExp, ExposureTasks
<1>24. ASSUME NEW e \in Exposures, Fetch(e)
     PROVE  NoneIdles'
  BY <1>24 DEF Fetch, Connected, restOfExp, ExposureTasks
<1>25. ASSUME NEW e \in Exposures, After(e)
     PROVE  NoneIdles'
  BY <1>25, ExpEndsFacts, ExpToFacts, IdleFacts DEF After, Connected,
     Downloaded, GuideRetains, Published, restOfExp
<1>26. ASSUME NEW e \in Exposures, Publish(e)
     PROVE  NoneIdles'
  BY <1>26, ExpEndsFacts, IdleFacts DEF Publish, Connected, Downloaded,
     Published, restOfExp
<1>27. ASSUME NEW e \in Exposures, CommandEnds(e)
     PROVE  NoneIdles'
  BY <1>27, CmdEndsFacts, EndCommandFacts, UncertainFacts DEF CommandEnds,
     restOfCmd
<1>28. ASSUME NEW e \in Exposures, CommandSent(e)
     PROVE  NoneIdles'
  BY <1>28, CmdToFacts, WriteFacts DEF CommandSent, Connected,
     DispatchAllowed, restOfCmd
<1>29. ASSUME NEW e \in Exposures, CommandHeard(e)
     PROVE  NoneIdles'
  BY <1>29, CmdEndsFacts, CmdToFacts, EndCommandFacts, IdleFacts,
     UncertainFacts DEF CommandHeard, GuideRetains, Doubtful, Aborted,
     restOfCmd, Without
<1>30. ASSUME NEW e \in Exposures, AbortEnds(e)
     PROVE  NoneIdles'
  BY <1>30, CmdEndsFacts, IdleFacts, UncertainFacts DEF AbortEnds, Aborted,
     restOfCmd, Without
<1>31. ASSUME NEW g \in Guides, GuideGivesUp(g)
     PROVE  NoneIdles'
  BY <1>31, GuideEndsFacts, GuideToFacts, IdleFacts DEF GuideGivesUp,
     FinishGuide, restOfGuide, PulseOwns, Pulses
<1>32. ASSUME NEW g \in Guides, GuideClaim(g)
     PROVE  NoneIdles'
  BY <1>32 DEF GuideClaim, Grantable, restOfGuide, Connected, GuideTasks
<1>33. ASSUME NEW g \in Guides, GuideHold(g)
     PROVE  NoneIdles'
  BY <1>33 DEF GuideHold, Connected, restOfGuide, Pulses, GuideTasks
<1>34. ASSUME NEW g \in Guides, GuideSent(g)
     PROVE  NoneIdles'
  BY <1>34, GuideToFacts, WriteFacts DEF GuideSent, Connected, restOfGuide
<1>35. ASSUME NEW g \in Guides, GuideHeard(g)
     PROVE  NoneIdles'
  BY <1>35, GuideEndsFacts, GuideToFacts, GuideUncertainFacts, IdleFacts DEF
     GuideHeard, FinishGuide, Doubtful, restOfGuide, PulseOwns, Pulses
<1>36. ASSUME NEW g \in Guides, GuideRuns(g)
     PROVE  NoneIdles'
  BY <1>36, GuideEndsFacts, GuideToFacts DEF GuideRuns, Connected,
     restOfGuide, Pulses
<1>37. ASSUME NEW g \in Guides, GuideOver(g)
     PROVE  NoneIdles'
  BY <1>37, GuideEndsFacts, GuideToFacts, IdleFacts DEF GuideOver, Connected,
     FinishGuide, restOfGuide, PulseOwns, Pulses
<1>38. ASSUME NEW g \in Guides, GuideLost(g)
     PROVE  NoneIdles'
  BY <1>38, GuideEndsFacts, GuideUncertainFacts DEF GuideLost, restOfGuide
<1>39. ASSUME NEW g \in Guides, GuideFinished(g)
     PROVE  NoneIdles'
  BY <1>39, GuideEndsFacts, GuideUncertainFacts, IdleFacts DEF GuideFinished,
     restOfGuide
<1>40. CASE SettingTask
  BY <1>40, SettingFrame
<1> HIDE DEF TypeOK, NoneIdles
<1>41. QED BY <1>1, <1>2, <1>3, <1>4, <1>5, <1>6, <1>7, <1>8, <1>9, <1>10,
          <1>11, <1>12, <1>13, <1>14, <1>15, <1>16, <1>17, <1>18, <1>19,
          <1>20, <1>21, <1>22, <1>23, <1>24, <1>25, <1>26, <1>27, <1>28,
          <1>29, <1>30, <1>31, <1>32, <1>33, <1>34, <1>35, <1>36, <1>37,
          <1>38, <1>39, <1>40 DEF Next, ExposureTask, CommandTask, GuideTask

(* Nothing moves the phase of an exposure away from its command.           *)
LEMMA CommandStep ==
  ASSUME TypeOK, CommandsFollow, PhaseOfTask, NoneIdles, PhaseOfCommand, Next
  PROVE  PhaseOfCommand'
<1> USE AcquisitionAssumption DEF TypeOK, CommandsFollow, PhaseOfTask,
        Transfer, PhaseOfCommand, InFlight, NoneIdles
<1>1. CASE Release
  BY <1>1 DEF Release, Referenced, supVars
<1>2. CASE Source
  BY <1>2 DEF Source, supVars, Sources
<1>3. CASE Frame
  BY <1>3 DEF Frame, supVars
<1>4. CASE Status
  BY <1>4, UncertainFacts DEF Status
<1>5. CASE Abandon
  BY <1>5, IdleFacts DEF Abandon
<1>6. CASE Retire
  BY <1>6, IdleFacts DEF Retire
<1>7. ASSUME NEW s \in Sessions, Connect(s)
     PROVE  PhaseOfCommand'
  BY <1>7 DEF Connect, supVars
<1>8. ASSUME NEW s \in Sessions, NEW e \in Exposures, Admit(s, e)
     PROVE  PhaseOfCommand'
  BY <1>8 DEF Admit, Connected, restOfExp, ExposureTasks
<1>9. ASSUME NEW s \in Sessions, NEW abort \in BOOLEAN, Command(s, abort)
     PROVE  PhaseOfCommand'
  BY <1>9 DEF Command, Connected, restOfCmd, Acquisitions, CommandTasks
<1>10. ASSUME NEW s \in Sessions, NEW g \in Guides, Pulse(s, g)
     PROVE  PhaseOfCommand'
  BY <1>10, IdleFacts DEF Pulse, Connected, restOfGuide, GuideTasks
<1>11. ASSUME NEW s \in Sessions, NEW capture \in BOOLEAN, Set(s, capture)
     PROVE  PhaseOfCommand'
  BY <1>11, IdleFacts DEF Set, Connected, restOfSet
<1>12. ASSUME NEW e \in Exposures, GiveUp(e)
     PROVE  PhaseOfCommand'
  BY <1>12, ExpEndsFacts, ExpToFacts, IdleFacts DEF GiveUp, EndRejected,
     restOfExp, OwnsLease, Without, GuideRetains
<1>13. ASSUME NEW e \in Exposures, Claim(e)
     PROVE  PhaseOfCommand'
  BY <1>13 DEF Claim, Grantable, restOfExp, Connected, ExposureTasks
<1>14. ASSUME NEW e \in Exposures, Hold(e)
     PROVE  PhaseOfCommand'
  BY <1>14 DEF Hold, Connected, restOfExp, Acquisitions, ExposureTasks
<1>15. ASSUME NEW e \in Exposures, Prepare(e)
     PROVE  PhaseOfCommand'
  BY <1>15, ExpToFacts DEF Prepare, Connected, restOfExp
<1>16. ASSUME NEW e \in Exposures, Dispatch(e)
     PROVE  PhaseOfCommand'
  BY <1>16, ExpEndsFacts, ExpToFacts, WriteFacts DEF Dispatch, restOfExp,
     Acquisitions
<1>17. ASSUME NEW e \in Exposures, Acknowledged(e)
     PROVE  PhaseOfCommand'
  BY <1>17, ExpEndsFacts, ExpToFacts, IdleFacts, UncertainFacts DEF
     Acknowledged, EndRejected, Doubtful, Gone, restOfExp, OwnsLease, Without,
     GuideRetains, Acquisitions
<1>18. ASSUME NEW e \in Exposures, Rejected(e)
     PROVE  PhaseOfCommand'
  BY <1>18, ExpEndsFacts, IdleFacts, UncertainFacts DEF Rejected, Without,
     restOfExp
<1>19. ASSUME NEW e \in Exposures, ReleaseCut(e)
     PROVE  PhaseOfCommand'
  BY <1>19, ExpEndsFacts, UncertainFacts DEF ReleaseCut, restOfExp
<1>20. ASSUME NEW e \in Exposures, Failed(e)
     PROVE  PhaseOfCommand'
  BY <1>20, ExpEndsFacts, UncertainFacts DEF Failed, restOfExp
<1>21. ASSUME NEW e \in Exposures, Poll(e)
     PROVE  PhaseOfCommand'
  BY <1>21, ExpEndsFacts, ExpToFacts DEF Poll, Connected, Gone, Paused,
     restOfExp
<1>22. ASSUME NEW e \in Exposures, Polled(e)
     PROVE  PhaseOfCommand'
  BY <1>22, ExpEndsFacts, ExpToFacts DEF Polled, Paused, Gone, restOfExp,
     Acquisitions
<1>23. ASSUME NEW e \in Exposures, Before(e)
     PROVE  PhaseOfCommand'
  BY <1>23 DEF Before, Connected, restOfExp, ExposureTasks
<1>24. ASSUME NEW e \in Exposures, Fetch(e)
     PROVE  PhaseOfCommand'
  BY <1>24 DEF Fetch, Connected, restOfExp, ExposureTasks
<1>25. ASSUME NEW e \in Exposures, After(e)
     PROVE  PhaseOfCommand'
  BY <1>25, ExpEndsFacts, ExpToFacts, IdleFacts DEF After, Connected,
     Downloaded, GuideRetains, Published, restOfExp
<1>26. ASSUME NEW e \in Exposures, Publish(e)
     PROVE  PhaseOfCommand'
  BY <1>26, ExpEndsFacts, IdleFacts DEF Publish, Connected, Downloaded,
     Published, restOfExp
<1>27. ASSUME NEW e \in Exposures, CommandEnds(e)
     PROVE  PhaseOfCommand'
  BY <1>27, CmdEndsFacts, EndCommandFacts, UncertainFacts DEF CommandEnds,
     restOfCmd
<1>28. ASSUME NEW e \in Exposures, CommandSent(e)
     PROVE  PhaseOfCommand'
  BY <1>28, CmdToFacts, WriteFacts DEF CommandSent, Connected,
     DispatchAllowed, restOfCmd
<1>29. ASSUME NEW e \in Exposures, CommandHeard(e)
     PROVE  PhaseOfCommand'
  BY <1>29, CmdEndsFacts, CmdToFacts, EndCommandFacts, IdleFacts,
     UncertainFacts DEF CommandHeard, GuideRetains, Doubtful, Aborted,
     restOfCmd, Without
<1>30. ASSUME NEW e \in Exposures, AbortEnds(e)
     PROVE  PhaseOfCommand'
  BY <1>30, CmdEndsFacts, IdleFacts, UncertainFacts DEF AbortEnds, Aborted,
     restOfCmd, Without
<1>31. ASSUME NEW g \in Guides, GuideTask(g)
     PROVE  PhaseOfCommand'
  BY <1>31, GuideFrame
<1>32. CASE SettingTask
  BY <1>32, SettingFrame
<1> HIDE DEF TypeOK, CommandsFollow, PhaseOfTask, Transfer, PhaseOfCommand,
             InFlight, NoneIdles
<1>33. QED BY <1>1, <1>2, <1>3, <1>4, <1>5, <1>6, <1>7, <1>8, <1>9, <1>10,
          <1>11, <1>12, <1>13, <1>14, <1>15, <1>16, <1>17, <1>18, <1>19,
          <1>20, <1>21, <1>22, <1>23, <1>24, <1>25, <1>26, <1>27, <1>28,
          <1>29, <1>30, <1>31, <1>32 DEF Next, ExposureTask, CommandTask

(* Only a new generation or a stopped source takes an exposure from a task *)
(* that transfers its frame.                                               *)
LEMMA TransferStep ==
  ASSUME TypeOK, SourceGrows, PhaseOfTask, PhaseOfCommand, TransferKept, Next
  PROVE  TransferKept'
<1> USE AcquisitionAssumption DEF TypeOK, PhaseOfTask, Transfer,
        PhaseOfCommand, InFlight, SourceGrows, TransferKept, Downloaded
<1>0. src.gen \in Nat /\ active.gen \in Nat /\ \A e \in Exposures : exp[e].gen \in Nat
  BY GenFacts
<1>1. CASE Release
  BY <1>1, <1>0 DEF Release, Referenced, supVars
<1>2. CASE Source
  <2>1. CASE src' = [src EXCEPT !.up = FALSE, !.gen = @ + 1] /\ src.gen < MaxGen /\
           src.up
    BY <1>2, <2>1, <1>0 DEF Source, supVars, Sources
  <2>2. CASE src' = [src EXCEPT !.up = FALSE]
    BY <1>2, <2>2, <1>0 DEF Source, supVars, Sources
  <2>3. CASE src' = [src EXCEPT !.up = TRUE, !.gen = @ + 1] /\ src.gen < MaxGen
    BY <1>2, <2>3, <1>0 DEF Source, supVars, Sources
  <2>4. CASE src' = [src EXCEPT !.up = FALSE, !.stopped = TRUE]
    BY <1>2, <2>4, <1>0 DEF Source, supVars, Sources
  <2>5. QED BY <1>2, <2>1, <2>2, <2>3, <2>4 DEF Source
<1>3. CASE Frame
  BY <1>3, <1>0 DEF Frame, supVars
<1>4. CASE Status
  BY <1>4, <1>0, UncertainFacts DEF Status
<1>5. CASE Abandon
  BY <1>5, <1>0, IdleFacts DEF Abandon
<1>6. CASE Retire
  BY <1>6, <1>0, IdleFacts DEF Retire
<1>7. ASSUME NEW s \in Sessions, Connect(s)
     PROVE  TransferKept'
  BY <1>7, <1>0 DEF Connect, supVars
<1>8. ASSUME NEW s \in Sessions, NEW e \in Exposures, Admit(s, e)
     PROVE  TransferKept'
  BY <1>8, <1>0 DEF Admit, Connected, restOfExp, ExposureTasks
<1>9. ASSUME NEW s \in Sessions, NEW abort \in BOOLEAN, Command(s, abort)
     PROVE  TransferKept'
  BY <1>9, <1>0 DEF Command, Connected, restOfCmd, Acquisitions, CommandTasks
<1>10. ASSUME NEW s \in Sessions, NEW g \in Guides, Pulse(s, g)
     PROVE  TransferKept'
  BY <1>10, <1>0, IdleFacts DEF Pulse, Connected, restOfGuide, GuideTasks
<1>11. ASSUME NEW s \in Sessions, NEW capture \in BOOLEAN, Set(s, capture)
     PROVE  TransferKept'
  BY <1>11, <1>0, IdleFacts DEF Set, Connected, restOfSet
<1>12. ASSUME NEW e \in Exposures, GiveUp(e)
     PROVE  TransferKept'
  BY <1>12, <1>0, ExpEndsFacts, ExpToFacts, IdleFacts DEF GiveUp, EndRejected,
     restOfExp, OwnsLease, Without, GuideRetains
<1>13. ASSUME NEW e \in Exposures, Claim(e)
     PROVE  TransferKept'
  BY <1>13, <1>0 DEF Claim, Grantable, restOfExp, Connected, ExposureTasks
<1>14. ASSUME NEW e \in Exposures, Hold(e)
     PROVE  TransferKept'
  BY <1>14, <1>0 DEF Hold, Connected, restOfExp, Acquisitions, ExposureTasks
<1>15. ASSUME NEW e \in Exposures, Prepare(e)
     PROVE  TransferKept'
  BY <1>15, <1>0, ExpToFacts DEF Prepare, Connected, restOfExp
<1>16. ASSUME NEW e \in Exposures, Dispatch(e)
     PROVE  TransferKept'
  BY <1>16, <1>0, ExpEndsFacts, ExpToFacts, WriteFacts DEF Dispatch,
     restOfExp, Acquisitions
<1>17. ASSUME NEW e \in Exposures, Acknowledged(e)
     PROVE  TransferKept'
  BY <1>17, <1>0, ExpEndsFacts, ExpToFacts, IdleFacts, UncertainFacts DEF
     Acknowledged, EndRejected, Doubtful, Gone, restOfExp, OwnsLease, Without,
     GuideRetains, Acquisitions
<1>18. ASSUME NEW e \in Exposures, Rejected(e)
     PROVE  TransferKept'
  BY <1>18, <1>0, ExpEndsFacts, IdleFacts, UncertainFacts DEF Rejected,
     Without, restOfExp
<1>19. ASSUME NEW e \in Exposures, ReleaseCut(e)
     PROVE  TransferKept'
  BY <1>19, <1>0, ExpEndsFacts, UncertainFacts DEF ReleaseCut, restOfExp
<1>20. ASSUME NEW e \in Exposures, Failed(e)
     PROVE  TransferKept'
  BY <1>20, <1>0, ExpEndsFacts, UncertainFacts DEF Failed, restOfExp
<1>21. ASSUME NEW e \in Exposures, Poll(e)
     PROVE  TransferKept'
  BY <1>21, <1>0, ExpEndsFacts, ExpToFacts DEF Poll, Connected, Gone, Paused,
     restOfExp
<1>22. ASSUME NEW e \in Exposures, Polled(e)
     PROVE  TransferKept'
  <2>1. CASE Gone(e)
    BY <1>22, <2>1, <1>0, ExpEndsFacts DEF Polled, Paused, Gone, restOfExp,
       Acquisitions
  <2>2. CASE ~Gone(e) /\ Paused(e)
    BY <1>22, <2>2, <1>0, ExpToFacts DEF Polled, Paused, Gone, restOfExp,
       Acquisitions
  <2>3. CASE ~Gone(e) /\ ~Paused(e) /\ exp[e].note = "ready"
    BY <1>22, <2>3, <1>0, ExpToFacts DEF Polled, Paused, Gone, restOfExp,
       Acquisitions
  <2>4. CASE ~Gone(e) /\ ~Paused(e) /\ exp[e].note # "ready"
    BY <1>22, <2>4, <1>0, ExpToFacts DEF Polled, Paused, Gone, restOfExp,
       Acquisitions
  <2>5. QED BY <1>22, <2>1, <2>2, <2>3, <2>4 DEF Polled
<1>23. ASSUME NEW e \in Exposures, Before(e)
     PROVE  TransferKept'
  BY <1>23, <1>0 DEF Before, Connected, restOfExp, ExposureTasks
<1>24. ASSUME NEW e \in Exposures, Fetch(e)
     PROVE  TransferKept'
  BY <1>24, <1>0 DEF Fetch, Connected, restOfExp, ExposureTasks
<1>25. ASSUME NEW e \in Exposures, After(e)
     PROVE  TransferKept'
  <2>1. CASE Downloaded(e) /\ GuideRetains(exp[e].op)
    BY <1>25, <2>1, <1>0, ExpEndsFacts, IdleFacts, SMTT(30) DEF After,
       Connected, GuideRetains, Published, restOfExp
  <2>2. CASE ~(Downloaded(e) /\ GuideRetains(exp[e].op))
    BY <1>25, <2>2, <1>0, ExpToFacts, SMTT(30) DEF After, Connected,
       GuideRetains, restOfExp
  <2>3. QED BY <1>25, <2>1, <2>2 DEF After
<1>26. ASSUME NEW e \in Exposures, Publish(e)
     PROVE  TransferKept'
  <2>1. /\ ExpEnds(e)[e].pc = "end"
        /\ \A f \in Exposures : f # e => exp'[f] = exp[f]
        /\ exp'[e].pc = "end" /\ src' = src
    BY <1>26, ExpEndsFacts DEF Publish
  <2>2. \A f \in Exposures : f # e /\ Downloaded(f) => active' = active
    BY <1>26 DEF Publish
  <2>3. QED BY <2>1, <2>2
<1>27. ASSUME NEW e \in Exposures, CommandEnds(e)
     PROVE  TransferKept'
  BY <1>27, <1>0, CmdEndsFacts, EndCommandFacts, UncertainFacts DEF
     CommandEnds, restOfCmd
<1>28. ASSUME NEW e \in Exposures, CommandSent(e)
     PROVE  TransferKept'
  BY <1>28, <1>0, CmdToFacts, WriteFacts DEF CommandSent, Connected,
     DispatchAllowed, restOfCmd
<1>29. ASSUME NEW e \in Exposures, CommandHeard(e)
     PROVE  TransferKept'
  BY <1>29, <1>0, CmdEndsFacts, CmdToFacts, EndCommandFacts, IdleFacts,
     UncertainFacts DEF CommandHeard, GuideRetains, Doubtful, Aborted,
     restOfCmd, Without
<1>30. ASSUME NEW e \in Exposures, AbortEnds(e)
     PROVE  TransferKept'
  BY <1>30, <1>0, CmdEndsFacts, IdleFacts, UncertainFacts DEF AbortEnds,
     Aborted, restOfCmd, Without
<1>31. ASSUME NEW g \in Guides, GuideTask(g)
     PROVE  TransferKept'
  BY <1>31, <1>0, GuideFrame
<1>32. CASE SettingTask
  BY <1>32, <1>0, SettingFrame
<1> HIDE DEF TypeOK, PhaseOfTask, Transfer, PhaseOfCommand, InFlight,
             SourceGrows, TransferKept, Downloaded
<1>33. QED BY <1>1, <1>2, <1>3, <1>4, <1>5, <1>6, <1>7, <1>8, <1>9, <1>10,
          <1>11, <1>12, <1>13, <1>14, <1>15, <1>16, <1>17, <1>18, <1>19,
          <1>20, <1>21, <1>22, <1>23, <1>24, <1>25, <1>26, <1>27, <1>28,
          <1>29, <1>30, <1>31, <1>32 DEF Next, ExposureTask, CommandTask

(* The camera and its buffer stay those of the active exposure.            *)
LEMMA CameraStep ==
  ASSUME TypeOK, CommandsFollow, PhaseOfTask, PhaseOfCommand, CameraIsOwn,
         Next
  PROVE  CameraIsOwn'
<1> USE AcquisitionAssumption DEF TypeOK, CommandsFollow, PhaseOfTask,
        Transfer, PhaseOfCommand, InFlight, CameraIsOwn
<1>1. CASE Release
  BY <1>1 DEF Release, Referenced, supVars
<1>2. CASE Source
  BY <1>2 DEF Source, supVars, Sources
<1>3. CASE Frame
  BY <1>3 DEF Frame, supVars
<1>4. CASE Status
  BY <1>4, UncertainFacts DEF Status
<1>5. CASE Abandon
  BY <1>5, IdleFacts DEF Abandon
<1>6. CASE Retire
  BY <1>6, IdleFacts DEF Retire
<1>7. ASSUME NEW s \in Sessions, Connect(s)
     PROVE  CameraIsOwn'
  BY <1>7 DEF Connect, supVars
<1>8. ASSUME NEW s \in Sessions, NEW e \in Exposures, Admit(s, e)
     PROVE  CameraIsOwn'
  BY <1>8 DEF Admit, Connected, restOfExp, ExposureTasks
<1>9. ASSUME NEW s \in Sessions, NEW abort \in BOOLEAN, Command(s, abort)
     PROVE  CameraIsOwn'
  BY <1>9 DEF Command, Connected, restOfCmd, Acquisitions, CommandTasks
<1>10. ASSUME NEW s \in Sessions, NEW g \in Guides, Pulse(s, g)
     PROVE  CameraIsOwn'
  BY <1>10, IdleFacts DEF Pulse, Connected, restOfGuide, GuideTasks
<1>11. ASSUME NEW s \in Sessions, NEW capture \in BOOLEAN, Set(s, capture)
     PROVE  CameraIsOwn'
  BY <1>11, IdleFacts DEF Set, Connected, restOfSet
<1>12. ASSUME NEW e \in Exposures, GiveUp(e)
     PROVE  CameraIsOwn'
  BY <1>12, ExpEndsFacts, ExpToFacts, IdleFacts DEF GiveUp, EndRejected,
     restOfExp, OwnsLease, Without, GuideRetains
<1>13. ASSUME NEW e \in Exposures, Claim(e)
     PROVE  CameraIsOwn'
  BY <1>13 DEF Claim, Grantable, restOfExp, Connected, ExposureTasks
<1>14. ASSUME NEW e \in Exposures, Hold(e)
     PROVE  CameraIsOwn'
  BY <1>14 DEF Hold, Connected, restOfExp, Acquisitions, ExposureTasks
<1>15. ASSUME NEW e \in Exposures, Prepare(e)
     PROVE  CameraIsOwn'
  BY <1>15, ExpToFacts DEF Prepare, Connected, restOfExp
<1>16. ASSUME NEW e \in Exposures, Dispatch(e)
     PROVE  CameraIsOwn'
  BY <1>16, ExpEndsFacts, ExpToFacts, WriteFacts DEF Dispatch, restOfExp,
     Acquisitions
<1>17. ASSUME NEW e \in Exposures, Acknowledged(e)
     PROVE  CameraIsOwn'
  BY <1>17, ExpEndsFacts, ExpToFacts, IdleFacts, UncertainFacts DEF
     Acknowledged, EndRejected, Doubtful, Gone, restOfExp, OwnsLease, Without,
     GuideRetains, Acquisitions
<1>18. ASSUME NEW e \in Exposures, Rejected(e)
     PROVE  CameraIsOwn'
  BY <1>18, ExpEndsFacts, IdleFacts, UncertainFacts DEF Rejected, Without,
     restOfExp
<1>19. ASSUME NEW e \in Exposures, ReleaseCut(e)
     PROVE  CameraIsOwn'
  BY <1>19, ExpEndsFacts, UncertainFacts DEF ReleaseCut, restOfExp
<1>20. ASSUME NEW e \in Exposures, Failed(e)
     PROVE  CameraIsOwn'
  BY <1>20, ExpEndsFacts, UncertainFacts DEF Failed, restOfExp
<1>21. ASSUME NEW e \in Exposures, Poll(e)
     PROVE  CameraIsOwn'
  BY <1>21, ExpEndsFacts, ExpToFacts DEF Poll, Connected, Gone, Paused,
     restOfExp
<1>22. ASSUME NEW e \in Exposures, Polled(e)
     PROVE  CameraIsOwn'
  BY <1>22, ExpEndsFacts, ExpToFacts DEF Polled, Paused, Gone, restOfExp,
     Acquisitions
<1>23. ASSUME NEW e \in Exposures, Before(e)
     PROVE  CameraIsOwn'
  BY <1>23 DEF Before, Connected, restOfExp, ExposureTasks
<1>24. ASSUME NEW e \in Exposures, Fetch(e)
     PROVE  CameraIsOwn'
  BY <1>24 DEF Fetch, Connected, restOfExp, ExposureTasks
<1>25. ASSUME NEW e \in Exposures, After(e)
     PROVE  CameraIsOwn'
  BY <1>25, ExpEndsFacts, ExpToFacts, IdleFacts DEF After, Connected,
     Downloaded, GuideRetains, Published, restOfExp
<1>26. ASSUME NEW e \in Exposures, Publish(e)
     PROVE  CameraIsOwn'
  BY <1>26, ExpEndsFacts, IdleFacts DEF Publish, Connected, Downloaded,
     Published, restOfExp
<1>27. ASSUME NEW e \in Exposures, CommandEnds(e)
     PROVE  CameraIsOwn'
  BY <1>27, CmdEndsFacts, EndCommandFacts, UncertainFacts DEF CommandEnds,
     restOfCmd
<1>28. ASSUME NEW e \in Exposures, CommandSent(e)
     PROVE  CameraIsOwn'
  BY <1>28, CmdToFacts, WriteFacts DEF CommandSent, Connected,
     DispatchAllowed, restOfCmd
<1>29. ASSUME NEW e \in Exposures, CommandHeard(e)
     PROVE  CameraIsOwn'
  BY <1>29, CmdEndsFacts, CmdToFacts, EndCommandFacts, IdleFacts,
     UncertainFacts DEF CommandHeard, GuideRetains, Doubtful, Aborted,
     restOfCmd, Without
<1>30. ASSUME NEW e \in Exposures, AbortEnds(e)
     PROVE  CameraIsOwn'
  BY <1>30, CmdEndsFacts, IdleFacts, UncertainFacts DEF AbortEnds, Aborted,
     restOfCmd, Without
<1>31. ASSUME NEW g \in Guides, GuideTask(g)
     PROVE  CameraIsOwn'
  BY <1>31, GuideFrame
<1>32. CASE SettingTask
  BY <1>32, SettingFrame
<1> HIDE DEF TypeOK, CommandsFollow, PhaseOfTask, Transfer, PhaseOfCommand,
             InFlight, CameraIsOwn
<1>33. QED BY <1>1, <1>2, <1>3, <1>4, <1>5, <1>6, <1>7, <1>8, <1>9, <1>10,
          <1>11, <1>12, <1>13, <1>14, <1>15, <1>16, <1>17, <1>18, <1>19,
          <1>20, <1>21, <1>22, <1>23, <1>24, <1>25, <1>26, <1>27, <1>28,
          <1>29, <1>30, <1>31, <1>32 DEF Next, ExposureTask, CommandTask

(* An image is offered by its own task only, and taken back by the next    *)
(* exposure.                                                               *)
LEMMA OfferStep ==
  ASSUME TypeOK, PhaseOfTask, PhaseOfCommand, CameraIsOwn, OfferIsOwn, Next
  PROVE  OfferIsOwn'
<1> USE AcquisitionAssumption DEF TypeOK, PhaseOfTask, Transfer,
        PhaseOfCommand, InFlight, CameraIsOwn, OfferIsOwn, Live
<1>1. CASE Release
  BY <1>1 DEF Release, Referenced, supVars
<1>2. CASE Source
  BY <1>2 DEF Source, supVars, Sources
<1>3. CASE Frame
  BY <1>3 DEF Frame, supVars
<1>4. CASE Status
  BY <1>4, UncertainFacts DEF Status
<1>5. CASE Abandon
  BY <1>5, IdleFacts DEF Abandon
<1>6. CASE Retire
  BY <1>6, IdleFacts DEF Retire
<1>7. ASSUME NEW s \in Sessions, Connect(s)
     PROVE  OfferIsOwn'
  BY <1>7 DEF Connect, supVars
<1>8. ASSUME NEW s \in Sessions, NEW e \in Exposures, Admit(s, e)
     PROVE  OfferIsOwn'
  BY <1>8 DEF Admit, Connected, restOfExp, ExposureTasks
<1>9. ASSUME NEW s \in Sessions, NEW abort \in BOOLEAN, Command(s, abort)
     PROVE  OfferIsOwn'
  BY <1>9 DEF Command, Connected, restOfCmd, Acquisitions, CommandTasks
<1>10. ASSUME NEW s \in Sessions, NEW g \in Guides, Pulse(s, g)
     PROVE  OfferIsOwn'
  BY <1>10, IdleFacts DEF Pulse, Connected, restOfGuide, GuideTasks
<1>11. ASSUME NEW s \in Sessions, NEW capture \in BOOLEAN, Set(s, capture)
     PROVE  OfferIsOwn'
  BY <1>11, IdleFacts DEF Set, Connected, restOfSet
<1>12. ASSUME NEW e \in Exposures, GiveUp(e)
     PROVE  OfferIsOwn'
  BY <1>12, ExpEndsFacts, ExpToFacts, IdleFacts DEF GiveUp, EndRejected,
     restOfExp, OwnsLease, Without, GuideRetains
<1>13. ASSUME NEW e \in Exposures, Claim(e)
     PROVE  OfferIsOwn'
  BY <1>13 DEF Claim, Grantable, restOfExp, Connected, ExposureTasks
<1>14. ASSUME NEW e \in Exposures, Hold(e)
     PROVE  OfferIsOwn'
  BY <1>14 DEF Hold, Connected, restOfExp, Acquisitions, ExposureTasks
<1>15. ASSUME NEW e \in Exposures, Prepare(e)
     PROVE  OfferIsOwn'
  BY <1>15, ExpToFacts DEF Prepare, Connected, restOfExp
<1>16. ASSUME NEW e \in Exposures, Dispatch(e)
     PROVE  OfferIsOwn'
  BY <1>16, ExpEndsFacts, ExpToFacts, WriteFacts DEF Dispatch, restOfExp,
     Acquisitions
<1>17. ASSUME NEW e \in Exposures, Acknowledged(e)
     PROVE  OfferIsOwn'
  BY <1>17, ExpEndsFacts, ExpToFacts, IdleFacts, UncertainFacts DEF
     Acknowledged, EndRejected, Doubtful, Gone, restOfExp, OwnsLease, Without,
     GuideRetains, Acquisitions
<1>18. ASSUME NEW e \in Exposures, Rejected(e)
     PROVE  OfferIsOwn'
  BY <1>18, ExpEndsFacts, IdleFacts, UncertainFacts DEF Rejected, Without,
     restOfExp
<1>19. ASSUME NEW e \in Exposures, ReleaseCut(e)
     PROVE  OfferIsOwn'
  BY <1>19, ExpEndsFacts, UncertainFacts DEF ReleaseCut, restOfExp
<1>20. ASSUME NEW e \in Exposures, Failed(e)
     PROVE  OfferIsOwn'
  BY <1>20, ExpEndsFacts, UncertainFacts DEF Failed, restOfExp
<1>21. ASSUME NEW e \in Exposures, Poll(e)
     PROVE  OfferIsOwn'
  BY <1>21, ExpEndsFacts, ExpToFacts DEF Poll, Connected, Gone, Paused,
     restOfExp
<1>22. ASSUME NEW e \in Exposures, Polled(e)
     PROVE  OfferIsOwn'
  BY <1>22, ExpEndsFacts, ExpToFacts DEF Polled, Paused, Gone, restOfExp,
     Acquisitions
<1>23. ASSUME NEW e \in Exposures, Before(e)
     PROVE  OfferIsOwn'
  BY <1>23 DEF Before, Connected, restOfExp, ExposureTasks
<1>24. ASSUME NEW e \in Exposures, Fetch(e)
     PROVE  OfferIsOwn'
  BY <1>24 DEF Fetch, Connected, restOfExp, ExposureTasks
<1>25. ASSUME NEW e \in Exposures, After(e)
     PROVE  OfferIsOwn'
  BY <1>25, ExpEndsFacts, ExpToFacts, IdleFacts DEF After, Connected,
     Downloaded, GuideRetains, Published, restOfExp
<1>26. ASSUME NEW e \in Exposures, Publish(e)
     PROVE  OfferIsOwn'
  BY <1>26, ExpEndsFacts, IdleFacts DEF Publish, Connected, Downloaded,
     Published, restOfExp
<1>27. ASSUME NEW e \in Exposures, CommandEnds(e)
     PROVE  OfferIsOwn'
  BY <1>27, CmdEndsFacts, EndCommandFacts, UncertainFacts DEF CommandEnds,
     restOfCmd
<1>28. ASSUME NEW e \in Exposures, CommandSent(e)
     PROVE  OfferIsOwn'
  BY <1>28, CmdToFacts, WriteFacts DEF CommandSent, Connected,
     DispatchAllowed, restOfCmd
<1>29. ASSUME NEW e \in Exposures, CommandHeard(e)
     PROVE  OfferIsOwn'
  BY <1>29, CmdEndsFacts, CmdToFacts, EndCommandFacts, IdleFacts,
     UncertainFacts DEF CommandHeard, GuideRetains, Doubtful, Aborted,
     restOfCmd, Without
<1>30. ASSUME NEW e \in Exposures, AbortEnds(e)
     PROVE  OfferIsOwn'
  BY <1>30, CmdEndsFacts, IdleFacts, UncertainFacts DEF AbortEnds, Aborted,
     restOfCmd, Without
<1>31. ASSUME NEW g \in Guides, GuideTask(g)
     PROVE  OfferIsOwn'
  BY <1>31, GuideFrame
<1>32. CASE SettingTask
  BY <1>32, SettingFrame
<1> HIDE DEF TypeOK, PhaseOfTask, Transfer, PhaseOfCommand, InFlight,
             CameraIsOwn, OfferIsOwn, Live
<1>33. QED BY <1>1, <1>2, <1>3, <1>4, <1>5, <1>6, <1>7, <1>8, <1>9, <1>10,
          <1>11, <1>12, <1>13, <1>14, <1>15, <1>16, <1>17, <1>18, <1>19,
          <1>20, <1>21, <1>22, <1>23, <1>24, <1>25, <1>26, <1>27, <1>28,
          <1>29, <1>30, <1>31, <1>32 DEF Next, ExposureTask, CommandTask

(* The leases of the tasks and of the supervisor stay the same ones.       *)
LEMMA LeaseStep ==
  ASSUME TypeOK, PhaseOfTask, NoneIdles, LeasesOK, Next
  PROVE  LeasesOK'
<1> USE AcquisitionAssumption DEF TypeOK, PhaseOfTask, Transfer, NoneIdles,
        LeasesOK
<1>1. CASE Release
  BY <1>1 DEF Release, Referenced, supVars
<1>2. CASE Source
  BY <1>2 DEF Source, supVars, Sources
<1>3. CASE Frame
  BY <1>3 DEF Frame, supVars
<1>4. CASE Status
  BY <1>4, UncertainFacts DEF Status
<1>5. CASE Abandon
  BY <1>5, IdleFacts DEF Abandon
<1>6. CASE Retire
  BY <1>6, IdleFacts DEF Retire
<1>7. ASSUME NEW s \in Sessions, Connect(s)
     PROVE  LeasesOK'
  BY <1>7 DEF Connect, supVars
<1>8. ASSUME NEW s \in Sessions, NEW e \in Exposures, Admit(s, e)
     PROVE  LeasesOK'
  BY <1>8 DEF Admit, Connected, restOfExp, ExposureTasks
<1>9. ASSUME NEW s \in Sessions, NEW abort \in BOOLEAN, Command(s, abort)
     PROVE  LeasesOK'
  BY <1>9 DEF Command, Connected, restOfCmd, Acquisitions, CommandTasks
<1>10. ASSUME NEW s \in Sessions, NEW g \in Guides, Pulse(s, g)
     PROVE  LeasesOK'
  BY <1>10, IdleFacts DEF Pulse, Connected, restOfGuide, GuideTasks
<1>11. ASSUME NEW s \in Sessions, NEW capture \in BOOLEAN, Set(s, capture)
     PROVE  LeasesOK'
  BY <1>11, IdleFacts DEF Set, Connected, restOfSet
<1>12. ASSUME NEW e \in Exposures, GiveUp(e)
     PROVE  LeasesOK'
  <2>1. CASE ~OwnsLease(e)
    BY <1>12, <2>1, ExpEndsFacts, IdleFacts DEF GiveUp, EndRejected,
       restOfExp, OwnsLease, Without, GuideRetains
  <2>2. CASE OwnsLease(e)
    BY <1>12, <2>2, ExpToFacts DEF GiveUp, EndRejected, restOfExp, OwnsLease,
       GuideRetains
  <2>3. QED BY <1>12, <2>1, <2>2 DEF GiveUp
<1>13. ASSUME NEW e \in Exposures, Claim(e)
     PROVE  LeasesOK'
  BY <1>13 DEF Claim, Grantable, restOfExp, Connected, ExposureTasks
<1>14. ASSUME NEW e \in Exposures, Hold(e)
     PROVE  LeasesOK'
  BY <1>14 DEF Hold, Connected, restOfExp, Acquisitions, ExposureTasks
<1>15. ASSUME NEW e \in Exposures, Prepare(e)
     PROVE  LeasesOK'
  BY <1>15, ExpToFacts DEF Prepare, Connected, restOfExp
<1>16. ASSUME NEW e \in Exposures, Dispatch(e)
     PROVE  LeasesOK'
  BY <1>16, ExpEndsFacts, ExpToFacts, WriteFacts DEF Dispatch, restOfExp,
     Acquisitions
<1>17. ASSUME NEW e \in Exposures, Acknowledged(e)
     PROVE  LeasesOK'
  <2>1. CASE exp[e].note = "refused" /\ ~OwnsLease(e)
    BY <1>17, <2>1, ExpEndsFacts, IdleFacts DEF Acknowledged, EndRejected,
       Doubtful, Gone, restOfExp, OwnsLease, Without, GuideRetains,
       Acquisitions
  <2>2. CASE exp[e].note = "refused" /\ OwnsLease(e)
    BY <1>17, <2>2, ExpToFacts DEF Acknowledged, EndRejected, Doubtful, Gone,
       restOfExp, OwnsLease, GuideRetains, Acquisitions
  <2>3. CASE exp[e].note \in Doubtful
    BY <1>17, <2>3, ExpEndsFacts, UncertainFacts DEF Acknowledged, Doubtful,
       Gone, restOfExp, OwnsLease, Acquisitions
  <2>4. CASE exp[e].note = "ok" /\ Gone(e)
    BY <1>17, <2>4, ExpEndsFacts DEF Acknowledged, Doubtful, Gone, restOfExp,
       OwnsLease, Acquisitions
  <2>5. CASE exp[e].note = "ok" /\ ~Gone(e)
    BY <1>17, <2>5, ExpToFacts, IdleFacts DEF Acknowledged, Doubtful, Gone,
       restOfExp, OwnsLease, Acquisitions
  <2>6. QED BY <1>17, <2>1, <2>2, <2>3, <2>4, <2>5 DEF Acknowledged
<1>18. ASSUME NEW e \in Exposures, Rejected(e)
     PROVE  LeasesOK'
  BY <1>18, ExpEndsFacts, IdleFacts, UncertainFacts DEF Rejected, Without,
     restOfExp
<1>19. ASSUME NEW e \in Exposures, ReleaseCut(e)
     PROVE  LeasesOK'
  <2>1. /\ active'.id = active.id /\ active'.op = active.op /\ exp'[e].pc = "end"
        /\ exp'[e].op = None /\ \A f \in Exposures : f # e => exp'[f] = exp[f]
    BY <1>19, ExpEndsFacts, UncertainFacts DEF ReleaseCut
  <2>2. UNCHANGED <<guide, gd, setg>>
    BY <1>19 DEF ReleaseCut, restOfExp
  <2>3. QED BY <2>1, <2>2
<1>20. ASSUME NEW e \in Exposures, Failed(e)
     PROVE  LeasesOK'
  BY <1>20, ExpEndsFacts, UncertainFacts DEF Failed, restOfExp
<1>21. ASSUME NEW e \in Exposures, Poll(e)
     PROVE  LeasesOK'
  BY <1>21, ExpEndsFacts, ExpToFacts DEF Poll, Connected, Gone, Paused,
     restOfExp
<1>22. ASSUME NEW e \in Exposures, Polled(e)
     PROVE  LeasesOK'
  BY <1>22, ExpEndsFacts, ExpToFacts DEF Polled, Paused, Gone, restOfExp,
     Acquisitions
<1>23. ASSUME NEW e \in Exposures, Before(e)
     PROVE  LeasesOK'
  BY <1>23 DEF Before, Connected, restOfExp, ExposureTasks
<1>24. ASSUME NEW e \in Exposures, Fetch(e)
     PROVE  LeasesOK'
  BY <1>24 DEF Fetch, Connected, restOfExp, ExposureTasks
<1>25. ASSUME NEW e \in Exposures, After(e)
     PROVE  LeasesOK'
  <2>1. active' \in {active, Idle} /\ UNCHANGED <<guide, gd, setg>>
    BY <1>25 DEF After, Published, restOfExp
  <2>2. exp' \in {ExpEnds(e), ExpTo(e, "publish", "none")}
    BY <1>25 DEF After
  <2>3. QED BY <2>1, <2>2, IdleFacts, ExpEndsFacts, ExpToFacts
<1>26. ASSUME NEW e \in Exposures, Publish(e)
     PROVE  LeasesOK'
  BY <1>26, ExpEndsFacts, IdleFacts DEF Publish, Connected, Downloaded,
     Published, restOfExp
<1>27. ASSUME NEW e \in Exposures, CommandEnds(e)
     PROVE  LeasesOK'
  BY <1>27, CmdEndsFacts, EndCommandFacts, UncertainFacts DEF CommandEnds,
     restOfCmd
<1>28. ASSUME NEW e \in Exposures, CommandSent(e)
     PROVE  LeasesOK'
  BY <1>28, CmdToFacts, WriteFacts DEF CommandSent, Connected,
     DispatchAllowed, restOfCmd
<1>29. ASSUME NEW e \in Exposures, CommandHeard(e)
     PROVE  LeasesOK'
  BY <1>29, CmdEndsFacts, CmdToFacts, EndCommandFacts, IdleFacts,
     UncertainFacts DEF CommandHeard, GuideRetains, Doubtful, Aborted,
     restOfCmd, Without
<1>30. ASSUME NEW e \in Exposures, AbortEnds(e)
     PROVE  LeasesOK'
  BY <1>30, CmdEndsFacts, IdleFacts, UncertainFacts DEF AbortEnds, Aborted,
     restOfCmd, Without
<1>31. ASSUME NEW g \in Guides, GuideGivesUp(g)
     PROVE  LeasesOK'
  <2>1. CASE ~PulseOwns(g)
    BY <1>31, <2>1, GuideEndsFacts, IdleFacts DEF GuideGivesUp, FinishGuide,
       restOfGuide, PulseOwns, Pulses
  <2>2. CASE PulseOwns(g)
    BY <1>31, <2>2, GuideToFacts DEF GuideGivesUp, FinishGuide, restOfGuide,
       PulseOwns, Pulses
  <2>3. QED BY <1>31, <2>1, <2>2 DEF GuideGivesUp
<1>32. ASSUME NEW g \in Guides, GuideClaim(g)
     PROVE  LeasesOK'
  BY <1>32 DEF GuideClaim, Grantable, restOfGuide, Connected, GuideTasks
<1>33. ASSUME NEW g \in Guides, GuideHold(g)
     PROVE  LeasesOK'
  BY <1>33 DEF GuideHold, Connected, restOfGuide, Pulses, GuideTasks
<1>34. ASSUME NEW g \in Guides, GuideSent(g)
     PROVE  LeasesOK'
  BY <1>34, GuideToFacts, WriteFacts DEF GuideSent, Connected, restOfGuide
<1>35. ASSUME NEW g \in Guides, GuideHeard(g)
     PROVE  LeasesOK'
  <2>1. CASE gd[g].note = "refused" /\ ~PulseOwns(g)
    BY <1>35, <2>1, GuideEndsFacts, IdleFacts DEF GuideHeard, FinishGuide,
       Doubtful, restOfGuide, PulseOwns, Pulses
  <2>2. CASE gd[g].note = "refused" /\ PulseOwns(g)
    BY <1>35, <2>2, GuideToFacts DEF GuideHeard, FinishGuide, Doubtful,
       restOfGuide, PulseOwns, Pulses
  <2>3. CASE gd[g].note \in Doubtful
    BY <1>35, <2>3, GuideEndsFacts, GuideUncertainFacts DEF GuideHeard,
       Doubtful, restOfGuide, PulseOwns, Pulses
  <2>4. CASE gd[g].note = "ok"
    BY <1>35, <2>4, GuideToFacts DEF GuideHeard, Doubtful, restOfGuide,
       PulseOwns, Pulses
  <2>5. QED BY <1>35, <2>1, <2>2, <2>3, <2>4 DEF GuideHeard
<1>36. ASSUME NEW g \in Guides, GuideRuns(g)
     PROVE  LeasesOK'
  BY <1>36, GuideEndsFacts, GuideToFacts DEF GuideRuns, Connected,
     restOfGuide, Pulses
<1>37. ASSUME NEW g \in Guides, GuideOver(g)
     PROVE  LeasesOK'
  BY <1>37, GuideEndsFacts, GuideToFacts, IdleFacts DEF GuideOver, Connected,
     FinishGuide, restOfGuide, PulseOwns, Pulses
<1>38. ASSUME NEW g \in Guides, GuideLost(g)
     PROVE  LeasesOK'
  BY <1>38, GuideEndsFacts, GuideUncertainFacts DEF GuideLost, restOfGuide
<1>39. ASSUME NEW g \in Guides, GuideFinished(g)
     PROVE  LeasesOK'
  BY <1>39, GuideEndsFacts, GuideUncertainFacts, IdleFacts DEF GuideFinished,
     restOfGuide
<1>40. CASE SettingEnds
  BY <1>40 DEF SettingEnds, NoSetting, restOfSet
<1>41. CASE SettingClaim
  <2>1. setg.pc = "new" /\ (setg.acq = None => setg.op = None)
    BY <1>41 DEF SettingClaim
  <2>2. UNCHANGED <<active, guide, exp, gd>>
    BY <1>41 DEF SettingClaim, restOfSet
  <2>3. CASE setg.op = None
    <3>1. setg' = [setg EXCEPT !.pc = "granted", !.op = Setter]
      BY <1>41, <2>3 DEF SettingClaim
    <3>2. setg'.pc = "granted" /\ setg'.op = Setter
      BY <3>1 DEF SettingTasks
    <3>3. QED BY <2>2, <3>2
  <2>4. CASE setg.op # None
    <3>1. setg' = [setg EXCEPT !.pc = "granted"]
      BY <1>41, <2>4 DEF SettingClaim
    <3>2. setg'.pc = "granted" /\ setg'.acq # None
      BY <2>1, <2>4, <3>1 DEF SettingTasks
    <3>3. QED BY <2>2, <3>2
  <2>5. QED BY <2>3, <2>4
<1>42. CASE SettingSent
  BY <1>42, WriteFacts DEF SettingSent, Connected, restOfSet, SettingTasks
<1>43. CASE SettingHeard
  <2>1. setg'.pc = "yield"
    BY <1>43 DEF SettingHeard, SettingTasks
  <2>2. UNCHANGED <<active, guide, exp, gd>>
    BY <1>43 DEF SettingHeard, restOfSet
  <2>3. setg'.pc \notin {"sent", "granted", "new"}
    BY <2>1
  <2>4. QED BY <2>2, <2>3
<1> HIDE DEF TypeOK, PhaseOfTask, Transfer, NoneIdles, LeasesOK
<1>44. QED BY <1>1, <1>2, <1>3, <1>4, <1>5, <1>6, <1>7, <1>8, <1>9, <1>10,
          <1>11, <1>12, <1>13, <1>14, <1>15, <1>16, <1>17, <1>18, <1>19,
          <1>20, <1>21, <1>22, <1>23, <1>24, <1>25, <1>26, <1>27, <1>28,
          <1>29, <1>30, <1>31, <1>32, <1>33, <1>34, <1>35, <1>36, <1>37,
          <1>38, <1>39, <1>40, <1>41, <1>42, <1>43 DEF Next, ExposureTask,
          CommandTask, GuideTask, SettingTask

(* Nobody takes control from what runs, except the abort that was answered *)
(* too late.                                                               *)
LEMMA ControlStep ==
  ASSUME TypeOK, SourceGrows, PhaseOfTask, NoneIdles, PhaseOfCommand,
         TransferKept, CameraIsOwn, LeasesOK, overReleased \/ Controlled, Next
  PROVE  (overReleased \/ Controlled)'
<1> USE AcquisitionAssumption DEF TypeOK, PhaseOfTask, Transfer,
        PhaseOfCommand, InFlight, SourceGrows, NoneIdles, TransferKept,
        Downloaded, LeasesOK, Controlled
<1>1. CASE Release
  BY <1>1 DEF Release, Referenced, supVars
<1>2. CASE Source
  BY <1>2 DEF Source, supVars, Sources
<1>3. CASE Frame
  BY <1>3 DEF Frame, supVars
<1>4. CASE Status
  BY <1>4, UncertainFacts DEF Status
<1>5. CASE Abandon
  BY <1>5, IdleFacts DEF Abandon
<1>6. CASE Retire
  BY <1>6, IdleFacts DEF Retire
<1>7. ASSUME NEW s \in Sessions, Connect(s)
     PROVE  (overReleased \/ Controlled)'
  BY <1>7 DEF Connect, supVars
<1>8. ASSUME NEW s \in Sessions, NEW e \in Exposures, Admit(s, e)
     PROVE  (overReleased \/ Controlled)'
  BY <1>8 DEF Admit, Connected, restOfExp, ExposureTasks
<1>9. ASSUME NEW s \in Sessions, NEW abort \in BOOLEAN, Command(s, abort)
     PROVE  (overReleased \/ Controlled)'
  BY <1>9 DEF Command, Connected, restOfCmd, Acquisitions, CommandTasks
<1>10. ASSUME NEW s \in Sessions, NEW g \in Guides, Pulse(s, g)
     PROVE  (overReleased \/ Controlled)'
  BY <1>10, IdleFacts DEF Pulse, Connected, restOfGuide, GuideTasks
<1>11. ASSUME NEW s \in Sessions, NEW capture \in BOOLEAN, Set(s, capture)
     PROVE  (overReleased \/ Controlled)'
  BY <1>11, IdleFacts DEF Set, Connected, restOfSet
<1>12. ASSUME NEW e \in Exposures, GiveUp(e)
     PROVE  (overReleased \/ Controlled)'
  BY <1>12, ExpEndsFacts, ExpToFacts, IdleFacts DEF GiveUp, EndRejected,
     restOfExp, OwnsLease, Without, Yield, GuideRetains
<1>13. ASSUME NEW e \in Exposures, Claim(e)
     PROVE  (overReleased \/ Controlled)'
  BY <1>13 DEF Claim, Grantable, restOfExp, Connected, ExposureTasks
<1>14. ASSUME NEW e \in Exposures, Hold(e)
     PROVE  (overReleased \/ Controlled)'
  BY <1>14 DEF Hold, Connected, restOfExp, Acquisitions, ExposureTasks
<1>15. ASSUME NEW e \in Exposures, Prepare(e)
     PROVE  (overReleased \/ Controlled)'
  BY <1>15, ExpToFacts DEF Prepare, Connected, restOfExp
<1>16. ASSUME NEW e \in Exposures, Dispatch(e)
     PROVE  (overReleased \/ Controlled)'
  BY <1>16, ExpEndsFacts, ExpToFacts, WriteFacts DEF Dispatch, restOfExp,
     Acquisitions
<1>17. ASSUME NEW e \in Exposures, Acknowledged(e)
     PROVE  (overReleased \/ Controlled)'
  BY <1>17, ExpEndsFacts, ExpToFacts, IdleFacts, UncertainFacts DEF
     Acknowledged, EndRejected, Doubtful, Gone, restOfExp, OwnsLease, Without,
     Yield, GuideRetains, Acquisitions, Live
<1>18. ASSUME NEW e \in Exposures, Rejected(e)
     PROVE  (overReleased \/ Controlled)'
  BY <1>18, ExpEndsFacts, IdleFacts, UncertainFacts DEF Rejected, Without,
     restOfExp
<1>19. ASSUME NEW e \in Exposures, ReleaseCut(e)
     PROVE  (overReleased \/ Controlled)'
  BY <1>19, ExpEndsFacts, UncertainFacts DEF ReleaseCut, restOfExp
<1>20. ASSUME NEW e \in Exposures, Failed(e)
     PROVE  (overReleased \/ Controlled)'
  BY <1>20, ExpEndsFacts, UncertainFacts DEF Failed, restOfExp
<1>21. ASSUME NEW e \in Exposures, Poll(e)
     PROVE  (overReleased \/ Controlled)'
  BY <1>21, ExpEndsFacts, ExpToFacts DEF Poll, Connected, Gone, Paused,
     restOfExp
<1>22. ASSUME NEW e \in Exposures, Polled(e)
     PROVE  (overReleased \/ Controlled)'
  BY <1>22, ExpEndsFacts, ExpToFacts DEF Polled, Paused, Gone, restOfExp,
     Acquisitions, Live
<1>23. ASSUME NEW e \in Exposures, Before(e)
     PROVE  (overReleased \/ Controlled)'
  BY <1>23 DEF Before, Connected, restOfExp, ExposureTasks
<1>24. ASSUME NEW e \in Exposures, Fetch(e)
     PROVE  (overReleased \/ Controlled)'
  BY <1>24 DEF Fetch, Connected, restOfExp, ExposureTasks
<1>25. ASSUME NEW e \in Exposures, After(e)
     PROVE  (overReleased \/ Controlled)'
  <2>1. CASE overReleased
    BY <1>25, <2>1 DEF After, restOfExp
  <2>2. ASSUME ~overReleased PROVE Controlled'
    <3>1. Downloaded(e) /\ active.id = e
      BY <1>25, GenFacts DEF After, Connected
    <3>2. active' = active \/ active' = Idle
      BY <1>25 DEF After, Published
    <3>3. active'.phase \notin {"starting", "exposing", "stopping", "aborting"}
      BY <3>1, <3>2, IdleFacts
    <3>4. UNCHANGED <<guide, gd>>
      BY <1>25 DEF After, restOfExp
    <3>5. \A l : GuideRetains(l) /\ ctrl = l => ctrl' = l
      BY <1>25, <3>1 DEF After, Yield, GuideRetains
    <3>6. Controlled
      BY <2>2
    <3>7. QED BY <3>3, <3>4, <3>5, <3>6 DEF GuideRetains
  <2>3. QED BY <2>1, <2>2
<1>26. ASSUME NEW e \in Exposures, Publish(e)
     PROVE  (overReleased \/ Controlled)'
  BY <1>26, ExpEndsFacts, IdleFacts DEF Publish, Connected, Published,
     restOfExp
<1>27. ASSUME NEW e \in Exposures, CommandEnds(e)
     PROVE  (overReleased \/ Controlled)'
  BY <1>27, CmdEndsFacts, EndCommandFacts, UncertainFacts DEF CommandEnds,
     restOfCmd
<1>28. ASSUME NEW e \in Exposures, CommandSent(e)
     PROVE  (overReleased \/ Controlled)'
  BY <1>28, CmdToFacts, WriteFacts DEF CommandSent, Connected,
     DispatchAllowed, restOfCmd
<1>29. ASSUME NEW e \in Exposures, CommandHeard(e)
     PROVE  (overReleased \/ Controlled)'
  <2>1. CASE cmd[e].note \in Doubtful
    BY <1>29, <2>1, CmdEndsFacts, CmdToFacts, EndCommandFacts, IdleFacts,
       UncertainFacts DEF CommandHeard, GuideRetains, Doubtful, Aborted,
       Yield, restOfCmd, Without
  <2>2. CASE cmd[e].note = "refused" \/ (cmd[e].note = "ok" /\ ~cmd[e].abort)
    BY <1>29, <2>2, CmdEndsFacts, CmdToFacts, EndCommandFacts, IdleFacts,
       UncertainFacts DEF CommandHeard, GuideRetains, Doubtful, Aborted,
       Yield, restOfCmd, Without
  <2>3. CASE cmd[e].note = "ok" /\ cmd[e].abort /\ active.id = e /\
           GuideRetains(cmd[e].op)
    BY <1>29, <2>3, CmdEndsFacts, CmdToFacts, EndCommandFacts, IdleFacts,
       UncertainFacts DEF CommandHeard, GuideRetains, Doubtful, Aborted,
       Yield, restOfCmd, Without
  <2>4. CASE cmd[e].note = "ok" /\ cmd[e].abort /\ ~(active.id = e /\
           GuideRetains(cmd[e].op)) /\ overReleased
    BY <1>29, <2>4, CmdEndsFacts, CmdToFacts, EndCommandFacts, IdleFacts,
       UncertainFacts DEF CommandHeard, GuideRetains, Doubtful, Aborted,
       Yield, restOfCmd, Without
  <2>5. CASE cmd[e].note = "ok" /\ cmd[e].abort /\ ~(active.id = e /\
           GuideRetains(cmd[e].op)) /\ ~overReleased /\ active.id # e
    BY <1>29, <2>5, CmdEndsFacts, CmdToFacts, EndCommandFacts, IdleFacts,
       UncertainFacts DEF CommandHeard, GuideRetains, Doubtful, Aborted,
       Yield, restOfCmd, Without
  <2>6. CASE cmd[e].note = "ok" /\ cmd[e].abort /\ ~(active.id = e /\
           GuideRetains(cmd[e].op)) /\ ~overReleased /\ active.id = e
    BY <1>29, <2>6, CmdEndsFacts, CmdToFacts, EndCommandFacts, IdleFacts,
       UncertainFacts DEF CommandHeard, GuideRetains, Doubtful, Aborted,
       Yield, restOfCmd, Without
  <2>7. QED BY <1>29, <2>1, <2>2, <2>3, <2>4, <2>5, <2>6 DEF CommandHeard
<1>30. ASSUME NEW e \in Exposures, AbortEnds(e)
     PROVE  (overReleased \/ Controlled)'
  BY <1>30, CmdEndsFacts, IdleFacts, UncertainFacts DEF AbortEnds, Aborted,
     restOfCmd, Without
<1>31. ASSUME NEW g \in Guides, GuideGivesUp(g)
     PROVE  (overReleased \/ Controlled)'
  BY <1>31, GuideEndsFacts, GuideToFacts, IdleFacts DEF GuideGivesUp,
     FinishGuide, restOfGuide, PulseOwns, Yield, Pulses
<1>32. ASSUME NEW g \in Guides, GuideClaim(g)
     PROVE  (overReleased \/ Controlled)'
  BY <1>32 DEF GuideClaim, Grantable, restOfGuide, Connected, GuideTasks
<1>33. ASSUME NEW g \in Guides, GuideHold(g)
     PROVE  (overReleased \/ Controlled)'
  BY <1>33 DEF GuideHold, Connected, restOfGuide, Pulses, GuideTasks
<1>34. ASSUME NEW g \in Guides, GuideSent(g)
     PROVE  (overReleased \/ Controlled)'
  BY <1>34, GuideToFacts, WriteFacts DEF GuideSent, Connected, restOfGuide
<1>35. ASSUME NEW g \in Guides, GuideHeard(g)
     PROVE  (overReleased \/ Controlled)'
  BY <1>35, GuideEndsFacts, GuideToFacts, GuideUncertainFacts, IdleFacts DEF
     GuideHeard, FinishGuide, Doubtful, restOfGuide, PulseOwns, Yield, Pulses
<1>36. ASSUME NEW g \in Guides, GuideRuns(g)
     PROVE  (overReleased \/ Controlled)'
  BY <1>36, GuideEndsFacts, GuideToFacts DEF GuideRuns, Connected,
     restOfGuide, Pulses
<1>37. ASSUME NEW g \in Guides, GuideOver(g)
     PROVE  (overReleased \/ Controlled)'
  BY <1>37, GuideEndsFacts, GuideToFacts, IdleFacts DEF GuideOver, Connected,
     FinishGuide, restOfGuide, PulseOwns, Yield, Pulses
<1>38. ASSUME NEW g \in Guides, GuideLost(g)
     PROVE  (overReleased \/ Controlled)'
  BY <1>38, GuideEndsFacts, GuideUncertainFacts DEF GuideLost, restOfGuide
<1>39. ASSUME NEW g \in Guides, GuideFinished(g)
     PROVE  (overReleased \/ Controlled)'
  BY <1>39, GuideEndsFacts, GuideUncertainFacts, IdleFacts DEF GuideFinished,
     restOfGuide
<1>40. CASE SettingEnds
  BY <1>40 DEF SettingEnds, NoSetting, restOfSet
<1>41. CASE SettingClaim
  BY <1>41 DEF SettingClaim, Grantable, restOfSet, Connected, SettingTasks
<1>42. CASE SettingSent
  BY <1>42, WriteFacts DEF SettingSent, Connected, restOfSet, SettingTasks
<1>43. CASE SettingHeard
  BY <1>43 DEF SettingHeard, Yield, restOfSet, SettingTasks
<1> HIDE DEF TypeOK, PhaseOfTask, Transfer, PhaseOfCommand, InFlight,
             SourceGrows, NoneIdles, TransferKept, Downloaded, LeasesOK,
             Controlled
<1>44. QED BY <1>1, <1>2, <1>3, <1>4, <1>5, <1>6, <1>7, <1>8, <1>9, <1>10,
          <1>11, <1>12, <1>13, <1>14, <1>15, <1>16, <1>17, <1>18, <1>19,
          <1>20, <1>21, <1>22, <1>23, <1>24, <1>25, <1>26, <1>27, <1>28,
          <1>29, <1>30, <1>31, <1>32, <1>33, <1>34, <1>35, <1>36, <1>37,
          <1>38, <1>39, <1>40, <1>41, <1>42, <1>43 DEF Next, ExposureTask,
          CommandTask, GuideTask, SettingTask

(* A start reaches an idle camera; a stop or abort no other exposure.      *)
LEMMA ReachStep ==
  ASSUME TypeOK, CameraIsOwn, Next
  PROVE  ReachOnlyOwn
<1> USE AcquisitionAssumption DEF TypeOK, CameraIsOwn, ReachOnlyOwn, Reaches,
        InFlight
<1>1. CASE Release
  BY <1>1 DEF Release, Referenced, supVars
<1>2. CASE Source
  BY <1>2 DEF Source, supVars, Sources
<1>3. CASE Frame
  BY <1>3 DEF Frame, supVars
<1>4. CASE Status
  BY <1>4, UncertainFacts DEF Status
<1>5. CASE Abandon
  BY <1>5, IdleFacts DEF Abandon
<1>6. CASE Retire
  BY <1>6, IdleFacts DEF Retire
<1>7. ASSUME NEW s \in Sessions, Connect(s)
     PROVE  ReachOnlyOwn
  BY <1>7 DEF Connect, supVars
<1>8. ASSUME NEW s \in Sessions, NEW e \in Exposures, Admit(s, e)
     PROVE  ReachOnlyOwn
  BY <1>8 DEF Admit, Connected, restOfExp, ExposureTasks
<1>9. ASSUME NEW s \in Sessions, NEW abort \in BOOLEAN, Command(s, abort)
     PROVE  ReachOnlyOwn
  BY <1>9 DEF Command, Connected, restOfCmd, Acquisitions, CommandTasks
<1>10. ASSUME NEW s \in Sessions, NEW g \in Guides, Pulse(s, g)
     PROVE  ReachOnlyOwn
  BY <1>10, IdleFacts DEF Pulse, Connected, restOfGuide, GuideTasks
<1>11. ASSUME NEW s \in Sessions, NEW capture \in BOOLEAN, Set(s, capture)
     PROVE  ReachOnlyOwn
  BY <1>11, IdleFacts DEF Set, Connected, restOfSet
<1>12. ASSUME NEW e \in Exposures, GiveUp(e)
     PROVE  ReachOnlyOwn
  <2>1. \A f \in Exposures : exp'[f].pc \in {exp[f].pc, "end", "rejected"}
    BY <1>12, ExpEndsFacts, ExpToFacts DEF GiveUp, EndRejected
  <2>2. UNCHANGED cmd
    BY <1>12 DEF GiveUp, restOfExp
  <2>3. QED BY <2>1, <2>2
<1>13. ASSUME NEW e \in Exposures, Claim(e)
     PROVE  ReachOnlyOwn
  BY <1>13 DEF Claim, Grantable, restOfExp, Connected, ExposureTasks
<1>14. ASSUME NEW e \in Exposures, Hold(e)
     PROVE  ReachOnlyOwn
  BY <1>14 DEF Hold, Connected, restOfExp, Acquisitions, ExposureTasks
<1>15. ASSUME NEW e \in Exposures, Prepare(e)
     PROVE  ReachOnlyOwn
  BY <1>15, ExpToFacts DEF Prepare, Connected, restOfExp
<1>16. ASSUME NEW e \in Exposures, Dispatch(e)
     PROVE  ReachOnlyOwn
  BY <1>16, ExpEndsFacts, ExpToFacts, WriteFacts DEF Dispatch, restOfExp,
     Acquisitions
<1>17. ASSUME NEW e \in Exposures, Acknowledged(e)
     PROVE  ReachOnlyOwn
  BY <1>17, ExpEndsFacts, ExpToFacts, IdleFacts, UncertainFacts DEF
     Acknowledged, EndRejected, Doubtful, Gone, restOfExp, OwnsLease, Without,
     GuideRetains, Acquisitions
<1>18. ASSUME NEW e \in Exposures, Rejected(e)
     PROVE  ReachOnlyOwn
  BY <1>18, ExpEndsFacts, IdleFacts, UncertainFacts DEF Rejected, Without,
     restOfExp
<1>19. ASSUME NEW e \in Exposures, ReleaseCut(e)
     PROVE  ReachOnlyOwn
  BY <1>19, ExpEndsFacts, UncertainFacts DEF ReleaseCut, restOfExp
<1>20. ASSUME NEW e \in Exposures, Failed(e)
     PROVE  ReachOnlyOwn
  BY <1>20, ExpEndsFacts, UncertainFacts DEF Failed, restOfExp
<1>21. ASSUME NEW e \in Exposures, Poll(e)
     PROVE  ReachOnlyOwn
  BY <1>21, ExpEndsFacts, ExpToFacts DEF Poll, Connected, Gone, Paused,
     restOfExp
<1>22. ASSUME NEW e \in Exposures, Polled(e)
     PROVE  ReachOnlyOwn
  BY <1>22, ExpEndsFacts, ExpToFacts DEF Polled, Paused, Gone, restOfExp,
     Acquisitions
<1>23. ASSUME NEW e \in Exposures, Before(e)
     PROVE  ReachOnlyOwn
  BY <1>23 DEF Before, Connected, restOfExp, ExposureTasks
<1>24. ASSUME NEW e \in Exposures, Fetch(e)
     PROVE  ReachOnlyOwn
  BY <1>24 DEF Fetch, Connected, restOfExp, ExposureTasks
<1>25. ASSUME NEW e \in Exposures, After(e)
     PROVE  ReachOnlyOwn
  BY <1>25, ExpEndsFacts, ExpToFacts, IdleFacts DEF After, Connected,
     Downloaded, GuideRetains, Published, restOfExp
<1>26. ASSUME NEW e \in Exposures, Publish(e)
     PROVE  ReachOnlyOwn
  BY <1>26, ExpEndsFacts, IdleFacts DEF Publish, Connected, Downloaded,
     Published, restOfExp
<1>27. ASSUME NEW e \in Exposures, CommandEnds(e)
     PROVE  ReachOnlyOwn
  BY <1>27, CmdEndsFacts, EndCommandFacts, UncertainFacts DEF CommandEnds,
     restOfCmd
<1>28. ASSUME NEW e \in Exposures, CommandSent(e)
     PROVE  ReachOnlyOwn
  BY <1>28, CmdToFacts, WriteFacts DEF CommandSent, Connected,
     DispatchAllowed, restOfCmd
<1>29. ASSUME NEW e \in Exposures, CommandHeard(e)
     PROVE  ReachOnlyOwn
  BY <1>29, CmdEndsFacts, CmdToFacts, EndCommandFacts, IdleFacts,
     UncertainFacts DEF CommandHeard, GuideRetains, Doubtful, Aborted,
     restOfCmd, Without
<1>30. ASSUME NEW e \in Exposures, AbortEnds(e)
     PROVE  ReachOnlyOwn
  BY <1>30, CmdEndsFacts, IdleFacts, UncertainFacts DEF AbortEnds, Aborted,
     restOfCmd, Without
<1>31. ASSUME NEW g \in Guides, GuideTask(g)
     PROVE  ReachOnlyOwn
  BY <1>31, GuideFrame
<1>32. CASE SettingTask
  BY <1>32, SettingFrame
<1> HIDE DEF TypeOK, CameraIsOwn, ReachOnlyOwn, Reaches, InFlight
<1>33. QED BY <1>1, <1>2, <1>3, <1>4, <1>5, <1>6, <1>7, <1>8, <1>9, <1>10,
          <1>11, <1>12, <1>13, <1>14, <1>15, <1>16, <1>17, <1>18, <1>19,
          <1>20, <1>21, <1>22, <1>23, <1>24, <1>25, <1>26, <1>27, <1>28,
          <1>29, <1>30, <1>31, <1>32 DEF Next, ExposureTask, CommandTask

(* An uncertain exposure stays uncertain or is gone as a whole.            *)
LEMMA DoubtStep ==
  ASSUME TypeOK, Next
  PROVE  StayUncertain
<1> USE AcquisitionAssumption DEF TypeOK, StayUncertain
<1>1. CASE Release
  BY <1>1 DEF Release, Referenced, supVars
<1>2. CASE Source
  BY <1>2 DEF Source, supVars, Sources
<1>3. CASE Frame
  BY <1>3 DEF Frame, supVars
<1>4. CASE Status
  BY <1>4, UncertainFacts DEF Status
<1>5. CASE Abandon
  BY <1>5, IdleFacts DEF Abandon
<1>6. CASE Retire
  BY <1>6, IdleFacts DEF Retire
<1>7. ASSUME NEW s \in Sessions, Connect(s)
     PROVE  StayUncertain
  BY <1>7 DEF Connect, supVars
<1>8. ASSUME NEW s \in Sessions, NEW e \in Exposures, Admit(s, e)
     PROVE  StayUncertain
  BY <1>8 DEF Admit, Connected, restOfExp, ExposureTasks
<1>9. ASSUME NEW s \in Sessions, NEW abort \in BOOLEAN, Command(s, abort)
     PROVE  StayUncertain
  BY <1>9 DEF Command, Connected, restOfCmd, Acquisitions, CommandTasks
<1>10. ASSUME NEW s \in Sessions, NEW g \in Guides, Pulse(s, g)
     PROVE  StayUncertain
  BY <1>10, IdleFacts DEF Pulse, Connected, restOfGuide, GuideTasks
<1>11. ASSUME NEW s \in Sessions, NEW capture \in BOOLEAN, Set(s, capture)
     PROVE  StayUncertain
  BY <1>11, IdleFacts DEF Set, Connected, restOfSet
<1>12. ASSUME NEW e \in Exposures, GiveUp(e)
     PROVE  StayUncertain
  BY <1>12, ExpEndsFacts, ExpToFacts, IdleFacts DEF GiveUp, EndRejected,
     restOfExp, OwnsLease, Without, GuideRetains
<1>13. ASSUME NEW e \in Exposures, Claim(e)
     PROVE  StayUncertain
  BY <1>13 DEF Claim, Grantable, restOfExp, Connected, ExposureTasks
<1>14. ASSUME NEW e \in Exposures, Hold(e)
     PROVE  StayUncertain
  BY <1>14 DEF Hold, Connected, restOfExp, Acquisitions, ExposureTasks
<1>15. ASSUME NEW e \in Exposures, Prepare(e)
     PROVE  StayUncertain
  BY <1>15, ExpToFacts DEF Prepare, Connected, restOfExp
<1>16. ASSUME NEW e \in Exposures, Dispatch(e)
     PROVE  StayUncertain
  BY <1>16, ExpEndsFacts, ExpToFacts, WriteFacts DEF Dispatch, restOfExp,
     Acquisitions
<1>17. ASSUME NEW e \in Exposures, Acknowledged(e)
     PROVE  StayUncertain
  BY <1>17, ExpEndsFacts, ExpToFacts, IdleFacts, UncertainFacts DEF
     Acknowledged, EndRejected, Doubtful, Gone, restOfExp, OwnsLease, Without,
     GuideRetains, Acquisitions
<1>18. ASSUME NEW e \in Exposures, Rejected(e)
     PROVE  StayUncertain
  BY <1>18, ExpEndsFacts, IdleFacts, UncertainFacts DEF Rejected, Without,
     restOfExp
<1>19. ASSUME NEW e \in Exposures, ReleaseCut(e)
     PROVE  StayUncertain
  BY <1>19, ExpEndsFacts, UncertainFacts DEF ReleaseCut, restOfExp
<1>20. ASSUME NEW e \in Exposures, Failed(e)
     PROVE  StayUncertain
  BY <1>20, ExpEndsFacts, UncertainFacts DEF Failed, restOfExp
<1>21. ASSUME NEW e \in Exposures, Poll(e)
     PROVE  StayUncertain
  BY <1>21, ExpEndsFacts, ExpToFacts DEF Poll, Connected, Gone, Paused,
     restOfExp
<1>22. ASSUME NEW e \in Exposures, Polled(e)
     PROVE  StayUncertain
  BY <1>22, ExpEndsFacts, ExpToFacts DEF Polled, Paused, Gone, restOfExp,
     Acquisitions
<1>23. ASSUME NEW e \in Exposures, Before(e)
     PROVE  StayUncertain
  BY <1>23 DEF Before, Connected, restOfExp, ExposureTasks
<1>24. ASSUME NEW e \in Exposures, Fetch(e)
     PROVE  StayUncertain
  BY <1>24 DEF Fetch, Connected, restOfExp, ExposureTasks
<1>25. ASSUME NEW e \in Exposures, After(e)
     PROVE  StayUncertain
  BY <1>25, ExpEndsFacts, ExpToFacts, IdleFacts DEF After, Connected,
     Downloaded, GuideRetains, Published, restOfExp
<1>26. ASSUME NEW e \in Exposures, Publish(e)
     PROVE  StayUncertain
  BY <1>26, ExpEndsFacts, IdleFacts DEF Publish, Connected, Downloaded,
     Published, restOfExp
<1>27. ASSUME NEW e \in Exposures, CommandEnds(e)
     PROVE  StayUncertain
  BY <1>27, CmdEndsFacts, EndCommandFacts, UncertainFacts DEF CommandEnds,
     restOfCmd
<1>28. ASSUME NEW e \in Exposures, CommandSent(e)
     PROVE  StayUncertain
  BY <1>28, CmdToFacts, WriteFacts DEF CommandSent, Connected,
     DispatchAllowed, restOfCmd
<1>29. ASSUME NEW e \in Exposures, CommandHeard(e)
     PROVE  StayUncertain
  BY <1>29, CmdEndsFacts, CmdToFacts, EndCommandFacts, IdleFacts,
     UncertainFacts DEF CommandHeard, GuideRetains, Doubtful, Aborted,
     restOfCmd, Without
<1>30. ASSUME NEW e \in Exposures, AbortEnds(e)
     PROVE  StayUncertain
  BY <1>30, CmdEndsFacts, IdleFacts, UncertainFacts DEF AbortEnds, Aborted,
     restOfCmd, Without
<1>31. ASSUME NEW g \in Guides, GuideTask(g)
     PROVE  StayUncertain
  BY <1>31, GuideFrame
<1>32. CASE SettingTask
  BY <1>32, SettingFrame
<1> HIDE DEF TypeOK, StayUncertain
<1>33. QED BY <1>1, <1>2, <1>3, <1>4, <1>5, <1>6, <1>7, <1>8, <1>9, <1>10,
          <1>11, <1>12, <1>13, <1>14, <1>15, <1>16, <1>17, <1>18, <1>19,
          <1>20, <1>21, <1>22, <1>23, <1>24, <1>25, <1>26, <1>27, <1>28,
          <1>29, <1>30, <1>31, <1>32 DEF Next, ExposureTask, CommandTask

-----------------------------------------------------------------------------
(* The theorems                                                            *)

LEMMA InitIInv == Init => IInv
<1> SUFFICES ASSUME Init PROVE IInv
  OBVIOUS
<1> USE AcquisitionAssumption DEF Init
<1>1. TypeOK
  <2>1. src \in Sources
    BY DEF Sources, Gens
  <2>2. active \in Acquisitions /\ guide \in Pulses /\ done \in Images
    BY IdleFacts
  <2>3. /\ NoExp("unused") \in ExposureTasks /\ NoCmd("unused") \in CommandTasks
        /\ NoGuide("unused") \in GuideTasks /\ NoSetting \in SettingTasks
    BY DEF NoExp, NoCmd, NoGuide, NoSetting, ExposureTasks, CommandTasks, GuideTasks,
           SettingTasks, Flight, Gens
  <2>4. sess \in [Sessions -> Gens]
    BY DEF Gens
  <2>5. QED BY <2>1, <2>2, <2>3, <2>4 DEF TypeOK
<1>2. SourceGrows
  BY IdleFacts DEF SourceGrows, NoExp
<1>3. CommandsFollow /\ PhaseOfTask /\ NoneIdles /\ PhaseOfCommand
  BY IdleFacts DEF CommandsFollow, PhaseOfTask, NoneIdles, PhaseOfCommand, NoCmd
<1>4. TransferKept
  BY DEF TransferKept, Transfer, NoExp
<1>5. CameraIsOwn /\ OfferIsOwn
  BY IdleFacts DEF CameraIsOwn, OfferIsOwn
<1>6. LeasesOK
  BY IdleFacts DEF LeasesOK, NoExp, NoGuide, NoSetting
<1>7. Controlled
  BY IdleFacts DEF Controlled
<1>8. QED BY <1>1, <1>2, <1>3, <1>4, <1>5, <1>6, <1>7 DEF IInv

LEMMA NextIInv == IInv /\ [Next]_vars => IInv'
<1> SUFFICES ASSUME IInv, [Next]_vars PROVE IInv'
  OBVIOUS
<1>1. CASE Next
  BY <1>1, TypeStep, SourceStep, FollowStep, TaskStep, NoneStep, CommandStep,
     TransferStep, CameraStep, OfferStep, LeaseStep, ControlStep DEF IInv
<1>2. CASE UNCHANGED vars
  BY <1>2 DEF IInv, vars, supVars, TypeOK, SourceGrows, CommandsFollow, PhaseOfTask,
     NoneIdles, PhaseOfCommand, TransferKept, Downloaded, CameraIsOwn, OfferIsOwn,
     LeasesOK, Controlled
<1>3. QED BY <1>1, <1>2

(* Types, tasks, phases, leases, frames and control fit together in every  *)
(* reachable state of the supervisor.                                      *)
THEOREM AcquisitionInvariant == Spec => []IInv
BY InitIInv, NextIInv, PTL DEF Spec

(* Whatever its clients, its tasks and the source do, and in any order: no *)
(* certain exposure is without a task that carries it on, and the image on *)
(* offer is the frame of its own exposure (acquisition.rs).                *)
THEOREM SupervisorIsSound == Spec => []SupervisorInv
<1>1. IInv => SupervisorInv
  <2> SUFFICES ASSUME IInv PROVE SupervisorInv
    OBVIOUS
  <2>1. TypeOK /\ PhaseOfTask /\ OfferIsOwn /\ CommandsFollow
    BY DEF IInv
  <2>2. NoOrphanExposure
    <3> SUFFICES ASSUME NEW e \in Exposures, active.id = e, active.phase # "uncertain"
                 PROVE  exp[e].pc \notin {"unused", "end"}
      BY DEF NoOrphanExposure
    <3>1. active.phase \in Live \cup {"starting"}
      BY <2>1 DEF TypeOK, Acquisitions, PhaseOfTask
    <3>2. QED BY <2>1, <3>1 DEF PhaseOfTask, Transfer, Live
  <2>3. ImageIsOwn
    BY <2>1 DEF OfferIsOwn, ImageIsOwn
  <2>4. QED BY <2>1, <2>2, <2>3 DEF SupervisorInv
<1>2. QED BY <1>1, AcquisitionInvariant, PTL

(* Unless an abort was answered after its exposure had been abandoned, a   *)
(* running exposure and a running pulse have control of the source through *)
(* the lease they hold, whoever borrowed or gave back a lease meanwhile.   *)
THEOREM WorkIsControlled == Spec => []ControlCoversWork
<1>1. IInv => ControlCoversWork
  <2> SUFFICES ASSUME IInv, ~overReleased PROVE Covered
    BY DEF ControlCoversWork
  <2>1. Controlled /\ TypeOK /\ LeasesOK /\ NoneIdles
    BY DEF IInv
  <2>2. active.phase \in {"exposing", "stopping"} => ctrl = active.op
    BY <2>1 DEF Controlled
  <2>3. ASSUME guide.phase = "guiding" PROVE ctrl = guide.op
    <3>1. guide.id \in Guides
      BY <2>1, <2>3, IdleFacts DEF TypeOK, Pulses, NoneIdles
    <3>2. gd[guide.id].pc = "watch"
      BY <2>1, <2>3, <3>1 DEF LeasesOK
    <3>3. QED BY <2>1, <3>1, <3>2 DEF Controlled
  <2>4. QED BY <2>2, <2>3 DEF Covered
<1>2. QED BY <1>1, AcquisitionInvariant, PTL

(* A start reaches an idle camera, a stop or abort no other exposure than  *)
(* its own, and no task makes an exposure certain that was declared        *)
(* uncertain.                                                              *)
THEOREM TasksReachTheirOwn == Spec => TasksKeepTheirOwn
<1>1. IInv /\ [Next]_vars => [ReachOnlyOwn]_vars
  BY ReachStep DEF IInv
<1>2. IInv /\ [Next]_vars => [StayUncertain]_vars
  BY DoubtStep DEF IInv
<1>3. QED
  BY <1>1, <1>2, AcquisitionInvariant, PTL
     DEF Spec, TasksKeepTheirOwn, OwnTarget, CertaintyIsNotRestored

-----------------------------------------------------------------------------
(* The owner of a native camera                                            *)

(* The owner by itself.                                                    *)
NoSpec == NoInit /\ [][NoNext]_noVars

NoIds == 0..MaxNativeOps
NoKinds == {"none", "connect", "capture", "set", "prepare", "refresh", "cool", "close"}
NoPlaces == {"unused", "queued", "closing", "working", "check", "publish", "over"}
NoResults == {"none", "ok", "failed", "uncertain", "image", "withdrawn"}
NativeTasks ==
  [kind : NoKinds, gen : NoIds, pc : NoPlaces, cancelled : BOOLEAN, aborting : BOOLEAN,
   got : NoResults]
NativeStates ==
  [gen : NoIds, conn : BOOLEAN, pend : NoIds, cool : NoIds, img : NoIds, last : NoIds,
   err : {"none", "failed", "uncertain"}]

NativeType ==
  /\ nst \in NativeStates
  /\ ntask \in [Ops -> NativeTasks]
  /\ neng \in NoIds
  /\ nses \in [open : BOOLEAN, by : NoIds]
  /\ ncall \in [waits : NoIds, told : SUBSET Ops, lost : BOOLEAN]

(* Tasks are admitted in the order of their numbers.                       *)
NoFirst(n) == \A t \in Ops : IF t > n THEN ntask[t] = NoTask ELSE ntask[t].pc # "unused"

(* What a task is while it has got that far: the lock it holds, the        *)
(* generation it belongs to.                                               *)
TaskOK(t) ==
  /\ ntask[t].pc # "unused" => ntask[t].kind # "none" /\ ntask[t].gen <= nst.gen
  /\ ntask[t].kind \in {"connect", "close"} => ntask[t].gen = t
  /\ ntask[t].pc = "closing" => ntask[t].kind = "connect"
  /\ ntask[t].pc = "check" => ntask[t].kind \in {"connect", "capture"}
  /\ ntask[t].pc \in {"closing", "working", "check"} => neng = t
  /\ ntask[t].pc = "publish" /\ ntask[t].kind \notin {"set", "cool"} => neng = t
  /\ ntask[t].pc \in {"check", "publish"} /\ ntask[t].kind = "capture" =>
       ntask[t].got \in {"image", "failed", "uncertain"}
  /\ ntask[t].kind = "connect" /\ ntask[t].pc = "working" => ~nses.open
  /\ ntask[t].kind = "connect" /\ ntask[t].pc \in {"check", "publish"} /\ nses.open =>
       nses.by = t
OwnerTasksOK == \A t \in Ops : TaskOK(t)

(* The markers in State: what they mark still runs, in this generation.    *)
MarkersOK ==
  /\ nst.gen # 0 => /\ ntask[nst.gen].pc # "unused"
                    /\ ntask[nst.gen].kind \in {"connect", "close"}
  /\ nst.conn => nst.gen # 0 /\ ntask[nst.gen].kind = "connect"
  /\ nst.pend # 0 => /\ Alive(nst.pend) /\ ntask[nst.pend].gen = nst.gen
                     /\ ntask[nst.pend].kind # "cool"
  /\ nst.cool # 0 => /\ Alive(nst.cool) /\ ntask[nst.cool].gen = nst.gen
                     /\ ntask[nst.cool].kind = "cool"
  /\ nst.pend # 0 /\ ntask[nst.pend].kind # "capture" =>
       nst.cool = 0 /\ nst.err # "uncertain"
  /\ nst.gen # 0 /\ ntask[nst.gen].kind = "close" =>
       /\ nst.cool = 0 /\ nst.pend \in {0, nst.gen}
       /\ ntask[nst.gen].pc # "over" => nst.pend = nst.gen

(* The image is the one of the last capture, which nobody cancelled.       *)
ImageOK ==
  /\ nst.pend # 0 /\ ntask[nst.pend].kind = "capture" => nst.last = nst.pend /\ nst.img = 0
  /\ nst.img # 0 =>
       /\ nst.img = nst.last /\ ntask[nst.img].gen = nst.gen
       /\ ntask[nst.img].pc = "over" /\ ~ntask[nst.img].cancelled
  /\ ncall.waits # 0 => ntask[ncall.waits].cancelled
  /\ \A t \in ncall.told : ntask[t].cancelled

(* Whose worker it is: of the generation that is connected, and nobody's   *)
(* once a close got the session.                                           *)
WorkerOK ==
  /\ neng # 0 => ntask[neng].pc # "unused"
  /\ nst.conn /\ neng # 0 => ntask[neng].gen = nst.gen
  /\ nst.conn /\ nses.open => nses.by = nst.gen
  /\ /\ nst.gen # 0 /\ ntask[nst.gen].kind = "close"
     /\ ntask[nst.gen].pc \in {"publish", "over"} /\ ~ncall.lost
     => ~nses.open /\ neng \in {0, nst.gen}

NativeInv ==
  /\ NativeType /\ \E n \in NoIds : NoFirst(n)
  /\ OwnerTasksOK /\ MarkersOK /\ ImageOK /\ WorkerOK

LEMMA OwnerFacts ==
  /\ MaxNativeOps \in Nat /\ MaxNativeOps # 0
  /\ Ops \subseteq NoIds /\ NoIds \subseteq Nat /\ 0 \in NoIds /\ 0 \notin Ops
  /\ \A i \in NoIds : i # 0 => i \in Ops
  /\ NoTask \in NativeTasks /\ NoTask.pc = "unused" /\ NoTask.kind = "none" /\ NoTask.gen = 0
  /\ ~NoTask.cancelled
BY NativeOpsAssumption
   DEF Ops, NoIds, NoTask, NativeTasks, NoKinds, NoPlaces, NoResults

(* What a task keeps when it is only cancelled.                            *)
SameTask(v) ==
  /\ ntask'[v].kind = ntask[v].kind /\ ntask'[v].gen = ntask[v].gen
  /\ ntask'[v].pc = ntask[v].pc /\ ntask'[v].got = ntask[v].got

(* A task takes a step.                                                    *)
LEMMA StepIs ==
  ASSUME NativeType, NEW t \in Ops, NEW p \in NoPlaces, ntask' = [ntask EXCEPT ![t].pc = p]
  PROVE  /\ ntask' \in [Ops -> NativeTasks] /\ ntask'[t].pc = p
         /\ ntask'[t].kind = ntask[t].kind /\ ntask'[t].gen = ntask[t].gen
         /\ ntask'[t].got = ntask[t].got /\ ntask'[t].cancelled = ntask[t].cancelled
         /\ \A v \in Ops \ {t} : ntask'[v] = ntask[v] /\ SameTask(v)
<1> DEFINE u == [ntask[t] EXCEPT !.pc = p]
<1>1. ntask \in [Ops -> NativeTasks] /\ ntask[t] \in NativeTasks
  BY DEF NativeType
<1>2. /\ u \in NativeTasks /\ u.pc = p /\ u.kind = ntask[t].kind /\ u.gen = ntask[t].gen
      /\ u.got = ntask[t].got /\ u.cancelled = ntask[t].cancelled
  BY <1>1 DEF NativeTasks
<1>3. ntask' = [ntask EXCEPT ![t] = u]
  OBVIOUS
<1> HIDE DEF u
<1> QED BY <1>1, <1>2, <1>3 DEF SameTask

LEMMA ResultIs ==
  ASSUME NativeType, NEW t \in Ops, NEW p \in NoPlaces, NEW g \in NoResults,
         \/ ntask' = [ntask EXCEPT ![t].got = g, ![t].pc = p]
         \/ ntask' = [ntask EXCEPT ![t].pc = p, ![t].got = g]
  PROVE  /\ ntask' \in [Ops -> NativeTasks] /\ ntask'[t].pc = p
         /\ ntask'[t].kind = ntask[t].kind /\ ntask'[t].gen = ntask[t].gen
         /\ ntask'[t].got = g /\ ntask'[t].cancelled = ntask[t].cancelled
         /\ \A v \in Ops \ {t} : ntask'[v] = ntask[v] /\ SameTask(v)
<1> DEFINE u == [ntask[t] EXCEPT !.pc = p, !.got = g]
<1>1. ntask \in [Ops -> NativeTasks] /\ ntask[t] \in NativeTasks
  BY DEF NativeType
<1>2. /\ u \in NativeTasks /\ u.pc = p /\ u.kind = ntask[t].kind /\ u.gen = ntask[t].gen
      /\ u.got = g /\ u.cancelled = ntask[t].cancelled
  BY <1>1 DEF NativeTasks
<1>3. ntask' = [ntask EXCEPT ![t] = u]
  BY <1>1 DEF NativeTasks
<1> HIDE DEF u
<1> QED BY <1>1, <1>2, <1>3 DEF SameTask

LEMMA CancelledIs ==
  ASSUME NativeType, NEW S
  PROVE  /\ Cancelled(S) \in [Ops -> NativeTasks]
         /\ \A v \in Ops : LET c == Cancelled(S)[v] IN
              /\ c.kind = ntask[v].kind /\ c.gen = ntask[v].gen /\ c.pc = ntask[v].pc
              /\ c.got = ntask[v].got /\ (v \notin S => c = ntask[v])
              /\ (ntask[v].cancelled => c.cancelled)
<1>1. ASSUME NEW v \in Ops
      PROVE  /\ [ntask[v] EXCEPT !.cancelled = TRUE] \in NativeTasks
             /\ LET c == [ntask[v] EXCEPT !.cancelled = TRUE] IN
                /\ c.kind = ntask[v].kind /\ c.gen = ntask[v].gen /\ c.pc = ntask[v].pc
                /\ c.got = ntask[v].got /\ c.cancelled
             /\ ntask[v] \in NativeTasks
             /\ Cancelled(S)[v] = IF v \in S THEN [ntask[v] EXCEPT !.cancelled = TRUE]
                                  ELSE ntask[v]
  <2>1. ntask[v] \in NativeTasks
    BY DEF NativeType
  <2> QED BY <2>1 DEF NativeTasks, Cancelled
<1>2. Cancelled(S) \in [Ops -> NativeTasks]
  BY <1>1 DEF Cancelled
<1> QED BY <1>1, <1>2

(* The next number is free, and those before it are taken.                 *)
LEMMA NextIs ==
  ASSUME NativeInv, CanAdmit
  PROVE  /\ NextOp \in Ops /\ ntask[NextOp] = NoTask
         /\ \A t \in Ops : IF t >= NextOp THEN ntask[t] = NoTask ELSE ntask[t].pc # "unused"
<1>1. PICK n \in NoIds : NoFirst(n)
  BY DEF NativeInv
<1> DEFINE P(i) == /\ i \in Ops => ntask[i].pc = "unused"
                   /\ \A u \in Ops : u < i => ntask[u].pc # "unused"
<1>2. n \in Nat /\ n + 1 \in Nat /\ n + 1 \in Ops \cup {MaxNativeOps + 1}
  BY NativeOpsAssumption DEF NoIds, Ops
<1>3. P(n + 1)
  BY <1>1, <1>2, OwnerFacts DEF NoFirst, Ops
<1>4. NextOp = CHOOSE i \in Ops \cup {MaxNativeOps + 1} : P(i)
  BY DEF NextOp
<1>5. P(NextOp) /\ NextOp \in Ops
  BY <1>2, <1>3, <1>4 DEF CanAdmit
<1>6. NextOp = n + 1
  BY <1>1, <1>2, <1>3, <1>5, OwnerFacts DEF NoFirst, Ops
<1>7. \A t \in Ops : IF t >= n + 1 THEN ntask[t] = NoTask ELSE ntask[t].pc # "unused"
  BY <1>1, <1>2 DEF NoFirst, Ops
<1> QED BY <1>5, <1>6, <1>7 DEF Ops

(* The others are as good as before.                                       *)
LEMMA OthersKeep ==
  ASSUME NativeInv, NEW t \in Ops, \A v \in Ops \ {t} : SameTask(v),
         nst'.gen \in NoIds, nst.gen <= nst'.gen, neng' = neng \/ neng \in {0, t},
         nses' = nses \/ neng = t
  PROVE  \A v \in Ops \ {t} : TaskOK(v)'
<1> SUFFICES ASSUME NEW v \in Ops \ {t}
             PROVE  TaskOK(v)'
  OBVIOUS
<1>1. TaskOK(v) /\ SameTask(v) /\ v # 0
  BY OwnerFacts DEF NativeInv, OwnerTasksOK
<1>2. neng = v => neng' = v /\ nses' = nses
  BY <1>1
<1>3. ntask[v].gen \in Nat /\ nst.gen \in Nat /\ nst'.gen \in Nat
  BY OwnerFacts DEF NativeInv, NativeType, NativeTasks, NativeStates
<1> QED BY <1>1, <1>2, <1>3 DEF TaskOK, SameTask

(* Tasks in use stay in use.                                               *)
LEMMA FirstKeeps ==
  ASSUME NativeInv,
         \A v \in Ops : IF ntask[v].pc = "unused" THEN ntask'[v] = ntask[v]
                        ELSE ntask'[v].pc # "unused"
  PROVE  \E n \in NoIds : NoFirst(n)'
<1>1. PICK n \in NoIds : NoFirst(n)
  BY DEF NativeInv
<1>2. NoFirst(n)'
  BY <1>1, OwnerFacts DEF NoFirst
<1> QED BY <1>2

(* Who the numbers in State belong to, so that a new task is none of them. *)
LEMMA InUse ==
  ASSUME NativeInv
  PROVE  /\ nst.gen # 0 => nst.gen \in Ops /\ ntask[nst.gen].pc # "unused"
         /\ nst.pend # 0 => nst.pend \in Ops /\ ntask[nst.pend].pc \notin {"unused", "over"}
         /\ nst.cool # 0 => nst.cool \in Ops /\ ntask[nst.cool].pc \notin {"unused", "over"}
         /\ nst.img # 0 => nst.img \in Ops /\ ntask[nst.img].pc = "over"
         /\ neng # 0 => neng \in Ops /\ ntask[neng].pc # "unused"
         /\ ncall.waits # 0 => ncall.waits \in Ops /\ ntask[ncall.waits].cancelled
BY OwnerFacts DEF NativeInv, NativeType, NativeStates, MarkersOK, ImageOK, WorkerOK, Alive

NewTask(kind, g) == [NoTask EXCEPT !.kind = kind, !.gen = g, !.pc = "queued"]

(* A task is admitted.                                                     *)
LEMMA AdmitKeeps ==
  ASSUME NativeInv, CanAdmit, NEW kind \in NoKinds \ {"none"}, NEW g \in NoIds, NEW n \in Ops,
         n = NextOp,
         ntask' \in [Ops -> NativeTasks],
         ntask'[n] = NewTask(kind, g),
         \A v \in Ops \ {n} : SameTask(v) /\ (ntask[v].pc = "unused" => ntask'[v] = ntask[v]),
         nst' \in NativeStates, nst'.gen \in {nst.gen, n}, g <= nst'.gen,
         kind \in {"connect", "close"} => g = n,
         neng' = neng, nses' = nses, ncall' = ncall
  PROVE  /\ NativeType' /\ (\E i \in NoIds : NoFirst(i)') /\ OwnerTasksOK'
         /\ ntask'[n].kind = kind /\ ntask'[n].gen = g /\ ntask'[n].pc = "queued"
         /\ n # 0 /\ n \notin {nst.gen, nst.pend, nst.cool, nst.img, neng, ncall.waits}
         /\ n \notin ncall.told /\ ntask[n] = NoTask
<1>1. /\ ntask[n] = NoTask /\ n # 0
      /\ \A t \in Ops : IF t >= n THEN ntask[t] = NoTask ELSE ntask[t].pc # "unused"
  BY NextIs, OwnerFacts
<1>2. ntask'[n].kind = kind /\ ntask'[n].gen = g /\ ntask'[n].pc = "queued"
  BY OwnerFacts DEF NativeTasks, NewTask
<1>3. /\ n # nst.gen /\ n # nst.pend /\ n # nst.cool /\ n # nst.img /\ n # neng
      /\ n # ncall.waits
  BY <1>1, InUse, OwnerFacts
<1>4. n \notin ncall.told
  BY <1>1, OwnerFacts DEF NativeInv, ImageOK
<1>5. NativeType'
  BY DEF NativeInv, NativeType
<1>6. \E i \in NoIds : NoFirst(i)'
  <2>1. \A v \in Ops : IF v > n THEN ntask'[v] = NoTask ELSE ntask'[v].pc # "unused"
    <3>1. n \in Nat /\ \A v \in Ops : v \in Nat
      BY OwnerFacts
    <3>2. \A v \in Ops : v > n => v # n /\ ntask[v] = NoTask
      BY <1>1, <3>1
    <3>3. \A v \in Ops : ~(v > n) /\ v # n => ntask[v].pc # "unused"
      BY <1>1, <3>1
    <3>4. \A v \in Ops : v > n => ntask'[v] = NoTask
      BY <3>2, OwnerFacts
    <3>5. \A v \in Ops : ~(v > n) => ntask'[v].pc # "unused"
      BY <1>2, <3>3 DEF SameTask
    <3> QED BY <3>4, <3>5
  <2> QED BY <2>1, OwnerFacts DEF NoFirst
<1>7. nst.gen <= nst'.gen
  <2>1. nst.gen \in Nat /\ n \in Nat
    BY OwnerFacts DEF NativeInv, NativeType, NativeStates
  <2>2. nst.gen # 0 => ~(nst.gen >= n)
    BY <1>1, InUse, OwnerFacts
  <2> QED BY <2>1, <2>2
<1>8. \A v \in Ops \ {n} : TaskOK(v)'
  BY <1>7, OthersKeep DEF NativeStates
<1>9. TaskOK(n)'
  BY <1>2 DEF TaskOK
<1>10. OwnerTasksOK'
  BY <1>8, <1>9 DEF OwnerTasksOK
<1> QED BY <1>1, <1>2, <1>3, <1>4, <1>5, <1>6, <1>10

(* An admission that only adds a task.                                     *)
LEMMA PlainAdmit ==
  ASSUME NativeInv, CanAdmit, NEW kind \in NoKinds \ {"none"}, NEW g \in NoIds, NEW n \in Ops,
         n = NextOp, ntask' = Admitted(kind, g)
  PROVE  /\ ntask' \in [Ops -> NativeTasks]
         /\ ntask'[n] = NewTask(kind, g)
         /\ \A v \in Ops \ {n} : ntask'[v] = ntask[v] /\ SameTask(v)
<1> DEFINE u == [NoTask EXCEPT !.kind = kind, !.gen = g, !.pc = "queued"]
<1>1. u \in NativeTasks
  BY OwnerFacts DEF NativeTasks, NoPlaces
<1>2. ntask' = [ntask EXCEPT ![n] = u] /\ ntask \in [Ops -> NativeTasks]
  BY DEF Admitted, NativeInv, NativeType
<1> HIDE DEF u
<1>3. ntask' \in [Ops -> NativeTasks] /\ ntask'[n] = u /\ \A v \in Ops \ {n} : ntask'[v] = ntask[v]
  BY <1>1, <1>2
<1> QED BY <1>3 DEF SameTask, u, NewTask

LEMMA NoConnectKeeps ==
  ASSUME NativeInv, NoConnect
  PROVE  NativeInv'
<1> DEFINE n == NextOp
<1>1. /\ CanAdmit /\ nst.err # "uncertain" /\ ~nst.conn /\ nst.cool = 0 /\ nst.pend = 0
      /\ nst' = [nst EXCEPT !.gen = n, !.pend = n, !.err = "none", !.img = 0, !.last = 0]
      /\ ntask' = Admitted("connect", n) /\ UNCHANGED <<neng, nses, ncall>>
  BY DEF NoConnect
<1>2. n \in Ops /\ n \in NoIds /\ n = NextOp
  BY <1>1, NextIs, OwnerFacts
<1> HIDE DEF n
<1>3. /\ nst' \in NativeStates /\ nst'.gen = n /\ nst'.pend = n /\ nst'.err = "none"
      /\ nst'.img = 0 /\ ~nst'.conn /\ nst'.cool = 0
  BY <1>1, <1>2, OwnerFacts DEF NativeInv, NativeType, NativeStates
<1> DEFINE k == "connect"
<1>5. n <= n /\ k \in NoKinds \ {"none"} /\ k \in {"connect", "close"} /\ ntask' = Admitted(k, n)
  <2>1. n <= n
    BY <1>2, OwnerFacts
  <2> QED BY <1>1, <2>1 DEF NoKinds
<1>10. k = "connect"
  OBVIOUS
<1> HIDE DEF k
<1>4. /\ ntask' \in [Ops -> NativeTasks]
      /\ ntask'[n] = NewTask(k, n)
      /\ \A v \in Ops \ {n} : ntask'[v] = ntask[v] /\ SameTask(v)
  BY <1>1, <1>2, <1>5, PlainAdmit
<1>6. /\ NativeType' /\ (\E i \in NoIds : NoFirst(i)') /\ OwnerTasksOK'
      /\ ntask'[n].kind = k /\ ntask'[n].gen = n /\ ntask'[n].pc = "queued"
      /\ n # 0 /\ n \notin {nst.gen, nst.pend, nst.cool, nst.img, neng, ncall.waits}
      /\ n \notin ncall.told
  BY <1>1, <1>2, <1>3, <1>4, <1>5, AdmitKeeps
<1>7. MarkersOK'
  BY <1>3, <1>6, <1>10 DEF MarkersOK, Alive
<1>8. ImageOK'
  BY <1>1, <1>3, <1>4, <1>6, <1>10, InUse DEF NativeInv, NativeType, ImageOK
<1>9. WorkerOK'
  BY <1>1, <1>3, <1>4, <1>6, <1>10, InUse DEF WorkerOK
<1> QED BY <1>6, <1>7, <1>8, <1>9 DEF NativeInv

(* A task is admitted in the generation that is connected.                 *)
LEMMA NextAdmitKeeps ==
  ASSUME NativeInv, CanAdmit, nst.conn, nst.cool = 0, nst.err # "uncertain",
         NEW kind \in {"capture", "set", "prepare", "refresh", "cool"},
         ntask' = Admitted(kind, nst.gen), UNCHANGED <<neng, nses, ncall>>,
         nst' \in NativeStates, nst'.gen = nst.gen, nst'.conn,
         IF kind = "cool"
         THEN /\ nst'.cool = NextOp /\ nst'.pend = nst.pend /\ nst'.img = nst.img
              /\ nst'.last = nst.last /\ nst'.err = nst.err
              /\ nst.pend # 0 => ntask[nst.pend].kind = "capture"
         ELSE nst'.pend = NextOp /\ nst'.cool = 0 /\ nst'.err # "uncertain",
         kind = "capture" => nst'.img = 0 /\ nst'.last = NextOp,
         kind # "capture" => nst'.img = nst.img /\ nst'.last = nst.last
  PROVE  NativeInv'
<1> DEFINE n == NextOp
<1>1. n \in Ops /\ n = NextOp
  BY NextIs
<1> HIDE DEF n
<1>2. /\ nst.gen \in NoIds /\ nst.gen <= nst.gen /\ kind \in NoKinds \ {"none"}
  <2>1. nst.gen \in NoIds /\ nst.gen \in Nat
    BY OwnerFacts DEF NativeInv, NativeType, NativeStates
  <2>2. nst.gen <= nst.gen
    BY <2>1
  <2>3. kind \in NoKinds \ {"none"}
    BY DEF NoKinds
  <2> QED BY <2>1, <2>2, <2>3
<1>3. /\ ntask' \in [Ops -> NativeTasks]
      /\ ntask'[n] = NewTask(kind, nst.gen)
      /\ \A v \in Ops \ {n} : ntask'[v] = ntask[v] /\ SameTask(v)
  BY <1>1, <1>2, PlainAdmit
<1>4. /\ NativeType' /\ (\E i \in NoIds : NoFirst(i)') /\ OwnerTasksOK'
      /\ ntask'[n].kind = kind /\ ntask'[n].gen = nst.gen /\ ntask'[n].pc = "queued"
      /\ n # 0 /\ n \notin {nst.gen, nst.pend, nst.cool, nst.img, neng, ncall.waits}
      /\ n \notin ncall.told
  BY <1>1, <1>2, <1>3, AdmitKeeps
<1>5. /\ nst.gen # 0 /\ ntask[nst.gen].kind = "connect" /\ nst.gen \in Ops
      /\ ntask'[nst.gen] = ntask[nst.gen]
  BY <1>3, <1>4, InUse DEF NativeInv, MarkersOK
<1>6. MarkersOK'
  <2>1. /\ nst'.pend # 0 => ntask'[nst'.pend].pc \notin {"unused", "over"} /\ ntask'[nst'.pend].gen = nst.gen
                            /\ ntask'[nst'.pend].kind # "cool"
        /\ nst'.cool # 0 => ntask'[nst'.cool].pc \notin {"unused", "over"} /\ ntask'[nst'.cool].gen = nst.gen
                            /\ ntask'[nst'.cool].kind = "cool"
        /\ nst'.pend # 0 /\ ntask'[nst'.pend].kind # "capture" =>
             nst'.cool = 0 /\ nst'.err # "uncertain"
    BY <1>1, <1>3, <1>4, InUse DEF NativeInv, MarkersOK, Alive
  <2>2. ntask[nst.gen].pc # "unused"
    BY <1>5, InUse
  <2> QED BY <1>3, <1>5, <2>1, <2>2 DEF MarkersOK, Alive
<1>7. ImageOK'
  <2>1. /\ nst'.pend # 0 /\ ntask'[nst'.pend].kind = "capture" =>
             nst'.last = nst'.pend /\ nst'.img = 0
    BY <1>1, <1>3, <1>4, InUse DEF NativeInv, ImageOK
  <2>2. nst'.img # 0 =>
          /\ nst'.img = nst'.last /\ ntask'[nst'.img].gen = nst'.gen
          /\ ntask'[nst'.img].pc = "over" /\ ~ntask'[nst'.img].cancelled
    BY <1>3, <1>4, InUse DEF NativeInv, ImageOK
  <2>3. /\ ncall'.waits # 0 => ntask'[ncall'.waits].cancelled
        /\ \A t \in ncall'.told : ntask'[t].cancelled
    BY <1>3, <1>4, InUse DEF NativeInv, NativeType, ImageOK
  <2> QED BY <2>1, <2>2, <2>3 DEF ImageOK
<1>8. WorkerOK'
  BY <1>3, <1>4, <1>5, InUse DEF NativeInv, WorkerOK
<1> QED BY <1>4, <1>6, <1>7, <1>8 DEF NativeInv

LEMMA NoStartKeeps ==
  ASSUME NativeInv, NoStart
  PROVE  NativeInv'
<1> DEFINE n == NextOp
<1>1. /\ CanAdmit /\ Unblocked /\ ntask' = Admitted("capture", nst.gen)
      /\ nst' = [nst EXCEPT !.pend = n, !.img = 0, !.last = n, !.err = "none"]
      /\ UNCHANGED <<neng, nses, ncall>>
  BY DEF NoStart
<1>2. n \in NoIds /\ n = NextOp
  BY <1>1, NextIs, OwnerFacts
<1> HIDE DEF n
<1>3. /\ nst' \in NativeStates /\ nst'.gen = nst.gen /\ nst'.pend = n /\ nst'.err = "none"
      /\ nst'.img = 0 /\ nst'.conn = nst.conn /\ nst'.cool = nst.cool /\ nst'.last = n
  BY <1>1, <1>2, OwnerFacts DEF NativeInv, NativeType, NativeStates
<1> QED BY <1>1, <1>2, <1>3, NextAdmitKeeps DEF Unblocked

LEMMA NoControlKeeps ==
  ASSUME NativeInv, NoControl
  PROVE  NativeInv'
<1> DEFINE n == NextOp
<1>1. PICK kind \in {"set", "prepare", "refresh"} :
        nst' = [nst EXCEPT !.pend = n] /\ ntask' = Admitted(kind, nst.gen)
  BY DEF NoControl
<1>2. CanAdmit /\ Unblocked /\ UNCHANGED <<neng, nses, ncall>>
  BY DEF NoControl
<1>3. n \in NoIds /\ n = NextOp
  BY <1>2, NextIs, OwnerFacts
<1> HIDE DEF n
<1>4. /\ nst' \in NativeStates /\ nst'.gen = nst.gen /\ nst'.pend = n /\ nst'.err = nst.err
      /\ nst'.img = nst.img /\ nst'.conn = nst.conn /\ nst'.cool = nst.cool
      /\ nst'.last = nst.last
  BY <1>1, <1>3, OwnerFacts DEF NativeInv, NativeType, NativeStates
<1> QED BY <1>1, <1>2, <1>3, <1>4, NextAdmitKeeps DEF Unblocked

LEMMA NoSetCoolingKeeps ==
  ASSUME NativeInv, NoSetCooling
  PROVE  NativeInv'
<1> DEFINE n == NextOp
<1>1. /\ CanAdmit /\ nst.conn /\ nst.err # "uncertain" /\ CoolingAdmissible
      /\ nst' = [nst EXCEPT !.cool = n] /\ ntask' = Admitted("cool", nst.gen)
      /\ UNCHANGED <<neng, nses, ncall>>
  BY DEF NoSetCooling
<1>2. n \in NoIds /\ n = NextOp
  BY <1>1, NextIs, OwnerFacts
<1> HIDE DEF n
<1>3. /\ nst' \in NativeStates /\ nst'.gen = nst.gen /\ nst'.pend = nst.pend
      /\ nst'.err = nst.err /\ nst'.img = nst.img /\ nst'.conn = nst.conn /\ nst'.cool = n
      /\ nst'.last = nst.last
  BY <1>1, <1>2, OwnerFacts DEF NativeInv, NativeType, NativeStates
<1> QED BY <1>1, <1>2, <1>3, NextAdmitKeeps DEF CoolingAdmissible

(* The tasks go on as they were, some of them cancelled.                   *)
LEMMA SameKeeps ==
  ASSUME NativeInv, ntask' \in [Ops -> NativeTasks], \A v \in Ops : SameTask(v),
         \A v \in Ops : ntask[v].pc = "unused" => ntask'[v] = ntask[v],
         \A v \in Ops : ntask[v].cancelled => ntask'[v].cancelled,
         nst.img # 0 => ~ntask'[nst.img].cancelled,
         UNCHANGED <<nst, neng, nses>>, ncall' \in [waits : NoIds, told : SUBSET Ops, lost : BOOLEAN],
         ncall.lost => ncall'.lost,
         ncall'.waits # 0 => ntask'[ncall'.waits].cancelled,
         \A t \in ncall'.told : ntask'[t].cancelled
  PROVE  NativeInv'
<1>1. NativeType'
  BY DEF NativeInv, NativeType
<1>2. \E n \in NoIds : NoFirst(n)'
  BY FirstKeeps DEF SameTask
<1>3. OwnerTasksOK'
  BY DEF NativeInv, OwnerTasksOK, TaskOK, SameTask
<1>4. MarkersOK'
  BY InUse DEF NativeInv, MarkersOK, SameTask, Alive
<1>5. ImageOK'
  BY InUse DEF NativeInv, ImageOK, SameTask
<1>6. WorkerOK'
  BY InUse DEF NativeInv, WorkerOK, SameTask
<1> QED BY <1>1, <1>2, <1>3, <1>4, <1>5, <1>6 DEF NativeInv

LEMMA NoAbortKeeps ==
  ASSUME NativeInv, NoAbort
  PROVE  NativeInv'
<1> DEFINE p == nst.pend
           u == [ntask[p] EXCEPT !.aborting = TRUE, !.cancelled = TRUE]
<1>1. /\ p \in Ops /\ p # nst.img /\ ntask[p].pc \notin {"unused", "over"}
  BY InUse DEF NoAbort
<1>2. ntask \in [Ops -> NativeTasks] /\ ntask[p] \in NativeTasks
  BY <1>1 DEF NativeInv, NativeType
<1>3. /\ u \in NativeTasks /\ u.kind = ntask[p].kind /\ u.gen = ntask[p].gen
      /\ u.pc = ntask[p].pc /\ u.got = ntask[p].got /\ u.cancelled
  BY <1>2 DEF NativeTasks
<1>4. ntask' = [ntask EXCEPT ![p] = u] /\ UNCHANGED <<nst, neng, nses>>
  BY <1>2 DEF NoAbort, NativeTasks
<1>5. ncall' = [ncall EXCEPT !.waits = p]
  BY DEF NoAbort
<1> HIDE DEF u, p
<1>6. /\ ntask' \in [Ops -> NativeTasks] /\ \A v \in Ops : SameTask(v)
      /\ \A v \in Ops \ {p} : ntask'[v] = ntask[v]
      /\ ntask'[p] = u
  BY <1>1, <1>2, <1>3, <1>4 DEF SameTask
<1>7. /\ ncall' \in [waits : NoIds, told : SUBSET Ops, lost : BOOLEAN]
      /\ ncall'.waits = p /\ ncall'.told = ncall.told /\ ncall'.lost = ncall.lost
  BY <1>1, <1>5, OwnerFacts DEF NativeInv, NativeType
<1>8. \A v \in Ops : ntask[v].cancelled => ntask'[v].cancelled
  BY <1>3, <1>6
<1>9. \A t \in ncall.told : t \in Ops /\ ntask[t].cancelled
  BY DEF NativeInv, NativeType, ImageOK
<1>10. nst.img # 0 => ~ntask'[nst.img].cancelled
  BY <1>1, <1>6, InUse DEF NativeInv, ImageOK
<1>11. \A v \in Ops : ntask[v].pc = "unused" => ntask'[v] = ntask[v]
  BY <1>1, <1>6
<1> QED BY <1>3, <1>4, <1>6, <1>7, <1>8, <1>9, <1>10, <1>11, SameKeeps

LEMMA NoAbortEndsKeeps ==
  ASSUME NativeInv, NoAbortEnds
  PROVE  NativeInv'
<1> USE DEF NativeInv
<1>1. UNCHANGED <<nst, ntask, neng, nses>> /\ ncall.waits # 0
  BY DEF NoAbortEnds
<1>2. ncall.waits \in Ops /\ ntask[ncall.waits].cancelled
  BY <1>1, InUse
<1>3. PICK told \in {ncall.told, ncall.told \cup {ncall.waits}} :
        ncall' = [ncall EXCEPT !.waits = 0, !.told = told]
  <2>1. CASE ncall' = [ncall EXCEPT !.waits = 0]
    BY <2>1 DEF NativeType
  <2>2. CASE ncall' # [ncall EXCEPT !.waits = 0]
    BY <2>2 DEF NoAbortEnds
  <2> QED BY <2>1, <2>2
<1>4. told \subseteq Ops /\ \A t \in told : ntask[t].cancelled
  BY <1>2, <1>3 DEF NativeType, ImageOK
<1>5. /\ ncall' \in [waits : NoIds, told : SUBSET Ops, lost : BOOLEAN]
      /\ ncall'.waits = 0 /\ ncall'.told = told /\ ncall'.lost = ncall.lost
  BY <1>3, <1>4, OwnerFacts DEF NativeType
<1>6. ntask' \in [Ops -> NativeTasks] /\ \A v \in Ops : SameTask(v) /\ ntask'[v] = ntask[v]
  BY <1>1 DEF NativeType, SameTask
<1>7. nst.img # 0 => ~ntask'[nst.img].cancelled
  BY <1>1 DEF ImageOK
<1> QED BY <1>1, <1>4, <1>5, <1>6, <1>7, SameKeeps

LEMMA NoRetireKeeps ==
  ASSUME NativeInv, NoRetire
  PROVE  NativeInv'
<1> DEFINE n == NextOp
           S == {nst.pend, nst.cool}
           c == Cancelled(S)
           k == "close"
<1>1. /\ CanAdmit
      /\ nst' = [gen |-> n, conn |-> FALSE, pend |-> n, cool |-> 0, img |-> 0, last |-> 0,
                 err |-> "none"]
      /\ ntask' = [c EXCEPT ![n] = NewTask(k, n)]
      /\ UNCHANGED <<neng, nses, ncall>>
  BY DEF NoRetire, NewTask
<1>2. n \in Ops /\ n \in NoIds /\ n = NextOp /\ n <= n
  <2>1. n \in Ops /\ n \in NoIds
    BY <1>1, NextIs, OwnerFacts
  <2> QED BY <2>1, OwnerFacts
<1>3. /\ c \in [Ops -> NativeTasks]
      /\ \A v \in Ops : /\ c[v].kind = ntask[v].kind /\ c[v].gen = ntask[v].gen
                        /\ c[v].pc = ntask[v].pc
                        /\ c[v].got = ntask[v].got /\ (v \notin S => c[v] = ntask[v])
                        /\ (ntask[v].cancelled => c[v].cancelled)
  BY CancelledIs DEF NativeInv
<1>4. \A v \in Ops : ntask[v].pc = "unused" => v \notin S
  BY InUse, OwnerFacts
<1>5. k = "close" /\ k \in NoKinds \ {"none"} /\ k \in {"connect", "close"}
  BY DEF NoKinds
<1> HIDE DEF n, c, k, S
<1>6. /\ nst' \in NativeStates /\ nst'.gen = n /\ nst'.pend = n /\ nst'.err = "none"
      /\ nst'.img = 0 /\ ~nst'.conn /\ nst'.cool = 0
  BY <1>1, <1>2, OwnerFacts DEF NativeStates
<1>7. NewTask(k, n) \in NativeTasks
  BY <1>2, <1>5, OwnerFacts DEF NewTask, NativeTasks, NoPlaces
<1>8. /\ ntask' \in [Ops -> NativeTasks] /\ ntask'[n] = NewTask(k, n)
      /\ \A v \in Ops \ {n} : /\ SameTask(v) /\ (ntask[v].pc = "unused" => ntask'[v] = ntask[v])
                              /\ (ntask[v].cancelled => ntask'[v].cancelled)
  BY <1>1, <1>2, <1>3, <1>4, <1>7 DEF SameTask
<1>9. /\ NativeType' /\ (\E i \in NoIds : NoFirst(i)') /\ OwnerTasksOK'
      /\ ntask'[n].kind = k /\ ntask'[n].gen = n /\ ntask'[n].pc = "queued"
      /\ n # 0 /\ n \notin {nst.gen, nst.pend, nst.cool, nst.img, neng, ncall.waits}
      /\ n \notin ncall.told
  <2>1. \A v \in Ops \ {n} : SameTask(v) /\ (ntask[v].pc = "unused" => ntask'[v] = ntask[v])
    BY <1>8
  <2>2. n <= nst'.gen /\ nst'.gen \in {nst.gen, n}
    BY <1>2, <1>6
  <2>3. CanAdmit /\ neng' = neng /\ nses' = nses /\ ncall' = ncall
    BY <1>1
  <2> QED BY <1>2, <1>5, <1>6, <1>8, <2>1, <2>2, <2>3, AdmitKeeps
<1>10. MarkersOK'
  BY <1>5, <1>6, <1>9 DEF MarkersOK, Alive
<1>11. ImageOK'
  <2>1. /\ ncall'.waits # 0 => ntask'[ncall'.waits].cancelled
        /\ \A t \in ncall'.told : ntask'[t].cancelled
    BY <1>1, <1>8, <1>9, InUse DEF NativeInv, NativeType, ImageOK
  <2> QED BY <1>5, <1>6, <1>9, <2>1 DEF ImageOK
<1>12. WorkerOK'
  BY <1>1, <1>6, <1>8, <1>9, InUse DEF WorkerOK, SameTask
<1> QED BY <1>9, <1>10, <1>11, <1>12 DEF NativeInv

(* A task takes a step.                                                    *)
LEMMA TaskStepKeeps ==
  ASSUME NativeInv, NEW t \in Ops, ntask[t].pc # "unused", ntask'[t].pc # "unused",
         ntask' \in [Ops -> NativeTasks],
         ntask'[t].kind = ntask[t].kind, ntask'[t].gen = ntask[t].gen,
         \A v \in Ops \ {t} : SameTask(v) /\ (ntask[v].pc = "unused" => ntask'[v] = ntask[v]),
         nst' \in NativeStates, nst'.gen = nst.gen,
         neng' = neng \/ neng' \in {0, t}, neng' # neng => neng \in {0, t},
         nses' = nses \/ neng = t, nses' \in [open : BOOLEAN, by : NoIds],
         ncall' \in [waits : NoIds, told : SUBSET Ops, lost : BOOLEAN],
         TaskOK(t)'
  PROVE  /\ NativeType' /\ (\E i \in NoIds : NoFirst(i)') /\ OwnerTasksOK'
         /\ \A v \in Ops : ntask'[v].kind = ntask[v].kind /\ ntask'[v].gen = ntask[v].gen
<1>1. NativeType'
  BY OwnerFacts DEF NativeInv, NativeType
<1>2. \E i \in NoIds : NoFirst(i)'
  BY FirstKeeps DEF SameTask
<1>3. nst.gen <= nst'.gen /\ nst'.gen \in NoIds
  <2>1. nst.gen \in Nat /\ nst.gen \in NoIds
    BY OwnerFacts DEF NativeInv, NativeType, NativeStates
  <2> QED BY <2>1
<1>4. \A v \in Ops \ {t} : TaskOK(v)'
  <2>1. \A v \in Ops \ {t} : SameTask(v)
    OBVIOUS
  <2>2. neng' = neng \/ neng \in {0, t}
    OBVIOUS
  <2> QED BY <1>3, <2>1, <2>2, OthersKeep
<1>5. \A v \in Ops : ntask'[v].kind = ntask[v].kind /\ ntask'[v].gen = ntask[v].gen
  BY DEF SameTask
<1> QED BY <1>1, <1>2, <1>4, <1>5 DEF OwnerTasksOK

(* A task takes a step that State does not see.                            *)
LEMMA QuietStepKeeps ==
  ASSUME NativeInv, NEW t \in Ops, ntask[t].pc \notin {"unused", "over"},
         ntask'[t].pc # "unused", ntask' \in [Ops -> NativeTasks],
         ntask'[t].kind = ntask[t].kind, ntask'[t].gen = ntask[t].gen,
         ntask'[t].cancelled = ntask[t].cancelled,
         \A v \in Ops \ {t} : ntask'[v] = ntask[v] /\ SameTask(v),
         t \in {nst.pend, nst.cool} => ntask'[t].pc # "over",
         UNCHANGED <<nst, ncall>>,
         neng' = neng \/ neng' \in {0, t}, neng' # neng => neng \in {0, t},
         nses' = nses \/ neng = t, nses' \in [open : BOOLEAN, by : NoIds],
         TaskOK(t)', WorkerOK'
  PROVE  NativeInv'
<1>1. nst' \in NativeStates /\ ncall' \in [waits : NoIds, told : SUBSET Ops, lost : BOOLEAN]
  BY DEF NativeInv, NativeType
<1>2. \A v \in Ops \ {t} : SameTask(v) /\ (ntask[v].pc = "unused" => ntask'[v] = ntask[v])
  OBVIOUS
<1>3. /\ NativeType' /\ (\E i \in NoIds : NoFirst(i)') /\ OwnerTasksOK'
      /\ \A v \in Ops : ntask'[v].kind = ntask[v].kind /\ ntask'[v].gen = ntask[v].gen
  BY <1>1, <1>2, TaskStepKeeps
<1>4. MarkersOK'
  BY <1>3, InUse DEF NativeInv, MarkersOK, Alive, SameTask
<1>5. ImageOK'
  <2>1. nst.img # t
    BY InUse, OwnerFacts
  <2>2. \A v \in Ops : ntask'[v].cancelled = ntask[v].cancelled
    OBVIOUS
  <2>3. /\ ncall.waits # 0 => ntask'[ncall.waits].cancelled
        /\ \A v \in ncall.told : ntask'[v].cancelled
    BY <2>2, InUse DEF NativeInv, NativeType, ImageOK
  <2>4. nst.img # 0 => ntask'[nst.img] = ntask[nst.img]
    BY <2>1, InUse
  <2> QED BY <1>3, <2>3, <2>4, InUse DEF NativeInv, ImageOK
<1> QED BY <1>3, <1>4, <1>5 DEF NativeInv

(* No task of a generation that is connected keeps the session of another. *)
LEMMA NoLocksKeeps ==
  ASSUME NativeInv, NEW t \in Ops, NoLocks(t)
  PROVE  NativeInv'
<1> USE DEF NativeInv
<1>1. /\ ntask[t].pc = "queued" /\ neng = 0 /\ UNCHANGED <<nst, nses, ncall>>
  BY DEF NoLocks
<1>2. /\ TaskOK(t) /\ t # 0 /\ nses' \in [open : BOOLEAN, by : NoIds]
  BY <1>1, OwnerFacts DEF OwnerTasksOK, NativeType
<1>3. CASE /\ neng' = t /\ (IsCurrent(t) \/ (IsCurrentCooling(t) /\ ntask[t].kind = "cool"))
           /\ \E p \in {"closing", "working"} :
                ntask' = Step(t, p) /\ (p = "closing" <=> ntask[t].kind = "connect")
  <2>1. PICK p \in {"closing", "working"} :
          ntask' = Step(t, p) /\ (p = "closing" <=> ntask[t].kind = "connect")
    BY <1>3
  <2>2. ntask' = [ntask EXCEPT ![t].pc = p] /\ p \in NoPlaces
    BY <2>1 DEF Step, NoPlaces
  <2>3. /\ ntask' \in [Ops -> NativeTasks] /\ ntask'[t].pc = p
        /\ ntask'[t].kind = ntask[t].kind /\ ntask'[t].gen = ntask[t].gen
        /\ ntask'[t].got = ntask[t].got /\ ntask'[t].cancelled = ntask[t].cancelled
        /\ \A v \in Ops \ {t} : ntask'[v] = ntask[v] /\ SameTask(v)
    BY <2>2, StepIs
  <2>4. TaskOK(t)'
    BY <1>1, <1>2, <1>3, <2>1, <2>3 DEF TaskOK
  <2>5. ntask[t].gen = nst.gen /\ (t = nst.pend \/ t = nst.cool)
    BY <1>3 DEF IsCurrent, IsCurrentCooling
  <2>6. WorkerOK'
    <3>1. nst.gen # 0 => ntask'[nst.gen].kind = ntask[nst.gen].kind
      BY <2>3, InUse
    <3>2. /\ neng' # 0 => ntask'[neng'].pc # "unused"
          /\ nst'.conn /\ neng' # 0 => ntask'[neng'].gen = nst'.gen
          /\ nst'.conn /\ nses'.open => nses'.by = nst'.gen
      BY <1>1, <1>3, <2>1, <2>3, <2>5 DEF WorkerOK
    <3>3. ASSUME nst.gen # 0, ntask[nst.gen].kind = "close",
                 ntask'[nst.gen].pc \in {"publish", "over"}
          PROVE  FALSE
      <4>1. t # nst.gen /\ ntask[nst.gen].pc \in {"publish", "over"}
        BY <2>1, <2>3, <3>3, InUse
      <4>2. nst.cool = 0 /\ nst.pend \in {0, nst.gen}
        BY <3>3 DEF MarkersOK
      <4> QED BY <1>2, <2>5, <4>1, <4>2
    <3> QED BY <1>1, <3>1, <3>2, <3>3 DEF WorkerOK
  <2> QED BY <1>1, <1>2, <1>3, <2>1, <2>3, <2>4, <2>6, QuietStepKeeps
<1>4. CASE /\ ~IsCurrent(t) /\ ntask[t].kind # "cool" /\ ntask' = Step(t, "over") /\ neng' = 0
  <2>1. ntask' = [ntask EXCEPT ![t].pc = "over"] /\ "over" \in NoPlaces
    BY <1>4 DEF Step, NoPlaces
  <2>2. /\ ntask' \in [Ops -> NativeTasks] /\ ntask'[t].pc = "over"
        /\ ntask'[t].kind = ntask[t].kind /\ ntask'[t].gen = ntask[t].gen
        /\ ntask'[t].got = ntask[t].got /\ ntask'[t].cancelled = ntask[t].cancelled
        /\ \A v \in Ops \ {t} : ntask'[v] = ntask[v] /\ SameTask(v)
    BY <2>1, StepIs
  <2>3. TaskOK(t)'
    BY <1>1, <1>2, <2>2 DEF TaskOK
  <2>4. t # nst.pend /\ t # nst.cool
    BY <1>2, <1>4 DEF MarkersOK, IsCurrent
  <2>5. WorkerOK'
    <3>1. nst.gen # 0 /\ ntask[nst.gen].kind = "close" => t # nst.gen
      BY <1>1, <2>4 DEF MarkersOK
    <3> QED BY <1>1, <1>4, <2>2, <3>1, InUse DEF WorkerOK
  <2> QED BY <1>1, <1>2, <1>4, <2>2, <2>3, <2>4, <2>5, QuietStepKeeps
<1>5. CASE /\ ntask[t].kind = "cool" /\ neng' = 0
           /\ ntask' = [ntask EXCEPT ![t].pc = "publish", ![t].got = "withdrawn"]
  <2> DEFINE p == "publish"  g == "withdrawn"
  <2>1. ntask' = [ntask EXCEPT ![t].pc = p, ![t].got = g] /\ p \in NoPlaces /\ g \in NoResults
    BY <1>5 DEF NoPlaces, NoResults
  <2>2. p = "publish"
    OBVIOUS
  <2> HIDE DEF p, g
  <2>3. /\ ntask' \in [Ops -> NativeTasks] /\ ntask'[t].pc = p
        /\ ntask'[t].kind = ntask[t].kind /\ ntask'[t].gen = ntask[t].gen
        /\ ntask'[t].got = g /\ ntask'[t].cancelled = ntask[t].cancelled
        /\ \A v \in Ops \ {t} : ntask'[v] = ntask[v] /\ SameTask(v)
    BY <2>1, ResultIs
  <2>4. TaskOK(t)'
    BY <1>1, <1>2, <1>5, <2>2, <2>3 DEF TaskOK
  <2>5. WorkerOK'
    BY <1>1, <1>5, <2>3, InUse DEF WorkerOK
  <2> QED BY <1>1, <1>2, <1>5, <2>2, <2>3, <2>4, <2>5, QuietStepKeeps
<1>6. CASE IsCurrent(t)
  <2>1. neng' = t /\ ntask' = Step(t, IF ntask[t].kind = "connect" THEN "closing" ELSE "working")
    BY <1>6 DEF NoLocks
  <2>2. CASE ntask[t].kind = "connect"
    <3>1. ntask' = Step(t, "closing")
      BY <2>1, <2>2
    <3> QED BY <1>3, <1>6, <2>1, <2>2, <3>1
  <2>3. CASE ntask[t].kind # "connect"
    <3>1. ntask' = Step(t, "working")
      BY <2>1, <2>3
    <3> QED BY <1>3, <1>6, <2>1, <2>3, <3>1
  <2> QED BY <2>2, <2>3
<1>7. CASE ~IsCurrent(t)
  <2>1. \/ neng' = t /\ ntask' = Step(t, "working") /\ ntask[t].kind = "cool" /\ IsCurrentCooling(t)
        \/ /\ ntask[t].kind = "cool" /\ neng' = 0
           /\ ntask' = [ntask EXCEPT ![t].pc = "publish", ![t].got = "withdrawn"]
        \/ ntask[t].kind # "cool" /\ ntask' = Step(t, "over") /\ neng' = 0
    BY <1>7 DEF NoLocks
  <2> QED BY <1>3, <1>4, <1>5, <1>7, <2>1
<1> QED BY <1>6, <1>7

(* A setting or a cooler command ends without the engine.                  *)
LEMMA EndsAloneKeeps ==
  ASSUME NativeInv, NEW t \in Ops, ntask[t].pc = "queued", ntask[t].kind \in {"set", "cool"},
         NEW g \in NoResults,
         \/ ntask' = [ntask EXCEPT ![t].pc = "publish", ![t].got = g]
         \/ ntask' = [ntask EXCEPT ![t].got = g, ![t].pc = "publish"],
         UNCHANGED <<nst, neng, nses, ncall>>
  PROVE  NativeInv'
<1> USE DEF NativeInv
<1> DEFINE p == "publish"
<1>1. /\ p \in NoPlaces /\ p = "publish"
      /\ \/ ntask' = [ntask EXCEPT ![t].pc = p, ![t].got = g]
         \/ ntask' = [ntask EXCEPT ![t].got = g, ![t].pc = p]
  BY DEF NoPlaces
<1> HIDE DEF p
<1>2. /\ ntask' \in [Ops -> NativeTasks] /\ ntask'[t].pc = p
      /\ ntask'[t].kind = ntask[t].kind /\ ntask'[t].gen = ntask[t].gen
      /\ ntask'[t].got = g /\ ntask'[t].cancelled = ntask[t].cancelled
      /\ \A v \in Ops \ {t} : ntask'[v] = ntask[v] /\ SameTask(v)
  BY <1>1, ResultIs
<1>3. TaskOK(t) /\ nses' \in [open : BOOLEAN, by : NoIds]
  BY DEF OwnerTasksOK, NativeType
<1>4. TaskOK(t)'
  BY <1>1, <1>2, <1>3 DEF TaskOK
<1>5. WorkerOK'
  BY <1>1, <1>2, InUse DEF WorkerOK
<1> QED BY <1>1, <1>2, <1>3, <1>4, <1>5, QuietStepKeeps

LEMMA NoNotDispatchedKeeps ==
  ASSUME NativeInv, NEW t \in Ops, NoNotDispatched(t) \/ NoServedByCapture(t)
  PROVE  NativeInv'
<1>1. CASE NoNotDispatched(t)
  <2>1. "withdrawn" \in NoResults
    BY DEF NoResults
  <2> QED BY <1>1, <2>1, EndsAloneKeeps DEF NoNotDispatched
<1>2. CASE NoServedByCapture(t)
  <2>1. PICK g \in {"ok", "failed", "uncertain"} :
          ntask' = [ntask EXCEPT ![t].got = g, ![t].pc = "publish"]
    BY <1>2 DEF NoServedByCapture
  <2>2. g \in NoResults
    BY DEF NoResults
  <2> QED BY <1>2, <2>1, <2>2, EndsAloneKeeps DEF NoServedByCapture
<1> QED BY <1>1, <1>2

(* A step of the task that has the engine, after which it still is not     *)
(* over or was not current.                                                *)
LEMMA EngineStepKeeps ==
  ASSUME NativeInv, NEW t \in Ops, neng = t, ntask[t].pc \in {"closing", "check"},
         NEW p \in {"working", "publish", "over"},
         ntask[t].pc = "closing" => p # "publish",
         ntask[t].pc = "check" => p # "working",
         IF IsCurrent(t) THEN p # "over" ELSE p = "over",
         ntask' = Step(t, p), UNCHANGED <<nst, ncall>>,
         neng' = IF p = "over" THEN 0 ELSE t,
         nses' = nses \/ nses' = [open |-> FALSE, by |-> 0],
         p = "working" => ~nses'.open
  PROVE  NativeInv'
<1> USE DEF NativeInv
<1>1. ntask' = [ntask EXCEPT ![t].pc = p] /\ p \in NoPlaces
  BY DEF Step, NoPlaces
<1>2. /\ ntask' \in [Ops -> NativeTasks] /\ ntask'[t].pc = p
      /\ ntask'[t].kind = ntask[t].kind /\ ntask'[t].gen = ntask[t].gen
      /\ ntask'[t].got = ntask[t].got /\ ntask'[t].cancelled = ntask[t].cancelled
      /\ \A v \in Ops \ {t} : ntask'[v] = ntask[v] /\ SameTask(v)
  BY <1>1, StepIs
<1>3. /\ TaskOK(t) /\ nses' \in [open : BOOLEAN, by : NoIds] /\ t # 0
      /\ nses'.open => nses' = nses
  <2>1. CASE nses' = nses
    BY <2>1, OwnerFacts DEF OwnerTasksOK, NativeType
  <2>2. CASE nses' = [open |-> FALSE, by |-> 0]
    BY <2>2, OwnerFacts DEF OwnerTasksOK
  <2> QED BY <2>1, <2>2
<1>4. ntask[t].kind \in {"connect", "capture"}
  BY <1>3 DEF TaskOK
<1>5. TaskOK(t)'
  BY <1>2, <1>3, <1>4 DEF TaskOK
<1>6. t \in {nst.pend, nst.cool} => p # "over"
  BY <1>3, <1>4 DEF MarkersOK, IsCurrent
<1>7. WorkerOK'
  BY <1>2, <1>3, <1>4, InUse DEF WorkerOK
<1> QED BY <1>2, <1>3, <1>5, <1>6, <1>7, QuietStepKeeps

LEMMA NoClosesKeeps ==
  ASSUME NativeInv, NEW t \in Ops, NoCloses(t) \/ NoChecks(t)
  PROVE  NativeInv'
<1>1. CASE NoCloses(t)
  <2>1. CASE IsCurrent(t)
    BY <1>1, <2>1, EngineStepKeeps DEF NoCloses
  <2>2. CASE ~IsCurrent(t)
    BY <1>1, <2>2, EngineStepKeeps DEF NoCloses
  <2> QED BY <2>1, <2>2
<1>2. CASE NoChecks(t)
  <2>1. CASE IsCurrent(t)
    BY <1>2, <2>1, EngineStepKeeps DEF NoChecks, ClosesRetired
  <2>2. CASE ~IsCurrent(t)
    BY <1>2, <2>2, EngineStepKeeps DEF NoChecks, ClosesRetired
  <2> QED BY <2>1, <2>2
<1> QED BY <1>1, <1>2

(* The core session answers.                                               *)
LEMMA NoWorksKeeps ==
  ASSUME NativeInv, NEW t \in Ops, NoWorks(t)
  PROVE  NativeInv'
<1> USE DEF NativeInv
<1> DEFINE p == IF ntask[t].kind \in {"connect", "capture"} THEN "check" ELSE "publish"
<1>1. PICK got \in Answers(ntask[t].kind) :
        \E open \in KeepsWorker(ntask[t].kind, got) :
          /\ nses' = IF ~open THEN [open |-> FALSE, by |-> 0]
                     ELSE IF nses.open THEN nses
                     ELSE [open |-> TRUE, by |-> ntask[t].gen]
          /\ ntask' = [ntask EXCEPT ![t].got = got, ![t].pc = p]
  BY DEF NoWorks
<1>2. PICK open \in KeepsWorker(ntask[t].kind, got) :
          /\ nses' = IF ~open THEN [open |-> FALSE, by |-> 0]
                     ELSE IF nses.open THEN nses
                     ELSE [open |-> TRUE, by |-> ntask[t].gen]
          /\ ntask' = [ntask EXCEPT ![t].got = got, ![t].pc = p]
  BY <1>1
<1>3. /\ ntask[t].pc = "working" /\ neng = t /\ UNCHANGED <<nst, ncall>>
      /\ neng' = IF ntask[t].kind \in {"set", "cool"} THEN 0 ELSE neng
  BY DEF NoWorks
<1>4. /\ p \in NoPlaces /\ p \in {"check", "publish"}
      /\ p = "check" <=> ntask[t].kind \in {"connect", "capture"}
  BY DEF NoPlaces
<1> HIDE DEF p
<1>5. got \in NoResults /\ (ntask[t].kind = "capture" => got \in {"image", "failed", "uncertain"})
  BY <1>1 DEF Answers, NoResults
<1>6. ntask[t].kind = "close" => ~open
  BY <1>2 DEF KeepsWorker
<1>7. /\ ntask' \in [Ops -> NativeTasks] /\ ntask'[t].pc = p
      /\ ntask'[t].kind = ntask[t].kind /\ ntask'[t].gen = ntask[t].gen
      /\ ntask'[t].got = got /\ ntask'[t].cancelled = ntask[t].cancelled
      /\ \A v \in Ops \ {t} : ntask'[v] = ntask[v] /\ SameTask(v)
  BY <1>2, <1>4, <1>5, ResultIs
<1>8. TaskOK(t) /\ t # 0 /\ ntask[t].gen \in NoIds /\ nses \in [open : BOOLEAN, by : NoIds]
  BY OwnerFacts DEF OwnerTasksOK, NativeType, NativeTasks
<1>9. /\ nses' \in [open : BOOLEAN, by : NoIds]
      /\ nses'.open => nses' = nses \/ (~nses.open /\ nses'.by = ntask[t].gen)
      /\ ~open => ~nses'.open
  <2>1. CASE ~open
    BY <1>2, <2>1, OwnerFacts
  <2>2. CASE open /\ nses.open
    BY <1>2, <1>8, <2>2
  <2>3. CASE open /\ ~nses.open
    BY <1>2, <1>8, <2>3
  <2> QED BY <2>1, <2>2, <2>3
<1>10. TaskOK(t)'
  BY <1>3, <1>4, <1>5, <1>7, <1>8, <1>9 DEF TaskOK
<1>11. WorkerOK'
  <2>1. /\ neng' # 0 => ntask'[neng'].pc # "unused"
        /\ nst'.conn /\ neng' # 0 => ntask'[neng'].gen = nst'.gen
        /\ nst'.conn /\ nses'.open => nses'.by = nst'.gen
    BY <1>3, <1>4, <1>7, <1>8, <1>9 DEF WorkerOK
  <2>2. nst.gen = t /\ ntask[t].kind = "close" => ~nses'.open
    BY <1>6, <1>9
  <2>3. CASE nst.gen = t
    BY <1>3, <1>7, <2>1, <2>2, <2>3 DEF WorkerOK
  <2>4. CASE nst.gen # t
    <3>1. nst.gen # 0 => ntask'[nst.gen] = ntask[nst.gen]
      BY <1>7, <2>4, InUse
    <3> QED BY <1>3, <1>8, <2>1, <2>4, <3>1 DEF WorkerOK
  <2> QED BY <2>3, <2>4
<1>12. t \in {nst.pend, nst.cool} => ntask'[t].pc # "over"
  BY <1>4, <1>7
<1> QED BY <1>3, <1>4, <1>7, <1>9, <1>10, <1>11, <1>12, QuietStepKeeps

(* A task ends: whatever it was the marker of is settled with it.          *)
LEMMA TaskEndsKeeps ==
  ASSUME NativeInv, NEW t \in Ops, ntask[t].pc \notin {"unused", "over"},
         ntask' \in [Ops -> NativeTasks], ntask'[t].pc = "over",
         ntask'[t].kind = ntask[t].kind, ntask'[t].gen = ntask[t].gen,
         \A v \in Ops \ {t} : SameTask(v) /\ (v # nst.pend => ntask'[v] = ntask[v]),
         \A v \in Ops : ntask[v].cancelled => ntask'[v].cancelled,
         nst' \in NativeStates, nst'.gen = nst.gen, nst'.last = nst.last,
         \/ /\ t # nst.pend /\ t # nst.cool /\ nst'.pend = nst.pend /\ nst'.cool = nst.cool
            /\ nst'.img = nst.img /\ nst'.err = nst.err
         \/ t = nst.pend /\ nst'.pend = 0 /\ nst'.cool = nst.cool
         \/ t = nst.cool /\ nst'.cool = 0 /\ nst'.pend = nst.pend /\ nst'.img = nst.img,
         \/ nst'.img = nst.img
         \/ nst'.img = t /\ t = nst.last /\ ntask[t].gen = nst.gen /\ ~ntask'[t].cancelled,
         nst'.conn => nst.conn \/ (ntask[t].kind = "connect" /\ t = nst.gen /\ neng = t
                                   /\ ntask[t].pc = "publish"),
         neng' = neng \/ (neng = t /\ neng' = 0), nses' = nses,
         ncall' \in [waits : NoIds, told : SUBSET Ops, lost : BOOLEAN],
         ncall'.waits = ncall.waits, ncall'.told = ncall.told, ncall.lost => ncall'.lost,
         ncall'.lost \/ ntask[t].pc = "publish"
  PROVE  NativeInv'
<1> USE DEF NativeInv
<1>1. TaskOK(t) /\ t # 0
  BY OwnerFacts DEF OwnerTasksOK
<1>2. /\ nses' \in [open : BOOLEAN, by : NoIds]
      /\ neng' = neng \/ neng' \in {0, t}
      /\ neng' # neng => neng \in {0, t}
  BY DEF NativeType
<1>3. TaskOK(t)'
  <2>1. nst.gen = nst'.gen
    OBVIOUS
  <2> QED BY <1>1, <2>1 DEF TaskOK
<1>4. \A v \in Ops \ {t} : SameTask(v) /\ (ntask[v].pc = "unused" => ntask'[v] = ntask[v])
  BY InUse, OwnerFacts
<1>5. /\ NativeType' /\ (\E i \in NoIds : NoFirst(i)') /\ OwnerTasksOK'
      /\ \A v \in Ops : ntask'[v].kind = ntask[v].kind /\ ntask'[v].gen = ntask[v].gen
  BY <1>2, <1>3, <1>4, TaskStepKeeps
<1>6. \A v \in Ops \ {t} : ntask'[v].pc = ntask[v].pc
  BY DEF SameTask
<1>7. MarkersOK'
  <2>1. nst.gen # 0 => /\ ntask'[nst.gen].pc # "unused" /\ ntask'[nst.gen].kind = ntask[nst.gen].kind
                       /\ ntask[nst.gen].kind \in {"connect", "close"}
    BY <1>5, <1>6, InUse DEF MarkersOK
  <2>2. nst'.conn => nst.gen # 0 /\ ntask[nst.gen].kind = "connect"
    BY <1>1 DEF MarkersOK
  <2>3. nst'.pend # 0 => /\ nst'.pend = nst.pend /\ nst.pend \in Ops /\ nst.pend # t
                         /\ ntask'[nst.pend].pc = ntask[nst.pend].pc
    <3>1. nst.cool # nst.pend \/ nst.pend = 0
      BY DEF MarkersOK
    <3> QED BY <1>6, <3>1, InUse
  <2>4. nst'.cool # 0 => /\ nst'.cool = nst.cool /\ nst.cool \in Ops /\ nst.cool # t
                         /\ ntask'[nst.cool].pc = ntask[nst.cool].pc
    <3>1. nst.cool # nst.pend \/ nst.cool = 0
      BY DEF MarkersOK
    <3> QED BY <1>6, <3>1, InUse
  <2>5. nst'.pend # 0 /\ ntask[nst.pend].kind # "capture" =>
          nst'.cool = 0 /\ nst'.err # "uncertain"
    BY <1>1, <2>3 DEF MarkersOK
  <2>6. nst.gen # 0 /\ ntask[nst.gen].kind = "close" =>
          /\ nst'.cool = 0 /\ nst'.pend \in {0, nst.gen}
          /\ ntask'[nst.gen].pc # "over" => nst'.pend = nst.gen
    BY <1>1, <1>6, InUse DEF MarkersOK
  <2> QED BY <1>5, <2>1, <2>2, <2>3, <2>4, <2>5, <2>6 DEF MarkersOK, Alive
<1>8. ImageOK'
  <2>1. nst'.pend # 0 /\ ntask'[nst'.pend].kind = "capture" =>
          nst'.last = nst'.pend /\ nst'.img = 0
    BY <1>1, <1>5, InUse DEF ImageOK, MarkersOK
  <2>2. ASSUME nst'.img # 0
        PROVE  /\ nst'.img = nst'.last /\ ntask'[nst'.img].gen = nst'.gen
               /\ ntask'[nst'.img].pc = "over" /\ ~ntask'[nst'.img].cancelled
    <3>1. CASE nst'.img = nst.img
      <4>1. nst.img \in Ops /\ nst.img # t /\ nst.img # nst.pend
        BY <2>2, <3>1, InUse
      <4>2. ntask'[nst.img] = ntask[nst.img]
        BY <4>1
      <4> QED BY <2>2, <3>1, <4>2 DEF ImageOK
    <3>2. CASE nst'.img # nst.img
      BY <1>5, <3>2
    <3> QED BY <3>1, <3>2
  <2>3. /\ ncall.waits # 0 => ntask'[ncall.waits].cancelled
        /\ \A v \in ncall.told : ntask'[v].cancelled
    BY InUse DEF NativeType, ImageOK
  <2> QED BY <2>1, <2>2, <2>3 DEF ImageOK
<1>9. WorkerOK'
  <2>1. neng' # 0 => neng' = neng /\ neng \in Ops
    BY InUse
  <2>2. neng' # 0 => ntask'[neng'].pc # "unused"
    BY <1>6, <2>1, InUse
  <2>3. nst'.conn /\ neng' # 0 => ntask'[neng'].gen = nst'.gen
    BY <1>1, <1>5, <2>1 DEF WorkerOK, TaskOK
  <2>4. nst'.conn /\ nses.open => nses.by = nst.gen
    BY <1>1 DEF WorkerOK, TaskOK
  <2>5. ASSUME nst.gen # 0, ntask'[nst.gen].kind = "close",
               ntask'[nst.gen].pc \in {"publish", "over"}, ~ncall'.lost
        PROVE  ~nses.open /\ neng' \in {0, nst.gen}
    <3>1. ntask[nst.gen].kind = "close" /\ ntask[nst.gen].pc \in {"publish", "over"}
      BY <1>5, <1>6, <2>5, InUse
    <3> QED BY <2>5, <3>1 DEF WorkerOK
  <2> QED BY <2>2, <2>3, <2>4, <2>5 DEF WorkerOK
<1> QED BY <1>5, <1>7, <1>8, <1>9

(* A task ends, and the capture beside it may be cancelled.                *)
LEMMA CancelledEndIs ==
  ASSUME NativeType, NEW t \in Ops, NEW S, ntask' = [Cancelled(S) EXCEPT ![t].pc = "over"]
  PROVE  /\ ntask' \in [Ops -> NativeTasks] /\ ntask'[t].pc = "over"
         /\ ntask'[t].kind = ntask[t].kind /\ ntask'[t].gen = ntask[t].gen
         /\ \A v \in Ops \ {t} : SameTask(v) /\ (v \notin S => ntask'[v] = ntask[v])
         /\ \A v \in Ops : ntask[v].cancelled => ntask'[v].cancelled
<1> DEFINE f == Cancelled(S)
           u == [f[t] EXCEPT !.pc = "over"]
<1>1. /\ f \in [Ops -> NativeTasks]
      /\ \A v \in Ops : /\ f[v].kind = ntask[v].kind /\ f[v].gen = ntask[v].gen
                        /\ f[v].pc = ntask[v].pc /\ f[v].got = ntask[v].got
                        /\ (v \notin S => f[v] = ntask[v])
                        /\ (ntask[v].cancelled => f[v].cancelled)
  BY CancelledIs
<1>2. ntask' = [f EXCEPT ![t] = u]
  OBVIOUS
<1> HIDE DEF f
<1>3. /\ u \in NativeTasks /\ u.pc = "over" /\ u.kind = f[t].kind /\ u.gen = f[t].gen
      /\ u.cancelled = f[t].cancelled
  <2>1. f[t] \in NativeTasks
    BY <1>1
  <2> QED BY <2>1 DEF NativeTasks, NoPlaces
<1> HIDE DEF u
<1>4. /\ ntask' \in [Ops -> NativeTasks] /\ ntask'[t] = u
      /\ \A v \in Ops \ {t} : ntask'[v] = f[v]
  BY <1>1, <1>2, <1>3
<1> QED BY <1>1, <1>3, <1>4 DEF SameTask

(* What the end of a current operation writes into State.                  *)
LEMMA PublishedIs ==
  ASSUME NativeInv, NEW t \in Ops, ntask[t].pc = "publish", IsCurrent(t),
         NoPublishes(t)
  PROVE  /\ nst' \in NativeStates /\ nst'.gen = nst.gen /\ nst'.last = nst.last
         /\ nst'.pend = 0 /\ nst'.cool = nst.cool
         /\ \/ nst'.img = nst.img
            \/ nst'.img = t /\ ntask[t].kind = "capture" /\ ~ntask[t].cancelled
         /\ nst'.conn => nst.conn \/ ntask[t].kind = "connect"
         /\ nst.err = "uncertain" => nst'.err = "uncertain"
<1> USE DEF NativeInv
<1> DEFINE Good(s) ==
      /\ s \in NativeStates /\ s.gen = nst.gen /\ s.last = nst.last
      /\ s.pend = 0 /\ s.cool = nst.cool
      /\ s.img = nst.img \/ (s.img = t /\ ntask[t].kind = "capture" /\ ~ntask[t].cancelled)
      /\ s.conn => nst.conn \/ ntask[t].kind = "connect"
      /\ nst.err = "uncertain" => s.err = "uncertain"
<1>1. /\ nst \in NativeStates /\ t = nst.pend /\ t # 0 /\ 0 \in NoIds /\ t \in NoIds
      /\ ntask[t].kind # "cool" /\ TaskOK(t)
  BY OwnerFacts DEF NativeType, IsCurrent, OwnerTasksOK, NoPublishes
<1>2. ntask[t].kind # "capture" => nst.err # "uncertain"
  BY <1>1 DEF MarkersOK
<1>3. CASE ntask[t].kind = "connect"
  <2> DEFINE c == ntask[t].got = "ok"
             e == IF ntask[t].got = "ok" THEN "none" ELSE "failed"
  <2>1. nst' = [nst EXCEPT !.pend = 0, !.conn = c, !.err = e]
    BY <1>3 DEF NoPublishes
  <2>2. c \in BOOLEAN /\ e \in {"none", "failed"}
    OBVIOUS
  <2> HIDE DEF c, e
  <2>3. Good([nst EXCEPT !.pend = 0, !.conn = c, !.err = e])
    BY <1>1, <1>2, <1>3, <2>2 DEF NativeStates
  <2> QED BY <2>1, <2>3
<1>4. CASE ntask[t].kind = "capture"
  <2>1. nst' = CapturePublishes(t)
    BY <1>4 DEF NoPublishes
  <2>2. Good([nst EXCEPT !.pend = 0])
    BY <1>1 DEF NativeStates
  <2>3. ~ntask[t].cancelled => Good([nst EXCEPT !.pend = 0, !.img = t])
    BY <1>1, <1>4 DEF NativeStates
  <2>4. ASSUME ntask[t].got # "image", nst.err # "uncertain"
        PROVE  Good([nst EXCEPT !.pend = 0, !.err = ntask[t].got])
    <3>1. ntask[t].got \in {"failed", "uncertain"}
      BY <1>1, <1>4, <2>4 DEF TaskOK
    <3> QED BY <1>1, <2>4, <3>1 DEF NativeStates
  <2>5. CASE ntask[t].cancelled \/ nst.err = "uncertain"
    BY <2>1, <2>2, <2>5 DEF CapturePublishes
  <2>6. CASE ~(ntask[t].cancelled \/ nst.err = "uncertain") /\ ntask[t].got = "image"
    BY <2>1, <2>3, <2>6 DEF CapturePublishes
  <2>7. CASE ~(ntask[t].cancelled \/ nst.err = "uncertain") /\ ntask[t].got # "image"
    BY <2>1, <2>4, <2>7 DEF CapturePublishes
  <2> QED BY <2>5, <2>6, <2>7
<1>5. CASE ntask[t].kind \notin {"connect", "capture"}
  <2>1. nst' = ControlPublishes(t)
    BY <1>5 DEF NoPublishes
  <2>2. \/ nst' = [nst EXCEPT !.pend = 0, !.err = "uncertain"]
        \/ nst' = [nst EXCEPT !.pend = 0, !.conn = FALSE, !.err = "failed"]
        \/ nst' = [nst EXCEPT !.pend = 0]
    <3>1. CASE ntask[t].kind = "set"
      BY <2>1, <3>1 DEF ControlPublishes
    <3>2. CASE ntask[t].kind = "close"
      BY <2>1, <3>2 DEF ControlPublishes
    <3>3. CASE ntask[t].kind \notin {"set", "close"}
      BY <2>1, <3>3 DEF ControlPublishes
    <3> QED BY <3>1, <3>2, <3>3
  <2>3. Good([nst EXCEPT !.pend = 0, !.err = "uncertain"])
    BY <1>1 DEF NativeStates
  <2>4. Good([nst EXCEPT !.pend = 0, !.conn = FALSE, !.err = "failed"])
    BY <1>1, <1>2, <1>5 DEF NativeStates
  <2>5. Good([nst EXCEPT !.pend = 0])
    BY <1>1 DEF NativeStates
  <2> QED BY <2>2, <2>3, <2>4, <2>5
<1> QED BY <1>3, <1>4, <1>5

LEMMA NoPublishesKeeps ==
  ASSUME NativeInv, NEW t \in Ops, NoPublishes(t)
  PROVE  NativeInv'
<1> USE DEF NativeInv
<1>1. /\ ntask[t].pc = "publish" /\ ntask[t].kind # "cool"
      /\ neng' = (IF neng = t THEN 0 ELSE neng) /\ UNCHANGED <<nses, ncall>>
      /\ ntask' = [ntask EXCEPT ![t].pc = "over"] /\ "over" \in NoPlaces
  BY DEF NoPublishes, Step, NoPlaces
<1>2. /\ ntask' \in [Ops -> NativeTasks] /\ ntask'[t].pc = "over"
      /\ ntask'[t].kind = ntask[t].kind /\ ntask'[t].gen = ntask[t].gen
      /\ ntask'[t].got = ntask[t].got /\ ntask'[t].cancelled = ntask[t].cancelled
      /\ \A v \in Ops \ {t} : ntask'[v] = ntask[v] /\ SameTask(v)
  BY <1>1, StepIs
<1>3. /\ ncall' \in [waits : NoIds, told : SUBSET Ops, lost : BOOLEAN]
      /\ nst \in NativeStates /\ TaskOK(t) /\ t # 0
  BY <1>1, OwnerFacts DEF NativeType, OwnerTasksOK
<1>4. \A v \in Ops : ntask[v].cancelled => ntask'[v].cancelled
  BY <1>2
<1>5. t # nst.cool
  BY <1>1, <1>3 DEF MarkersOK
<1>6. CASE IsCurrent(t)
  <2>1. /\ nst' \in NativeStates /\ nst'.gen = nst.gen /\ nst'.last = nst.last
        /\ nst'.pend = 0 /\ nst'.cool = nst.cool
        /\ \/ nst'.img = nst.img
           \/ nst'.img = t /\ ntask[t].kind = "capture" /\ ~ntask[t].cancelled
        /\ nst'.conn => nst.conn \/ ntask[t].kind = "connect"
    BY <1>1, <1>6, PublishedIs
  <2>2. t = nst.pend /\ ntask[t].gen = nst.gen
    BY <1>6 DEF IsCurrent
  <2>3. \/ nst'.img = nst.img
        \/ nst'.img = t /\ t = nst.last /\ ntask[t].gen = nst.gen /\ ~ntask'[t].cancelled
    BY <1>2, <1>3, <2>1, <2>2 DEF ImageOK
  <2>4. nst'.conn => nst.conn \/ (ntask[t].kind = "connect" /\ t = nst.gen /\ neng = t
                                  /\ ntask[t].pc = "publish")
    BY <1>1, <1>3, <2>1, <2>2 DEF TaskOK
  <2> QED BY <1>1, <1>2, <1>3, <1>4, <2>1, <2>2, <2>3, <2>4, TaskEndsKeeps
<1>7. CASE ~IsCurrent(t)
  <2>1. nst' = nst
    BY <1>7 DEF NoPublishes
  <2>2. t # nst.pend
    BY <1>3, <1>7 DEF MarkersOK, IsCurrent
  <2> QED BY <1>1, <1>2, <1>3, <1>4, <1>5, <2>1, <2>2, TaskEndsKeeps
<1> QED BY <1>6, <1>7

(* A cooler command settles its marker, and cancels a capture in doubt.    *)
LEMMA NoCooledKeeps ==
  ASSUME NativeInv, NEW t \in Ops, NoCooled(t)
  PROVE  NativeInv'
<1> USE DEF NativeInv
<1> DEFINE doubt == IsCurrentCooling(t) /\ ntask[t].got = "uncertain"
           S == IF doubt THEN {nst.pend} ELSE {}
           e == IF doubt THEN "uncertain" ELSE nst.err
<1>1. /\ ntask[t].pc = "publish" /\ ntask[t].kind = "cool"
      /\ ntask' = [Cancelled(S) EXCEPT ![t].pc = "over"]
      /\ nst' = IF ~IsCurrentCooling(t) THEN nst ELSE [nst EXCEPT !.cool = 0, !.err = e]
      /\ UNCHANGED <<neng, nses, ncall>>
  BY DEF NoCooled
<1>2. S \subseteq {nst.pend} /\ (e = "uncertain" \/ e = nst.err)
  OBVIOUS
<1> HIDE DEF S, e
<1>3. /\ ntask' \in [Ops -> NativeTasks] /\ ntask'[t].pc = "over"
      /\ ntask'[t].kind = ntask[t].kind /\ ntask'[t].gen = ntask[t].gen
      /\ \A v \in Ops \ {t} : SameTask(v) /\ (v \notin S => ntask'[v] = ntask[v])
      /\ \A v \in Ops : ntask[v].cancelled => ntask'[v].cancelled
  BY <1>1, CancelledEndIs
<1>4. /\ ncall' \in [waits : NoIds, told : SUBSET Ops, lost : BOOLEAN]
      /\ nst \in NativeStates /\ TaskOK(t) /\ t # 0 /\ 0 \in NoIds
  BY <1>1, OwnerFacts DEF NativeType, OwnerTasksOK
<1>5. \A v \in Ops \ {t} : SameTask(v) /\ (v # nst.pend => ntask'[v] = ntask[v])
  BY <1>2, <1>3
<1>6. t # nst.pend
  BY <1>1, <1>4 DEF MarkersOK
<1>7. neng' = neng
  BY <1>1
<1>8. CASE IsCurrentCooling(t)
  <2>1. /\ nst' \in NativeStates /\ nst'.gen = nst.gen /\ nst'.last = nst.last
        /\ nst'.cool = 0 /\ nst'.pend = nst.pend /\ nst'.img = nst.img /\ nst'.conn = nst.conn
    BY <1>1, <1>2, <1>4, <1>8 DEF NativeStates
  <2>2. t = nst.cool
    BY <1>8 DEF IsCurrentCooling
  <2> QED BY <1>1, <1>3, <1>4, <1>5, <1>7, <2>1, <2>2, TaskEndsKeeps
<1>9. CASE ~IsCurrentCooling(t)
  <2>1. nst' = nst
    BY <1>1, <1>9
  <2>2. t # nst.cool
    BY <1>4, <1>9 DEF MarkersOK, IsCurrentCooling
  <2> QED BY <1>1, <1>3, <1>4, <1>5, <1>6, <1>7, <2>1, <2>2, TaskEndsKeeps
<1> QED BY <1>8, <1>9

(* A task that is lost takes its marker with it.                           *)
LEMMA NoLostKeeps ==
  ASSUME NativeInv, NEW t \in Ops, NoLost(t)
  PROVE  NativeInv'
<1> USE DEF NativeInv
<1> DEFINE cool == IsCurrentCooling(t) /\ ntask[t].kind = "cool"
           S == IF cool THEN {nst.pend} ELSE {}
           e == IF nst.err = "uncertain" \/ Configures(t) THEN "uncertain" ELSE "failed"
<1>1. /\ ntask[t].pc \in {"queued", "working"}
      /\ ntask' = [Cancelled(S) EXCEPT ![t].pc = "over"]
      /\ nst' = IF cool THEN [nst EXCEPT !.cool = 0, !.err = "uncertain"]
                ELSE IF IsCurrent(t)
                THEN [nst EXCEPT !.pend = 0, !.conn = FALSE, !.err = e]
                ELSE nst
      /\ neng' = (IF neng = t THEN 0 ELSE neng) /\ nses' = nses
      /\ ncall' = [ncall EXCEPT !.lost = TRUE]
  BY DEF NoLost
<1>2. S \subseteq {nst.pend} /\ e \in {"uncertain", "failed"}
  OBVIOUS
<1> HIDE DEF S, e
<1>3. /\ ntask' \in [Ops -> NativeTasks] /\ ntask'[t].pc = "over"
      /\ ntask'[t].kind = ntask[t].kind /\ ntask'[t].gen = ntask[t].gen
      /\ \A v \in Ops \ {t} : SameTask(v) /\ (v \notin S => ntask'[v] = ntask[v])
      /\ \A v \in Ops : ntask[v].cancelled => ntask'[v].cancelled
  BY <1>1, CancelledEndIs
<1>4. /\ nst \in NativeStates /\ TaskOK(t) /\ t # 0 /\ 0 \in NoIds
  BY OwnerFacts DEF NativeType, OwnerTasksOK
<1>5. /\ ncall' \in [waits : NoIds, told : SUBSET Ops, lost : BOOLEAN]
      /\ ncall'.waits = ncall.waits /\ ncall'.told = ncall.told /\ ncall'.lost
  BY <1>1 DEF NativeType
<1>6. \A v \in Ops \ {t} : SameTask(v) /\ (v # nst.pend => ntask'[v] = ntask[v])
  BY <1>2, <1>3
<1>7. neng' = neng \/ (neng = t /\ neng' = 0)
  BY <1>1
<1>8. CASE cool
  <2>1. /\ nst' \in NativeStates /\ nst'.gen = nst.gen /\ nst'.last = nst.last
        /\ nst'.cool = 0 /\ nst'.pend = nst.pend /\ nst'.img = nst.img /\ nst'.conn = nst.conn
    BY <1>1, <1>4, <1>8 DEF NativeStates
  <2>2. t = nst.cool
    BY <1>8 DEF IsCurrentCooling
  <2> QED BY <1>1, <1>3, <1>4, <1>5, <1>6, <1>7, <2>1, <2>2, TaskEndsKeeps
<1>9. CASE ~cool /\ IsCurrent(t)
  <2>1. /\ nst' \in NativeStates /\ nst'.gen = nst.gen /\ nst'.last = nst.last
        /\ nst'.pend = 0 /\ nst'.cool = nst.cool /\ nst'.img = nst.img /\ ~nst'.conn
    BY <1>1, <1>2, <1>4, <1>9 DEF NativeStates
  <2>2. t = nst.pend
    BY <1>9 DEF IsCurrent
  <2> QED BY <1>1, <1>3, <1>4, <1>5, <1>6, <1>7, <2>1, <2>2, TaskEndsKeeps
<1>10. CASE ~cool /\ ~IsCurrent(t)
  <2>1. nst' = nst
    BY <1>1, <1>10
  <2>2. t # nst.cool /\ t # nst.pend
    BY <1>4, <1>10 DEF MarkersOK, IsCurrent, IsCurrentCooling
  <2> QED BY <1>1, <1>3, <1>4, <1>5, <1>6, <1>7, <2>1, <2>2, TaskEndsKeeps
<1> QED BY <1>8, <1>9, <1>10

LEMMA NativeStarts ==
  ASSUME NoInit
  PROVE  NativeInv
<1>1. \A t \in Ops : ntask[t] = NoTask /\ t # 0
  BY OwnerFacts DEF NoInit
<1>2. NativeType
  <2>1. ntask \in [Ops -> NativeTasks]
    BY OwnerFacts DEF NoInit
  <2> QED BY <2>1, OwnerFacts DEF NoInit, NativeType, NativeStates
<1>3. NoFirst(0)
  BY <1>1, OwnerFacts DEF NoFirst
<1>4. OwnerTasksOK
  <2> SUFFICES ASSUME NEW t \in Ops
               PROVE  TaskOK(t)
    BY DEF OwnerTasksOK
  <2>1. ntask[t].pc = "unused" /\ ntask[t].kind = "none"
    BY <1>1, OwnerFacts
  <2> QED BY <2>1 DEF TaskOK
<1>5. MarkersOK
  BY DEF NoInit, MarkersOK
<1>6. ImageOK
  BY DEF NoInit, ImageOK
<1>7. WorkerOK
  BY DEF NoInit, WorkerOK
<1> QED BY <1>2, <1>3, <1>4, <1>5, <1>6, <1>7, OwnerFacts DEF NativeInv

LEMMA NativeStutters ==
  ASSUME NativeInv, UNCHANGED noVars
  PROVE  NativeInv'
<1>1. nst' = nst /\ ntask' = ntask /\ neng' = neng /\ nses' = nses /\ ncall' = ncall
  BY DEF noVars
<1>2. NativeType' /\ (\E n \in NoIds : NoFirst(n)')
  BY <1>1 DEF NativeInv, NativeType, NoFirst
<1>3. OwnerTasksOK'
  BY <1>1 DEF NativeInv, OwnerTasksOK, TaskOK
<1>4. MarkersOK' /\ ImageOK' /\ WorkerOK'
  BY <1>1 DEF NativeInv, MarkersOK, Alive, ImageOK, WorkerOK
<1> QED BY <1>2, <1>3, <1>4 DEF NativeInv

(* Every step of the owner keeps the invariant.                            *)
LEMMA NativeStepKeeps ==
  ASSUME NativeInv, NoNext
  PROVE  NativeInv'
<1>1. CASE NoConnect
  BY <1>1, NoConnectKeeps
<1>2. CASE NoStart
  BY <1>2, NoStartKeeps
<1>3. CASE NoControl
  BY <1>3, NoControlKeeps
<1>4. CASE NoSetCooling
  BY <1>4, NoSetCoolingKeeps
<1>5. CASE NoAbort
  BY <1>5, NoAbortKeeps
<1>6. CASE NoAbortEnds
  BY <1>6, NoAbortEndsKeeps
<1>7. CASE NoRetire
  BY <1>7, NoRetireKeeps
<1>8. CASE NoTasks
  <2>1. PICK t \in Ops :
          \/ NoLocks(t) \/ NoNotDispatched(t) \/ NoCloses(t) \/ NoWorks(t)
          \/ NoServedByCapture(t) \/ NoChecks(t) \/ NoPublishes(t) \/ NoCooled(t)
    BY <1>8 DEF NoTasks
  <2>2. CASE NoLocks(t)
    BY <2>2, NoLocksKeeps
  <2>3. CASE NoNotDispatched(t) \/ NoServedByCapture(t)
    BY <2>3, NoNotDispatchedKeeps
  <2>4. CASE NoCloses(t) \/ NoChecks(t)
    BY <2>4, NoClosesKeeps
  <2>5. CASE NoWorks(t)
    BY <2>5, NoWorksKeeps
  <2>6. CASE NoPublishes(t)
    BY <2>6, NoPublishesKeeps
  <2>7. CASE NoCooled(t)
    BY <2>7, NoCooledKeeps
  <2> QED BY <2>1, <2>2, <2>3, <2>4, <2>5, <2>6, <2>7
<1>9. CASE \E t \in Ops : NoLost(t)
  BY <1>9, NoLostKeeps
<1> QED BY <1>1, <1>2, <1>3, <1>4, <1>5, <1>6, <1>7, <1>8, <1>9 DEF NoNext

(* The inductive invariant of the owner: at every interleaving of callers  *)
(* with retained tasks, what State marks still runs in this generation and *)
(* the engine, the image and the worker belong to whom they should.        *)
THEOREM NativeOwnerSafe == NoSpec => []NativeInv
<1>1. NoInit => NativeInv
  BY NativeStarts
<1>2. NativeInv /\ [NoNext]_noVars => NativeInv'
  BY NativeStepKeeps, NativeStutters
<1> QED BY <1>1, <1>2, PTL DEF NoSpec

(* An image served is the last capture's and of no acknowledged abort,     *)
(* busy markers belong to live tasks, and a connected owner uses only its  *)
(* own generation's worker, for any number of operations                   *)
(* (native_owner.rs current, start_locked, retire, spawn_close).           *)
THEOREM NativeOwnerIsHonest == NoSpec => []NativeOwnerHonest
<1>1. ASSUME NativeInv
      PROVE  NativeOwnerHonest
  <2> USE <1>1 DEF NativeInv
  <2>1. ServedImage => nst.img = nst.last /\ ntask[nst.img].gen = nst.gen
    BY DEF ServedImage, ImageOK
  <2>2. nst.img \notin ncall.told
    <3>1. nst.img # 0 => ~ntask[nst.img].cancelled
      BY DEF ImageOK
    <3>2. \A t \in ncall.told : ntask[t].cancelled /\ t # 0
      BY OwnerFacts DEF ImageOK, NativeType
    <3> QED BY <3>1, <3>2
  <2>3. (nst.pend # 0 => Alive(nst.pend)) /\ (nst.cool # 0 => Alive(nst.cool))
    BY DEF MarkersOK
  <2>4. nst.conn /\ nses.open => nses.by = nst.gen
    BY DEF WorkerOK
  <2>5. ASSUME \A t \in Ops : ~Alive(t), nst.gen # 0, ntask[nst.gen].kind = "close",
               ~ncall.lost
        PROVE  ~nses.open
    <3>1. nst.gen \in Ops /\ ntask[nst.gen].pc # "unused"
      BY InUse, <2>5
    <3>2. ntask[nst.gen].pc = "over"
      BY <2>5, <3>1 DEF Alive
    <3> QED BY <2>5, <3>2 DEF WorkerOK
  <2> QED BY <2>1, <2>2, <2>3, <2>4, <2>5 DEF NativeOwnerHonest
<1> QED BY <1>1, NativeOwnerSafe, PTL

(* Only a step that opens another, unconnected generation drops the doubt. *)
LEMMA NoDoubtStep ==
  ASSUME NativeInv, NoNext, nst.err = "uncertain", nst'.err # "uncertain"
  PROVE  nst'.gen # nst.gen /\ ~nst'.conn
<1> USE DEF NativeInv
<1>0. nst \in NativeStates
  BY DEF NativeType
<1>1. CASE nst' = nst
  BY <1>1
<1>2. CASE NoConnect \/ NoStart
  BY <1>2 DEF NoConnect, NoStart, Unblocked
<1>3. CASE NoControl
  BY <1>3 DEF NoControl, Unblocked
<1>4. CASE NoSetCooling
  BY <1>4 DEF NoSetCooling
<1>5. CASE NoAbort \/ NoAbortEnds
  BY <1>5 DEF NoAbort, NoAbortEnds
<1>6. CASE NoRetire
  <2>1. NextOp \in Ops /\ ntask[NextOp] = NoTask
    BY <1>6, NextIs DEF NoRetire
  <2>2. nst'.gen = NextOp /\ ~nst'.conn
    BY <1>6 DEF NoRetire
  <2> QED BY <2>1, <2>2, InUse, OwnerFacts
<1>7. CASE NoTasks
  <2>1. PICK t \in Ops :
          \/ NoLocks(t) \/ NoNotDispatched(t) \/ NoCloses(t) \/ NoWorks(t)
          \/ NoServedByCapture(t) \/ NoChecks(t) \/ NoPublishes(t) \/ NoCooled(t)
    BY <1>7 DEF NoTasks
  <2>2. CASE NoPublishes(t)
    <3>1. CASE IsCurrent(t)
      <4>1. ntask[t].pc = "publish"
        BY <2>2 DEF NoPublishes
      <4> QED BY <2>2, <3>1, <4>1, PublishedIs
    <3>2. CASE ~IsCurrent(t)
      BY <1>1, <2>2, <3>2 DEF NoPublishes
    <3> QED BY <3>1, <3>2
  <2>3. CASE NoCooled(t)
    <3> DEFINE e == IF IsCurrentCooling(t) /\ ntask[t].got = "uncertain" THEN "uncertain"
                    ELSE nst.err
    <3>1. nst' = IF ~IsCurrentCooling(t) THEN nst ELSE [nst EXCEPT !.cool = 0, !.err = e]
      BY <2>3 DEF NoCooled
    <3>2. e = "uncertain"
      OBVIOUS
    <3> HIDE DEF e
    <3> QED BY <1>0, <1>1, <3>1, <3>2 DEF NativeStates
  <2>4. CASE NoLocks(t) \/ NoNotDispatched(t) \/ NoCloses(t)
    BY <1>1, <2>4 DEF NoLocks, NoNotDispatched, NoCloses
  <2>5. CASE NoWorks(t) \/ NoServedByCapture(t) \/ NoChecks(t)
    BY <1>1, <2>5 DEF NoWorks, NoServedByCapture, NoChecks
  <2> QED BY <2>1, <2>2, <2>3, <2>4, <2>5
<1>8. CASE \E t \in Ops : NoLost(t)
  <2>1. PICK t \in Ops : NoLost(t)
    BY <1>8
  <2> DEFINE e == IF nst.err = "uncertain" \/ Configures(t) THEN "uncertain" ELSE "failed"
  <2>2. \/ nst' = [nst EXCEPT !.cool = 0, !.err = "uncertain"]
        \/ nst' = [nst EXCEPT !.pend = 0, !.conn = FALSE, !.err = e]
        \/ nst' = nst
    BY <2>1 DEF NoLost
  <2>3. e = "uncertain"
    OBVIOUS
  <2> HIDE DEF e
  <2> QED BY <1>0, <1>1, <2>2, <2>3 DEF NativeStates
<1> QED BY <1>2, <1>3, <1>4, <1>5, <1>6, <1>7, <1>8 DEF NoNext

(* Doubt about what the camera was told stays until the camera is closed   *)
(* or reset, whatever fails, succeeds or is lost meanwhile                 *)
(* (native_owner.rs start_locked, connect).                                *)
THEOREM DoubtStays == NoSpec => DoubtIsKept
<1>1. NativeInv /\ [NoNext]_noVars =>
        [nst.err = "uncertain" /\ nst'.err # "uncertain" =>
           nst'.gen # nst.gen /\ ~nst'.conn]_noVars
  <2> SUFFICES ASSUME NativeInv, [NoNext]_noVars, noVars' # noVars,
                      nst.err = "uncertain", nst'.err # "uncertain"
               PROVE  nst'.gen # nst.gen /\ ~nst'.conn
    OBVIOUS
  <2> QED BY NoDoubtStep
<1> QED BY <1>1, NativeOwnerSafe, PTL DEF NoSpec, DoubtIsKept
=============================================================================
