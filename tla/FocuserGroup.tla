---------------------------- MODULE FocuserGroup ----------------------------
(***************************************************************************)
(* Coordinated focuser moves (regain-hub coordination.rs and               *)
(* coordination/host.rs). An operation of a group connects to its members, *)
(* reserves the control of every one, checks every target, then moves them *)
(* one after the other and watches them arrive. Nothing is rolled back: the*)
(* report says how far each member got. Groups may have members in common, *)
(* in different orders, and each runs in a task of its own.                *)
(***************************************************************************)
EXTENDS Naturals, Sequences, FiniteSets

CONSTANTS
  Groups,
  MembersOf,    \* per group: the sequence of its focusers
  Nobody,
  MaxMoves      \* bound on the operations of a group

Focusers == UNION {{MembersOf[g][i] : i \in DOMAIN MembersOf[g]} : g \in Groups}

ASSUME FocuserGroupAssumption ==
  /\ Nobody \notin Groups /\ MaxMoves \in Nat
  /\ \A g \in Groups :
       /\ MembersOf[g] \in Seq(Focusers) /\ Len(MembersOf[g]) >= 2
       /\ \A i, j \in DOMAIN MembersOf[g] : MembersOf[g][i] = MembersOf[g][j] => i = j

VARIABLES
  fctl,    \* per focuser: the group whose lease has control
  fmot,    \* per focuser: at rest, moving, or stopped there or off its target
  fop      \* per group: its operation and the published report

fgVars == <<fctl, fmot, fop>>

FgMembers(g) == {MembersOf[g][i] : i \in DOMAIN MembersOf[g]}
FgMember(g) == MembersOf[g][fop[g].at]
FgLast(g) == fop[g].at = Len(MembersOf[g])

NoOperation(g) ==
  [pc |-> "idle", at |-> 1, phase |-> "none", note |-> "none", held |-> {},
   rep |-> [f \in FgMembers(g) |-> "notStarted"], moved |-> {}, moves |-> 0]

FgInit ==
  /\ fctl = [f \in Focusers |-> Nobody] /\ fmot = [f \in Focusers |-> "rest"]
  /\ fop = [g \in Groups |-> NoOperation(g)]

-----------------------------------------------------------------------------
(* The next member, or the stage after the last one.                       *)
FgAdvance(g, stage) ==
  IF FgLast(g) THEN [fop[g] EXCEPT !.pc = stage, !.at = 1] ELSE [fop[g] EXCEPT !.at = @ + 1]

(* The operation is over: its reservations are dropped, its report stays.  *)
FgEnded(o, phase) ==
  [o EXCEPT !.pc = "done", !.phase = phase, !.held = {}, !.note = "none", !.at = 1]

(* GroupCoordinator::start: one operation at a time, and none after one    *)
(* whose task died.                                                        *)
FgStart(g) ==
  /\ fop[g].pc \in {"idle", "done"} /\ fop[g].phase # "failedUncertain"
  /\ fop[g].moves < MaxMoves
  /\ fop' = [fop EXCEPT ![g] = [NoOperation(g) EXCEPT !.pc = "connect", !.phase = "connecting",
                                                      !.moves = fop[g].moves + 1]]
  /\ UNCHANGED <<fctl, fmot>>

(* Sessions with all members, opened one after the other.                  *)
FgConnect(g) ==
  /\ fop[g].pc = "connect"
  /\ fop' = [fop EXCEPT ![g].pc = "reserve"]
  /\ UNCHANGED <<fctl, fmot>>

FgConnectFails(g) ==
  /\ fop[g].pc = "connect"
  /\ fop' = [fop EXCEPT ![g] = FgEnded(@, "failed")]
  /\ UNCHANGED <<fctl, fmot>>

(* reserve_motion: control of the member, or Busy at once.                 *)
FgReserve(g) ==
  /\ fop[g].pc = "reserve" /\ fctl[FgMember(g)] = Nobody
  /\ fctl' = [fctl EXCEPT ![FgMember(g)] = g]
  /\ fop' = [fop EXCEPT ![g] = [FgAdvance(g, "preflight") EXCEPT !.held = @ \cup {FgMember(g)}]]
  /\ UNCHANGED fmot

FgPreflight(g) ==
  /\ fop[g].pc = "preflight"
  /\ fop' = [fop EXCEPT ![g] = IF FgLast(g) THEN [FgAdvance(g, "check") EXCEPT !.phase = "moving"]
                               ELSE FgAdvance(g, "check")]
  /\ UNCHANGED <<fctl, fmot>>

(* A member that is busy, refuses or cannot be asked ends the preflight.   *)
FgRejected(g) ==
  /\ fop[g].pc \in {"reserve", "preflight"}
  /\ fop' = [fop EXCEPT ![g] = FgEnded([@ EXCEPT !.rep[FgMember(g)] = "rejected"],
                                     "preflightFailed")]
  /\ UNCHANGED <<fctl, fmot>>

(* The second check and, without a stop request, the write behind it.      *)
FgDispatch(g) ==
  /\ fop[g].pc = "check"
  /\ LET f == FgMember(g) IN
     \E o \in IF fctl[f] = g THEN {"ok", "refused", "unknown"} ELSE {"refused"} :
       \/ /\ o # "refused"
          /\ fmot' = [fmot EXCEPT ![f] = "moving"]
          /\ fop' = [fop EXCEPT ![g].pc = "sent", ![g].note = o, ![g].moved = @ \cup {f}]
       \/ /\ o # "ok" /\ UNCHANGED fmot
          /\ fop' = [fop EXCEPT ![g].pc = "sent", ![g].note = o]
  /\ UNCHANGED fctl

(* The second check fails: no more members are moved.                      *)
FgRecheckFails(g) ==
  /\ fop[g].pc = "check"
  /\ fop' = [fop EXCEPT ![g].pc = "observe", ![g].rep[FgMember(g)] = "rejected"]
  /\ UNCHANGED <<fctl, fmot>>

(* The write's answer; anything but an acknowledgement ends the dispatch.  *)
FgAnswered(g) ==
  /\ fop[g].pc = "sent"
  /\ LET told == CASE fop[g].note = "ok" -> "moving"
                   [] fop[g].note = "refused" -> "failed" [] OTHER -> "uncertain"
         next == IF told = "moving" /\ ~FgLast(g) THEN "check" ELSE "observe"
         at == IF next = "check" THEN fop[g].at + 1 ELSE 1
     IN fop' = [fop EXCEPT ![g] = [@ EXCEPT !.rep[FgMember(g)] = told, !.note = "none",
                                            !.pc = next, !.at = at]]
  /\ UNCHANGED <<fctl, fmot>>

(* observe: each moving member on its own.                                 *)
FgObserve(g, f) ==
  /\ fop[g].pc = "observe" /\ fop[g].rep[f] = "moving"
  /\ \E seen \in {"uncertain"} \cup CASE fmot[f] = "moving" -> {}
                                      [] fmot[f] = "there" -> {"complete"}
                                      [] OTHER -> {"failed"} :
       fop' = [fop EXCEPT ![g].rep[f] = seen]
  /\ UNCHANGED <<fctl, fmot>>

FgFinish(g) ==
  /\ fop[g].pc = "observe" /\ \A f \in FgMembers(g) : fop[g].rep[f] # "moving"
  /\ fop' = [fop EXCEPT ![g] = FgEnded(@,
       IF \A f \in FgMembers(g) : fop[g].rep[f] = "complete" THEN "complete"
       ELSE "partialFailure")]
  /\ UNCHANGED <<fctl, fmot>>

(* interruptible and interrupted: never against a write.                   *)
FgInterruptible == {"connect", "reserve", "preflight", "check", "observe"}

(* A client cancels, or the deadline passes: at whatever the task awaits,  *)
(* or together with its last step. Cancelled and Deadline are one phase.   *)
FgInterrupted(g) ==
  /\ fop[g].pc \in FgInterruptible
  /\ fop' = [fop EXCEPT ![g] = FgEnded(@, "stopped")]
  /\ UNCHANGED <<fctl, fmot>>

(* The task dies: the guard reports an uncertain failure.                  *)
FgTaskDies(g) ==
  /\ fop[g].pc \notin {"idle", "done"}
  /\ fop' = [fop EXCEPT ![g] = FgEnded(@, "failedUncertain")]
  /\ UNCHANGED <<fctl, fmot>>

(* A dropped reservation's release is served.                              *)
FgRelease(f) ==
  /\ fctl[f] # Nobody /\ f \notin fop[fctl[f]].held
  /\ fctl' = [fctl EXCEPT ![f] = Nobody]
  /\ UNCHANGED <<fmot, fop>>

FgArrive(f) ==
  /\ fmot[f] = "moving"
  /\ fmot' \in {[fmot EXCEPT ![f] = "there"], [fmot EXCEPT ![f] = "off"]}
  /\ UNCHANGED <<fctl, fop>>

FgTask(g) ==
  \/ FgConnect(g) \/ FgConnectFails(g) \/ FgReserve(g) \/ FgPreflight(g) \/ FgRejected(g)
  \/ FgDispatch(g) \/ FgRecheckFails(g) \/ FgAnswered(g) \/ FgFinish(g)
  \/ \E f \in FgMembers(g) : FgObserve(g, f)

FgNext ==
  \/ \E g \in Groups : FgStart(g) \/ FgTask(g) \/ FgInterrupted(g) \/ FgTaskDies(g)
  \/ \E f \in Focusers : FgRelease(f) \/ FgArrive(f)

(* Tasks run, releases are served and motion comes to an end. No deadline  *)
(* is relied on.                                                           *)
FgFairness ==
  /\ \A g \in Groups : WF_fgVars(FgTask(g))
  /\ \A f \in Focusers : WF_fgVars(FgRelease(f)) /\ WF_fgVars(FgArrive(f))

-----------------------------------------------------------------------------
(* The report of a group is true at every moment and stays so: a member    *)
(* reported as not started or rejected was not moved by this operation,    *)
(* one reported complete was; a failed preflight moved nobody; complete    *)
(* means everyone, and a partial failure leaves no member unaccounted. And *)
(* nobody was moved before the operation had reserved all its members.     *)
FocuserReportTrue ==
  \A g \in Groups :
    LET o == fop[g] IN
    /\ \A f \in FgMembers(g) :
         /\ o.rep[f] \in {"notStarted", "rejected"} =>
              f \notin o.moved \/ (o.pc = "sent" /\ f = FgMember(g))
                               \/ o.phase = "failedUncertain"
         /\ o.rep[f] = "complete" => f \in o.moved
         /\ o.pc \in {"check", "sent", "observe"} => fctl[f] = g
    /\ o.phase \in {"connecting", "failed", "preflightFailed"} => o.moved = {}
    /\ o.phase = "complete" => \A f \in FgMembers(g) : o.rep[f] = "complete"
    /\ o.phase = "partialFailure" => \A f \in FgMembers(g) : o.rep[f] # "moving"

(* No operation is under way.                                              *)
FocuserGroupsOver == \A g \in Groups : fop[g].pc \in {"idle", "done"}
=============================================================================
