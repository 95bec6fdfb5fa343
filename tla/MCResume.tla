------------------------------ MODULE MCResume ------------------------------
(***************************************************************************)
(* What must go on after the host's sleep: a source's actor with every     *)
(* command of a lease holder, and the safety output downstream over two    *)
(* resumes. A behaviour exercises one of them.                             *)
(***************************************************************************)
EXTENDS SourceActor

CONSTANT Sources

VARIABLE scenario

(* SafetyHub *)
VARIABLES now, epoch, hubClock, hub, src, ring, lagged, news, con, stop, fresh,
          proof, last, run

S == INSTANCE SafetyHub WITH
  Confirmation <- 1, SafeAge <- 2, Hold <- 0, SafeReadings <- 1, UnsafeReadings <- 1,
  FailedCycles <- 1, RingCap <- 1, Backdates <- {0}, Readings <- {"unsafe"},
  MaxTime <- 1, MaxSeq <- 1, MaxGen <- 2, MaxEpoch <- 2, clockValid <- hubClock

outputVars == <<now, epoch, hubClock, hub, src, ring, lagged, news, con, stop, fresh,
                proof, last, run>>
resumeVars == <<vars, outputVars, scenario>>

(* The source may be in a poll at the start, which matters for the output. *)
MCInit ==
  /\ Init /\ S!Init
  /\ \/ scenario = "output"
     \/ scenario = "actor" /\ \A s \in Sources : src[s].poll = S!NoTime

InActor(A) == scenario = "actor" /\ A /\ UNCHANGED <<outputVars, scenario>>
InOutput(A) == scenario = "output" /\ A /\ UNCHANGED <<vars, scenario>>

MCNext == InActor(Next) \/ InOutput(S!Next)

(* The fairness of each module, of its actions in its own scenario: a      *)
(* spawned task is run and every backend operation has its deadline.       *)
MCFairness ==
  /\ WF_resumeVars(InActor(Progress)) /\ SF_resumeVars(InActor(Receive))
  /\ WF_resumeVars(InActor(Timer))
  /\ \A l \in Leases : WF_resumeVars(InActor(SendRelease(l)))
  /\ \A s \in Sources : /\ WF_resumeVars(InOutput(S!Task(s)))
                        /\ WF_resumeVars(InOutput(S!ActorResume(s)))
                        /\ WF_resumeVars(InOutput(S!SendEvent(s)))

MCSpec == MCInit /\ [][MCNext]_resumeVars /\ MCFairness

-----------------------------------------------------------------------------
(* Whoever waits is served once the host stays awake: a request is         *)
(* answered, a dropped lease comes back, a due poll is taken although      *)
(* clients flood the queue, and an endpoint that a resume gave a           *)
(* generation nobody has is in step with its source again (source.rs run,  *)
(* safety_output.rs consume).                                              *)
EverythingResumes == PollNotStarved /\ RequestsAnswered /\ S!EvidenceFlowsAgain
=============================================================================
