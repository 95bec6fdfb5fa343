------------------------------ MODULE MCFences ------------------------------
(***************************************************************************)
(* What must not get through: a write in doubt or from before the host's   *)
(* sleep to the equipment, evidence from before it to a safety output. A   *)
(* behaviour exercises one of them.                                        *)
(***************************************************************************)
EXTENDS SafetyHub, TLC

CONSTANTS Leases, Nobody

VARIABLE scenario

(* SourceActor *)
VARIABLES behind, clockFresh, queue, cur, pc, leases, controller, writeUncertain, connected,
          handshake, cleaned, nextPoll, retrying, cache, guard, call, sent, fate, told, doubt,
          disconnects

A == INSTANCE SourceActor WITH
  QueueCap <- 1, Ops <- {"claim", "write"}, clockValid <- clockFresh

actorVars == <<behind, clockFresh, queue, cur, pc, leases, controller, writeUncertain, connected,
               handshake, cleaned, nextPoll, retrying, cache, guard, call, sent, fate, told,
               doubt, disconnects>>
fenceVars == <<vars, actorVars, scenario>>

(* The source may be in a poll at the start, which matters for delivery.   *)
MCInit ==
  /\ A!Init
  /\ \/ scenario = "delivery" /\ Init
     \/ scenario = "writes" /\ Init /\ \A s \in Sources : src[s].poll = NoTime

MCNext ==
  \/ scenario = "writes" /\ A!Next /\ UNCHANGED <<vars, scenario>>
  \/ scenario = "delivery" /\ Next /\ UNCHANGED <<actorVars, scenario>>

MCSpec == MCInit /\ [][MCNext]_fenceVars

Symmetry == Permutations(Leases)

-----------------------------------------------------------------------------
(* The actor's leases, transport and latches agree, the caller of a write  *)
(* is told the truth about it, and no reader sees a sample that an         *)
(* acknowledged write has outdated (source.rs write, with_snapshot).       *)
WritesToldTrue == A!SourceInv /\ A!WritesToldTrue /\ A!NoOutdatedEvidence

(* A write reaches the backend only while no earlier one is in doubt, in   *)
(* the epoch it was asked in and on the transport its caller saw           *)
(* (source.rs write, resume.rs fence).                                     *)
WritesFenced == A!NoWriteInDoubt /\ A!NoReplayAfterSleep /\ A!WriteOnSeenTransport
=============================================================================
