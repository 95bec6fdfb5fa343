--------------------------- MODULE ChannelProofs ---------------------------
(***************************************************************************)
(* Proofs about the channels on which the hub's processes ask something of *)
(* another and may lose the answer: a stream of the hub's local IPC        *)
(* (HubIpc), the pipe of the elevated USB helper (UsbBroker), and the      *)
(* stream to an accessory's worker with the saved reference that depends   *)
(* on it (RotatorReference), for any requests, clients, cameras, limits    *)
(* and any circle of angles.                                               *)
(***************************************************************************)
EXTENDS HubIpc, UsbBroker, RotatorReference, FiniteSetTheorems, TLAPS

-----------------------------------------------------------------------------
(* A stream of the hub                                                     *)

(* The stream by itself: the safety part of its specification.             *)
IpcSpec == IpcInit /\ [][IpcNext]_ipcVars

Replies == {"ok", "refused", "uncertain", "late"}
Unsent == {"busy", "skipped", "timeout", "disconnected"}
Frames == IpcRequests \X Replies

IpcTypeOK ==
  /\ iask \in [IpcRequests -> {"idle", "queued", "written", "answered"}]
  /\ iheld \in [IpcRequests -> BOOLEAN]
  /\ ians \in [IpcRequests -> {"none"} \cup Unsent \cup Replies]
  /\ iqueue \in Seq(IpcRequests) /\ iout \in Seq(IpcRequests) /\ iback \in Seq(Frames)
  /\ ipump \in {Loop, Gone} \cup [pc : {"writing"}, frame : {<<q>> : q \in IpcRequests}]
  /\ iserver \in {Loop, Gone} \cup [pc : {"writing"}, frame : Frames]
  /\ itask \in [IpcRequests -> {"none", "running", "ended", "dropped"}]
  /\ idev \in [IpcRequests -> {"untouched", "submitted", "done", "refused"}]

Arriving(q) == \E i \in DOMAIN iout : iout[i] = q
Leaving(q) == ipump.frame = <<q>>

(* A request waits in the queue once, and travels to the server once.      *)
OnceInv ==
  /\ \A i \in DOMAIN iqueue : iask[iqueue[i]] = "queued"
  /\ \A i, j \in DOMAIN iqueue : iqueue[i] = iqueue[j] => i = j
  /\ \A i, j \in DOMAIN iout : iout[i] = iout[j] => i = j
  /\ \A q \in IpcRequests : Leaving(q) => ~Arriving(q) /\ iask[q] = "written"
  /\ ipump.pc = "closed" => iqueue = <<>> /\ InFlight = {}

(* Nothing is done about a request before it has arrived.                  *)
ArrivalInv ==
  \A q \in IpcRequests :
    /\ iask[q] \in {"idle", "queued"} => ~Arriving(q) /\ ~Leaving(q) /\ itask[q] = "none"
    /\ Arriving(q) \/ Leaving(q) => itask[q] = "none"
    /\ itask[q] = "none" => idev[q] = "untouched"

(* An answer on its way back is about a request that the server is done    *)
(* with, and true of what became of it.                                    *)
TrueFrame(f) ==
  /\ itask[f[1]] = "ended"
  /\ f[2] = "ok" => idev[f[1]] = "done"
  /\ f[2] = "refused" => idev[f[1]] \in {"untouched", "refused"}
  /\ f[2] = "late" => f[1] \notin Mutating
FrameInv ==
  /\ \A i \in DOMAIN iback : TrueFrame(iback[i])
  /\ iserver.pc = "writing" => TrueFrame(iserver.frame)

ToldInv ==
  /\ \A q \in IpcRequests : ians[q] # "none" => iask[q] = "answered"
  /\ \A q \in Mutating :
       /\ ians[q] \in Unsent => ~Arriving(q) /\ ~Leaving(q) /\ itask[q] = "none"
       /\ ians[q] = "refused" => itask[q] = "ended" /\ idev[q] \in {"untouched", "refused"}
       /\ ians[q] = "ok" => itask[q] = "ended" /\ idev[q] = "done"

(* What the server has or will have to do: within the client's permits     *)
(* while there is a client, and not more afterwards.                       *)
Load == {q \in IpcRequests : Arriving(q) \/ Leaving(q) \/ itask[q] = "running"}
LimitInv ==
  /\ IsFiniteSet(InFlight) /\ Cardinality(InFlight) <= MaxInFlight
  /\ IsFiniteSet(Load) /\ Cardinality(Load) <= MaxInFlight
  /\ ipump.pc # "closed" => Load \subseteq InFlight

IpcInv == IpcTypeOK /\ OnceInv /\ ArrivalInv /\ FrameInv /\ ToldInv /\ LimitInv

LEMMA TailFacts ==
  ASSUME NEW S, NEW s \in Seq(S), s # <<>>
  PROVE  /\ Tail(s) \in Seq(S) /\ Head(s) = s[1] /\ 1 \in DOMAIN s /\ Head(s) \in S
         /\ \A i \in DOMAIN Tail(s) : i + 1 \in DOMAIN s /\ i + 1 # 1 /\ Tail(s)[i] = s[i + 1]
         /\ \A i \in DOMAIN Tail(s) : i \in Nat
OBVIOUS

LEMMA AppendFacts ==
  ASSUME NEW S, NEW s \in Seq(S), NEW x \in S
  PROVE  /\ Append(s, x) \in Seq(S)
         /\ \A i \in DOMAIN Append(s, x) :
               \/ i \in DOMAIN s /\ Append(s, x)[i] = s[i]
               \/ i = Len(s) + 1 /\ i \notin DOMAIN s /\ Append(s, x)[i] = x
         /\ \A i \in DOMAIN s : i \in DOMAIN Append(s, x) /\ Append(s, x)[i] = s[i]
OBVIOUS

LEMMA JoinFacts ==
  ASSUME NEW S, NEW s \in Seq(S)
  PROVE  /\ s \o <<>> = s
         /\ \A x \in S : s \o <<x>> = Append(s, x)
OBVIOUS

(* The pump writes a request, or nothing.                                  *)
LEMMA PumpType ==
  ASSUME IpcTypeOK
  PROVE  /\ ipump.pc = "writing" => \E q \in IpcRequests : ipump.frame = <<q>>
         /\ ipump.pc # "writing" => ipump.frame = <<>>
         /\ ipump.pc \in {"loop", "closed", "writing"}
         /\ Loop.frame = <<>> /\ Gone.frame = <<>> /\ Loop.pc = "loop" /\ Gone.pc = "closed"
BY DEF IpcTypeOK, Loop, Gone

LEMMA ServerType ==
  ASSUME IpcTypeOK
  PROVE  /\ iserver.pc = "writing" => iserver.frame \in Frames
         /\ iserver.pc # "writing" => iserver.frame = <<>>
         /\ iserver.pc \in {"loop", "closed", "writing"}
BY DEF IpcTypeOK, Loop, Gone

(* Fewer requests to serve are still within the limit.                     *)
LEMMA LoadShrinks ==
  ASSUME LimitInv, NEW S \in SUBSET Load
  PROVE  IsFiniteSet(S) /\ Cardinality(S) <= MaxInFlight
<1>1. IsFiniteSet(S) /\ Cardinality(S) <= Cardinality(Load)
  BY FS_Subset DEF LimitInv
<1>2. Cardinality(S) \in Nat /\ Cardinality(Load) \in Nat /\ MaxInFlight \in Nat
  BY <1>1, FS_CardinalityType, HubIpcAssumption DEF LimitInv
<1> QED BY <1>1, <1>2 DEF LimitInv

LEMMA FlightShrinks ==
  ASSUME LimitInv, NEW S \in SUBSET InFlight
  PROVE  IsFiniteSet(S) /\ Cardinality(S) <= MaxInFlight
<1>1. IsFiniteSet(S) /\ Cardinality(S) <= Cardinality(InFlight)
  BY FS_Subset DEF LimitInv
<1>2. Cardinality(S) \in Nat /\ Cardinality(InFlight) \in Nat /\ MaxInFlight \in Nat
  BY <1>1, FS_CardinalityType, HubIpcAssumption DEF LimitInv
<1> QED BY <1>1, <1>2 DEF LimitInv

LEMMA InitIpc == IpcInit => IpcInv
<1> SUFFICES ASSUME IpcInit PROVE IpcInv
  OBVIOUS
<1>1. InFlight = {} /\ Load = {}
  BY DEF IpcInit, InFlight, Load, Arriving, Leaving, Loop
<1>2. LimitInv
  BY <1>1, FS_EmptySet, HubIpcAssumption DEF LimitInv
<1>3. IpcTypeOK
  BY DEF IpcInit, IpcTypeOK, Loop
<1>4. OnceInv /\ ArrivalInv
  BY <1>1 DEF IpcInit, OnceInv, ArrivalInv, Arriving, Leaving, Loop
<1>5. FrameInv /\ ToldInv
  BY HubIpcAssumption DEF IpcInit, FrameInv, ToldInv, Loop, Unsent
<1> QED BY <1>2, <1>3, <1>4, <1>5 DEF IpcInv

(* A request is queued with a permit, or refused before it is sent.        *)
LEMMA AskKeeps ==
  ASSUME IpcInv, NEW q \in IpcRequests, IpcAsk(q)
  PROVE  IpcInv'
<1> USE DEF IpcInv
<1>1. CASE ipump.pc # "closed" /\ Cardinality(Permits) < MaxInFlight
  <2>1. /\ iask' = [iask EXCEPT ![q] = "queued"] /\ iqueue' = Append(iqueue, q)
        /\ UNCHANGED <<ians, iheld, ipump, iout, iback, iserver, itask, idev>>
        /\ iask[q] = "idle" /\ ipump.pc # "closed" /\ Cardinality(InFlight) < MaxInFlight
    BY <1>1 DEF IpcAsk, ServerSide, Permits
  <2>2. /\ iqueue' \in Seq(IpcRequests)
        /\ \A i \in DOMAIN iqueue' :
              \/ i \in DOMAIN iqueue /\ iqueue'[i] = iqueue[i]
              \/ i = Len(iqueue) + 1 /\ i \notin DOMAIN iqueue /\ iqueue'[i] = q
    BY <2>1, AppendFacts DEF IpcTypeOK
  <2>3. IpcTypeOK'
    BY <2>1, <2>2 DEF IpcTypeOK
  <2>4. (\A p \in IpcRequests : Arriving(p)' = Arriving(p) /\ Leaving(p)' = Leaving(p))
    BY <2>1 DEF Arriving, Leaving
  <2>5. /\ \A i \in DOMAIN iqueue : iqueue[i] \in IpcRequests /\ iqueue[i] # q
        /\ \A p \in IpcRequests : iask'[p] = IF p = q THEN "queued" ELSE iask[p]
    BY <2>1 DEF IpcTypeOK, OnceInv
  <2>6. OnceInv'
    <3>1. \A i \in DOMAIN iqueue' : iask'[iqueue'[i]] = "queued"
      BY <2>1, <2>2, <2>5 DEF OnceInv
    <3>2. \A i, j \in DOMAIN iqueue' : iqueue'[i] = iqueue'[j] => i = j
      BY <2>1, <2>2, <2>5 DEF OnceInv
    <3>3. \A p \in IpcRequests : Leaving(p) => p # q
      BY <2>1 DEF OnceInv
    <3> QED BY <2>1, <2>4, <2>5, <3>1, <3>2, <3>3 DEF OnceInv
  <2>7. ArrivalInv'
    BY <2>1, <2>4, <2>5 DEF ArrivalInv
  <2>8. FrameInv'
    BY <2>1 DEF FrameInv, TrueFrame
  <2>9. ToldInv'
    <3>1. ians[q] = "none"
      BY <2>1 DEF ToldInv
    <3> QED BY <2>1, <2>4, <2>5, <3>1, HubIpcAssumption DEF ToldInv
  <2>10. InFlight' = InFlight \cup {q} /\ Load' = Load
    BY <2>1, <2>4, <2>5 DEF InFlight, Load
  <2>11. LimitInv'
    <3>1. /\ IsFiniteSet(InFlight') /\ Cardinality(InFlight) \in Nat
          /\ Cardinality(InFlight') \in {Cardinality(InFlight), Cardinality(InFlight) + 1}
      BY <2>10, FS_AddElement, FS_CardinalityType DEF LimitInv
    <3>2. Cardinality(InFlight') <= MaxInFlight
      BY <2>1, <3>1, HubIpcAssumption
    <3> QED BY <2>1, <2>10, <3>1, <3>2 DEF LimitInv
  <2> QED BY <2>3, <2>6, <2>7, <2>8, <2>9, <2>11
<1>2. CASE ~(ipump.pc # "closed" /\ Cardinality(Permits) < MaxInFlight)
  <2> DEFINE a == IF ipump.pc = "closed" THEN "disconnected" ELSE "busy"
  <2>1. /\ iask' = [iask EXCEPT ![q] = "answered"] /\ ians' = [ians EXCEPT ![q] = a]
        /\ UNCHANGED <<iqueue, iheld, ipump, iout, iback, iserver, itask, idev>>
        /\ iask[q] = "idle" /\ a \in Unsent
    BY <1>2 DEF IpcAsk, ServerSide, Unsent
  <2> HIDE DEF a
  <2>3. IpcTypeOK'
    BY <2>1 DEF IpcTypeOK
  <2>4. (\A p \in IpcRequests : Arriving(p)' = Arriving(p) /\ Leaving(p)' = Leaving(p))
    BY <2>1 DEF Arriving, Leaving
  <2>5. /\ \A i \in DOMAIN iqueue : iqueue[i] \in IpcRequests /\ iqueue[i] # q
        /\ \A p \in IpcRequests : iask'[p] = IF p = q THEN "answered" ELSE iask[p]
        /\ \A p \in IpcRequests : ians'[p] = IF p = q THEN a ELSE ians[p]
    BY <2>1 DEF IpcTypeOK, OnceInv
  <2>6. InFlight' = InFlight /\ Load' = Load
    BY <2>1, <2>4, <2>5 DEF InFlight, Load
  <2>7. OnceInv'
    <3>1. \A p \in IpcRequests : Leaving(p) => p # q
      BY <2>1 DEF OnceInv
    <3> QED BY <2>1, <2>4, <2>5, <2>6, <3>1 DEF OnceInv
  <2>8. ArrivalInv'
    BY <2>1, <2>4, <2>5 DEF ArrivalInv
  <2>9. FrameInv' /\ LimitInv'
    BY <2>1, <2>6 DEF FrameInv, TrueFrame, LimitInv
  <2>10. ToldInv'
    <3>1. ~Arriving(q) /\ ~Leaving(q) /\ itask[q] = "none" /\ a \notin {"ok", "refused", "none"}
      BY <2>1 DEF ArrivalInv, Unsent
    <3> QED BY <2>1, <2>4, <2>5, <3>1, HubIpcAssumption DEF ToldInv
  <2> QED BY <2>3, <2>7, <2>8, <2>9, <2>10
<1> QED BY <1>1, <1>2

LEMMA ForgetKeeps ==
  ASSUME IpcInv, NEW q \in IpcRequests, IpcForget(q)
  PROVE  IpcInv'
<1>1. iheld' \in [IpcRequests -> BOOLEAN]
  BY DEF IpcForget, IpcInv, IpcTypeOK
<1>2. UNCHANGED <<iask, ians, iqueue, ipump, iout, iback, iserver, itask, idev>>
  BY DEF IpcForget, ServerSide
<1> QED
  BY <1>1, <1>2 DEF IpcInv, IpcTypeOK, OnceInv, ArrivalInv, FrameInv, TrueFrame, ToldInv, LimitInv,
                    InFlight, Load, Arriving, Leaving

(* The pump skips a request or begins to write it.                         *)
LEMMA TakeKeeps ==
  ASSUME IpcInv, IpcTake
  PROVE  IpcInv'
<1> USE DEF IpcInv
<1> DEFINE q == Head(iqueue)
<1>1. /\ ipump.pc = "loop" /\ iqueue # <<>> /\ iqueue' = Tail(iqueue)
      /\ UNCHANGED <<iheld, iout, iback, iserver, itask, idev>>
  BY DEF IpcTake, ServerSide
<1>2. /\ iqueue' \in Seq(IpcRequests) /\ q \in IpcRequests
      /\ q = iqueue[1] /\ 1 \in DOMAIN iqueue
      /\ \A i \in DOMAIN iqueue' : i + 1 \in DOMAIN iqueue /\ i + 1 # 1 /\ iqueue'[i] = iqueue[i + 1]
      /\ \A i \in DOMAIN iqueue' : i \in Nat
  BY <1>1, TailFacts DEF IpcTypeOK
<1>3. /\ iask[q] = "queued"
      /\ \A i \in DOMAIN iqueue' : iqueue'[i] # q /\ iask[iqueue'[i]] = "queued"
      /\ \A i, j \in DOMAIN iqueue' : iqueue'[i] = iqueue'[j] => i = j
      /\ ~Arriving(q) /\ ~Leaving(q) /\ itask[q] = "none" /\ ians[q] = "none"
      /\ \A i \in DOMAIN iqueue' : iqueue'[i] \in IpcRequests
  <2>1. iask[q] = "queued"
    BY <1>2 DEF OnceInv
  <2>2. \A i \in DOMAIN iqueue' : iqueue'[i] # q /\ iask[iqueue'[i]] = "queued"
    BY <1>2 DEF OnceInv
  <2>3. \A i, j \in DOMAIN iqueue' : iqueue'[i] = iqueue'[j] => i = j
    <3> SUFFICES ASSUME NEW i \in DOMAIN iqueue', NEW j \in DOMAIN iqueue', iqueue'[i] = iqueue'[j]
                 PROVE  i = j
      OBVIOUS
    <3>1. i + 1 = j + 1
      BY <1>2 DEF OnceInv
    <3> QED BY <1>2, <3>1
  <2>4. ~Arriving(q) /\ ~Leaving(q) /\ itask[q] = "none"
    BY <1>2, <2>1 DEF ArrivalInv
  <2>5. ians[q] = "none"
    BY <1>2, <2>1 DEF ToldInv
  <2> QED BY <1>2, <2>1, <2>2, <2>3, <2>4, <2>5
<1>4. (\A p \in IpcRequests : Arriving(p)' = Arriving(p))
  BY <1>1 DEF Arriving
<1>5. ipump.frame = <<>>
  BY <1>1, PumpType
<1>6. CASE ipump' = ipump
  <2>1. PICK a \in {"skipped", "timeout"} : Answered(q, a)
    BY <1>1, <1>6 DEF IpcTake, Loop
  <2>2. /\ iask' = [iask EXCEPT ![q] = "answered"] /\ ians' = [ians EXCEPT ![q] = a] /\ a \in Unsent
        /\ a \notin {"none", "ok", "refused"}
    BY <2>1 DEF Answered, Unsent
  <2>3. /\ \A p \in IpcRequests : iask'[p] = IF p = q THEN "answered" ELSE iask[p]
        /\ \A p \in IpcRequests : ians'[p] = IF p = q THEN a ELSE ians[p]
        /\ \A p \in IpcRequests : Leaving(p)' = Leaving(p)
    BY <1>6, <2>2 DEF IpcTypeOK, Leaving
  <2>4. IpcTypeOK'
    BY <1>1, <1>2, <1>6, <2>2 DEF IpcTypeOK
  <2>5. OnceInv'
    BY <1>1, <1>3, <1>4, <1>6, <2>3 DEF OnceInv
  <2>6. ArrivalInv' /\ FrameInv'
    BY <1>1, <1>4, <2>3 DEF ArrivalInv, FrameInv, TrueFrame
  <2>7. ToldInv'
    BY <1>1, <1>2, <1>3, <1>4, <2>2, <2>3, HubIpcAssumption DEF ToldInv
  <2>8. Load' = Load /\ InFlight' \subseteq InFlight /\ InFlight' = InFlight \ {q} /\ q \notin Load
    BY <1>1, <1>3, <1>4, <2>3 DEF Load, InFlight
  <2>9. LimitInv'
    BY <1>6, <2>8, FlightShrinks DEF LimitInv
  <2> QED BY <2>4, <2>5, <2>6, <2>7, <2>9
<1>7. CASE ipump' # ipump
  <2>1. /\ iask' = [iask EXCEPT ![q] = "written"] /\ ians' = ians
        /\ ipump' = [pc |-> "writing", frame |-> <<q>>]
    BY <1>7 DEF IpcTake
  <2>2. \A p \in IpcRequests : iask'[p] = IF p = q THEN "written" ELSE iask[p]
    BY <2>1 DEF IpcTypeOK
  <2>3. /\ ipump'.pc = "writing"
        /\ \A p \in IpcRequests : ~Leaving(p) /\ (Leaving(p)' <=> p = q)
    BY <1>5, <2>1 DEF Leaving
  <2>4. IpcTypeOK'
    BY <1>1, <1>2, <2>1 DEF IpcTypeOK
  <2>5. OnceInv'
    BY <1>1, <1>2, <1>3, <1>4, <2>2, <2>3 DEF OnceInv
  <2>6. ArrivalInv'
    BY <1>1, <1>3, <1>4, <2>2, <2>3 DEF ArrivalInv
  <2>7. FrameInv'
    BY <1>1 DEF FrameInv, TrueFrame
  <2>8. ToldInv'
    BY <1>1, <1>3, <1>4, <2>1, <2>2, <2>3, HubIpcAssumption DEF ToldInv, Unsent
  <2>9. InFlight' = InFlight /\ q \in InFlight
    BY <1>2, <1>3, <2>2 DEF InFlight
  <2>10. Load' \subseteq InFlight'
    BY <1>1, <1>4, <2>3, <2>9 DEF Load, LimitInv
  <2>11. LimitInv'
    BY <2>9, <2>10, FlightShrinks DEF LimitInv
  <2> QED BY <2>4, <2>5, <2>6, <2>7, <2>8, <2>11
<1> QED BY <1>6, <1>7

(* The request whose frame is whole or cut off in the stream was on its    *)
(* way before.                                                             *)
LEMMA FrameSent ==
  ASSUME IpcInv, iout' \in {iout, iout \o ipump.frame}, ipump'.frame = <<>>
  PROVE  /\ iout' \in Seq(IpcRequests)
         /\ \A p \in IpcRequests : Arriving(p)' => Arriving(p) \/ Leaving(p)
         /\ \A p \in IpcRequests : ~Leaving(p)'
         /\ \A i, j \in DOMAIN iout' : iout'[i] = iout'[j] => i = j
<1> USE DEF IpcInv
<1>1. \A p \in IpcRequests : ~Leaving(p)'
  BY DEF Leaving
<1>2. CASE iout' = iout
  BY <1>1, <1>2 DEF Arriving, IpcTypeOK, OnceInv
<1>3. CASE iout' = iout \o ipump.frame /\ iout' # iout
  <2>1. ipump.frame # <<>>
    BY <1>3, JoinFacts DEF IpcTypeOK
  <2>2. PICK q \in IpcRequests : ipump.frame = <<q>>
    BY <2>1, PumpType
  <2>3. iout' = Append(iout, q)
    BY <1>3, <2>2, JoinFacts DEF IpcTypeOK
  <2>4. /\ iout' \in Seq(IpcRequests)
        /\ \A i \in DOMAIN iout' :
              \/ i \in DOMAIN iout /\ iout'[i] = iout[i]
              \/ i = Len(iout) + 1 /\ i \notin DOMAIN iout /\ iout'[i] = q
    BY <2>3, AppendFacts DEF IpcTypeOK
  <2>5. Leaving(q) /\ ~Arriving(q)
    BY <2>2 DEF Leaving, OnceInv
  <2>6. \A p \in IpcRequests : Arriving(p)' => Arriving(p) \/ Leaving(p)
    BY <2>4, <2>5 DEF Arriving
  <2>7. \A i, j \in DOMAIN iout' : iout'[i] = iout'[j] => i = j
    BY <2>4, <2>5 DEF Arriving, OnceInv
  <2> QED BY <1>1, <2>4, <2>6, <2>7
<1> QED BY <1>2, <1>3

LEMMA WrittenKeeps ==
  ASSUME IpcInv, IpcWritten
  PROVE  IpcInv'
<1> USE DEF IpcInv
<1>1. /\ iout' = iout \o ipump.frame /\ ipump' = Loop /\ ipump.pc = "writing"
      /\ UNCHANGED <<iask, iheld, ians, iqueue, iback, iserver, itask, idev>>
      /\ ipump'.frame = <<>> /\ ipump'.pc = "loop"
  BY DEF IpcWritten, Loop
<1>2. /\ iout' \in Seq(IpcRequests)
      /\ \A p \in IpcRequests : Arriving(p)' => Arriving(p) \/ Leaving(p)
      /\ \A p \in IpcRequests : ~Leaving(p)'
      /\ \A i, j \in DOMAIN iout' : iout'[i] = iout'[j] => i = j
  BY <1>1, FrameSent
<1>3. IpcTypeOK'
  BY <1>1, <1>2 DEF IpcTypeOK
<1>4. OnceInv'
  BY <1>1, <1>2 DEF OnceInv
<1>5. ArrivalInv' /\ FrameInv'
  BY <1>1, <1>2 DEF ArrivalInv, FrameInv, TrueFrame
<1>6. ToldInv'
  BY <1>1, <1>2, HubIpcAssumption DEF ToldInv
<1>7. InFlight' = InFlight /\ Load' \subseteq Load
  BY <1>1, <1>2 DEF InFlight, Load
<1>8. LimitInv'
  BY <1>1, <1>7, LoadShrinks DEF LimitInv
<1> QED BY <1>3, <1>4, <1>5, <1>6, <1>8

(* An answer is handed to its caller.                                      *)
LEMMA HearKeeps ==
  ASSUME IpcInv, IpcHear
  PROVE  IpcInv'
<1> USE DEF IpcInv
<1> DEFINE q == iback[1][1]  a == iback[1][2]
<1>1. /\ ipump.pc = "loop" /\ iback # <<>> /\ iback' = Tail(iback) /\ iask[q] = "written"
      /\ iask' = [iask EXCEPT ![q] = "answered"] /\ ians' = [ians EXCEPT ![q] = a]
      /\ UNCHANGED <<iheld, iqueue, ipump, iout, iserver, itask, idev>>
  BY DEF IpcHear, Answered
<1>2. /\ iback' \in Seq(Frames) /\ 1 \in DOMAIN iback /\ iback[1] \in Frames
      /\ \A i \in DOMAIN iback' : i + 1 \in DOMAIN iback /\ iback'[i] = iback[i + 1]
  BY <1>1, TailFacts DEF IpcTypeOK
<1>3. q \in IpcRequests /\ a \in Replies
  BY <1>2 DEF Frames
<1> HIDE DEF q, a
<1>4. /\ itask[q] = "ended"
      /\ a = "ok" => idev[q] = "done"
      /\ a = "refused" => idev[q] \in {"untouched", "refused"}
      /\ a = "late" => q \notin Mutating
  BY <1>2 DEF FrameInv, TrueFrame, q, a
<1>5. ~Arriving(q) /\ ~Leaving(q)
  BY <1>3, <1>4 DEF ArrivalInv
<1>6. /\ \A p \in IpcRequests : iask'[p] = IF p = q THEN "answered" ELSE iask[p]
      /\ \A p \in IpcRequests : ians'[p] = IF p = q THEN a ELSE ians[p]
      /\ \A p \in IpcRequests : (Leaving(p)' = Leaving(p)) /\ (Arriving(p)' = Arriving(p))
  BY <1>1 DEF IpcTypeOK, Leaving, Arriving
<1>7. IpcTypeOK'
  BY <1>1, <1>2, <1>3 DEF IpcTypeOK
<1>8. OnceInv'
  <2>1. \A i \in DOMAIN iqueue : iqueue[i] \in IpcRequests /\ iqueue[i] # q
    BY <1>1 DEF IpcTypeOK, OnceInv
  <2> QED BY <1>1, <1>5, <1>6, <2>1 DEF OnceInv
<1>9. ArrivalInv'
  BY <1>1, <1>6 DEF ArrivalInv
<1>10. FrameInv'
  BY <1>1, <1>2 DEF FrameInv, TrueFrame
<1>11. ToldInv'
  <2>1. a \notin Unsent
    BY <1>3 DEF Replies, Unsent
  <2> QED BY <1>1, <1>3, <1>4, <1>6, <2>1, HubIpcAssumption DEF ToldInv
<1>12. Load' = Load /\ InFlight' = InFlight \ {q} /\ q \notin Load
  BY <1>1, <1>4, <1>5, <1>6 DEF Load, InFlight
<1>13. LimitInv'
  BY <1>1, <1>12, FlightShrinks DEF LimitInv
<1> QED BY <1>7, <1>8, <1>9, <1>10, <1>11, <1>13

(* Every caller is told, and may be in doubt.                              *)
LEMMA BreakKeeps ==
  ASSUME IpcInv, IpcBreak
  PROVE  IpcInv'
<1> USE DEF IpcInv
<1>1. /\ ipump.pc # "closed" /\ ipump' = Gone /\ iout' \in {iout, iout \o ipump.frame}
      /\ iask' = [q \in IpcRequests |-> IF q \in InFlight THEN "answered" ELSE iask[q]]
      /\ ians' = [q \in IpcRequests |-> IF q \in InFlight THEN LostAnswer(q) ELSE ians[q]]
      /\ iqueue' = <<>> /\ UNCHANGED <<iheld, iback, iserver, itask, idev>>
      /\ ipump'.frame = <<>> /\ ipump'.pc = "closed"
  BY DEF IpcBreak, Gone
<1>2. /\ iout' \in Seq(IpcRequests)
      /\ \A p \in IpcRequests : Arriving(p)' => Arriving(p) \/ Leaving(p)
      /\ \A p \in IpcRequests : ~Leaving(p)'
      /\ \A i, j \in DOMAIN iout' : iout'[i] = iout'[j] => i = j
  BY <1>1, FrameSent
<1>3. /\ \A p \in IpcRequests : iask'[p] = IF p \in InFlight THEN "answered" ELSE iask[p]
      /\ \A p \in IpcRequests : ians'[p] = IF p \in InFlight THEN LostAnswer(p) ELSE ians[p]
  BY <1>1
<1>4. \A p \in IpcRequests :
        /\ LostAnswer(p) \in {"disconnected", "uncertain", "timeout"}
        /\ LostAnswer(p) = "timeout" => p \notin Mutating
        /\ LostAnswer(p) = "disconnected" => iask[p] = "queued"
  BY DEF LostAnswer
<1>5. IpcTypeOK'
  <2>1. iask' \in [IpcRequests -> {"idle", "queued", "written", "answered"}]
    BY <1>1 DEF IpcTypeOK
  <2>2. ians' \in [IpcRequests -> {"none"} \cup Unsent \cup Replies]
    BY <1>1, <1>4 DEF IpcTypeOK, Unsent, Replies
  <2> QED BY <1>1, <1>2, <2>1, <2>2 DEF IpcTypeOK
<1>6. InFlight' = {}
  BY <1>3 DEF InFlight
<1>7. OnceInv'
  BY <1>1, <1>2, <1>6 DEF OnceInv
<1>8. \A p \in IpcRequests : iask'[p] \in {"idle", "queued"} => iask[p] = "idle"
  BY <1>3 DEF InFlight, IpcTypeOK
<1>9. ArrivalInv'
  BY <1>1, <1>2, <1>8 DEF ArrivalInv
<1>10. FrameInv'
  BY <1>1 DEF FrameInv, TrueFrame
<1>11. ToldInv'
  <2>1. ASSUME NEW p \in IpcRequests, ians'[p] # "none"
        PROVE  iask'[p] = "answered"
    BY <1>3, <2>1 DEF ToldInv
  <2>2. ASSUME NEW p \in Mutating, p \in InFlight
        PROVE  /\ ians'[p] \in {"disconnected", "uncertain"}
               /\ ians'[p] = "disconnected" => ~Arriving(p) /\ ~Leaving(p) /\ itask[p] = "none"
    BY <1>3, <1>4, <2>2, HubIpcAssumption DEF ArrivalInv
  <2>3. ASSUME NEW p \in Mutating
        PROVE  /\ ians'[p] \in Unsent => ~Arriving(p)' /\ ~Leaving(p)' /\ itask'[p] = "none"
               /\ ians'[p] = "refused" => itask'[p] = "ended" /\ idev'[p] \in {"untouched", "refused"}
               /\ ians'[p] = "ok" => itask'[p] = "ended" /\ idev'[p] = "done"
    <3>1. p \in IpcRequests
      BY HubIpcAssumption
    <3>2. CASE p \in InFlight
      BY <1>1, <1>2, <2>2, <3>1, <3>2 DEF Unsent
    <3>3. CASE p \notin InFlight
      BY <1>1, <1>2, <1>3, <3>1, <3>3 DEF ToldInv
    <3> QED BY <3>2, <3>3
  <2> QED BY <2>1, <2>3 DEF ToldInv
<1>12. Load' \subseteq Load
  BY <1>1, <1>2 DEF Load
<1>13. LimitInv'
  BY <1>1, <1>6, <1>12, LoadShrinks, FS_EmptySet, HubIpcAssumption DEF LimitInv
<1> QED BY <1>5, <1>7, <1>9, <1>10, <1>11, <1>13

(* The server never has more to do than it has room for: the client keeps  *)
(* the permits of requests whose callers gave up.                          *)
LEMMA ServeKeeps ==
  ASSUME IpcInv, IpcServe
  PROVE  IpcInv'
<1> USE DEF IpcInv
<1> DEFINE q == Head(iout)
<1>1. /\ iserver.pc = "loop" /\ iout # <<>> /\ iout' = Tail(iout)
      /\ UNCHANGED <<iask, iheld, ians, iqueue, ipump, iback>>
  BY DEF IpcServe, ClientSide
<1>2. /\ iout' \in Seq(IpcRequests) /\ q \in IpcRequests
      /\ q = iout[1] /\ 1 \in DOMAIN iout
      /\ \A i \in DOMAIN iout' : i + 1 \in DOMAIN iout /\ i + 1 # 1 /\ iout'[i] = iout[i + 1]
      /\ \A i \in DOMAIN iout' : i \in Nat
  BY <1>1, TailFacts DEF IpcTypeOK
<1>3. Arriving(q) /\ ~Leaving(q) /\ itask[q] = "none" /\ idev[q] = "untouched"
  <2>1. Arriving(q)
    BY <1>2 DEF Arriving
  <2> QED BY <1>2, <2>1 DEF ArrivalInv, OnceInv
<1>4. /\ iask[q] \notin {"idle", "queued"}
      /\ q \in Mutating => ians[q] \notin Unsent \cup {"ok", "refused"}
  BY <1>2, <1>3 DEF ArrivalInv, ToldInv
<1>5. \A i \in DOMAIN iout' : iout'[i] # q
  BY <1>2 DEF OnceInv
<1>6. \A i, j \in DOMAIN iout' : iout'[i] = iout'[j] => i = j
  <2> SUFFICES ASSUME NEW i \in DOMAIN iout', NEW j \in DOMAIN iout', iout'[i] = iout'[j]
               PROVE  i = j
    OBVIOUS
  <2>1. i + 1 = j + 1
    BY <1>2 DEF OnceInv
  <2> QED BY <1>2, <2>1
<1>7. /\ \A p \in IpcRequests : Arriving(p)' => Arriving(p) /\ p # q
      /\ \A p \in IpcRequests : Leaving(p)' = Leaving(p)
  BY <1>1, <1>2, <1>5 DEF Arriving, Leaving
<1>8. Cardinality(Operating) < MaxInFlight
  <2>1. Operating \subseteq Load \ {q} /\ q \in Load
    BY <1>2, <1>3 DEF Operating, Load
  <2>2. /\ IsFiniteSet(Load \ {q}) /\ Cardinality(Load \ {q}) = Cardinality(Load) - 1
        /\ Cardinality(Load) \in Nat
    BY <2>1, FS_RemoveElement, FS_CardinalityType DEF LimitInv
  <2>3. IsFiniteSet(Operating) /\ Cardinality(Operating) <= Cardinality(Load \ {q})
    BY <2>1, <2>2, FS_Subset
  <2>4. Cardinality(Operating) \in Nat /\ MaxInFlight \in Nat /\ Cardinality(Load) <= MaxInFlight
    BY <2>3, FS_CardinalityType, HubIpcAssumption DEF LimitInv
  <2> QED BY <2>2, <2>3, <2>4
<1>9. PICK t \in {"running", "ended"} :
        /\ itask' = [itask EXCEPT ![q] = t]
        /\ idev' = IF t = "running" THEN [idev EXCEPT ![q] = "submitted"] ELSE idev
        /\ t = "running" => iserver' = iserver
        /\ t = "ended" => iserver' = [pc |-> "writing", frame |-> <<q, "refused">>]
  <2>1. ~(Cardinality(Operating) >= MaxInFlight)
    <3>1. Cardinality(Operating) \in Nat /\ MaxInFlight \in Nat
      <4>1. Operating \subseteq Load
        BY DEF Operating, Load
      <4> QED BY <4>1, FS_Subset, FS_CardinalityType, HubIpcAssumption DEF LimitInv
    <3> QED BY <1>8, <3>1
  <2> QED BY <2>1 DEF IpcServe
<1>10. /\ \A p \in IpcRequests : itask'[p] = IF p = q THEN t ELSE itask[p]
       /\ \A p \in IpcRequests : p # q => idev'[p] = idev[p]
       /\ idev'[q] = IF t = "running" THEN "submitted" ELSE "untouched"
  BY <1>2, <1>3, <1>9 DEF IpcTypeOK
<1> HIDE DEF q
<1>11. IpcTypeOK'
  <2>1. <<q, "refused">> \in Frames
    BY <1>2 DEF Frames, Replies
  <2>2. iserver' \in {Loop, Gone} \cup [pc : {"writing"}, frame : Frames]
    <3>1. CASE t = "running"
      BY <1>9, <3>1 DEF IpcTypeOK
    <3>2. CASE t = "ended"
      BY <1>9, <2>1, <3>2
    <3> QED BY <3>1, <3>2
  <2> QED BY <1>1, <1>2, <1>9, <2>2 DEF IpcTypeOK
<1>12. OnceInv'
  <2>1. InFlight' = InFlight
    BY <1>1 DEF InFlight
  <2> QED BY <1>1, <1>6, <1>7, <2>1 DEF OnceInv
<1>13. ArrivalInv'
  BY <1>1, <1>2, <1>3, <1>4, <1>7, <1>10 DEF ArrivalInv
<1>14. FrameInv'
  <2>1. ASSUME NEW f \in Frames, TrueFrame(f) PROVE TrueFrame(f)'
    <3>1. f[1] \in IpcRequests /\ f[1] # q
      BY <1>3, <2>1 DEF Frames, TrueFrame
    <3> QED BY <1>10, <2>1, <3>1 DEF TrueFrame
  <2>2. \A i \in DOMAIN iback : iback[i] \in Frames
    BY DEF IpcTypeOK
  <2>3. iserver'.pc = "writing" => TrueFrame(iserver.frame)'
    <3>1. CASE t = "running"
      BY <1>1, <1>9, <3>1
    <3>2. CASE t = "ended"
      <4>1. iserver'.frame = <<q, "refused">>
        BY <1>9, <3>2
      <4>2. iserver'.frame[1] = q /\ iserver'.frame[2] = "refused"
        BY <4>1
      <4>3. itask'[q] = "ended" /\ idev'[q] = "untouched"
        BY <1>2, <1>10, <3>2
      <4> QED BY <4>2, <4>3 DEF TrueFrame
    <3> QED BY <3>1, <3>2
  <2>4. \A i \in DOMAIN iback : iback'[i] = iback[i] /\ TrueFrame(iback[i])
    BY <1>1 DEF FrameInv
  <2>5. \A i \in DOMAIN iback' : TrueFrame(iback[i])'
    BY <1>1, <2>1, <2>2, <2>4
  <2> QED BY <2>3, <2>5 DEF FrameInv
<1>15. ToldInv'
  <2>1. ASSUME NEW p \in Mutating
        PROVE  /\ ians'[p] \in Unsent => ~Arriving(p)' /\ ~Leaving(p)' /\ itask'[p] = "none"
               /\ ians'[p] = "refused" => itask'[p] = "ended" /\ idev'[p] \in {"untouched", "refused"}
               /\ ians'[p] = "ok" => itask'[p] = "ended" /\ idev'[p] = "done"
    <3>1. p \in IpcRequests
      BY HubIpcAssumption
    <3>2. CASE p = q
      BY <1>1, <1>4, <3>2
    <3>3. CASE p # q
      BY <1>1, <1>7, <1>10, <3>1, <3>3 DEF ToldInv
    <3> QED BY <3>2, <3>3
  <2> QED BY <1>1, <2>1 DEF ToldInv
<1>16. InFlight' = InFlight /\ Load' \subseteq Load
  <2>1. q \in Load
    BY <1>2, <1>3 DEF Load
  <2> QED BY <1>1, <1>7, <1>10, <2>1 DEF InFlight, Load
<1>17. LimitInv'
  BY <1>1, <1>16, LoadShrinks DEF LimitInv
<1> QED BY <1>11, <1>12, <1>13, <1>14, <1>15, <1>17

LEMMA DeviceKeeps ==
  ASSUME IpcInv, NEW q \in IpcRequests, IpcDevice(q)
  PROVE  IpcInv'
<1> USE DEF IpcInv
<1>1. PICK d \in {"done", "refused"} : idev' = [idev EXCEPT ![q] = d]
  BY DEF IpcDevice
<1>2. /\ UNCHANGED <<iask, iheld, ians, iqueue, ipump, iout, iback, iserver, itask>>
      /\ idev[q] = "submitted"
  BY DEF IpcDevice, ClientSide
<1>3. \A p \in IpcRequests : idev'[p] = IF p = q THEN d ELSE idev[p]
  BY <1>1 DEF IpcTypeOK
<1>4. /\ \A p \in IpcRequests : (Leaving(p)' = Leaving(p)) /\ (Arriving(p)' = Arriving(p))
      /\ InFlight' = InFlight /\ Load' = Load
  BY <1>2 DEF Leaving, Arriving, InFlight, Load
<1>5. IpcTypeOK' /\ OnceInv' /\ LimitInv'
  BY <1>1, <1>2, <1>4 DEF IpcTypeOK, OnceInv, LimitInv
<1>6. ArrivalInv'
  BY <1>2, <1>3, <1>4 DEF ArrivalInv
<1>7. FrameInv'
  <2>1. ASSUME NEW f \in Frames, TrueFrame(f) PROVE TrueFrame(f)'
    <3>1. f[1] \in IpcRequests
      BY DEF Frames
    <3> QED BY <1>2, <1>3, <2>1, <3>1 DEF TrueFrame
  <2>2. \A i \in DOMAIN iback : iback[i] \in Frames
    BY DEF IpcTypeOK
  <2>3. iserver.pc = "writing" => iserver.frame \in Frames
    BY ServerType
  <2> QED BY <1>2, <2>1, <2>2, <2>3 DEF FrameInv, TrueFrame
<1>8. ToldInv'
  BY <1>2, <1>3, <1>4, HubIpcAssumption DEF ToldInv
<1> QED BY <1>5, <1>6, <1>7, <1>8

(* What dispatch_bounded answers is so.                                    *)
LEMMA OutcomeTrue ==
  ASSUME NEW q, NEW a \in Outcome(q)
  PROVE  /\ a \in Replies
         /\ a = "ok" => idev[q] = "done"
         /\ a = "refused" => idev[q] = "refused"
         /\ a = "late" => q \notin Mutating
<1>1. CASE idev[q] = "done"
  BY <1>1 DEF Outcome, Replies
<1>2. CASE idev[q] = "refused"
  BY <1>2 DEF Outcome, Replies
<1>3. CASE idev[q] # "done" /\ idev[q] # "refused"
  BY <1>3 DEF Outcome, Replies
<1> QED BY <1>1, <1>2, <1>3

LEMMA EndsKeeps ==
  ASSUME IpcInv, NEW q \in IpcRequests, IpcEnds(q)
  PROVE  IpcInv'
<1> USE DEF IpcInv
<1>1. PICK a \in Outcome(q) : iserver' = [pc |-> "writing", frame |-> <<q, a>>]
  BY DEF IpcEnds
<1>2. /\ UNCHANGED <<iask, iheld, ians, iqueue, ipump, iout, iback, idev>>
      /\ iserver.pc = "loop" /\ itask[q] = "running"
      /\ itask' = [itask EXCEPT ![q] = "ended"]
  BY DEF IpcEnds, ClientSide
<1>3. \A p \in IpcRequests : itask'[p] = IF p = q THEN "ended" ELSE itask[p]
  BY <1>2 DEF IpcTypeOK
<1>4. /\ \A p \in IpcRequests : (Leaving(p)' = Leaving(p)) /\ (Arriving(p)' = Arriving(p))
      /\ InFlight' = InFlight
  BY <1>2 DEF Leaving, Arriving, InFlight
<1>5. /\ a \in Replies
      /\ a = "ok" => idev[q] = "done"
      /\ a = "refused" => idev[q] = "refused"
      /\ a = "late" => q \notin Mutating
  BY OutcomeTrue
<1>6. IpcTypeOK'
  <2>1. <<q, a>> \in Frames
    BY <1>5 DEF Frames
  <2> QED BY <1>1, <1>2, <2>1 DEF IpcTypeOK
<1>7. OnceInv' /\ ArrivalInv'
  BY <1>2, <1>3, <1>4 DEF OnceInv, ArrivalInv
<1>8. FrameInv'
  <2>1. ASSUME NEW f \in Frames, TrueFrame(f) PROVE TrueFrame(f)'
    <3>1. f[1] \in IpcRequests
      BY DEF Frames
    <3> QED BY <1>2, <1>3, <2>1, <3>1 DEF TrueFrame
  <2>2. \A i \in DOMAIN iback : iback[i] \in Frames
    BY DEF IpcTypeOK
  <2>3. TrueFrame(<<q, a>>)'
    BY <1>2, <1>3, <1>5, OutcomeTrue DEF TrueFrame
  <2> QED BY <1>1, <1>2, <2>1, <2>2, <2>3 DEF FrameInv, TrueFrame
<1>9. ToldInv'
  BY <1>2, <1>3, <1>4, HubIpcAssumption DEF ToldInv
<1>10. Load' \subseteq Load
  BY <1>3, <1>4 DEF Load
<1>11. LimitInv'
  BY <1>2, <1>4, <1>10, LoadShrinks DEF LimitInv
<1> QED BY <1>6, <1>7, <1>8, <1>9, <1>11

LEMMA RespondKeeps ==
  ASSUME IpcInv, IpcRespond
  PROVE  IpcInv'
<1> USE DEF IpcInv
<1>1. /\ iserver.pc = "writing" /\ iback' = Append(iback, iserver.frame) /\ iserver' = Loop
      /\ UNCHANGED <<iask, iheld, ians, iqueue, ipump, iout, itask, idev>>
      /\ iserver'.pc = "loop"
  BY DEF IpcRespond, ClientSide, Loop
<1>2. iserver.frame \in Frames
  BY <1>1, ServerType
<1>3. /\ iback' \in Seq(Frames)
      /\ \A i \in DOMAIN iback' : iback'[i] = iserver.frame \/ (i \in DOMAIN iback /\ iback'[i] = iback[i])
  BY <1>1, <1>2, AppendFacts DEF IpcTypeOK
<1>4. FrameInv'
  BY <1>1, <1>3 DEF FrameInv, TrueFrame
<1>5. IpcTypeOK'
  BY <1>1, <1>3 DEF IpcTypeOK
<1> QED
  BY <1>1, <1>4, <1>5 DEF OnceInv, ArrivalInv, ToldInv, LimitInv, InFlight, Load, Arriving, Leaving

LEMMA ServerEndsKeeps ==
  ASSUME IpcInv, IpcServerEnds
  PROVE  IpcInv'
<1> USE DEF IpcInv
<1>1. /\ iserver' = Gone /\ iserver'.pc = "closed"
      /\ itask' = [q \in IpcRequests |-> IF q \in Operating THEN "dropped" ELSE itask[q]]
      /\ UNCHANGED <<iask, iheld, ians, iqueue, ipump, iout, iback, idev>>
  BY DEF IpcServerEnds, ClientSide, Gone
<1>2. \A q \in IpcRequests : itask'[q] = IF itask[q] = "running" THEN "dropped" ELSE itask[q]
  BY <1>1 DEF Operating
<1>3. /\ \A p \in IpcRequests : (Leaving(p)' = Leaving(p)) /\ (Arriving(p)' = Arriving(p))
      /\ InFlight' = InFlight
  BY <1>1 DEF Leaving, Arriving, InFlight
<1>4. IpcTypeOK'
  BY <1>1 DEF IpcTypeOK
<1>5. OnceInv' /\ ArrivalInv'
  BY <1>1, <1>2, <1>3 DEF OnceInv, ArrivalInv
<1>6. FrameInv'
  <2>1. \A i \in DOMAIN iback : iback[i] \in Frames
    BY DEF IpcTypeOK
  <2>2. ASSUME NEW f \in Frames, TrueFrame(f) PROVE TrueFrame(f)'
    <3>1. f[1] \in IpcRequests
      BY DEF Frames
    <3> QED BY <1>1, <1>2, <2>2, <3>1 DEF TrueFrame
  <2> QED BY <1>1, <2>1, <2>2 DEF FrameInv, TrueFrame
<1>7. ToldInv'
  BY <1>1, <1>2, <1>3, HubIpcAssumption DEF ToldInv
<1>8. Load' \subseteq Load
  BY <1>2, <1>3 DEF Load
<1>9. LimitInv'
  BY <1>1, <1>3, <1>8, LoadShrinks DEF LimitInv
<1> QED BY <1>4, <1>5, <1>6, <1>7, <1>9

(* For any requests, any limit of requests in flight and any pipe: callers *)
(* are told the truth about what changes something, however the stream     *)
(* breaks, and giving up does not exceed the server's limit (client.rs     *)
(* pump, close; ipc.rs).                                                   *)
THEOREM IpcAnswersHold == IpcSpec => []IpcAnswersTrue
<1>1. IpcInv /\ [IpcNext]_ipcVars => IpcInv'
  <2> SUFFICES ASSUME IpcInv, [IpcNext]_ipcVars PROVE IpcInv'
    OBVIOUS
  <2>1. CASE IpcNext
    BY <2>1, AskKeeps, ForgetKeeps, DeviceKeeps, TakeKeeps, WrittenKeeps, HearKeeps, BreakKeeps,
       ServeKeeps, RespondKeeps, ServerEndsKeeps, EndsKeeps
       DEF IpcNext, IpcServer
  <2>2. CASE UNCHANGED ipcVars
    BY <2>2 DEF ipcVars, IpcInv, IpcTypeOK, OnceInv, ArrivalInv, FrameInv, TrueFrame, ToldInv,
                LimitInv, InFlight, Load, Arriving, Leaving
  <2> QED BY <2>1, <2>2
<1>2. IpcInv => IpcAnswersTrue
  <2> SUFFICES ASSUME IpcInv PROVE IpcAnswersTrue
    OBVIOUS
  <2>1. iserver.frame # <<"overloaded">>
    <3>1. <<"overloaded">> \notin Frames /\ <<"overloaded">> # <<>>
      BY DEF Frames
    <3> QED BY <3>1, ServerType DEF IpcInv
  <2>2. ASSUME NEW q \in Mutating
        PROVE  /\ ians[q] \in Unsent \cup {"refused"} =>
                    idev[q] \in {"untouched", "refused"} /\ ~Arriving(q)
               /\ ians[q] = "ok" => idev[q] = "done"
    BY HubIpcAssumption DEF IpcInv, ToldInv, ArrivalInv
  <2> QED BY <2>1, <2>2 DEF IpcAnswersTrue, Unsent, Arriving
<1> QED BY <1>1, <1>2, InitIpc, PTL DEF IpcSpec

-----------------------------------------------------------------------------
(* The pipe of the USB reset helper                                        *)

UbKinds == {"none", "recover", "revoke", "stop", "prepare"}
Cams == UbCameras \cup {AnyCamera}
Calls ==
  [kind : UbKinds, cam : Cams, gen : Nat, deadline : Nat, until : Nat, id : Nat,
   phase : {"over", "asks", "sent", "polls"},
   told : {"nothing", "done", "refused", "failed", "reset", "unknown"}]
Helpers ==
  [phase : {"none", "idle", "received", "searches", "awaits return", "answers", "acknowledged"},
   request : Calls, approved : SUBSET Cams, until : Int,
   answer : {"none", "done", "refused", "failed", "reset"}, stop : BOOLEAN]
Boots == [phase : {"none", "prompt", "asks", "alone"}, deadline : Nat, cam : Cams, gen : Nat]

UbTypeOK ==
  /\ ubNow \in Nat
  /\ ubCall \in [UbClients -> Calls] /\ ubHelper \in Helpers /\ ubBoot \in [UbClients -> Boots]
  /\ ubConsent \in SUBSET Cams

Cycled(n) == \E r \in ubCycles : r.by = n

(* Requests are numbered as they are made, whoever makes them.             *)
IssuedInv ==
  /\ \E n \in 0 .. MaxUbRequests :
       /\ \A c \in UbClients : ubCall[c].id <= n
       /\ n = 0 \/ \E c \in UbClients : ubCall[c].id = n
  /\ \A c \in UbClients : ubCall[c].phase # "over" => ubCall[c].id # 0 /\ ubCall[c].told = "nothing"
  /\ \A c, d \in UbClients : ubCall[c].id = ubCall[d].id /\ ubCall[c].id # 0 => c = d
  /\ Request.id <= Issued
  /\ \A r \in ubCycles : r.by \in 1 .. Issued

(* The request that is served is its client's, or nobody's any more.       *)
ServedInv ==
  /\ ubHelper.phase \in {"none", "idle"} => Request.id = 0 /\ ~ubHelper.stop
  /\ ubHelper.phase \notin {"none", "idle"} => Request.id # 0
  /\ \A c \in UbClients :
       /\ ubCall[c].phase = "asks" => ubCall[c].id # Request.id
       /\ Attends(c) => ubCall[c].kind = Request.kind /\ ubCall[c].cam = Request.cam

(* Whom the helper approves of, the user approved; one who was told of a   *)
(* revocation is not cycled.                                               *)
ConsentInv ==
  /\ ubHelper.phase = "none" => ubHelper.approved = {}
  /\ \/ ubHelper.approved \subseteq ubConsent
     \/ ubHelper.stop /\ ubHelper.phase = "acknowledged"
  /\ ubHelper.phase = "searches" => Request.cam \in ubHelper.approved
  /\ ubHelper.phase = "answers" /\ ubHelper.answer = "done" =>
       \/ Request.kind = "revoke" /\ Request.cam \notin ubHelper.approved
       \/ Request.kind = "stop" /\ ubHelper.stop

(* A request is carried out once, and its answer says so.                  *)
CycleInv ==
  /\ \A r \in ubCycles : r.hit = r.named /\ ~r.late /\ r.wanted
  /\ \A r, q \in ubCycles : r.by = q.by => r = q
  /\ ubHelper.phase \in {"received", "searches"} => ~Cycled(Request.id)
  /\ ubHelper.phase = "awaits return" => Cycled(Request.id)
  /\ ubHelper.phase = "answers" =>
       /\ ubHelper.answer # "none"
       /\ ubHelper.answer = "reset" => Cycled(Request.id)
       /\ ubHelper.answer = "refused" => ~Cycled(Request.id)

AnswerInv ==
  \A c \in UbClients :
    /\ ubCall[c].phase = "asks" => ~Cycled(ubCall[c].id)
    /\ ubCall[c].told = "reset" => Cycled(ubCall[c].id)
    /\ ubCall[c].told = "refused" =>
         /\ ~Cycled(ubCall[c].id)
         /\ ubCall[c].id = Request.id => ubHelper.phase \notin {"received", "searches"}

UbInv == UbTypeOK /\ IssuedInv /\ ServedInv /\ ConsentInv /\ CycleInv /\ AnswerInv

Tellings == {"nothing", "done", "refused", "failed", "reset", "unknown"}

LEMMA IssuedIs ==
  ASSUME NEW call \in [UbClients -> Calls], NEW n \in 0 .. MaxUbRequests,
         \A c \in UbClients : call[c].id <= n,
         n = 0 \/ \E c \in UbClients : call[c].id = n
  PROVE  (CHOOSE m \in 0 .. MaxUbRequests :
            /\ \A c \in UbClients : call[c].id <= m
            /\ m = 0 \/ \E c \in UbClients : call[c].id = m) = n
<1> DEFINE P(m) == /\ \A c \in UbClients : call[c].id <= m
                   /\ m = 0 \/ \E c \in UbClients : call[c].id = m
<1>1. \A c \in UbClients : call[c].id \in Nat
  BY DEF Calls
<1>2. ASSUME NEW m \in 0 .. MaxUbRequests, P(m) PROVE m = n
  <2>1. m <= n
    BY <1>1, <1>2, UbAssumption
  <2>2. n <= m
    BY <1>1, <1>2, UbAssumption
  <2> QED BY <2>1, <2>2, UbAssumption
<1>3. P(n)
  OBVIOUS
<1> HIDE DEF P
<1>4. (CHOOSE m \in 0 .. MaxUbRequests : P(m)) = n
  BY <1>2, <1>3
<1> QED BY <1>4 DEF P

(* The latest number is what it says, and nobody's number is above it.     *)
LEMMA IssuedFacts ==
  ASSUME UbTypeOK, IssuedInv
  PROVE  /\ Issued \in 0 .. MaxUbRequests /\ Issued \in Nat
         /\ \A c \in UbClients : ubCall[c].id <= Issued
         /\ Issued = 0 \/ \E c \in UbClients : ubCall[c].id = Issued
<1>1. PICK n \in 0 .. MaxUbRequests :
        /\ \A c \in UbClients : ubCall[c].id <= n
        /\ n = 0 \/ \E c \in UbClients : ubCall[c].id = n
  BY DEF IssuedInv
<1>2. Issued = n
  BY <1>1, IssuedIs DEF Issued, UbTypeOK
<1> QED BY <1>1, <1>2, UbAssumption

LEMMA SameIds ==
  ASSUME UbTypeOK, IssuedInv, ubCall' \in [UbClients -> Calls],
         \A c \in UbClients : ubCall'[c].id = ubCall[c].id
  PROVE  /\ Issued' = Issued
         /\ \E n \in 0 .. MaxUbRequests :
              /\ \A c \in UbClients : ubCall'[c].id <= n
              /\ n = 0 \/ \E c \in UbClients : ubCall'[c].id = n
<1>1. PICK n \in 0 .. MaxUbRequests :
        /\ \A c \in UbClients : ubCall[c].id <= n
        /\ n = 0 \/ \E c \in UbClients : ubCall[c].id = n
  BY DEF IssuedInv
<1>2. Issued = n
  BY <1>1, IssuedIs DEF Issued, UbTypeOK
<1>3. Issued' = n
  BY <1>1, IssuedIs DEF Issued
<1> QED BY <1>1, <1>2, <1>3

LEMMA NoCallType ==
  /\ NoCall \in Calls /\ NoCall.id = 0 /\ NoCall.phase = "over" /\ NoCall.told = "nothing"
  /\ NoBoot \in Boots /\ NoHelper \in Helpers
  /\ NoHelper.phase = "none" /\ NoHelper.request.id = 0 /\ NoHelper.approved = {} /\ ~NoHelper.stop
  /\ NoHelper.answer = "none"
  /\ AnyCamera \in Cams
<1>1. NoCall \in Calls /\ NoCall.id = 0 /\ NoCall.phase = "over" /\ NoCall.told = "nothing"
  BY DEF NoCall, Call, Calls, Cams, UbKinds
<1> QED BY <1>1 DEF NoBoot, NoHelper, Boots, Helpers, Cams

LEMMA ToldFacts ==
  ASSUME UbTypeOK, NEW c \in UbClients, NEW w \in Tellings
  PROVE  /\ Told(c, w) \in [UbClients -> Calls]
         /\ \A d \in UbClients : Told(c, w)[d].id = ubCall[d].id
         /\ \A d \in UbClients \ {c} : Told(c, w)[d] = ubCall[d]
         /\ Told(c, w)[c].phase = "over"
         /\ Told(c, w)[c].told = IF ubCall[c].kind = "recover" THEN w ELSE "nothing"
<1>1. [NoCall EXCEPT !.id = ubCall[c].id,
                     !.told = IF ubCall[c].kind = "recover" THEN w ELSE "nothing"] \in Calls
  BY NoCallType DEF UbTypeOK, Calls, Tellings
<1> QED BY <1>1, NoCallType DEF Told, UbTypeOK, Calls

(* A client that is told something of its request has no request any more. *)
LEMMA ToldKeeps ==
  ASSUME UbInv, NEW c \in UbClients, NEW w \in Tellings,
         ubCall[c].phase # "over", ubCall' = Told(c, w),
         ubCall[c].kind = "recover" /\ w = "reset" => Cycled(ubCall[c].id),
         ubCall[c].kind = "recover" /\ w = "refused" =>
           /\ ~Cycled(ubCall[c].id)
           /\ ubCall[c].id = Request.id => ubHelper'.phase \notin {"received", "searches"},
         ubCycles' = ubCycles, ubHelper'.request = ubHelper.request,
         ubHelper'.stop = ubHelper.stop,
         \/ ubHelper'.phase = ubHelper.phase
         \/ ubHelper.phase = "answers" /\ ubHelper'.phase = "acknowledged"
  PROVE  ubCall' \in [UbClients -> Calls] /\ IssuedInv' /\ ServedInv' /\ AnswerInv'
<1> USE DEF UbInv
<1>1. /\ ubCall' \in [UbClients -> Calls]
      /\ \A d \in UbClients : ubCall'[d].id = ubCall[d].id
      /\ \A d \in UbClients \ {c} : ubCall'[d] = ubCall[d]
      /\ ubCall'[c].phase = "over"
      /\ ubCall'[c].told = IF ubCall[c].kind = "recover" THEN w ELSE "nothing"
  BY ToldFacts
<1>2. Request' = Request
  BY DEF Request
<1>3. \A n : Cycled(n)' = Cycled(n)
  BY DEF Cycled
<1>4. IssuedInv'
  <2>1. Issued' = Issued /\ (\E n \in 0 .. MaxUbRequests :
              /\ \A d \in UbClients : ubCall'[d].id <= n
              /\ n = 0 \/ \E d \in UbClients : ubCall'[d].id = n)
    BY <1>1, SameIds
  <2> QED BY <1>1, <1>2, <2>1 DEF IssuedInv
<1>5. ServedInv'
  <2>1. \A d \in UbClients : Attends(d)' => d # c /\ Attends(d)
    BY <1>1, <1>2 DEF Attends, Request
  <2>2. \A d \in UbClients : ubCall'[d].phase = "asks" => d # c
    BY <1>1
  <2> QED BY <1>1, <1>2, <2>1, <2>2 DEF ServedInv
<1>6. AnswerInv'
  <2>1. \A d \in UbClients : Cycled(ubCall[d].id)' = Cycled(ubCall[d].id)
    BY <1>1 DEF Cycled
  <2> QED BY <1>1, <1>2, <2>1 DEF AnswerInv
<1> QED BY <1>1, <1>4, <1>5, <1>6

(* The helper goes on with a request, or is free for another one.          *)
LEMMA HelperKeeps ==
  ASSUME UbInv, ubCall' = ubCall, ubCycles' = ubCycles,
         \/ /\ ubHelper'.request = ubHelper.request
            /\ ubHelper.phase \notin {"none", "idle"} /\ ubHelper'.phase \notin {"none", "idle"}
            /\ ubHelper'.phase \in {"received", "searches"} => ubHelper.phase \in {"received", "searches"}
         \/ /\ ubHelper'.request.id = 0 /\ ubHelper'.phase \in {"none", "idle"} /\ ~ubHelper'.stop
  PROVE  IssuedInv' /\ ServedInv' /\ AnswerInv'
<1> USE DEF UbInv
<1>1. Issued' = Issued /\ Issued \in Nat
  BY IssuedFacts DEF Issued
<1>2. \A n : Cycled(n)' = Cycled(n)
  BY DEF Cycled
<1>3. Request'.id = Request.id \/ Request'.id = 0
  BY DEF Request
<1>4. IssuedInv'
  BY <1>1, <1>3 DEF IssuedInv
<1>5. AnswerInv'
  <2>1. \A d \in UbClients : Cycled(ubCall[d].id)' = Cycled(ubCall[d].id)
    BY DEF Cycled
  <2>2. ASSUME NEW d \in UbClients, ubCall[d].told = "refused", ubCall[d].id = Request'.id
        PROVE  ubHelper'.phase \notin {"received", "searches"}
    BY <2>2 DEF AnswerInv, Request
  <2> QED BY <2>1, <2>2 DEF AnswerInv
<1>6. ServedInv'
  <2>1. CASE ubHelper'.request = ubHelper.request /\ ubHelper.phase \notin {"none", "idle"}
                /\ ubHelper'.phase \notin {"none", "idle"}
    BY <2>1 DEF ServedInv, Attends, Request
  <2>2. CASE ubHelper'.request.id = 0 /\ ubHelper'.phase \in {"none", "idle"} /\ ~ubHelper'.stop
    <3>1. \A d \in UbClients : ubCall[d].phase \in {"asks", "sent"} => ubCall[d].id # 0
      BY DEF IssuedInv
    <3> QED BY <2>2, <3>1 DEF ServedInv, Attends, Request
  <2> QED BY <2>1, <2>2
<1> QED BY <1>4, <1>5, <1>6

LEMMA AnswersFacts ==
  ASSUME UbTypeOK, NEW w \in {"done", "refused", "failed", "reset"}, NEW stop \in BOOLEAN
  PROVE  /\ Answers(w, stop) \in Helpers
         /\ Answers(w, stop).request = ubHelper.request
         /\ Answers(w, stop).approved = ubHelper.approved
         /\ Answers(w, stop).phase = "answers" /\ Answers(w, stop).answer = w
         /\ Answers(w, stop).stop = stop
<1> DEFINE u == ubNow + UbCall
<1>1. u \in Int
  BY UbAssumption DEF UbTypeOK
<1>2. Answers(w, stop) =
        [ubHelper EXCEPT !.phase = "answers", !.answer = w, !.stop = stop, !.until = u]
  BY DEF Answers
<1> HIDE DEF u
<1>3. ubHelper \in Helpers
  BY DEF UbTypeOK
<1> QED BY <1>1, <1>2, <1>3 DEF Helpers

(* The helper answers, and the rest of the world is as it was.             *)
LEMMA AnswerKeeps ==
  ASSUME UbInv, NEW w \in {"done", "refused", "failed", "reset"}, NEW stop \in BOOLEAN,
         ubHelper.phase \in {"received", "searches", "awaits return"},
         ubHelper' = Answers(w, stop), UNCHANGED <<ubNow, ubCall, ubBoot, ubCycles, ubConsent>>,
         w = "reset" => Cycled(Request.id), w = "refused" => ~Cycled(Request.id),
         w = "done" => Request.kind = "stop" /\ stop
  PROVE  UbInv'
<1> USE DEF UbInv
<1>1. /\ ubHelper' \in Helpers /\ ubHelper'.request = ubHelper.request
      /\ ubHelper'.approved = ubHelper.approved
      /\ ubHelper'.phase = "answers" /\ ubHelper'.answer = w /\ ubHelper'.stop = stop
  BY AnswersFacts
<1>2. UbTypeOK'
  BY <1>1 DEF UbTypeOK
<1>3. IssuedInv' /\ ServedInv' /\ AnswerInv'
  BY <1>1, HelperKeeps
<1>4. ConsentInv'
  BY <1>1 DEF ConsentInv, Request
<1>5. CycleInv'
  <2>1. Cycled(Request.id)' = Cycled(Request.id)
    BY <1>1 DEF Cycled, Request
  <2> QED BY <1>1, <2>1 DEF CycleInv
<1> QED BY <1>2, <1>3, <1>4, <1>5

LEMMA RevokeKeeps ==
  ASSUME UbInv, ServeRevoke
  PROVE  UbInv'
<1> USE DEF UbInv
<1> DEFINE left == Revoked(Request.cam)
<1>1. /\ ubHelper.phase = "received" /\ Request.kind = "revoke"
      /\ ubHelper' = [Answers("done", left = {}) EXCEPT !.approved = left]
      /\ UNCHANGED <<ubNow, ubCall, ubBoot, ubCycles, ubConsent>>
  BY DEF ServeRevoke
<1>2. left \subseteq ubHelper.approved /\ Request.cam \notin left /\ ubHelper.approved \in SUBSET Cams
  BY DEF Revoked, UbTypeOK, Helpers
<1> HIDE DEF left
<1>3. /\ ubHelper' \in Helpers /\ ubHelper'.request = ubHelper.request
      /\ ubHelper'.approved = left /\ ubHelper'.phase = "answers" /\ ubHelper'.answer = "done"
  <2> DEFINE A == Answers("done", left = {})
  <2>1. A \in Helpers /\ A.request = ubHelper.request /\ A.phase = "answers" /\ A.answer = "done"
    BY AnswersFacts
  <2> HIDE DEF A
  <2>2. ubHelper' = [A EXCEPT !.approved = left] /\ left \in SUBSET Cams
    BY <1>1, <1>2 DEF A
  <2> QED BY <2>1, <2>2 DEF Helpers
<1>4. UbTypeOK'
  BY <1>1, <1>3 DEF UbTypeOK
<1>5. IssuedInv' /\ ServedInv' /\ AnswerInv'
  BY <1>1, <1>3, HelperKeeps
<1>6. ConsentInv'
  BY <1>1, <1>2, <1>3 DEF ConsentInv, Request
<1>7. CycleInv'
  BY <1>1, <1>3 DEF CycleInv
<1> QED BY <1>4, <1>5, <1>6, <1>7

LEMMA ReceiveFailsKeeps ==
  ASSUME UbInv, ReceiveFails
  PROVE  UbInv'
<1>1. ubHelper.phase = "received" /\ ubHelper' = Answers("refused", FALSE)
      /\ UNCHANGED <<ubNow, ubCall, ubBoot, ubCycles, ubConsent>>
  BY DEF ReceiveFails
<1>2. ~Cycled(Request.id)
  BY <1>1 DEF UbInv, CycleInv
<1> QED BY <1>1, <1>2, AnswerKeeps

LEMMA ServeStopKeeps ==
  ASSUME UbInv, ServeStop
  PROVE  UbInv'
BY AnswerKeeps DEF ServeStop

LEMMA SearchFailsKeeps ==
  ASSUME UbInv, SearchFails
  PROVE  UbInv'
BY AnswerKeeps DEF SearchFails

LEMMA RecoveredKeeps ==
  ASSUME UbInv, Recovered
  PROVE  UbInv'
<1>1. PICK w \in {"failed", "reset"} : ubHelper' = Answers(w, FALSE)
  BY DEF Recovered
<1>2. ubHelper.phase = "awaits return" /\ UNCHANGED <<ubNow, ubCall, ubBoot, ubCycles, ubConsent>>
  BY DEF Recovered
<1>3. Cycled(Request.id)
  BY <1>2 DEF UbInv, CycleInv
<1> QED BY <1>1, <1>2, <1>3, AnswerKeeps

LEMMA ServeRecoverKeeps ==
  ASSUME UbInv, ServeRecover
  PROVE  UbInv'
<1> USE DEF UbInv
<1>1. ubHelper.phase = "received" /\ UNCHANGED <<ubNow, ubCall, ubBoot, ubCycles, ubConsent>>
  BY DEF ServeRecover
<1>2. ~Cycled(Request.id)
  BY <1>1 DEF CycleInv
<1>3. CASE ubHelper' = Answers("refused", FALSE)
  BY <1>1, <1>2, <1>3, AnswerKeeps
<1>4. CASE ubHelper' # Answers("refused", FALSE)
  <2> DEFINE u == ubNow + Allowance(Request.deadline) + 1
  <2>1. ubHelper' = [ubHelper EXCEPT !.phase = "searches", !.until = u] /\ Approved(Request.cam)
    BY <1>4 DEF ServeRecover, Authorized
  <2>2. u \in Int
    <3>1. Request \in Calls /\ ubNow \in Int /\ UbOperation \in Int
      <4>1. ubHelper \in Helpers /\ ubNow \in Nat
        BY DEF UbTypeOK
      <4>2. ubHelper.request \in Calls
        BY <4>1 DEF Helpers
      <4> QED BY <4>1, <4>2, UbAssumption DEF Request
    <3>2. Request.deadline \in Int
      BY <3>1 DEF Calls
    <3>3. Allowance(Request.deadline) \in Int
      BY <3>1, <3>2 DEF Allowance
    <3> QED BY <3>1, <3>3
  <2> HIDE DEF u
  <2>3. /\ ubHelper' \in Helpers /\ ubHelper'.phase = "searches"
        /\ ubHelper'.request = ubHelper.request /\ ubHelper'.approved = ubHelper.approved
        /\ ubHelper'.stop = ubHelper.stop
    BY <2>1, <2>2 DEF UbTypeOK, Helpers
  <2>4. UbTypeOK'
    BY <1>1, <2>3 DEF UbTypeOK
  <2>5. IssuedInv' /\ ServedInv' /\ AnswerInv'
    BY <1>1, <2>3, HelperKeeps
  <2>6. ConsentInv'
    BY <1>1, <2>1, <2>3 DEF ConsentInv, Request, Approved
  <2>7. CycleInv'
    <3>1. Cycled(Request.id)' = Cycled(Request.id)
      BY <1>1, <2>3 DEF Cycled, Request
    <3> QED BY <1>1, <1>2, <2>3, <3>1 DEF CycleInv
  <2> QED BY <2>4, <2>5, <2>6, <2>7
<1> QED BY <1>3, <1>4

(* The helper is done with a request, or dies.                             *)
LEMMA FreeKeeps ==
  ASSUME UbInv, UNCHANGED <<ubNow, ubCall, ubBoot, ubCycles, ubConsent>>,
         ubHelper.phase \notin {"none", "idle"},
         \/ ubHelper' = NoHelper
         \/ ~ubHelper.stop /\ ubHelper' = [NoHelper EXCEPT !.phase = "idle", !.approved = ubHelper.approved]
  PROVE  UbInv'
<1> USE DEF UbInv
<1>1. /\ ubHelper' \in Helpers /\ ubHelper'.request.id = 0 /\ ubHelper'.phase \in {"none", "idle"}
      /\ ~ubHelper'.stop
      /\ \/ ubHelper'.approved = {}
         \/ ~ubHelper.stop /\ ubHelper'.phase = "idle" /\ ubHelper'.approved = ubHelper.approved
  <2>1. ubHelper.approved \in SUBSET Cams
    BY DEF UbTypeOK, Helpers
  <2>2. CASE ubHelper' = NoHelper
    BY <2>2, NoCallType
  <2>3. CASE ~ubHelper.stop /\ ubHelper' = [NoHelper EXCEPT !.phase = "idle", !.approved = ubHelper.approved]
    <3>1. NoHelper \in Helpers /\ NoHelper.request.id = 0 /\ ~NoHelper.stop
      BY NoCallType
    <3> QED BY <2>1, <2>3, <3>1 DEF Helpers
  <2> QED BY <2>2, <2>3
<1>2. UbTypeOK'
  BY <1>1 DEF UbTypeOK
<1>3. IssuedInv' /\ ServedInv' /\ AnswerInv'
  BY <1>1, HelperKeeps
<1>4. ConsentInv'
  BY <1>1 DEF ConsentInv
<1>5. CycleInv'
  BY <1>1 DEF CycleInv
<1> QED BY <1>2, <1>3, <1>4, <1>5

LEMMA DisconnectKeeps ==
  ASSUME UbInv, Disconnect \/ Undrained \/ Watchdog
  PROVE  UbInv'
BY FreeKeeps DEF Disconnect, Undrained, Watchdog

(* A client whose exchange ends without the helper.                        *)
LEMMA LeftKeeps ==
  ASSUME UbInv, NEW c \in UbClients, Busy(c) \/ GiveUp(c) \/ PrepareSeen(c) \/ PrepareFails(c)
  PROVE  UbInv'
<1> USE DEF UbInv
<1>1. UNCHANGED <<ubNow, ubHelper, ubBoot, ubCycles, ubConsent>> /\ ubCall[c].phase # "over"
  BY DEF Busy, GiveUp, PrepareSeen, PrepareFails
<1>2. CASE Busy(c)
  <2>1. ubCall[c].phase = "asks" /\ ubCall' = Told(c, "refused")
    BY <1>2 DEF Busy
  <2>2. ~Cycled(ubCall[c].id) /\ ubCall[c].id # Request.id
    BY <2>1 DEF AnswerInv, ServedInv
  <2>3. ubCall' \in [UbClients -> Calls] /\ IssuedInv' /\ ServedInv' /\ AnswerInv'
    BY <1>1, <2>1, <2>2, ToldKeeps DEF Tellings
  <2> QED
    BY <1>1, <2>3 DEF UbTypeOK, ConsentInv, CycleInv, Cycled, Request
<1>3. CASE GiveUp(c) \/ PrepareSeen(c) \/ PrepareFails(c)
  <2>1. PICK w \in {"done", "unknown"} : ubCall' = Told(c, w)
    BY <1>3 DEF GiveUp, PrepareSeen, PrepareFails
  <2>2. ubCall' \in [UbClients -> Calls] /\ IssuedInv' /\ ServedInv' /\ AnswerInv'
    BY <1>1, <2>1, ToldKeeps DEF Tellings
  <2> QED
    BY <1>1, <2>2 DEF UbTypeOK, ConsentInv, CycleInv, Cycled, Request
<1> QED BY <1>2, <1>3

(* Without a helper there is nothing that a revocation could miss.         *)
LEMMA AbsentKeeps ==
  ASSUME UbInv, NEW c \in UbClients, Absent(c)
  PROVE  UbInv'
<1> USE DEF UbInv
<1>1. PICK w \in {"done", "refused"} : ubCall' = Told(c, w)
  BY DEF Absent
<1>2. /\ ubCall[c].phase = "asks" /\ ubHelper.phase = "none" /\ ubConsent' \subseteq ubConsent
      /\ UNCHANGED <<ubNow, ubHelper, ubBoot, ubCycles>>
  BY DEF Absent
<1>3. ~Cycled(ubCall[c].id) /\ ubCall[c].id # Request.id
  BY <1>2 DEF AnswerInv, ServedInv
<1>4. ubCall' \in [UbClients -> Calls] /\ IssuedInv' /\ ServedInv' /\ AnswerInv'
  BY <1>1, <1>2, <1>3, ToldKeeps DEF Tellings
<1>5. ConsentInv'
  BY <1>2 DEF ConsentInv, Request
<1> QED
  BY <1>2, <1>4, <1>5 DEF UbTypeOK, CycleInv, Cycled, Request

(* Who is told that an approval is revoked need not fear it any more.      *)
LEMMA ConsumeKeeps ==
  ASSUME UbInv, NEW c \in UbClients, Consume(c)
  PROVE  UbInv'
<1> USE DEF UbInv
<1> DEFINE w == ubHelper.answer
<1>1. /\ ubCall[c].phase = "sent" /\ Request.id = ubCall[c].id /\ ubHelper.phase = "answers"
      /\ Attends(c) /\ ubCall' = Told(c, w)
      /\ ubHelper' = [ubHelper EXCEPT !.phase = "acknowledged"]
      /\ UNCHANGED <<ubNow, ubBoot, ubCycles>>
  BY DEF Consume, Attends, Request
<1>2. w \in {"done", "refused", "failed", "reset"}
  BY <1>1 DEF UbTypeOK, Helpers, CycleInv
<1>3. /\ ubHelper' \in Helpers /\ ubHelper'.phase = "acknowledged"
      /\ ubHelper'.request = ubHelper.request /\ ubHelper'.approved = ubHelper.approved
      /\ ubHelper'.stop = ubHelper.stop
  BY <1>1 DEF UbTypeOK, Helpers
<1>4. ubCall[c].kind = Request.kind /\ ubCall[c].cam = Request.cam
  BY <1>1 DEF ServedInv
<1>5. /\ w = "reset" => Cycled(ubCall[c].id)
      /\ w = "refused" => ~Cycled(ubCall[c].id)
  BY <1>1 DEF CycleInv
<1>6. ubCall' \in [UbClients -> Calls] /\ IssuedInv' /\ ServedInv' /\ AnswerInv'
  <2>1. w \in Tellings
    BY <1>2 DEF Tellings
  <2> HIDE DEF w
  <2> QED BY <1>1, <1>3, <1>5, <2>1, ToldKeeps
<1>7. UbTypeOK'
  <2>1. ubConsent' \subseteq ubConsent
    BY <1>1 DEF Consume, UbTypeOK
  <2> QED BY <1>1, <1>3, <1>6, <2>1 DEF UbTypeOK
<1>8. ConsentInv'
  <2>1. CASE w = "done" /\ Request.kind = "revoke" /\ Request.cam \notin ubHelper.approved
    <3>1. ubConsent' = ubConsent \ {Request.cam}
      BY <1>4, <2>1 DEF Consume
    <3>2. ubHelper.approved \subseteq ubConsent
      BY <1>1 DEF ConsentInv
    <3> QED BY <1>1, <1>3, <2>1, <3>1, <3>2 DEF ConsentInv
  <2>2. CASE w = "done" /\ Request.kind = "stop" /\ ubHelper.stop
    BY <1>1, <1>3, <2>2 DEF ConsentInv
  <2>3. CASE w # "done"
    <3>1. ubConsent' = ubConsent
      BY <2>3 DEF Consume
    <3> QED BY <1>1, <1>3, <3>1 DEF ConsentInv
  <2> QED BY <1>1, <2>1, <2>2, <2>3 DEF ConsentInv
<1>9. CycleInv'
  BY <1>1, <1>3 DEF CycleInv
<1> QED BY <1>6, <1>7, <1>8, <1>9

(* Approvals are added only with the user's consent, and only between two  *)
(* requests.                                                               *)
LEMMA BootKeeps ==
  ASSUME UbInv, NEW c \in UbClients,
         BootStarts(c) \/ BootApproves(c) \/ BootFindsNobody(c) \/ BootServes(c)
  PROVE  UbInv'
<1> USE DEF UbInv
<1>1. UNCHANGED <<ubNow, ubCall, ubCycles>>
  BY DEF BootStarts, BootApproves, BootFindsNobody, BootServes
<1>2. ubBoot' \in [UbClients -> Boots]
  <2>1. ubBoot \in [UbClients -> Boots] /\ ubBoot[c] \in Boots
    BY DEF UbTypeOK
  <2>2. PICK b \in {NoBoot, [ubBoot[c] EXCEPT !.phase = "asks"], [ubBoot[c] EXCEPT !.phase = "alone"],
                    ubBoot[c]} : ubBoot' = [ubBoot EXCEPT ![c] = b]
    <3>1. CASE BootStarts(c)
      BY <2>1, <3>1 DEF BootStarts
    <3>2. CASE BootApproves(c)
      BY <2>1, <3>2 DEF BootApproves
    <3>3. CASE BootFindsNobody(c)
      BY <2>1, <3>3 DEF BootFindsNobody
    <3>4. CASE BootServes(c)
      BY <2>1, <3>4 DEF BootServes
    <3> QED BY <3>1, <3>2, <3>3, <3>4
  <2>3. b \in Boots
    BY <2>1, <2>2, NoCallType DEF Boots
  <2> QED BY <2>1, <2>2, <2>3
<1>3. CASE ubHelper' = ubHelper /\ ubConsent' = ubConsent
  <2>1. UbTypeOK'
    BY <1>1, <1>2, <1>3 DEF UbTypeOK
  <2> QED
    BY <1>1, <1>3, <2>1 DEF IssuedInv, Issued, ServedInv, ConsentInv, CycleInv, AnswerInv,
                            Attends, Cycled, Request
<1>4. CASE ~(ubHelper' = ubHelper /\ ubConsent' = ubConsent)
  <2> DEFINE k == ubBoot[c].cam
  <2>1. k \in Cams
    BY DEF UbTypeOK, Boots
  <2>2. ubConsent' = ubConsent \cup {k}
    BY <1>4 DEF BootStarts, BootApproves, BootFindsNobody, BootServes
  <2>3. \/ ubHelper.phase = "idle" /\ ubHelper' = [ubHelper EXCEPT !.approved = @ \cup {k}]
        \/ /\ ubHelper.phase = "none"
           /\ ubHelper' = [NoHelper EXCEPT !.phase = "idle", !.approved = {k}]
    BY <1>4 DEF BootStarts, BootApproves, BootFindsNobody, BootServes
  <2>4. ubHelper \in Helpers /\ ubHelper.approved \in SUBSET Cams
    BY DEF UbTypeOK, Helpers
  <2> HIDE DEF k
  <2>5. /\ ubHelper' \in Helpers /\ ubHelper'.request.id = 0 /\ ubHelper'.phase = "idle"
        /\ ~ubHelper'.stop /\ ubHelper'.approved \subseteq ubConsent'
    <3>1. CASE ubHelper.phase = "idle" /\ ubHelper' = [ubHelper EXCEPT !.approved = @ \cup {k}]
      <4>1. ubHelper.request.id = 0 /\ ~ubHelper.stop /\ ubHelper.approved \subseteq ubConsent
        BY <3>1 DEF ServedInv, ConsentInv, Request
      <4> QED BY <2>1, <2>2, <2>4, <3>1, <4>1 DEF Helpers
    <3>2. CASE ubHelper' = [NoHelper EXCEPT !.phase = "idle", !.approved = {k}]
      <4>1. NoHelper \in Helpers /\ NoHelper.request.id = 0 /\ ~NoHelper.stop
        BY NoCallType
      <4> QED BY <2>1, <2>2, <3>2, <4>1 DEF Helpers
    <3> QED BY <2>3, <3>1, <3>2
  <2>6. UbTypeOK'
    BY <1>1, <1>2, <2>1, <2>2, <2>5 DEF UbTypeOK
  <2>7. IssuedInv' /\ ServedInv' /\ AnswerInv'
    BY <1>1, <2>5, HelperKeeps
  <2>8. ConsentInv' /\ CycleInv'
    BY <1>1, <2>5 DEF ConsentInv, CycleInv
  <2> QED BY <2>6, <2>7, <2>8
<1> QED BY <1>3, <1>4

(* A port is cycled in the look that still finds the arrival.              *)
LEMMA DispatchKeeps ==
  ASSUME UbInv, Dispatch
  PROVE  UbInv'
<1> USE DEF UbInv
<1> DEFINE k == Request.cam
<1>1. ubHelper.phase = "searches" /\ UNCHANGED <<ubNow, ubCall, ubBoot, ubConsent>>
  BY DEF Dispatch
<1>2. ~Cycled(Request.id) /\ Request.id # 0
  BY <1>1 DEF CycleInv, ServedInv
<1>3. CASE ~MayDispatch(k, Request.gen, Request.deadline)
  <2>1. ubHelper' = Answers("refused", FALSE) /\ ubCycles' = ubCycles
    BY <1>3 DEF Dispatch
  <2> QED BY <1>1, <1>2, <2>1, AnswerKeeps
<1>4. CASE MayDispatch(k, Request.gen, Request.deadline)
  <2>1. ubCycles' = ubCycles \cup {Cycle(k)}
    BY <1>4 DEF Dispatch
  <2>2. Request \in Calls
    <3>1. ubHelper \in Helpers
      BY DEF UbTypeOK
    <3>2. ubHelper.request \in Calls
      BY <3>1 DEF Helpers
    <3> QED BY <3>2 DEF Request
  <2>3. Cycle(k).by = Request.id /\ Cycle(k).hit = Cycle(k).named /\ ~Cycle(k).late /\ Cycle(k).wanted
    <3>1. ubNow \in Int /\ Request.deadline \in Int /\ ubNow < Request.deadline
      BY <1>4, <2>2 DEF MayDispatch, Calls, UbTypeOK
    <3>2. Request.gen = Live(k)
      BY <1>4 DEF MayDispatch, ValidBinding
    <3>3. k \in ubConsent
      BY <1>1 DEF ConsentInv
    <3>4. ~(ubNow >= Request.deadline)
      BY <3>1
    <3> QED BY <3>2, <3>3, <3>4 DEF Cycle
  <2> HIDE DEF k
  <2>4. /\ ubHelper' \in Helpers /\ ubHelper'.request = ubHelper.request
        /\ ubHelper'.approved = ubHelper.approved
        /\ \/ ubHelper'.phase = "awaits return" /\ ubHelper'.stop = ubHelper.stop
           \/ ubHelper'.phase = "answers" /\ ubHelper'.answer = "failed"
    <3>1. CASE ubHelper' = [ubHelper EXCEPT !.phase = "awaits return"]
      BY <3>1 DEF UbTypeOK, Helpers
    <3>2. CASE ubHelper' = Answers("failed", FALSE)
      BY <3>2, AnswersFacts
    <3> QED BY <1>4, <3>1, <3>2 DEF Dispatch, k
  <2>5. \A n : Cycled(n)' <=> Cycled(n) \/ n = Request.id
    BY <2>1, <2>3 DEF Cycled
  <2>6. Request' = Request /\ Issued' = Issued /\ Issued \in Nat /\ Request.id \in Nat
    BY <1>1, <2>2, <2>4, IssuedFacts DEF Request, Issued, Calls
  <2>7. UbTypeOK'
    BY <1>1, <2>4 DEF UbTypeOK
  <2>8. IssuedInv'
    <3>1. 1 <= Request.id /\ Request.id <= Issued
      BY <1>2, <2>6 DEF IssuedInv
    <3> QED BY <1>1, <2>1, <2>3, <2>6, <3>1 DEF IssuedInv
  <2>9. ServedInv'
    BY <1>1, <2>4, <2>6 DEF ServedInv, Attends
  <2>10. ConsentInv'
    BY <1>1, <2>4 DEF ConsentInv
  <2>11. CycleInv'
    <3>1. \A r \in ubCycles : r.by # Request.id
      BY <1>2 DEF Cycled
    <3>2. Cycled(Request.id)'
      BY <2>1, <2>3, <2>6 DEF Cycled
    <3>3. \A r, q \in ubCycles' : r.by = q.by => r = q
      <4> SUFFICES ASSUME NEW r \in ubCycles', NEW q \in ubCycles', r.by = q.by PROVE r = q
        OBVIOUS
      <4>1. CASE r \in ubCycles /\ q \in ubCycles
        BY <4>1 DEF CycleInv
      <4>2. CASE r \notin ubCycles
        BY <2>1, <2>3, <3>1, <4>2
      <4>3. CASE q \notin ubCycles
        BY <2>1, <2>3, <3>1, <4>3
      <4> QED BY <4>1, <4>2, <4>3
    <3>4. \A r \in ubCycles' : r.hit = r.named /\ ~r.late /\ r.wanted
      BY <2>1, <2>3 DEF CycleInv
    <3> QED BY <2>4, <3>2, <3>3, <3>4 DEF CycleInv
  <2>12. AnswerInv'
    <3>1. ASSUME NEW c \in UbClients
          PROVE  Cycled(ubCall[c].id)' <=> Cycled(ubCall[c].id) \/ ubCall[c].id = Request.id
      BY <1>1, <2>1, <2>3 DEF Cycled
    <3>2. ASSUME NEW c \in UbClients, ubCall[c].id = Request.id
          PROVE  ubCall[c].phase # "asks" /\ ubCall[c].told # "refused"
      BY <1>1, <3>2 DEF ServedInv, AnswerInv
    <3> QED BY <1>1, <2>6, <3>1, <3>2 DEF AnswerInv
  <2> QED BY <2>7, <2>8, <2>9, <2>10, <2>11, <2>12
<1> QED BY <1>3, <1>4

(* A request gets a number that nobody had.                                *)
LEMMA IssueKeeps ==
  ASSUME UbInv, NEW c \in UbClients, NEW kind \in {"recover", "revoke", "stop", "prepare"},
         NEW k \in UbCameras, NEW gen \in 1 .. MaxUbArrivals, Issue(c, kind, k, gen)
  PROVE  UbInv'
<1> USE DEF UbInv
<1> DEFINE n == Issued
           new == Call(kind, k, gen, IF kind = "recover" THEN ubNow + UbOperation ELSE 0, n + 1)
<1>1. /\ ubCall[c].phase = "over" /\ n < MaxUbRequests /\ ubCall' = [ubCall EXCEPT ![c] = new]
      /\ UNCHANGED <<ubNow, ubHelper, ubBoot, ubCycles, ubConsent>>
  BY DEF Issue
<1>2. /\ n \in Nat /\ n + 1 \in 0 .. MaxUbRequests
      /\ \A d \in UbClients : ubCall[d].id <= n /\ ubCall[d].id \in Nat
  BY <1>1, IssuedFacts, UbAssumption DEF UbTypeOK, Calls
<1>3. /\ new \in Calls /\ new.id = n + 1 /\ new.phase = "asks" /\ new.told = "nothing"
  <2>1. (IF kind = "recover" THEN ubNow + UbOperation ELSE 0) \in Nat
    BY UbAssumption DEF UbTypeOK
  <2> QED BY <1>2, <2>1, UbAssumption DEF Call, Calls, UbKinds, Cams
<1> HIDE DEF new
<1>4. /\ ubCall' \in [UbClients -> Calls] /\ ubCall'[c] = new
      /\ \A d \in UbClients \ {c} : ubCall'[d] = ubCall[d]
  BY <1>1, <1>3 DEF UbTypeOK
<1>5. Issued' = n + 1
  <2>1. \A d \in UbClients : ubCall'[d].id <= n + 1
    BY <1>2, <1>3, <1>4
  <2>2. \E d \in UbClients : ubCall'[d].id = n + 1
    BY <1>3, <1>4
  <2> HIDE DEF n
  <2> QED BY <1>2, <1>4, <2>1, <2>2, IssuedIs DEF Issued
<1>6. Request' = Request /\ Request.id \in Nat /\ Request.id <= n
  <2>1. ubHelper.request \in Calls
    BY DEF UbTypeOK, Helpers
  <2> QED BY <1>1, <2>1 DEF Request, IssuedInv, Calls
<1>7. /\ \A r \in ubCycles : r.by \in 1 .. n
      /\ ~Cycled(n + 1)
  <2>1. \A r \in ubCycles : r.by \in 1 .. n
    BY DEF IssuedInv
  <2> QED BY <1>2, <2>1 DEF Cycled
<1> HIDE DEF n
<1>8. UbTypeOK'
  BY <1>1, <1>4 DEF UbTypeOK
<1>9. IssuedInv'
  <2>1. \E m \in 0 .. MaxUbRequests :
          /\ \A d \in UbClients : ubCall'[d].id <= m
          /\ m = 0 \/ \E d \in UbClients : ubCall'[d].id = m
    BY <1>2, <1>3, <1>4
  <2>2. \A d, e \in UbClients : ubCall'[d].id = ubCall'[e].id /\ ubCall'[d].id # 0 => d = e
    <3> SUFFICES ASSUME NEW d \in UbClients, NEW e \in UbClients,
                        ubCall'[d].id = ubCall'[e].id, ubCall'[d].id # 0
                 PROVE  d = e
      OBVIOUS
    <3>1. CASE d # c /\ e # c
      BY <1>4, <3>1 DEF IssuedInv
    <3>2. CASE d = c /\ e # c
      BY <1>2, <1>3, <1>4, <3>2
    <3>3. CASE e = c /\ d # c
      BY <1>2, <1>3, <1>4, <3>3
    <3> QED BY <3>1, <3>2, <3>3
  <2>3. \A d \in UbClients : ubCall'[d].phase # "over" => ubCall'[d].id # 0 /\ ubCall'[d].told = "nothing"
    BY <1>2, <1>3, <1>4 DEF IssuedInv
  <2>4. Request'.id <= Issued'
    BY <1>2, <1>5, <1>6
  <2>5. \A r \in ubCycles' : r.by \in 1 .. Issued'
    BY <1>1, <1>2, <1>5, <1>7
  <2> QED BY <2>1, <2>2, <2>3, <2>4, <2>5 DEF IssuedInv
<1>10. ServedInv'
  <2>1. \A d \in UbClients : Attends(d)' => d # c /\ Attends(d)
    BY <1>1, <1>3, <1>4, <1>6 DEF Attends, Request
  <2>2. ubCall'[c].id # Request.id
    BY <1>2, <1>3, <1>4, <1>6
  <2> QED BY <1>1, <1>4, <1>6, <2>1, <2>2 DEF ServedInv
<1>11. ConsentInv' /\ CycleInv'
  BY <1>1 DEF ConsentInv, CycleInv, Cycled, Request
<1>12. AnswerInv'
  <2>1. ASSUME NEW d \in UbClients, d # c
        PROVE  Cycled(ubCall[d].id)' <=> Cycled(ubCall[d].id)
    BY <1>1, <1>4, <2>1 DEF Cycled
  <2>2. ~Cycled(ubCall[c].id)'
    BY <1>1, <1>3, <1>4, <1>7 DEF Cycled
  <2> QED BY <1>1, <1>3, <1>4, <1>6, <2>1, <2>2 DEF AnswerInv
<1> QED BY <1>8, <1>9, <1>10, <1>11, <1>12

(* The helper takes a request over.                                        *)
LEMMA ConnectKeeps ==
  ASSUME UbInv, NEW c \in UbClients, Connect(c)
  PROVE  UbInv'
<1> USE DEF UbInv
<1> DEFINE u == ubNow + CallTime(ubCall[c].kind)
<1>1. /\ ubCall[c].phase = "asks" /\ ubHelper.phase = "idle"
      /\ ubCall' = [ubCall EXCEPT ![c].phase = "sent", ![c].until = u]
      /\ ubHelper' = [ubHelper EXCEPT !.phase = "received", !.request = ubCall[c]]
      /\ UNCHANGED <<ubNow, ubBoot, ubCycles, ubConsent>>
  BY DEF Connect
<1>2. u \in Nat
  BY UbAssumption DEF CallTime, UbTypeOK
<1> HIDE DEF u
<1>3. ubCall[c] \in Calls /\ ubHelper \in Helpers
  BY DEF UbTypeOK
<1>4. /\ ubCall' \in [UbClients -> Calls]
      /\ ubCall'[c].id = ubCall[c].id /\ ubCall'[c].kind = ubCall[c].kind
      /\ ubCall'[c].cam = ubCall[c].cam /\ ubCall'[c].told = ubCall[c].told
      /\ ubCall'[c].phase = "sent"
      /\ \A d \in UbClients \ {c} : ubCall'[d] = ubCall[d]
  BY <1>1, <1>2, <1>3 DEF UbTypeOK, Calls
<1>5. /\ ubHelper' \in Helpers /\ ubHelper'.request = ubCall[c] /\ ubHelper'.phase = "received"
      /\ ubHelper'.approved = ubHelper.approved /\ ubHelper'.stop = ubHelper.stop
      /\ Request' = ubCall[c]
  BY <1>1, <1>3 DEF Helpers, Request
<1>6. /\ ubCall[c].id # 0 /\ ubCall[c].told = "nothing" /\ ~Cycled(ubCall[c].id)
      /\ \A d \in UbClients \ {c} : ubCall[d].id # ubCall[c].id
  BY <1>1 DEF IssuedInv, AnswerInv
<1>7. UbTypeOK'
  BY <1>1, <1>4, <1>5 DEF UbTypeOK
<1>8. IssuedInv'
  <2>1. \A d \in UbClients : ubCall'[d].id = ubCall[d].id
    BY <1>4
  <2>2. Issued' = Issued /\ (\E n \in 0 .. MaxUbRequests :
              /\ \A d \in UbClients : ubCall'[d].id <= n
              /\ n = 0 \/ \E d \in UbClients : ubCall'[d].id = n)
    BY <1>4, <2>1, SameIds
  <2>3. Request'.id <= Issued'
    BY <1>5, <2>2, IssuedFacts
  <2>4. \A d \in UbClients : ubCall'[d].phase # "over" => ubCall'[d].id # 0 /\ ubCall'[d].told = "nothing"
    BY <1>4, <1>6 DEF IssuedInv
  <2>5. \A d, e \in UbClients : ubCall'[d].id = ubCall'[e].id /\ ubCall'[d].id # 0 => d = e
    BY <2>1 DEF IssuedInv
  <2>6. \A r \in ubCycles' : r.by \in 1 .. Issued'
    BY <1>1, <2>2 DEF IssuedInv
  <2> QED BY <2>2, <2>3, <2>4, <2>5, <2>6 DEF IssuedInv
<1>9. ServedInv'
  <2>1. \A d \in UbClients : Attends(d)' => d = c
    BY <1>4, <1>5, <1>6 DEF Attends, Request
  <2> QED BY <1>4, <1>5, <1>6, <2>1 DEF ServedInv
<1>10. ConsentInv'
  BY <1>1, <1>5 DEF ConsentInv
<1>11. CycleInv'
  <2>1. ~Cycled(Request.id)'
    BY <1>1, <1>5, <1>6 DEF Cycled
  <2> QED BY <1>1, <1>5, <2>1 DEF CycleInv
<1>12. AnswerInv'
  <2>1. \A d \in UbClients : Cycled(ubCall[d].id)' <=> Cycled(ubCall[d].id)
    BY <1>1, <1>4 DEF Cycled
  <2> QED BY <1>4, <1>5, <1>6, <2>1 DEF AnswerInv
<1> QED BY <1>7, <1>8, <1>9, <1>10, <1>11, <1>12

LEMMA PromptKeeps ==
  ASSUME UbInv, NEW c \in UbClients, PreparePrompts(c)
  PROVE  UbInv'
<1> USE DEF UbInv
<1>1. /\ ubCall[c].kind = "prepare" /\ ubCall[c].phase = "asks"
      /\ UNCHANGED <<ubNow, ubHelper, ubCycles, ubConsent>>
  BY DEF PreparePrompts
<1>2. CASE ubCall' = Told(c, "refused") /\ ubBoot' = ubBoot
  <2>1. ubCall' \in [UbClients -> Calls] /\ IssuedInv' /\ ServedInv' /\ AnswerInv'
    BY <1>1, <1>2, ToldKeeps DEF Tellings
  <2> QED BY <1>1, <1>2, <2>1 DEF UbTypeOK, ConsentInv, CycleInv, Cycled, Request
<1>3. CASE ~(ubCall' = Told(c, "refused") /\ ubBoot' = ubBoot)
  <2> DEFINE b == [phase |-> "prompt", deadline |-> ubNow + UbOperation,
                   cam |-> ubCall[c].cam, gen |-> ubCall[c].gen]
  <2>1. ubCall' = [ubCall EXCEPT ![c].phase = "polls"] /\ ubBoot' = [ubBoot EXCEPT ![c] = b]
    BY <1>3 DEF PreparePrompts
  <2>2. ubCall[c] \in Calls /\ ubNow + UbOperation \in Nat
    BY UbAssumption DEF UbTypeOK
  <2>3. b \in Boots
    BY <2>2 DEF Boots, Calls
  <2> HIDE DEF b
  <2>4. ubCall' \in [UbClients -> Calls] /\ ubBoot' \in [UbClients -> Boots]
    BY <2>1, <2>2, <2>3 DEF UbTypeOK, Calls
  <2>5. /\ \A d \in UbClients : ubCall'[d].id = ubCall[d].id /\ ubCall'[d].told = ubCall[d].told
        /\ \A d \in UbClients \ {c} : ubCall'[d] = ubCall[d]
        /\ ubCall'[c].phase = "polls"
    BY <2>1, <2>2 DEF UbTypeOK, Calls
  <2>6. UbTypeOK'
    BY <1>1, <2>4 DEF UbTypeOK
  <2>7. Issued' = Issued /\ (\E n \in 0 .. MaxUbRequests :
              /\ \A d \in UbClients : ubCall'[d].id <= n
              /\ n = 0 \/ \E d \in UbClients : ubCall'[d].id = n)
    BY <2>4, <2>5, SameIds
  <2>8. IssuedInv'
    <3>1. \A d \in UbClients : ubCall'[d].phase # "over" => ubCall'[d].id # 0 /\ ubCall'[d].told = "nothing"
      BY <1>1, <2>5 DEF IssuedInv
    <3>2. \A d, e \in UbClients : ubCall'[d].id = ubCall'[e].id /\ ubCall'[d].id # 0 => d = e
      BY <2>5 DEF IssuedInv
    <3> QED BY <1>1, <2>7, <3>1, <3>2 DEF IssuedInv, Request
  <2>9. ServedInv'
    <3>1. \A d \in UbClients : Attends(d)' => d # c /\ Attends(d)
      BY <1>1, <2>5 DEF Attends, Request
    <3> QED BY <1>1, <2>5, <3>1 DEF ServedInv, Request
  <2>10. ConsentInv' /\ CycleInv'
    BY <1>1 DEF ConsentInv, CycleInv, Cycled, Request
  <2>11. AnswerInv'
    <3>1. \A d \in UbClients : Cycled(ubCall[d].id)' <=> Cycled(ubCall[d].id)
      BY <1>1, <2>5 DEF Cycled
    <3> QED BY <1>1, <2>5, <3>1 DEF AnswerInv, Request
  <2> QED BY <2>6, <2>8, <2>9, <2>10, <2>11
<1> QED BY <1>2, <1>3

(* Cables and time change no record of what was asked, approved or done.   *)
LEMMA WorldKeeps ==
  ASSUME UbInv, UbTick \/ (\E k \in UbCameras : Arrives(k) \/ Leaves(k))
  PROVE  UbInv'
<1> USE DEF UbInv
<1>1. UNCHANGED <<ubHelper, ubCall, ubBoot, ubCycles, ubConsent>>
  BY DEF UbTick, Arrives, Leaves
<1>2. ubNow' \in Nat
  <2>1. ubNow' \in {ubNow, ubNow + 1}
    BY DEF UbTick, Arrives, Leaves
  <2>2. ubNow \in Nat
    BY DEF UbTypeOK
  <2> QED BY <2>1, <2>2
<1> QED
  BY <1>1, <1>2 DEF UbTypeOK, IssuedInv, Issued, ServedInv, ConsentInv, CycleInv, AnswerInv,
                    Attends, Cycled, Request

LEMMA InitUb == UbInit => UbInv
<1> SUFFICES ASSUME UbInit PROVE UbInv
  OBVIOUS
<1>1. /\ ubNow = 0 /\ ubHelper = NoHelper /\ ubCycles = {} /\ ubConsent = {}
      /\ ubCall = [c \in UbClients |-> NoCall] /\ ubBoot = [c \in UbClients |-> NoBoot]
  BY DEF UbInit
<1>2. \A c \in UbClients : ubCall[c] = NoCall
  BY <1>1
<1>3. UbTypeOK
  BY <1>1, NoCallType DEF UbTypeOK
<1>4. Request.id = 0 /\ ubHelper.phase = "none"
  BY <1>1, NoCallType DEF Request
<1>5. \A n : ~Cycled(n)
  BY <1>1 DEF Cycled
<1>6. Issued = 0
  <2>1. 0 \in 0 .. MaxUbRequests
    BY UbAssumption
  <2>2. \A c \in UbClients : ubCall[c].id <= 0
    BY <1>2, NoCallType
  <2> QED BY <1>3, <2>1, <2>2, IssuedIs DEF Issued, UbTypeOK
<1>7. IssuedInv
  <2>1. 0 \in 0 .. MaxUbRequests /\ \A c \in UbClients : ubCall[c].id <= 0
    BY <1>2, NoCallType, UbAssumption
  <2> QED BY <1>1, <1>2, <1>4, <1>6, <2>1, NoCallType DEF IssuedInv
<1>8. ServedInv
  BY <1>1, <1>2, <1>4, NoCallType DEF ServedInv, Attends
<1>9. ConsentInv /\ CycleInv
  BY <1>1, <1>4, <1>5, NoCallType DEF ConsentInv, CycleInv
<1>10. AnswerInv
  BY <1>2, <1>4, <1>5, NoCallType DEF AnswerInv
<1> QED BY <1>3, <1>7, <1>8, <1>9, <1>10 DEF UbInv

(* For any clients, cameras, targets and timeouts, whoever gives up or     *)
(* dies: a port is cycled once per request, for the arrival it names and   *)
(* with the user's consent, and clients are told the truth about it        *)
(* (broker.rs serve, recovery; usb/windows.rs cycle_camera).               *)
THEOREM UsbHonestHolds == UbSpec => []UsbHonest
<1>1. UbInv /\ [UbNext]_ubVars => UbInv'
  <2> SUFFICES ASSUME UbInv, [UbNext]_ubVars PROVE UbInv'
    OBVIOUS
  <2>1. CASE \E c \in UbClients : \E kind \in {"recover", "revoke", "stop", "prepare"},
                k \in UbCameras, gen \in 1 .. MaxUbArrivals : Issue(c, kind, k, gen)
    BY <2>1, IssueKeeps
  <2>2. CASE \E c \in UbClients :
               \/ Connect(c) \/ Absent(c) \/ Busy(c) \/ GiveUp(c) \/ Consume(c)
               \/ PrepareSeen(c) \/ PreparePrompts(c) \/ PrepareFails(c)
    BY <2>2, ConnectKeeps, AbsentKeeps, LeftKeeps, ConsumeKeeps, PromptKeeps
  <2>3. CASE \E c \in UbClients :
               BootStarts(c) \/ BootApproves(c) \/ BootFindsNobody(c) \/ BootServes(c)
    BY <2>3, BootKeeps
  <2>4. CASE ReceiveFails \/ ServeRevoke \/ ServeStop \/ ServeRecover \/ Dispatch \/ SearchFails
             \/ Recovered \/ Disconnect \/ Undrained \/ Watchdog
    BY <2>4, ReceiveFailsKeeps, RevokeKeeps, ServeStopKeeps, ServeRecoverKeeps, DispatchKeeps,
       SearchFailsKeeps, RecoveredKeeps, DisconnectKeeps
  <2>5. CASE (\E k \in UbCameras : Arrives(k) \/ Leaves(k)) \/ UbTick
    BY <2>5, WorldKeeps
  <2>6. CASE UNCHANGED ubVars
    BY <2>6 DEF ubVars, UbInv, UbTypeOK, IssuedInv, Issued, ServedInv, ConsentInv, CycleInv,
                AnswerInv, Attends, Cycled, Request
  <2> QED BY <2>1, <2>2, <2>3, <2>4, <2>5, <2>6 DEF UbNext
<1>2. UbInv => UsbHonest
  BY DEF UbInv, CycleInv, AnswerInv, UsbHonest, Cycled
<1> QED BY <1>1, <1>2, InitUb, PTL DEF UbSpec

-----------------------------------------------------------------------------
(* The rotator's reference                                                 *)

(* The backend with its rotator, worker and file by itself.                *)
RtSpec == RtInit /\ [][RtNext]_rtVars

RtCommands == {"identity", "settings", "status", "stop", "sync", "restore", "reverse", "mech",
               "move"}
RtAsks == {a \in [c : RtCommands, x : 0..Turn] : a.c # "reverse" => a.x \in Places}
RtAnswers ==
  [ask : RtAsks,
   rep : [ok : BOOLEAN, rev : BOOLEAN, mech : Places, off : Places, moving : BOOLEAN,
          logical : Places]]
Pipes == [open : BOOLEAN, asks : Seq(RtAsks), reps : Seq(RtAnswers)]
Rotators == [mech : Places, to : 0..Turn, rev : BOOLEAN]
Unresolved == {<<>>} \cup (Places \X Places)
RtWorkers == [alive : BOOLEAN, off : Places, rev : BOOLEAN, pend : Unresolved]
Records == [no : Nat, kind : {"none", "known", "uncertain"}, t : Transforms]
RtSteps == {"idle", "identity", "reference", "restore", "settings", "status", "command", "marker",
            "marked", "change", "settings2", "status2", "save", "saved", "refused", "unsaved"}
RtOps == {"none", "connect", "sample", "halt", "sync", "reverse", "move", "mech"}

RtTypeOK ==
  /\ rdev \in Rotators /\ rwk \in RtWorkers
  /\ rpipe \in Pipes
  /\ rback \in [up : BOOLEAN, ref : Records, unc : BOOLEAN, obs : {"none", "forward", "reverse"}]
  /\ rfile \in Records /\ rjobs \subseteq Nat \X Records
  /\ rop \in [op : RtOps, x : 0..Turn, step : RtSteps, exp : Places, rev : BOOLEAN]
  /\ rcount \in [syncs : Nat, moves : Nat, no : Nat]

(* Each step of an operation that waits for the worker, and what for.      *)
Awaited ==
  CASE rop.step = "reference" \/ rop.step = "settings2" -> "settings"
    [] rop.step = "status2" -> "status"
    [] rop.step \in {"command", "change"} -> IF rop.op = "halt" THEN "stop" ELSE rop.op
    [] OTHER -> rop.step
Waits ==
  rop.step \in {"identity", "reference", "restore", "settings", "status", "command", "change",
                "settings2", "status2"}
Changes == rop.op \in {"sync", "reverse"}

(* There is one request or one answer in the stream, the one awaited, or   *)
(* nothing.                                                                *)
PipeInv ==
  /\ IF ~Waits THEN rpipe.asks = <<>> /\ rpipe.reps = <<>>
     ELSE \/ /\ rpipe.reps = <<>>
             /\ \E a \in RtAsks : rpipe.asks = <<a>> /\ a.c = Awaited
          \/ /\ rpipe.asks = <<>>
             /\ \E r \in RtAnswers : rpipe.reps = <<r>> /\ r.ask.c = Awaited
  /\ rop.step = "idle" <=> rop = Idle
  /\ rop.op # "reverse" => rop.x \in Places
  /\ rop.step \in {"identity", "reference", "restore"} => rop.op = "connect"
  /\ rop.step \in {"settings", "status"} => rop.op \notin {"none", "connect", "halt"}
  /\ rop.step = "command" => rop.op \in {"halt", "move", "mech"}
  /\ rop.step \in {"marker", "marked", "change", "settings2", "status2", "save", "saved"} => Changes

(* What an answer says still holds when it is heard.                       *)
AnswerTrue(r) ==
  r.rep.ok =>
    /\ r.ask.c = "settings" => r.rep.rev = rdev.rev /\ rwk.rev = rdev.rev /\ rwk.pend = <<>>
    /\ r.ask.c = "status" /\ ~r.rep.moving =>
         /\ rdev.to = Still /\ r.rep.off = rwk.off
         /\ r.rep.logical = LogicalAt(rwk.off, rwk.rev, rdev.mech)
AnswersTrue == rpipe.reps # <<>> => AnswerTrue(Head(rpipe.reps))

(* What a change rests on: the rotator stands still from the sample to the *)
(* end, and the worker knows its direction.                                *)
StillInv ==
  /\ rop.step \in {"marker", "marked", "change", "settings2", "status2", "save", "saved"} =>
       rdev.to = Still
  /\ rop.step \in {"status", "marker", "marked", "status2"} => rwk.rev = rdev.rev /\ rwk.pend = <<>>
  /\ rop.step \in {"status2", "save", "saved"} => rop.rev = rdev.rev

(* Numbers of records: a save that is pending is made from an earlier one, *)
(* and nobody refers to it yet.                                            *)
NumberInv ==
  /\ rfile.no <= rcount.no /\ rback.ref.no <= rcount.no
  /\ \A j \in rjobs :
       /\ j[1] < j[2].no /\ j[2].no <= rcount.no
       /\ j[2].no # rfile.no /\ j[2].no # rback.ref.no
  /\ \A j, k \in rjobs : (j[2].no = k[2].no => j = k) /\ j[2].no # k[1]

(* The reference that the change in progress is going to give.             *)
Goal ==
  [off |-> OffsetFor(rop.exp, IF rop.op = "sync" THEN rdev.rev ELSE rop.x = 1, rdev.mech),
   rev |-> IF rop.op = "sync" THEN rdev.rev ELSE rop.x = 1]

(* The record of doubt is on disk while the change is made, and what may   *)
(* be saved over it is what clients may go by.                             *)
RecordInv ==
  /\ rfile.kind = "known" => rfile.t \in rtold
  /\ \A j \in rjobs : j[2].kind = "known" /\ j[1] = rfile.no => j[2].t \in rtold
  /\ rop.step = "marker" =>
       \A j \in rjobs : j[2].no = rcount.no => j[2].kind = "uncertain"
  /\ rop.step \in {"marked", "change", "settings2", "status2"} =>
       rfile.no = rcount.no /\ rfile.kind = "uncertain"
  /\ rop.step \in {"marker", "marked"} /\ rop.op = "sync" => rop.exp = rop.x
  /\ rop.step \in {"change", "settings2", "status2"} => rtold = {Goal}
  /\ rop.step = "save" =>
       \A j \in rjobs : j[2].no = rcount.no => j[2].kind = "known" /\ j[2].t = Goal
  /\ rop.step = "saved" => rfile.no = rcount.no /\ rfile.kind = "known" /\ rfile.t = Goal
  /\ rop.step \in {"save", "saved"} => Goal.rev = rop.rev

(* While the reference is not in doubt, the worker goes by the one clients *)
(* were told of, or by any if they were told of none.                      *)
Serves == rback.up \/ rop.op = "connect"
TrustInv ==
  /\ rfile.kind = "none" => rtold = Transforms
  /\ \A j \in rjobs : j[2].kind # "none"
  /\ Serves /\ ~rback.unc =>
       /\ rback.ref.kind = "none" => rtold = Transforms
       /\ rback.ref.kind = "known" => rback.ref.t \in rtold
       /\ rback.ref.kind # "uncertain" /\ rwk.pend = <<>>
  /\ rback.up => rop.op # "connect"
  /\ rback.up /\ ~rback.unc /\ rback.ref.kind = "known" => rwk.off = rback.ref.t.off
  /\ rop.step \in {"reference", "restore"} => rback.ref.kind = "known"
  /\ rop.step = "restore" =>
       /\ rpipe.asks # <<>> => Head(rpipe.asks).x = rback.ref.t.off
       /\ rpipe.reps # <<>> /\ Head(rpipe.reps).rep.ok => rwk.off = rback.ref.t.off
  /\ rop.step \in {"change", "settings2", "status2", "save", "saved"} => rback.unc
  /\ rop.step \in {"save", "saved"} => rwk.off = Goal.off /\ rwk.pend = <<>>
  /\ /\ rop.op = "move" /\ rop.step \in {"status", "command"}
     /\ ~rback.unc /\ rback.ref.kind = "known"
     => rback.ref.t.rev = rdev.rev
  /\ rop.op = "move" /\ rop.step = "command" =>
       /\ ~rback.unc
       /\ rpipe.asks # <<>> => Head(rpipe.asks).x = rop.x

RtInv == RtTypeOK /\ PipeInv /\ AnswersTrue /\ StillInv /\ NumberInv /\ RecordInv /\ TrustInv

(* Arithmetic on the circle.                                               *)
LEMMA Circle ==
  ASSUME NEW m \in Places, NEW l \in 0..Turn, NEW rev \in BOOLEAN
  PROVE  /\ Signed(rev, m) \in Places /\ Signed(rev, Signed(rev, m)) = m
         /\ LogicalAt(l, rev, m) \in Places /\ OffsetFor(l, rev, m) \in Places
         /\ l \in Places => OffsetFor(LogicalAt(l, rev, m), rev, m) = l
         /\ l \in Places => LogicalAt(OffsetFor(l, rev, m), rev, m) = l
<1>1. Turn \in Nat \ {0}
  BY RotatorAssumption
<1>2. \A a \in 0..(2 * Turn) : a % Turn = IF a < Turn THEN a ELSE IF a < 2 * Turn THEN a - Turn ELSE 0
  BY <1>1, SMT
<1>3. Signed(rev, m) = IF rev /\ m # 0 THEN Turn - m ELSE m
  BY <1>1, <1>2 DEF Signed, Places
<1>4. Signed(rev, m) \in Places /\ Signed(rev, Signed(rev, m)) = m
  BY <1>1, <1>2, <1>3 DEF Signed, Places
<1> DEFINE s == Signed(rev, m)
<1> HIDE DEF s
<1>5. s + l \in 0..(2 * Turn) /\ l + Turn - s \in 0..(2 * Turn)
  BY <1>1, <1>4 DEF Places, s
<1>6. LogicalAt(l, rev, m) = (s + l) % Turn /\ OffsetFor(l, rev, m) = (l + Turn - s) % Turn
  BY DEF LogicalAt, OffsetFor, s
<1>7. LogicalAt(l, rev, m) \in Places /\ OffsetFor(l, rev, m) \in Places
  BY <1>1, <1>2, <1>5, <1>6 DEF Places
<1>8. ASSUME l \in Places
      PROVE  OffsetFor(LogicalAt(l, rev, m), rev, m) = l
  <2>1. OffsetFor(LogicalAt(l, rev, m), rev, m) = (LogicalAt(l, rev, m) + Turn - s) % Turn
    BY DEF OffsetFor, s
  <2> QED BY <1>1, <1>2, <1>4, <1>5, <1>6, <1>8, <2>1 DEF Places, s
<1>9. ASSUME l \in Places
      PROVE  LogicalAt(OffsetFor(l, rev, m), rev, m) = l
  <2>1. LogicalAt(OffsetFor(l, rev, m), rev, m) = (s + OffsetFor(l, rev, m)) % Turn
    BY DEF LogicalAt, s
  <2> QED BY <1>1, <1>2, <1>4, <1>5, <1>6, <1>9, <2>1 DEF Places, s
<1> QED BY <1>4, <1>7, <1>8, <1>9 DEF s

(* A move goes where the angle is.                                         *)
LEMMA MoveGoes ==
  ASSUME NEW x \in Places, NEW off \in Places, NEW rev \in BOOLEAN
  PROVE  /\ Signed(rev, (x + Turn - off) % Turn) \in Places
         /\ LogicalAt(off, rev, Signed(rev, (x + Turn - off) % Turn)) = x
<1>1. Turn \in Nat \ {0}
  BY RotatorAssumption
<1>2. \A a \in 0..(2 * Turn) : a % Turn = IF a < Turn THEN a ELSE IF a < 2 * Turn THEN a - Turn ELSE 0
  BY <1>1, SMT
<1> DEFINE p == (x + Turn - off) % Turn
<1>3. p \in Places /\ (p + off) % Turn = x
  BY <1>1, <1>2 DEF Places
<1> HIDE DEF p
<1>4. Signed(rev, p) \in Places /\ Signed(rev, Signed(rev, p)) = p
  BY <1>1, <1>3, Circle DEF Places
<1>5. LogicalAt(off, rev, Signed(rev, p)) = x
  BY <1>3, <1>4 DEF LogicalAt
<1> QED BY <1>4, <1>5 DEF p

LEMMA OneFacts ==
  ASSUME NEW S, NEW e \in S
  PROVE  /\ Append(<<>>, e) = <<e>> /\ Head(<<e>>) = e /\ Tail(<<e>>) = <<>>
         /\ <<e>> # <<>> /\ <<e>> \in Seq(S)
OBVIOUS

LEMMA PipeMade ==
  ASSUME NEW p \in Pipes, NEW a \in Seq(RtAsks), NEW r \in Seq(RtAnswers)
  PROVE  /\ [p EXCEPT !.asks = a, !.reps = r] \in Pipes
         /\ [p EXCEPT !.asks = a, !.reps = r].asks = a
         /\ [p EXCEPT !.asks = a, !.reps = r].reps = r
BY DEF Pipes

LEMMA HaltMade ==
  ASSUME NEW v \in Rotators, NEW m \in Places
  PROVE  /\ LET d == [v EXCEPT !.to = Still, !.mech = m] IN
            d \in Rotators /\ d.to = Still /\ d.rev = v.rev
         /\ LET d == [v EXCEPT !.mech = m, !.to = Still] IN
            d \in Rotators /\ d.to = Still /\ d.rev = v.rev
<1>1. \A u \in Rotators : /\ [u EXCEPT !.to = Still] \in Rotators
                           /\ [u EXCEPT !.to = Still].to = Still
                           /\ [u EXCEPT !.to = Still].rev = u.rev
  BY RotatorAssumption DEF Rotators, Still
<1>2. \A u \in Rotators : /\ [u EXCEPT !.mech = m] \in Rotators
                           /\ [u EXCEPT !.mech = m].to = u.to
                           /\ [u EXCEPT !.mech = m].rev = u.rev
  BY DEF Rotators
<1> QED BY <1>1, <1>2

-----------------------------------------------------------------------------
(* What the worker and the rotator do                                      *)

RtReplies ==
  [ok : BOOLEAN, rev : BOOLEAN, mech : Places, off : Places, moving : BOOLEAN, logical : Places]

LEMMA ReplyType ==
  ASSUME NEW v \in Rotators, NEW w \in RtWorkers, NEW ok \in BOOLEAN
  PROVE  /\ Reply(ok, v, w) \in RtReplies
         /\ Reply(ok, v, w).ok = ok /\ Reply(ok, v, w).rev = v.rev /\ Reply(ok, v, w).off = w.off
         /\ Reply(ok, v, w).moving = (v.to # Still)
         /\ Reply(ok, v, w).logical = LogicalAt(w.off, w.rev, v.mech)
<1>1. LogicalAt(w.off, w.rev, v.mech) \in Places
  BY Circle, RotatorAssumption DEF Rotators, RtWorkers, Places
<1> QED BY <1>1 DEF Reply, RtReplies, Rotators, RtWorkers

LEMMA ResolvedType ==
  ASSUME NEW v \in Rotators, NEW w \in RtWorkers
  PROVE  /\ Resolved(w, v) \in RtWorkers
         /\ Resolved(w, v).rev = v.rev /\ Resolved(w, v).pend = <<>>
         /\ w.pend = <<>> => Resolved(w, v).off = w.off
<1>1. CASE w.pend = <<>>
  BY <1>1 DEF Resolved, RtWorkers, Rotators, Unresolved
<1>2. CASE w.pend # <<>>
  <2>1. PICK m \in Places, l \in Places : w.pend = <<m, l>>
    BY <1>2 DEF RtWorkers, Unresolved
  <2>2. OffsetFor(w.pend[2], v.rev, w.pend[1]) \in Places
    BY <2>1, Circle, RotatorAssumption DEF Rotators, Places
  <2> QED BY <1>2, <2>2 DEF Resolved, RtWorkers, Rotators, Unresolved
<1> QED BY <1>1, <1>2

LEMMA LookedType ==
  ASSUME NEW v \in Rotators, NEW w \in RtWorkers
  PROVE  /\ Looked(w, v) \in RtWorkers /\ Looked(w, v).pend = <<>>
         /\ w.pend = <<>> => Looked(w, v) = w
         /\ w.rev = v.rev => Looked(w, v).rev = v.rev
BY ResolvedType DEF Looked

(* What each request does, whether it succeeds or not.                     *)
Does(c, x, v, w, o) ==
  /\ o.dev \in Rotators /\ o.wk \in RtWorkers /\ o.rep \in RtReplies
  /\ c # "reverse" => o.dev.rev = v.rev
  /\ c \in {"sync", "reverse"} => o.dev.to = v.to /\ o.dev.mech = v.mech
  /\ c \notin {"stop", "reverse", "mech", "move"} => o.dev = v
  /\ c \notin {"mech", "move"} => o.dev.to \in {v.to, Still}
  /\ w.pend = <<>> /\ c # "reverse" => o.wk.pend = <<>>
  /\ w.pend = <<>> /\ c \notin {"sync", "restore", "reverse"} => o.wk.off = w.off
  /\ w.pend = <<>> /\ w.rev = v.rev /\ c # "reverse" => o.wk.rev = v.rev
  /\ c = "restore" /\ o.rep.ok => o.wk.off = x
  /\ c = "settings" /\ o.rep.ok => o.rep.rev = v.rev /\ o.wk.rev = v.rev /\ o.wk.pend = <<>>
  /\ c = "status" /\ o.rep.ok =>
       /\ o.rep.moving = (v.to # Still) /\ o.rep.off = o.wk.off
       /\ o.rep.logical = LogicalAt(o.wk.off, o.wk.rev, v.mech)
  /\ c = "move" /\ w.pend = <<>> /\ o.dev.to # v.to /\ o.dev.to # Still =>
       LogicalAt(w.off, v.rev, o.dev.to) = x

LEMMA FailureDoes ==
  ASSUME NEW v \in Rotators, NEW w \in RtWorkers, NEW c \in RtCommands, NEW x \in 0..Turn,
         NEW s \in {w, Looked(w, v)}
  PROVE  Does(c, x, v, w, Effect(v, s, Reply(FALSE, v, s)))
<1>1. s \in RtWorkers /\ (w.pend = <<>> => s = w)
  BY LookedType
<1>2. Reply(FALSE, v, s) \in RtReplies /\ Reply(FALSE, v, s).ok = FALSE
  BY <1>1, ReplyType
<1> QED BY <1>1, <1>2 DEF Does, Effect

LEMMA MovedDoes ==
  ASSUME NEW v \in Rotators, NEW w \in RtWorkers, NEW c \in {"mech", "move"}, NEW x \in Places,
         NEW p \in Places, v.to = Still,
         c = "move" /\ w.pend = <<>> => LogicalAt(w.off, v.rev, p) = x,
         NEW o \in Moved(v, Resolved(Looked(w, v), v), p)
  PROVE  Does(c, x, v, w, o)
<1> DEFINE s == Resolved(Looked(w, v), v)
<1>1. /\ s \in RtWorkers /\ s.rev = v.rev /\ s.pend = <<>>
      /\ w.pend = <<>> => s.off = w.off
  BY LookedType, ResolvedType
<1> HIDE DEF s
<1>2. Turn \in Nat \ {0}
  BY RotatorAssumption
<1>3. CASE o = Effect([v EXCEPT !.to = p], s, Reply(TRUE, v, s))
  <2>1. [v EXCEPT !.to = p] \in Rotators
    BY <1>2 DEF Rotators, Places
  <2>2. Reply(TRUE, v, s) \in RtReplies
    BY <1>1, ReplyType
  <2>3. /\ o.dev = [v EXCEPT !.to = p] /\ o.wk = s /\ o.rep \in RtReplies
        /\ o.dev.to = p /\ o.dev.rev = v.rev
    BY <1>1, <1>3, <2>1, <2>2 DEF Effect, Rotators
  <2> QED BY <1>1, <2>1, <2>3 DEF Does
<1>4. ASSUME NEW q \in {v.mech, p}, o = Effect([v EXCEPT !.mech = q], s, Reply(FALSE, v, s))
      PROVE  Does(c, x, v, w, o)
  <2>1. [v EXCEPT !.mech = q] \in Rotators
    BY DEF Rotators
  <2>2. Reply(FALSE, v, s) \in RtReplies
    BY <1>1, ReplyType
  <2>3. /\ o.dev = [v EXCEPT !.mech = q] /\ o.wk = s /\ o.rep \in RtReplies
        /\ o.dev.to = v.to /\ o.dev.rev = v.rev
    BY <1>1, <1>4, <2>1, <2>2 DEF Effect, Rotators
  <2> QED BY <1>1, <2>1, <2>3 DEF Does
<1> QED BY <1>3, <1>4 DEF Moved, s

LEMMA StoppedDoes ==
  ASSUME NEW v \in Rotators, NEW w \in RtWorkers, NEW x \in 0..Turn, NEW o \in Stopped(v, w)
  PROVE  Does("stop", x, v, w, o) /\ o.dev.to = Still
<1>1. Turn \in Nat \ {0}
  BY RotatorAssumption
<1>2. \A p \in Places :
        LET d == [v EXCEPT !.to = Still, !.mech = p] IN
        d \in Rotators /\ d.to = Still /\ d.rev = v.rev
  BY HaltMade
<1>3. v.mech \in Places /\ (v.to = Still \/ v.to \in Places)
  BY <1>1 DEF Rotators, Places, Still
<1>4. PICK p \in Places : o = Effect([v EXCEPT !.to = Still, !.mech = p], w, Reply(TRUE, v, w))
  BY <1>3 DEF Stopped
<1> DEFINE d == [v EXCEPT !.to = Still, !.mech = p]
<1>6. d \in Rotators /\ d.to = Still /\ d.rev = v.rev
  BY <1>2
<1>5. Reply(TRUE, v, w) \in RtReplies
  BY ReplyType
<1>7. o.dev = d /\ o.wk = w /\ o.rep \in RtReplies
  BY <1>4, <1>5 DEF Effect
<1> HIDE DEF d
<1> QED BY <1>6, <1>7 DEF Does

LEMMA ReversedDoes ==
  ASSUME NEW v \in Rotators, NEW w \in RtWorkers, NEW s \in RtWorkers, NEW b \in BOOLEAN,
         NEW x \in 0..Turn, NEW o \in Reversed(v, s, b)
  PROVE  Does("reverse", x, v, w, o)
<1> DEFINE p == [s EXCEPT !.pend = <<v.mech, LogicalAt(s.off, s.rev, v.mech)>>]
<1>1. LogicalAt(s.off, s.rev, v.mech) \in Places
  BY Circle, RotatorAssumption DEF Rotators, RtWorkers, Places
<1>2. p \in RtWorkers
  BY <1>1 DEF RtWorkers, Unresolved, Rotators
<1> HIDE DEF p
<1> DEFINE D == {v, [v EXCEPT !.rev = b]}
<1>3. \A d \in D : d \in Rotators /\ d.to = v.to /\ d.mech = v.mech
  BY DEF Rotators
<1> HIDE DEF D
<1>4. \A d \in D : Resolved(p, d) \in RtWorkers
  BY <1>2, <1>3, ResolvedType
<1>5. \A d \in D, ok \in BOOLEAN :
        Reply(ok, d, Resolved(p, d)) \in RtReplies /\ Reply(FALSE, d, p) \in RtReplies
  BY <1>2, <1>3, <1>4, ReplyType
<1> DEFINE Kept == {Effect(d, p, Reply(FALSE, d, p)) : d \in D}
           Lost == {Effect(d, Resolved(p, d), Reply(FALSE, d, Resolved(p, d))) : d \in D}
           Made == {Effect(d, Resolved(p, d), Reply(TRUE, d, Resolved(p, d))) :
                     d \in {e \in D : e.rev = b}}
<1>6. o \in Kept \/ o \in Lost \/ o \in Made
  <2> HIDE DEF Kept, Lost, Made
  <2>1. Reversed(v, s, b) = Kept \cup Lost \cup Made
    BY Zenon DEF Reversed, p, D, Kept, Lost, Made
  <2> QED BY <2>1
<1>7. ASSUME o \in Kept
      PROVE  o.dev \in D /\ o.wk \in RtWorkers /\ o.rep \in RtReplies
  <2>1. PICK d \in D : o = Effect(d, p, Reply(FALSE, d, p))
    BY <1>7
  <2> QED BY <1>2, <1>5, <2>1 DEF Effect
<1>8. ASSUME o \in Lost
      PROVE  o.dev \in D /\ o.wk \in RtWorkers /\ o.rep \in RtReplies
  <2>1. PICK d \in D : o = Effect(d, Resolved(p, d), Reply(FALSE, d, Resolved(p, d)))
    BY <1>8
  <2> QED BY <1>4, <1>5, <2>1 DEF Effect
<1>9. ASSUME o \in Made
      PROVE  o.dev \in D /\ o.wk \in RtWorkers /\ o.rep \in RtReplies
  <2>1. PICK d \in D : o = Effect(d, Resolved(p, d), Reply(TRUE, d, Resolved(p, d)))
    BY <1>9
  <2> QED BY <1>4, <1>5, <2>1 DEF Effect
<1> HIDE DEF Kept, Lost, Made
<1>10. o.dev \in D /\ o.wk \in RtWorkers /\ o.rep \in RtReplies
  BY <1>6, <1>7, <1>8, <1>9
<1> QED BY <1>3, <1>10 DEF Does

LEMMA ExecutedDoes ==
  ASSUME NEW v \in Rotators, NEW w \in RtWorkers, NEW a \in RtAsks,
         NEW o \in Executed(a.c, a.x, v, w)
  PROVE  Does(a.c, a.x, v, w, o)
<1> DEFINE s == Looked(w, v)  c == a.c  x == a.x
<1>1. Turn \in Nat \ {0}
  BY RotatorAssumption
<1>2. c \in RtCommands /\ x \in 0..Turn /\ (c # "reverse" => x \in Places)
  BY DEF RtAsks
<1>3. /\ s \in RtWorkers /\ s.pend = <<>>
      /\ w.pend = <<>> => s = w
      /\ w.rev = v.rev => s.rev = v.rev
  BY LookedType
<1>4. o \in Executed(c, x, v, w)
  OBVIOUS
<1> SUFFICES Does(c, x, v, w, o)
  OBVIOUS
<1> HIDE DEF s, c, x
<1>5. CASE o = Effect(v, w, Reply(FALSE, v, w)) \/ o = Effect(v, s, Reply(FALSE, v, s))
  BY <1>2, <1>5, FailureDoes DEF s
<1>6. CASE c = "identity" /\ o = Effect(v, w, Reply(TRUE, v, w))
  BY <1>2, <1>6, ReplyType DEF Does, Effect
<1>7. CASE c = "settings" /\ o = Effect(v, Resolved(w, v), Reply(TRUE, v, Resolved(w, v)))
  <2>1. /\ Resolved(w, v) \in RtWorkers
        /\ Resolved(w, v).rev = v.rev /\ Resolved(w, v).pend = <<>>
        /\ w.pend = <<>> => Resolved(w, v).off = w.off
    BY ResolvedType
  <2> QED BY <1>2, <1>7, <2>1, ReplyType DEF Does, Effect
<1>8. CASE c = "status" /\ o = Effect(v, s, Reply(TRUE, v, s))
  BY <1>2, <1>3, <1>8, ReplyType DEF Does, Effect
<1>9. CASE c = "stop" /\ o \in Stopped(v, w)
  BY <1>2, <1>9, StoppedDoes
<1>10. CASE v.to = Still /\ o \in Commanded(c, x, v, s)
            /\ c \notin {"identity", "settings", "status", "stop"}
  <2>1. CASE c = "sync"
    <3> DEFINE n == [s EXCEPT !.off = OffsetFor(x, s.rev, v.mech)]
    <3>1. o = Effect(v, n, Reply(TRUE, v, n))
      BY <1>10, <2>1 DEF Commanded
    <3>2. OffsetFor(x, s.rev, v.mech) \in Places
      BY <1>2, <1>3, Circle DEF RtWorkers, Rotators
    <3>3. n \in RtWorkers /\ n.pend = <<>> /\ n.rev = s.rev
      BY <1>3, <3>2 DEF RtWorkers
    <3> HIDE DEF n
    <3>4. o.dev = v /\ o.wk = n /\ o.rep \in RtReplies
      BY <3>1, <3>3, ReplyType DEF Effect
    <3> QED BY <1>3, <2>1, <3>3, <3>4 DEF Does
  <2>2. CASE c = "restore"
    <3> DEFINE n == [s EXCEPT !.off = x]
    <3>1. o = Effect(v, n, Reply(TRUE, v, n))
      BY <1>10, <2>2 DEF Commanded
    <3>3. n \in RtWorkers /\ n.pend = <<>> /\ n.rev = s.rev /\ n.off = x
      BY <1>2, <1>3, <2>2 DEF RtWorkers
    <3> HIDE DEF n
    <3>4. o.dev = v /\ o.wk = n /\ o.rep \in RtReplies
      BY <3>1, <3>3, ReplyType DEF Effect
    <3> QED BY <1>3, <2>2, <3>3, <3>4 DEF Does
  <2>3. CASE c = "reverse"
    <3>1. o \in Reversed(v, s, x = 1)
      BY <1>10, <2>3 DEF Commanded
    <3> QED BY <1>2, <1>3, <2>3, <3>1, ReversedDoes
  <2>4. CASE c = "mech"
    <3>1. o \in Moved(v, Resolved(s, v), x)
      BY <1>10, <2>4 DEF Commanded
    <3> QED BY <1>2, <1>10, <2>4, <3>1, MovedDoes DEF s
  <2>5. CASE c = "move"
    <3> DEFINE p == Signed(v.rev, (x + Turn - s.off) % Turn)
    <3>1. o \in Moved(v, Resolved(s, v), p)
      BY <1>10, <2>5 DEF Commanded
    <3>2. p \in Places /\ LogicalAt(s.off, v.rev, p) = x
      BY <1>2, <1>3, <2>5, MoveGoes DEF RtWorkers, Rotators
    <3> HIDE DEF p
    <3> QED BY <1>2, <1>3, <1>10, <2>5, <3>1, <3>2, MovedDoes DEF s
  <2> QED BY <1>2, <1>10, <2>1, <2>2, <2>3, <2>4, <2>5 DEF RtCommands
<1>11. \/ o = Effect(v, w, Reply(FALSE, v, w)) \/ o = Effect(v, s, Reply(FALSE, v, s))
       \/ c = "identity" /\ o = Effect(v, w, Reply(TRUE, v, w))
       \/ c = "settings" /\ o = Effect(v, Resolved(w, v), Reply(TRUE, v, Resolved(w, v)))
       \/ c = "status" /\ o = Effect(v, s, Reply(TRUE, v, s))
       \/ c = "stop" /\ o \in Stopped(v, w)
       \/ v.to = Still /\ o \in Commanded(c, x, v, s)
            /\ c \notin {"identity", "settings", "status", "stop"}
  BY <1>4 DEF Executed, s
<1> QED BY <1>5, <1>6, <1>7, <1>8, <1>9, <1>10, <1>11

LEMMA AskFacts ==
  ASSUME RtInv, rpipe.asks # <<>>
  PROVE  /\ Waits /\ rpipe.reps = <<>> /\ Tail(rpipe.asks) = <<>>
         /\ Head(rpipe.asks) \in RtAsks /\ Head(rpipe.asks).c = Awaited
BY OneFacts DEF RtInv, PipeInv

LEMMA ReplyFacts ==
  ASSUME RtInv, rpipe.reps # <<>>
  PROVE  /\ Waits /\ rpipe.asks = <<>> /\ Tail(rpipe.reps) = <<>>
         /\ Head(rpipe.reps) \in RtAnswers /\ Head(rpipe.reps).ask.c = Awaited
         /\ AnswerTrue(Head(rpipe.reps))
BY OneFacts DEF RtInv, PipeInv, AnswersTrue

(* What is awaited at each step.                                           *)
LEMMA AwaitedIs ==
  /\ rop.step = "identity" => Awaited = "identity"
  /\ rop.step \in {"reference", "settings", "settings2"} => Awaited = "settings"
  /\ rop.step = "restore" => Awaited = "restore"
  /\ rop.step \in {"status", "status2"} => Awaited = "status"
  /\ rop.step \in {"command", "change"} =>
       Awaited = IF rop.op = "halt" THEN "stop" ELSE rop.op
BY DEF Awaited

(* The worker executes the request.                                        *)
LEMMA WorkerKeeps ==
  ASSUME RtInv, RtWorker
  PROVE  RtInv'
<1> USE DEF RtInv
<1> DEFINE ask == Head(rpipe.asks)
<1>1. PICK o \in Executed(ask.c, ask.x, rdev, rwk) :
        /\ rdev' = o.dev /\ rwk' = o.wk
        /\ rpipe' = [rpipe EXCEPT !.asks = Tail(@),
                       !.reps = Append(@, [ask |-> ask, rep |-> o.rep])]
  BY DEF RtWorker
<1>2. rpipe.asks # <<>> /\ UNCHANGED <<rback, rfile, rjobs, rop, rtold, rcount>>
  BY DEF RtWorker
<1>3. Waits /\ rpipe.reps = <<>> /\ Tail(rpipe.asks) = <<>> /\ ask \in RtAsks /\ ask.c = Awaited
  BY <1>2, AskFacts
<1> HIDE DEF ask
<1>4. Does(ask.c, ask.x, rdev, rwk, o)
  BY <1>1, <1>3, ExecutedDoes DEF RtTypeOK, ask
<1> DEFINE r == [ask |-> ask, rep |-> o.rep]
<1>5. r \in RtAnswers /\ r.ask = ask /\ r.rep = o.rep
  BY <1>3, <1>4 DEF Does, RtAnswers, RtReplies
<1> HIDE DEF r
<1>6. /\ rpipe'.asks = <<>> /\ rpipe'.reps = <<r>> /\ Head(rpipe'.reps) = r
      /\ rpipe' \in Pipes
  <2>1. Append(<<>>, r) = <<r>> /\ Head(<<r>>) = r /\ <<r>> \in Seq(RtAnswers)
    BY <1>5, OneFacts
  <2>2. rpipe' = [rpipe EXCEPT !.asks = <<>>, !.reps = <<r>>]
    BY <1>1, <1>3, <2>1 DEF r
  <2>3. rpipe \in Pipes /\ <<>> \in Seq(RtAsks)
    BY DEF RtTypeOK
  <2>4. [rpipe EXCEPT !.asks = <<>>, !.reps = <<r>>] \in Pipes
    BY <2>1, <2>3, PipeMade
  <2>5. rpipe'.asks = <<>> /\ rpipe'.reps = <<r>>
    BY <2>2, <2>3 DEF Pipes
  <2> QED BY <2>1, <2>2, <2>4, <2>5
<1>7. /\ Waits' /\ Awaited' = Awaited
  BY <1>2, <1>3 DEF Waits, Awaited
<1>8. RtTypeOK'
  BY <1>1, <1>2, <1>4, <1>6 DEF RtTypeOK, Does
<1>9. PipeInv'
  BY <1>2, <1>3, <1>5, <1>6, <1>7 DEF PipeInv, Changes
<1>10. AnswersTrue'
  BY <1>1, <1>3, <1>4, <1>5, <1>6 DEF AnswersTrue, AnswerTrue, Does
<1>11. StillInv'
  BY <1>1, <1>2, <1>3, <1>4, AwaitedIs DEF StillInv, PipeInv, Changes, Does, Waits
<1>12. NumberInv'
  BY <1>2 DEF NumberInv
<1>13. rop.step \in {"marker", "marked", "change", "settings2", "status2", "save", "saved"} =>
         Goal' = Goal
  BY <1>1, <1>2, <1>3, <1>4, AwaitedIs DEF PipeInv, Changes, Does, Waits, Goal
<1>14. RecordInv'
  BY <1>2, <1>13 DEF RecordInv
<1>15. TrustInv'
  <2>1. ask.c \in {"sync", "reverse"} => rback.unc /\ rop.op # "connect"
    BY <1>3, AwaitedIs DEF TrustInv, PipeInv, Changes, Waits
  <2>2. ask.c = "restore" => rop.step = "restore" /\ ~rback.up
    BY <1>3, AwaitedIs DEF TrustInv, PipeInv, Changes, Waits
  <2>3. rop.op = "move" => rdev'.rev = rdev.rev
    BY <1>1, <1>3, <1>4, AwaitedIs DEF PipeInv, Changes, Waits, Does
  <2>4. rop.step = "restore" /\ r.rep.ok => rwk'.off = rback.ref.t.off
    BY <1>1, <1>2, <1>3, <1>4, <1>5, AwaitedIs DEF TrustInv, Does, ask
  <2>5. Serves' = Serves /\ rop.step \notin {"save", "saved"}
    BY <1>2, <1>3 DEF Serves, Waits
  <2>6. Serves /\ ~rback.unc => rwk'.pend = <<>>
    BY <1>1, <1>4, <2>1 DEF TrustInv, Does
  <2>7. rback.up /\ ~rback.unc /\ rback.ref.kind = "known" => rwk'.off = rback.ref.t.off
    BY <1>1, <1>4, <2>1, <2>2 DEF TrustInv, Does, Serves
  <2> QED BY <1>2, <1>6, <2>3, <2>4, <2>5, <2>6, <2>7 DEF TrustInv
<1> QED BY <1>8, <1>9, <1>10, <1>11, <1>12, <1>14, <1>15

(* Between two operations nothing is under way.                            *)
LEMMA IdleFacts ==
  ASSUME RtInv, rop = Idle
  PROVE  /\ ~Waits /\ rpipe.asks = <<>> /\ rpipe.reps = <<>>
         /\ rop.step = "idle" /\ rop.op = "none"
BY DEF RtInv, PipeInv, Waits, Idle

LEMMA ConstantFacts ==
  /\ Turn \in Nat \ {0} /\ 0 \in Places /\ Places \subseteq 0..Turn
  /\ NoRecord \in Records /\ NoRecord.no = 0 /\ NoRecord.kind = "none"
  /\ NoWorker \in RtWorkers /\ NoWorker.pend = <<>>
  /\ Closed \in Pipes
  /\ Closed.asks = <<>> /\ Closed.reps = <<>>
  /\ Down \in [up : BOOLEAN, ref : Records, unc : BOOLEAN, obs : {"none", "forward", "reverse"}]
  /\ ~Down.up /\ ~Down.unc /\ Down.ref = NoRecord
  /\ Idle \in [op : RtOps, x : 0..Turn, step : RtSteps, exp : Places, rev : BOOLEAN]
  /\ Idle.step = "idle" /\ Idle.op = "none" /\ Idle.x = 0
<1>1. Turn \in Nat \ {0} /\ 0 \in Places /\ Places \subseteq 0..Turn
  BY RotatorAssumption DEF Places
<1>2. NoRecord \in Records /\ NoRecord.no = 0 /\ NoRecord.kind = "none"
  BY <1>1 DEF NoRecord, Records, Transforms
<1>3. NoWorker \in RtWorkers /\ NoWorker.pend = <<>>
  BY <1>1 DEF NoWorker, RtWorkers, Unresolved
<1>4. /\ Closed \in Pipes
      /\ Closed.asks = <<>> /\ Closed.reps = <<>>
  BY DEF Closed, Pipes
<1>5. /\ Down \in [up : BOOLEAN, ref : Records, unc : BOOLEAN,
                   obs : {"none", "forward", "reverse"}]
      /\ ~Down.up /\ ~Down.unc /\ Down.ref = NoRecord
  BY <1>2 DEF Down
<1>6. /\ Idle \in [op : RtOps, x : 0..Turn, step : RtSteps, exp : Places, rev : BOOLEAN]
      /\ Idle.step = "idle" /\ Idle.op = "none" /\ Idle.x = 0
  BY <1>1 DEF Idle, RtOps, RtSteps
<1> QED BY <1>1, <1>2, <1>3, <1>4, <1>5, <1>6

(* The worker is gone, with whatever was in the stream.                    *)
LEMMA ResetKeeps ==
  ASSUME RtInv, rdev' \in Rotators, rwk' = NoWorker, rpipe' = Closed, rback' = Down, rop' = Idle,
         rjobs' \subseteq rjobs, UNCHANGED <<rfile, rtold, rcount>>
  PROVE  RtInv'
<1> USE DEF RtInv
<1>1. RtTypeOK'
  BY ConstantFacts DEF RtTypeOK
<1>2. rop'.step = "idle" /\ rop'.op = "none" /\ ~Waits' /\ ~Serves' /\ ~rback'.up
  BY ConstantFacts DEF Waits, Serves
<1>3. PipeInv' /\ AnswersTrue'
  BY <1>2, ConstantFacts DEF PipeInv, AnswersTrue
<1>4. StillInv'
  BY <1>2 DEF StillInv
<1>5. NumberInv'
  <2>1. \A j \in rjobs : j[1] \in Nat /\ j[2].no \in Nat
    BY DEF RtTypeOK, Records
  <2>2. rcount.no \in Nat
    BY DEF RtTypeOK
  <2> QED BY <2>1, <2>2, ConstantFacts DEF NumberInv
<1>6. RecordInv'
  BY <1>2 DEF RecordInv
<1>7. TrustInv'
  BY <1>2 DEF TrustInv
<1> QED BY <1>1, <1>3, <1>4, <1>5, <1>6, <1>7

LEMMA RetiredFacts ==
  ASSUME RtInv, Retired
  PROVE  rdev' \in Rotators /\ rwk' = NoWorker /\ rpipe' = Closed /\ rback' = Down
<1>1. CASE rpipe.asks = <<>>
  <2>1. rdev' \in {rdev} \cup {o.dev : o \in Stopped(rdev, rwk)}
    BY <1>1 DEF Retired
  <2>2. \A o \in Stopped(rdev, rwk) : o.dev \in Rotators
    BY StoppedDoes, ConstantFacts DEF Does, RtInv, RtTypeOK
  <2> QED BY <2>1, <2>2 DEF Retired, RtInv, RtTypeOK
<1>2. CASE rpipe.asks # <<>>
  <2> DEFINE a == Head(rpipe.asks)
  <2>1. rdev' \in {o.dev : o \in Executed(a.c, a.x, rdev, rwk)}
    BY <1>2 DEF Retired
  <2>2. a \in RtAsks
    BY <1>2, AskFacts
  <2> HIDE DEF a
  <2>3. \A o \in Executed(a.c, a.x, rdev, rwk) : o.dev \in Rotators
    BY <2>2, ExecutedDoes DEF Does, RtInv, RtTypeOK
  <2> QED BY <2>1, <2>3 DEF Retired
<1> QED BY <1>1, <1>2

LEMMA LostKeeps ==
  ASSUME RtInv, RtLost \/ RtDisconnect \/ RtCrash
  PROVE  RtInv'
<1>1. /\ Retired /\ rop' = Idle /\ rjobs' \subseteq rjobs
      /\ UNCHANGED <<rfile, rtold, rcount>>
  BY DEF RtLost, RtDisconnect, RtCrash, Done
<1> QED BY <1>1, RetiredFacts, ResetKeeps

(* The rotator arrives, or another program turns it round.                 *)
LEMMA ArriveKeeps ==
  ASSUME RtInv, RtArrive
  PROVE  RtInv'
<1> USE DEF RtInv
<1>1. PICK p \in {rdev.mech, rdev.to} : rdev' = [rdev EXCEPT !.mech = p, !.to = Still]
  BY DEF RtArrive
<1>2. rdev.to # Still /\ UNCHANGED <<rwk, rpipe, rback, rfile, rjobs, rop, rtold, rcount>>
  BY DEF RtArrive
<1>3. rdev.mech \in Places /\ rdev.to \in Places /\ rdev \in Rotators
  BY <1>2, ConstantFacts DEF RtTypeOK, Rotators, Places, Still
<1>4. p \in Places
  BY <1>3
<1>5. rdev'.rev = rdev.rev /\ rdev'.to = Still /\ rdev' \in Rotators
  BY <1>1, <1>3, <1>4, HaltMade
<1>6. rop.step \notin {"marker", "marked", "change", "settings2", "status2", "save", "saved"}
  BY <1>2 DEF StillInv
<1>7. RtTypeOK'
  BY <1>2, <1>5 DEF RtTypeOK
<1>8. Awaited' = Awaited /\ Waits' = Waits /\ Serves' = Serves
  BY <1>2 DEF Awaited, Waits, Serves
<1>9. PipeInv'
  BY <1>2, <1>8 DEF PipeInv, Changes
<1>10. AnswersTrue'
  BY <1>2, <1>5, ReplyFacts DEF AnswersTrue, AnswerTrue
<1>11. StillInv'
  BY <1>2, <1>5, <1>6 DEF StillInv
<1>12. NumberInv'
  BY <1>2 DEF NumberInv
<1>13. RecordInv'
  BY <1>2, <1>6 DEF RecordInv
<1>14. TrustInv'
  BY <1>2, <1>5, <1>6, <1>8 DEF TrustInv
<1> QED BY <1>7, <1>9, <1>10, <1>11, <1>12, <1>13, <1>14

LEMMA FlippedKeeps ==
  ASSUME RtInv, RtFlipped
  PROVE  RtInv'
<1> USE DEF RtInv
<1>1. /\ rdev' = [rdev EXCEPT !.rev = ~@] /\ rop = Idle
      /\ rcount' = [rcount EXCEPT !.moves = @ + 1]
      /\ UNCHANGED <<rwk, rpipe, rback, rfile, rjobs, rop, rtold>>
  BY DEF RtFlipped
<1>2. ~Waits /\ rpipe.asks = <<>> /\ rpipe.reps = <<>> /\ rop.step = "idle" /\ rop.op = "none"
  BY <1>1, IdleFacts
<1>3. rcount'.no = rcount.no /\ rcount' \in [syncs : Nat, moves : Nat, no : Nat]
  BY <1>1 DEF RtTypeOK
<1>4. rdev' \in Rotators
  BY <1>1 DEF RtTypeOK, Rotators
<1>5. RtTypeOK'
  BY <1>1, <1>3, <1>4 DEF RtTypeOK
<1>6. ~Waits' /\ Serves' = Serves
  BY <1>1, <1>2 DEF Waits, Serves
<1>7. PipeInv' /\ AnswersTrue'
  BY <1>1, <1>2, <1>6 DEF PipeInv, AnswersTrue
<1>8. StillInv'
  BY <1>1, <1>2 DEF StillInv
<1>9. NumberInv'
  BY <1>1, <1>3 DEF NumberInv
<1>10. RecordInv'
  BY <1>1, <1>2 DEF RecordInv
<1>11. TrustInv'
  BY <1>1, <1>2, <1>6 DEF TrustInv
<1> QED BY <1>5, <1>7, <1>8, <1>9, <1>10, <1>11

LEMMA AskMade ==
  ASSUME NEW p \in Pipes, p.asks = <<>>, NEW a \in RtAsks
  PROVE  LET q == [p EXCEPT !.asks = Append(@, a)] IN
         q \in Pipes /\ q.asks = <<a>> /\ Head(q.asks) = a /\ q.reps = p.reps
<1>1. Append(<<>>, a) = <<a>> /\ Head(<<a>>) = a /\ <<a>> \in Seq(RtAsks)
  BY OneFacts
<1> QED BY <1>1 DEF Pipes

LEMMA TakenFacts ==
  ASSUME RtInv, rpipe.reps # <<>>
  PROVE  Taken \in Pipes /\ Taken.asks = <<>> /\ Taken.reps = <<>>
<1>1. Tail(rpipe.reps) = <<>> /\ rpipe.asks = <<>> /\ rpipe \in Pipes
  BY ReplyFacts DEF RtInv, RtTypeOK
<1> QED BY <1>1 DEF Taken, Pipes

(* The next request of an operation, once the last was answered.           *)
LEMMA AskNextFacts ==
  ASSUME RtInv, rpipe.reps # <<>>, NEW c, NEW x, AskNext(c, x), [c |-> c, x |-> x] \in RtAsks
  PROVE  /\ rpipe' \in Pipes /\ rpipe'.asks = <<[c |-> c, x |-> x]>> /\ rpipe'.reps = <<>>
         /\ Head(rpipe'.asks) = [c |-> c, x |-> x]
BY TakenFacts, AskMade DEF AskNext

LEMMA PlainAsks ==
  /\ \A c \in RtCommands : [c |-> c, x |-> 0] \in RtAsks
  /\ \A c \in RtCommands, x \in Places : [c |-> c, x |-> x] \in RtAsks
  /\ \A x \in 0..Turn : [c |-> "reverse", x |-> x] \in RtAsks
BY ConstantFacts DEF RtAsks, RtCommands

(* An operation ends without a change to the reference.                    *)
LEMMA DoneKeeps ==
  ASSUME RtInv, rop' = Idle, rpipe' \in Pipes, rpipe'.asks = <<>>, rpipe'.reps = <<>>,
         UNCHANGED <<rdev, rwk, rfile, rjobs, rtold, rcount>>,
         rback' \in [up : BOOLEAN, ref : Records, unc : BOOLEAN,
                     obs : {"none", "forward", "reverse"}],
         rback'.ref = rback.ref, rback.unc => rback'.unc, rback'.up => Serves,
         rback'.up /\ ~rback'.unc /\ rback.ref.kind = "known" => rwk.off = rback.ref.t.off
  PROVE  RtInv'
<1> USE DEF RtInv
<1>1. RtTypeOK'
  BY ConstantFacts DEF RtTypeOK
<1>2. rop'.step = "idle" /\ rop'.op = "none" /\ rop'.x = 0 /\ ~Waits' /\ (Serves' <=> rback'.up)
  BY ConstantFacts DEF Waits, Serves
<1>3. PipeInv' /\ AnswersTrue'
  BY <1>2, ConstantFacts DEF PipeInv, AnswersTrue
<1>4. StillInv'
  BY <1>2 DEF StillInv
<1>5. NumberInv'
  BY DEF NumberInv
<1>6. RecordInv'
  BY <1>2 DEF RecordInv
<1>7. TrustInv'
  BY <1>2 DEF TrustInv
<1> QED BY <1>1, <1>3, <1>4, <1>5, <1>6, <1>7

LEMMA BackType ==
  ASSUME RtInv
  PROVE  rback \in [up : BOOLEAN, ref : Records, unc : BOOLEAN,
                    obs : {"none", "forward", "reverse"}]
BY DEF RtInv, RtTypeOK

LEMMA RestoredKeeps ==
  ASSUME RtInv, RtRestored
  PROVE  RtInv'
<1>1. /\ rop.step = "restore" /\ rpipe.reps # <<>> /\ Head(rpipe.reps).rep.ok
      /\ rop' = Idle /\ rpipe' = Taken /\ rback' = [rback EXCEPT !.up = TRUE]
      /\ UNCHANGED <<rdev, rwk, rfile, rjobs, rtold, rcount>>
  BY DEF RtRestored, Heard, Done
<1>2. rpipe' \in Pipes /\ rpipe'.asks = <<>> /\ rpipe'.reps = <<>>
  BY <1>1, TakenFacts
<1>3. Serves /\ rwk.off = rback.ref.t.off
  BY <1>1 DEF RtInv, PipeInv, TrustInv, Serves
<1>4. /\ rback' \in [up : BOOLEAN, ref : Records, unc : BOOLEAN,
                     obs : {"none", "forward", "reverse"}]
      /\ rback'.ref = rback.ref /\ rback'.unc = rback.unc
  BY <1>1, BackType
<1> QED BY <1>1, <1>2, <1>3, <1>4, DoneKeeps

LEMMA EndsKeep ==
  ASSUME RtInv, RtEnds
  PROVE  RtInv'
<1>1. rop' = Idle /\ UNCHANGED <<rdev, rwk, rback, rfile, rjobs, rtold, rcount>>
  BY DEF RtEnds, Done
<1>2. rpipe' \in Pipes /\ rpipe'.asks = <<>> /\ rpipe'.reps = <<>>
  <2>1. CASE rop.step = "refused" /\ UNCHANGED rpipe
    BY <2>1 DEF RtInv, PipeInv, Waits, RtTypeOK
  <2>2. CASE rpipe.reps # <<>> /\ rpipe' = Taken
    BY <2>2, TakenFacts
  <2> QED BY <2>1, <2>2 DEF RtEnds
<1>3. rback.up => Serves
  BY DEF Serves
<1>4. rback.up /\ ~rback.unc /\ rback.ref.kind = "known" => rwk.off = rback.ref.t.off
  BY DEF RtInv, TrustInv
<1>5. /\ rback' \in [up : BOOLEAN, ref : Records, unc : BOOLEAN,
                     obs : {"none", "forward", "reverse"}]
      /\ rback'.ref = rback.ref /\ rback'.unc = rback.unc /\ rback'.up = rback.up
  BY <1>1, BackType
<1> QED BY <1>1, <1>2, <1>3, <1>4, <1>5, DoneKeeps

(* An operation goes on with its next request.                             *)
LEMMA AskOnKeeps ==
  ASSUME RtInv, rpipe.reps # <<>>, NEW c \in RtCommands, NEW x,
         [c |-> c, x |-> x] \in RtAsks, AskNext(c, x),
         NEW s \in {"reference", "restore", "status", "command", "settings2", "status2"},
         \/ rop' = [rop EXCEPT !.step = s]
         \/ \E r \in BOOLEAN : rop' = [rop EXCEPT !.step = s, !.rev = r],
         Awaited' = c, Waits', UNCHANGED <<rdev, rwk, rfile, rjobs, rtold, rcount>>,
         rback' \in [up : BOOLEAN, ref : Records, unc : BOOLEAN,
                     obs : {"none", "forward", "reverse"}],
         rback'.ref = rback.ref
  PROVE  /\ RtTypeOK' /\ AnswersTrue' /\ NumberInv'
         /\ rop'.op = rop.op /\ rop'.x = rop.x /\ rop'.exp = rop.exp /\ rop'.step = s
         /\ rpipe'.asks = <<[c |-> c, x |-> x]>> /\ rpipe'.reps = <<>>
         /\ Head(rpipe'.asks) = [c |-> c, x |-> x]
         /\ (\/ s \in {"reference", "restore"} /\ rop.op = "connect"
             \/ s = "status" /\ rop.op \notin {"none", "connect", "halt"}
             \/ s = "command" /\ rop.op \in {"halt", "move", "mech"}
             \/ s \in {"settings2", "status2"} /\ Changes)
            => PipeInv'
<1>1. /\ rpipe' \in Pipes /\ rpipe'.asks = <<[c |-> c, x |-> x]>> /\ rpipe'.reps = <<>>
      /\ Head(rpipe'.asks) = [c |-> c, x |-> x]
  BY AskNextFacts
<1>2. rop \in [op : RtOps, x : 0..Turn, step : RtSteps, exp : Places, rev : BOOLEAN]
  BY DEF RtInv, RtTypeOK
<1>3. /\ rop' \in [op : RtOps, x : 0..Turn, step : RtSteps, exp : Places, rev : BOOLEAN]
      /\ rop'.op = rop.op /\ rop'.x = rop.x /\ rop'.exp = rop.exp /\ rop'.step = s
  <2>1. s \in RtSteps
    BY DEF RtSteps
  <2>2. CASE rop' = [rop EXCEPT !.step = s]
    BY <1>2, <2>1, <2>2
  <2>3. CASE \E r \in BOOLEAN : rop' = [rop EXCEPT !.step = s, !.rev = r]
    BY <1>2, <2>1, <2>3
  <2> QED BY <2>2, <2>3
<1>4. RtTypeOK'
  BY <1>1, <1>3 DEF RtInv, RtTypeOK
<1>5. AnswersTrue' /\ NumberInv'
  BY <1>1 DEF RtInv, AnswersTrue, NumberInv
<1>6. ASSUME \/ s \in {"reference", "restore"} /\ rop.op = "connect"
             \/ s = "status" /\ rop.op \notin {"none", "connect", "halt"}
             \/ s = "command" /\ rop.op \in {"halt", "move", "mech"}
             \/ s \in {"settings2", "status2"} /\ Changes
      PROVE  PipeInv'
  <2>1. rop'.step # "idle" /\ rop' # Idle
    BY <1>3, ConstantFacts
  <2>2. rop'.op # "reverse" => rop'.x \in Places
    BY <1>3 DEF RtInv, PipeInv
  <2> QED BY <1>1, <1>3, <1>6, <2>1, <2>2 DEF PipeInv, Changes
<1> QED BY <1>1, <1>3, <1>4, <1>5, <1>6

(* connect: the saved record, a worker, its identity.                      *)
LEMMA RtConnectKeeps ==
  ASSUME RtInv, RtConnect
  PROVE  RtInv'
<1> USE DEF RtInv
<1> DEFINE b == (rfile.kind = "uncertain")
           a == [c |-> "identity", x |-> 0]
<1>1. /\ rop = Idle /\ rback' = [Down EXCEPT !.ref = rfile, !.unc = b]
      /\ rwk' = [NoWorker EXCEPT !.alive = TRUE, !.rev = rdev.rev]
      /\ rpipe' = [open |-> TRUE, asks |-> <<a>>, reps |-> <<>>]
      /\ rop' = [Idle EXCEPT !.op = "connect", !.step = "identity"]
      /\ UNCHANGED <<rdev, rfile, rjobs, rtold, rcount>>
  BY DEF RtConnect
<1>2. b \in BOOLEAN /\ (b <=> rfile.kind = "uncertain")
  OBVIOUS
<1> HIDE DEF b
<1>3. /\ rback' \in [up : BOOLEAN, ref : Records, unc : BOOLEAN,
                     obs : {"none", "forward", "reverse"}]
      /\ rback'.ref = rfile /\ rback'.unc = b /\ ~rback'.up
  BY <1>1, <1>2, ConstantFacts DEF RtTypeOK
<1>4. rwk' \in RtWorkers /\ rwk'.pend = <<>>
  BY <1>1, ConstantFacts DEF RtTypeOK, RtWorkers, Rotators
<1>5. /\ rpipe' \in Pipes /\ a \in RtAsks /\ a.c = "identity"
      /\ rpipe'.asks = <<a>> /\ rpipe'.reps = <<>>
  <2>1. a \in RtAsks /\ a.c = "identity"
    BY PlainAsks DEF RtCommands
  <2> HIDE DEF a
  <2> QED BY <1>1, <2>1 DEF Pipes
<1> HIDE DEF a
<1>6. /\ rop' \in [op : RtOps, x : 0..Turn, step : RtSteps, exp : Places, rev : BOOLEAN]
      /\ rop'.op = "connect" /\ rop'.step = "identity" /\ rop'.x = 0
  BY <1>1, ConstantFacts DEF RtOps, RtSteps
<1>7. RtTypeOK'
  BY <1>1, <1>3, <1>4, <1>5, <1>6 DEF RtTypeOK
<1>8. Waits' /\ Awaited' = "identity" /\ Serves'
  BY <1>6 DEF Waits, Awaited, Serves
<1>9. PipeInv'
  BY <1>5, <1>6, <1>8, ConstantFacts DEF PipeInv
<1>10. AnswersTrue' /\ StillInv'
  BY <1>5, <1>6 DEF AnswersTrue, StillInv
<1>11. NumberInv'
  BY <1>1, <1>3 DEF NumberInv
<1>12. RecordInv'
  BY <1>1, <1>6 DEF RecordInv
<1>13. TrustInv'
  <2>1. rfile.kind \in {"none", "known", "uncertain"}
    BY DEF RtTypeOK, Records
  <2> QED BY <1>1, <1>2, <1>3, <1>4, <1>6, <2>1 DEF TrustInv, RecordInv
<1> QED BY <1>7, <1>9, <1>10, <1>11, <1>12, <1>13

LEMMA IdentityKeeps ==
  ASSUME RtInv, RtIdentity
  PROVE  RtInv'
<1> USE DEF RtInv
<1>1. /\ rop.step = "identity" /\ rpipe.reps # <<>> /\ rop.op = "connect"
      /\ UNCHANGED <<rdev, rwk, rfile, rjobs, rtold, rcount>>
  BY DEF RtIdentity, Heard, PipeInv
<1>2. CASE rback.ref.kind = "known"
  <2>1. /\ rop' = [rop EXCEPT !.step = "reference"] /\ AskNext("settings", 0)
        /\ rback' = rback
    BY <1>2 DEF RtIdentity
  <2>2. rop'.step = "reference"
    BY <2>1 DEF RtTypeOK
  <2>3. Waits' /\ Awaited' = "settings"
    BY <2>2 DEF Waits, Awaited
  <2>4. "settings" \in RtCommands /\ [c |-> "settings", x |-> 0] \in RtAsks
    BY PlainAsks DEF RtCommands
  <2>5. /\ RtTypeOK' /\ AnswersTrue' /\ NumberInv' /\ PipeInv' /\ rop'.op = rop.op
    BY <1>1, <2>1, <2>3, <2>4, BackType, AskOnKeeps
  <2>6. StillInv' /\ RecordInv'
    BY <1>1, <2>2 DEF StillInv, RecordInv
  <2>7. Serves' = Serves
    BY <2>1, <2>5 DEF Serves
  <2>8. TrustInv'
    BY <1>1, <1>2, <2>1, <2>2, <2>5, <2>7 DEF TrustInv
  <2> QED BY <2>5, <2>6, <2>8
<1>3. CASE rback.ref.kind # "known"
  <2>1. rop' = Idle /\ rpipe' = Taken /\ rback' = [rback EXCEPT !.up = TRUE]
    BY <1>3 DEF RtIdentity, Done
  <2>2. rpipe' \in Pipes /\ rpipe'.asks = <<>> /\ rpipe'.reps = <<>>
    BY <1>1, <2>1, TakenFacts
  <2>3. /\ rback' \in [up : BOOLEAN, ref : Records, unc : BOOLEAN,
                       obs : {"none", "forward", "reverse"}]
        /\ rback'.ref = rback.ref /\ rback'.unc = rback.unc
    BY <2>1, BackType
  <2>4. Serves
    BY <1>1 DEF Serves
  <2> QED BY <1>1, <1>3, <2>1, <2>2, <2>3, <2>4, DoneKeeps
<1> QED BY <1>2, <1>3

LEMMA ReferenceKeeps ==
  ASSUME RtInv, RtReference
  PROVE  RtInv'
<1> USE DEF RtInv
<1>1. /\ rop.step = "reference" /\ rpipe.reps # <<>> /\ rop.op = "connect"
      /\ UNCHANGED <<rdev, rwk, rfile, rjobs, rtold, rcount>>
  BY DEF RtReference, Heard, PipeInv
<1>2. CASE Restorable(Answer.rev)
  <2> DEFINE off == rback.ref.t.off
  <2>1. /\ rop' = [rop EXCEPT !.step = "restore"] /\ AskNext("restore", off)
        /\ rback' = rback
    BY <1>2 DEF RtReference
  <2>2. rop'.step = "restore"
    BY <2>1 DEF RtTypeOK
  <2>3. Waits' /\ Awaited' = "restore"
    BY <2>2 DEF Waits, Awaited
  <2>4. off \in Places
    BY DEF RtTypeOK, Records, Transforms
  <2>5. "restore" \in RtCommands /\ [c |-> "restore", x |-> off] \in RtAsks
    BY <2>4, PlainAsks DEF RtCommands
  <2> HIDE DEF off
  <2>6. /\ RtTypeOK' /\ AnswersTrue' /\ NumberInv' /\ PipeInv' /\ rop'.op = rop.op
        /\ Head(rpipe'.asks) = [c |-> "restore", x |-> off] /\ rpipe'.reps = <<>>
    BY <1>1, <2>1, <2>3, <2>5, BackType, AskOnKeeps
  <2>7. StillInv' /\ RecordInv'
    BY <1>1, <2>2 DEF StillInv, RecordInv
  <2>8. Serves' = Serves
    BY <2>1, <2>6 DEF Serves
  <2>9. rback.ref.kind = "known"
    BY <1>1 DEF TrustInv
  <2>10. TrustInv'
    BY <1>1, <2>1, <2>2, <2>6, <2>8, <2>9 DEF TrustInv, off
  <2> QED BY <2>6, <2>7, <2>10
<1>3. CASE ~Restorable(Answer.rev)
  <2>1. rop' = Idle /\ rpipe' = Taken /\ rback' = [rback EXCEPT !.up = TRUE, !.unc = TRUE]
    BY <1>3 DEF RtReference, Done
  <2>2. rpipe' \in Pipes /\ rpipe'.asks = <<>> /\ rpipe'.reps = <<>>
    BY <1>1, <2>1, TakenFacts
  <2>3. /\ rback' \in [up : BOOLEAN, ref : Records, unc : BOOLEAN,
                       obs : {"none", "forward", "reverse"}]
        /\ rback'.ref = rback.ref /\ rback'.unc
    BY <2>1, BackType
  <2>4. Serves
    BY <1>1 DEF Serves
  <2> QED BY <1>1, <2>1, <2>2, <2>3, <2>4, DoneKeeps
<1> QED BY <1>2, <1>3

(* A poll or a command begins.                                             *)
LEMMA BeginKeeps ==
  ASSUME RtInv, NEW op \in {"sample", "halt", "sync", "move", "mech", "reverse"}, NEW x \in 0..Turn,
         op # "reverse" => x \in Places, RtBegin(op, x)
  PROVE  RtInv'
<1> USE DEF RtInv
<1> DEFINE s == IF op = "halt" THEN "command" ELSE "settings"
           c == IF op = "halt" THEN "stop" ELSE "settings"
           a == [c |-> c, x |-> 0]
<1>1. /\ rop = Idle /\ rback.up /\ rop' = [Idle EXCEPT !.op = op, !.x = x, !.step = s]
      /\ rpipe' = [rpipe EXCEPT !.asks = Append(@, a)]
      /\ UNCHANGED <<rdev, rwk, rback, rfile, rjobs, rtold>>
  BY DEF RtBegin, Asked
<1>2. rcount' \in [syncs : Nat, moves : Nat, no : Nat] /\ rcount'.no = rcount.no
  BY DEF RtBegin, RtTypeOK
<1>3. a \in RtAsks /\ a.c = c
  BY PlainAsks DEF RtCommands
<1>4. s \in {"command", "settings"} /\ (s = "command" <=> op = "halt")
  OBVIOUS
<1>5. c = IF op = "halt" THEN "stop" ELSE "settings"
  OBVIOUS
<1> HIDE DEF s, c, a
<1>6. ~Waits /\ rpipe.asks = <<>> /\ rpipe.reps = <<>> /\ rop.step = "idle" /\ rop.op = "none"
  BY <1>1, IdleFacts
<1>7. rpipe' \in Pipes /\ rpipe'.asks = <<a>> /\ rpipe'.reps = <<>>
  BY <1>1, <1>3, <1>6, AskMade DEF RtTypeOK
<1>8. /\ rop' \in [op : RtOps, x : 0..Turn, step : RtSteps, exp : Places, rev : BOOLEAN]
      /\ rop'.op = op /\ rop'.step = s /\ rop'.x = x
  BY <1>1, <1>4, ConstantFacts DEF RtOps, RtSteps
<1>9. RtTypeOK'
  BY <1>1, <1>2, <1>7, <1>8 DEF RtTypeOK
<1>10. Waits' /\ Awaited' = c /\ Serves' = TRUE
  BY <1>1, <1>4, <1>5, <1>8 DEF Waits, Awaited, Serves
<1>11. PipeInv'
  BY <1>3, <1>4, <1>7, <1>8, <1>10, ConstantFacts DEF PipeInv
<1>12. AnswersTrue' /\ StillInv' /\ NumberInv'
  BY <1>1, <1>2, <1>4, <1>7, <1>8 DEF AnswersTrue, StillInv, NumberInv
<1>13. RecordInv'
  BY <1>1, <1>4, <1>8 DEF RecordInv
<1>14. TrustInv'
  BY <1>1, <1>4, <1>8, <1>10 DEF TrustInv, Serves
<1> QED BY <1>9, <1>11, <1>12, <1>13, <1>14

(* samples: the direction is compared with the one seen and the one saved. *)
LEMMA SettingsKeeps ==
  ASSUME RtInv, RtSettings
  PROVE  RtInv'
<1> USE DEF RtInv
<1> DEFINE seen == IF Answer.rev THEN "reverse" ELSE "forward"
           obs == IF rback.obs = "none" THEN seen ELSE rback.obs
           doubt == \/ rback.unc \/ rback.obs \notin {"none", seen}
                    \/ rback.ref.kind = "known" /\ rback.ref.t.rev # Answer.rev
<1>1. /\ rop.step = "settings" /\ rpipe.reps # <<>> /\ Head(rpipe.reps).rep.ok
      /\ rback' = [rback EXCEPT !.obs = obs, !.unc = doubt]
      /\ rop' = [rop EXCEPT !.step = "status"] /\ AskNext("status", 0)
      /\ UNCHANGED <<rdev, rwk, rfile, rjobs, rtold, rcount>>
  BY DEF RtSettings, Heard
<1>2. /\ doubt \in BOOLEAN /\ (rback.unc => doubt)
      /\ ~doubt /\ rback.ref.kind = "known" => rback.ref.t.rev = Answer.rev
  OBVIOUS
<1>3. obs \in {"none", "forward", "reverse"}
  BY DEF RtTypeOK
<1> HIDE DEF doubt, obs
<1>4. /\ rback' \in [up : BOOLEAN, ref : Records, unc : BOOLEAN,
                     obs : {"none", "forward", "reverse"}]
      /\ rback'.ref = rback.ref /\ rback'.unc = doubt /\ rback'.up = rback.up
  BY <1>1, <1>2, <1>3, BackType
<1>5. Answer.rev = rdev.rev /\ rwk.rev = rdev.rev /\ rwk.pend = <<>>
  <2>1. AnswerTrue(Head(rpipe.reps)) /\ Head(rpipe.reps).ask.c = Awaited
    BY <1>1, ReplyFacts
  <2> QED BY <1>1, <2>1, AwaitedIs DEF AnswerTrue, Answer
<1>6. rop.op \notin {"none", "connect", "halt"}
  BY <1>1 DEF PipeInv
<1>7. rop'.step = "status"
  BY <1>1 DEF RtTypeOK
<1>8. Waits' /\ Awaited' = "status"
  BY <1>7 DEF Waits, Awaited
<1>9. "status" \in RtCommands /\ [c |-> "status", x |-> 0] \in RtAsks
  BY PlainAsks DEF RtCommands
<1>10. /\ RtTypeOK' /\ AnswersTrue' /\ NumberInv' /\ PipeInv'
       /\ rop'.op = rop.op /\ rpipe'.reps = <<>>
  BY <1>1, <1>4, <1>6, <1>8, <1>9, AskOnKeeps
<1>11. StillInv' /\ RecordInv'
  BY <1>1, <1>5, <1>7 DEF StillInv, RecordInv
<1>12. TrustInv'
  <2>1. Serves' = Serves
    BY <1>4, <1>10 DEF Serves
  <2>2. doubt <=> rback'.unc
    BY <1>4
  <2> QED BY <1>1, <1>2, <1>4, <1>5, <1>7, <1>10, <2>1, <2>2 DEF TrustInv
<1> QED BY <1>10, <1>11, <1>12

LEMMA ChangedKeeps ==
  ASSUME RtInv, RtChanged
  PROVE  RtInv'
<1> USE DEF RtInv
<1>1. /\ rop.step = "change" /\ rpipe.reps # <<>> /\ rback' = rback
      /\ rop' = [rop EXCEPT !.step = "settings2"] /\ AskNext("settings", 0)
      /\ UNCHANGED <<rdev, rwk, rfile, rjobs, rtold, rcount>>
  BY DEF RtChanged, Heard
<1>2. rop'.step = "settings2"
  BY <1>1 DEF RtTypeOK
<1>3. Waits' /\ Awaited' = "settings" /\ Changes
  BY <1>1, <1>2 DEF Waits, Awaited, PipeInv
<1>4. "settings" \in RtCommands /\ [c |-> "settings", x |-> 0] \in RtAsks
  BY PlainAsks DEF RtCommands
<1>5. /\ RtTypeOK' /\ AnswersTrue' /\ NumberInv' /\ PipeInv'
      /\ rop'.op = rop.op /\ rop'.x = rop.x /\ rop'.exp = rop.exp /\ rpipe'.reps = <<>>
  BY <1>1, <1>3, <1>4, BackType, AskOnKeeps
<1>6. StillInv'
  BY <1>1, <1>2 DEF StillInv
<1>7. Goal' = Goal
  BY <1>1, <1>5 DEF Goal
<1>8. RecordInv'
  BY <1>1, <1>2, <1>5, <1>7 DEF RecordInv
<1>9. TrustInv'
  <2>1. Serves' = Serves
    BY <1>1, <1>5 DEF Serves
  <2> QED BY <1>1, <1>2, <1>3, <1>5, <2>1 DEF TrustInv, Changes
<1> QED BY <1>5, <1>6, <1>8, <1>9

LEMMA Settings2Keeps ==
  ASSUME RtInv, RtSettings2
  PROVE  RtInv'
<1> USE DEF RtInv
<1>1. /\ rop.step = "settings2" /\ rpipe.reps # <<>> /\ Head(rpipe.reps).rep.ok /\ rback' = rback
      /\ rop' = [rop EXCEPT !.step = "status2", !.rev = Answer.rev] /\ AskNext("status", 0)
      /\ UNCHANGED <<rdev, rwk, rfile, rjobs, rtold, rcount>>
  BY DEF RtSettings2, Heard
<1>2. Answer.rev = rdev.rev /\ rwk.rev = rdev.rev /\ rwk.pend = <<>> /\ Answer.rev \in BOOLEAN
  <2>1. AnswerTrue(Head(rpipe.reps)) /\ Head(rpipe.reps).ask.c = Awaited
    BY <1>1, ReplyFacts
  <2> QED BY <1>1, <2>1, AwaitedIs DEF AnswerTrue, Answer, RtTypeOK, Rotators
<1> DEFINE v == Answer.rev
<1> HIDE DEF v
<1>3. rop' = [rop EXCEPT !.step = "status2", !.rev = v] /\ v \in BOOLEAN /\ v = rdev.rev
  BY <1>1, <1>2 DEF v
<1>4. rop'.step = "status2" /\ rop'.rev = v
  BY <1>3 DEF RtTypeOK
<1>5. Waits' /\ Awaited' = "status" /\ Changes
  BY <1>1, <1>4 DEF Waits, Awaited, PipeInv
<1>6. "status" \in RtCommands /\ [c |-> "status", x |-> 0] \in RtAsks
  BY PlainAsks DEF RtCommands
<1>7. /\ RtTypeOK' /\ AnswersTrue' /\ NumberInv' /\ PipeInv'
      /\ rop'.op = rop.op /\ rop'.x = rop.x /\ rop'.exp = rop.exp /\ rpipe'.reps = <<>>
  BY <1>1, <1>3, <1>5, <1>6, BackType, AskOnKeeps
<1>8. StillInv'
  BY <1>1, <1>2, <1>3, <1>4 DEF StillInv
<1>9. Goal' = Goal
  BY <1>1, <1>7 DEF Goal
<1>10. RecordInv'
  BY <1>1, <1>4, <1>7, <1>9 DEF RecordInv
<1>11. TrustInv'
  <2>1. Serves' = Serves
    BY <1>1, <1>7 DEF Serves
  <2> QED BY <1>1, <1>4, <1>5, <1>7, <2>1 DEF TrustInv, Changes
<1> QED BY <1>7, <1>8, <1>10, <1>11

(* A record gets the next number, and a save of it is started.             *)
LEMMA SavingKeeps ==
  ASSUME RtInv, NEW kind \in {"known", "uncertain"}, NEW t \in Transforms,
         Saving(NewRecord(kind, t)), UNCHANGED <<rback, rfile>>
  PROVE  /\ rjobs' \subseteq Nat \X Records /\ rcount' \in [syncs : Nat, moves : Nat, no : Nat]
         /\ NumberInv'
         /\ \A j \in rjobs' : \/ j \in rjobs /\ j[2].no # rcount'.no
                              \/ j[2].no = rcount'.no /\ j[2].kind = kind /\ j[2].t = t
<1> USE DEF RtInv
<1> DEFINE n == rcount.no + 1
           rec == [no |-> n, kind |-> kind, t |-> t]
           job == <<rback.ref.no, rec>>
<1>1. rjobs' = rjobs \cup {job} /\ rcount' = [rcount EXCEPT !.no = n]
  BY DEF Saving, NewRecord
<1>2. /\ rcount.no \in Nat /\ n \in Nat /\ n = rcount.no + 1
      /\ rcount' \in [syncs : Nat, moves : Nat, no : Nat] /\ rcount'.no = n
  BY <1>1 DEF RtTypeOK
<1> HIDE DEF n
<1>3. rec \in Records /\ rec.no = n /\ rec.kind = kind /\ rec.t = t
  BY <1>2 DEF Records
<1> HIDE DEF rec
<1>4. /\ job \in Nat \X Records /\ job[1] = rback.ref.no /\ job[2] = rec
  BY <1>3 DEF RtTypeOK, Records
<1> HIDE DEF job
<1>5. \A j \in rjobs : j[1] \in Nat /\ j[2].no \in Nat /\ j[1] < j[2].no /\ j[2].no <= rcount.no
  BY DEF RtTypeOK, Records, NumberInv
<1>6. /\ rfile.no \in Nat /\ rback.ref.no \in Nat
      /\ rfile.no <= rcount.no /\ rback.ref.no <= rcount.no
  BY DEF RtTypeOK, Records, NumberInv
<1>7. \A j \in rjobs' : \/ j \in rjobs /\ j[2].no # rcount'.no
                        \/ j = job
  BY <1>1, <1>2, <1>5
<1>8. rjobs' \subseteq Nat \X Records
  BY <1>1, <1>4 DEF RtTypeOK
<1>9. rfile'.no <= rcount'.no /\ rback'.ref.no <= rcount'.no
  BY <1>2, <1>6
<1>10. \A j \in rjobs' : /\ j[1] < j[2].no /\ j[2].no <= rcount'.no
                         /\ j[2].no # rfile'.no /\ j[2].no # rback'.ref.no
  <2>1. ASSUME NEW j \in rjobs
        PROVE  /\ j[1] < j[2].no /\ j[2].no <= rcount'.no
               /\ j[2].no # rfile'.no /\ j[2].no # rback'.ref.no
    BY <1>2, <1>5 DEF NumberInv
  <2>2. /\ job[1] < job[2].no /\ job[2].no <= rcount'.no
        /\ job[2].no # rfile'.no /\ job[2].no # rback'.ref.no
    BY <1>2, <1>3, <1>4, <1>6
  <2> QED BY <1>7, <2>1, <2>2
<1>11. \A j, k \in rjobs' : (j[2].no = k[2].no => j = k) /\ j[2].no # k[1]
  <2>1. ASSUME NEW j \in rjobs, NEW k \in rjobs
        PROVE  (j[2].no = k[2].no => j = k) /\ j[2].no # k[1]
    BY DEF NumberInv
  <2>2. ASSUME NEW j \in rjobs
        PROVE  j[2].no # job[2].no /\ j[2].no # job[1] /\ job[2].no # j[1]
    BY <1>2, <1>3, <1>4, <1>5 DEF NumberInv
  <2>3. job[2].no # job[1]
    BY <1>2, <1>3, <1>4, <1>6
  <2> QED BY <1>7, <2>1, <2>2, <2>3
<1>12. NumberInv'
  BY <1>9, <1>10, <1>11 DEF NumberInv
<1> QED BY <1>2, <1>3, <1>4, <1>7, <1>8, <1>12

(* A command is sent.                                                      *)
LEMMA CommandGoes ==
  ASSUME RtInv, rop.step = "status", rpipe.reps # <<>>, NEW c \in RtCommands, NEW x,
         c = rop.op, x = rop.x, c \in {"move", "mech"}, [c |-> c, x |-> x] \in RtAsks,
         AskNext(c, x), rop' = [rop EXCEPT !.step = "command"], Awaited' = c, Waits',
         UNCHANGED <<rdev, rwk, rback, rfile, rjobs, rtold, rcount>>,
         c = "move" => ~rback.unc
  PROVE  RtInv'
<1> USE DEF RtInv
<1>1. /\ rback'.ref = rback.ref
      /\ rback' \in [up : BOOLEAN, ref : Records, unc : BOOLEAN,
                      obs : {"none", "forward", "reverse"}]
  BY BackType
<1>2. /\ RtTypeOK' /\ AnswersTrue' /\ NumberInv' /\ PipeInv' /\ rop'.x = rop.x
      /\ rop'.op = rop.op /\ rop'.step = "command"
      /\ Head(rpipe'.asks) = [c |-> c, x |-> x] /\ rpipe'.reps = <<>>
  BY <1>1, AskOnKeeps
<1>3. StillInv' /\ RecordInv'
  BY <1>2 DEF StillInv, RecordInv
<1>4. Serves' = Serves
  BY <1>2 DEF Serves
<1>5. TrustInv'
  BY <1>2, <1>3, <1>4 DEF TrustInv
<1> QED BY <1>2, <1>3, <1>5

LEMMA StatusKeeps ==
  ASSUME RtInv, RtStatus
  PROVE  RtInv'
<1> USE DEF RtInv
<1>1. /\ rop.step = "status" /\ rpipe.reps # <<>> /\ Head(rpipe.reps).rep.ok /\ rback' = rback
      /\ UNCHANGED <<rdev, rwk, rfile, rtold>>
  BY DEF RtStatus, Heard
<1>2. /\ rop.op \notin {"none", "connect", "halt"} /\ rop.op \in RtOps
  BY <1>1 DEF PipeInv, RtTypeOK
<1>3. /\ Answer.logical \in Places
      /\ ~Answer.moving => rdev.to = Still
  <2>1. /\ AnswerTrue(Head(rpipe.reps)) /\ Head(rpipe.reps).ask.c = Awaited
        /\ Head(rpipe.reps) \in RtAnswers
    BY <1>1, ReplyFacts
  <2>2. Answer.logical \in Places
    BY <2>1 DEF RtAnswers, Answer
  <2> QED BY <1>1, <2>1, <2>2, AwaitedIs DEF AnswerTrue, Answer
<1>4. CASE EndsHere /\ Done /\ rpipe' = Taken /\ UNCHANGED <<rjobs, rcount>>
  <2>1. rpipe' \in Pipes /\ rpipe'.asks = <<>> /\ rpipe'.reps = <<>>
    BY <1>1, <1>4, TakenFacts
  <2>2. rback.up => Serves
    BY DEF Serves
  <2>3. rback.up /\ ~rback.unc /\ rback.ref.kind = "known" => rwk.off = rback.ref.t.off
    BY DEF TrustInv
  <2> QED BY <1>1, <1>4, <2>1, <2>2, <2>3, BackType, DoneKeeps DEF Done
<1>5. CASE /\ ~EndsHere /\ rop.op \in {"move", "mech"}
           /\ rop' = [rop EXCEPT !.step = "command"] /\ AskNext(rop.op, rop.x)
           /\ UNCHANGED <<rjobs, rcount>>
  <2>1. rop'.step = "command" /\ rop'.op = rop.op
    BY <1>5 DEF RtTypeOK
  <2>2. Waits' /\ Awaited' = rop.op
    BY <1>5, <2>1 DEF Waits, Awaited
  <2>3. rop.op \in RtCommands /\ [c |-> rop.op, x |-> rop.x] \in RtAsks
    BY <1>5, PlainAsks DEF RtCommands, PipeInv
  <2>4. rop.op = "move" => ~rback.unc
    BY <1>5 DEF EndsHere, Trusted
  <2> QED BY <1>1, <1>5, <2>2, <2>3, <2>4, CommandGoes
<1>6. CASE /\ ~EndsHere /\ rop.op \in {"sync", "reverse"}
           /\ rpipe' = Taken /\ Saving(NewRecord("uncertain", NoRecord.t))
           /\ rop' = [rop EXCEPT !.step = "marker",
                        !.exp = IF rop.op = "sync" THEN rop.x ELSE Answer.logical]
  <2> DEFINE e == IF rop.op = "sync" THEN rop.x ELSE Answer.logical
  <2>1. e \in Places /\ (rop.op = "sync" => e = rop.x)
    BY <1>3 DEF PipeInv
  <2>2. rop' = [rop EXCEPT !.step = "marker", !.exp = e]
    BY <1>6
  <2> HIDE DEF e
  <2>3. rop \in [op : RtOps, x : 0..Turn, step : RtSteps, exp : Places, rev : BOOLEAN]
    BY DEF RtTypeOK
  <2>4. /\ rop' \in [op : RtOps, x : 0..Turn, step : RtSteps, exp : Places, rev : BOOLEAN]
        /\ rop'.op = rop.op /\ rop'.x = rop.x /\ rop'.step = "marker" /\ rop'.exp = e
    BY <2>1, <2>2, <2>3 DEF RtSteps
  <2>5. rdev.to = Still
    BY <1>3, <1>6 DEF EndsHere
  <2>6. NoRecord.t \in Transforms
    BY ConstantFacts DEF Records
  <2>7. /\ rjobs' \subseteq Nat \X Records /\ rcount' \in [syncs : Nat, moves : Nat, no : Nat]
        /\ NumberInv'
        /\ \A j \in rjobs' : \/ j \in rjobs /\ j[2].no # rcount'.no
                             \/ /\ j[2].no = rcount'.no /\ j[2].kind = "uncertain"
                                /\ j[2].t = NoRecord.t
    BY <1>1, <1>6, <2>6, SavingKeeps
  <2>8. rpipe' \in Pipes /\ rpipe'.asks = <<>> /\ rpipe'.reps = <<>>
    BY <1>1, <1>6, TakenFacts
  <2>9. RtTypeOK'
    BY <1>1, <2>4, <2>7, <2>8 DEF RtTypeOK
  <2>10. ~Waits' /\ rop' # Idle /\ Changes'
    BY <1>6, <2>4, ConstantFacts DEF Waits, Changes
  <2>11. PipeInv' /\ AnswersTrue'
    BY <1>6, <2>4, <2>8, <2>10 DEF PipeInv, AnswersTrue
  <2>12. StillInv'
    BY <1>1, <2>4, <2>5 DEF StillInv
  <2>13. RecordInv'
    BY <1>1, <2>1, <2>4, <2>7 DEF RecordInv
  <2>14. Serves' = Serves
    BY <1>1, <2>4 DEF Serves
  <2>15. TrustInv'
    BY <1>1, <1>6, <2>4, <2>7, <2>14 DEF TrustInv
  <2> QED BY <2>7, <2>9, <2>11, <2>12, <2>13, <2>15
<1> QED BY <1>4, <1>5, <1>6 DEF RtStatus

(* The doubt is on disk: the change is asked for, and clients are to go by *)
(* what it is going to give.                                               *)
LEMMA MarkedKeeps ==
  ASSUME RtInv, RtMarked
  PROVE  RtInv'
<1> USE DEF RtInv
<1> DEFINE c == rop.op  x == rop.x  a == [c |-> c, x |-> x]
<1>1. /\ rop.step = "marked" /\ rback' = [rback EXCEPT !.ref = rfile, !.unc = TRUE]
      /\ rop' = [rop EXCEPT !.step = "change"] /\ rpipe' = [rpipe EXCEPT !.asks = Append(@, a)]
      /\ rtold' = {Intended} /\ UNCHANGED <<rdev, rwk, rfile, rjobs, rcount>>
  BY DEF RtMarked, Asked
<1>2. rop.op \in {"sync", "reverse"} /\ ~Waits /\ rpipe.asks = <<>> /\ rpipe.reps = <<>>
  BY <1>1 DEF PipeInv, Waits, Changes
<1>3. a \in RtAsks /\ a.c = c
  <2>1. x \in 0..Turn /\ (c = "sync" => x \in Places)
    BY <1>2 DEF RtTypeOK, PipeInv
  <2> QED BY <1>2, <2>1, PlainAsks DEF RtCommands
<1>4. c = rop.op
  OBVIOUS
<1> HIDE DEF a, c, x
<1>5. rpipe' \in Pipes /\ rpipe'.asks = <<a>> /\ rpipe'.reps = <<>>
  BY <1>1, <1>2, <1>3, AskMade DEF RtTypeOK
<1>6. /\ rop' \in [op : RtOps, x : 0..Turn, step : RtSteps, exp : Places, rev : BOOLEAN]
      /\ rop'.op = rop.op /\ rop'.step = "change" /\ rop'.x = rop.x /\ rop'.exp = rop.exp
  BY <1>1 DEF RtTypeOK, RtSteps
<1>7. /\ rback' \in [up : BOOLEAN, ref : Records, unc : BOOLEAN,
                     obs : {"none", "forward", "reverse"}]
      /\ rback'.ref = rfile /\ rback'.unc
  BY <1>1, BackType DEF RtTypeOK
<1>8. RtTypeOK'
  BY <1>1, <1>5, <1>6, <1>7 DEF RtTypeOK
<1>9. Waits' /\ Awaited' = c
  BY <1>2, <1>4, <1>6 DEF Waits, Awaited
<1>10. PipeInv'
  BY <1>2, <1>3, <1>5, <1>6, <1>9, ConstantFacts DEF PipeInv, Changes
<1>11. AnswersTrue' /\ StillInv'
  BY <1>1, <1>5, <1>6 DEF AnswersTrue, StillInv
<1>12. NumberInv'
  BY <1>1, <1>7 DEF NumberInv
<1>13. Intended = Goal'
  <2>1. rwk.rev = rdev.rev /\ (rop.op = "sync" => rop.exp = rop.x)
    BY <1>1 DEF StillInv, RecordInv
  <2> QED BY <1>1, <1>2, <1>6, <2>1 DEF Intended, Goal
<1>14. rfile.no = rcount.no /\ rfile.kind = "uncertain"
  BY <1>1 DEF RecordInv
<1>15. \A j \in rjobs : j[1] # rfile.no
  <2>1. \A j \in rjobs : j[1] \in Nat /\ j[2].no \in Nat /\ rcount.no \in Nat
    BY DEF RtTypeOK, Records
  <2> QED BY <1>14, <2>1 DEF NumberInv
<1>16. RecordInv'
  BY <1>1, <1>6, <1>13, <1>14, <1>15 DEF RecordInv
<1>17. Serves' = (rback'.up \/ rop.op = "connect") /\ rback'.up = rback.up
  BY <1>1, <1>6 DEF Serves, RtTypeOK
<1>18. TrustInv'
  BY <1>1, <1>2, <1>6, <1>7, <1>14, <1>17 DEF TrustInv
<1> QED BY <1>8, <1>10, <1>11, <1>12, <1>16, <1>18

(* The change is confirmed: it is saved, for what it gave is what clients  *)
(* were told to go by.                                                     *)
LEMMA Status2Keeps ==
  ASSUME RtInv, RtStatus2
  PROVE  RtInv'
<1> USE DEF RtInv
<1> DEFINE t == [off |-> Answer.off, rev |-> rop.rev]
<1>1. /\ rop.step = "status2" /\ rpipe.reps # <<>> /\ Answer.ok /\ Confirmed
      /\ Saving(NewRecord("known", t)) /\ rop' = [rop EXCEPT !.step = "save"] /\ rpipe' = Taken
      /\ UNCHANGED <<rdev, rwk, rback, rfile, rtold>>
  BY DEF RtStatus2, Heard, Answer
<1>2. /\ rop.op \in {"sync", "reverse"} /\ rwk.rev = rdev.rev /\ rwk.pend = <<>>
      /\ rop.rev = rdev.rev /\ rdev.to = Still /\ rback.unc
      /\ rfile.no = rcount.no /\ rfile.kind = "uncertain" /\ rtold = {Goal}
  BY <1>1 DEF PipeInv, Changes, StillInv, RecordInv, TrustInv
<1>3. Answer.off = rwk.off /\ rop.exp = LogicalAt(rwk.off, rwk.rev, rdev.mech)
  <2>1. AnswerTrue(Head(rpipe.reps)) /\ Head(rpipe.reps).ask.c = "status"
    BY <1>1, ReplyFacts, AwaitedIs
  <2> QED BY <1>1, <2>1 DEF AnswerTrue, Answer, Confirmed
<1>4. rwk.off \in Places /\ rdev.mech \in Places /\ rdev.rev \in BOOLEAN /\ Places \subseteq 0..Turn
  BY ConstantFacts DEF RtTypeOK, RtWorkers, Rotators
<1>5. OffsetFor(rop.exp, rdev.rev, rdev.mech) = rwk.off
  <2>1. OffsetFor(LogicalAt(rwk.off, rdev.rev, rdev.mech), rdev.rev, rdev.mech) = rwk.off
    BY <1>4, Circle
  <2> QED BY <1>2, <1>3, <2>1
<1>6. rop.op = "reverse" => rdev.rev = (rop.x = 1)
  BY <1>1, <1>2 DEF Confirmed
<1>7. t = Goal /\ t \in Transforms /\ Goal.off = rwk.off /\ Goal.rev = rop.rev
  BY <1>2, <1>3, <1>4, <1>5, <1>6 DEF Goal, Transforms
<1> HIDE DEF t
<1>8. /\ rjobs' \subseteq Nat \X Records /\ rcount' \in [syncs : Nat, moves : Nat, no : Nat]
      /\ NumberInv'
      /\ \A j \in rjobs' : \/ j \in rjobs /\ j[2].no # rcount'.no
                           \/ j[2].no = rcount'.no /\ j[2].kind = "known" /\ j[2].t = t
  BY <1>1, <1>7, SavingKeeps
<1>9. /\ rop' \in [op : RtOps, x : 0..Turn, step : RtSteps, exp : Places, rev : BOOLEAN]
      /\ rop'.op = rop.op /\ rop'.step = "save" /\ rop'.x = rop.x /\ rop'.exp = rop.exp
      /\ rop'.rev = rop.rev
  BY <1>1 DEF RtTypeOK, RtSteps
<1>10. rpipe' \in Pipes /\ rpipe'.asks = <<>> /\ rpipe'.reps = <<>>
  BY <1>1, TakenFacts
<1>11. RtTypeOK'
  BY <1>1, <1>8, <1>9, <1>10 DEF RtTypeOK
<1>12. ~Waits' /\ rop' # Idle
  BY <1>9, ConstantFacts DEF Waits
<1>13. PipeInv' /\ AnswersTrue'
  BY <1>2, <1>9, <1>10, <1>12 DEF PipeInv, AnswersTrue, Changes
<1>14. StillInv'
  BY <1>1, <1>2, <1>9 DEF StillInv
<1>15. Goal' = Goal
  BY <1>1, <1>9 DEF Goal
<1>16. RecordInv'
  <2>1. \A j \in rjobs' : j[2].kind = "known" /\ j[1] = rfile.no => j[2].t \in rtold
    BY <1>2, <1>7, <1>8 DEF RecordInv
  <2> QED BY <1>1, <1>2, <1>7, <1>8, <1>9, <1>15, <2>1 DEF RecordInv
<1>17. Serves' = Serves
  BY <1>1, <1>9 DEF Serves
<1>18. TrustInv'
  BY <1>1, <1>2, <1>7, <1>8, <1>9, <1>15, <1>17 DEF TrustInv
<1> QED BY <1>8, <1>11, <1>13, <1>14, <1>16, <1>18

(* Saved: the client is told.                                              *)
LEMMA AcknowledgedKeeps ==
  ASSUME RtInv, RtAcknowledged
  PROVE  RtInv'
<1> USE DEF RtInv
<1> DEFINE o == IF rop.rev THEN "reverse" ELSE "forward"
           told == [off |-> OffsetFor(rop.exp, rop.rev, rdev.mech), rev |-> rop.rev]
<1>1. /\ rop.step = "saved" /\ rop' = Idle /\ rtold' = {told}
      /\ rback' = [rback EXCEPT !.ref = rfile, !.unc = FALSE, !.obs = o]
      /\ UNCHANGED <<rdev, rwk, rpipe, rfile, rjobs, rcount>>
  BY DEF RtAcknowledged, Done
<1>2. /\ rfile.no = rcount.no /\ rfile.kind = "known" /\ rfile.t = Goal /\ Goal.rev = rop.rev
      /\ rwk.off = Goal.off /\ rwk.pend = <<>>
  BY <1>1 DEF RecordInv, TrustInv
<1>3. told = Goal
  BY <1>2 DEF Goal
<1>4. o \in {"none", "forward", "reverse"}
  OBVIOUS
<1> HIDE DEF o, told
<1>5. /\ rback' \in [up : BOOLEAN, ref : Records, unc : BOOLEAN,
                     obs : {"none", "forward", "reverse"}]
      /\ rback'.ref = rfile
  BY <1>1, <1>4, BackType DEF RtTypeOK
<1>6. ~Waits /\ rpipe.asks = <<>> /\ rpipe.reps = <<>>
  BY <1>1 DEF PipeInv, Waits
<1>7. rop'.step = "idle" /\ rop'.op = "none" /\ rop'.x = 0 /\ ~Waits' /\ (Serves' <=> rback'.up)
  BY <1>1, ConstantFacts DEF Waits, Serves
<1>8. RtTypeOK'
  BY <1>1, <1>5, ConstantFacts DEF RtTypeOK
<1>9. PipeInv' /\ AnswersTrue' /\ StillInv'
  BY <1>1, <1>6, <1>7, ConstantFacts DEF PipeInv, AnswersTrue, StillInv
<1>10. NumberInv'
  BY <1>1, <1>5 DEF NumberInv
<1>11. \A j \in rjobs : j[1] # rfile.no
  <2>1. \A j \in rjobs : j[1] \in Nat /\ j[2].no \in Nat /\ rcount.no \in Nat
    BY DEF RtTypeOK, Records
  <2> QED BY <1>2, <2>1 DEF NumberInv
<1>12. RecordInv'
  BY <1>1, <1>2, <1>3, <1>7, <1>11 DEF RecordInv
<1>13. TrustInv'
  BY <1>1, <1>2, <1>3, <1>5, <1>7 DEF TrustInv
<1> QED BY <1>8, <1>9, <1>10, <1>12, <1>13

(* The operation hears of its own save only.                               *)
LEMMA HeardIs ==
  ASSUME RtInv, NEW job \in rjobs, NEW m \in {"marked", "unsaved", "refused"},
         NEW s \in {"saved", "unsaved"}, SaveHeard(job, m, s)
  PROVE  /\ rop' \in [op : RtOps, x : 0..Turn, step : RtSteps, exp : Places, rev : BOOLEAN]
         /\ \/ rop' = rop /\ (job[2].no = rcount.no => rop.step \notin {"marker", "save"})
            \/ /\ job[2].no = rcount.no /\ rop' = [rop EXCEPT !.step = rop'.step]
               /\ \/ rop.step = "marker" /\ rop'.step = m
                  \/ rop.step = "save" /\ rop'.step = s
         /\ rop'.op = rop.op /\ rop'.x = rop.x /\ rop'.exp = rop.exp /\ rop'.rev = rop.rev
<1>1. rop \in [op : RtOps, x : 0..Turn, step : RtSteps, exp : Places, rev : BOOLEAN]
  BY DEF RtInv, RtTypeOK
<1>2. m \in RtSteps /\ s \in RtSteps
  BY DEF RtSteps
<1>3. \/ rop' = rop /\ (job[2].no = rcount.no => rop.step \notin {"marker", "save"})
      \/ job[2].no = rcount.no /\ rop.step = "marker" /\ rop' = [rop EXCEPT !.step = m]
      \/ job[2].no = rcount.no /\ rop.step = "save" /\ rop' = [rop EXCEPT !.step = s]
  BY DEF SaveHeard
<1> QED BY <1>1, <1>2, <1>3

(* A save ends, for the operation that waits for it or for nobody.         *)
LEMMA SaveKeeps ==
  ASSUME RtInv, NEW job \in rjobs, RtSave(job)
  PROVE  RtInv'
<1> USE DEF RtInv
<1>1. rjobs' = rjobs \ {job} /\ UNCHANGED <<rdev, rwk, rpipe, rback, rtold, rcount>>
  BY DEF RtSave
<1>2. \/ rfile.no = job[1] /\ rfile' = job[2]
      \/ rfile' = rfile
  BY DEF RtSave, Savable
<1>3. /\ job[1] \in Nat /\ job[2] \in Records /\ job[1] < job[2].no /\ job[2].no <= rcount.no
      /\ job[2].kind # "none" /\ rcount.no \in Nat /\ job[2].no \in Nat
  BY DEF RtTypeOK, NumberInv, TrustInv, Records
<1>4. rfile' \in Records /\ rfile'.no <= rcount.no
  BY <1>2, <1>3 DEF RtTypeOK, NumberInv
<1>5. /\ rop' \in [op : RtOps, x : 0..Turn, step : RtSteps, exp : Places, rev : BOOLEAN]
      /\ rop'.op = rop.op /\ rop'.x = rop.x /\ rop'.exp = rop.exp /\ rop'.rev = rop.rev
      /\ \/ rop' = rop /\ (job[2].no = rcount.no => rop.step \notin {"marker", "save"})
         \/ /\ job[2].no = rcount.no
            /\ \/ rop.step = "marker" /\ rop'.step \in {"unsaved", "refused"}
               \/ rop.step = "save" /\ rop'.step = "unsaved"
               \/ rop.step = "marker" /\ rop'.step = "marked" /\ rfile' = job[2]
               \/ rop.step = "save" /\ rop'.step = "saved" /\ rfile' = job[2]
  <2>1. CASE rfile' = job[2] /\ SaveHeard(job, "marked", "saved")
    BY <2>1, HeardIs
  <2>2. CASE SaveHeard(job, "unsaved", "unsaved")
    BY <2>2, HeardIs
  <2>3. CASE SaveHeard(job, "refused", "unsaved")
    BY <2>3, HeardIs
  <2> QED BY <2>1, <2>2, <2>3 DEF RtSave
<1>6. rop'.step # rop.step => rop.step \in {"marker", "save"} /\ rop'.step # "idle" /\ Changes
  BY <1>5 DEF PipeInv
<1>7. /\ rop.step \in {"marked", "change", "settings2", "status2", "saved"} => rfile' = rfile
  <2>1. rop.step \in {"marked", "change", "settings2", "status2", "saved"} => rfile.no = rcount.no
    BY DEF RecordInv
  <2> QED BY <1>2, <1>3, <2>1
<1>8. RtTypeOK'
  BY <1>1, <1>4, <1>5 DEF RtTypeOK
<1>9. rop'.step = rop.step \/ (~Waits /\ ~Waits')
  BY <1>5 DEF Waits
<1>10. PipeInv'
  <2>1. CASE rop' = rop
    BY <1>1, <2>1 DEF PipeInv, Waits, Awaited, Changes
  <2>2. CASE rop' # rop
    <3>1. /\ rop.step \in {"marker", "save"} /\ ~Waits /\ ~Waits' /\ Changes
          /\ rop'.step \in {"marked", "refused", "saved", "unsaved"}
      BY <1>5, <2>2 DEF Waits, PipeInv
    <3>2. rpipe'.asks = <<>> /\ rpipe'.reps = <<>>
      BY <1>1, <3>1 DEF PipeInv
    <3> QED BY <1>5, <3>1, <3>2, ConstantFacts DEF PipeInv, Changes
  <2> QED BY <2>1, <2>2
<1>11. AnswersTrue'
  BY <1>1 DEF AnswersTrue, AnswerTrue
<1>12. StillInv'
  BY <1>1, <1>5 DEF StillInv
<1>13. NumberInv'
  <2>1. \A j \in rjobs' : j \in rjobs /\ j # job
    BY <1>1
  <2>2. \A j \in rjobs' : j[2].no # rfile'.no
    BY <1>2, <2>1 DEF NumberInv
  <2> QED BY <1>1, <1>4, <2>1, <2>2 DEF NumberInv
<1>14. rfile' # rfile => rfile' = job[2] /\ rfile.no = job[1] /\ \A j \in rjobs : j[1] # rfile'.no
  BY <1>2 DEF NumberInv
<1>15. Goal' = Goal
  BY <1>1, <1>5 DEF Goal
<1>16. rfile'.kind = "known" => rfile'.t \in rtold
  BY <1>2 DEF RecordInv
<1>17. \A j \in rjobs' : j[2].kind = "known" /\ j[1] = rfile'.no => j[2].t \in rtold'
  BY <1>1, <1>14 DEF RecordInv
<1>18. RecordInv'
  <2>1. CASE rop' = rop
    BY <1>1, <1>7, <1>15, <1>16, <1>17, <2>1 DEF RecordInv
  <2>2. CASE rop.step = "marker" /\ rop'.step = "marked" /\ rfile' = job[2] /\ job[2].no = rcount.no
    BY <1>1, <1>5, <1>15, <1>16, <1>17, <2>2 DEF RecordInv
  <2>3. CASE rop.step = "save" /\ rop'.step = "saved" /\ rfile' = job[2] /\ job[2].no = rcount.no
    BY <1>1, <1>5, <1>15, <1>16, <1>17, <2>3 DEF RecordInv
  <2>4. CASE rop'.step \in {"unsaved", "refused"}
    BY <1>1, <1>16, <1>17, <2>4 DEF RecordInv
  <2> QED BY <1>5, <2>1, <2>2, <2>3, <2>4
<1>19. TrustInv'
  <2>1. Serves' = Serves
    BY <1>1, <1>5 DEF Serves
  <2>2. rfile'.kind = "none" => rtold' = Transforms
    BY <1>1, <1>2, <1>3 DEF TrustInv
  <2>3. rop'.step \in {"save", "saved"} => rop.step \in {"save", "saved"}
    BY <1>5
  <2>4. rop'.step \in {"change", "settings2", "status2", "save", "saved"} =>
          rop.step \in {"change", "settings2", "status2", "save", "saved"}
    BY <1>5
  <2>5. rop'.step \in {"reference", "restore", "status", "command"} => rop'.step = rop.step
    BY <1>5
  <2> QED BY <1>1, <1>5, <1>15, <2>1, <2>2, <2>3, <2>4, <2>5 DEF TrustInv
<1> QED BY <1>8, <1>10, <1>11, <1>12, <1>13, <1>18, <1>19

LEMMA RtInitial ==
  ASSUME RtInit
  PROVE  RtInv
<1>1. rjobs = {} /\ rop = Idle /\ rwk = NoWorker /\ rpipe = Closed /\ rback = Down
      /\ rfile = NoRecord /\ rtold = Transforms
      /\ rdev = [mech |-> 0, to |-> Still, rev |-> FALSE]
      /\ rcount = [syncs |-> 0, moves |-> 0, no |-> 0]
  BY DEF RtInit
<1>2. rop.step = "idle" /\ rop.op = "none" /\ rop.x = 0 /\ ~Waits /\ ~Serves
  BY <1>1, ConstantFacts DEF Waits, Serves
<1>3. RtTypeOK
  BY <1>1, ConstantFacts DEF RtTypeOK, Rotators, Still
<1>4. PipeInv /\ AnswersTrue /\ StillInv
  BY <1>1, <1>2, ConstantFacts DEF PipeInv, AnswersTrue, StillInv
<1>5. NumberInv /\ RecordInv /\ TrustInv
  BY <1>1, <1>2, ConstantFacts DEF NumberInv, RecordInv, TrustInv
<1> QED BY <1>3, <1>4, <1>5 DEF RtInv

LEMMA RtStutters ==
  ASSUME RtInv, UNCHANGED rtVars
  PROVE  RtInv'
BY DEF RtInv, rtVars, RtTypeOK, PipeInv, AnswersTrue, AnswerTrue, StillInv, NumberInv, RecordInv,
   TrustInv, Waits, Awaited, Changes, Serves, Goal

LEMMA RtStepKeeps ==
  ASSUME RtInv, [RtNext]_rtVars
  PROVE  RtInv'
<1>1. ASSUME NEW op \in {"sync", "move", "mech"}, NEW x \in Places, RtBegin(op, x)
      PROVE  RtInv'
  BY <1>1, BeginKeeps, ConstantFacts
<1>2. ASSUME NEW x \in {0, 1}, RtBegin("reverse", x)
      PROVE  RtInv'
  BY <1>2, BeginKeeps, ConstantFacts
<1>3. ASSUME NEW op \in {"sample", "halt"}, RtBegin(op, 0)
      PROVE  RtInv'
  BY <1>3, BeginKeeps, ConstantFacts
<1>4. ASSUME NEW job \in rjobs, RtSave(job)
      PROVE  RtInv'
  BY <1>4, SaveKeeps
<1>5. CASE RtWorker
  BY <1>5, WorkerKeeps
<1>6. CASE RtArrive \/ RtFlipped
  BY <1>6, ArriveKeeps, FlippedKeeps
<1>7. CASE RtConnect \/ RtIdentity \/ RtReference \/ RtRestored
  BY <1>7, RtConnectKeeps, IdentityKeeps, ReferenceKeeps, RestoredKeeps
<1>8. CASE RtSettings \/ RtStatus \/ RtMarked \/ RtChanged
  BY <1>8, SettingsKeeps, StatusKeeps, MarkedKeeps, ChangedKeeps
<1>9. CASE RtSettings2 \/ RtStatus2 \/ RtAcknowledged \/ RtEnds
  BY <1>9, Settings2Keeps, Status2Keeps, AcknowledgedKeeps, EndsKeep
<1>10. CASE RtLost \/ RtDisconnect \/ RtCrash
  BY <1>10, LostKeeps
<1>11. CASE UNCHANGED rtVars
  BY <1>11, RtStutters
<1> QED BY <1>1, <1>2, <1>3, <1>4, <1>5, <1>6, <1>7, <1>8, <1>9, <1>10, <1>11 DEF RtNext

LEMMA RtInvariant == RtSpec => []RtInv
<1>1. RtInit => RtInv
  BY RtInitial
<1>2. RtInv /\ [RtNext]_rtVars => RtInv'
  BY RtStepKeeps
<1> QED BY <1>1, <1>2, PTL DEF RtSpec

(* What is saved is a reference that clients may go by, after every crash  *)
(* and every cancelled request, and the answer that is next in the stream  *)
(* is the one the operation waits for (native.rs, native_reference.rs).    *)
THEOREM SavedReferenceHolds == RtSpec => []SavedReference
<1>1. ASSUME RtInv
      PROVE  SavedReference
  <2>1. rfile.kind = "known" => rfile.t \in rtold
    BY <1>1 DEF RtInv, RecordInv
  <2>2. ASSUME rpipe.reps # <<>>
        PROVE  \/ Head(rpipe.reps).ask.c = rop.op
               \/ /\ rop.step \in {"identity", "settings", "status", "restore"}
                  /\ Head(rpipe.reps).ask.c = rop.step
               \/ rop.step \in {"reference", "settings2"} /\ Head(rpipe.reps).ask.c = "settings"
               \/ rop.step = "status2" /\ Head(rpipe.reps).ask.c = "status"
               \/ rop.op = "halt" /\ Head(rpipe.reps).ask.c = "stop"
    BY <1>1, <2>2, ReplyFacts, AwaitedIs DEF Waits
  <2> QED BY <2>1, <2>2 DEF SavedReference
<1>2. RtInv => SavedReference
  BY <1>1
<1> QED BY <1>2, RtInvariant, PTL

(* An operation other than connect runs on a backend that is connected.    *)
UpInv == rop.op \notin {"none", "connect"} => rback.up

LEMMA UpKeeps ==
  ASSUME RtInv, UpInv, [RtNext]_rtVars
  PROVE  UpInv'
<1>1. /\ rop \in [op : RtOps, x : 0..Turn, step : RtSteps, exp : Places, rev : BOOLEAN]
      /\ rback \in [up : BOOLEAN, ref : Records, unc : BOOLEAN,
                    obs : {"none", "forward", "reverse"}]
  BY DEF RtInv, RtTypeOK
<1>2. ASSUME rop'.op = rop.op, rback'.up = rback.up
      PROVE  UpInv'
  BY <1>2 DEF UpInv
<1>3. ASSUME rop' = Idle
      PROVE  UpInv'
  BY <1>3, ConstantFacts DEF UpInv
<1>4. ASSUME NEW op, NEW x, RtBegin(op, x)
      PROVE  UpInv'
  BY <1>4 DEF RtBegin, UpInv
<1>5. ASSUME NEW job \in rjobs, RtSave(job)
      PROVE  UpInv'
  BY <1>1, <1>2, <1>5 DEF RtSave, SaveHeard
<1>6. CASE RtWorker \/ RtArrive \/ RtFlipped \/ UNCHANGED rtVars
  BY <1>2, <1>6 DEF RtWorker, RtArrive, RtFlipped, rtVars
<1>7. CASE RtConnect
  <2>1. rop'.op = "connect"
    BY <1>7 DEF RtConnect, Idle
  <2> QED BY <2>1 DEF UpInv
<1>8. CASE RtIdentity \/ RtReference \/ RtRestored
  <2>1. rop.op = "connect"
    BY <1>8 DEF RtIdentity, RtReference, RtRestored, Heard, RtInv, PipeInv
  <2>2. rop' = Idle \/ rop'.op = rop.op
    BY <1>1, <1>8 DEF RtIdentity, RtReference, RtRestored, Done
  <2> QED BY <1>3, <2>1, <2>2 DEF UpInv
<1>9. CASE RtSettings
  <2>1. rop'.op = rop.op
    BY <1>1, <1>9 DEF RtSettings
  <2>2. rback'.up = rback.up
    BY <1>1, <1>9 DEF RtSettings
  <2> QED BY <1>2, <2>1, <2>2
<1>10. CASE RtStatus
  BY <1>1, <1>2, <1>3, <1>10 DEF RtStatus, Done
<1>11. CASE RtMarked
  BY <1>1, <1>2, <1>11 DEF RtMarked
<1>12. CASE RtChanged \/ RtSettings2 \/ RtStatus2
  BY <1>1, <1>2, <1>12 DEF RtChanged, RtSettings2, RtStatus2
<1>13. CASE RtAcknowledged \/ RtEnds \/ RtLost \/ RtCrash
  BY <1>3, <1>13 DEF RtAcknowledged, RtEnds, RtLost, RtCrash, Done
<1>14. CASE RtDisconnect
  <2>1. rop' = Idle
    BY <1>14 DEF RtDisconnect
  <2> QED BY <1>3, <2>1
<1> QED BY <1>4, <1>5, <1>6, <1>7, <1>8, <1>9, <1>10, <1>11, <1>12, <1>13, <1>14 DEF RtNext

LEMMA UpInvariant == RtSpec => [](RtInv /\ UpInv)
<1>1. RtInit => UpInv
  BY ConstantFacts DEF RtInit, UpInv
<1>2. RtInv /\ UpInv /\ [RtNext]_rtVars => UpInv'
  BY UpKeeps
<1> QED BY <1>1, <1>2, RtInvariant, PTL DEF RtSpec

(* A request is what turns the rotator to a new place.                     *)
LEMMA TurnsOnRequest ==
  ASSUME RtInv, [RtNext]_rtVars, rop # Idle, rdev'.to # rdev.to, rdev'.to # Still
  PROVE  /\ rpipe.asks # <<>>
         /\ \E o \in Executed(Head(rpipe.asks).c, Head(rpipe.asks).x, rdev, rwk) : rdev' = o.dev
<1>1. rdev' # rdev /\ rdev \in Rotators
  BY DEF RtInv, RtTypeOK
<1>2. CASE RtWorker
  BY <1>2 DEF RtWorker
<1>3. CASE Retired
  <2>1. CASE rpipe.asks = <<>>
    <3>1. PICK o \in Stopped(rdev, rwk) : rdev' = o.dev
      BY <1>1, <1>3, <2>1 DEF Retired
    <3>2. o.dev.to \in {rdev.to, Still}
      BY StoppedDoes, ConstantFacts DEF Does, RtInv, RtTypeOK
    <3> QED BY <3>1, <3>2
  <2>2. CASE rpipe.asks # <<>>
    BY <1>3, <2>2 DEF Retired
  <2> QED BY <2>1, <2>2
<1>4. CASE RtArrive
  BY <1>1, <1>4 DEF RtArrive, Rotators
<1>5. RtWorker \/ Retired \/ RtArrive
  BY <1>1 DEF RtNext, rtVars, RtFlipped, RtConnect, RtBegin, RtIdentity, RtReference, RtRestored,
     RtSettings, RtStatus, RtMarked, RtChanged, RtSettings2, RtStatus2, RtAcknowledged, RtEnds,
     RtLost, RtDisconnect, RtCrash, RtSave
<1> QED BY <1>2, <1>3, <1>4, <1>5

(* A move goes to the place that a reference clients were told of gives    *)
(* the angle, or is not made, through lost workers, reversals from outside *)
(* and restarts (native.rs, the worker's controller).                      *)
THEOREM MovesAreByReference == RtSpec => MovesByReference
<1>1. ASSUME RtInv, UpInv, [RtNext]_rtVars, rop.op = "move", rop.step = "command",
             rdev'.to # rdev.to, rdev'.to # Still
      PROVE  \E t \in rtold : LogicalAt(t.off, t.rev, rdev'.to) = rop.x
  <2> DEFINE a == Head(rpipe.asks)
  <2>1. rpipe.asks # <<>> /\ \E o \in Executed(a.c, a.x, rdev, rwk) : rdev' = o.dev
    BY <1>1, TurnsOnRequest, ConstantFacts
  <2>2. a \in RtAsks /\ a.c = "move"
    BY <1>1, <2>1, AskFacts, AwaitedIs
  <2>3. a.x = rop.x /\ ~rback.unc /\ rback.up
    BY <1>1, <2>1 DEF RtInv, TrustInv, UpInv
  <2> HIDE DEF a
  <2>4. PICK o \in Executed(a.c, a.x, rdev, rwk) : rdev' = o.dev
    BY <2>1
  <2>5. Does(a.c, a.x, rdev, rwk, o)
    BY <1>1, <2>2, ExecutedDoes DEF RtInv, RtTypeOK
  <2>6. rwk.pend = <<>> /\ rback.ref.kind \in {"none", "known"}
    BY <1>1, <2>3 DEF RtInv, RtTypeOK, Records, TrustInv, Serves
  <2>7. LogicalAt(rwk.off, rdev.rev, rdev'.to) = rop.x
    BY <1>1, <2>2, <2>3, <2>4, <2>5, <2>6 DEF Does
  <2>8. [off |-> rwk.off, rev |-> rdev.rev] \in Transforms
    BY <1>1 DEF RtInv, RtTypeOK, RtWorkers, Rotators, Transforms
  <2>9. CASE rback.ref.kind = "none"
    <3>1. rtold = Transforms
      BY <1>1, <2>3, <2>9 DEF RtInv, TrustInv, Serves
    <3> QED BY <2>7, <2>8, <3>1
  <2>10. CASE rback.ref.kind = "known"
    <3>1. rback.ref.t \in rtold /\ rback.ref.t.off = rwk.off /\ rback.ref.t.rev = rdev.rev
      BY <1>1, <2>3, <2>10 DEF RtInv, TrustInv, Serves
    <3> QED BY <2>7, <3>1
  <2> QED BY <2>6, <2>9, <2>10
<1>2. RtInv /\ UpInv /\ [RtNext]_rtVars =>
        [rop.op = "move" /\ rop.step = "command" /\ rdev'.to # rdev.to /\ rdev'.to # Still
         => \E t \in rtold : LogicalAt(t.off, t.rev, rdev'.to) = rop.x]_rtVars
  BY <1>1
<1> QED BY <1>2, UpInvariant, PTL DEF RtSpec, MovesByReference

=============================================================================
