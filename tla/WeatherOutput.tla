--------------------------- MODULE WeatherOutput ---------------------------
(***************************************************************************)
(* The weather output (regain-hub weather.rs): per source a task that      *)
(* observes its snapshots, an engine behind a lock that keeps the latest   *)
(* ones and the points of a time-weighted average of one measurement, and  *)
(* clients that read it. A measurement has a list of sources; the first    *)
(* one with a fresh sample counts. The host may sleep at any moment.       *)
(***************************************************************************)
EXTENDS Integers, Sequences, FiniteSets

CONSTANTS
  WxSources,     \* a sequence: the measurement's sources, preferred first
  WxAge,         \* maximum_age_seconds
  WxAverage,     \* averaging period
  MaxWxTime, MaxWxSamples, MaxWxBreaks   \* bounds; a break is a sleep, a reconnection
                                         \* or a change of the averaging period

ASSUME WeatherAssumption ==
  /\ Len(WxSources) >= 1 /\ WxAge \in Nat \ {0} /\ WxAverage \in Nat
  /\ {MaxWxTime, MaxWxSamples, MaxWxBreaks} \subseteq Nat

VARIABLES
  wclk,    \* the clock: time and resume epoch; samples and other breaks so far
  wsrc,    \* per source: its published snapshot
  weng,    \* the engine: epoch, snapshots, history, averaging period
  wtask    \* per source: where its observer is, and whether it is notified

wxVars == <<wclk, wsrc, weng, wtask>>

Ix == DOMAIN WxSources
NoPoints == [index |-> 0, gen |-> 0, seq |-> 0, points |-> <<>>]
Unseen == [epoch |-> -1, gen |-> 0, seq |-> 0, at |-> 0, ok |-> FALSE]

WxInit ==
  /\ wclk = [now |-> 0, epoch |-> 0, samples |-> 0, again |-> 0]
  /\ wsrc = [i \in Ix |-> [Unseen EXCEPT !.epoch = 0, !.gen = 1]]
  /\ weng = [epoch |-> 0, states |-> [i \in Ix |-> Unseen], hist |-> NoPoints,
             average |-> WxAverage]
  /\ wtask = [i \in Ix |-> [pc |-> "wait", new |-> TRUE]]

-----------------------------------------------------------------------------
(* The surroundings: time, sleep, and what the source actor publishes      *)

\* Times are only compared: they may as well count from the first sample.
WxTick ==
  /\ wclk.samples > 0 /\ wclk.now < MaxWxTime
  /\ wclk' = [wclk EXCEPT !.now = @ + 1]
  /\ UNCHANGED <<wsrc, weng, wtask>>

WxResume ==
  /\ wclk.epoch + wclk.again < MaxWxBreaks
  /\ wclk' = [wclk EXCEPT !.epoch = @ + 1]
  /\ UNCHANGED <<wsrc, weng, wtask>>

(* A sample: only of the current epoch, after the source has seen it. The  *)
(* time of one that is not valid is never read.                            *)
WxSample(i) ==
  /\ wsrc[i].epoch = wclk.epoch /\ wclk.samples < MaxWxSamples
  /\ \E ok \in BOOLEAN :
       wsrc' = [wsrc EXCEPT ![i] = [@ EXCEPT !.seq = @ + 1, !.ok = ok,
                                             !.at = IF ok THEN wclk.now ELSE 0]]
  /\ wtask' = [wtask EXCEPT ![i].new = TRUE]
  /\ wclk' = [wclk EXCEPT !.samples = @ + 1]
  /\ UNCHANGED weng

(* The source reconnects, or follows the clock into the next epoch.        *)
WxGeneration(i) ==
  /\ \/ wsrc[i].epoch # wclk.epoch /\ UNCHANGED wclk
     \/ wsrc[i].epoch = wclk.epoch /\ wclk.epoch + wclk.again < MaxWxBreaks
        /\ wclk' = [wclk EXCEPT !.again = @ + 1]
  /\ wsrc' = [wsrc EXCEPT ![i] = [Unseen EXCEPT !.epoch = wclk.epoch, !.gen = wsrc[i].gen + 1]]
  /\ wtask' = [wtask EXCEPT ![i].new = TRUE]
  /\ UNCHANGED weng

-----------------------------------------------------------------------------
(* The engine                                                              *)

(* sync_resume: a new epoch starts with nothing.                           *)
SyncResume(e) ==
  IF e.epoch = wclk.epoch THEN e
  ELSE [e EXCEPT !.epoch = wclk.epoch, !.states = [i \in Ix |-> Unseen], !.hist = NoPoints]

(* select: the first source with a sample that is valid and young enough.  *)
Fresh(e, i) ==
  LET s == e.states[i] IN s.epoch # -1 /\ s.ok /\ s.seq > 0 /\ wclk.now - s.at < WxAge
Selected(e) == {i \in Ix : Fresh(e, i) /\ \A j \in Ix : j < i => ~Fresh(e, j)}

(* Fault: a gap in the samples does not interrupt the average.             *)
ContinuesAcrossGap(h, i, s) == h.index = i /\ h.gen = s.gen

(* Points are only added to an unbroken series of one source.              *)
Continues(h, i, s) == h.index = i /\ h.gen = s.gen /\ s.seq <= h.seq + 1

Added(h, i, s) ==
  LET base == IF Continues(h, i, s) THEN h ELSE [NoPoints EXCEPT !.index = i, !.gen = s.gen] IN
  IF base.seq = s.seq /\ base.points # <<>> THEN base
  ELSE [base EXCEPT !.seq = s.seq,
          !.points = Append(@, [at |-> wclk.now, age |-> wclk.now - s.at,
                                seq |-> s.seq, gen |-> s.gen, index |-> i, epoch |-> s.epoch])]

(* The front of the points that the window no longer needs.                *)
Superfluous(p, start) ==
  Len(p) > 1 /\ (p[2].at <= start \/ p[1].age + wclk.now - p[1].at >= WxAge)
Pruned(p, start) ==
  LET from == CHOOSE k \in 1..Len(p) :
                /\ ~Superfluous(SubSeq(p, k, Len(p)), start)
                /\ \A j \in 1..(k - 1) : Superfluous(SubSeq(p, j, Len(p)), start)
  IN SubSeq(p, from, Len(p))

(* read: the engine afterwards.                                            *)
ReadOf(e) ==
  IF Selected(e) = {} THEN [e EXCEPT !.hist = NoPoints]
  ELSE LET i == CHOOSE i \in Selected(e) : TRUE
           h == Added(e.hist, i, e.states[i])
       IN [e EXCEPT !.hist = [h EXCEPT !.points = Pruned(@, wclk.now - e.average)]]

(* The weights of the time-weighted mean, and what they are divided by.    *)
From(p, start) == IF p.at > start THEN p.at ELSE start
Weights(p, start) ==
  [k \in DOMAIN p |->
     LET next == IF k = Len(p) THEN wclk.now ELSE p[k + 1].at
         w == next - From(p[k], start)
     IN IF w > 0 THEN w ELSE 0]

(* observe: not from another epoch, not behind what is known.              *)
Observable(e, s) ==
  /\ s.snap.epoch = e.epoch
  /\ LET old == e.states[s.index] IN ~(old.gen = s.snap.gen /\ old.seq > s.snap.seq)

Observed(e, i, s) ==
  IF Observable(e, [index |-> i, snap |-> s])
  THEN ReadOf([e EXCEPT !.states[i] = s]) ELSE e

-----------------------------------------------------------------------------
(* The observers: woken by a change, they lock the engine, follow the      *)
(* clock and fetch the snapshot. The host may sleep between the two.       *)

WxLock(i) ==
  /\ wtask[i].pc = "wait" /\ wtask[i].new
  /\ \A j \in Ix : wtask[j].pc = "wait"
  /\ weng' = SyncResume(weng)
  /\ wtask' = [wtask EXCEPT ![i] = [pc |-> "locked", new |-> FALSE]]
  /\ UNCHANGED <<wclk, wsrc>>

WxObserve(i) ==
  /\ wtask[i].pc = "locked"
  /\ weng' = Observed(weng, i, wsrc[i])
  /\ wtask' = [wtask EXCEPT ![i].pc = "wait"]
  /\ UNCHANGED <<wclk, wsrc>>

(* A client reads.                                                         *)
WxRead ==
  /\ \A j \in Ix : wtask[j].pc = "wait"
  /\ weng' = ReadOf(SyncResume(weng))
  /\ UNCHANGED <<wclk, wsrc, wtask>>

(* set_average_period_hours.                                               *)
WxSetAverage ==
  /\ \A j \in Ix : wtask[j].pc = "wait"
  /\ \E a \in {0, WxAverage} \ {weng.average} :
       weng' = [weng EXCEPT !.average = a, !.hist = NoPoints]
  /\ wclk.epoch + wclk.again < MaxWxBreaks
  /\ wclk' = [wclk EXCEPT !.again = @ + 1]
  /\ UNCHANGED <<wsrc, wtask>>

WxNext ==
  \/ WxTick \/ WxResume \/ WxRead \/ WxSetAverage
  \/ \E i \in Ix : WxSample(i) \/ WxGeneration(i) \/ WxLock(i) \/ WxObserve(i)

-----------------------------------------------------------------------------
Total(w) == LET sum[k \in 0..Len(w)] == IF k = 0 THEN 0 ELSE sum[k - 1] + w[k] IN sum[Len(w)]

(* An average is honest: its points form an unbroken series of samples of  *)
(* one source, one connection and the engine's epoch, so nothing from      *)
(* before a sleep, from a fallback or across missed samples is mixed in;   *)
(* and of what a client would be told now, no sample has reached its age   *)
(* and the weights make up the window, no more and no less, in whatever    *)
(* order snapshots, reads and resumes came.                                *)
WeatherHonest ==
  /\ LET p == weng.hist.points IN
     \A k \in DOMAIN p :
       /\ p[k].epoch = weng.epoch /\ p[k].gen = weng.hist.gen /\ p[k].index = weng.hist.index
       /\ k > 1 => p[k].seq = p[k - 1].seq + 1
  /\ LET e == ReadOf(SyncResume(weng)) p == e.hist.points start == wclk.now - e.average IN
     /\ \A k \in DOMAIN p : p[k].age + wclk.now - p[k].at < WxAge
     /\ p # <<>> => Total(Weights(p, start)) = wclk.now - From(p[1], start)
  \* A snapshot that an observer had to leave, because the host slept after
  \* the engine was locked, is not lost: the observer looks again.
  /\ \A i \in Ix :
       \/ wsrc[i].epoch # wclk.epoch \/ weng.states[i] = wsrc[i]
       \/ wtask[i].new \/ wtask[i].pc = "locked" \/ weng.epoch # wclk.epoch
=============================================================================
