------------------------- MODULE HubLifecycleProofs -------------------------
(***************************************************************************)
(* Proofs about the host of the hub. A runtime is replaced while requests, *)
(* connection attempts, changes and probes that were admitted before are   *)
(* still under way; the invariant says which lock each of them has, which  *)
(* activity stands for it in which runtime, and what a runtime that is     *)
(* being replaced can no longer have. Then proofs about the Alpaca         *)
(* server's publisher (HubPublisher), a client of that host, and about the *)
(* coordinated operations of its devices (Coordination).                   *)
(***************************************************************************)
EXTENDS HubLifecycle, HubPublisher, Coordination, TLAPS

(* The host by itself: the safety part of its specification.               *)
HlSpec == HlInit /\ [][HlNext]_hlVars

Services ==
  [phase : {"ready", "applying", "blocked", "stopped"}, cur : Runtimes, store : Runtimes,
   lock : {"free", "apply", "credential", "stop"}, cleanup : BOOLEAN,
   stop : {"no", "waiting", "draining", "done"}]

Activities == HubClients \X Nat

RuntimeStates ==
  [closed : BOOLEAN, frozen : BOOLEAN, act : SUBSET Activities,
   jobs : SUBSET {"group", "probe", "catalog"}, down : {"up", "closing", "down"},
   toClose : SUBSET HubClients, warm : BOOLEAN, failed : BOOLEAN]

ClientStates ==
  [closed : BOOLEAN, bound : {0} \cup Runtimes, sclosed : BOOLEAN,
   con : {"none", "pending", "ready"}, tok : Nat, gone : SUBSET Nat,
   change : {"none", "connect", "disconnect", "opening"},
   req : {"none", "runtime", "bound"}, seen : {0} \cup Runtimes, cmd : SUBSET Nat]

Replacing == {"quiesced", "prepare", "commit", "drain"}

HlTypeOK ==
  /\ hsvc \in Services
  /\ happ \in {"idle", "begin", "blocking"} \cup Replacing
  /\ hrt \in [Runtimes -> RuntimeStates]
  /\ hcl \in [HubClients -> ClientStates]
  /\ hopens \subseteq HubClients \X Nat \X Runtimes
  /\ htok \in Nat
  /\ hcred \in [present : BOOLEAN, job : {"none", "create", "delete"}]

(* Who has the update lock, and the phase that an update is in.            *)
LockInv ==
  /\ happ # "idle" <=> hsvc.lock = "apply"
  /\ hcred.job # "none" <=> hsvc.lock = "credential"
  /\ hsvc.stop = "draining" <=> hsvc.lock = "stop"
  /\ happ = "quiesced" => hsvc.phase = "ready"
  /\ happ \in {"prepare", "commit", "drain"} <=> hsvc.phase = "applying"
  /\ happ = "blocking" => hsvc.phase = "blocked"
  /\ hsvc.stop \in {"draining", "done"} => hsvc.phase = "stopped"

(* The revision that is stored, the one that is served and its credential. *)
RevisionInv ==
  /\ hsvc.phase = "ready" \/ happ \in {"prepare", "commit"} => hsvc.cur = hsvc.store
  /\ happ = "drain" => hsvc.store = hsvc.cur + 1
  /\ happ \in {"begin", "quiesced", "prepare", "commit"} => hsvc.store < MaxRuntimes
  /\ hsvc.phase \in {"ready", "applying"} =>
       /\ ~hsvc.cleanup
       /\ \A r \in Runtimes : r < hsvc.cur => ~hrt[r].failed
       /\ hsvc.store \in UsesCredential => hcred.present
  /\ happ = "commit" /\ HlNextRevision \in UsesCredential => hcred.present
  /\ hcred.job = "delete" => hsvc.store \notin UsesCredential

(* A runtime that was or is being replaced is idle and admits nothing.     *)
RuntimeOK(r) ==
  /\ hrt[r].closed <=> hrt[r].down # "up"
  /\ hrt[r].down = "down" => hrt[r].toClose = {} /\ hrt[r].jobs = {}
  /\ r < hsvc.cur => hrt[r].down = "down" /\ hrt[r].act = {}
  /\ r = hsvc.cur /\ happ \in Replacing =>
       hrt[r].act = {} /\ hrt[r].jobs = {} /\ hrt[r].frozen
  /\ "probe" \in hrt[r].jobs =>
       hrt[r].jobs = {"probe"} /\ hrt[r].act = {} /\ ~hrt[r].warm /\ hrt[r].frozen

RuntimeInv == \A r \in Runtimes : RuntimeOK(r)

(* Every attempt has a token of its own and the activity for it.           *)
OpenInv ==
  /\ \A o \in hopens : o[2] > 0 /\ o[2] <= htok /\ <<o[1], o[2]>> \in hrt[o[3]].act
  /\ \A o, p \in hopens : o[2] = p[2] => o = p

(* A token whose attempt is over.                                          *)
Over(t) == t > 0 /\ t <= htok /\ \A o \in hopens : o[2] # t

CommandInv == \A c \in HubClients : \A t \in hcl[c].cmd : Over(t)

GoneInv == \A c \in HubClients : hcl[c].tok <= htok /\ \A t \in hcl[c].gone : t <= htok

(* A connection's attempt is under way, or its activity is held.           *)
ConnectionOK(c) ==
  /\ hcl[c].con # "none" => hcl[c].tok \notin hcl[c].gone /\ ~hcl[c].sclosed /\ hcl[c].bound # 0
  /\ hcl[c].con = "pending" => <<c, hcl[c].tok, hcl[c].bound>> \in hopens
  /\ hcl[c].con = "ready" => Over(hcl[c].tok) /\ <<c, hcl[c].tok>> \in hrt[hcl[c].bound].act

ConnectionInv == \A c \in HubClients : ConnectionOK(c)

(* What a client's requests and its stream say of its binding.             *)
BindingOK(c) ==
  /\ hcl[c].req = "bound" \/ hcl[c].change # "none" => hcl[c].bound # 0
  /\ hcl[c].req = "runtime" => hcl[c].seen # 0
  /\ hcl[c].closed => hcl[c].sclosed /\ hcl[c].req = "none"
  /\ hcl[c].bound # 0 /\ hrt[hcl[c].bound].down # "up" /\ c \notin hrt[hcl[c].bound].toClose =>
       hcl[c].sclosed

BindingInv == \A c \in HubClients : BindingOK(c)

HlIInv ==
  /\ HlTypeOK /\ LockInv /\ RevisionInv /\ RuntimeInv /\ OpenInv /\ CommandInv /\ GoneInv
  /\ ConnectionInv /\ BindingInv
-----------------------------------------------------------------------------
(* What a step leaves alone, and what the actions do to the records        *)

KeepsRequest(c) == hcl'[c].req = hcl[c].req /\ hcl'[c].seen = hcl[c].seen
KeepsBinding(c) ==
  /\ hcl'[c].closed = hcl[c].closed /\ hcl'[c].bound = hcl[c].bound
  /\ hcl'[c].sclosed = hcl[c].sclosed
KeepsConnection(c) ==
  hcl'[c].con = hcl[c].con /\ hcl'[c].tok = hcl[c].tok /\ hcl'[c].gone = hcl[c].gone
KeepsCommands(c) == hcl'[c].cmd = hcl[c].cmd
KeepsChange(c) == hcl'[c].change = hcl[c].change

(* At most the client c changes.                                           *)
OnlyClient(c) ==
  /\ hcl' \in [HubClients -> ClientStates]
  /\ \A d \in HubClients : d # c => hcl'[d] = hcl[d]

KeepsShutdown(r) ==
  /\ hrt'[r].closed = hrt[r].closed /\ hrt'[r].down = hrt[r].down
  /\ hrt'[r].toClose = hrt[r].toClose /\ hrt'[r].failed = hrt[r].failed
KeepsUse(r) ==
  /\ hrt'[r].act = hrt[r].act /\ hrt'[r].jobs = hrt[r].jobs
  /\ hrt'[r].warm = hrt[r].warm

OnlyRuntime(r) ==
  /\ hrt' \in [Runtimes -> RuntimeStates]
  /\ \A q \in Runtimes : q # r => hrt'[q] = hrt[q]

(* At most the activities S are given back.                                *)
Releases(S) ==
  /\ hrt' \in [Runtimes -> RuntimeStates]
  /\ \A q \in Runtimes :
       /\ KeepsShutdown(q) /\ hrt'[q].frozen = hrt[q].frozen
       /\ hrt'[q].jobs = hrt[q].jobs /\ hrt'[q].warm = hrt[q].warm
       /\ hrt'[q].act \subseteq hrt[q].act /\ hrt[q].act \ S \subseteq hrt'[q].act

LEMMA ServiceFacts ==
  ASSUME HlTypeOK
  PROVE  /\ hsvc.cur \in Runtimes /\ hsvc.store \in Runtimes /\ hsvc.cur \in Nat
         /\ hsvc.store \in Nat /\ hsvc.cleanup \in BOOLEAN
         /\ hsvc.phase \in {"ready", "applying", "blocked", "stopped"}
         /\ hsvc.lock \in {"free", "apply", "credential", "stop"}
         /\ hsvc.stop \in {"no", "waiting", "draining", "done"}
         /\ MaxRuntimes \in Nat /\ Runtimes = 1..MaxRuntimes
BY HubLifecycleAssumption DEF HlTypeOK, Services, Runtimes

LEMMA ClientFacts ==
  ASSUME HlTypeOK, NEW c \in HubClients
  PROVE  /\ hcl[c] \in ClientStates /\ hcl[c].closed \in BOOLEAN
         /\ hcl[c].bound \in {0} \cup Runtimes /\ hcl[c].sclosed \in BOOLEAN
         /\ hcl[c].con \in {"none", "pending", "ready"}
         /\ hcl[c].tok \in Nat /\ hcl[c].gone \subseteq Nat
         /\ hcl[c].change \in {"none", "connect", "disconnect", "opening"}
         /\ hcl[c].req \in {"none", "runtime", "bound"}
         /\ hcl[c].seen \in {0} \cup Runtimes /\ hcl[c].cmd \subseteq Nat
BY DEF HlTypeOK, ClientStates

LEMMA RuntimeFacts ==
  ASSUME HlTypeOK, NEW r \in Runtimes
  PROVE  /\ hrt[r] \in RuntimeStates /\ hrt[r].closed \in BOOLEAN
         /\ hrt[r].frozen \in BOOLEAN /\ hrt[r].act \subseteq Activities
         /\ hrt[r].jobs \subseteq {"group", "probe", "catalog"}
         /\ hrt[r].down \in {"up", "closing", "down"}
         /\ hrt[r].toClose \subseteq HubClients
         /\ hrt[r].warm \in BOOLEAN /\ hrt[r].failed \in BOOLEAN
BY DEF HlTypeOK, RuntimeStates

(* A client's record, or a runtime's, is replaced.                         *)
LEMMA SetClient ==
  ASSUME HlTypeOK, NEW c \in HubClients, NEW s \in ClientStates,
         hcl' = [hcl EXCEPT ![c] = s]
  PROVE  OnlyClient(c) /\ hcl'[c] = s
BY DEF OnlyClient, HlTypeOK

LEMMA SetRuntime ==
  ASSUME HlTypeOK, NEW r \in Runtimes, NEW s \in RuntimeStates,
         hrt' = [hrt EXCEPT ![r] = s]
  PROVE  OnlyRuntime(r) /\ hrt'[r] = s
BY DEF OnlyRuntime, HlTypeOK

LEMMA ReleaseOne ==
  ASSUME HlTypeOK, NEW r \in Runtimes, NEW S,
         hrt' = [hrt EXCEPT ![r].act = @ \ S]
  PROVE  Releases(S)
<1> DEFINE s == [hrt[r] EXCEPT !.act = @ \ S]
<1>1. s \in RuntimeStates
  BY RuntimeFacts DEF RuntimeStates
<1>2. hrt' = [hrt EXCEPT ![r] = s]
  OBVIOUS
<1>3. /\ s.closed = hrt[r].closed /\ s.frozen = hrt[r].frozen /\ s.jobs = hrt[r].jobs
      /\ s.down = hrt[r].down /\ s.toClose = hrt[r].toClose /\ s.warm = hrt[r].warm
      /\ s.failed = hrt[r].failed /\ s.act = hrt[r].act \ S
  BY RuntimeFacts DEF RuntimeStates
<1> HIDE DEF s
<1>4. OnlyRuntime(r) /\ hrt'[r] = s
  BY <1>1, <1>2, SetRuntime
<1>5. QED BY <1>3, <1>4 DEF OnlyRuntime, Releases, KeepsShutdown

LEMMA ReleaseNone ==
  ASSUME HlTypeOK, NEW S, hrt' = hrt
  PROVE  Releases(S)
BY DEF HlTypeOK, Releases, KeepsShutdown

LEMMA RuntimeSeen ==
  ASSUME HlTypeOK, NEW c \in HubClients, HlRuntime(c),
         hsvc.cur \in Runtimes
  PROVE  /\ OnlyClient(c) /\ hcl'[c].req = "runtime" /\ hcl'[c].seen = hsvc.cur
         /\ KeepsBinding(c) /\ KeepsConnection(c) /\ KeepsCommands(c)
         /\ KeepsChange(c)
<1> DEFINE s == [hcl[c] EXCEPT !.req = "runtime", !.seen = hsvc.cur]
<1>1. s \in ClientStates
  BY ClientFacts DEF ClientStates
<1>2. hcl' = [hcl EXCEPT ![c] = s]
  BY DEF HlRuntime
<1>3. /\ s.req = "runtime" /\ s.seen = hsvc.cur /\ s.closed = hcl[c].closed
      /\ s.bound = hcl[c].bound /\ s.sclosed = hcl[c].sclosed
      /\ s.con = hcl[c].con /\ s.tok = hcl[c].tok /\ s.gone = hcl[c].gone
      /\ s.cmd = hcl[c].cmd /\ s.change = hcl[c].change
  BY ClientFacts DEF ClientStates
<1> HIDE DEF s
<1>4. QED
  BY <1>1, <1>2, <1>3, SetClient
  DEF KeepsRequest, KeepsBinding, KeepsConnection, KeepsCommands, KeepsChange

LEMMA BoundAgain ==
  ASSUME HlTypeOK, NEW c \in HubClients, HlBind(c),
         hcl[c].bound = hcl[c].seen
  PROVE  /\ OnlyClient(c) /\ hcl'[c].req = "bound" /\ hcl'[c].seen = hcl[c].seen
         /\ KeepsBinding(c) /\ KeepsConnection(c) /\ KeepsCommands(c)
         /\ KeepsChange(c)
<1> DEFINE s == [hcl[c] EXCEPT !.req = "bound"]
<1>1. s \in ClientStates
  BY ClientFacts DEF ClientStates
<1>2. hcl' = [hcl EXCEPT ![c] = s]
  BY DEF HlBind
<1>3. /\ s.req = "bound" /\ s.seen = hcl[c].seen /\ s.closed = hcl[c].closed
      /\ s.bound = hcl[c].bound /\ s.sclosed = hcl[c].sclosed
      /\ s.con = hcl[c].con /\ s.tok = hcl[c].tok /\ s.gone = hcl[c].gone
      /\ s.cmd = hcl[c].cmd /\ s.change = hcl[c].change
  BY ClientFacts DEF ClientStates
<1> HIDE DEF s
<1>4. QED
  BY <1>1, <1>2, <1>3, SetClient
  DEF KeepsRequest, KeepsBinding, KeepsConnection, KeepsCommands, KeepsChange

LEMMA BoundAnew ==
  ASSUME HlTypeOK, NEW c \in HubClients, HlBind(c), hcl[c].bound # hcl[c].seen,
         hrt[hcl[c].seen].closed \in BOOLEAN
  PROVE  /\ OnlyClient(c) /\ hcl'[c].req = "bound" /\ hcl'[c].seen = hcl[c].seen
         /\ hcl'[c].closed = hcl[c].closed /\ hcl'[c].bound = hcl[c].seen
         /\ hcl'[c].sclosed = hrt[hcl[c].seen].closed /\ hcl'[c].con = "none"
         /\ hcl'[c].tok = 0 /\ hcl'[c].gone = hcl[c].gone \cup {hcl[c].tok}
         /\ KeepsCommands(c) /\ hcl'[c].change = "none"
<1> DEFINE z == HlClosed(hcl[c])
           shut == hrt[hcl[c].seen].closed
           s == [z EXCEPT !.req = "bound", !.bound = hcl[c].seen, !.sclosed = shut,
                          !.change = "none", !.tok = 0]
<1>1. hcl' = [hcl EXCEPT ![c] = s]
  BY DEF HlBind
<1>2. /\ z \in ClientStates /\ z.con = "none" /\ z.gone = hcl[c].gone \cup {hcl[c].tok}
      /\ z.closed = hcl[c].closed /\ z.seen = hcl[c].seen /\ z.cmd = hcl[c].cmd
  BY ClientFacts DEF ClientStates, HlClosed
<1> HIDE DEF z, shut
<1>3. shut \in BOOLEAN /\ hcl[c].seen \in {0} \cup Runtimes
  BY ClientFacts DEF shut
<1>4. s \in ClientStates
  BY <1>2, <1>3 DEF ClientStates
<1>5. /\ s.req = "bound" /\ s.seen = hcl[c].seen /\ s.closed = hcl[c].closed
      /\ s.bound = hcl[c].seen /\ s.sclosed = shut /\ s.con = "none" /\ s.tok = 0
      /\ s.gone = hcl[c].gone \cup {hcl[c].tok} /\ s.cmd = hcl[c].cmd
      /\ s.change = "none"
  BY <1>2 DEF ClientStates
<1> HIDE DEF s
<1>6. QED
  BY <1>1, <1>4, <1>5, SetClient DEF KeepsCommands, shut

LEMMA Reserved ==
  ASSUME HlTypeOK, NEW c \in HubClients, NEW change \in {"none", "opening"},
         HlReserve(c, change)
  PROVE  /\ OnlyClient(c)
         /\ hcl'[c].req = IF change = "none" THEN "none" ELSE hcl[c].req
         /\ hcl'[c].seen = hcl[c].seen /\ KeepsBinding(c)
         /\ hcl'[c].con = "pending" /\ hcl'[c].tok = htok + 1
         /\ hcl'[c].gone = hcl[c].gone /\ KeepsCommands(c)
         /\ hcl'[c].change = change
<1> DEFINE q == IF change = "none" THEN "none" ELSE hcl[c].req
           n == htok + 1
           s == [hcl[c] EXCEPT !.con = "pending", !.tok = n, !.change = change, !.req = q]
<1>1. hcl' = [hcl EXCEPT ![c] = s]
  BY DEF HlReserve
<1>2. q \in {"none", "runtime", "bound"} /\ n \in Nat
  BY ClientFacts DEF HlTypeOK
<1> HIDE DEF q, n
<1>3. s \in ClientStates
  BY <1>2, ClientFacts DEF ClientStates
<1>4. /\ s.req = q /\ s.seen = hcl[c].seen /\ s.closed = hcl[c].closed
      /\ s.bound = hcl[c].bound /\ s.sclosed = hcl[c].sclosed
      /\ s.con = "pending" /\ s.tok = n /\ s.gone = hcl[c].gone
      /\ s.cmd = hcl[c].cmd /\ s.change = change
  BY ClientFacts DEF ClientStates
<1> HIDE DEF s
<1>5. QED
  BY <1>1, <1>3, <1>4, SetClient DEF KeepsBinding, KeepsCommands, q, n

LEMMA Refused ==
  ASSUME HlTypeOK, NEW c \in HubClients, HlRefused(c)
  PROVE  /\ OnlyClient(c) /\ hcl'[c].req = "none" /\ hcl'[c].seen = hcl[c].seen
         /\ KeepsBinding(c) /\ KeepsConnection(c) /\ KeepsCommands(c)
         /\ KeepsChange(c)
<1> DEFINE s == [hcl[c] EXCEPT !.req = "none"]
<1>1. s \in ClientStates
  BY ClientFacts DEF ClientStates
<1>2. hcl' = [hcl EXCEPT ![c] = s]
  BY DEF HlRefused
<1>3. /\ s.req = "none" /\ s.seen = hcl[c].seen /\ s.closed = hcl[c].closed
      /\ s.bound = hcl[c].bound /\ s.sclosed = hcl[c].sclosed
      /\ s.con = hcl[c].con /\ s.tok = hcl[c].tok /\ s.gone = hcl[c].gone
      /\ s.cmd = hcl[c].cmd /\ s.change = hcl[c].change
  BY ClientFacts DEF ClientStates
<1> HIDE DEF s
<1>4. QED
  BY <1>1, <1>2, <1>3, SetClient
  DEF KeepsRequest, KeepsBinding, KeepsConnection, KeepsCommands, KeepsChange

LEMMA Disconnected ==
  ASSUME HlTypeOK, NEW c \in HubClients, HlDisconnect(c)
  PROVE  /\ OnlyClient(c) /\ hcl'[c].req = "none" /\ hcl'[c].seen = hcl[c].seen
         /\ KeepsBinding(c) /\ hcl'[c].con = "none" /\ hcl'[c].tok = hcl[c].tok
         /\ hcl'[c].gone = hcl[c].gone \cup {hcl[c].tok} /\ KeepsCommands(c)
         /\ KeepsChange(c)
<1> DEFINE s == [hcl[c] EXCEPT !.req = "none",
                 !.con = "none",
                 !.gone = @ \cup {hcl[c].tok}]
<1>1. s \in ClientStates
  BY ClientFacts DEF ClientStates
<1>2. hcl' = [hcl EXCEPT ![c] = s]
  BY DEF HlDisconnect
<1>3. /\ s.req = "none" /\ s.seen = hcl[c].seen /\ s.closed = hcl[c].closed
      /\ s.bound = hcl[c].bound /\ s.sclosed = hcl[c].sclosed
      /\ s.con = "none" /\ s.tok = hcl[c].tok
      /\ s.gone = hcl[c].gone \cup {hcl[c].tok} /\ s.cmd = hcl[c].cmd
      /\ s.change = hcl[c].change
  BY ClientFacts DEF ClientStates
<1> HIDE DEF s
<1>4. QED
  BY <1>1, <1>2, <1>3, SetClient
  DEF KeepsRequest, KeepsBinding, KeepsConnection, KeepsCommands, KeepsChange

LEMMA Changing ==
  ASSUME HlTypeOK, NEW c \in HubClients, HlChange(c)
  PROVE  /\ OnlyClient(c) /\ hcl'[c].req = "none" /\ hcl'[c].seen = hcl[c].seen
         /\ KeepsBinding(c) /\ KeepsConnection(c) /\ KeepsCommands(c)
         /\ hcl'[c].change = IF hcl[c].con = "none" THEN "connect" ELSE "disconnect"
<1> DEFINE s == [hcl[c] EXCEPT !.req = "none",
                 !.change = IF hcl[c].con = "none" THEN "connect" ELSE "disconnect"]
<1>1. s \in ClientStates
  BY ClientFacts DEF ClientStates
<1>2. hcl' = [hcl EXCEPT ![c] = s]
  BY DEF HlChange
<1>3. /\ s.req = "none" /\ s.seen = hcl[c].seen /\ s.closed = hcl[c].closed
      /\ s.bound = hcl[c].bound /\ s.sclosed = hcl[c].sclosed
      /\ s.con = hcl[c].con /\ s.tok = hcl[c].tok /\ s.gone = hcl[c].gone
      /\ s.cmd = hcl[c].cmd
      /\ s.change = IF hcl[c].con = "none" THEN "connect" ELSE "disconnect"
  BY ClientFacts DEF ClientStates
<1> HIDE DEF s
<1>4. QED
  BY <1>1, <1>2, <1>3, SetClient
  DEF KeepsRequest, KeepsBinding, KeepsConnection, KeepsCommands, KeepsChange

LEMMA ChangeOver ==
  ASSUME HlTypeOK, NEW c \in HubClients, HlChangeEnds(c),
         ~(hcl[c].change = "disconnect" /\ hcl[c].con # "none")
  PROVE  /\ OnlyClient(c) /\ KeepsRequest(c) /\ KeepsBinding(c) /\ KeepsCommands(c)
         /\ hcl'[c].change = "none" /\ KeepsConnection(c)
<1> DEFINE s == [hcl[c] EXCEPT !.change = "none"]
<1>1. hcl' = [hcl EXCEPT ![c] = s]
  BY DEF HlChangeEnds
<1>2. /\ s \in ClientStates /\ s.req = hcl[c].req /\ s.seen = hcl[c].seen
      /\ s.closed = hcl[c].closed /\ s.bound = hcl[c].bound
      /\ s.sclosed = hcl[c].sclosed /\ s.con = hcl[c].con
      /\ s.tok = hcl[c].tok /\ s.gone = hcl[c].gone
      /\ s.cmd = hcl[c].cmd /\ s.change = "none"
  BY ClientFacts DEF ClientStates
<1> HIDE DEF s
<1>3. QED
  BY <1>1, <1>2, SetClient DEF KeepsRequest, KeepsBinding, KeepsConnection, KeepsCommands

LEMMA ChangeDropped ==
  ASSUME HlTypeOK, NEW c \in HubClients, HlChangeEnds(c),
         hcl[c].change = "disconnect", hcl[c].con # "none"
  PROVE  /\ OnlyClient(c) /\ KeepsRequest(c) /\ KeepsBinding(c) /\ KeepsCommands(c)
         /\ hcl'[c].change = "none" /\ hcl'[c].con = "none" /\ hcl'[c].tok = hcl[c].tok
         /\ hcl'[c].gone = hcl[c].gone \cup {hcl[c].tok}
<1> DEFINE s == [hcl[c] EXCEPT !.change = "none", !.con = "none", !.gone = @ \cup {hcl[c].tok}]
<1>1. hcl' = [hcl EXCEPT ![c] = s]
  BY DEF HlChangeEnds
<1>2. /\ s \in ClientStates /\ s.req = hcl[c].req /\ s.seen = hcl[c].seen
      /\ s.closed = hcl[c].closed /\ s.bound = hcl[c].bound
      /\ s.sclosed = hcl[c].sclosed /\ s.con = "none"
      /\ s.tok = hcl[c].tok /\ s.gone = hcl[c].gone \cup {hcl[c].tok}
      /\ s.cmd = hcl[c].cmd /\ s.change = "none"
  BY ClientFacts DEF ClientStates
<1> HIDE DEF s
<1>3. QED
  BY <1>1, <1>2, SetClient DEF KeepsRequest, KeepsBinding, KeepsCommands

LEMMA Commanded ==
  ASSUME HlTypeOK, NEW c \in HubClients, HlCommand(c)
  PROVE  /\ OnlyClient(c) /\ hcl'[c].req = "none" /\ hcl'[c].seen = hcl[c].seen
         /\ KeepsBinding(c) /\ KeepsConnection(c)
         /\ hcl'[c].cmd = hcl[c].cmd \cup {hcl[c].tok} /\ KeepsChange(c)
<1> DEFINE s == [hcl[c] EXCEPT !.req = "none", !.cmd = @ \cup {hcl[c].tok}]
<1>1. s \in ClientStates
  BY ClientFacts DEF ClientStates
<1>2. hcl' = [hcl EXCEPT ![c] = s]
  BY DEF HlCommand
<1>3. /\ s.req = "none" /\ s.seen = hcl[c].seen /\ s.closed = hcl[c].closed
      /\ s.bound = hcl[c].bound /\ s.sclosed = hcl[c].sclosed
      /\ s.con = hcl[c].con /\ s.tok = hcl[c].tok /\ s.gone = hcl[c].gone
      /\ s.cmd = hcl[c].cmd \cup {hcl[c].tok} /\ s.change = hcl[c].change
  BY ClientFacts DEF ClientStates
<1> HIDE DEF s
<1>4. QED
  BY <1>1, <1>2, <1>3, SetClient
  DEF KeepsRequest, KeepsBinding, KeepsConnection, KeepsCommands, KeepsChange

LEMMA CommandOver ==
  ASSUME HlTypeOK, NEW c \in HubClients, NEW t, HlCommandEnds(c, t)
  PROVE  /\ OnlyClient(c) /\ KeepsRequest(c) /\ KeepsBinding(c)
         /\ KeepsConnection(c) /\ hcl'[c].cmd = hcl[c].cmd \ {t}
         /\ KeepsChange(c)
<1> DEFINE s == [hcl[c] EXCEPT !.cmd = @ \ {t}]
<1>1. s \in ClientStates
  BY ClientFacts DEF ClientStates
<1>2. hcl' = [hcl EXCEPT ![c] = s]
  BY DEF HlCommandEnds
<1>3. /\ s.req = hcl[c].req /\ s.seen = hcl[c].seen
      /\ s.closed = hcl[c].closed /\ s.bound = hcl[c].bound
      /\ s.sclosed = hcl[c].sclosed /\ s.con = hcl[c].con
      /\ s.tok = hcl[c].tok /\ s.gone = hcl[c].gone
      /\ s.cmd = hcl[c].cmd \ {t} /\ s.change = hcl[c].change
  BY ClientFacts DEF ClientStates
<1> HIDE DEF s
<1>4. QED
  BY <1>1, <1>2, <1>3, SetClient
  DEF KeepsRequest, KeepsBinding, KeepsConnection, KeepsCommands, KeepsChange

LEMMA Grouped ==
  ASSUME HlTypeOK, NEW c \in HubClients, HlGroup(c)
  PROVE  /\ OnlyClient(c) /\ hcl'[c].req = "none" /\ hcl'[c].seen = hcl[c].seen
         /\ KeepsBinding(c) /\ KeepsConnection(c) /\ KeepsCommands(c)
         /\ KeepsChange(c)
<1> DEFINE s == [hcl[c] EXCEPT !.req = "none"]
<1>1. s \in ClientStates
  BY ClientFacts DEF ClientStates
<1>2. hcl' = [hcl EXCEPT ![c] = s]
  BY DEF HlGroup
<1>3. /\ s.req = "none" /\ s.seen = hcl[c].seen /\ s.closed = hcl[c].closed
      /\ s.bound = hcl[c].bound /\ s.sclosed = hcl[c].sclosed
      /\ s.con = hcl[c].con /\ s.tok = hcl[c].tok /\ s.gone = hcl[c].gone
      /\ s.cmd = hcl[c].cmd /\ s.change = hcl[c].change
  BY ClientFacts DEF ClientStates
<1> HIDE DEF s
<1>4. QED
  BY <1>1, <1>2, <1>3, SetClient
  DEF KeepsRequest, KeepsBinding, KeepsConnection, KeepsCommands, KeepsChange

LEMMA StreamEnds ==
  ASSUME HlTypeOK, NEW c \in HubClients, HlEof(c)
  PROVE  /\ OnlyClient(c) /\ hcl'[c].req = "none" /\ hcl'[c].seen = hcl[c].seen
         /\ hcl'[c].closed = TRUE /\ hcl'[c].bound = hcl[c].bound
         /\ hcl'[c].sclosed = TRUE /\ hcl'[c].con = "none"
         /\ hcl'[c].tok = hcl[c].tok
         /\ hcl'[c].gone = hcl[c].gone \cup {hcl[c].tok} /\ KeepsCommands(c)
         /\ KeepsChange(c)
<1> DEFINE s == [hcl[c] EXCEPT !.closed = TRUE,
                 !.sclosed = TRUE,
                 !.con = "none",
                 !.gone = @ \cup {hcl[c].tok},
                 !.req = "none"]
<1>1. s \in ClientStates
  BY ClientFacts DEF ClientStates
<1>2. hcl' = [hcl EXCEPT ![c] = s]
  BY DEF HlEof, HlClosed
<1>3. /\ s.req = "none" /\ s.seen = hcl[c].seen /\ s.closed = TRUE
      /\ s.bound = hcl[c].bound /\ s.sclosed = TRUE /\ s.con = "none"
      /\ s.tok = hcl[c].tok /\ s.gone = hcl[c].gone \cup {hcl[c].tok}
      /\ s.cmd = hcl[c].cmd /\ s.change = hcl[c].change
  BY ClientFacts DEF ClientStates
<1> HIDE DEF s
<1>4. QED
  BY <1>1, <1>2, <1>3, SetClient
  DEF KeepsRequest, KeepsBinding, KeepsConnection, KeepsCommands, KeepsChange

LEMMA SessionClosed ==
  ASSUME HlTypeOK, NEW c \in HubClients, NEW r, HlCloseClient(r, c),
         hcl[c].bound = r
  PROVE  /\ OnlyClient(c) /\ KeepsRequest(c) /\ hcl'[c].closed = hcl[c].closed
         /\ hcl'[c].bound = hcl[c].bound /\ hcl'[c].sclosed = TRUE
         /\ hcl'[c].con = "none" /\ hcl'[c].tok = hcl[c].tok
         /\ hcl'[c].gone = hcl[c].gone \cup {hcl[c].tok} /\ KeepsCommands(c)
         /\ KeepsChange(c)
<1> DEFINE s == [hcl[c] EXCEPT !.sclosed = TRUE,
                 !.con = "none",
                 !.gone = @ \cup {hcl[c].tok}]
<1>1. s \in ClientStates
  BY ClientFacts DEF ClientStates
<1>2. hcl' = [hcl EXCEPT ![c] = s]
  BY DEF HlCloseClient, HlClosed
<1>3. /\ s.req = hcl[c].req /\ s.seen = hcl[c].seen
      /\ s.closed = hcl[c].closed /\ s.bound = hcl[c].bound
      /\ s.sclosed = TRUE /\ s.con = "none" /\ s.tok = hcl[c].tok
      /\ s.gone = hcl[c].gone \cup {hcl[c].tok} /\ s.cmd = hcl[c].cmd
      /\ s.change = hcl[c].change
  BY ClientFacts DEF ClientStates
<1> HIDE DEF s
<1>4. QED
  BY <1>1, <1>2, <1>3, SetClient
  DEF KeepsRequest, KeepsBinding, KeepsConnection, KeepsCommands, KeepsChange

LEMMA OpenWon ==
  ASSUME HlTypeOK, NEW c \in HubClients, NEW t \in Nat, hcl' = [hcl EXCEPT ![c].con = "ready", ![c].tok = t]
  PROVE  /\ OnlyClient(c) /\ KeepsRequest(c) /\ KeepsBinding(c)
         /\ hcl'[c].con = "ready" /\ hcl'[c].tok = t
         /\ hcl'[c].gone = hcl[c].gone /\ KeepsCommands(c) /\ KeepsChange(c)
<1> DEFINE s == [hcl[c] EXCEPT !.con = "ready", !.tok = t]
<1>1. s \in ClientStates
  BY ClientFacts DEF ClientStates
<1>2. hcl' = [hcl EXCEPT ![c] = s]
  OBVIOUS
<1>3. /\ s.req = hcl[c].req /\ s.seen = hcl[c].seen
      /\ s.closed = hcl[c].closed /\ s.bound = hcl[c].bound
      /\ s.sclosed = hcl[c].sclosed /\ s.con = "ready" /\ s.tok = t
      /\ s.gone = hcl[c].gone /\ s.cmd = hcl[c].cmd
      /\ s.change = hcl[c].change
  BY ClientFacts DEF ClientStates
<1> HIDE DEF s
<1>4. QED
  BY <1>1, <1>2, <1>3, SetClient
  DEF KeepsRequest, KeepsBinding, KeepsConnection, KeepsCommands, KeepsChange

LEMMA OpenLost ==
  ASSUME HlTypeOK, NEW c \in HubClients, NEW t \in Nat, hcl' = [hcl EXCEPT ![c].con = "none", ![c].gone = @ \cup {t}]
  PROVE  /\ OnlyClient(c) /\ KeepsRequest(c) /\ KeepsBinding(c)
         /\ hcl'[c].con = "none" /\ hcl'[c].tok = hcl[c].tok
         /\ hcl'[c].gone = hcl[c].gone \cup {t} /\ KeepsCommands(c)
         /\ KeepsChange(c)
<1> DEFINE s == [hcl[c] EXCEPT !.con = "none", !.gone = @ \cup {t}]
<1>1. s \in ClientStates
  BY ClientFacts DEF ClientStates
<1>2. hcl' = [hcl EXCEPT ![c] = s]
  OBVIOUS
<1>3. /\ s.req = hcl[c].req /\ s.seen = hcl[c].seen
      /\ s.closed = hcl[c].closed /\ s.bound = hcl[c].bound
      /\ s.sclosed = hcl[c].sclosed /\ s.con = "none" /\ s.tok = hcl[c].tok
      /\ s.gone = hcl[c].gone \cup {t} /\ s.cmd = hcl[c].cmd
      /\ s.change = hcl[c].change
  BY ClientFacts DEF ClientStates
<1> HIDE DEF s
<1>4. QED
  BY <1>1, <1>2, <1>3, SetClient
  DEF KeepsRequest, KeepsBinding, KeepsConnection, KeepsCommands, KeepsChange

LEMMA Holding ==
  ASSUME HlTypeOK, NEW r \in Runtimes, NEW h \in Activities, HlHold(r, h)
  PROVE  /\ OnlyRuntime(r) /\ KeepsShutdown(r)
         /\ hrt'[r].act = hrt[r].act \cup {h} /\ hrt'[r].jobs = hrt[r].jobs
         /\ hrt'[r].warm = hrt[r].warm /\ hrt'[r].frozen = hrt[r].frozen
<1> DEFINE s == [hrt[r] EXCEPT !.act = @ \cup {h}]
<1>1. s \in RuntimeStates
  BY RuntimeFacts DEF RuntimeStates
<1>2. hrt' = [hrt EXCEPT ![r] = s]
  BY DEF HlHold
<1>3. /\ s.closed = hrt[r].closed /\ s.down = hrt[r].down
      /\ s.toClose = hrt[r].toClose /\ s.failed = hrt[r].failed
      /\ s.act = hrt[r].act \cup {h} /\ s.jobs = hrt[r].jobs
      /\ s.warm = hrt[r].warm /\ s.frozen = hrt[r].frozen
  BY RuntimeFacts DEF RuntimeStates
<1> HIDE DEF s
<1>4. QED
  BY <1>1, <1>2, <1>3, SetRuntime DEF KeepsShutdown

LEMMA GroupHeld ==
  ASSUME HlTypeOK, NEW r \in Runtimes,
         hrt' = [hrt EXCEPT ![r].jobs = @ \cup {"group"}]
  PROVE  /\ OnlyRuntime(r) /\ KeepsShutdown(r) /\ hrt'[r].act = hrt[r].act
         /\ hrt'[r].jobs = hrt[r].jobs \cup {"group"}
         /\ hrt'[r].warm = hrt[r].warm /\ hrt'[r].frozen = hrt[r].frozen
<1> DEFINE s == [hrt[r] EXCEPT !.jobs = @ \cup {"group"}]
<1>1. s \in RuntimeStates
  BY RuntimeFacts DEF RuntimeStates
<1>2. hrt' = [hrt EXCEPT ![r] = s]
  OBVIOUS
<1>3. /\ s.closed = hrt[r].closed /\ s.down = hrt[r].down
      /\ s.toClose = hrt[r].toClose /\ s.failed = hrt[r].failed
      /\ s.act = hrt[r].act /\ s.jobs = hrt[r].jobs \cup {"group"}
      /\ s.warm = hrt[r].warm /\ s.frozen = hrt[r].frozen
  BY RuntimeFacts DEF RuntimeStates
<1> HIDE DEF s
<1>4. QED
  BY <1>1, <1>2, <1>3, SetRuntime DEF KeepsShutdown

LEMMA GroupOver ==
  ASSUME HlTypeOK, NEW r \in Runtimes, HlGroupEnds(r)
  PROVE  /\ OnlyRuntime(r) /\ KeepsShutdown(r) /\ hrt'[r].act = hrt[r].act
         /\ hrt'[r].jobs = hrt[r].jobs \ {"group"} /\ hrt'[r].warm = hrt[r].warm
         /\ hrt'[r].frozen = hrt[r].frozen
<1> DEFINE s == [hrt[r] EXCEPT !.jobs = @ \ {"group"}]
<1>1. s \in RuntimeStates
  BY RuntimeFacts DEF RuntimeStates
<1>2. hrt' = [hrt EXCEPT ![r] = s]
  BY DEF HlGroupEnds
<1>3. /\ s.closed = hrt[r].closed /\ s.down = hrt[r].down
      /\ s.toClose = hrt[r].toClose /\ s.failed = hrt[r].failed
      /\ s.act = hrt[r].act /\ s.jobs = hrt[r].jobs \ {"group"}
      /\ s.warm = hrt[r].warm /\ s.frozen = hrt[r].frozen
  BY RuntimeFacts DEF RuntimeStates
<1> HIDE DEF s
<1>4. QED
  BY <1>1, <1>2, <1>3, SetRuntime DEF KeepsShutdown

LEMMA Probing ==
  ASSUME HlTypeOK, NEW r \in Runtimes,
         hrt' = [hrt EXCEPT ![r].frozen = TRUE, ![r].jobs = @ \cup {"probe"}]
  PROVE  /\ OnlyRuntime(r) /\ KeepsShutdown(r) /\ hrt'[r].act = hrt[r].act
         /\ hrt'[r].jobs = hrt[r].jobs \cup {"probe"}
         /\ hrt'[r].warm = hrt[r].warm /\ hrt'[r].frozen = TRUE
<1> DEFINE s == [hrt[r] EXCEPT !.frozen = TRUE, !.jobs = @ \cup {"probe"}]
<1>1. s \in RuntimeStates
  BY RuntimeFacts DEF RuntimeStates
<1>2. hrt' = [hrt EXCEPT ![r] = s]
  OBVIOUS
<1>3. /\ s.closed = hrt[r].closed /\ s.down = hrt[r].down
      /\ s.toClose = hrt[r].toClose /\ s.failed = hrt[r].failed
      /\ s.act = hrt[r].act /\ s.jobs = hrt[r].jobs \cup {"probe"}
      /\ s.warm = hrt[r].warm /\ s.frozen = TRUE
  BY RuntimeFacts DEF RuntimeStates
<1> HIDE DEF s
<1>4. QED
  BY <1>1, <1>2, <1>3, SetRuntime DEF KeepsShutdown

LEMMA Listing ==
  ASSUME HlTypeOK, NEW r \in Runtimes,
         hrt' = [hrt EXCEPT ![r].frozen = FALSE, ![r].jobs = @ \cup {"catalog"}]
  PROVE  /\ OnlyRuntime(r) /\ KeepsShutdown(r) /\ hrt'[r].act = hrt[r].act
         /\ hrt'[r].jobs = hrt[r].jobs \cup {"catalog"}
         /\ hrt'[r].warm = hrt[r].warm /\ hrt'[r].frozen = FALSE
<1> DEFINE s == [hrt[r] EXCEPT !.frozen = FALSE, !.jobs = @ \cup {"catalog"}]
<1>1. s \in RuntimeStates
  BY RuntimeFacts DEF RuntimeStates
<1>2. hrt' = [hrt EXCEPT ![r] = s]
  OBVIOUS
<1>3. /\ s.closed = hrt[r].closed /\ s.down = hrt[r].down
      /\ s.toClose = hrt[r].toClose /\ s.failed = hrt[r].failed
      /\ s.act = hrt[r].act /\ s.jobs = hrt[r].jobs \cup {"catalog"}
      /\ s.warm = hrt[r].warm /\ s.frozen = FALSE
  BY RuntimeFacts DEF RuntimeStates
<1> HIDE DEF s
<1>4. QED
  BY <1>1, <1>2, <1>3, SetRuntime DEF KeepsShutdown

LEMMA ProbeOver ==
  ASSUME HlTypeOK, NEW r \in Runtimes,
         hrt' = [hrt EXCEPT ![r].jobs = @ \ {"probe"}, ![r].frozen = FALSE]
  PROVE  /\ OnlyRuntime(r) /\ KeepsShutdown(r) /\ hrt'[r].act = hrt[r].act
         /\ hrt'[r].jobs = hrt[r].jobs \ {"probe"} /\ hrt'[r].warm = hrt[r].warm
         /\ hrt'[r].frozen = FALSE
<1> DEFINE s == [hrt[r] EXCEPT !.jobs = @ \ {"probe"}, !.frozen = FALSE]
<1>1. s \in RuntimeStates
  BY RuntimeFacts DEF RuntimeStates
<1>2. hrt' = [hrt EXCEPT ![r] = s]
  OBVIOUS
<1>3. /\ s.closed = hrt[r].closed /\ s.down = hrt[r].down
      /\ s.toClose = hrt[r].toClose /\ s.failed = hrt[r].failed
      /\ s.act = hrt[r].act /\ s.jobs = hrt[r].jobs \ {"probe"}
      /\ s.warm = hrt[r].warm /\ s.frozen = FALSE
  BY RuntimeFacts DEF RuntimeStates
<1> HIDE DEF s
<1>4. QED
  BY <1>1, <1>2, <1>3, SetRuntime DEF KeepsShutdown

LEMMA ListOver ==
  ASSUME HlTypeOK, NEW r \in Runtimes,
         hrt' = [hrt EXCEPT ![r].jobs = @ \ {"catalog"}]
  PROVE  /\ OnlyRuntime(r) /\ KeepsShutdown(r) /\ hrt'[r].act = hrt[r].act
         /\ hrt'[r].jobs = hrt[r].jobs \ {"catalog"}
         /\ hrt'[r].warm = hrt[r].warm /\ hrt'[r].frozen = hrt[r].frozen
<1> DEFINE s == [hrt[r] EXCEPT !.jobs = @ \ {"catalog"}]
<1>1. s \in RuntimeStates
  BY RuntimeFacts DEF RuntimeStates
<1>2. hrt' = [hrt EXCEPT ![r] = s]
  OBVIOUS
<1>3. /\ s.closed = hrt[r].closed /\ s.down = hrt[r].down
      /\ s.toClose = hrt[r].toClose /\ s.failed = hrt[r].failed
      /\ s.act = hrt[r].act /\ s.jobs = hrt[r].jobs \ {"catalog"}
      /\ s.warm = hrt[r].warm /\ s.frozen = hrt[r].frozen
  BY RuntimeFacts DEF RuntimeStates
<1> HIDE DEF s
<1>4. QED
  BY <1>1, <1>2, <1>3, SetRuntime DEF KeepsShutdown

LEMMA ShutDown ==
  ASSUME HlTypeOK, NEW r \in Runtimes, HlShutDown(r)
  PROVE  /\ OnlyRuntime(r) /\ hrt'[r].closed = TRUE /\ hrt'[r].down = "closing"
         /\ hrt'[r].toClose = {c \in HubClients : hcl[c].bound = r}
         /\ hrt'[r].failed = hrt[r].failed /\ KeepsUse(r)
         /\ hrt'[r].frozen = hrt[r].frozen
<1> DEFINE T == {c \in HubClients : hcl[c].bound = r}
<1>types. T \subseteq HubClients /\ hrt' = [hrt EXCEPT ![r].closed = TRUE, ![r].down = "closing",
                                                ![r].toClose = T]
  BY DEF HlShutDown
<1>1. SUFFICES ASSUME NEW U, U = T
               PROVE  /\ OnlyRuntime(r) /\ hrt'[r].closed = TRUE /\ hrt'[r].down = "closing"
                      /\ hrt'[r].toClose = U
                      /\ hrt'[r].failed = hrt[r].failed /\ KeepsUse(r)
                      /\ hrt'[r].frozen = hrt[r].frozen
  OBVIOUS
<1> HIDE DEF T
<1> DEFINE s == [hrt[r] EXCEPT !.closed = TRUE, !.down = "closing", !.toClose = T]
<1>2. s \in RuntimeStates
  BY <1>types, RuntimeFacts DEF RuntimeStates
<1>3. hrt' = [hrt EXCEPT ![r] = s]
  BY <1>types
<1>4. /\ s.closed = TRUE /\ s.down = "closing" /\ s.toClose = T
      /\ s.failed = hrt[r].failed /\ s.act = hrt[r].act
      /\ s.jobs = hrt[r].jobs /\ s.warm = hrt[r].warm
      /\ s.frozen = hrt[r].frozen
  BY RuntimeFacts DEF RuntimeStates
<1> HIDE DEF s
<1>5. QED
  BY <1>1, <1>2, <1>3, <1>4, SetRuntime DEF KeepsUse

LEMMA Fails ==
  ASSUME HlTypeOK, NEW r \in Runtimes,
         hrt' = [hrt EXCEPT ![r].down = "down", ![r].failed = TRUE]
  PROVE  /\ OnlyRuntime(r) /\ hrt'[r].closed = hrt[r].closed
         /\ hrt'[r].down = "down" /\ hrt'[r].toClose = hrt[r].toClose
         /\ hrt'[r].failed = TRUE /\ KeepsUse(r)
         /\ hrt'[r].frozen = hrt[r].frozen
<1> DEFINE s == [hrt[r] EXCEPT !.down = "down", !.failed = TRUE]
<1>1. s \in RuntimeStates
  BY RuntimeFacts DEF RuntimeStates
<1>2. hrt' = [hrt EXCEPT ![r] = s]
  OBVIOUS
<1>3. /\ s.closed = hrt[r].closed /\ s.down = "down"
      /\ s.toClose = hrt[r].toClose /\ s.failed = TRUE /\ s.act = hrt[r].act
      /\ s.jobs = hrt[r].jobs /\ s.warm = hrt[r].warm
      /\ s.frozen = hrt[r].frozen
  BY RuntimeFacts DEF RuntimeStates
<1> HIDE DEF s
<1>4. QED
  BY <1>1, <1>2, <1>3, SetRuntime DEF KeepsUse

LEMMA GoesDown ==
  ASSUME HlTypeOK, NEW r \in Runtimes, hrt' = [hrt EXCEPT ![r].down = "down", ![r].failed = FALSE, ![r].warm = FALSE]
  PROVE  /\ OnlyRuntime(r) /\ hrt'[r].closed = hrt[r].closed
         /\ hrt'[r].down = "down" /\ hrt'[r].toClose = hrt[r].toClose
         /\ hrt'[r].failed = FALSE /\ hrt'[r].act = hrt[r].act
         /\ hrt'[r].jobs = hrt[r].jobs /\ hrt'[r].warm = FALSE
         /\ hrt'[r].frozen = hrt[r].frozen
<1> DEFINE s == [hrt[r] EXCEPT !.down = "down",
                 !.failed = FALSE,
                 !.warm = FALSE]
<1>1. s \in RuntimeStates
  BY RuntimeFacts DEF RuntimeStates
<1>2. hrt' = [hrt EXCEPT ![r] = s]
  OBVIOUS
<1>3. /\ s.closed = hrt[r].closed /\ s.down = "down"
      /\ s.toClose = hrt[r].toClose /\ s.failed = FALSE /\ s.act = hrt[r].act
      /\ s.jobs = hrt[r].jobs /\ s.warm = FALSE /\ s.frozen = hrt[r].frozen
  BY RuntimeFacts DEF RuntimeStates
<1> HIDE DEF s
<1>4. QED
  BY <1>1, <1>2, <1>3, SetRuntime

LEMMA ClientClosed ==
  ASSUME HlTypeOK, NEW r \in Runtimes, NEW c \in HubClients, HlCloseClient(r, c)
  PROVE  /\ OnlyRuntime(r) /\ hrt'[r].closed = hrt[r].closed
         /\ hrt'[r].down = hrt[r].down /\ hrt'[r].toClose = hrt[r].toClose \ {c}
         /\ hrt'[r].failed = hrt[r].failed
         /\ hrt'[r].act = IF hcl[c].bound = r THEN hrt[r].act \ HlDropped(c) ELSE hrt[r].act
         /\ hrt'[r].jobs = hrt[r].jobs /\ hrt'[r].warm = hrt[r].warm
         /\ hrt'[r].frozen = hrt[r].frozen
<1> DEFINE a == IF hcl[c].bound = r THEN hrt[r].act \ HlDropped(c) ELSE hrt[r].act
           s == [hrt[r] EXCEPT !.toClose = @ \ {c},
                 !.act = a]
<1>1. hrt' = [hrt EXCEPT ![r] = s]
  BY DEF HlCloseClient
<1>2. a \subseteq Activities
  BY RuntimeFacts
<1> HIDE DEF a
<1>3. s \in RuntimeStates
  BY <1>2, RuntimeFacts DEF RuntimeStates
<1>4. /\ s.closed = hrt[r].closed /\ s.down = hrt[r].down
      /\ s.toClose = hrt[r].toClose \ {c} /\ s.failed = hrt[r].failed
      /\ s.act = a
      /\ s.jobs = hrt[r].jobs /\ s.warm = hrt[r].warm
      /\ s.frozen = hrt[r].frozen
  BY RuntimeFacts DEF RuntimeStates
<1> HIDE DEF s
<1>5. QED
  BY <1>3, <1>1, <1>4, SetRuntime DEF a

LEMMA Freezes ==
  ASSUME HlTypeOK, NEW r \in Runtimes, NEW b \in BOOLEAN,
         hrt' = [hrt EXCEPT ![r].frozen = b]
  PROVE  /\ OnlyRuntime(r) /\ KeepsShutdown(r) /\ KeepsUse(r)
         /\ hrt'[r].frozen = b
<1> DEFINE s == [hrt[r] EXCEPT !.frozen = b]
<1>1. s \in RuntimeStates
  BY RuntimeFacts DEF RuntimeStates
<1>2. hrt' = [hrt EXCEPT ![r] = s]
  OBVIOUS
<1>3. /\ s.closed = hrt[r].closed /\ s.down = hrt[r].down
      /\ s.toClose = hrt[r].toClose /\ s.failed = hrt[r].failed
      /\ s.act = hrt[r].act /\ s.jobs = hrt[r].jobs /\ s.warm = hrt[r].warm
      /\ s.frozen = b
  BY RuntimeFacts DEF RuntimeStates
<1> HIDE DEF s
<1>4. QED
  BY <1>1, <1>2, <1>3, SetRuntime DEF KeepsShutdown, KeepsUse

LEMMA Warms ==
  ASSUME HlTypeOK, NEW r \in Runtimes, NEW b \in BOOLEAN,
         hrt' = [hrt EXCEPT ![r].warm = b]
  PROVE  /\ OnlyRuntime(r) /\ KeepsShutdown(r) /\ hrt'[r].act = hrt[r].act
         /\ hrt'[r].jobs = hrt[r].jobs /\ hrt'[r].warm = b
         /\ hrt'[r].frozen = hrt[r].frozen
<1> DEFINE s == [hrt[r] EXCEPT !.warm = b]
<1>1. s \in RuntimeStates
  BY RuntimeFacts DEF RuntimeStates
<1>2. hrt' = [hrt EXCEPT ![r] = s]
  OBVIOUS
<1>3. /\ s.closed = hrt[r].closed /\ s.down = hrt[r].down
      /\ s.toClose = hrt[r].toClose /\ s.failed = hrt[r].failed
      /\ s.act = hrt[r].act /\ s.jobs = hrt[r].jobs /\ s.warm = b
      /\ s.frozen = hrt[r].frozen
  BY RuntimeFacts DEF RuntimeStates
<1> HIDE DEF s
<1>4. QED
  BY <1>1, <1>2, <1>3, SetRuntime DEF KeepsShutdown

LEMMA OpeningOver ==
  ASSUME HlTypeOK, NEW r \in Runtimes, NEW h, NEW b \in BOOLEAN,
         hrt' = [hrt EXCEPT ![r].act = @ \ {h}, ![r].warm = b]
  PROVE  /\ OnlyRuntime(r) /\ KeepsShutdown(r) /\ hrt'[r].act = hrt[r].act \ {h}
         /\ hrt'[r].jobs = hrt[r].jobs /\ hrt'[r].warm = b
         /\ hrt'[r].frozen = hrt[r].frozen
<1> DEFINE s == [hrt[r] EXCEPT !.act = @ \ {h}, !.warm = b]
<1>1. s \in RuntimeStates
  BY RuntimeFacts DEF RuntimeStates
<1>2. hrt' = [hrt EXCEPT ![r] = s]
  OBVIOUS
<1>3. /\ s.closed = hrt[r].closed /\ s.down = hrt[r].down
      /\ s.toClose = hrt[r].toClose /\ s.failed = hrt[r].failed
      /\ s.act = hrt[r].act \ {h} /\ s.jobs = hrt[r].jobs /\ s.warm = b
      /\ s.frozen = hrt[r].frozen
  BY RuntimeFacts DEF RuntimeStates
<1> HIDE DEF s
<1>4. QED
  BY <1>1, <1>2, <1>3, SetRuntime DEF KeepsShutdown

LEMMA CommandReleases ==
  ASSUME HlTypeOK, NEW c \in HubClients, NEW t, HlCommandEnds(c, t)
  PROVE  /\ Releases({<<c, t>>})
         /\ hcl[c].con = "ready" /\ hcl[c].tok = t => hrt' = hrt
<1>1. CASE hcl[c].con = "ready" /\ hcl[c].tok = t
  BY <1>1, ReleaseNone DEF HlCommandEnds
<1>2. CASE ~(hcl[c].con = "ready" /\ hcl[c].tok = t)
  <2> DEFINE s(r) == [hrt[r] EXCEPT !.act = @ \ {<<c, t>>}]
  <2>1. ASSUME NEW r \in Runtimes
        PROVE  /\ s(r) \in RuntimeStates
               /\ s(r).closed = hrt[r].closed /\ s(r).frozen = hrt[r].frozen
               /\ s(r).jobs = hrt[r].jobs /\ s(r).down = hrt[r].down
               /\ s(r).toClose = hrt[r].toClose /\ s(r).warm = hrt[r].warm
               /\ s(r).failed = hrt[r].failed /\ s(r).act = hrt[r].act \ {<<c, t>>}
    BY RuntimeFacts DEF RuntimeStates
  <2>2. hrt' = [r \in Runtimes |-> s(r)]
    BY <1>2 DEF HlCommandEnds
  <2> HIDE DEF s
  <2>3. QED
    BY <1>2, <2>1, <2>2 DEF Releases, KeepsShutdown
<1>3. QED BY <1>1, <1>2

(* Who asks, connects or changes is bound to a runtime.                    *)
LEMMA BoundFacts ==
  ASSUME HlIInv, NEW c \in HubClients
  PROVE  /\ hcl[c].req = "bound" => hcl[c].bound \in Runtimes
         /\ hcl[c].req = "runtime" => hcl[c].seen \in Runtimes
         /\ hcl[c].change # "none" => hcl[c].bound \in Runtimes
         /\ hcl[c].con # "none" => hcl[c].bound \in Runtimes
         /\ hcl[c].bound # 0 => hcl[c].bound \in Runtimes
BY ClientFacts DEF HlIInv, BindingInv, BindingOK, ConnectionInv, ConnectionOK

LEMMA OpenFacts ==
  ASSUME HlTypeOK, NEW o \in hopens
  PROVE  /\ o[1] \in HubClients /\ o[2] \in Nat /\ o[3] \in Runtimes
         /\ o = <<o[1], o[2], o[3]>>
BY DEF HlTypeOK

(* What a client's action gives back.                                      *)
LEMMA BindReleases ==
  ASSUME HlIInv, NEW c \in HubClients, HlBind(c)
  PROVE  Releases(HlDropped(c))
<1>1. HlTypeOK
  BY DEF HlIInv
<1>2. CASE hrt' = hrt
  BY <1>1, <1>2, ReleaseNone
<1>3. CASE hrt' # hrt
  <2>1. hcl[c].bound # 0 /\ hrt' = [hrt EXCEPT ![hcl[c].bound].act = @ \ HlDropped(c)]
    BY <1>3 DEF HlBind
  <2>2. hcl[c].bound \in Runtimes
    BY <2>1, BoundFacts
  <2>3. QED BY <1>1, <2>1, <2>2, ReleaseOne
<1>4. QED BY <1>2, <1>3

LEMMA DisconnectReleases ==
  ASSUME HlIInv, NEW c \in HubClients, HlDisconnect(c)
  PROVE  Releases(HlDropped(c))
<1>1. HlTypeOK
  BY DEF HlIInv
<1>2. hcl[c].bound \in Runtimes
  BY BoundFacts DEF HlDisconnect
<1>3. hrt' = [hrt EXCEPT ![hcl[c].bound].act = @ \ HlDropped(c)]
  BY DEF HlDisconnect
<1>4. QED BY <1>1, <1>2, <1>3, ReleaseOne

LEMMA EofReleases ==
  ASSUME HlIInv, NEW c \in HubClients, HlEof(c)
  PROVE  Releases(HlDropped(c))
<1>1. HlTypeOK
  BY DEF HlIInv
<1>2. CASE hrt' = hrt
  BY <1>1, <1>2, ReleaseNone
<1>3. CASE hrt' # hrt
  <2>1. hcl[c].bound # 0 /\ hrt' = [hrt EXCEPT ![hcl[c].bound].act = @ \ HlDropped(c)]
    BY <1>3 DEF HlEof
  <2>2. hcl[c].bound \in Runtimes
    BY <2>1, BoundFacts
  <2>3. QED BY <1>1, <2>1, <2>2, ReleaseOne
<1>4. QED BY <1>2, <1>3

LEMMA ChangeReleases ==
  ASSUME HlIInv, NEW c \in HubClients, HlChangeEnds(c)
  PROVE  Releases({<<c, 0>>} \cup HlDropped(c))
<1> DEFINE S == {<<c, 0>>} \cup HlDropped(c)
<1>1. HlTypeOK
  BY DEF HlIInv
<1>2. hcl[c].change # "none"
  BY DEF HlChangeEnds
<1>3. hcl[c].bound \in Runtimes
  BY <1>2, BoundFacts
<1>4. CASE hcl[c].change = "disconnect" /\ hcl[c].con # "none"
  <2>1. hrt' = [hrt EXCEPT ![hcl[c].bound].act = @ \ S]
    BY <1>4 DEF HlChangeEnds
  <2> HIDE DEF S
  <2>2. Releases(S)
    BY <1>1, <1>3, <2>1, ReleaseOne
  <2>3. QED BY <2>2 DEF S
<1>5. CASE ~(hcl[c].change = "disconnect" /\ hcl[c].con # "none")
  <2>1. hrt' = [hrt EXCEPT ![hcl[c].bound].act = @ \ {<<c, 0>>}]
    BY <1>5 DEF HlChangeEnds
  <2>2. Releases({<<c, 0>>})
    BY <1>1, <1>3, <2>1, ReleaseOne
  <2>3. QED BY <2>2 DEF Releases
<1>6. QED BY <1>4, <1>5

(* A reservation: a new token, an attempt and the activity for it.         *)
LEMMA ReserveFacts ==
  ASSUME HlIInv, NEW c \in HubClients, NEW change \in {"none", "opening"},
         HlReserve(c, change), hcl[c].bound \in Runtimes
  PROVE  /\ htok' = htok + 1 /\ htok + 1 \in Nat
         /\ hopens' = hopens \cup {<<c, htok + 1, hcl[c].bound>>}
         /\ OnlyRuntime(hcl[c].bound) /\ KeepsShutdown(hcl[c].bound)
         /\ hrt'[hcl[c].bound].act = hrt[hcl[c].bound].act \cup {<<c, htok + 1>>}
         /\ hrt'[hcl[c].bound].jobs = hrt[hcl[c].bound].jobs
         /\ hrt'[hcl[c].bound].warm = hrt[hcl[c].bound].warm
         /\ hrt'[hcl[c].bound].frozen = hrt[hcl[c].bound].frozen
<1>1. HlTypeOK
  BY DEF HlIInv
<1>2. /\ htok' = htok + 1 /\ htok + 1 \in Nat
      /\ hopens' = hopens \cup {<<c, htok + 1, hcl[c].bound>>}
  BY <1>1 DEF HlReserve, HlTypeOK
<1>3. HlHold(hcl[c].bound, <<c, htok + 1>>) /\ <<c, htok + 1>> \in Activities
  BY <1>2 DEF HlReserve, Activities
<1>4. QED BY <1>1, <1>2, <1>3, Holding

LEMMA BindCases ==
  ASSUME HlIInv, NEW c \in HubClients, HlBind(c)
  PROVE  /\ hcl[c].req = "runtime" /\ hcl[c].seen \in Runtimes
         /\ hrt[hcl[c].seen].closed \in BOOLEAN
BY BoundFacts, RuntimeFacts DEF HlBind, HlIInv

(* An attempt that is still wanted becomes the connection, or it does not. *)
OpenSucceeds(o) ==
  /\ StillWanted(o) /\ hopens' = hopens \ {o}
  /\ OnlyClient(o[1]) /\ KeepsRequest(o[1]) /\ KeepsBinding(o[1])
  /\ KeepsCommands(o[1]) /\ KeepsChange(o[1])
  /\ hcl'[o[1]].con = "ready" /\ hcl'[o[1]].tok = o[2]
  /\ hcl'[o[1]].gone = hcl[o[1]].gone
  /\ OnlyRuntime(o[3]) /\ KeepsShutdown(o[3]) /\ hrt'[o[3]].frozen = hrt[o[3]].frozen
  /\ hrt'[o[3]].act = hrt[o[3]].act /\ hrt'[o[3]].jobs = hrt[o[3]].jobs

OpenFails(o) ==
  /\ hopens' = hopens \ {o}
  /\ OnlyClient(o[1]) /\ KeepsRequest(o[1]) /\ KeepsBinding(o[1])
  /\ KeepsCommands(o[1]) /\ KeepsChange(o[1])
  /\ IF StillWanted(o)
     THEN /\ hcl'[o[1]].con = "none" /\ hcl'[o[1]].tok = hcl[o[1]].tok
          /\ hcl'[o[1]].gone = hcl[o[1]].gone \cup {o[2]}
     ELSE hcl' = hcl
  /\ OnlyRuntime(o[3]) /\ KeepsShutdown(o[3]) /\ hrt'[o[3]].frozen = hrt[o[3]].frozen
  /\ hrt'[o[3]].act = hrt[o[3]].act \ {<<o[1], o[2]>>}
  /\ hrt'[o[3]].jobs = hrt[o[3]].jobs

LEMMA OpenedCases ==
  ASSUME HlIInv, NEW o \in hopens, HlOpened(o)
  PROVE  OpenSucceeds(o) \/ OpenFails(o)
<1>1. HlTypeOK /\ o[1] \in HubClients /\ o[2] \in Nat /\ o[3] \in Runtimes
  BY OpenFacts DEF HlIInv
<1>2. hopens' = hopens \ {o}
  BY DEF HlOpened
<1>3. CASE /\ StillWanted(o)
           /\ hcl' = [hcl EXCEPT ![o[1]].con = "ready", ![o[1]].tok = o[2]]
           /\ hrt' = [hrt EXCEPT ![o[3]].warm = TRUE]
  BY <1>1, <1>2, <1>3, OpenWon, Warms DEF OpenSucceeds
<1>4. CASE /\ hcl' = IF StillWanted(o)
                     THEN [hcl EXCEPT ![o[1]].con = "none", ![o[1]].gone = @ \cup {o[2]}]
                     ELSE hcl
           /\ \E w \in {hrt[o[3]].warm, hrt[o[3]].down # "down"} :
                hrt' = [hrt EXCEPT ![o[3]].act = @ \ {<<o[1], o[2]>>}, ![o[3]].warm = w]
  <2>1. PICK w \in BOOLEAN :
          hrt' = [hrt EXCEPT ![o[3]].act = @ \ {<<o[1], o[2]>>}, ![o[3]].warm = w]
    BY <1>1, <1>4, RuntimeFacts
  <2>2. /\ OnlyRuntime(o[3]) /\ KeepsShutdown(o[3]) /\ hrt'[o[3]].frozen = hrt[o[3]].frozen
        /\ hrt'[o[3]].act = hrt[o[3]].act \ {<<o[1], o[2]>>}
        /\ hrt'[o[3]].jobs = hrt[o[3]].jobs
    BY <1>1, <2>1, OpeningOver
  <2>3. CASE StillWanted(o)
    <3>1. hcl' = [hcl EXCEPT ![o[1]].con = "none", ![o[1]].gone = @ \cup {o[2]}]
      BY <1>4, <2>3
    <3>2. QED BY <1>1, <1>2, <2>2, <2>3, <3>1, OpenLost DEF OpenFails
  <2>4. CASE ~StillWanted(o)
    <3>1. hcl' = hcl
      BY <1>4, <2>4
    <3>2. QED
      BY <1>1, <1>2, <2>2, <2>4, <3>1 DEF OpenFails, HlTypeOK, OnlyClient, KeepsRequest,
         KeepsBinding, KeepsCommands, KeepsChange
  <2>5. QED BY <2>3, <2>4
<1>5. QED BY <1>3, <1>4 DEF HlOpened

LEMMA ThawFacts ==
  ASSUME HlTypeOK, hrt' = HlThaw
  PROVE  /\ OnlyRuntime(hsvc.cur) /\ KeepsShutdown(hsvc.cur) /\ KeepsUse(hsvc.cur)
         /\ hrt'[hsvc.cur].frozen = FALSE
BY ServiceFacts, Freezes DEF HlThaw

(* What a discovery and its end do.                                        *)
LEMMA DiscoverFacts ==
  ASSUME HlTypeOK, NEW native \in BOOLEAN, HlDiscover(native)
  PROVE  /\ OnlyRuntime(hsvc.cur) /\ KeepsShutdown(hsvc.cur)
         /\ hrt'[hsvc.cur].frozen = native /\ hrt'[hsvc.cur].act = hrt[hsvc.cur].act
         /\ hrt'[hsvc.cur].jobs =
              hrt[hsvc.cur].jobs \cup {IF native THEN "probe" ELSE "catalog"}
         /\ hrt'[hsvc.cur].warm = hrt[hsvc.cur].warm
<1>1. hsvc.cur \in Runtimes
  BY ServiceFacts
<1>2. CASE native = TRUE
  <2>1. hrt' = [hrt EXCEPT ![hsvc.cur].frozen = TRUE,
                           ![hsvc.cur].jobs = @ \cup {"probe"}]
    BY <1>2 DEF HlDiscover
  <2>2. QED BY <1>1, <1>2, <2>1, Probing
<1>3. CASE native = FALSE
  <2>1. hrt' = [hrt EXCEPT ![hsvc.cur].frozen = FALSE,
                           ![hsvc.cur].jobs = @ \cup {"catalog"}]
    BY <1>3 DEF HlDiscover
  <2>2. QED BY <1>1, <1>3, <2>1, Listing
<1>4. QED BY <1>2, <1>3

LEMMA DiscoveredFacts ==
  ASSUME HlTypeOK, NEW r \in Runtimes, HlDiscovered(r)
  PROVE  /\ OnlyRuntime(r) /\ KeepsShutdown(r) /\ hrt'[r].act = hrt[r].act
         /\ hrt'[r].warm = hrt[r].warm
         /\ \/ "probe" \in hrt[r].jobs /\ hrt'[r].jobs = hrt[r].jobs \ {"probe"}
            \/ hrt'[r].jobs = hrt[r].jobs \ {"catalog"} /\ hrt'[r].frozen = hrt[r].frozen
BY ProbeOver, ListOver DEF HlDiscovered

LEMMA DownFacts ==
  ASSUME HlTypeOK, NEW r \in Runtimes, HlDown(r)
  PROVE  /\ OnlyRuntime(r) /\ hrt'[r].down = "down" /\ hrt'[r].closed = hrt[r].closed
         /\ hrt'[r].toClose = hrt[r].toClose /\ hrt'[r].act = hrt[r].act
         /\ hrt'[r].jobs = hrt[r].jobs /\ hrt'[r].frozen = hrt[r].frozen
         /\ hrt'[r].warm = hrt[r].warm \/ hrt'[r].warm = FALSE
<1>1. CASE hrt' = [hrt EXCEPT ![r].down = "down", ![r].failed = TRUE]
  BY <1>1, Fails DEF KeepsUse
<1>2. CASE hrt' = [hrt EXCEPT ![r].down = "down", ![r].failed = FALSE, ![r].warm = FALSE]
  <2>1. /\ OnlyRuntime(r) /\ hrt'[r].closed = hrt[r].closed /\ hrt'[r].down = "down"
        /\ hrt'[r].toClose = hrt[r].toClose /\ hrt'[r].act = hrt[r].act
        /\ hrt'[r].jobs = hrt[r].jobs /\ hrt'[r].warm = FALSE
        /\ hrt'[r].frozen = hrt[r].frozen
    BY <1>2, GoesDown, Zenon
  <2>2. QED BY <2>1
<1>3. QED BY <1>1, <1>2 DEF HlDown

LEMMA QuiesceFacts ==
  ASSUME HlTypeOK, HlQuiesce
  PROVE  \/ /\ hsvc.phase = "ready" /\ HlQuiescent(hsvc.cur)
            /\ happ' = "quiesced" /\ hsvc' = hsvc
            /\ OnlyRuntime(hsvc.cur) /\ KeepsShutdown(hsvc.cur) /\ KeepsUse(hsvc.cur)
            /\ hrt'[hsvc.cur].frozen = TRUE
         \/ happ' = "idle" /\ hsvc' = [hsvc EXCEPT !.lock = "free"] /\ hrt' = hrt
BY ServiceFacts, Freezes DEF HlQuiesce

LEMMA ClientsTyped ==
  ASSUME HlIInv, HlNext
  PROVE  hcl' \in [HubClients -> ClientStates]
<1>1. HlTypeOK
  BY DEF HlIInv
<1>2. CASE hcl' = hcl
  BY <1>1, <1>2 DEF HlTypeOK
<1>3. ASSUME NEW c \in HubClients, HlClientStep(c)
      PROVE  hcl' \in [HubClients -> ClientStates]
  <2>1. CASE HlRuntime(c)
    BY <1>1, <2>1, ServiceFacts, RuntimeSeen DEF OnlyClient
  <2>2. CASE HlBind(c)
    BY <1>1, <2>2, BindCases, BoundAgain, BoundAnew DEF OnlyClient
  <2>3. CASE HlConnect(c)
    BY <1>1, <2>3, Reserved DEF HlConnect, OnlyClient
  <2>4. CASE HlRefused(c)
    BY <1>1, <2>4, Refused DEF OnlyClient
  <2>5. CASE HlDisconnect(c)
    BY <1>1, <2>5, Disconnected DEF OnlyClient
  <2>6. CASE HlChange(c)
    BY <1>1, <2>6, Changing DEF OnlyClient
  <2>7. CASE HlChangeConnects(c)
    BY <1>1, <2>7, Reserved DEF HlChangeConnects, OnlyClient
  <2>8. CASE HlChangeEnds(c)
    BY <1>1, <2>8, ChangeOver, ChangeDropped DEF OnlyClient
  <2>9. CASE HlCommand(c)
    BY <1>1, <2>9, Commanded DEF OnlyClient
  <2>10. CASE HlGroup(c)
    BY <1>1, <2>10, Grouped DEF OnlyClient
  <2>11. CASE HlEof(c)
    BY <1>1, <2>11, StreamEnds DEF OnlyClient
  <2>12. ASSUME NEW t \in hcl[c].cmd, HlCommandEnds(c, t)
         PROVE  hcl' \in [HubClients -> ClientStates]
    BY <1>1, <2>12, CommandOver DEF OnlyClient
  <2>13. QED
    BY <1>3, <2>1, <2>2, <2>3, <2>4, <2>5, <2>6, <2>7, <2>8, <2>9, <2>10, <2>11, <2>12
    DEF HlClientStep
<1>4. ASSUME NEW o \in hopens, HlOpened(o)
      PROVE  hcl' \in [HubClients -> ClientStates]
  BY <1>4, OpenedCases DEF OpenSucceeds, OpenFails, OnlyClient
<1>5. ASSUME NEW r \in Runtimes, NEW c \in HubClients, HlCloseClient(r, c)
      PROVE  hcl' \in [HubClients -> ClientStates]
  <2>1. CASE hcl[c].bound = r
    BY <1>1, <1>5, <2>1, SessionClosed DEF OnlyClient
  <2>2. CASE hcl[c].bound # r
    BY <1>1, <1>5, <2>2 DEF HlCloseClient, HlTypeOK
  <2>3. QED BY <2>1, <2>2
<1>6. HlApplySteps => hcl' = hcl
  BY DEF HlApplySteps, HlQuiesce, HlApplying, HlPrepared, HlRejected, HlCommitted, HlDrain,
     HlPublish
<1>7. ASSUME NEW r \in Runtimes, HlRuntimeSteps(r) \/ HlCools(r)
      PROVE  hcl' \in [HubClients -> ClientStates]
  <2>1. HlGroupEnds(r) \/ HlDiscovered(r) \/ HlDown(r) \/ HlCools(r) => hcl' = hcl
    BY DEF HlGroupEnds, HlDiscovered, HlDown, HlCools
  <2>2. QED BY <1>2, <1>5, <1>7, <2>1 DEF HlRuntimeSteps
<1>8. ASSUME NEW native \in BOOLEAN, HlDiscover(native)
      PROVE  hcl' = hcl
  BY <1>8 DEF HlDiscover
<1>9. ASSUME NEW job, HlCredential(job)
      PROVE  hcl' = hcl
  BY <1>9 DEF HlCredential
<1>10. HlCredentialStored \/ HlApply \/ HlUnknown \/ HlStop \/ HlStopping \/ HlStopDrains
         \/ HlStopped => hcl' = hcl
  <2>1. HlCredentialStored => hcl' = hcl
    BY DEF HlCredentialStored
  <2>2. HlApply => hcl' = hcl
    BY DEF HlApply
  <2>3. HlUnknown => hcl' = hcl
    BY DEF HlUnknown
  <2>4. HlStop => hcl' = hcl
    BY DEF HlStop
  <2>5. HlStopping => hcl' = hcl
    BY DEF HlStopping
  <2>6. HlStopDrains => hcl' = hcl
    BY DEF HlStopDrains
  <2>7. HlStopped => hcl' = hcl
    BY DEF HlStopped
  <2>8. QED BY <2>1, <2>2, <2>3, <2>4, <2>5, <2>6, <2>7
<1>11. QED
  BY <1>2, <1>3, <1>4, <1>6, <1>7, <1>8, <1>9, <1>10 DEF HlNext

LEMMA RuntimesTyped ==
  ASSUME HlIInv, HlNext
  PROVE  hrt' \in [Runtimes -> RuntimeStates]
<1>types. HlTypeOK
  BY DEF HlIInv
<1>1. ASSUME NEW c \in HubClients, HlRuntime(c)
      PROVE  hrt' \in [Runtimes -> RuntimeStates]
  BY <1>types, <1>1 DEF HlRuntime, HlTypeOK
<1>2. ASSUME NEW c \in HubClients, HlBind(c)
      PROVE  hrt' \in [Runtimes -> RuntimeStates]
  BY <1>2, BindReleases DEF Releases
<1>3. ASSUME NEW c \in HubClients, HlConnect(c)
      PROVE  hrt' \in [Runtimes -> RuntimeStates]
  BY <1>3, BoundFacts, ReserveFacts DEF HlConnect, HlOperation, OnlyRuntime
<1>4. ASSUME NEW c \in HubClients, HlRefused(c)
      PROVE  hrt' \in [Runtimes -> RuntimeStates]
  BY <1>types, <1>4 DEF HlRefused, HlTypeOK
<1>5. ASSUME NEW c \in HubClients, HlDisconnect(c)
      PROVE  hrt' \in [Runtimes -> RuntimeStates]
  BY <1>5, DisconnectReleases DEF Releases
<1>6. ASSUME NEW c \in HubClients, HlChange(c)
      PROVE  hrt' \in [Runtimes -> RuntimeStates]
  <2>1. hcl[c].bound \in Runtimes /\ <<c, 0>> \in Activities
    BY <1>6, BoundFacts DEF HlChange, HlOperation, Activities
  <2>2. QED BY <1>types, <1>6, <2>1, Holding DEF HlChange, OnlyRuntime
<1>7. ASSUME NEW c \in HubClients, HlChangeConnects(c)
      PROVE  hrt' \in [Runtimes -> RuntimeStates]
  BY <1>7, BoundFacts, ReserveFacts DEF HlChangeConnects, OnlyRuntime
<1>8. ASSUME NEW c \in HubClients, HlChangeEnds(c)
      PROVE  hrt' \in [Runtimes -> RuntimeStates]
  BY <1>8, ChangeReleases DEF Releases
<1>9. ASSUME NEW c \in HubClients, HlCommand(c)
      PROVE  hrt' \in [Runtimes -> RuntimeStates]
  BY <1>types, <1>9 DEF HlCommand, HlTypeOK
<1>10. ASSUME NEW c \in HubClients, HlGroup(c)
      PROVE  hrt' \in [Runtimes -> RuntimeStates]
  BY <1>types, <1>10, BoundFacts, GroupHeld DEF HlGroup, HlOperation, OnlyRuntime
<1>11. ASSUME NEW c \in HubClients, HlEof(c)
      PROVE  hrt' \in [Runtimes -> RuntimeStates]
  BY <1>11, EofReleases DEF Releases
<1>12. ASSUME NEW c \in HubClients, NEW t \in hcl[c].cmd, HlCommandEnds(c, t)
      PROVE  hrt' \in [Runtimes -> RuntimeStates]
  BY <1>types, <1>12, CommandReleases DEF Releases
<1>13. ASSUME NEW o \in hopens, HlOpened(o)
      PROVE  hrt' \in [Runtimes -> RuntimeStates]
  BY <1>13, OpenedCases DEF OpenSucceeds, OpenFails, OnlyRuntime
<1>14. ASSUME NEW r \in Runtimes, HlGroupEnds(r)
      PROVE  hrt' \in [Runtimes -> RuntimeStates]
  BY <1>types, <1>14, GroupOver DEF OnlyRuntime
<1>15. ASSUME NEW r \in Runtimes, HlDiscovered(r)
      PROVE  hrt' \in [Runtimes -> RuntimeStates]
  BY <1>types, <1>15, DiscoveredFacts DEF OnlyRuntime
<1>16. ASSUME NEW r \in Runtimes, HlDown(r)
      PROVE  hrt' \in [Runtimes -> RuntimeStates]
  BY <1>types, <1>16, DownFacts DEF OnlyRuntime
<1>17. ASSUME NEW r \in Runtimes, NEW c \in HubClients, HlCloseClient(r, c)
      PROVE  hrt' \in [Runtimes -> RuntimeStates]
  BY <1>types, <1>17, ClientClosed DEF OnlyRuntime
<1>18. ASSUME NEW r \in Runtimes, HlCools(r)
      PROVE  hrt' \in [Runtimes -> RuntimeStates]
  BY <1>types, <1>18, Warms DEF HlCools, OnlyRuntime
<1>19. ASSUME NEW native \in BOOLEAN, HlDiscover(native)
      PROVE  hrt' \in [Runtimes -> RuntimeStates]
  BY <1>types, <1>19, DiscoverFacts DEF OnlyRuntime
<1>20. ASSUME NEW job \in {"create", "delete"}, HlCredential(job)
      PROVE  hrt' \in [Runtimes -> RuntimeStates]
  BY <1>types, <1>20 DEF HlCredential, HlTypeOK
<1>21. ASSUME HlCredentialStored
      PROVE  hrt' \in [Runtimes -> RuntimeStates]
  BY <1>types, <1>21 DEF HlCredentialStored, HlTypeOK
<1>22. ASSUME HlApply
      PROVE  hrt' \in [Runtimes -> RuntimeStates]
  BY <1>types, <1>22 DEF HlApply, HlTypeOK
<1>23. ASSUME HlQuiesce
      PROVE  hrt' \in [Runtimes -> RuntimeStates]
  BY <1>types, <1>23, QuiesceFacts DEF OnlyRuntime, HlTypeOK
<1>24. ASSUME HlApplying
      PROVE  hrt' \in [Runtimes -> RuntimeStates]
  BY <1>types, <1>24 DEF HlApplying, HlTypeOK
<1>25. ASSUME HlPrepared
      PROVE  hrt' \in [Runtimes -> RuntimeStates]
  BY <1>types, <1>25 DEF HlPrepared, HlTypeOK
<1>26. ASSUME HlRejected
      PROVE  hrt' \in [Runtimes -> RuntimeStates]
  BY <1>types, <1>26, ThawFacts DEF HlRejected, OnlyRuntime
<1>27. ASSUME HlCommitted
      PROVE  hrt' \in [Runtimes -> RuntimeStates]
  BY <1>types, <1>27 DEF HlCommitted, HlTypeOK
<1>28. ASSUME HlDrain
      PROVE  hrt' \in [Runtimes -> RuntimeStates]
  BY <1>types, <1>28, ServiceFacts, ShutDown DEF HlDrain, OnlyRuntime
<1>29. ASSUME HlPublish
      PROVE  hrt' \in [Runtimes -> RuntimeStates]
  BY <1>types, <1>29, ThawFacts DEF HlPublish, OnlyRuntime
<1>30. ASSUME HlUnknown
      PROVE  hrt' \in [Runtimes -> RuntimeStates]
  BY <1>types, <1>30, ThawFacts DEF HlUnknown, OnlyRuntime
<1>31. ASSUME HlStop
      PROVE  hrt' \in [Runtimes -> RuntimeStates]
  BY <1>types, <1>31 DEF HlStop, HlTypeOK
<1>32. ASSUME HlStopping
      PROVE  hrt' \in [Runtimes -> RuntimeStates]
  BY <1>types, <1>32 DEF HlStopping, HlTypeOK
<1>33. ASSUME HlStopDrains
      PROVE  hrt' \in [Runtimes -> RuntimeStates]
  BY <1>types, <1>33, ServiceFacts, ShutDown DEF HlStopDrains, OnlyRuntime
<1>34. ASSUME HlStopped
      PROVE  hrt' \in [Runtimes -> RuntimeStates]
  BY <1>types, <1>34 DEF HlStopped, HlTypeOK
<1>35. QED
  BY
     <1>1, <1>2, <1>3, <1>4, <1>5, <1>6, <1>7, <1>8, <1>9, <1>10, <1>11,
     <1>12, <1>13, <1>14, <1>15, <1>16, <1>17, <1>18, <1>19, <1>20, <1>21,
     <1>22, <1>23, <1>24, <1>25, <1>26, <1>27, <1>28, <1>29, <1>30, <1>31,
     <1>32, <1>33, <1>34
  DEF HlNext, HlClientStep, HlApplySteps, HlRuntimeSteps

(* The service's part of the state.                                        *)
ServiceTyped ==
  /\ hsvc \in Services
  /\ happ \in {"idle", "begin", "blocking"} \cup Replacing
  /\ hopens \subseteq HubClients \X Nat \X Runtimes /\ htok \in Nat
  /\ hcred \in [present : BOOLEAN, job : {"none", "create", "delete"}]

LEMMA RestTyped ==
  ASSUME HlIInv, HlNext
  PROVE  ServiceTyped'
<1> USE DEF ServiceTyped
<1>types. HlTypeOK
  BY DEF HlIInv
<1>bounds. happ \in {"begin", "quiesced", "prepare", "commit"} =>
         hsvc.store \in Runtimes /\ hsvc.store + 1 \in Runtimes
  BY <1>types, ServiceFacts DEF HlIInv, RevisionInv
<1>1. ASSUME NEW c \in HubClients, HlRuntime(c)
      PROVE  ServiceTyped'
  BY <1>types, <1>bounds, <1>1 DEF HlRuntime, HlTypeOK
<1>2. ASSUME NEW c \in HubClients, HlBind(c)
      PROVE  ServiceTyped'
  BY <1>types, <1>bounds, <1>2 DEF HlBind, HlTypeOK
<1>3. ASSUME NEW c \in HubClients, HlConnect(c)
      PROVE  ServiceTyped'
  BY <1>types, <1>3, BoundFacts, ReserveFacts DEF HlConnect, HlOperation, HlTypeOK
<1>4. ASSUME NEW c \in HubClients, HlRefused(c)
      PROVE  ServiceTyped'
  BY <1>types, <1>bounds, <1>4 DEF HlRefused, HlTypeOK
<1>5. ASSUME NEW c \in HubClients, HlDisconnect(c)
      PROVE  ServiceTyped'
  BY <1>types, <1>bounds, <1>5 DEF HlDisconnect, HlTypeOK
<1>6. ASSUME NEW c \in HubClients, HlChange(c)
      PROVE  ServiceTyped'
  BY <1>types, <1>bounds, <1>6 DEF HlChange, HlTypeOK
<1>7. ASSUME NEW c \in HubClients, HlChangeConnects(c)
      PROVE  ServiceTyped'
  BY <1>types, <1>7, BoundFacts, ReserveFacts DEF HlChangeConnects, HlTypeOK
<1>8. ASSUME NEW c \in HubClients, HlChangeEnds(c)
      PROVE  ServiceTyped'
  BY <1>types, <1>bounds, <1>8 DEF HlChangeEnds, HlTypeOK
<1>9. ASSUME NEW c \in HubClients, HlCommand(c)
      PROVE  ServiceTyped'
  BY <1>types, <1>bounds, <1>9 DEF HlCommand, HlTypeOK
<1>10. ASSUME NEW c \in HubClients, HlGroup(c)
      PROVE  ServiceTyped'
  BY <1>types, <1>bounds, <1>10 DEF HlGroup, HlTypeOK
<1>11. ASSUME NEW c \in HubClients, HlEof(c)
      PROVE  ServiceTyped'
  BY <1>types, <1>bounds, <1>11 DEF HlEof, HlTypeOK
<1>12. ASSUME NEW c \in HubClients, NEW t \in hcl[c].cmd, HlCommandEnds(c, t)
      PROVE  ServiceTyped'
  BY <1>types, <1>bounds, <1>12 DEF HlCommandEnds, HlTypeOK
<1>13. ASSUME NEW o \in hopens, HlOpened(o)
      PROVE  ServiceTyped'
  BY <1>types, <1>bounds, <1>13 DEF HlOpened, HlTypeOK
<1>14. ASSUME NEW r \in Runtimes, HlGroupEnds(r)
      PROVE  ServiceTyped'
  BY <1>types, <1>bounds, <1>14 DEF HlGroupEnds, HlTypeOK
<1>15. ASSUME NEW r \in Runtimes, HlDiscovered(r)
      PROVE  ServiceTyped'
  BY <1>types, <1>bounds, <1>15 DEF HlDiscovered, HlTypeOK
<1>16. ASSUME NEW r \in Runtimes, HlDown(r)
      PROVE  ServiceTyped'
  BY <1>types, <1>bounds, <1>16 DEF HlDown, HlTypeOK
<1>17. ASSUME NEW r \in Runtimes, NEW c \in HubClients, HlCloseClient(r, c)
      PROVE  ServiceTyped'
  BY <1>types, <1>bounds, <1>17 DEF HlCloseClient, HlTypeOK
<1>18. ASSUME NEW r \in Runtimes, HlCools(r)
      PROVE  ServiceTyped'
  BY <1>types, <1>bounds, <1>18 DEF HlCools, HlTypeOK
<1>19. ASSUME NEW native \in BOOLEAN, HlDiscover(native)
      PROVE  ServiceTyped'
  BY <1>types, <1>bounds, <1>19 DEF HlDiscover, HlTypeOK
<1>20. ASSUME NEW job \in {"create", "delete"}, HlCredential(job)
      PROVE  ServiceTyped'
  BY <1>types, <1>20 DEF HlCredential, CredentialLock, HlTypeOK, Services
<1>21. ASSUME HlCredentialStored
      PROVE  ServiceTyped'
  <2>1. PICK done \in BOOLEAN :
          hcred' = [present |-> IF done THEN hcred.job = "create" ELSE hcred.present,
                    job |-> "none"]
    BY <1>21 DEF HlCredentialStored
  <2> DEFINE p == IF done THEN hcred.job = "create" ELSE hcred.present
             l == IF hsvc.lock = "credential" THEN "free" ELSE hsvc.lock
  <2>2. p \in BOOLEAN /\ l \in {"free", "apply", "credential", "stop"}
    BY <1>types, ServiceFacts DEF HlTypeOK
  <2>3. hcred' = [present |-> p, job |-> "none"] /\ hsvc' = [hsvc EXCEPT !.lock = l]
    BY <1>21, <2>1 DEF HlCredentialStored
  <2> HIDE DEF p, l
  <2>4. hsvc' \in Services /\ hcred' \in [present : BOOLEAN, job : {"none", "create", "delete"}]
    BY <1>types, <2>2, <2>3 DEF HlTypeOK, Services
  <2>5. QED BY <1>types, <1>21, <2>4 DEF HlCredentialStored, HlTypeOK
<1>22. ASSUME HlApply
      PROVE  ServiceTyped'
  BY <1>types, <1>bounds, <1>22 DEF HlApply, HlTypeOK, Services
<1>23. ASSUME HlQuiesce
      PROVE  ServiceTyped'
  BY <1>types, <1>bounds, <1>23 DEF HlQuiesce, HlTypeOK, Services, Replacing
<1>24. ASSUME HlApplying
      PROVE  ServiceTyped'
  BY <1>types, <1>bounds, <1>24 DEF HlApplying, HlTypeOK, Services, Replacing
<1>25. ASSUME HlPrepared
      PROVE  ServiceTyped'
  BY <1>types, <1>bounds, <1>25 DEF HlPrepared, HlTypeOK, Replacing
<1>26. ASSUME HlRejected
      PROVE  ServiceTyped'
  BY <1>types, <1>bounds, <1>26 DEF HlRejected, HlTypeOK, Services
<1>27. ASSUME HlCommitted
      PROVE  ServiceTyped'
  BY <1>types, <1>bounds, <1>27 DEF HlCommitted, HlNextRevision, HlTypeOK, Services, Replacing
<1>28. ASSUME HlDrain
      PROVE  ServiceTyped'
  BY <1>types, <1>bounds, <1>28 DEF HlDrain, HlTypeOK
<1>29. ASSUME HlPublish
      PROVE  ServiceTyped'
  <2> DEFINE bad == hrt[hsvc.cur].failed
             ph == IF bad THEN "blocked" ELSE "ready"
  <2>1. /\ bad \in BOOLEAN /\ ph \in {"ready", "applying", "blocked", "stopped"}
        /\ hsvc.store \in Runtimes
    BY <1>types, ServiceFacts, RuntimeFacts
  <2>2. \/ hsvc' = [hsvc EXCEPT !.lock = "free", !.cleanup = bad]
        \/ hsvc' = [hsvc EXCEPT !.lock = "free", !.cleanup = bad, !.cur = hsvc.store,
                                !.phase = ph]
    BY <1>29 DEF HlPublish
  <2> HIDE DEF bad, ph
  <2>3. hsvc' \in Services
    BY <1>types, <2>1, <2>2 DEF HlTypeOK, Services
  <2>4. QED BY <1>types, <1>29, <2>3 DEF HlPublish, HlTypeOK
<1>30. ASSUME HlUnknown
      PROVE  ServiceTyped'
  <2>1. PICK new \in {hsvc.store, HlNextRevision} :
          /\ new = hsvc.store \/ happ = "commit"
          /\ hsvc' = [hsvc EXCEPT !.phase = "blocked", !.store = new]
    BY <1>30 DEF HlUnknown, UnknownPhase
  <2>2. new \in Runtimes
    BY <1>types, <1>bounds, <2>1, ServiceFacts DEF HlNextRevision
  <2>3. hsvc' \in Services
    BY <1>types, <2>1, <2>2 DEF HlTypeOK, Services
  <2>4. QED BY <1>types, <1>30, <2>3 DEF HlUnknown, HlTypeOK
<1>31. ASSUME HlStop
      PROVE  ServiceTyped'
  BY <1>types, <1>bounds, <1>31 DEF HlStop, HlTypeOK, Services
<1>32. ASSUME HlStopping
      PROVE  ServiceTyped'
  BY <1>types, <1>bounds, <1>32 DEF HlStopping, HlTypeOK, Services
<1>33. ASSUME HlStopDrains
      PROVE  ServiceTyped'
  BY <1>types, <1>bounds, <1>33 DEF HlStopDrains, HlTypeOK
<1>34. ASSUME HlStopped
      PROVE  ServiceTyped'
  BY <1>types, <1>bounds, <1>34 DEF HlStopped, HlTypeOK, Services
<1>35. QED
  BY
     <1>1, <1>2, <1>3, <1>4, <1>5, <1>6, <1>7, <1>8, <1>9, <1>10, <1>11,
     <1>12, <1>13, <1>14, <1>15, <1>16, <1>17, <1>18, <1>19, <1>20, <1>21,
     <1>22, <1>23, <1>24, <1>25, <1>26, <1>27, <1>28, <1>29, <1>30, <1>31,
     <1>32, <1>33, <1>34
  DEF HlNext, HlClientStep, HlApplySteps, HlRuntimeSteps

LEMMA TypeStep ==
  ASSUME HlIInv, HlNext
  PROVE  HlTypeOK'
BY ClientsTyped, RuntimesTyped, RestTyped DEF HlTypeOK, ServiceTyped

(* Who has the update lock.                                                *)
LEMMA LockStep ==
  ASSUME HlIInv, HlNext
  PROVE  LockInv'
<1> USE DEF LockInv
<1>types. HlTypeOK /\ LockInv
  BY DEF HlIInv
<1>1. ASSUME NEW c \in HubClients, HlRuntime(c)
      PROVE  LockInv'
  BY <1>types, <1>1 DEF HlRuntime
<1>2. ASSUME NEW c \in HubClients, HlBind(c)
      PROVE  LockInv'
  BY <1>types, <1>2 DEF HlBind
<1>3. ASSUME NEW c \in HubClients, HlConnect(c)
      PROVE  LockInv'
  BY <1>types, <1>3 DEF HlConnect, HlReserve
<1>4. ASSUME NEW c \in HubClients, HlRefused(c)
      PROVE  LockInv'
  BY <1>types, <1>4 DEF HlRefused
<1>5. ASSUME NEW c \in HubClients, HlDisconnect(c)
      PROVE  LockInv'
  BY <1>types, <1>5 DEF HlDisconnect
<1>6. ASSUME NEW c \in HubClients, HlChange(c)
      PROVE  LockInv'
  BY <1>types, <1>6 DEF HlChange
<1>7. ASSUME NEW c \in HubClients, HlChangeConnects(c)
      PROVE  LockInv'
  BY <1>types, <1>7 DEF HlChangeConnects, HlReserve
<1>8. ASSUME NEW c \in HubClients, HlChangeEnds(c)
      PROVE  LockInv'
  BY <1>types, <1>8 DEF HlChangeEnds
<1>9. ASSUME NEW c \in HubClients, HlCommand(c)
      PROVE  LockInv'
  BY <1>types, <1>9 DEF HlCommand
<1>10. ASSUME NEW c \in HubClients, HlGroup(c)
      PROVE  LockInv'
  BY <1>types, <1>10 DEF HlGroup
<1>11. ASSUME NEW c \in HubClients, HlEof(c)
      PROVE  LockInv'
  BY <1>types, <1>11 DEF HlEof
<1>12. ASSUME NEW c \in HubClients, NEW t \in hcl[c].cmd, HlCommandEnds(c, t)
      PROVE  LockInv'
  BY <1>types, <1>12 DEF HlCommandEnds
<1>13. ASSUME NEW o \in hopens, HlOpened(o)
      PROVE  LockInv'
  BY <1>types, <1>13 DEF HlOpened
<1>14. ASSUME NEW r \in Runtimes, HlGroupEnds(r)
      PROVE  LockInv'
  BY <1>types, <1>14 DEF HlGroupEnds
<1>15. ASSUME NEW r \in Runtimes, HlDiscovered(r)
      PROVE  LockInv'
  BY <1>types, <1>15 DEF HlDiscovered
<1>16. ASSUME NEW r \in Runtimes, HlDown(r)
      PROVE  LockInv'
  BY <1>types, <1>16 DEF HlDown
<1>17. ASSUME NEW r \in Runtimes, NEW c \in HubClients, HlCloseClient(r, c)
      PROVE  LockInv'
  BY <1>types, <1>17 DEF HlCloseClient
<1>18. ASSUME NEW r \in Runtimes, HlCools(r)
      PROVE  LockInv'
  BY <1>types, <1>18 DEF HlCools
<1>19. ASSUME NEW native \in BOOLEAN, HlDiscover(native)
      PROVE  LockInv'
  BY <1>types, <1>19 DEF HlDiscover
<1>20. ASSUME NEW job \in {"create", "delete"}, HlCredential(job)
      PROVE  LockInv'
  BY <1>types, <1>20 DEF HlCredential, LockFree, CredentialLock
<1>21. ASSUME HlCredentialStored
      PROVE  LockInv'
  BY <1>types, <1>21, ServiceFacts DEF HlCredentialStored, HlTypeOK, Services
<1>22. ASSUME HlApply
      PROVE  LockInv'
  BY <1>types, <1>22, ServiceFacts DEF HlApply, LockFree, HlTypeOK, Services
<1>23. ASSUME HlQuiesce
      PROVE  LockInv'
  BY <1>types, <1>23, ServiceFacts DEF HlQuiesce, HlTypeOK, Services
<1>24. ASSUME HlApplying
      PROVE  LockInv'
  BY <1>types, <1>24, ServiceFacts DEF HlApplying, HlTypeOK, Services
<1>25. ASSUME HlPrepared
      PROVE  LockInv'
  BY <1>types, <1>25, ServiceFacts DEF HlPrepared, HlTypeOK, Services
<1>26. ASSUME HlRejected
      PROVE  LockInv'
  BY <1>types, <1>26, ServiceFacts DEF HlRejected, HlTypeOK, Services
<1>27. ASSUME HlCommitted
      PROVE  LockInv'
  BY <1>types, <1>27, ServiceFacts DEF HlCommitted, HlTypeOK, Services
<1>28. ASSUME HlDrain
      PROVE  LockInv'
  BY <1>types, <1>28 DEF HlDrain
<1>29. ASSUME HlPublish
      PROVE  LockInv'
  BY <1>types, <1>29, ServiceFacts DEF HlPublish, HlTypeOK, Services
<1>30. ASSUME HlUnknown
      PROVE  LockInv'
  BY <1>types, <1>30 DEF HlUnknown, UnknownPhase
<1>31. ASSUME HlStop
      PROVE  LockInv'
  BY <1>types, <1>31, ServiceFacts DEF HlStop, HlTypeOK, Services
<1>32. ASSUME HlStopping
      PROVE  LockInv'
  BY <1>types, <1>32, ServiceFacts DEF HlStopping, HlTypeOK, Services
<1>33. ASSUME HlStopDrains
      PROVE  LockInv'
  BY <1>types, <1>33 DEF HlStopDrains
<1>34. ASSUME HlStopped
      PROVE  LockInv'
  BY <1>types, <1>34, ServiceFacts DEF HlStopped, HlTypeOK, Services
<1> HIDE DEF LockInv
<1>35. QED
  BY
     <1>1, <1>2, <1>3, <1>4, <1>5, <1>6, <1>7, <1>8, <1>9, <1>10, <1>11,
     <1>12, <1>13, <1>14, <1>15, <1>16, <1>17, <1>18, <1>19, <1>20, <1>21,
     <1>22, <1>23, <1>24, <1>25, <1>26, <1>27, <1>28, <1>29, <1>30, <1>31,
     <1>32, <1>33, <1>34
  DEF HlNext, HlClientStep, HlApplySteps, HlRuntimeSteps

(* Revisions and credentials do not change, nor what earlier runtimes did. *)
LEMMA RevisionFrame ==
  ASSUME HlIInv, hsvc' = hsvc, happ' = happ, hcred' = hcred,
         \A r \in Runtimes : r < hsvc.cur => hrt'[r].failed = hrt[r].failed
  PROVE  RevisionInv'
BY DEF HlIInv, RevisionInv, HlNextRevision

(* The revision that is stored, the one that is served and its credential. *)
LEMMA RevisionStep ==
  ASSUME HlIInv, HlNext
  PROVE  RevisionInv'
<1>types. HlTypeOK
  BY DEF HlIInv
<1>bounds. MaxRuntimes \in Nat /\ Runtimes = 1..MaxRuntimes
  BY <1>types, ServiceFacts
<1>1. ASSUME NEW c \in HubClients, HlRuntime(c)
      PROVE  RevisionInv'
  BY <1>1, RevisionFrame DEF HlRuntime
<1>2. ASSUME NEW c \in HubClients, HlBind(c)
      PROVE  RevisionInv'
  <2>1. \A r \in Runtimes : hrt'[r].failed = hrt[r].failed
    BY <1>types, <1>2, BindReleases DEF Releases, KeepsShutdown
  <2>2. hsvc' = hsvc /\ happ' = happ /\ hcred' = hcred
    BY <1>2 DEF HlBind
  <2>3. QED BY <2>1, <2>2, RevisionFrame
<1>3. ASSUME NEW c \in HubClients, HlConnect(c)
      PROVE  RevisionInv'
  <2>1. \A r \in Runtimes : hrt'[r].failed = hrt[r].failed
    BY <1>3, BoundFacts, ReserveFacts DEF OnlyRuntime, KeepsShutdown, HlConnect, HlOperation
  <2>2. hsvc' = hsvc /\ happ' = happ /\ hcred' = hcred
    BY <1>3 DEF HlConnect
  <2>3. QED BY <2>1, <2>2, RevisionFrame
<1>4. ASSUME NEW c \in HubClients, HlRefused(c)
      PROVE  RevisionInv'
  BY <1>4, RevisionFrame DEF HlRefused
<1>5. ASSUME NEW c \in HubClients, HlDisconnect(c)
      PROVE  RevisionInv'
  <2>1. \A r \in Runtimes : hrt'[r].failed = hrt[r].failed
    BY <1>types, <1>5, DisconnectReleases DEF Releases, KeepsShutdown
  <2>2. hsvc' = hsvc /\ happ' = happ /\ hcred' = hcred
    BY <1>5 DEF HlDisconnect
  <2>3. QED BY <2>1, <2>2, RevisionFrame
<1>6. ASSUME NEW c \in HubClients, HlChange(c)
      PROVE  RevisionInv'
  <2>1. hcl[c].bound \in Runtimes /\ <<c, 0>> \in Activities
    BY <1>6, BoundFacts DEF HlChange, HlOperation, Activities
  <2>2. \A r \in Runtimes : hrt'[r].failed = hrt[r].failed
    BY <1>types, <1>6, <2>1, Holding DEF HlChange, OnlyRuntime, KeepsShutdown
  <2>3. hsvc' = hsvc /\ happ' = happ /\ hcred' = hcred
    BY <1>6 DEF HlChange
  <2>4. QED BY <2>2, <2>3, RevisionFrame
<1>7. ASSUME NEW c \in HubClients, HlChangeConnects(c)
      PROVE  RevisionInv'
  <2>1. \A r \in Runtimes : hrt'[r].failed = hrt[r].failed
    BY <1>7, BoundFacts, ReserveFacts DEF OnlyRuntime, KeepsShutdown, HlChangeConnects
  <2>2. hsvc' = hsvc /\ happ' = happ /\ hcred' = hcred
    BY <1>7 DEF HlChangeConnects
  <2>3. QED BY <2>1, <2>2, RevisionFrame
<1>8. ASSUME NEW c \in HubClients, HlChangeEnds(c)
      PROVE  RevisionInv'
  <2>1. \A r \in Runtimes : hrt'[r].failed = hrt[r].failed
    BY <1>types, <1>8, ChangeReleases DEF Releases, KeepsShutdown
  <2>2. hsvc' = hsvc /\ happ' = happ /\ hcred' = hcred
    BY <1>8 DEF HlChangeEnds
  <2>3. QED BY <2>1, <2>2, RevisionFrame
<1>9. ASSUME NEW c \in HubClients, HlCommand(c)
      PROVE  RevisionInv'
  BY <1>9, RevisionFrame DEF HlCommand
<1>10. ASSUME NEW c \in HubClients, HlGroup(c)
      PROVE  RevisionInv'
  <2>1. \A r \in Runtimes : hrt'[r].failed = hrt[r].failed
    BY <1>10 DEF HlGroup
  <2>2. hsvc' = hsvc /\ happ' = happ /\ hcred' = hcred
    BY <1>10 DEF HlGroup
  <2>3. QED BY <2>1, <2>2, RevisionFrame
<1>11. ASSUME NEW c \in HubClients, HlEof(c)
      PROVE  RevisionInv'
  <2>1. \A r \in Runtimes : hrt'[r].failed = hrt[r].failed
    BY <1>types, <1>11, EofReleases DEF Releases, KeepsShutdown
  <2>2. hsvc' = hsvc /\ happ' = happ /\ hcred' = hcred
    BY <1>11 DEF HlEof
  <2>3. QED BY <2>1, <2>2, RevisionFrame
<1>12. ASSUME NEW c \in HubClients, NEW t \in hcl[c].cmd, HlCommandEnds(c, t)
      PROVE  RevisionInv'
  <2>1. \A r \in Runtimes : hrt'[r].failed = hrt[r].failed
    BY <1>types, <1>12, CommandReleases DEF Releases, KeepsShutdown
  <2>2. hsvc' = hsvc /\ happ' = happ /\ hcred' = hcred
    BY <1>12 DEF HlCommandEnds
  <2>3. QED BY <2>1, <2>2, RevisionFrame
<1>13. ASSUME NEW o \in hopens, HlOpened(o)
      PROVE  RevisionInv'
  <2>1. \A r \in Runtimes : hrt'[r].failed = hrt[r].failed
    BY <1>13, OpenedCases DEF OpenSucceeds, OpenFails, OnlyRuntime, KeepsShutdown
  <2>2. hsvc' = hsvc /\ happ' = happ /\ hcred' = hcred
    BY <1>13 DEF HlOpened
  <2>3. QED BY <2>1, <2>2, RevisionFrame
<1>14. ASSUME NEW r \in Runtimes, HlGroupEnds(r)
      PROVE  RevisionInv'
  <2>1. \A q \in Runtimes : hrt'[q].failed = hrt[q].failed
    BY <1>types, <1>14, GroupOver DEF OnlyRuntime, KeepsShutdown
  <2>2. hsvc' = hsvc /\ happ' = happ /\ hcred' = hcred
    BY <1>14 DEF HlGroupEnds
  <2>3. QED BY <2>1, <2>2, RevisionFrame
<1>15. ASSUME NEW r \in Runtimes, HlDiscovered(r)
      PROVE  RevisionInv'
  <2>1. \A q \in Runtimes : hrt'[q].failed = hrt[q].failed
    BY <1>types, <1>15, DiscoveredFacts DEF OnlyRuntime, KeepsShutdown
  <2>2. hsvc' = hsvc /\ happ' = happ /\ hcred' = hcred
    BY <1>15 DEF HlDiscovered
  <2>3. QED BY <2>1, <2>2, RevisionFrame
<1>16. ASSUME NEW r \in Runtimes, HlDown(r)
      PROVE  RevisionInv'
  <2>1. r >= hsvc.cur
    BY <1>types, <1>16, ServiceFacts DEF HlDown, HlIInv, RuntimeInv, RuntimeOK
  <2>2. \A q \in Runtimes : q < hsvc.cur => hrt'[q] = hrt[q]
    <3>1. \A q \in Runtimes : q < hsvc.cur => q # r
      BY <1>types, <1>bounds, <2>1, ServiceFacts
    <3>2. OnlyRuntime(r)
      BY <1>types, <1>16, DownFacts
    <3>3. QED BY <3>1, <3>2 DEF OnlyRuntime
  <2>3. hsvc' = hsvc /\ happ' = happ /\ hcred' = hcred
    BY <1>16 DEF HlDown
  <2>4. QED BY <2>2, <2>3, RevisionFrame
<1>17. ASSUME NEW r \in Runtimes, NEW c \in HubClients, HlCloseClient(r, c)
      PROVE  RevisionInv'
  <2>1. \A q \in Runtimes : hrt'[q].failed = hrt[q].failed
    BY <1>types, <1>17, ClientClosed DEF OnlyRuntime
  <2>2. hsvc' = hsvc /\ happ' = happ /\ hcred' = hcred
    BY <1>17 DEF HlCloseClient
  <2>3. QED BY <2>1, <2>2, RevisionFrame
<1>18. ASSUME NEW r \in Runtimes, HlCools(r)
      PROVE  RevisionInv'
  <2>1. \A q \in Runtimes : hrt'[q].failed = hrt[q].failed
    BY <1>types, <1>18, Warms DEF OnlyRuntime, KeepsShutdown, HlCools
  <2>2. hsvc' = hsvc /\ happ' = happ /\ hcred' = hcred
    BY <1>18 DEF HlCools
  <2>3. QED BY <2>1, <2>2, RevisionFrame
<1>19. ASSUME NEW native \in BOOLEAN, HlDiscover(native)
      PROVE  RevisionInv'
  <2>1. \A r \in Runtimes : hrt'[r].failed = hrt[r].failed
    BY <1>types, <1>19, DiscoverFacts DEF OnlyRuntime, KeepsShutdown
  <2>2. hsvc' = hsvc /\ happ' = happ /\ hcred' = hcred
    BY <1>19 DEF HlDiscover
  <2>3. QED BY <2>1, <2>2, RevisionFrame
<1>20. ASSUME NEW job \in {"create", "delete"}, HlCredential(job)
      PROVE  RevisionInv'
  BY <1>20 DEF HlCredential, HlIInv, RevisionInv, HlNextRevision
<1>21. ASSUME HlCredentialStored
      PROVE  RevisionInv'
  BY <1>21 DEF HlCredentialStored, HlTypeOK, HlIInv, LockInv, RevisionInv
<1>22. ASSUME HlApply
      PROVE  RevisionInv'
  BY <1>22 DEF HlApply, HlIInv, RevisionInv
<1>23. ASSUME HlQuiesce
      PROVE  RevisionInv'
  BY <1>23, QuiesceFacts DEF HlQuiesce, KeepsShutdown, HlTypeOK, Services, HlIInv, RevisionInv
<1>24. ASSUME HlApplying
      PROVE  RevisionInv'
  BY <1>24 DEF HlApplying, HlIInv, LockInv, RevisionInv
<1>25. ASSUME HlPrepared
      PROVE  RevisionInv'
  BY <1>25 DEF HlPrepared, HlIInv, RevisionInv, HlNextRevision
<1>26. ASSUME HlRejected
      PROVE  RevisionInv'
  BY <1>26, ThawFacts DEF HlRejected, OnlyRuntime, KeepsShutdown, HlIInv, LockInv, RevisionInv
<1>27. ASSUME HlCommitted
      PROVE  RevisionInv'
  BY <1>27 DEF HlCommitted, HlIInv, LockInv, RevisionInv, HlNextRevision
<1>28. ASSUME HlDrain
      PROVE  RevisionInv'
  <2>1. \A r \in Runtimes : hrt'[r].failed = hrt[r].failed
    BY <1>types, <1>28, ServiceFacts, ShutDown DEF HlDrain, OnlyRuntime
  <2>2. hsvc' = hsvc /\ happ' = happ /\ hcred' = hcred
    BY <1>28 DEF HlDrain
  <2>3. QED BY <2>1, <2>2, RevisionFrame
<1>29. ASSUME HlPublish
      PROVE  RevisionInv'
  <2>1. \A r \in Runtimes : hrt'[r].failed = hrt[r].failed
    BY <1>types, <1>29, ThawFacts DEF HlPublish, OnlyRuntime, KeepsShutdown
  <2>2. CASE happ = "blocking"
    BY <1>29, <2>2 DEF HlPublish, HlIInv, LockInv, RevisionInv
  <2>3. CASE happ = "drain"
    <3>1. /\ happ' = "idle" /\ hcred' = hcred /\ hsvc'.cur = hsvc.store
          /\ hsvc'.store = hsvc.store /\ hsvc'.cleanup = hrt[hsvc.cur].failed
          /\ hsvc'.phase = IF hrt[hsvc.cur].failed THEN "blocked" ELSE "ready"
      BY <1>types, <1>29, <2>3, ServiceFacts DEF HlPublish, HlTypeOK, Services
    <3>2. /\ hsvc.store = hsvc.cur + 1 /\ hcred.job = "none"
          /\ \A r \in Runtimes : r < hsvc.cur => ~hrt[r].failed
          /\ hsvc.store \in UsesCredential => hcred.present
      BY <1>types, <2>3, ServiceFacts DEF HlIInv, RevisionInv, LockInv, HlTypeOK
    <3>3. \A r \in Runtimes : r < hsvc.store => r < hsvc.cur \/ r = hsvc.cur
      BY <1>types, <1>bounds, <3>2, ServiceFacts
    <3>4. QED
      BY <1>types, <2>1, <3>1, <3>2, <3>3, ServiceFacts, RuntimeFacts
      DEF RevisionInv, HlNextRevision
  <2>4. QED BY <1>29, <2>2, <2>3 DEF HlPublish
<1>30. ASSUME HlUnknown
      PROVE  RevisionInv'
  BY <1>30 DEF HlUnknown, UnknownPhase, HlIInv, LockInv, RevisionInv
<1>31. ASSUME HlStop
      PROVE  RevisionInv'
  BY <1>31 DEF HlStop, HlIInv, RevisionInv, HlNextRevision
<1>32. ASSUME HlStopping
      PROVE  RevisionInv'
  BY <1>32 DEF HlStopping, HlIInv, RevisionInv, HlNextRevision
<1>33. ASSUME HlStopDrains
      PROVE  RevisionInv'
  <2>1. \A r \in Runtimes : hrt'[r].failed = hrt[r].failed
    BY <1>types, <1>33, ServiceFacts, ShutDown DEF HlStopDrains, OnlyRuntime
  <2>2. hsvc' = hsvc /\ happ' = happ /\ hcred' = hcred
    BY <1>33 DEF HlStopDrains
  <2>3. QED BY <2>1, <2>2, RevisionFrame
<1>34. ASSUME HlStopped
      PROVE  RevisionInv'
  BY <1>34 DEF HlStopped, HlIInv, LockInv, RevisionInv
<1>35. QED
  BY
     <1>1, <1>2, <1>3, <1>4, <1>5, <1>6, <1>7, <1>8, <1>9, <1>10, <1>11,
     <1>12, <1>13, <1>14, <1>15, <1>16, <1>17, <1>18, <1>19, <1>20, <1>21,
     <1>22, <1>23, <1>24, <1>25, <1>26, <1>27, <1>28, <1>29, <1>30, <1>31,
     <1>32, <1>33, <1>34
  DEF HlNext, HlClientStep, HlApplySteps, HlRuntimeSteps

(* Giving activities back keeps a runtime in order.                        *)
LEMMA RuntimeReleased ==
  ASSUME HlIInv, NEW S, Releases(S), hsvc' = hsvc, happ' = happ
  PROVE  RuntimeInv'
<1> SUFFICES ASSUME NEW r \in Runtimes
             PROVE  RuntimeOK(r)'
  BY DEF RuntimeInv
<1>1. RuntimeOK(r) /\ HlTypeOK
  BY DEF HlIInv, RuntimeInv
<1>2. /\ hrt'[r].closed = hrt[r].closed /\ hrt'[r].down = hrt[r].down
      /\ hrt'[r].toClose = hrt[r].toClose /\ hrt'[r].jobs = hrt[r].jobs
      /\ hrt'[r].warm = hrt[r].warm /\ hrt'[r].frozen = hrt[r].frozen
      /\ hrt'[r].act \subseteq hrt[r].act
  BY DEF Releases, KeepsShutdown
<1>3. QED BY <1>1, <1>2 DEF RuntimeOK

LEMMA RuntimeFrame ==
  ASSUME HlIInv, NEW r \in Runtimes, OnlyRuntime(r), RuntimeOK(r)', hsvc' = hsvc,
         happ' = happ
  PROVE  RuntimeInv'
<1> SUFFICES ASSUME NEW q \in Runtimes, q # r
             PROVE  RuntimeOK(q)'
  BY DEF RuntimeInv
<1>1. RuntimeOK(q) /\ hrt'[q] = hrt[q]
  BY DEF HlIInv, RuntimeInv, OnlyRuntime
<1>2. QED BY <1>1 DEF RuntimeOK

(* What is admitted finds a runtime that is not being replaced or probed.  *)
LEMMA AdmitsFacts ==
  ASSUME HlIInv, NEW r \in Runtimes, HlAdmits(r)
  PROVE  /\ ~hrt[r].closed /\ hrt[r].down = "up" /\ ~hrt[r].frozen /\ ~(r < hsvc.cur)
         /\ ~(r = hsvc.cur /\ happ \in Replacing) /\ "probe" \notin hrt[r].jobs
BY DEF HlAdmits, HlIInv, RuntimeInv, RuntimeOK

LEMMA RuntimeStep ==
  ASSUME HlIInv, HlNext
  PROVE  RuntimeInv'
<1>types. HlTypeOK /\ RuntimeInv
  BY DEF HlIInv
<1>bounds. MaxRuntimes \in Nat /\ Runtimes = 1..MaxRuntimes
  BY <1>types, ServiceFacts
<1>1. ASSUME NEW c \in HubClients, HlRuntime(c)
      PROVE  RuntimeInv'
  <2>1. hrt' = hrt /\ hsvc' = hsvc /\ happ' = happ
    BY <1>1 DEF HlRuntime
  <2>2. QED BY <1>types, <2>1 DEF RuntimeInv, RuntimeOK
<1>2. ASSUME NEW c \in HubClients, HlBind(c)
      PROVE  RuntimeInv'
  <2>1. Releases(HlDropped(c))
    BY <1>2, BindReleases
  <2>2. hsvc' = hsvc /\ happ' = happ
    BY <1>2 DEF HlBind
  <2>3. QED BY <2>1, <2>2, RuntimeReleased
<1>3. ASSUME NEW c \in HubClients, HlConnect(c)
      PROVE  RuntimeInv'
  <2>1. PICK r \in Runtimes : r = hcl[c].bound
    BY <1>types, <1>3, ServiceFacts, BoundFacts DEF HlConnect, HlOperation
  <2>2. RuntimeOK(r)
    BY <1>types DEF RuntimeInv
  <2>3. /\ OnlyRuntime(r)
        /\ ~hrt[r].closed /\ hrt[r].down = "up" /\ ~hrt[r].frozen /\ ~(r < hsvc.cur)
        /\ ~(r = hsvc.cur /\ happ \in Replacing) /\ "probe" \notin hrt[r].jobs
        /\ hrt'[r].closed = hrt[r].closed
        /\ hrt'[r].frozen = hrt[r].frozen
        /\ hrt'[r].jobs = hrt[r].jobs
        /\ hrt'[r].down = hrt[r].down
        /\ hrt'[r].toClose = hrt[r].toClose
        /\ hrt'[r].warm = hrt[r].warm
    BY <2>1, <1>3, AdmitsFacts, ReserveFacts DEF HlConnect, Reservable, KeepsShutdown
  <2>4. hsvc' = hsvc /\ happ' = happ
    BY <1>3 DEF HlConnect
  <2>5. RuntimeOK(r)'
    BY <1>types, <2>1, <2>2, <2>3, <2>4 DEF RuntimeOK
  <2>6. QED BY <2>3, <2>4, <2>5, RuntimeFrame
<1>4. ASSUME NEW c \in HubClients, HlRefused(c)
      PROVE  RuntimeInv'
  <2>1. hrt' = hrt /\ hsvc' = hsvc /\ happ' = happ
    BY <1>4 DEF HlRefused
  <2>2. QED BY <1>types, <2>1 DEF RuntimeInv, RuntimeOK
<1>5. ASSUME NEW c \in HubClients, HlDisconnect(c)
      PROVE  RuntimeInv'
  <2>1. Releases(HlDropped(c))
    BY <1>5, DisconnectReleases
  <2>2. hsvc' = hsvc /\ happ' = happ
    BY <1>5 DEF HlDisconnect
  <2>3. QED BY <2>1, <2>2, RuntimeReleased
<1>6. ASSUME NEW c \in HubClients, HlChange(c)
      PROVE  RuntimeInv'
  <2>1. PICK r \in Runtimes : r = hcl[c].bound
    BY <1>types, <1>6, ServiceFacts, BoundFacts DEF HlChange, HlOperation
  <2>2. RuntimeOK(r)
    BY <1>types DEF RuntimeInv
  <2>3. /\ OnlyRuntime(r)
        /\ ~hrt[r].closed /\ hrt[r].down = "up" /\ ~hrt[r].frozen /\ ~(r < hsvc.cur)
        /\ ~(r = hsvc.cur /\ happ \in Replacing) /\ "probe" \notin hrt[r].jobs
        /\ hrt'[r].closed = hrt[r].closed
        /\ hrt'[r].frozen = hrt[r].frozen
        /\ hrt'[r].jobs = hrt[r].jobs
        /\ hrt'[r].down = hrt[r].down
        /\ hrt'[r].toClose = hrt[r].toClose
        /\ hrt'[r].warm = hrt[r].warm
    BY <1>types, <2>1, <1>6, AdmitsFacts, Holding DEF HlChange, KeepsShutdown, Activities
  <2>4. hsvc' = hsvc /\ happ' = happ
    BY <1>6 DEF HlChange
  <2>5. RuntimeOK(r)'
    BY <1>types, <2>1, <2>2, <2>3, <2>4 DEF RuntimeOK
  <2>6. QED BY <2>3, <2>4, <2>5, RuntimeFrame
<1>7. ASSUME NEW c \in HubClients, HlChangeConnects(c)
      PROVE  RuntimeInv'
  <2>1. PICK r \in Runtimes : r = hcl[c].bound
    BY <1>types, <1>7, ServiceFacts, BoundFacts DEF HlChangeConnects, HlOperation
  <2>2. RuntimeOK(r)
    BY <1>types DEF RuntimeInv
  <2>3. /\ OnlyRuntime(r)
        /\ ~hrt[r].closed /\ hrt[r].down = "up" /\ ~hrt[r].frozen /\ ~(r < hsvc.cur)
        /\ ~(r = hsvc.cur /\ happ \in Replacing) /\ "probe" \notin hrt[r].jobs
        /\ hrt'[r].closed = hrt[r].closed
        /\ hrt'[r].frozen = hrt[r].frozen
        /\ hrt'[r].jobs = hrt[r].jobs
        /\ hrt'[r].down = hrt[r].down
        /\ hrt'[r].toClose = hrt[r].toClose
        /\ hrt'[r].warm = hrt[r].warm
    BY <2>1, <1>7, AdmitsFacts, ReserveFacts DEF HlChangeConnects, Reservable, KeepsShutdown
  <2>4. hsvc' = hsvc /\ happ' = happ
    BY <1>7 DEF HlChangeConnects
  <2>5. RuntimeOK(r)'
    BY <1>types, <2>1, <2>2, <2>3, <2>4 DEF RuntimeOK
  <2>6. QED BY <2>3, <2>4, <2>5, RuntimeFrame
<1>8. ASSUME NEW c \in HubClients, HlChangeEnds(c)
      PROVE  RuntimeInv'
  <2>1. Releases({<<c, 0>>} \cup HlDropped(c))
    BY <1>8, ChangeReleases
  <2>2. hsvc' = hsvc /\ happ' = happ
    BY <1>8 DEF HlChangeEnds
  <2>3. QED BY <2>1, <2>2, RuntimeReleased
<1>9. ASSUME NEW c \in HubClients, HlCommand(c)
      PROVE  RuntimeInv'
  <2>1. hrt' = hrt /\ hsvc' = hsvc /\ happ' = happ
    BY <1>9 DEF HlCommand
  <2>2. QED BY <1>types, <2>1 DEF RuntimeInv, RuntimeOK
<1>10. ASSUME NEW c \in HubClients, HlGroup(c)
      PROVE  RuntimeInv'
  <2>1. PICK r \in Runtimes : r = hcl[c].bound
    BY <1>types, <1>10, ServiceFacts, BoundFacts DEF HlGroup, HlOperation
  <2>2. RuntimeOK(r)
    BY <1>types DEF RuntimeInv
  <2>3. /\ OnlyRuntime(r)
        /\ ~hrt[r].closed /\ hrt[r].down = "up" /\ ~hrt[r].frozen /\ ~(r < hsvc.cur)
        /\ ~(r = hsvc.cur /\ happ \in Replacing) /\ "probe" \notin hrt[r].jobs
        /\ hrt'[r].closed = hrt[r].closed
        /\ hrt'[r].frozen = hrt[r].frozen
        /\ hrt'[r].act = hrt[r].act
        /\ hrt'[r].down = hrt[r].down
        /\ hrt'[r].toClose = hrt[r].toClose
        /\ hrt'[r].warm = hrt[r].warm
        /\ hrt'[r].jobs = hrt[r].jobs \cup {"group"}
    BY <1>types, <2>1, <1>10, AdmitsFacts, GroupHeld DEF HlGroup, KeepsShutdown
  <2>4. hsvc' = hsvc /\ happ' = happ
    BY <1>10 DEF HlGroup
  <2>5. RuntimeOK(r)'
    BY <1>types, <2>1, <2>2, <2>3, <2>4 DEF RuntimeOK
  <2>6. QED BY <2>3, <2>4, <2>5, RuntimeFrame
<1>11. ASSUME NEW c \in HubClients, HlEof(c)
      PROVE  RuntimeInv'
  <2>1. Releases(HlDropped(c))
    BY <1>11, EofReleases
  <2>2. hsvc' = hsvc /\ happ' = happ
    BY <1>11 DEF HlEof
  <2>3. QED BY <2>1, <2>2, RuntimeReleased
<1>12. ASSUME NEW c \in HubClients, NEW t \in hcl[c].cmd, HlCommandEnds(c, t)
      PROVE  RuntimeInv'
  <2>1. Releases({<<c, t>>})
    BY <1>types, <1>12, CommandReleases
  <2>2. hsvc' = hsvc /\ happ' = happ
    BY <1>12 DEF HlCommandEnds
  <2>3. QED BY <2>1, <2>2, RuntimeReleased
<1>13. ASSUME NEW o \in hopens, HlOpened(o)
      PROVE  RuntimeInv'
  <2>1. /\ o[1] \in HubClients /\ o[3] \in Runtimes /\ <<o[1], o[2]>> \in hrt[o[3]].act
    BY <1>types, OpenFacts DEF HlIInv, OpenInv
  <2>2. /\ OnlyRuntime(o[3]) /\ KeepsShutdown(o[3]) /\ hrt'[o[3]].frozen = hrt[o[3]].frozen
        /\ hrt'[o[3]].act \subseteq hrt[o[3]].act /\ hrt'[o[3]].jobs = hrt[o[3]].jobs
    BY <1>13, OpenedCases DEF OpenSucceeds, OpenFails
  <2>3. hsvc' = hsvc /\ happ' = happ
    BY <1>13 DEF HlOpened
  <2>4. RuntimeOK(o[3])'
    BY <1>types, <2>1, <2>2, <2>3 DEF RuntimeOK, RuntimeInv, KeepsShutdown
  <2>5. QED BY <2>1, <2>2, <2>3, <2>4, RuntimeFrame
<1>14. ASSUME NEW r \in Runtimes, HlGroupEnds(r)
      PROVE  RuntimeInv'
  <2>1. r \in Runtimes
    OBVIOUS
  <2>2. RuntimeOK(r)
    BY <1>types DEF RuntimeInv
  <2>3. /\ OnlyRuntime(r)
        /\ hrt'[r].closed = hrt[r].closed
        /\ hrt'[r].frozen = hrt[r].frozen
        /\ hrt'[r].act = hrt[r].act
        /\ hrt'[r].down = hrt[r].down
        /\ hrt'[r].toClose = hrt[r].toClose
        /\ hrt'[r].warm = hrt[r].warm
        /\ hrt'[r].jobs = hrt[r].jobs \ {"group"}
    BY <1>types, <2>1, <1>14, GroupOver DEF KeepsShutdown
  <2>4. hsvc' = hsvc /\ happ' = happ
    BY <1>14 DEF HlGroupEnds
  <2>5. RuntimeOK(r)'
    BY <1>types, <2>1, <2>2, <2>3, <2>4 DEF RuntimeOK
  <2>6. QED BY <2>3, <2>4, <2>5, RuntimeFrame
<1>15. ASSUME NEW r \in Runtimes, HlDiscovered(r)
      PROVE  RuntimeInv'
  <2>1. r \in Runtimes
    OBVIOUS
  <2>2. RuntimeOK(r)
    BY <1>types DEF RuntimeInv
  <2>3. /\ OnlyRuntime(r)
        /\ hrt'[r].closed = hrt[r].closed
        /\ hrt'[r].act = hrt[r].act
        /\ hrt'[r].down = hrt[r].down
        /\ hrt'[r].toClose = hrt[r].toClose
        /\ hrt'[r].warm = hrt[r].warm
        /\ \/ "probe" \in hrt[r].jobs /\ hrt'[r].jobs = hrt[r].jobs \ {"probe"}
           \/ hrt'[r].jobs = hrt[r].jobs \ {"catalog"} /\ hrt'[r].frozen = hrt[r].frozen
    BY <1>types, <2>1, <1>15, DiscoveredFacts DEF KeepsShutdown
  <2>4. hsvc' = hsvc /\ happ' = happ
    BY <1>15 DEF HlDiscovered
  <2>5. RuntimeOK(r)'
    BY <1>types, <2>1, <2>2, <2>3, <2>4 DEF RuntimeOK
  <2>6. QED BY <2>3, <2>4, <2>5, RuntimeFrame
<1>16. ASSUME NEW r \in Runtimes, HlDown(r)
      PROVE  RuntimeInv'
  <2>1. r \in Runtimes
    OBVIOUS
  <2>2. RuntimeOK(r)
    BY <1>types DEF RuntimeInv
  <2>3. /\ OnlyRuntime(r)
        /\ hrt'[r].closed = hrt[r].closed
        /\ hrt'[r].frozen = hrt[r].frozen
        /\ hrt'[r].act = hrt[r].act
        /\ hrt'[r].jobs = hrt[r].jobs
        /\ hrt'[r].toClose = hrt[r].toClose
        /\ hrt'[r].down = "down"
        /\ hrt'[r].warm = hrt[r].warm \/ hrt'[r].warm = FALSE
    BY <1>types, <1>16, DownFacts
  <2>4. /\ hsvc' = hsvc /\ happ' = happ
        /\ hrt[r].down = "closing"
        /\ hrt[r].toClose = {} /\ hrt[r].jobs = {}
    BY <1>16, <2>1 DEF HlDown
  <2>5. RuntimeOK(r)'
    BY <1>types, <2>1, <2>2, <2>3, <2>4 DEF RuntimeOK, KeepsUse
  <2>6. QED BY <2>3, <2>4, <2>5, RuntimeFrame
<1>17. ASSUME NEW r \in Runtimes, NEW c \in HubClients, HlCloseClient(r, c)
      PROVE  RuntimeInv'
  <2>1. r \in Runtimes
    OBVIOUS
  <2>2. RuntimeOK(r)
    BY <1>types DEF RuntimeInv
  <2>3. /\ OnlyRuntime(r)
        /\ hrt'[r].closed = hrt[r].closed
        /\ hrt'[r].frozen = hrt[r].frozen
        /\ hrt'[r].jobs = hrt[r].jobs
        /\ hrt'[r].down = hrt[r].down
        /\ hrt'[r].warm = hrt[r].warm
        /\ hrt'[r].act \subseteq hrt[r].act
    <3>1. /\ OnlyRuntime(r) /\ hrt'[r].closed = hrt[r].closed /\ hrt'[r].down = hrt[r].down
          /\ hrt'[r].jobs = hrt[r].jobs /\ hrt'[r].warm = hrt[r].warm
          /\ hrt'[r].frozen = hrt[r].frozen
          /\ hrt'[r].act = IF hcl[c].bound = r THEN hrt[r].act \ HlDropped(c) ELSE hrt[r].act
      BY <1>types, <1>17, ClientClosed
    <3>2. QED BY <3>1
  <2>4. /\ hsvc' = hsvc /\ happ' = happ
        /\ hrt[r].down = "closing"
    BY <1>17, <2>1 DEF HlCloseClient
  <2>5. RuntimeOK(r)'
    BY <1>types, <2>1, <2>2, <2>3, <2>4 DEF RuntimeOK, KeepsUse
  <2>6. QED BY <2>3, <2>4, <2>5, RuntimeFrame
<1>18. ASSUME NEW r \in Runtimes, HlCools(r)
      PROVE  RuntimeInv'
  <2>1. r \in Runtimes
    OBVIOUS
  <2>2. RuntimeOK(r)
    BY <1>types DEF RuntimeInv
  <2>3. /\ OnlyRuntime(r)
        /\ hrt'[r].closed = hrt[r].closed
        /\ hrt'[r].frozen = hrt[r].frozen
        /\ hrt'[r].act = hrt[r].act
        /\ hrt'[r].jobs = hrt[r].jobs
        /\ hrt'[r].down = hrt[r].down
        /\ hrt'[r].toClose = hrt[r].toClose
        /\ hrt'[r].warm = FALSE
    BY <1>types, <2>1, <1>18, Warms DEF HlCools, KeepsShutdown
  <2>4. hsvc' = hsvc /\ happ' = happ
    BY <1>18 DEF HlCools
  <2>5. RuntimeOK(r)'
    BY <1>types, <2>1, <2>2, <2>3, <2>4 DEF RuntimeOK
  <2>6. QED BY <2>3, <2>4, <2>5, RuntimeFrame
<1>19. ASSUME NEW native \in BOOLEAN, HlDiscover(native)
      PROVE  RuntimeInv'
  <2>1. PICK r \in Runtimes : r = hsvc.cur
    BY <1>types, <1>19, ServiceFacts, BoundFacts DEF HlDiscover, HlOperation
  <2>2. RuntimeOK(r)
    BY <1>types DEF RuntimeInv
  <2>3. /\ OnlyRuntime(r)
        /\ ~hrt[r].closed /\ hrt[r].down = "up" /\ ~hrt[r].frozen /\ ~(r < hsvc.cur)
        /\ ~(r = hsvc.cur /\ happ \in Replacing) /\ "probe" \notin hrt[r].jobs
        /\ hrt'[r].closed = hrt[r].closed
        /\ hrt'[r].act = hrt[r].act
        /\ hrt'[r].down = hrt[r].down
        /\ hrt'[r].toClose = hrt[r].toClose
        /\ hrt'[r].warm = hrt[r].warm
        /\ hrt'[r].frozen = native
        /\ hrt'[r].jobs = hrt[r].jobs \cup {IF native THEN "probe" ELSE "catalog"}
        /\ native => hrt[r].act = {} /\ hrt[r].jobs = {} /\ ~hrt[r].warm
    BY <1>types, <2>1, <1>19, AdmitsFacts, DiscoverFacts DEF HlDiscover, ProbeAllowed, HlIdle, KeepsShutdown
  <2>4. hsvc' = hsvc /\ happ' = happ
    BY <1>19 DEF HlDiscover
  <2>5. RuntimeOK(r)'
    BY <1>types, <2>1, <2>2, <2>3, <2>4 DEF RuntimeOK
  <2>6. QED BY <2>3, <2>4, <2>5, RuntimeFrame
<1>20. ASSUME NEW job \in {"create", "delete"}, HlCredential(job)
      PROVE  RuntimeInv'
  BY <1>types, <1>20 DEF HlCredential, RuntimeOK, RuntimeInv
<1>21. ASSUME HlCredentialStored
      PROVE  RuntimeInv'
  BY <1>types, <1>21 DEF HlCredentialStored, RuntimeOK, RuntimeInv
<1>22. ASSUME HlApply
      PROVE  RuntimeInv'
  BY <1>types, <1>22 DEF HlApply, RuntimeOK, RuntimeInv, Replacing
<1>23. ASSUME HlQuiesce
      PROVE  RuntimeInv'
  <2>1. CASE happ' = "idle" /\ hrt' = hrt /\ hsvc' = [hsvc EXCEPT !.lock = "free"]
    <3>1. hsvc'.cur = hsvc.cur
      BY <1>types, <2>1 DEF HlTypeOK, Services
    <3>2. QED BY <1>types, <2>1, <3>1 DEF RuntimeOK, RuntimeInv, Replacing
  <2>2. CASE happ' # "idle"
    <3>1. /\ HlQuiescent(hsvc.cur) /\ happ' = "quiesced" /\ hsvc' = hsvc
          /\ OnlyRuntime(hsvc.cur) /\ KeepsShutdown(hsvc.cur) /\ KeepsUse(hsvc.cur)
          /\ hrt'[hsvc.cur].frozen = TRUE
      BY <1>types, <1>23, <2>2, QuiesceFacts
    <3>2. SUFFICES ASSUME NEW r \in Runtimes
                   PROVE  RuntimeOK(r)'
      BY DEF RuntimeInv
    <3>3. RuntimeOK(r)
      BY <1>types DEF RuntimeInv
    <3>4. CASE r # hsvc.cur
      BY <3>1, <3>3, <3>4 DEF RuntimeOK, OnlyRuntime
    <3>5. CASE r = hsvc.cur
      <4>1. /\ hrt'[r].closed = hrt[r].closed /\ hrt'[r].down = hrt[r].down
            /\ hrt'[r].toClose = hrt[r].toClose /\ hrt'[r].act = hrt[r].act
            /\ hrt'[r].jobs = hrt[r].jobs /\ hrt'[r].warm = hrt[r].warm
            /\ hrt'[r].frozen /\ hrt[r].act = {} /\ hrt[r].jobs = {}
        BY <3>1, <3>5 DEF KeepsShutdown, KeepsUse, HlQuiescent, HlIdle
      <4>2. QED BY <3>1, <3>3, <3>5, <4>1 DEF RuntimeOK
    <3>6. QED BY <3>4, <3>5
  <2>3. QED BY <1>types, <1>23, <2>1, <2>2, QuiesceFacts
<1>24. ASSUME HlApplying
      PROVE  RuntimeInv'
  BY <1>types, <1>24 DEF HlApplying, RuntimeOK, RuntimeInv, HlTypeOK
<1>25. ASSUME HlPrepared
      PROVE  RuntimeInv'
  BY <1>types, <1>25 DEF HlPrepared, RuntimeOK, RuntimeInv, HlTypeOK
<1>26. ASSUME HlRejected
      PROVE  RuntimeInv'
  <2>1. /\ happ \in Replacing => hrt[hsvc.cur].jobs = {}
        /\ hrt[hsvc.cur].down = "down" => hrt[hsvc.cur].jobs = {}
    BY <1>types, ServiceFacts DEF RuntimeInv, RuntimeOK
  <2>2. /\ OnlyRuntime(hsvc.cur) /\ KeepsShutdown(hsvc.cur) /\ KeepsUse(hsvc.cur)
    BY <1>types, <1>26, ThawFacts DEF HlRejected
  <2>3. /\ happ' \notin Replacing
        /\ hsvc'.cur = hsvc.cur \/ (happ = "drain" /\ hsvc'.cur = hsvc.cur + 1)
        /\ happ \in Replacing \/ hrt[hsvc.cur].down = "down"
        /\ happ = "drain" => hrt[hsvc.cur].down = "down" \/ hsvc'.cur = hsvc.cur
    BY <1>types, <1>26 DEF HlRejected, Replacing, HlTypeOK, Services
  <2>4. SUFFICES ASSUME NEW r \in Runtimes
                 PROVE  RuntimeOK(r)'
    BY DEF RuntimeInv
  <2>5. RuntimeOK(r)
    BY <1>types DEF RuntimeInv
  <2>6. CASE r # hsvc.cur
    <3>1. hrt'[r] = hrt[r]
      BY <2>2, <2>6 DEF OnlyRuntime
    <3>2. r < hsvc'.cur => r < hsvc.cur
      BY <1>types, <1>bounds, <2>3, <2>6, ServiceFacts
    <3>3. QED BY <2>3, <2>5, <3>1, <3>2 DEF RuntimeOK
  <2>7. CASE r = hsvc.cur
    <3>1. /\ hrt'[r].closed = hrt[r].closed /\ hrt'[r].down = hrt[r].down
          /\ hrt'[r].toClose = hrt[r].toClose /\ hrt'[r].act = hrt[r].act
          /\ hrt'[r].jobs = hrt[r].jobs /\ hrt[r].jobs = {}
      BY <2>1, <2>2, <2>3, <2>7 DEF KeepsShutdown, KeepsUse
    <3>2. r < hsvc'.cur => hrt[r].down = "down" /\ hrt[r].act = {}
      BY <2>3, <2>5, <2>7 DEF RuntimeOK, Replacing
    <3>3. QED BY <2>3, <2>5, <3>1, <3>2 DEF RuntimeOK
  <2>8. QED BY <2>6, <2>7
<1>27. ASSUME HlCommitted
      PROVE  RuntimeInv'
  BY <1>types, <1>27 DEF HlCommitted, RuntimeOK, RuntimeInv, HlTypeOK
<1>28. ASSUME HlDrain
      PROVE  RuntimeInv'
  <2>1. PICK r \in Runtimes : r = hsvc.cur
    BY <1>types, <1>28, ServiceFacts, BoundFacts DEF HlDrain, HlOperation
  <2>2. RuntimeOK(r)
    BY <1>types DEF RuntimeInv
  <2>3. /\ OnlyRuntime(r)
        /\ KeepsUse(r) /\ hrt'[r].frozen = hrt[r].frozen
        /\ hrt'[r].down = "closing" /\ hrt'[r].closed = TRUE
    <3>1. HlShutDown(r)
      BY <1>28, <2>1 DEF HlDrain
    <3>2. QED BY <1>types, <3>1, ShutDown
  <2>4. /\ hsvc' = hsvc /\ happ' = happ
        /\ hrt[r].down = "up"
    BY <1>28, <2>1 DEF HlDrain, HlShutDown
  <2>5. RuntimeOK(r)'
    BY <1>types, <2>1, <2>2, <2>3, <2>4 DEF RuntimeOK, KeepsUse
  <2>6. QED BY <2>3, <2>4, <2>5, RuntimeFrame
<1>29. ASSUME HlPublish
      PROVE  RuntimeInv'
  <2>1. /\ happ \in Replacing => hrt[hsvc.cur].jobs = {}
        /\ hrt[hsvc.cur].down = "down" => hrt[hsvc.cur].jobs = {}
    BY <1>types, ServiceFacts DEF RuntimeInv, RuntimeOK
  <2>2. /\ OnlyRuntime(hsvc.cur) /\ KeepsShutdown(hsvc.cur) /\ KeepsUse(hsvc.cur)
    BY <1>types, <1>29, ThawFacts DEF HlPublish
  <2>3. /\ happ' \notin Replacing
        /\ hsvc'.cur = hsvc.cur \/ (happ = "drain" /\ hsvc'.cur = hsvc.cur + 1)
        /\ happ \in Replacing \/ hrt[hsvc.cur].down = "down"
        /\ happ = "drain" => hrt[hsvc.cur].down = "down" \/ hsvc'.cur = hsvc.cur
    <3>1. happ' = "idle" /\ hrt[hsvc.cur].down = "down" /\ happ \in {"drain", "blocking"}
      BY <1>29 DEF HlPublish
    <3>2. CASE happ = "blocking"
      <4>1. hsvc' = [hsvc EXCEPT !.lock = "free", !.cleanup = hrt[hsvc.cur].failed]
        BY <1>29, <3>2 DEF HlPublish
      <4>2. hsvc'.cur = hsvc.cur
        BY <1>types, <4>1 DEF HlTypeOK, Services
      <4>3. QED BY <3>1, <3>2, <4>2 DEF Replacing
    <3>3. CASE happ = "drain"
      <4>1. hsvc'.cur = hsvc.store
        BY <1>types, <1>29, <3>3 DEF HlPublish, HlTypeOK, Services
      <4>2. hsvc.store = hsvc.cur + 1
        BY <3>3 DEF HlIInv, RevisionInv
      <4>3. QED BY <3>1, <3>3, <4>1, <4>2 DEF Replacing
    <3>4. QED BY <3>1, <3>2, <3>3
  <2>4. SUFFICES ASSUME NEW r \in Runtimes
                 PROVE  RuntimeOK(r)'
    BY DEF RuntimeInv
  <2>5. RuntimeOK(r)
    BY <1>types DEF RuntimeInv
  <2>6. CASE r # hsvc.cur
    <3>1. hrt'[r] = hrt[r]
      BY <2>2, <2>6 DEF OnlyRuntime
    <3>2. r < hsvc'.cur => r < hsvc.cur
      BY <1>types, <1>bounds, <2>3, <2>6, ServiceFacts
    <3>3. QED BY <2>3, <2>5, <3>1, <3>2 DEF RuntimeOK
  <2>7. CASE r = hsvc.cur
    <3>1. /\ hrt'[r].closed = hrt[r].closed /\ hrt'[r].down = hrt[r].down
          /\ hrt'[r].toClose = hrt[r].toClose /\ hrt'[r].act = hrt[r].act
          /\ hrt'[r].jobs = hrt[r].jobs /\ hrt[r].jobs = {}
      BY <2>1, <2>2, <2>3, <2>7 DEF KeepsShutdown, KeepsUse
    <3>2. r < hsvc'.cur => hrt[r].down = "down" /\ hrt[r].act = {}
      BY <2>3, <2>5, <2>7 DEF RuntimeOK, Replacing
    <3>3. QED BY <2>3, <2>5, <3>1, <3>2 DEF RuntimeOK
  <2>8. QED BY <2>6, <2>7
<1>30. ASSUME HlUnknown
      PROVE  RuntimeInv'
  <2>1. /\ happ \in Replacing => hrt[hsvc.cur].jobs = {}
        /\ hrt[hsvc.cur].down = "down" => hrt[hsvc.cur].jobs = {}
    BY <1>types, ServiceFacts DEF RuntimeInv, RuntimeOK
  <2>2. /\ OnlyRuntime(hsvc.cur) /\ KeepsShutdown(hsvc.cur) /\ KeepsUse(hsvc.cur)
    BY <1>types, <1>30, ThawFacts DEF HlUnknown
  <2>3. /\ happ' \notin Replacing
        /\ hsvc'.cur = hsvc.cur \/ (happ = "drain" /\ hsvc'.cur = hsvc.cur + 1)
        /\ happ \in Replacing \/ hrt[hsvc.cur].down = "down"
        /\ happ = "drain" => hrt[hsvc.cur].down = "down" \/ hsvc'.cur = hsvc.cur
    <3>1. PICK new \in {hsvc.store, HlNextRevision} :
            hsvc' = [hsvc EXCEPT !.phase = "blocked", !.store = new]
      BY <1>30 DEF HlUnknown, UnknownPhase
    <3>2. hsvc'.cur = hsvc.cur
      BY <1>types, <3>1 DEF HlTypeOK, Services
    <3>3. happ' = "blocking" /\ happ \in Replacing
      BY <1>30 DEF HlUnknown, Replacing
    <3>4. QED BY <3>2, <3>3 DEF Replacing
  <2>4. SUFFICES ASSUME NEW r \in Runtimes
                 PROVE  RuntimeOK(r)'
    BY DEF RuntimeInv
  <2>5. RuntimeOK(r)
    BY <1>types DEF RuntimeInv
  <2>6. CASE r # hsvc.cur
    <3>1. hrt'[r] = hrt[r]
      BY <2>2, <2>6 DEF OnlyRuntime
    <3>2. r < hsvc'.cur => r < hsvc.cur
      BY <1>types, <1>bounds, <2>3, <2>6, ServiceFacts
    <3>3. QED BY <2>3, <2>5, <3>1, <3>2 DEF RuntimeOK
  <2>7. CASE r = hsvc.cur
    <3>1. /\ hrt'[r].closed = hrt[r].closed /\ hrt'[r].down = hrt[r].down
          /\ hrt'[r].toClose = hrt[r].toClose /\ hrt'[r].act = hrt[r].act
          /\ hrt'[r].jobs = hrt[r].jobs /\ hrt[r].jobs = {}
      BY <2>1, <2>2, <2>3, <2>7 DEF KeepsShutdown, KeepsUse
    <3>2. r < hsvc'.cur => hrt[r].down = "down" /\ hrt[r].act = {}
      BY <2>3, <2>5, <2>7 DEF RuntimeOK, Replacing
    <3>3. QED BY <2>3, <2>5, <3>1, <3>2 DEF RuntimeOK
  <2>8. QED BY <2>6, <2>7
<1>31. ASSUME HlStop
      PROVE  RuntimeInv'
  BY <1>types, <1>31 DEF HlStop, RuntimeOK, RuntimeInv
<1>32. ASSUME HlStopping
      PROVE  RuntimeInv'
  BY <1>types, <1>32 DEF HlStopping, RuntimeOK, RuntimeInv
<1>33. ASSUME HlStopDrains
      PROVE  RuntimeInv'
  <2>1. PICK r \in Runtimes : r = hsvc.cur
    BY <1>types, <1>33, ServiceFacts, BoundFacts DEF HlStopDrains, HlOperation
  <2>2. RuntimeOK(r)
    BY <1>types DEF RuntimeInv
  <2>3. /\ OnlyRuntime(r)
        /\ KeepsUse(r) /\ hrt'[r].frozen = hrt[r].frozen
        /\ hrt'[r].down = "closing" /\ hrt'[r].closed = TRUE
    <3>1. HlShutDown(r)
      BY <1>33, <2>1 DEF HlStopDrains
    <3>2. QED BY <1>types, <3>1, ShutDown
  <2>4. /\ hsvc' = hsvc /\ happ' = happ
        /\ hrt[r].down = "up"
    BY <1>33, <2>1 DEF HlStopDrains, HlShutDown
  <2>5. RuntimeOK(r)'
    BY <1>types, <2>1, <2>2, <2>3, <2>4 DEF RuntimeOK, KeepsUse
  <2>6. QED BY <2>3, <2>4, <2>5, RuntimeFrame
<1>34. ASSUME HlStopped
      PROVE  RuntimeInv'
  BY <1>types, <1>34 DEF HlStopped, RuntimeOK, RuntimeInv
<1>35. QED
  BY
     <1>1, <1>2, <1>3, <1>4, <1>5, <1>6, <1>7, <1>8, <1>9, <1>10, <1>11,
     <1>12, <1>13, <1>14, <1>15, <1>16, <1>17, <1>18, <1>19, <1>20, <1>21,
     <1>22, <1>23, <1>24, <1>25, <1>26, <1>27, <1>28, <1>29, <1>30, <1>31,
     <1>32, <1>33, <1>34
  DEF HlNext, HlClientStep, HlApplySteps, HlRuntimeSteps

(* Attempts, tokens and connections together.                              *)
NetInv == OpenInv /\ CommandInv /\ GoneInv /\ ConnectionInv

(* A step that no client takes part in and no activity.                    *)
Quiet ==
  /\ hcl' = hcl /\ hopens' = hopens /\ htok' = htok
  /\ \A r \in Runtimes : hrt'[r].act = hrt[r].act

LEMMA QuietNet ==
  ASSUME HlIInv, Quiet
  PROVE  NetInv'
<1>1. OpenInv'
  BY OpenFacts DEF HlIInv, OpenInv, Quiet
<1>2. CommandInv' /\ GoneInv'
  BY DEF HlIInv, CommandInv, GoneInv, Over, Quiet
<1>3. ASSUME NEW c \in HubClients
      PROVE  ConnectionOK(c)'
  <2>1. ConnectionOK(c) /\ hcl'[c] = hcl[c]
    BY DEF HlIInv, ConnectionInv, Quiet
  <2>2. hcl[c].con = "ready" => hrt'[hcl[c].bound].act = hrt[hcl[c].bound].act
    BY BoundFacts DEF Quiet
  <2>3. QED BY <2>1, <2>2 DEF ConnectionOK, Over, Quiet
<1>4. QED BY <1>1, <1>2, <1>3 DEF NetInv, ConnectionInv

(* The activity of a connection or of a change is not that of an attempt.  *)
LEMMA NotOpeningFacts ==
  ASSUME HlIInv, NEW c \in HubClients, NEW o \in hopens
  PROVE  /\ <<o[1], o[2]>> \notin HlDropped(c) /\ <<o[1], o[2]>> # <<c, 0>>
         /\ \A t \in hcl[c].cmd : <<o[1], o[2]>> # <<c, t>>
         /\ \A x \in HlDropped(c) : x[1] = c
<1>1. o[2] > 0 /\ o[2] \in Nat
  BY OpenFacts DEF HlIInv, OpenInv
<1>2. hcl[c].con = "ready" => o[2] # hcl[c].tok
  BY DEF HlIInv, ConnectionInv, ConnectionOK, Over
<1>3. \A t \in hcl[c].cmd : o[2] # t
  BY DEF HlIInv, CommandInv, Over
<1>4. QED BY <1>1, <1>2, <1>3 DEF HlDropped

(* Another client's connection stays as it was.                            *)
LEMMA OtherConnection ==
  ASSUME HlIInv, NEW c \in HubClients, NEW d \in HubClients, d # c, OnlyClient(c),
         htok' \in Nat, htok' >= htok,
         \A o \in hopens : o[1] # c => o \in hopens',
         \A o \in hopens' : o \in hopens \/ o[2] > htok,
         NEW S, \A x \in S : x[1] = c,
         \A r \in Runtimes : hrt[r].act \ S \subseteq hrt'[r].act
  PROVE  ConnectionOK(d)' /\ \A t \in hcl'[d].cmd : Over(t)'
<1>1. hcl'[d] = hcl[d] /\ htok \in Nat /\ hcl[d].tok \in Nat /\ hcl[d].cmd \subseteq Nat
  BY ClientFacts DEF OnlyClient, HlIInv, HlTypeOK
<1>2. ConnectionOK(d) /\ \A t \in hcl[d].cmd : Over(t)
  BY DEF HlIInv, ConnectionInv, CommandInv
<1>3. ASSUME NEW t \in Nat, Over(t)
      PROVE  Over(t)'
  BY <1>1, <1>3 DEF Over
<1>4. ASSUME hcl[d].con = "pending"
      PROVE  <<d, hcl[d].tok, hcl[d].bound>> \in hopens'
  BY <1>2, <1>4 DEF ConnectionOK
<1>5. ASSUME hcl[d].con = "ready"
      PROVE  <<d, hcl[d].tok>> \in hrt'[hcl[d].bound].act
  BY <1>2, <1>5, BoundFacts DEF ConnectionOK
<1>6. hcl[d].con = "ready" => Over(hcl[d].tok)'
  BY <1>1, <1>2, <1>3 DEF ConnectionOK
<1>7. ConnectionOK(d)'
  <2>1. hcl[d].con # "none" => hcl[d].tok \notin hcl[d].gone /\ ~hcl[d].sclosed /\ hcl[d].bound # 0
    BY <1>2 DEF ConnectionOK
  <2>2. QED BY <1>1, <1>4, <1>5, <1>6, <2>1 DEF ConnectionOK, Over
<1>8. QED BY <1>1, <1>2, <1>3, <1>7

(* What the client c has to show when it gives back S and opens nothing.   *)
LEMMA ClientNet ==
  ASSUME HlIInv, NEW c \in HubClients, OnlyClient(c), hopens' = hopens, htok' = htok,
         NEW S, \A x \in S : x[1] = c, \A o \in hopens : <<o[1], o[2]>> \notin S,
         \A r \in Runtimes : hrt[r].act \ S \subseteq hrt'[r].act,
         \A t \in hcl'[c].cmd : Over(t),
         hcl'[c].tok <= htok, \A t \in hcl'[c].gone : t <= htok,
         ConnectionOK(c)'
  PROVE  NetInv'
<1>1. htok \in Nat
  BY DEF HlIInv, HlTypeOK
<1>2. OpenInv'
  BY OpenFacts DEF HlIInv, OpenInv
<1>3. ASSUME NEW d \in HubClients, d # c
      PROVE  ConnectionOK(d)' /\ \A t \in hcl'[d].cmd : Over(t)'
  BY <1>1, <1>3, OtherConnection
<1>4. \A t : Over(t) => Over(t)'
  BY DEF Over
<1>5. CommandInv' /\ ConnectionInv'
  BY <1>3, <1>4 DEF CommandInv, ConnectionInv
<1>6. GoneInv'
  BY DEF GoneInv, HlIInv, OnlyClient
<1>7. QED BY <1>2, <1>5, <1>6 DEF NetInv


(* A new attempt: its token is above all that were given out.              *)
LEMMA ReserveNet ==
  ASSUME HlIInv, NEW c \in HubClients, NEW change \in {"none", "opening"},
         HlReserve(c, change), Reservable(c), hcl[c].bound \in Runtimes
  PROVE  NetInv'
<1>1. PICK r \in Runtimes : r = hcl[c].bound
  OBVIOUS
<1>2. /\ htok' = htok + 1 /\ htok \in Nat /\ hopens' = hopens \cup {<<c, htok + 1, r>>}
      /\ OnlyRuntime(r) /\ hrt'[r].act = hrt[r].act \cup {<<c, htok + 1>>}
  BY <1>1, ReserveFacts DEF HlIInv, HlTypeOK
<1>3. /\ OnlyClient(c) /\ KeepsBinding(c) /\ KeepsCommands(c)
      /\ hcl'[c].con = "pending" /\ hcl'[c].tok = htok + 1 /\ hcl'[c].gone = hcl[c].gone
  BY Reserved DEF HlIInv
<1>4. \A q \in Runtimes : hrt[q].act \subseteq hrt'[q].act
  BY <1>2 DEF OnlyRuntime
<1>5. OpenInv'
  <2>1. ASSUME NEW o \in hopens'
        PROVE  o[2] > 0 /\ o[2] <= htok' /\ <<o[1], o[2]>> \in hrt'[o[3]].act
    <3>1. CASE o \in hopens
      <4>1. o[2] > 0 /\ o[2] <= htok /\ <<o[1], o[2]>> \in hrt[o[3]].act
        BY <3>1 DEF HlIInv, OpenInv
      <4>2. o[2] \in Nat /\ o[3] \in Runtimes
        BY <3>1, OpenFacts DEF HlIInv
      <4>3. QED BY <1>2, <1>4, <4>1, <4>2
    <3>2. CASE o = <<c, htok + 1, r>>
      BY <1>2, <3>2
    <3>3. QED BY <1>2, <2>1, <3>1, <3>2
  <2>2. ASSUME NEW o \in hopens', NEW p \in hopens', o[2] = p[2]
        PROVE  o = p
    <3>1. \A q \in hopens : q[2] <= htok /\ q[2] \in Nat
      BY OpenFacts DEF HlIInv, OpenInv
    <3>2. o \in hopens /\ p \in hopens => o = p
      BY <2>2 DEF HlIInv, OpenInv
    <3>3. \A q \in hopens : q[2] # htok + 1
      BY <1>2, <3>1
    <3>4. \A q \in hopens' : q \in hopens \/ q = <<c, htok + 1, r>>
      BY <1>2
    <3>5. QED BY <2>2, <3>2, <3>3, <3>4
  <2>3. QED BY <2>1, <2>2 DEF OpenInv
<1>6. ASSUME NEW d \in HubClients, d # c
      PROVE  ConnectionOK(d)' /\ \A t \in hcl'[d].cmd : Over(t)'
  <2>1. \A o \in hopens : o[1] # c => o \in hopens'
    BY <1>2
  <2>2. \A o \in hopens' : o \in hopens \/ o[2] > htok
    BY <1>2
  <2> DEFINE S == {}
  <2>3. (\A x \in S : x[1] = c) /\ \A q \in Runtimes : hrt[q].act \ S \subseteq hrt'[q].act
    BY <1>4
  <2>4. htok' \in Nat /\ htok' >= htok
    BY <1>2
  <2> HIDE DEF S
  <2>5. QED BY <1>3, <1>6, <2>1, <2>2, <2>3, <2>4, OtherConnection
<1>7. /\ \A t \in hcl[c].cmd : Over(t) /\ t \in Nat
      /\ \A t \in hcl[c].gone : t <= htok /\ t \in Nat
  BY ClientFacts DEF HlIInv, CommandInv, GoneInv
<1>8. \A t \in hcl'[c].cmd : Over(t)'
  BY <1>2, <1>3, <1>7 DEF KeepsCommands, Over
<1>9. ConnectionOK(c)'
  <2>1. hcl'[c].bound = r /\ r # 0 /\ ~hcl'[c].sclosed
    BY <1>1, <1>3 DEF KeepsBinding, Reservable, Runtimes
  <2>2. htok + 1 \notin hcl[c].gone
    BY <1>2, <1>7
  <2>3. QED BY <1>2, <1>3, <2>1, <2>2 DEF ConnectionOK
<1>10. GoneInv'
  <2>1. ASSUME NEW d \in HubClients
        PROVE  hcl'[d].tok <= htok' /\ \A t \in hcl'[d].gone : t <= htok'
    <3>1. /\ hcl[d].tok <= htok /\ hcl[d].tok \in Nat
          /\ \A t \in hcl[d].gone : t <= htok /\ t \in Nat
      BY ClientFacts DEF HlIInv, GoneInv
    <3>2. CASE d = c
      BY <1>2, <1>3, <3>1, <3>2
    <3>3. CASE d # c
      BY <1>2, <1>3, <3>1, <3>3 DEF OnlyClient
    <3>4. QED BY <3>2, <3>3
  <2>2. QED BY <2>1 DEF GoneInv
<1>11. QED BY <1>5, <1>6, <1>8, <1>9, <1>10 DEF NetInv, CommandInv, ConnectionInv

LEMMA KeepsNet ==
  ASSUME HlIInv, NEW c \in HubClients, OnlyClient(c), KeepsBinding(c), KeepsConnection(c),
         hopens' = hopens, htok' = htok,
         NEW S, \A x \in S : x[1] = c, \A o \in hopens : <<o[1], o[2]>> \notin S,
         hcl[c].con = "ready" => <<c, hcl[c].tok>> \notin S,
         \A r \in Runtimes : hrt[r].act \ S \subseteq hrt'[r].act,
         \A t \in hcl'[c].cmd : Over(t)
  PROVE  NetInv'
<1>1. ConnectionOK(c) /\ hcl[c].tok <= htok /\ \A t \in hcl[c].gone : t <= htok
  BY DEF HlIInv, ConnectionInv, GoneInv
<1>2. /\ hcl'[c].con = hcl[c].con /\ hcl'[c].tok = hcl[c].tok /\ hcl'[c].gone = hcl[c].gone
      /\ hcl'[c].bound = hcl[c].bound /\ hcl'[c].sclosed = hcl[c].sclosed
  BY DEF KeepsBinding, KeepsConnection
<1>3. hcl[c].con = "ready" => <<c, hcl[c].tok>> \in hrt'[hcl[c].bound].act
  BY <1>1, BoundFacts DEF ConnectionOK
<1>4. ConnectionOK(c)'
  BY <1>1, <1>2, <1>3 DEF ConnectionOK, Over
<1>5. QED BY <1>1, <1>2, <1>4, ClientNet

LEMMA TokenFacts ==
  ASSUME HlIInv
  PROVE  htok \in Nat /\ 0 <= htok
BY DEF HlIInv, HlTypeOK

LEMMA DropsNet ==
  ASSUME HlIInv, NEW c \in HubClients, OnlyClient(c), KeepsCommands(c),
         hopens' = hopens, htok' = htok, hcl'[c].con = "none",
         hcl'[c].tok \in {0, hcl[c].tok}, hcl'[c].gone = hcl[c].gone \cup {hcl[c].tok},
         NEW S, \A x \in S : x[1] = c, \A o \in hopens : <<o[1], o[2]>> \notin S,
         \A r \in Runtimes : hrt[r].act \ S \subseteq hrt'[r].act
  PROVE  NetInv'
<1>1. /\ hcl[c].tok <= htok /\ \A t \in hcl[c].gone : t <= htok
      /\ \A t \in hcl[c].cmd : Over(t) /\ htok \in Nat
  BY DEF HlIInv, GoneInv, CommandInv, HlTypeOK
<1>2. ConnectionOK(c)'
  BY DEF ConnectionOK
<1>3. hcl'[c].tok <= htok /\ \A t \in hcl'[c].gone : t <= htok
  <2>1. 0 <= htok
    BY TokenFacts
  <2>2. hcl'[c].tok <= htok
    BY <1>1, <2>1
  <2>3. \A t \in hcl'[c].gone : t <= htok
    BY <1>1
  <2>4. QED BY <2>2, <2>3
<1>4. \A t \in hcl'[c].cmd : Over(t)
  <2>1. hcl'[c].cmd = hcl[c].cmd
    BY DEF KeepsCommands
  <2>2. QED BY <1>1, <2>1
<1>5. QED BY <1>2, <1>3, <1>4, ClientNet

(* Nothing is given back, or the activity of the connection is.           *)
LEMMA KeepsAllNet ==
  ASSUME HlIInv, NEW c \in HubClients, OnlyClient(c), KeepsBinding(c), KeepsConnection(c),
         hopens' = hopens, htok' = htok,
         \A r \in Runtimes : hrt[r].act \subseteq hrt'[r].act,
         \A t \in hcl'[c].cmd : Over(t)
  PROVE  NetInv'
<1> DEFINE S == {}
<1>1. /\ \A x \in S : x[1] = c
      /\ \A o \in hopens : <<o[1], o[2]>> \notin S
      /\ <<c, hcl[c].tok>> \notin S
      /\ \A r \in Runtimes : hrt[r].act \ S \subseteq hrt'[r].act
  OBVIOUS
<1> HIDE DEF S
<1>2. QED BY <1>1, KeepsNet

LEMMA DropsOwnNet ==
  ASSUME HlIInv, NEW c \in HubClients, OnlyClient(c), KeepsCommands(c),
         hopens' = hopens, htok' = htok, hcl'[c].con = "none",
         hcl'[c].tok \in {0, hcl[c].tok}, hcl'[c].gone = hcl[c].gone \cup {hcl[c].tok},
         \A r \in Runtimes : hrt[r].act \ HlDropped(c) \subseteq hrt'[r].act
  PROVE  NetInv'
<1> DEFINE S == HlDropped(c)
<1>1. \A x \in S : x[1] = c
  BY DEF HlDropped
<1>2. ASSUME NEW o \in hopens
      PROVE  <<o[1], o[2]>> \notin S
  <2>1. <<o[1], o[2]>> \notin HlDropped(c)
    BY NotOpeningFacts
  <2>2. QED BY <2>1
<1> HIDE DEF S
<1>3. \A r \in Runtimes : hrt[r].act \ S \subseteq hrt'[r].act
  BY DEF S
<1>4. QED BY <1>1, <1>2, <1>3, DropsNet

LEMMA ClientStepNet ==
  ASSUME HlIInv, NEW c \in HubClients, HlClientStep(c)
  PROVE  NetInv'
<1>1. /\ HlTypeOK /\ \A t \in hcl[c].cmd : Over(t)
      /\ ConnectionOK(c) /\ hcl[c].tok \in Nat
  BY ClientFacts DEF HlIInv, CommandInv, ConnectionInv
<1>2. ASSUME hcl[c].con = "ready"
      PROVE  Over(hcl[c].tok)
  BY <1>1, <1>2 DEF ConnectionOK
<1>3. ASSUME OnlyClient(c), KeepsBinding(c), KeepsConnection(c), KeepsCommands(c),
             hopens' = hopens, htok' = htok,
             \A r \in Runtimes : hrt[r].act \subseteq hrt'[r].act
      PROVE  NetInv'
  <2>1. \A t \in hcl'[c].cmd : Over(t)
    <3>1. hcl'[c].cmd = hcl[c].cmd
      BY <1>3 DEF KeepsCommands
    <3>2. QED BY <1>1, <3>1
  <2>2. QED BY <1>3, <2>1, KeepsAllNet
<1>4. CASE HlRuntime(c)
  <2>1. hopens' = hopens /\ htok' = htok /\ hrt' = hrt
    BY <1>4 DEF HlRuntime
  <2>2. QED BY <1>1, <1>3, <1>4, <2>1, ServiceFacts, RuntimeSeen
<1>5. CASE HlBind(c)
  <2>1. hopens' = hopens /\ htok' = htok
    BY <1>5 DEF HlBind
  <2>2. CASE hcl[c].bound = hcl[c].seen
    <3>1. hrt' = hrt
      BY <1>5, <2>2 DEF HlBind
    <3>2. QED BY <1>1, <1>3, <1>5, <2>1, <2>2, <3>1, BoundAgain
  <2>3. CASE hcl[c].bound # hcl[c].seen
    <3>1. \A r \in Runtimes : hrt[r].act \ HlDropped(c) \subseteq hrt'[r].act
      BY <1>5, BindReleases DEF Releases
    <3>2. /\ OnlyClient(c) /\ KeepsCommands(c) /\ hcl'[c].con = "none" /\ hcl'[c].tok = 0
          /\ hcl'[c].gone = hcl[c].gone \cup {hcl[c].tok}
      BY <1>1, <1>5, <2>3, BindCases, BoundAnew
    <3>3. QED BY <2>1, <3>1, <3>2, DropsOwnNet
  <2>4. QED BY <2>2, <2>3
<1>6. CASE HlRefused(c)
  <2>1. hopens' = hopens /\ htok' = htok /\ hrt' = hrt
    BY <1>6 DEF HlRefused
  <2>2. QED BY <1>1, <1>3, <1>6, <2>1, Refused
<1>7. CASE HlDisconnect(c)
  <2>1. hopens' = hopens /\ htok' = htok
    BY <1>7 DEF HlDisconnect
  <2>2. \A r \in Runtimes : hrt[r].act \ HlDropped(c) \subseteq hrt'[r].act
    BY <1>7, DisconnectReleases DEF Releases
  <2>3. /\ OnlyClient(c) /\ KeepsCommands(c) /\ hcl'[c].con = "none"
        /\ hcl'[c].tok = hcl[c].tok /\ hcl'[c].gone = hcl[c].gone \cup {hcl[c].tok}
    BY <1>1, <1>7, Disconnected
  <2>4. QED BY <2>1, <2>2, <2>3, DropsOwnNet
<1>8. CASE HlChange(c)
  <2>1. PICK r \in Runtimes : r = hcl[c].bound
    BY <1>8, BoundFacts DEF HlChange, HlOperation
  <2>2. hopens' = hopens /\ htok' = htok /\ HlHold(r, <<c, 0>>) /\ <<c, 0>> \in Activities
    BY <1>8, <2>1 DEF HlChange, Activities
  <2>3. \A q \in Runtimes : hrt[q].act \subseteq hrt'[q].act
    BY <1>1, <2>2, Holding DEF OnlyRuntime
  <2>4. QED BY <1>1, <1>3, <1>8, <2>2, <2>3, Changing
<1>9. CASE HlChangeEnds(c)
  <2>1. hopens' = hopens /\ htok' = htok
    BY <1>9 DEF HlChangeEnds
  <2>2. CASE hcl[c].change = "disconnect" /\ hcl[c].con # "none"
    <3> DEFINE S == {<<c, 0>>} \cup HlDropped(c)
    <3>1. \A r \in Runtimes : hrt[r].act \ S \subseteq hrt'[r].act
      BY <1>9, ChangeReleases DEF Releases
    <3>2. /\ OnlyClient(c) /\ KeepsCommands(c) /\ hcl'[c].con = "none"
          /\ hcl'[c].tok = hcl[c].tok /\ hcl'[c].gone = hcl[c].gone \cup {hcl[c].tok}
      BY <1>1, <1>9, <2>2, ChangeDropped
    <3>3. \A x \in S : x[1] = c
      BY DEF HlDropped
    <3>5. ASSUME NEW o \in hopens
          PROVE  <<o[1], o[2]>> \notin S
      <4>1. <<o[1], o[2]>> \notin HlDropped(c) /\ <<o[1], o[2]>> # <<c, 0>>
        BY NotOpeningFacts
      <4>2. QED BY <4>1
    <3> HIDE DEF S
    <3>4. QED BY <2>1, <3>1, <3>2, <3>3, <3>5, DropsNet
  <2>3. CASE ~(hcl[c].change = "disconnect" /\ hcl[c].con # "none")
    <3> DEFINE S == {<<c, 0>>}
    <3>1. hcl[c].bound \in Runtimes
      BY <1>9, BoundFacts DEF HlChangeEnds
    <3>2. hrt' = [hrt EXCEPT ![hcl[c].bound].act = @ \ S]
      BY <1>9, <2>3 DEF HlChangeEnds
    <3>3. Releases(S)
      <4> HIDE DEF S
      <4>1. QED BY <1>1, <3>1, <3>2, ReleaseOne
    <3>4. \A r \in Runtimes : hrt[r].act \ S \subseteq hrt'[r].act
      BY <3>3 DEF Releases
    <3>5. /\ \A x \in S : x[1] = c
          /\ hcl[c].con = "ready" => <<c, hcl[c].tok>> \notin S
      BY <1>1, <1>2 DEF Over
    <3>8. \A o \in hopens : <<o[1], o[2]>> \notin S
      BY NotOpeningFacts
    <3>6. /\ OnlyClient(c) /\ KeepsBinding(c) /\ KeepsConnection(c)
          /\ \A t \in hcl'[c].cmd : Over(t)
      BY <1>1, <1>9, <2>3, ChangeOver DEF KeepsCommands
    <3> HIDE DEF S
    <3>7. QED BY <2>1, <3>4, <3>5, <3>6, <3>8, KeepsNet
  <2>4. QED BY <2>2, <2>3
<1>10. CASE HlCommand(c)
  <2>1. /\ hopens' = hopens /\ htok' = htok /\ hrt' = hrt /\ hcl[c].con = "ready"
    BY <1>10 DEF HlCommand
  <2>2. OnlyClient(c) /\ KeepsBinding(c) /\ KeepsConnection(c)
    BY <1>1, <1>10, Commanded
  <2>3. hcl'[c].cmd = hcl[c].cmd \cup {hcl[c].tok}
    BY <1>1, <1>10, Commanded
  <2>4. \A t \in hcl'[c].cmd : Over(t)
    BY <1>1, <1>2, <2>1, <2>3
  <2>5. QED BY <2>1, <2>2, <2>4, KeepsAllNet
<1>11. CASE HlGroup(c)
  <2>1. PICK r \in Runtimes : r = hcl[c].bound
    BY <1>11, BoundFacts DEF HlGroup, HlOperation
  <2>2. /\ hopens' = hopens /\ htok' = htok
        /\ hrt' = [hrt EXCEPT ![r].jobs = @ \cup {"group"}]
    BY <1>11, <2>1 DEF HlGroup
  <2>3. \A q \in Runtimes : hrt[q].act \subseteq hrt'[q].act
    BY <1>1, <2>2, GroupHeld DEF OnlyRuntime
  <2>4. QED BY <1>1, <1>3, <1>11, <2>2, <2>3, Grouped
<1>12. CASE HlEof(c)
  <2>1. hopens' = hopens /\ htok' = htok
    BY <1>12 DEF HlEof
  <2>2. \A r \in Runtimes : hrt[r].act \ HlDropped(c) \subseteq hrt'[r].act
    BY <1>12, EofReleases DEF Releases
  <2>3. /\ OnlyClient(c) /\ KeepsCommands(c) /\ hcl'[c].con = "none"
        /\ hcl'[c].tok = hcl[c].tok /\ hcl'[c].gone = hcl[c].gone \cup {hcl[c].tok}
    BY <1>1, <1>12, StreamEnds
  <2>4. QED BY <2>1, <2>2, <2>3, DropsOwnNet
<1>13. ASSUME NEW t \in hcl[c].cmd, HlCommandEnds(c, t)
       PROVE  NetInv'
  <2>1. hopens' = hopens /\ htok' = htok
    BY <1>13 DEF HlCommandEnds
  <2>2. /\ OnlyClient(c) /\ KeepsBinding(c) /\ KeepsConnection(c)
        /\ \A u \in hcl'[c].cmd : Over(u)
    BY <1>1, <1>13, CommandOver
  <2>3. CASE hcl[c].con = "ready" /\ hcl[c].tok = t
    <3>1. hrt' = hrt
      BY <1>1, <1>13, <2>3, CommandReleases
    <3>2. QED BY <2>1, <2>2, <3>1, KeepsAllNet
  <2>4. CASE ~(hcl[c].con = "ready" /\ hcl[c].tok = t)
    <3> DEFINE S == {<<c, t>>}
    <3>1. \A r \in Runtimes : hrt[r].act \ S \subseteq hrt'[r].act
      BY <1>1, <1>13, CommandReleases DEF Releases
    <3>2. /\ \A x \in S : x[1] = c
          /\ hcl[c].con = "ready" => <<c, hcl[c].tok>> \notin S
      BY <2>4
    <3>3. \A o \in hopens : <<o[1], o[2]>> \notin S
      BY <1>13, NotOpeningFacts
    <3> HIDE DEF S
    <3>4. QED BY <2>1, <2>2, <3>1, <3>2, <3>3, KeepsNet
  <2>5. QED BY <2>3, <2>4
<1>14. CASE HlConnect(c)
  <2>1. hcl[c].bound \in Runtimes /\ HlReserve(c, "none") /\ Reservable(c)
    BY <1>14, BoundFacts DEF HlConnect, HlOperation
  <2>2. QED BY <2>1, ReserveNet
<1>15. CASE HlChangeConnects(c)
  <2>1. hcl[c].bound \in Runtimes /\ HlReserve(c, "opening") /\ Reservable(c)
    BY <1>15, BoundFacts DEF HlChangeConnects
  <2>2. QED BY <2>1, ReserveNet
<1>16. QED
  BY <1>4, <1>5, <1>6, <1>7, <1>8, <1>9, <1>10, <1>11, <1>12, <1>13, <1>14, <1>15
  DEF HlClientStep

(* An attempt that ended: it is the connection now, or nobody waits.       *)
LEMMA OpenedNet ==
  ASSUME HlIInv, NEW o \in hopens, HlOpened(o)
  PROVE  NetInv'
<1>1. PICK c \in HubClients, t \in Nat, r \in Runtimes : o = <<c, t, r>>
  BY OpenFacts DEF HlIInv
<1>2. /\ t > 0 /\ t <= htok /\ <<c, t>> \in hrt[r].act /\ htok \in Nat /\ htok' = htok
      /\ \A p \in hopens : p # o => p[2] # t
  BY <1>1 DEF HlIInv, OpenInv, HlTypeOK, HlOpened
<1>3. /\ hopens' = hopens \ {o} /\ OnlyClient(c) /\ KeepsBinding(c) /\ KeepsCommands(c)
      /\ OnlyRuntime(r)
  BY <1>1, OpenedCases DEF OpenSucceeds, OpenFails
<1>4. (OpenSucceeds(o) /\ hrt'[r].act = hrt[r].act)
      \/ (OpenFails(o) /\ hrt'[r].act = hrt[r].act \ {<<c, t>>})
  BY <1>1, OpenedCases DEF OpenSucceeds, OpenFails
<1>5. \A q \in Runtimes : hrt[q].act \ {<<c, t>>} \subseteq hrt'[q].act
  BY <1>3, <1>4 DEF OnlyRuntime
<1>6. OpenInv'
  <2>1. ASSUME NEW p \in hopens, p # o
        PROVE  p[2] > 0 /\ p[2] <= htok' /\ <<p[1], p[2]>> \in hrt'[p[3]].act
    <3>1. p[2] > 0 /\ p[2] <= htok /\ <<p[1], p[2]>> \in hrt[p[3]].act /\ p[3] \in Runtimes
      BY OpenFacts DEF HlIInv, OpenInv
    <3>2. <<p[1], p[2]>> # <<c, t>>
      BY <1>2, <2>1
    <3>3. QED BY <1>2, <1>5, <3>1, <3>2
  <2>2. \A p, q \in hopens : p[2] = q[2] => p = q
    BY DEF HlIInv, OpenInv
  <2>3. QED BY <1>3, <2>1, <2>2 DEF OpenInv
<1>7. ASSUME NEW d \in HubClients, d # c
      PROVE  ConnectionOK(d)' /\ \A u \in hcl'[d].cmd : Over(u)'
  <2> DEFINE S == {<<c, t>>}
  <2>1. \A p \in hopens : p[1] # c => p \in hopens'
    BY <1>1, <1>3
  <2>2. \A p \in hopens' : p \in hopens \/ p[2] > htok
    BY <1>3
  <2>3. htok' \in Nat /\ htok' >= htok
    BY <1>2
  <2>4. (\A x \in S : x[1] = c) /\ \A q \in Runtimes : hrt[q].act \ S \subseteq hrt'[q].act
    BY <1>5
  <2> HIDE DEF S
  <2>5. QED BY <1>3, <1>7, <2>1, <2>2, <2>3, <2>4, OtherConnection
<1>8. \A u : Over(u) => Over(u)'
  BY <1>2, <1>3 DEF Over
<1>9. CommandInv'
  <2>1. \A u \in hcl'[c].cmd : Over(u)'
    BY <1>3, <1>8 DEF HlIInv, CommandInv, KeepsCommands
  <2>2. QED BY <1>7, <2>1 DEF CommandInv
<1>10. ConnectionOK(c) /\ hcl[c].tok <= htok /\ \A u \in hcl[c].gone : u <= htok
  BY DEF HlIInv, ConnectionInv, GoneInv
<1>11. CASE OpenSucceeds(o)
  <2>1. /\ hcl[c].bound = r /\ ~hcl[c].sclosed /\ hcl[c].con = "pending" /\ hcl[c].tok = t
        /\ hcl'[c].con = "ready" /\ hcl'[c].tok = t /\ hcl'[c].gone = hcl[c].gone
        /\ hrt'[r].act = hrt[r].act
    BY <1>1, <1>11 DEF OpenSucceeds, StillWanted
  <2>2. Over(t)'
    BY <1>2, <1>3 DEF Over
  <2>3. hcl'[c].bound = r /\ ~hcl'[c].sclosed /\ r # 0 /\ t \notin hcl[c].gone
    BY <1>3, <1>10, <2>1 DEF KeepsBinding, ConnectionOK
  <2>4. ConnectionOK(c)'
    BY <1>2, <2>1, <2>2, <2>3 DEF ConnectionOK
  <2>5. GoneInv'
    BY <1>2, <1>3, <1>10, <2>1 DEF GoneInv, HlIInv, OnlyClient
  <2>6. QED BY <1>6, <1>7, <1>9, <2>4, <2>5 DEF NetInv, ConnectionInv
<1>12. CASE OpenFails(o) /\ hrt'[r].act = hrt[r].act \ {<<c, t>>}
  <2>1. CASE StillWanted(o)
    <3>1. /\ hcl'[c].con = "none" /\ hcl'[c].tok = hcl[c].tok
          /\ hcl'[c].gone = hcl[c].gone \cup {t}
      BY <1>1, <1>12, <2>1 DEF OpenFails
    <3>2. ConnectionOK(c)'
      BY <3>1 DEF ConnectionOK
    <3>3. GoneInv'
      BY <1>2, <1>3, <1>10, <3>1 DEF GoneInv, HlIInv, OnlyClient
    <3>4. QED BY <1>6, <1>7, <1>9, <3>2, <3>3 DEF NetInv, ConnectionInv
  <2>2. CASE ~StillWanted(o)
    <3>1. hcl' = hcl
      BY <1>12, <2>2 DEF OpenFails
    <3>2. hcl[c].con = "pending" => <<c, hcl[c].tok, hcl[c].bound>> \in hopens'
      <4>1. SUFFICES ASSUME hcl[c].con = "pending"
                     PROVE  <<c, hcl[c].tok, hcl[c].bound>> \in hopens'
        OBVIOUS
      <4>2. <<c, hcl[c].tok, hcl[c].bound>> \in hopens /\ ~hcl[c].sclosed
        BY <1>10, <4>1 DEF ConnectionOK
      <4>3. ~(hcl[c].bound = r /\ hcl[c].tok = t)
        BY <1>1, <2>2, <4>1, <4>2 DEF StillWanted
      <4>4. QED BY <1>1, <1>3, <4>2, <4>3
    <3>3. hcl[c].con = "ready" => Over(hcl[c].tok)' /\ <<c, hcl[c].tok>> \in hrt'[hcl[c].bound].act
      <4>1. SUFFICES ASSUME hcl[c].con = "ready"
                     PROVE  Over(hcl[c].tok)' /\ <<c, hcl[c].tok>> \in hrt'[hcl[c].bound].act
        BY <3>1
      <4>2. Over(hcl[c].tok) /\ <<c, hcl[c].tok>> \in hrt[hcl[c].bound].act
        BY <1>10, <4>1 DEF ConnectionOK
      <4>3. hcl[c].tok # t /\ hcl[c].bound \in Runtimes
        BY <1>1, <4>1, <4>2, BoundFacts DEF Over
      <4>4. Over(hcl[c].tok)'
        BY <1>2, <1>3, <3>1, <4>2 DEF Over
      <4>5. QED BY <1>5, <4>2, <4>3, <4>4
    <3>4. ConnectionOK(c)'
      BY <1>10, <3>1, <3>2, <3>3 DEF ConnectionOK, Over
    <3>5. GoneInv'
      BY <1>2, <3>1 DEF GoneInv, HlIInv
    <3>6. QED BY <1>6, <1>7, <1>9, <3>4, <3>5 DEF NetInv, ConnectionInv
  <2>3. QED BY <2>1, <2>2
<1>13. QED BY <1>4, <1>11, <1>12

(* A runtime that shuts down closes the sessions of its clients.           *)
LEMMA CloseClientNet ==
  ASSUME HlIInv, NEW r \in Runtimes, NEW c \in HubClients, HlCloseClient(r, c)
  PROVE  NetInv'
<1>1. HlTypeOK /\ hopens' = hopens /\ htok' = htok
  BY DEF HlIInv, HlCloseClient
<1>2. /\ OnlyRuntime(r)
      /\ hrt'[r].act = IF hcl[c].bound = r THEN hrt[r].act \ HlDropped(c) ELSE hrt[r].act
  BY <1>1, ClientClosed
<1>3. CASE hcl[c].bound = r
  <2>1. \A q \in Runtimes : hrt[q].act \ HlDropped(c) \subseteq hrt'[q].act
    BY <1>2, <1>3 DEF OnlyRuntime
  <2>2. /\ OnlyClient(c) /\ KeepsCommands(c) /\ hcl'[c].con = "none"
        /\ hcl'[c].tok = hcl[c].tok /\ hcl'[c].gone = hcl[c].gone \cup {hcl[c].tok}
    BY <1>1, <1>3, SessionClosed
  <2>3. QED BY <1>1, <2>1, <2>2, DropsOwnNet
<1>4. CASE hcl[c].bound # r
  <2>1. hcl' = hcl /\ \A q \in Runtimes : hrt'[q].act = hrt[q].act
    BY <1>2, <1>4 DEF OnlyRuntime, HlCloseClient
  <2>2. QED BY <1>1, <2>1, QuietNet DEF Quiet
<1>5. QED BY <1>3, <1>4

(* Attempts, tokens and connections stay together in every step.           *)
LEMMA NetStep ==
  ASSUME HlIInv, HlNext
  PROVE  NetInv'
<1>1. HlTypeOK /\ hsvc.cur \in Runtimes
  BY ServiceFacts DEF HlIInv
<1>2. ASSUME hcl' = hcl, hopens' = hopens, htok' = htok, NEW r \in Runtimes, OnlyRuntime(r),
             hrt'[r].act = hrt[r].act
      PROVE  NetInv'
  BY <1>2, QuietNet DEF Quiet, OnlyRuntime
<1>3. ASSUME hcl' = hcl, hopens' = hopens, htok' = htok, hrt' = hrt
      PROVE  NetInv'
  BY <1>3, QuietNet DEF Quiet
<1>4. ASSUME NEW r \in Runtimes, HlRuntimeSteps(r)
      PROVE  NetInv'
  <2>1. CASE HlGroupEnds(r)
    BY <1>1, <1>2, <2>1, GroupOver DEF HlGroupEnds
  <2>2. CASE HlDiscovered(r)
    BY <1>1, <1>2, <2>2, DiscoveredFacts DEF HlDiscovered
  <2>3. CASE HlDown(r)
    <3>1. hcl' = hcl /\ hopens' = hopens /\ htok' = htok
      BY <2>3 DEF HlDown
    <3>2. QED BY <1>1, <1>2, <2>3, <3>1, DownFacts
  <2>4. QED BY <1>4, <2>1, <2>2, <2>3, CloseClientNet DEF HlRuntimeSteps
<1>5. ASSUME NEW r \in Runtimes, HlCools(r)
      PROVE  NetInv'
  BY <1>1, <1>2, <1>5, Warms DEF HlCools
<1>6. ASSUME NEW native \in BOOLEAN, HlDiscover(native)
      PROVE  NetInv'
  BY <1>1, <1>2, <1>6, DiscoverFacts DEF HlDiscover
<1>7. CASE HlDrain \/ HlStopDrains
  <2>1. /\ hcl' = hcl /\ hopens' = hopens /\ htok' = htok /\ HlShutDown(hsvc.cur)
    BY <1>7 DEF HlDrain, HlStopDrains
  <2>2. QED BY <1>1, <1>2, <2>1, ShutDown DEF KeepsUse
<1>8. CASE HlRejected \/ HlUnknown \/ HlPublish
  <2>1. /\ hcl' = hcl /\ hopens' = hopens /\ htok' = htok /\ hrt' = HlThaw
    BY <1>8 DEF HlRejected, HlUnknown, HlPublish
  <2>2. QED BY <1>1, <1>2, <2>1, ThawFacts DEF KeepsUse
<1>9. CASE HlQuiesce
  <2>1. /\ hcl' = hcl /\ hopens' = hopens /\ htok' = htok
    BY <1>9 DEF HlQuiesce
  <2>2. QED BY <1>1, <1>2, <1>3, <1>9, <2>1, QuiesceFacts DEF KeepsUse
<1>10. ASSUME NEW job, HlCredential(job)
       PROVE  NetInv'
  BY <1>3, <1>10 DEF HlCredential
<1>11. CASE HlCredentialStored \/ HlApply
  BY <1>3, <1>11 DEF HlCredentialStored, HlApply
<1>12. CASE HlApplying \/ HlPrepared \/ HlCommitted
  BY <1>3, <1>12 DEF HlApplying, HlPrepared, HlCommitted
<1>13. CASE HlStop \/ HlStopping \/ HlStopped
  BY <1>3, <1>13 DEF HlStop, HlStopping, HlStopped
<1>14. QED
  BY <1>4, <1>5, <1>6, <1>7, <1>8, <1>9, <1>10, <1>11, <1>12, <1>13, ClientStepNet, OpenedNet
  DEF HlNext, HlApplySteps

(* No runtime goes further in its shutdown.                                *)
KeepsShutdowns == \A r \in Runtimes : hrt'[r].down = hrt[r].down /\ hrt'[r].toClose = hrt[r].toClose

LEMMA BindingClient ==
  ASSUME HlIInv, NEW c \in HubClients, OnlyClient(c), KeepsShutdowns, BindingOK(c)'
  PROVE  BindingInv'
<1>1. ASSUME NEW d \in HubClients, d # c
      PROVE  BindingOK(d)'
  <2>1. hcl'[d] = hcl[d] /\ BindingOK(d)
    BY <1>1 DEF OnlyClient, HlIInv, BindingInv
  <2>2. CASE hcl[d].bound = 0
    BY <2>1, <2>2 DEF BindingOK
  <2>3. CASE hcl[d].bound # 0
    <3>1. PICK r \in Runtimes : r = hcl[d].bound
      BY <2>3, BoundFacts
    <3>2. hrt'[r].down = hrt[r].down /\ hrt'[r].toClose = hrt[r].toClose
      BY DEF KeepsShutdowns
    <3>3. QED BY <2>1, <3>1, <3>2 DEF BindingOK
  <2>4. QED BY <2>2, <2>3
<1>2. QED BY <1>1 DEF BindingInv

(* A client that stays bound where it is.                                  *)
LEMMA StaysBound ==
  ASSUME HlIInv, NEW c \in HubClients, OnlyClient(c), KeepsShutdowns, KeepsBinding(c),
         hcl'[c].req \in {"none", hcl[c].req}, hcl'[c].seen = hcl[c].seen,
         hcl'[c].change # "none" => hcl[c].bound # 0
  PROVE  BindingInv'
<1>1. BindingOK(c)
  BY DEF HlIInv, BindingInv
<1>2. /\ hcl'[c].closed = hcl[c].closed /\ hcl'[c].bound = hcl[c].bound
      /\ hcl'[c].sclosed = hcl[c].sclosed
  BY DEF KeepsBinding
<1>3. hcl[c].bound # 0 => /\ hrt'[hcl[c].bound].down = hrt[hcl[c].bound].down
                          /\ hrt'[hcl[c].bound].toClose = hrt[hcl[c].bound].toClose
  BY BoundFacts DEF KeepsShutdowns
<1>4. BindingOK(c)'
  BY <1>1, <1>2, <1>3 DEF BindingOK
<1>5. QED BY <1>4, BindingClient

LEMMA ReleasesKeep ==
  ASSUME NEW S, Releases(S)
  PROVE  KeepsShutdowns
BY DEF Releases, KeepsShutdowns, KeepsShutdown

LEMMA OnlyRuntimeKeeps ==
  ASSUME NEW r \in Runtimes, OnlyRuntime(r), KeepsShutdown(r)
  PROVE  KeepsShutdowns
BY DEF OnlyRuntime, KeepsShutdowns, KeepsShutdown

LEMMA SameKeeps ==
  ASSUME hrt' = hrt
  PROVE  KeepsShutdowns
BY DEF KeepsShutdowns

LEMMA ClientStepBinding ==
  ASSUME HlIInv, NEW c \in HubClients, HlClientStep(c)
  PROVE  BindingInv'
<1>1. HlTypeOK /\ BindingOK(c) /\ hsvc.cur \in Runtimes /\ \A r \in Runtimes : r # 0
  BY ServiceFacts DEF HlIInv, BindingInv, Runtimes
<1>2. CASE HlRuntime(c)
  <2>1. /\ OnlyClient(c) /\ hcl'[c].req = "runtime" /\ hcl'[c].seen = hsvc.cur
        /\ KeepsBinding(c) /\ KeepsChange(c)
    BY <1>1, <1>2, RuntimeSeen
  <2>2. hrt' = hrt /\ ~hcl[c].closed
    BY <1>2 DEF HlRuntime
  <2>3. BindingOK(c)'
    BY <1>1, <2>1, <2>2 DEF BindingOK, KeepsBinding, KeepsChange
  <2>4. QED BY <2>1, <2>2, <2>3, SameKeeps, BindingClient
<1>3. CASE HlBind(c)
  <2>1. KeepsShutdowns
    BY <1>3, BindReleases, ReleasesKeep
  <2>2. hcl[c].req = "runtime"
    BY <1>3 DEF HlBind
  <2>3. PICK r \in Runtimes : r = hcl[c].seen
    BY <2>2, BoundFacts
  <2>4. CASE hcl[c].bound = hcl[c].seen
    <3>1. /\ OnlyClient(c) /\ hcl'[c].req = "bound" /\ hcl'[c].seen = hcl[c].seen
          /\ KeepsBinding(c) /\ KeepsChange(c)
      BY <1>1, <1>3, <2>4, BoundAgain
    <3>2. hrt'[r].down = hrt[r].down /\ hrt'[r].toClose = hrt[r].toClose
      BY <2>1 DEF KeepsShutdowns
    <3>3. /\ hcl'[c].bound = r /\ hcl'[c].sclosed = hcl[c].sclosed
          /\ hcl'[c].closed = hcl[c].closed /\ hcl[c].bound = r
      BY <2>3, <2>4, <3>1 DEF KeepsBinding
    <3>4. BindingOK(c)'
      BY <1>1, <2>2, <3>1, <3>2, <3>3 DEF BindingOK
    <3>5. QED BY <2>1, <3>1, <3>4, BindingClient
  <2>5. CASE hcl[c].bound # hcl[c].seen
    <3>1. /\ OnlyClient(c) /\ hcl'[c].req = "bound" /\ hcl'[c].bound = r
          /\ hcl'[c].sclosed = hrt[r].closed /\ hcl'[c].closed = hcl[c].closed
      BY <1>1, <1>3, <2>3, <2>5, BindCases, BoundAnew
    <3>2. hrt'[r].down = hrt[r].down
      BY <2>1 DEF KeepsShutdowns
    <3>3. hrt[r].closed <=> hrt[r].down # "up"
      BY DEF HlIInv, RuntimeInv, RuntimeOK
    <3>4. BindingOK(c)'
      BY <1>1, <2>2, <3>1, <3>2, <3>3 DEF BindingOK
    <3>5. QED BY <2>1, <3>1, <3>4, BindingClient
  <2>6. QED BY <2>4, <2>5
<1>4. CASE HlRefused(c)
  BY <1>1, <1>4, Refused, SameKeeps, StaysBound DEF HlRefused, KeepsChange, BindingOK
<1>5. CASE HlDisconnect(c)
  BY <1>1, <1>5, Disconnected, DisconnectReleases, ReleasesKeep, StaysBound
  DEF KeepsChange, BindingOK
<1>6. CASE HlChange(c)
  <2>1. PICK r \in Runtimes : r = hcl[c].bound
    BY <1>6, BoundFacts DEF HlChange, HlOperation
  <2>2. HlHold(r, <<c, 0>>) /\ <<c, 0>> \in Activities
    BY <1>6, <2>1 DEF HlChange, Activities
  <2>3. KeepsShutdowns
    BY <1>1, <2>2, Holding, OnlyRuntimeKeeps
  <2>4. QED BY <1>1, <1>6, <2>1, <2>3, Changing, StaysBound
<1>7. CASE HlChangeEnds(c)
  <2>1. KeepsShutdowns
    BY <1>7, ChangeReleases, ReleasesKeep
  <2>2. /\ OnlyClient(c) /\ KeepsRequest(c) /\ KeepsBinding(c) /\ hcl'[c].change = "none"
    BY <1>1, <1>7, ChangeOver, ChangeDropped
  <2>3. QED BY <2>1, <2>2, StaysBound DEF KeepsRequest
<1>8. CASE HlCommand(c)
  BY <1>1, <1>8, Commanded, SameKeeps, StaysBound DEF HlCommand, KeepsChange, BindingOK
<1>9. CASE HlGroup(c)
  <2>1. PICK r \in Runtimes : r = hcl[c].bound
    BY <1>9, BoundFacts DEF HlGroup, HlOperation
  <2>2. hrt' = [hrt EXCEPT ![r].jobs = @ \cup {"group"}]
    BY <1>9, <2>1 DEF HlGroup
  <2>3. KeepsShutdowns
    BY <1>1, <2>2, GroupHeld, OnlyRuntimeKeeps
  <2>4. QED BY <1>1, <1>9, <2>3, Grouped, StaysBound DEF KeepsChange, BindingOK
<1>10. CASE HlEof(c)
  <2>1. KeepsShutdowns
    BY <1>10, EofReleases, ReleasesKeep
  <2>2. /\ OnlyClient(c) /\ hcl'[c].req = "none" /\ hcl'[c].closed = TRUE
        /\ hcl'[c].sclosed = TRUE /\ hcl'[c].bound = hcl[c].bound /\ KeepsChange(c)
    BY <1>1, <1>10, StreamEnds
  <2>3. BindingOK(c)'
    BY <1>1, <2>2 DEF BindingOK, KeepsChange
  <2>4. QED BY <2>1, <2>2, <2>3, BindingClient
<1>11. ASSUME NEW t \in hcl[c].cmd, HlCommandEnds(c, t)
       PROVE  BindingInv'
  <2>1. KeepsShutdowns
    BY <1>1, <1>11, CommandReleases, ReleasesKeep
  <2>2. OnlyClient(c) /\ KeepsRequest(c) /\ KeepsBinding(c) /\ KeepsChange(c)
    BY <1>1, <1>11, CommandOver
  <2>3. QED BY <1>1, <2>1, <2>2, StaysBound DEF KeepsRequest, KeepsChange, BindingOK
<1>12. ASSUME NEW change \in {"none", "opening"}, HlReserve(c, change),
              hcl[c].bound \in Runtimes
       PROVE  BindingInv'
  <2>1. PICK r \in Runtimes : r = hcl[c].bound
    BY <1>12
  <2>2. OnlyRuntime(r) /\ KeepsShutdown(r)
    BY <1>12, <2>1, ReserveFacts
  <2>3. KeepsShutdowns
    BY <2>2, OnlyRuntimeKeeps
  <2>4. /\ OnlyClient(c) /\ hcl'[c].req \in {"none", hcl[c].req}
        /\ hcl'[c].seen = hcl[c].seen /\ KeepsBinding(c)
    BY <1>1, <1>12, Reserved
  <2>5. hcl[c].bound # 0
    BY <1>1, <1>12
  <2>6. QED BY <2>3, <2>4, <2>5, StaysBound
<1>13. CASE HlConnect(c)
  BY <1>12, <1>13, BoundFacts DEF HlConnect, HlOperation
<1>14. CASE HlChangeConnects(c)
  BY <1>12, <1>14, BoundFacts DEF HlChangeConnects
<1>15. QED
  BY <1>2, <1>3, <1>4, <1>5, <1>6, <1>7, <1>8, <1>9, <1>10, <1>11, <1>13, <1>14
  DEF HlClientStep

(* A runtime shuts down: the sessions of its clients are to be closed.     *)
LEMMA ShutDownBinding ==
  ASSUME HlIInv, NEW r \in Runtimes, HlShutDown(r), hcl' = hcl
  PROVE  BindingInv'
<1>1. /\ OnlyRuntime(r) /\ hrt'[r].toClose = {c \in HubClients : hcl[c].bound = r}
  BY ShutDown DEF HlIInv
<1>2. ASSUME NEW d \in HubClients
      PROVE  BindingOK(d)'
  <2>1. BindingOK(d)
    BY DEF HlIInv, BindingInv
  <2>2. CASE hcl[d].bound = r
    <3>1. d \in hrt'[hcl'[d].bound].toClose
      BY <1>1, <2>2
    <3>2. QED BY <2>1, <3>1 DEF BindingOK
  <2>3. CASE hcl[d].bound # r
    <3>1. hcl[d].bound # 0 => hrt'[hcl[d].bound] = hrt[hcl[d].bound]
      BY <1>1, <2>3, BoundFacts DEF OnlyRuntime
    <3>2. QED BY <2>1, <3>1 DEF BindingOK
  <2>4. QED BY <2>2, <2>3
<1>3. QED BY <1>2 DEF BindingInv

LEMMA DownBinding ==
  ASSUME HlIInv, NEW r \in Runtimes, HlDown(r)
  PROVE  BindingInv'
<1>types. hrt[r].down # "up" /\ hcl' = hcl /\ HlTypeOK
  BY DEF HlIInv, HlDown
<1>1. OnlyRuntime(r) /\ hrt'[r].toClose = hrt[r].toClose
  BY <1>types, DownFacts
<1>2. ASSUME NEW d \in HubClients
      PROVE  BindingOK(d)'
  <2>1. BindingOK(d)
    BY DEF HlIInv, BindingInv
  <2>2. CASE hcl[d].bound = r
    BY <1>types, <1>1, <2>1, <2>2 DEF BindingOK
  <2>3. CASE hcl[d].bound # r
    <3>1. hcl[d].bound # 0 => hrt'[hcl[d].bound] = hrt[hcl[d].bound]
      BY <1>1, <2>3, BoundFacts DEF OnlyRuntime
    <3>2. QED BY <1>types, <2>1, <3>1 DEF BindingOK
  <2>4. QED BY <2>2, <2>3
<1>3. QED BY <1>2 DEF BindingInv

LEMMA CloseClientBinding ==
  ASSUME HlIInv, NEW r \in Runtimes, NEW c \in HubClients, HlCloseClient(r, c)
  PROVE  BindingInv'
<1>1. HlTypeOK
  BY DEF HlIInv
<1>2. /\ OnlyRuntime(r) /\ hrt'[r].toClose = hrt[r].toClose \ {c}
      /\ hrt'[r].down = hrt[r].down
  BY <1>1, ClientClosed
<1>3. ASSUME NEW d \in HubClients, hcl'[d] = hcl[d], hcl[d].bound = r => d # c
      PROVE  BindingOK(d)'
  <2>1. BindingOK(d)
    BY DEF HlIInv, BindingInv
  <2>2. CASE hcl[d].bound = r
    BY <1>2, <1>3, <2>1, <2>2 DEF BindingOK
  <2>3. CASE hcl[d].bound # r
    <3>1. hcl[d].bound # 0 => hrt'[hcl[d].bound] = hrt[hcl[d].bound]
      BY <1>2, <2>3, BoundFacts DEF OnlyRuntime
    <3>2. QED BY <1>3, <2>1, <3>1 DEF BindingOK
  <2>4. QED BY <2>2, <2>3
<1>4. CASE hcl[c].bound # r
  BY <1>3, <1>4 DEF HlCloseClient, BindingInv
<1>5. CASE hcl[c].bound = r
  <2>1. /\ OnlyClient(c) /\ KeepsRequest(c) /\ hcl'[c].closed = hcl[c].closed
        /\ hcl'[c].bound = hcl[c].bound /\ hcl'[c].sclosed = TRUE /\ KeepsChange(c)
    BY <1>1, <1>5, SessionClosed
  <2>2. BindingOK(c)
    BY DEF HlIInv, BindingInv
  <2>3. BindingOK(c)'
    BY <2>1, <2>2 DEF BindingOK, KeepsRequest, KeepsChange
  <2>4. QED BY <1>3, <2>1, <2>3 DEF OnlyClient, BindingInv
<1>6. QED BY <1>4, <1>5

(* What a client's requests say of its binding stays true.                 *)
LEMMA BindingStep ==
  ASSUME HlIInv, HlNext
  PROVE  BindingInv'
<1>1. HlTypeOK /\ hsvc.cur \in Runtimes
  BY ServiceFacts DEF HlIInv
<1>2. ASSUME hcl' = hcl, KeepsShutdowns
      PROVE  BindingInv'
  <2>1. ASSUME NEW d \in HubClients
        PROVE  BindingOK(d)'
    <3>1. BindingOK(d)
      BY DEF HlIInv, BindingInv
    <3>2. hcl[d].bound # 0 => /\ hrt'[hcl[d].bound].down = hrt[hcl[d].bound].down
                              /\ hrt'[hcl[d].bound].toClose = hrt[hcl[d].bound].toClose
      BY <1>2, BoundFacts DEF KeepsShutdowns
    <3>3. QED BY <1>2, <3>1, <3>2 DEF BindingOK
  <2>2. QED BY <2>1 DEF BindingInv
<1>3. ASSUME NEW r \in Runtimes, HlRuntimeSteps(r)
      PROVE  BindingInv'
  <2>1. CASE HlGroupEnds(r)
    BY <1>1, <1>2, <2>1, GroupOver, OnlyRuntimeKeeps DEF HlGroupEnds
  <2>2. CASE HlDiscovered(r)
    BY <1>1, <1>2, <2>2, DiscoveredFacts, OnlyRuntimeKeeps DEF HlDiscovered
  <2>3. QED BY <1>3, <2>1, <2>2, DownBinding, CloseClientBinding DEF HlRuntimeSteps
<1>4. ASSUME NEW r \in Runtimes, HlCools(r)
      PROVE  BindingInv'
  BY <1>1, <1>2, <1>4, Warms, OnlyRuntimeKeeps DEF HlCools
<1>5. ASSUME NEW native \in BOOLEAN, HlDiscover(native)
      PROVE  BindingInv'
  BY <1>1, <1>2, <1>5, DiscoverFacts, OnlyRuntimeKeeps DEF HlDiscover
<1>6. CASE HlDrain \/ HlStopDrains
  BY <1>1, <1>6, ShutDownBinding DEF HlDrain, HlStopDrains
<1>7. CASE HlRejected \/ HlUnknown \/ HlPublish
  <2>1. hcl' = hcl /\ hrt' = HlThaw
    BY <1>7 DEF HlRejected, HlUnknown, HlPublish
  <2>2. QED BY <1>1, <1>2, <2>1, ThawFacts, OnlyRuntimeKeeps
<1>8. CASE HlQuiesce
  <2>1. hcl' = hcl
    BY <1>8 DEF HlQuiesce
  <2>2. QED BY <1>1, <1>2, <1>8, <2>1, QuiesceFacts, OnlyRuntimeKeeps, SameKeeps
<1>9. ASSUME NEW job, HlCredential(job)
      PROVE  BindingInv'
  BY <1>2, <1>9, SameKeeps DEF HlCredential
<1>10. CASE HlCredentialStored \/ HlApply
  BY <1>2, <1>10, SameKeeps DEF HlCredentialStored, HlApply
<1>11. CASE HlApplying \/ HlPrepared \/ HlCommitted
  BY <1>2, <1>11, SameKeeps DEF HlApplying, HlPrepared, HlCommitted
<1>12. CASE HlStop \/ HlStopping \/ HlStopped
  BY <1>2, <1>12, SameKeeps DEF HlStop, HlStopping, HlStopped
<1>13. ASSUME NEW o \in hopens, HlOpened(o)
       PROVE  BindingInv'
  <2>1. PICK c \in HubClients, r \in Runtimes : o[1] = c /\ o[3] = r
    BY <1>1, OpenFacts
  <2>2. /\ OnlyClient(c) /\ KeepsRequest(c) /\ KeepsBinding(c) /\ KeepsChange(c)
        /\ OnlyRuntime(r) /\ KeepsShutdown(r)
    BY <1>13, <2>1, OpenedCases DEF OpenSucceeds, OpenFails
  <2>3. BindingOK(c)
    BY DEF HlIInv, BindingInv
  <2>4. QED
    BY <2>2, <2>3, OnlyRuntimeKeeps, StaysBound DEF KeepsRequest, KeepsChange, BindingOK
<1>14. QED
  BY <1>3, <1>4, <1>5, <1>6, <1>7, <1>8, <1>9, <1>10, <1>11, <1>12, <1>13, ClientStepBinding
  DEF HlNext, HlApplySteps

-----------------------------------------------------------------------------
(* The invariant                                                           *)

LEMMA InitIInv ==
  ASSUME HlInit
  PROVE  HlIInv
<1>1. 1 \in Runtimes /\ MaxRuntimes \in Nat /\ \A r \in Runtimes : r \in Nat /\ ~(r < 1)
  BY HubLifecycleAssumption DEF Runtimes
<1>2. \A r \in Runtimes : hrt[r] = NewRuntime
  BY DEF HlInit
<1>3. \A c \in HubClients : hcl[c] = NoSession
  BY DEF HlInit
<1>4. HlTypeOK
  <2>1. NewRuntime \in RuntimeStates
    BY DEF NewRuntime, RuntimeStates
  <2>2. NoSession \in ClientStates
    BY DEF NoSession, ClientStates
  <2>3. hsvc \in Services
    BY <1>1 DEF HlInit, Services
  <2>4. hrt \in [Runtimes -> RuntimeStates] /\ hcl \in [HubClients -> ClientStates]
    BY <2>1, <2>2 DEF HlInit
  <2>5. hcred \in [present : BOOLEAN, job : {"none", "create", "delete"}]
    BY DEF HlInit
  <2>6. QED BY <2>3, <2>4, <2>5 DEF HlTypeOK, HlInit
<1>5. LockInv
  BY DEF HlInit, LockInv
<1>6. RevisionInv
  <2>1. 1 \notin UsesCredential
    BY HubLifecycleAssumption
  <2>2. QED BY <1>1, <2>1 DEF HlInit, RevisionInv, HlNextRevision
<1>7. RuntimeInv
  <2>1. \A r \in Runtimes : /\ hrt[r].down = "up" /\ ~hrt[r].closed
                            /\ hrt[r].jobs = {}
    BY <1>2 DEF NewRuntime
  <2>2. hsvc.cur = 1 /\ happ = "idle"
    BY DEF HlInit
  <2>3. QED BY <1>1, <2>1, <2>2 DEF RuntimeInv, RuntimeOK, Replacing
<1>8. \A c \in HubClients :
        /\ ~hcl[c].closed /\ hcl[c].bound = 0 /\ hcl[c].con = "none" /\ hcl[c].tok = 0
        /\ hcl[c].gone = {} /\ hcl[c].change = "none" /\ hcl[c].req = "none"
        /\ hcl[c].cmd = {}
  BY <1>3 DEF NoSession
<1>9. OpenInv /\ CommandInv /\ GoneInv
  BY <1>8 DEF HlInit, OpenInv, CommandInv, GoneInv
<1>10. ConnectionInv /\ BindingInv
  BY <1>8 DEF ConnectionInv, ConnectionOK, BindingInv, BindingOK
<1>11. QED BY <1>4, <1>5, <1>6, <1>7, <1>9, <1>10 DEF HlIInv

LEMMA StutterIInv ==
  ASSUME HlIInv, UNCHANGED hlVars
  PROVE  HlIInv'
<1>1. /\ hsvc' = hsvc /\ happ' = happ /\ hrt' = hrt /\ hcl' = hcl /\ hopens' = hopens
      /\ htok' = htok /\ hcred' = hcred
  BY DEF hlVars
<1>2. HlTypeOK' /\ LockInv'
  BY <1>1 DEF HlIInv, HlTypeOK, LockInv
<1>3. RevisionInv'
  BY <1>1, RevisionFrame
<1>4. RuntimeInv'
  <2>1. ASSUME NEW r \in Runtimes
        PROVE  RuntimeOK(r)'
    BY <1>1 DEF HlIInv, RuntimeInv, RuntimeOK
  <2>2. QED BY <2>1 DEF RuntimeInv
<1>5. NetInv'
  BY <1>1, QuietNet DEF Quiet
<1>6. BindingInv'
  <2>1. ASSUME NEW c \in HubClients
        PROVE  BindingOK(c)'
    BY <1>1 DEF HlIInv, BindingInv, BindingOK
  <2>2. QED BY <2>1 DEF BindingInv
<1>7. QED BY <1>2, <1>3, <1>4, <1>5, <1>6 DEF HlIInv, NetInv

(* The invariant of the host: types, locks, revisions, runtimes, attempts, *)
(* connections and bindings belong together in every reachable state.      *)
THEOREM HubLifecycleInvariant == HlSpec => []HlIInv
<1>1. HlIInv /\ [HlNext]_hlVars => HlIInv'
  <2>1. ASSUME HlIInv, HlNext
        PROVE  HlIInv'
    <3>1. HlTypeOK' /\ LockInv' /\ RevisionInv' /\ RuntimeInv'
      BY <2>1, TypeStep, LockStep, RevisionStep, RuntimeStep
    <3>2. OpenInv' /\ CommandInv' /\ GoneInv' /\ ConnectionInv'
      BY <2>1, NetStep DEF NetInv
    <3>3. BindingInv'
      BY <2>1, BindingStep
    <3>4. QED BY <3>1, <3>2, <3>3 DEF HlIInv
  <2>2. QED BY <2>1, StutterIInv
<1>2. QED BY <1>1, InitIInv, PTL DEF HlSpec

(* A connection is held and wanted, or it is none.                         *)
LEMMA ConnectionIsWanted ==
  ASSUME HlIInv
  PROVE  ConnectionWanted
<1>1. ASSUME NEW c \in HubClients
      PROVE  /\ hcl[c].con = "ready" => /\ hcl[c].tok \notin hcl[c].gone
                                        /\ <<c, hcl[c].tok>> \in hrt[hcl[c].bound].act
             /\ hcl[c].closed \/ hcl[c].sclosed => hcl[c].con = "none"
             /\ hcl[c].bound # 0 /\ hrt[hcl[c].bound].down = "down" => hcl[c].con = "none"
  <2>1. ConnectionOK(c) /\ BindingOK(c)
    BY DEF HlIInv, ConnectionInv, BindingInv
  <2>2. hcl[c].con \in {"none", "pending", "ready"}
    BY ClientFacts DEF HlIInv
  <2>3. hcl[c].closed \/ hcl[c].sclosed => hcl[c].con = "none"
    BY <2>1, <2>2 DEF ConnectionOK, BindingOK
  <2>4. ASSUME hcl[c].bound # 0, hrt[hcl[c].bound].down = "down"
        PROVE  hcl[c].sclosed
    <3>1. PICK r \in Runtimes : r = hcl[c].bound
      BY <2>4, BoundFacts
    <3>2. hrt[r].toClose = {}
      BY <2>4, <3>1 DEF HlIInv, RuntimeInv, RuntimeOK
    <3>3. QED BY <2>1, <2>4, <3>1, <3>2 DEF BindingOK
  <2>5. QED BY <2>1, <2>2, <2>3, <2>4 DEF ConnectionOK
<1>2. QED BY <1>1 DEF ConnectionWanted

(* One owner of the devices at a time: a runtime that was replaced, or is  *)
(* being replaced, has no connection, attempt, change or job left, a       *)
(* native probe runs alone, and connections that were given up stay so.    *)
(* (service.rs apply; runtime.rs quiesce, shutdown and connect_inner.)     *)
THEOREM OneOwnerHolds == HlSpec => []OneOwner
<1>1. ASSUME HlIInv
      PROVE  OneOwner
  <2>1. ASSUME NEW r \in Runtimes,
               r < hsvc.cur \/ (r = hsvc.cur /\ happ \in Replacing)
        PROVE  HlIdle(r) /\ \A o \in hopens : o[3] # r
    <3>1. RuntimeOK(r)
      BY <1>1 DEF HlIInv, RuntimeInv
    <3>2. hrt[r].act = {} /\ hrt[r].jobs = {}
      BY <2>1, <3>1 DEF RuntimeOK
    <3>3. ASSUME NEW o \in hopens
          PROVE  o[3] # r
      <4>1. <<o[1], o[2]>> \in hrt[o[3]].act
        BY <1>1 DEF HlIInv, OpenInv
      <4>2. QED BY <3>2, <4>1
    <3>4. QED BY <3>2, <3>3 DEF HlIdle
  <2>2. ASSUME NEW r \in Runtimes, "probe" \in hrt[r].jobs
        PROVE  hrt[r].jobs = {"probe"} /\ hrt[r].act = {} /\ ~hrt[r].warm
    BY <1>1, <2>2 DEF HlIInv, RuntimeInv, RuntimeOK
  <2>3. ConnectionWanted
    BY <1>1, ConnectionIsWanted
  <2>4. QED BY <2>1, <2>2, <2>3 DEF OneOwner, Replacing
<1>2. QED BY <1>1, HubLifecycleInvariant, PTL

(* While requests are admitted, the runtime is the one of the stored       *)
(* revision, its predecessors were drained without an error, and the       *)
(* credential it refers to exists. (service.rs apply, delete_credential.)  *)
THEOREM RevisionServedHolds == HlSpec => []RevisionServed
<1>1. ASSUME HlIInv
      PROVE  RevisionServed
  <2>1. SUFFICES ASSUME hsvc.phase = "ready"
                 PROVE  /\ hsvc.cur = hsvc.store /\ ~hsvc.cleanup
                        /\ \A r \in Runtimes :
                             r < hsvc.cur => hrt[r].down = "down" /\ ~hrt[r].failed
                        /\ hsvc.store \in UsesCredential => hcred.present
    BY DEF RevisionServed
  <2>2. /\ hsvc.cur = hsvc.store /\ ~hsvc.cleanup
        /\ \A r \in Runtimes : r < hsvc.cur => ~hrt[r].failed
        /\ hsvc.store \in UsesCredential => hcred.present
    BY <1>1, <2>1 DEF HlIInv, RevisionInv
  <2>3. \A r \in Runtimes : r < hsvc.cur => hrt[r].down = "down"
    BY <1>1 DEF HlIInv, RuntimeInv, RuntimeOK
  <2>4. QED BY <2>2, <2>3
<1>2. QED BY <1>1, HubLifecycleInvariant, PTL

-----------------------------------------------------------------------------
(* The publisher of hub outputs                                            *)

(* The publisher by itself.                                                *)
PbSpec == PbInit /\ [][PbNext]_pbVars

Places == Sessions \cup {None}
Jobs == [pc : {"none", "run", "opening", "opened", "sent"}, id : Ids \cup {None},
         output : HubOutputs \cup {None}, on : BOOLEAN, later : BOOLEAN]
SessionRecs == [retired : BOOLEAN, stream : {"none", "open", "closed"},
                outputs : SUBSET HubOutputs, leases : SUBSET HubOutputs,
                progress : [HubOutputs -> {"none", "busy", "error"}], job : Jobs]
PubRecs == [closed : BOOLEAN, made : Nat, asks : Nat, table : [Ids -> Places],
            session : [Sessions -> SessionRecs]]
CallRecs == [pc : {"none", "gate"}, id : Ids \cup {None}, output : HubOutputs \cup {None},
             on : BOOLEAN, later : BOOLEAN, session : Places]

(* A session by itself: its outputs are the leases of its stream, and only *)
(* a job that has not looked yet has a stream that was opened too late.    *)
SessionInv(s) ==
  /\ s.job # NoJob => s.job.id \in Ids /\ s.job.output \in HubOutputs
  /\ s.stream = "none" => s.outputs = {} /\ s.leases = {}
  /\ s.stream = "open" => s.outputs = s.leases
  /\ s.job.pc = "opening" => s.stream = "none"
  /\ s.retired /\ s.stream = "open" => s.job.pc = "opened"

PbType ==
  /\ pub \in PubRecs /\ calls \in [HttpCalls -> CallRecs]
  /\ pub.made <= MaxSessions

(* A live session has one place in the table, and the client whose place   *)
(* it is is the only one its calls and its job are of.                     *)
TableInv ==
  /\ \A n \in Sessions : n > pub.made => pub.session[n] = NewSession
  /\ \A i \in Ids : pub.table[i] <= pub.made
  /\ \A i, j \in Ids : pub.table[i] = pub.table[j] /\ pub.table[i] # None => i = j
  /\ \A n \in Sessions : n <= pub.made /\ ~pub.session[n].retired =>
        \E i \in Ids : pub.table[i] = n

OwnerInv ==
  /\ \A k \in HttpCalls : calls[k].pc # "gate" => calls[k].session = None
  /\ \A k \in HttpCalls : calls[k].pc = "gate" =>
        /\ calls[k].id \in Ids /\ calls[k].output \in HubOutputs
        /\ calls[k].session \in Sessions /\ calls[k].session <= pub.made
        /\ ~pub.session[calls[k].session].retired =>
              pub.table[calls[k].id] = calls[k].session
  /\ \A n \in Sessions : pub.session[n].job # NoJob /\ ~pub.session[n].retired =>
        pub.table[pub.session[n].job.id] = n

PbInv ==
  /\ PbType /\ (\A n \in Sessions : SessionInv(pub.session[n]))
  /\ TableInv /\ OwnerInv /\ NoIdleEntry

LEMMA SessionFacts ==
  ASSUME PbInv, NEW n \in Sessions
  PROVE  /\ pub.session[n] \in SessionRecs /\ SessionInv(pub.session[n])
         /\ n \in Nat /\ n # None /\ pub.made \in Nat
BY PublisherAssumption DEF PbInv, PbType, PubRecs, Sessions, None

(* What changes one session and at most takes it out of the table.         *)
LEMMA SessionStep ==
  ASSUME PbInv, NEW n \in Sessions, NEW s \in SessionRecs, SessionInv(s), n <= pub.made,
         pub' \in PubRecs, pub'.made = pub.made, calls' = calls,
         pub'.session = [pub.session EXCEPT ![n] = s],
         pub.session[n].retired => s.retired,
         \A i \in Ids : \/ pub'.table[i] = pub.table[i]
                        \/ pub'.table[i] = None /\ pub.table[i] = n /\ s.retired,
         s.job # NoJob => s.job.id = pub.session[n].job.id /\ pub.session[n].job # NoJob,
         \/ s.job # NoJob \/ s.outputs # {} \/ ~NothingUnderway(s)
         \/ \A i \in Ids : pub'.table[i] # n
         \/ /\ s.job = pub.session[n].job /\ s.outputs = pub.session[n].outputs
            /\ s.progress = pub.session[n].progress
  PROVE  PbInv'
<1>1. PbType /\ TableInv /\ OwnerInv /\ NoIdleEntry /\ \A m \in Sessions : SessionInv(pub.session[m])
  BY DEF PbInv
<1>2. /\ pub'.session[n] = s /\ \A m \in Sessions \ {n} : pub'.session[m] = pub.session[m]
      /\ pub.table \in [Ids -> Places] /\ pub'.table \in [Ids -> Places]
      /\ pub.made \in Nat
  BY <1>1 DEF PbType, PubRecs
<1>3. n \in Nat /\ n # None /\ Places \subseteq Nat /\ Sessions \subseteq Nat /\ None \in Nat
  BY PublisherAssumption DEF Places, Sessions, None
<1>4. PbType'
  BY <1>1 DEF PbType
<1>5. \A m \in Sessions : SessionInv(pub'.session[m])
  BY <1>1, <1>2
<1>6. TableInv'
  <2>1. \A m \in Sessions : m > pub'.made => pub'.session[m] = NewSession
    BY <1>1, <1>2, <1>3 DEF TableInv
  <2>2. \A i \in Ids : pub'.table[i] <= pub'.made
    BY <1>1, <1>2, <1>3 DEF TableInv, None
  <2>3. \A i, j \in Ids : pub'.table[i] = pub'.table[j] /\ pub'.table[i] # None => i = j
    BY <1>1, <1>2 DEF TableInv
  <2>4. ASSUME NEW m \in Sessions, m <= pub'.made, ~pub'.session[m].retired
        PROVE  \E i \in Ids : pub'.table[i] = m
    <3>1. ~pub.session[m].retired
      BY <2>4, <1>2
    <3>2. PICK i \in Ids : pub.table[i] = m
      BY <3>1, <2>4, <1>1 DEF TableInv
    <3> QED BY <3>2, <2>4, <1>2
  <2> QED BY <2>1, <2>2, <2>3, <2>4 DEF TableInv
<1>7. OwnerInv'
  <2>1. ASSUME NEW i \in Ids, NEW m \in Sessions, ~pub'.session[m].retired, pub.table[i] = m
        PROVE  pub'.table[i] = m /\ ~pub.session[m].retired
    BY <2>1, <1>2
  <2>2. ASSUME NEW m \in Sessions, ~pub'.session[m].retired
        PROVE  ~pub.session[m].retired
    BY <2>2, <1>2
  <2>3. ASSUME NEW k \in HttpCalls, calls'[k].pc = "gate"
        PROVE  /\ calls'[k].id \in Ids /\ calls'[k].output \in HubOutputs
               /\ calls'[k].session \in Sessions /\ calls'[k].session <= pub'.made
               /\ ~pub'.session[calls'[k].session].retired =>
                     pub'.table[calls'[k].id] = calls'[k].session
    BY <2>1, <2>2, <2>3, <1>1 DEF OwnerInv
  <2>5. \A k \in HttpCalls : calls'[k].pc # "gate" => calls'[k].session = None
    BY <1>1 DEF OwnerInv
  <2>4. ASSUME NEW m \in Sessions, pub'.session[m].job # NoJob, ~pub'.session[m].retired
        PROVE  pub'.table[pub'.session[m].job.id] = m
    <3>1. /\ pub.session[m].job # NoJob /\ pub'.session[m].job.id = pub.session[m].job.id
          /\ ~pub.session[m].retired
      BY <2>4, <2>2, <1>2
    <3>2. pub.session[m].job.id \in Ids /\ pub.table[pub.session[m].job.id] = m
      BY <3>1, <1>1 DEF OwnerInv, SessionInv
    <3> QED BY <3>1, <3>2, <2>1, <2>4
  <2> QED BY <2>3, <2>4, <2>5 DEF OwnerInv
<1>8. NoIdleEntry'
  <2> SUFFICES ASSUME NEW i \in Ids, pub'.table[i] # None,
                      pub'.session[pub'.table[i]].job = NoJob,
                      \A k \in HttpCalls : calls'[k].session # pub'.table[i]
               PROVE  \/ pub'.session[pub'.table[i]].outputs # {}
                      \/ ~NothingUnderway(pub'.session[pub'.table[i]])
    BY DEF NoIdleEntry, JobOver
  <2>1. pub'.table[i] = pub.table[i] /\ pub.table[i] \in Sessions
    BY <1>2 DEF Places
  <2>2. CASE pub.table[i] # n
    BY <2>1, <2>2, <1>1, <1>2 DEF NoIdleEntry, JobOver
  <2>3. CASE pub.table[i] = n
    <3>1. CASE s.outputs # {} \/ ~NothingUnderway(s)
      BY <3>1, <2>1, <2>3, <1>2
    <3>2. CASE /\ s.job = pub.session[n].job /\ s.outputs = pub.session[n].outputs
               /\ s.progress = pub.session[n].progress
      <4>1. pub.session[n].outputs # {} \/ ~NothingUnderway(pub.session[n])
        BY <3>2, <2>1, <2>3, <1>1, <1>2 DEF NoIdleEntry, JobOver
      <4> QED BY <4>1, <3>2, <2>1, <2>3, <1>2 DEF NothingUnderway
    <3> QED BY <3>1, <3>2, <2>1, <2>3, <1>2
  <2> QED BY <2>2, <2>3
<1> QED BY <1>4, <1>5, <1>6, <1>7, <1>8 DEF PbInv

-----------------------------------------------------------------------------
(* What the operators of the publisher make of its record.                 *)

LEMMA ClosedIs ==
  ASSUME NEW s \in SessionRecs
  PROVE  /\ Closed(s) \in SessionRecs /\ Closed(s).retired
         /\ Closed(s).stream = (IF s.stream = "open" THEN "closed" ELSE s.stream)
         /\ Closed(s).outputs = s.outputs /\ Closed(s).leases = {}
         /\ Closed(s).progress = s.progress /\ Closed(s).job = s.job
BY DEF SessionRecs, Closed

LEMMA ClosedKeeps ==
  ASSUME NEW s \in SessionRecs, SessionInv(s)
  PROVE  SessionInv(Closed(s))
BY ClosedIs DEF SessionInv, SessionRecs

LEMMA NoJobIs == NoJob \in Jobs /\ NoJob.pc = "none"
BY DEF NoJob, Jobs, None

(* A session whose job is over.                                            *)
Idled(s) == [s EXCEPT !.job = NoJob]

LEMMA OverIs ==
  ASSUME NEW s \in SessionRecs
  PROVE  /\ Idled(s) \in SessionRecs /\ Idled(s).job = NoJob /\ Idled(s).retired = s.retired
         /\ Idled(s).stream = s.stream /\ Idled(s).outputs = s.outputs
         /\ Idled(s).leases = s.leases /\ Idled(s).progress = s.progress
BY NoJobIs DEF SessionRecs, Idled

(* A record of the publisher in which one session is another.              *)
Put(p, n, s) == [p EXCEPT !.session[n] = s]

LEMMA PutIs ==
  ASSUME NEW p \in PubRecs, NEW n \in Sessions, NEW s \in SessionRecs
  PROVE  /\ Put(p, n, s) \in PubRecs
         /\ Put(p, n, s).session = [p.session EXCEPT ![n] = s]
         /\ Put(p, n, s).table = p.table /\ Put(p, n, s).made = p.made
BY DEF PubRecs, Put

LEMMA RetiredIs ==
  ASSUME NEW p \in PubRecs, NEW n \in Sessions, NEW i \in Ids
  PROVE  LET q == SessionRetired(p, n, i) IN
         /\ q \in PubRecs /\ q.made = p.made
         /\ q.session = [p.session EXCEPT ![n] = Closed(p.session[n])]
         /\ q.table = [p.table EXCEPT ![i] = IF p.table[i] = n THEN None ELSE p.table[i]]
<1>1. p.session \in [Sessions -> SessionRecs] /\ p.table \in [Ids -> Places]
  BY DEF PubRecs
<1>2. Closed(p.session[n]) \in SessionRecs
  BY <1>1, ClosedIs
<1> QED BY <1>1, <1>2 DEF PubRecs, SessionRetired, Places

LEMMA EndedIs ==
  ASSUME NEW p \in PubRecs, NEW n \in Sessions
  PROVE  /\ Ended(p, n) \in PubRecs /\ Ended(p, n).made = p.made
         /\ Ended(p, n).table = p.table
         /\ Ended(p, n).session = [p.session EXCEPT ![n] = Idled(p.session[n])]
<1>1. p.session \in [Sessions -> SessionRecs]
  BY DEF PubRecs
<1>2. Idled(p.session[n]) \in SessionRecs
  BY <1>1, OverIs
<1>3. Ended(p, n) = Put(p, n, Idled(p.session[n]))
  BY <1>1 DEF Ended, Put, Idled, PubRecs
<1> QED BY <1>2, <1>3, PutIs

(* The end of a job in which its session became s, with or without the     *)
(* session's retirement.                                                   *)
EndsAs(p, n, s, i, retires) ==
  Ended(IF retires THEN SessionRetired(Put(p, n, s), n, i) ELSE Put(p, n, s), n)

LEMMA EndsAsIs ==
  ASSUME NEW p \in PubRecs, NEW n \in Sessions, NEW s \in SessionRecs, NEW i \in Ids,
         NEW retires \in BOOLEAN
  PROVE  LET q == EndsAs(p, n, s, i, retires)
             t == IF retires THEN Closed(s) ELSE s IN
         /\ q \in PubRecs /\ q.made = p.made
         /\ q.session = [p.session EXCEPT ![n] = Idled(t)]
         /\ q.table = IF retires /\ p.table[i] = n THEN [p.table EXCEPT ![i] = None] ELSE p.table
<1> DEFINE r == IF retires THEN SessionRetired(Put(p, n, s), n, i) ELSE Put(p, n, s)
           t == IF retires THEN Closed(s) ELSE s
<1>1. /\ p.session \in [Sessions -> SessionRecs] /\ p.table \in [Ids -> Places]
      /\ Closed(s) \in SessionRecs
  BY ClosedIs DEF PubRecs
<1>2. /\ Put(p, n, s) \in PubRecs /\ Put(p, n, s).session = [p.session EXCEPT ![n] = s]
      /\ Put(p, n, s).table = p.table /\ Put(p, n, s).made = p.made
  BY PutIs
<1>3. Put(p, n, s).session[n] = s
  BY <1>1, <1>2
<1>4. /\ r \in PubRecs /\ r.made = p.made /\ r.session = [p.session EXCEPT ![n] = t]
      /\ r.table = IF retires /\ p.table[i] = n THEN [p.table EXCEPT ![i] = None] ELSE p.table
  <2>1. CASE retires
    <3> DEFINE u == Put(p, n, s)
    <3> HIDE DEF u
    <3>1. /\ SessionRetired(u, n, i) \in PubRecs /\ SessionRetired(u, n, i).made = u.made
          /\ SessionRetired(u, n, i).session = [u.session EXCEPT ![n] = Closed(u.session[n])]
          /\ SessionRetired(u, n, i).table =
                [u.table EXCEPT ![i] = IF u.table[i] = n THEN None ELSE u.table[i]]
      BY <1>2, RetiredIs DEF u
    <3>2. [u.session EXCEPT ![n] = Closed(u.session[n])] = [p.session EXCEPT ![n] = Closed(s)]
      BY <1>1, <1>2, <1>3 DEF u
    <3>3. [u.table EXCEPT ![i] = IF u.table[i] = n THEN None ELSE u.table[i]] =
             IF p.table[i] = n THEN [p.table EXCEPT ![i] = None] ELSE p.table
      BY <1>1, <1>2 DEF u
    <3>4. r = SessionRetired(u, n, i) /\ t = Closed(s)
      BY <2>1 DEF u
    <3> HIDE DEF r, t
    <3> QED BY <2>1, <3>1, <3>2, <3>3, <3>4, <1>2 DEF u
  <2>2. CASE ~retires
    BY <2>2, <1>2
  <2> QED BY <2>1, <2>2
<1>5. EndsAs(p, n, s, i, retires) = Ended(r, n)
  BY DEF EndsAs
<1> HIDE DEF r, t
<1>6. r.session[n] = t
  BY <1>1, <1>4
<1>7. Ended(r, n).session = [p.session EXCEPT ![n] = Idled(t)]
  BY <1>1, <1>4, <1>6, EndedIs
<1> QED BY <1>4, <1>5, <1>7, EndedIs DEF t

(* A job that ends so keeps the invariant.                                 *)
LEMMA JobEnds ==
  ASSUME PbInv, NEW n \in Sessions, NEW s \in SessionRecs, NEW retires \in BOOLEAN,
         pub.session[n].job # NoJob, SessionInv(s), calls' = calls, s.job = pub.session[n].job,
         pub.session[n].retired => s.retired \/ retires,
         s.retired /\ ~retires => s.stream # "open",
         s.outputs # {} \/ ~NothingUnderway(s) \/ (retires /\ ~pub.session[n].retired),
         pub' = EndsAs(pub, n, s, pub.session[n].job.id, retires)
  PROVE  PbInv'
<1> DEFINE i == pub.session[n].job.id
           c == IF retires THEN Closed(s) ELSE s
           t == Idled(c)
<1>1. /\ pub \in PubRecs /\ pub.session[n] \in SessionRecs /\ i \in Ids
      /\ n <= pub.made
  <2>1. pub \in PubRecs /\ pub.session[n] \in SessionRecs /\ n \in Nat /\ pub.made \in Nat
    BY SessionFacts DEF PbInv, PbType
  <2>2. i \in Ids
    BY SessionFacts DEF SessionInv
  <2>3. NewSession.job = NoJob
    BY DEF NewSession
  <2> QED BY <2>1, <2>2, <2>3 DEF PbInv, TableInv
<1>2. /\ c \in SessionRecs /\ (c.retired <=> s.retired \/ retires) /\ c.job = s.job
      /\ c.outputs = s.outputs /\ c.progress = s.progress /\ SessionInv(c)
      /\ c.retired => c.stream # "open"
  <2>1. CASE retires
    BY <2>1, ClosedIs, ClosedKeeps
  <2>2. CASE ~retires
    BY <2>2
  <2> QED BY <2>1, <2>2
<1>3. /\ pub' \in PubRecs /\ pub'.made = pub.made
      /\ pub'.session = [pub.session EXCEPT ![n] = t]
      /\ pub'.table = IF retires /\ pub.table[i] = n THEN [pub.table EXCEPT ![i] = None] ELSE pub.table
  BY <1>1, EndsAsIs
<1> HIDE DEF c
<1>4. /\ t \in SessionRecs /\ t.job = NoJob /\ t.retired = c.retired /\ t.stream = c.stream
      /\ t.outputs = c.outputs /\ t.leases = c.leases /\ t.progress = c.progress
  BY <1>2, OverIs
<1> HIDE DEF t, i
<1>5. SessionInv(t)
  BY <1>2, <1>4, NoJobIs DEF SessionInv
<1>6. \A j \in Ids : \/ pub'.table[j] = pub.table[j]
                     \/ pub'.table[j] = None /\ pub.table[j] = n /\ t.retired
  BY <1>1, <1>2, <1>3, <1>4 DEF PubRecs
<1>7. \/ t.outputs # {} \/ ~NothingUnderway(t) \/ (\A j \in Ids : pub'.table[j] # n)
  <2>1. CASE s.outputs # {} \/ ~NothingUnderway(s)
    BY <2>1, <1>2, <1>4 DEF NothingUnderway
  <2>2. CASE retires /\ ~pub.session[n].retired
    <3>1. pub.table[i] = n
      BY <2>2 DEF PbInv, OwnerInv, i
    <3>2. pub.table \in [Ids -> Places] /\ pub'.table = [pub.table EXCEPT ![i] = None]
      BY <3>1, <2>2, <1>1, <1>3 DEF PubRecs
    <3>3. \A j \in Ids : pub.table[j] = n => j = i
      BY <3>1, <1>1, SessionFacts DEF PbInv, TableInv
    <3> QED BY <3>2, <3>3, SessionFacts
  <2> QED BY <2>1, <2>2
<1> QED BY SessionStep, <1>1, <1>2, <1>3, <1>4, <1>5, <1>6, <1>7

-----------------------------------------------------------------------------
(* Every step of the publisher keeps the invariant.                        *)

LEMMA ErrorsIs ==
  ASSUME NEW s \in SessionRecs, NEW o \in HubOutputs
  PROVE  /\ Errors(s, o) \in SessionRecs /\ Errors(s, o).job = s.job
         /\ Errors(s, o).retired = s.retired /\ Errors(s, o).stream = s.stream
         /\ Errors(s, o).outputs = s.outputs /\ Errors(s, o).leases = s.leases
         /\ ~NothingUnderway(Errors(s, o))
BY DEF SessionRecs, Errors, NothingUnderway

LEMMA LostKeeps ==
  ASSUME PbInv, NEW n \in Sessions, pub.session[n].job # NoJob, calls' = calls,
         pub' = Lost(pub, n)
  PROVE  PbInv'
<1> DEFINE job == pub.session[n].job
           e == Errors(pub.session[n], job.output)
           s == [Closed(e) EXCEPT !.outputs = {}]
<1>1. /\ pub.session[n] \in SessionRecs /\ SessionInv(pub.session[n])
      /\ job.output \in HubOutputs /\ job \in Jobs
  BY SessionFacts DEF SessionInv, SessionRecs
<1>2. /\ e \in SessionRecs /\ e.job = job /\ e.stream = pub.session[n].stream
      /\ ~NothingUnderway(e)
  BY <1>1, ErrorsIs
<1>3. pub' = EndsAs(pub, n, s, job.id, ~job.later)
  BY DEF Lost, EndsAs, Put
<1> HIDE DEF e, job
<1>4. /\ Closed(e) \in SessionRecs /\ Closed(e).retired /\ Closed(e).stream # "open"
      /\ Closed(e).leases = {} /\ Closed(e).progress = e.progress /\ Closed(e).job = job
      /\ Closed(e).stream = (IF e.stream = "open" THEN "closed" ELSE e.stream)
  BY <1>2, ClosedIs
<1>5. /\ s \in SessionRecs /\ s.retired /\ s.stream # "open" /\ s.outputs = {} /\ s.leases = {}
      /\ s.progress = e.progress /\ s.job = job /\ s.stream = Closed(e).stream
  BY <1>4 DEF SessionRecs
<1> HIDE DEF s
<1>6. SessionInv(s)
  BY <1>1, <1>2, <1>4, <1>5 DEF SessionInv, job
<1>7. ~NothingUnderway(s) /\ (~job.later) \in BOOLEAN
  BY <1>1, <1>2, <1>5 DEF NothingUnderway
<1> QED BY JobEnds, <1>3, <1>5, <1>6, <1>7 DEF job

LEMMA RejectedKeeps ==
  ASSUME PbInv, NEW n \in Sessions, JobAt(n, "sent"), calls' = calls, pub' = Rejected(pub, n)
  PROVE  PbInv'
<1> DEFINE job == pub.session[n].job
           s == Errors(pub.session[n], job.output)
           alone == \A o \in HubOutputs \ {job.output} : s.progress[o] = "none"
           retires == ~job.later /\ s.outputs = {} /\ alone
<1>1. pub.session[n] \in SessionRecs /\ SessionInv(pub.session[n]) /\ job # NoJob /\ job.pc = "sent"
  BY SessionFacts, NoJobIs DEF JobAt
<1>2. job.output \in HubOutputs
  BY <1>1 DEF SessionInv
<1>3. /\ s \in SessionRecs /\ s.job = job /\ s.stream = pub.session[n].stream
      /\ s.retired = pub.session[n].retired /\ s.outputs = pub.session[n].outputs
      /\ s.leases = pub.session[n].leases /\ ~NothingUnderway(s)
  BY <1>1, <1>2, ErrorsIs
<1>4. pub' = EndsAs(pub, n, s, job.id, retires) /\ retires \in BOOLEAN
  BY DEF Rejected, EndsAs, Put
<1> HIDE DEF s, retires
<1>5. SessionInv(s) /\ (s.retired /\ ~retires => s.stream # "open")
  BY <1>1, <1>3 DEF SessionInv
<1> QED BY JobEnds, <1>1, <1>3, <1>4, <1>5

(* What a session becomes whose change was made.                           *)
Changed(s) ==
  [s EXCEPT !.progress[s.job.output] = "none",
            !.outputs = IF s.job.on THEN @ \cup {s.job.output} ELSE @ \ {s.job.output}]
Unused(s) == s.outputs = {} /\ NothingUnderway(s)

LEMMA SucceededIs ==
  ASSUME NEW p, NEW n
  PROVE  Succeeded(p, n) = EndsAs(p, n, Changed(p.session[n]), p.session[n].job.id,
                                  Unused(Changed(p.session[n])))
BY DEF Succeeded, EndsAs, Put, Changed, Unused

(* The host took the change: its leases and the session's outputs follow.  *)
LEMMA SucceededKeeps ==
  ASSUME PbInv, NEW n \in Sessions, JobAt(n, "sent"), calls' = calls,
         pub.session[n].stream = "open", NEW leases,
         leases = (IF pub.session[n].job.on
                   THEN pub.session[n].leases \cup {pub.session[n].job.output}
                   ELSE pub.session[n].leases \ {pub.session[n].job.output}),
         pub' = Succeeded([pub EXCEPT !.session[n].leases = leases], n)
  PROVE  PbInv'
<1> DEFINE job == pub.session[n].job
           outs == IF job.on THEN pub.session[n].outputs \cup {job.output}
                   ELSE pub.session[n].outputs \ {job.output}
           r == [pub.session[n] EXCEPT !.leases = leases]
           s == Changed(r)
           retires == Unused(s)
<1>1. /\ pub.session[n] \in SessionRecs /\ SessionInv(pub.session[n]) /\ job # NoJob
      /\ job.pc = "sent" /\ pub \in PubRecs
  BY SessionFacts, NoJobIs DEF JobAt, PbInv, PbType
<1>2. /\ job.output \in HubOutputs /\ ~pub.session[n].retired /\ job.id \in Ids
      /\ pub.session[n].outputs = pub.session[n].leases
  BY <1>1 DEF SessionInv
<1>3. leases = outs /\ outs \in SUBSET HubOutputs
  BY <1>1, <1>2 DEF SessionRecs
<1> HIDE DEF outs
<1>4. /\ r \in SessionRecs /\ r.job = job /\ r.stream = "open" /\ ~r.retired
      /\ r.leases = outs /\ r.outputs = pub.session[n].outputs /\ r.progress = pub.session[n].progress
  BY <1>1, <1>2, <1>3 DEF SessionRecs
<1>5. [pub EXCEPT !.session[n].leases = leases] = Put(pub, n, r)
  BY <1>1 DEF Put, PubRecs
<1> HIDE DEF r
<1>6. Put(pub, n, r) \in PubRecs /\ Put(pub, n, r).session[n] = r
  <2>1. Put(pub, n, r) \in PubRecs /\ Put(pub, n, r).session = [pub.session EXCEPT ![n] = r]
    BY PutIs, <1>1, <1>4
  <2>2. pub.session \in [Sessions -> SessionRecs]
    BY <1>1 DEF PubRecs
  <2> QED BY <2>1, <2>2
<1>7. Put(Put(pub, n, r), n, s) = Put(pub, n, s)
  BY <1>1 DEF Put, PubRecs
<1>8. /\ s \in SessionRecs /\ s.job = job /\ s.stream = "open" /\ ~s.retired
      /\ s.leases = outs /\ s.outputs = outs
  <2>1. (IF r.job.on THEN r.outputs \cup {r.job.output} ELSE r.outputs \ {r.job.output}) = outs
    BY <1>4 DEF outs
  <2> QED BY <1>2, <1>3, <1>4, <2>1 DEF SessionRecs, Changed
<1>9. pub' = EndsAs(pub, n, s, job.id, retires)
  <2>1. pub' = Succeeded(Put(pub, n, r), n)
    BY <1>5
  <2>2. Succeeded(Put(pub, n, r), n) = EndsAs(Put(pub, n, r), n, s, job.id, retires)
    BY <1>4, <1>6, SucceededIs
  <2> QED BY <2>1, <2>2, <1>7 DEF EndsAs
<1> HIDE DEF s, retires
<1>10. SessionInv(s)
  BY <1>1, <1>2, <1>8 DEF SessionInv
<1>11. s.outputs # {} \/ ~NothingUnderway(s) \/ (retires /\ ~pub.session[n].retired)
  BY <1>2 DEF retires, Unused
<1>12. retires \in BOOLEAN
  BY DEF retires, Unused
<1> QED BY JobEnds, <1>1, <1>2, <1>8, <1>9, <1>10, <1>11, <1>12

(* A session that goes on as s, in the place it has.                       *)
LEMMA PutKeeps ==
  ASSUME PbInv, NEW n \in Sessions, NEW s \in SessionRecs, SessionInv(s), calls' = calls,
         pub' = Put(pub, n, s), n <= pub.made, s.retired = pub.session[n].retired,
         s.job # NoJob => s.job.id = pub.session[n].job.id /\ pub.session[n].job # NoJob,
         s.outputs = pub.session[n].outputs, s.progress = pub.session[n].progress,
         s.job = NoJob => pub.session[n].job = NoJob
  PROVE  PbInv'
<1>1. pub \in PubRecs
  BY DEF PbInv, PbType
<1>2. /\ pub' \in PubRecs /\ pub'.session = [pub.session EXCEPT ![n] = s]
      /\ pub'.table = pub.table /\ pub'.made = pub.made
  BY <1>1, PutIs
<1>3. \/ s.job # NoJob \/ s.outputs # {} \/ ~NothingUnderway(s)
      \/ \A i \in Ids : pub'.table[i] # n
      \/ /\ s.job = pub.session[n].job /\ s.outputs = pub.session[n].outputs
         /\ s.progress = pub.session[n].progress
  OBVIOUS
<1> QED BY SessionStep, <1>2, <1>3

LEMMA MadeIs ==
  ASSUME PbInv, NEW n \in Sessions,
         pub.session[n].job # NoJob \/ pub.session[n].stream = "open"
  PROVE  n <= pub.made
<1>1. NewSession.job = NoJob /\ NewSession.stream = "none"
  BY DEF NewSession
<1> QED BY <1>1, SessionFacts DEF PbInv, TableInv

LEMMA MovedKeeps ==
  ASSUME PbInv, NEW n \in Sessions, pub.session[n].job.pc \in {"run", "opened"},
         NEW pc \in {"opening", "opened", "sent"}, pub' = Moved(n, pc), calls' = calls,
         pc = "opening" => pub.session[n].stream = "none",
         pc = "sent" => ~pub.session[n].retired
  PROVE  PbInv'
<1> DEFINE o == pub.session[n]
           s == [o EXCEPT !.job.pc = pc]
<1>1. /\ o \in SessionRecs /\ SessionInv(o) /\ o.job # NoJob /\ pub \in PubRecs
      /\ n <= pub.made
  BY SessionFacts, NoJobIs, MadeIs DEF PbInv, PbType
<1>2. pub' = Put(pub, n, s)
  BY <1>1 DEF Moved, Put, PubRecs
<1>3. o.job.id \in Ids /\ o.job.output \in HubOutputs
  BY <1>1 DEF SessionInv
<1> HIDE DEF o
<1>4. /\ s \in SessionRecs /\ s.retired = o.retired /\ s.stream = o.stream
      /\ s.outputs = o.outputs /\ s.leases = o.leases /\ s.progress = o.progress
      /\ s.job.pc = pc /\ s.job.id = o.job.id /\ s.job.output = o.job.output
  BY <1>1 DEF SessionRecs, Jobs
<1> HIDE DEF s
<1>5. s.job # NoJob
  BY <1>4, NoJobIs
<1>6. SessionInv(s)
  BY <1>1, <1>3, <1>4 DEF SessionInv, o
<1> QED BY PutKeeps, <1>1, <1>2, <1>4, <1>5, <1>6 DEF o

LEMMA PbRunKeeps ==
  ASSUME PbInv, NEW n \in Sessions, PbRun(n)
  PROVE  PbInv'
<1>1. JobAt(n, "run") /\ calls' = calls /\ pub.session[n].job # NoJob
  BY NoJobIs DEF PbRun, JobAt
<1>2. CASE pub.session[n].retired
  BY <1>1, <1>2, LostKeeps DEF PbRun
<1>3. CASE ~pub.session[n].retired
  <2>1. \/ pub' = Moved(n, "opening") /\ pub.session[n].stream = "none"
        \/ pub' = Moved(n, "opened")
    BY <1>3 DEF PbRun
  <2> QED BY <1>1, <2>1, MovedKeeps DEF JobAt
<1> QED BY <1>2, <1>3

LEMMA PbOpenedKeeps ==
  ASSUME PbInv, NEW n \in Sessions, NEW ok \in BOOLEAN, PbOpened(n, ok)
  PROVE  PbInv'
<1> DEFINE o == pub.session[n]
           s == [o EXCEPT !.job.pc = "opened", !.stream = "open"]
<1>1. /\ o \in SessionRecs /\ SessionInv(o) /\ o.job # NoJob /\ pub \in PubRecs
      /\ o.job.pc = "opening" /\ calls' = calls /\ n <= pub.made
  BY SessionFacts, NoJobIs, MadeIs DEF PbOpened, JobAt, PbInv, PbType
<1>2. CASE ~ok
  BY <1>1, <1>2, LostKeeps DEF PbOpened
<1>3. CASE ok
  <2>1. pub' = Put(pub, n, s)
    BY <1>1, <1>3 DEF PbOpened, Moved, Put, PubRecs
  <2>2. /\ o.job.id \in Ids /\ o.job.output \in HubOutputs
        /\ o.outputs = {} /\ o.leases = {}
    BY <1>1 DEF SessionInv
  <2> HIDE DEF o
  <2>3. /\ s \in SessionRecs /\ s.retired = o.retired /\ s.stream = "open"
        /\ s.outputs = o.outputs /\ s.leases = o.leases /\ s.progress = o.progress
        /\ s.job.pc = "opened" /\ s.job.id = o.job.id /\ s.job.output = o.job.output
    BY <1>1 DEF SessionRecs, Jobs
  <2> HIDE DEF s
  <2>4. s.job # NoJob
    BY <2>3, NoJobIs
  <2>5. SessionInv(s)
    BY <2>2, <2>3 DEF SessionInv
  <2> QED BY PutKeeps, <1>1, <2>1, <2>3, <2>4, <2>5 DEF o
<1> QED BY <1>2, <1>3

LEMMA PbAskKeeps ==
  ASSUME PbInv, NEW n \in Sessions, PbAsk(n)
  PROVE  PbInv'
<1>1. JobAt(n, "opened") /\ calls' = calls /\ pub.session[n].job # NoJob
  BY NoJobIs DEF PbAsk, JobAt
<1>2. CASE pub.session[n].retired
  BY <1>1, <1>2, LostKeeps DEF PbAsk, MustClose
<1>3. CASE ~pub.session[n].retired
  <2>1. pub' = Moved(n, "sent")
    BY <1>3 DEF PbAsk, MustClose
  <2> QED BY <1>1, <1>3, <2>1, MovedKeeps DEF JobAt
<1> QED BY <1>2, <1>3

LEMMA PbAnsweredKeeps ==
  ASSUME PbInv, NEW n \in Sessions, NEW answer \in {"done", "rejected", "lost"},
         PbAnswered(n, answer)
  PROVE  PbInv'
<1>1. JobAt(n, "sent") /\ calls' = calls /\ pub.session[n].job # NoJob
  BY NoJobIs DEF PbAnswered, JobAt
<1>2. CASE answer = "done"
  <2> DEFINE job == pub.session[n].job
             leases == IF job.on THEN pub.session[n].leases \cup {job.output}
                       ELSE pub.session[n].leases \ {job.output}
  <2>1. /\ pub.session[n].stream = "open"
        /\ pub' = Succeeded([pub EXCEPT !.session[n].leases = leases], n)
    BY <1>2 DEF PbAnswered
  <2> QED BY <1>1, <2>1, SucceededKeeps
<1>3. CASE answer = "rejected"
  BY <1>1, <1>3, RejectedKeeps DEF PbAnswered
<1>4. CASE answer = "lost"
  BY <1>1, <1>4, LostKeeps DEF PbAnswered
<1> QED BY <1>2, <1>3, <1>4

LEMMA PbHostEndsKeeps ==
  ASSUME PbInv, NEW n \in Sessions, PbHostEnds(n)
  PROVE  PbInv'
<1> DEFINE o == pub.session[n]
           s == [o EXCEPT !.stream = "closed", !.leases = {}]
<1>1. /\ o \in SessionRecs /\ SessionInv(o) /\ pub \in PubRecs /\ o.stream = "open"
      /\ calls' = calls /\ n <= pub.made
  BY SessionFacts, MadeIs DEF PbHostEnds, PbInv, PbType
<1>2. pub' = Put(pub, n, s)
  BY <1>1 DEF PbHostEnds, Put, PubRecs
<1> HIDE DEF o
<1>3. /\ s \in SessionRecs /\ s.retired = o.retired /\ s.stream = "closed"
      /\ s.outputs = o.outputs /\ s.progress = o.progress /\ s.job = o.job
  BY <1>1 DEF SessionRecs
<1> HIDE DEF s
<1>4. SessionInv(s)
  BY <1>1, <1>3 DEF SessionInv
<1> QED BY PutKeeps, <1>1, <1>2, <1>3, <1>4 DEF o

LEMMA TableFacts ==
  ASSUME PbInv
  PROVE  /\ pub \in PubRecs /\ pub.made \in Nat /\ pub.made <= MaxSessions
         /\ pub.table \in [Ids -> Places] /\ pub.session \in [Sessions -> SessionRecs]
         /\ calls \in [HttpCalls -> CallRecs]
         /\ Places \subseteq Nat /\ Sessions \subseteq Nat /\ None \notin Sessions
         /\ \A i \in Ids : pub.table[i] # None => pub.table[i] \in Sessions
BY PublisherAssumption DEF PbInv, PbType, PubRecs, Places, Sessions, None

LEMMA NewSessionIs ==
  /\ NewSession \in SessionRecs /\ SessionInv(NewSession) /\ ~NewSession.retired
  /\ NewSession.job = NoJob /\ NewSession.stream = "none"
<1>1. NewSession \in SessionRecs
  BY NoJobIs DEF NewSession, SessionRecs
<1> QED BY <1>1, NoJobIs DEF NewSession, SessionInv

(* A request that asks the session its client has, or a new one.           *)
LEMMA PbReserveKeeps ==
  ASSUME PbInv, NEW k \in HttpCalls, NEW i \in Ids, NEW o \in HubOutputs, NEW later \in BOOLEAN,
         PbReserve(k, i, o, later)
  PROVE  PbInv'
<1> DEFINE n == pub.table[i]
           fresh == n = None \/ pub.session[n].retired
           next == IF fresh THEN pub.made + 1 ELSE n
           c == [pc |-> "gate", id |-> i, output |-> o, on |-> TRUE, later |-> later,
                 session |-> next]
<1>1. /\ calls[k].pc = "none" /\ calls' = [calls EXCEPT ![k] = c]
      /\ fresh => pub.made < MaxSessions
      /\ pub' = [pub EXCEPT !.asks = @ + 1, !.made = IF fresh THEN @ + 1 ELSE @, !.table[i] = next]
  BY DEF PbReserve
<1>2. /\ next \in Sessions /\ next # None /\ next \in Nat
      /\ fresh => next = pub.made + 1 /\ next <= MaxSessions
      /\ ~fresh => next = n /\ n <= pub.made /\ ~pub.session[n].retired
  BY <1>1, TableFacts, PublisherAssumption DEF Sessions, None, PbInv, TableInv
<1>3. /\ pub' \in PubRecs /\ pub'.session = pub.session
      /\ pub'.table = [pub.table EXCEPT ![i] = next]
      /\ pub'.made = (IF fresh THEN pub.made + 1 ELSE pub.made)
  <2> DEFINE m1 == IF fresh THEN pub.made + 1 ELSE pub.made
             t1 == [pub.table EXCEPT ![i] = next]
             a1 == pub.asks + 1
  <2>1. pub' = [pub EXCEPT !.asks = a1, !.made = m1, !.table = t1]
    BY <1>1
  <2>2. m1 \in Nat /\ t1 \in [Ids -> Places] /\ a1 \in Nat
    BY <1>2, TableFacts DEF Places, PubRecs
  <2> HIDE DEF m1, t1, a1, fresh, next
  <2>3. pub'.session = pub.session /\ pub'.table = t1 /\ pub'.made = m1 /\ pub' \in PubRecs
    BY <2>1, <2>2, TableFacts DEF PubRecs
  <2> QED BY <2>3 DEF m1, t1
<1>4. \A j \in Ids : pub.table[j] <= pub.made
  BY DEF PbInv, TableInv
<1>5. fresh => pub.session[next] = NewSession
  BY <1>2, TableFacts DEF PbInv, TableInv
<1> HIDE DEF next
<1>6. c \in CallRecs
  BY <1>2 DEF CallRecs, Places
<1>7. PbType'
  BY <1>1, <1>2, <1>3, <1>6, TableFacts DEF PbType
<1>8. ~fresh => pub.table[i] = next /\ pub'.table = pub.table
  BY <1>2, <1>3, TableFacts
<1>9. TableInv'
  <2>1. \A m \in Sessions : m > pub'.made => pub'.session[m] = NewSession
    BY <1>3, TableFacts DEF PbInv, TableInv
  <2>2. \A j \in Ids : pub'.table[j] <= pub'.made
    BY <1>2, <1>3, <1>4, TableFacts
  <2>3. ASSUME NEW j \in Ids, NEW l \in Ids, pub'.table[j] = pub'.table[l], pub'.table[j] # None
        PROVE  j = l
    <3>1. CASE ~fresh
      BY <3>1, <2>3, <1>8 DEF PbInv, TableInv
    <3>2. CASE fresh
      <4>1. \A h \in Ids \ {i} : pub'.table[h] = pub.table[h] /\ pub'.table[h] # next
        BY <3>2, <1>2, <1>3, <1>4, TableFacts
      <4>2. pub'.table[i] = next
        BY <1>3, TableFacts
      <4> QED BY <4>1, <4>2, <2>3 DEF PbInv, TableInv
    <3> QED BY <3>1, <3>2
  <2>4. ASSUME NEW m \in Sessions, m <= pub'.made, ~pub'.session[m].retired
        PROVE  \E j \in Ids : pub'.table[j] = m
    <3>1. CASE ~fresh
      BY <3>1, <2>4, <1>3, <1>8 DEF PbInv, TableInv
    <3>2. CASE fresh /\ m = next
      BY <3>2, <1>3, TableFacts
    <3>3. CASE fresh /\ m # next
      <4>1. m <= pub.made
        BY <3>3, <2>4, <1>2, <1>3, TableFacts
      <4>2. PICK j \in Ids : pub.table[j] = m
        BY <4>1, <2>4, <1>3 DEF PbInv, TableInv
      <4>3. j # i
        BY <4>2, <3>3, <2>4, <1>3, TableFacts
      <4> QED BY <4>2, <4>3, <1>3, TableFacts
    <3> QED BY <3>1, <3>2, <3>3
  <2> QED BY <2>1, <2>2, <2>3, <2>4 DEF TableInv
<1>10. ASSUME NEW j \in Ids, NEW m \in Sessions, pub.table[j] = m, ~pub.session[m].retired
       PROVE  pub'.table[j] = m
  BY <1>3, <1>8, <1>10, TableFacts
<1>11. calls'[k] = c /\ \A h \in HttpCalls \ {k} : calls'[h] = calls[h]
  BY <1>1, TableFacts
<1>12. OwnerInv'
  <2>1. ASSUME NEW h \in HttpCalls, calls'[h].pc = "gate"
        PROVE  /\ calls'[h].id \in Ids /\ calls'[h].output \in HubOutputs
               /\ calls'[h].session \in Sessions /\ calls'[h].session <= pub'.made
               /\ ~pub'.session[calls'[h].session].retired =>
                     pub'.table[calls'[h].id] = calls'[h].session
    <3>1. CASE h = k
      BY <3>1, <1>2, <1>3, <1>11, TableFacts
    <3>2. CASE h # k
      <4>1. /\ calls[h].id \in Ids /\ calls[h].output \in HubOutputs
            /\ calls[h].session \in Sessions /\ calls[h].session <= pub.made
            /\ ~pub.session[calls[h].session].retired =>
                  pub.table[calls[h].id] = calls[h].session
        BY <3>2, <2>1, <1>11 DEF PbInv, OwnerInv
      <4>2. calls[h].session <= pub'.made
        BY <4>1, <1>3, TableFacts
      <4> QED BY <4>1, <4>2, <3>2, <1>3, <1>10, <1>11
    <3> QED BY <3>1, <3>2
  <2>2. \A h \in HttpCalls : calls'[h].pc # "gate" => calls'[h].session = None
    BY <1>11 DEF PbInv, OwnerInv
  <2>3. ASSUME NEW m \in Sessions, pub'.session[m].job # NoJob, ~pub'.session[m].retired
        PROVE  pub'.table[pub'.session[m].job.id] = m
    <3>1. pub.session[m].job.id \in Ids /\ pub.table[pub.session[m].job.id] = m
      BY <2>3, <1>3 DEF PbInv, OwnerInv, SessionInv
    <3> QED BY <3>1, <2>3, <1>3, <1>10
  <2> QED BY <2>1, <2>2, <2>3 DEF OwnerInv
<1>13. NoIdleEntry'
  <2> SUFFICES ASSUME NEW j \in Ids, pub'.table[j] # None,
                      pub'.session[pub'.table[j]].job = NoJob,
                      \A h \in HttpCalls : calls'[h].session # pub'.table[j]
               PROVE  \/ pub'.session[pub'.table[j]].outputs # {}
                      \/ ~NothingUnderway(pub'.session[pub'.table[j]])
    BY DEF NoIdleEntry, JobOver
  <2>1. j # i
    BY <1>3, <1>11, TableFacts
  <2>2. pub'.table[j] = pub.table[j]
    BY <2>1, <1>3, TableFacts
  <2>3. \A h \in HttpCalls : calls[h].session # pub.table[j]
    BY <2>2, <1>1, <1>11 DEF PbInv, OwnerInv
  <2> QED BY <2>2, <2>3, <1>3 DEF PbInv, NoIdleEntry, JobOver
<1> QED BY <1>3, <1>7, <1>9, <1>12, <1>13 DEF PbInv

(* A request to leave asks the live session, or clears a retired one away. *)
LEMMA PbLeaveKeeps ==
  ASSUME PbInv, NEW k \in HttpCalls, NEW i \in Ids, NEW o \in HubOutputs, NEW later \in BOOLEAN,
         PbLeave(k, i, o, later)
  PROVE  PbInv'
<1> DEFINE n == pub.table[i]
<1>1. n \in Sessions /\ n <= pub.made /\ calls[k].pc = "none"
  BY TableFacts DEF PbLeave, PbInv, TableInv
<1>2. CASE pub.session[n].retired
  <2> DEFINE s == Closed(pub.session[n])
  <2>1. pub' = SessionRetired(pub, n, i) /\ calls' = calls
    BY <1>2 DEF PbLeave
  <2>2. /\ s \in SessionRecs /\ s.retired /\ s.job = pub.session[n].job
        /\ s.outputs = pub.session[n].outputs /\ s.progress = pub.session[n].progress
        /\ SessionInv(s)
    BY <1>1, SessionFacts, ClosedIs, ClosedKeeps
  <2>3. /\ pub' \in PubRecs /\ pub'.made = pub.made
        /\ pub'.session = [pub.session EXCEPT ![n] = s]
        /\ pub'.table = [pub.table EXCEPT ![i] = IF pub.table[i] = n THEN None ELSE pub.table[i]]
    BY <2>1, <1>1, TableFacts, RetiredIs
  <2> HIDE DEF s
  <2>4. \A j \in Ids : \/ pub'.table[j] = pub.table[j]
                       \/ pub'.table[j] = None /\ pub.table[j] = n /\ s.retired
    BY <2>2, <2>3, TableFacts
  <2> HIDE DEF n
  <2> QED BY SessionStep, <1>1, <2>1, <2>2, <2>3, <2>4
<1>3. CASE ~pub.session[n].retired
  <2> DEFINE c == [pc |-> "gate", id |-> i, output |-> o, on |-> FALSE, later |-> later,
                   session |-> n]
  <2>1. pub' = [pub EXCEPT !.asks = @ + 1] /\ calls' = [calls EXCEPT ![k] = c]
    BY <1>3 DEF PbLeave
  <2>2. /\ pub' \in PubRecs /\ pub'.session = pub.session /\ pub'.table = pub.table
        /\ pub'.made = pub.made
    BY <2>1, TableFacts DEF PubRecs
  <2>3. c \in CallRecs
    BY <1>1 DEF CallRecs, Places
  <2>4. calls'[k] = c /\ \A h \in HttpCalls \ {k} : calls'[h] = calls[h]
    BY <2>1, TableFacts
  <2>5. PbType'
    BY <2>1, <2>2, <2>3, TableFacts DEF PbType
  <2>6. TableInv'
    BY <2>2 DEF PbInv, TableInv
  <2>7. OwnerInv'
    <3>1. ASSUME NEW h \in HttpCalls
          PROVE  /\ calls'[h].pc # "gate" => calls'[h].session = None
                 /\ calls'[h].pc = "gate" =>
                      /\ calls'[h].id \in Ids /\ calls'[h].output \in HubOutputs
                      /\ calls'[h].session \in Sessions /\ calls'[h].session <= pub'.made
                      /\ ~pub'.session[calls'[h].session].retired =>
                            pub'.table[calls'[h].id] = calls'[h].session
      <4>1. CASE h = k
        BY <4>1, <1>1, <2>2, <2>4
      <4>2. CASE h # k
        BY <4>2, <2>2, <2>4 DEF PbInv, OwnerInv
      <4> QED BY <4>1, <4>2
    <3> QED BY <3>1, <2>2 DEF PbInv, OwnerInv
  <2>8. NoIdleEntry'
    <3> SUFFICES ASSUME NEW j \in Ids, pub'.table[j] # None,
                        pub'.session[pub'.table[j]].job = NoJob,
                        \A h \in HttpCalls : calls'[h].session # pub'.table[j]
                 PROVE  \/ pub'.session[pub'.table[j]].outputs # {}
                        \/ ~NothingUnderway(pub'.session[pub'.table[j]])
      BY DEF NoIdleEntry, JobOver
    <3>1. \A h \in HttpCalls : calls[h].session # pub.table[j]
      BY <1>1, <2>2, <2>4 DEF PbInv, OwnerInv
    <3> QED BY <3>1, <2>2 DEF PbInv, NoIdleEntry, JobOver
  <2> QED BY <2>2, <2>5, <2>6, <2>7, <2>8 DEF PbInv
<1> QED BY <1>2, <1>3

(* A call gives its place to a job, or finds the gate taken.               *)
LEMMA PbGateKeeps ==
  ASSUME PbInv, NEW k \in HttpCalls, PbGate(k)
  PROVE  PbInv'
<1> DEFINE c == calls[k]
           n == c.session
           o == pub.session[n]
<1>1. /\ c.pc = "gate" /\ c \in CallRecs /\ c.id \in Ids /\ c.output \in HubOutputs
      /\ n \in Sessions /\ n <= pub.made /\ n # None
      /\ ~o.retired => pub.table[c.id] = n
      /\ calls' = [calls EXCEPT ![k] = NoCall]
  BY TableFacts DEF PbGate, PbInv, OwnerInv
<1>2. NoCall \in CallRecs /\ NoCall.pc = "none" /\ NoCall.session = None
  BY DEF NoCall, CallRecs, Places, None
<1>3. calls'[k] = NoCall /\ \A h \in HttpCalls \ {k} : calls'[h] = calls[h]
  BY <1>1, TableFacts
<1>4. calls' \in [HttpCalls -> CallRecs]
  BY <1>1, <1>2, TableFacts
<1>5. ASSUME NEW m \in Sessions, m # n, \A h \in HttpCalls : calls'[h].session # m
      PROVE  \A h \in HttpCalls : calls[h].session # m
  BY <1>3, <1>5
<1>6. CASE o.job = NoJob
  <2> DEFINE job == [pc |-> "run", id |-> c.id, output |-> c.output, on |-> c.on,
                     later |-> c.later]
             s == [o EXCEPT !.job = job, !.progress[c.output] = "busy"]
  <2>1. o \in SessionRecs /\ SessionInv(o) /\ pub \in PubRecs
    BY <1>1, SessionFacts, TableFacts
  <2>2. pub' = Put(pub, n, s)
    <3>1. pub' = [pub EXCEPT !.session[n].job = job, !.session[n].progress[c.output] = "busy"]
      BY <1>6 DEF PbGate
    <3> HIDE DEF job
    <3> QED BY <1>1, <3>1, <2>1 DEF Put, PubRecs, SessionRecs
  <2>3. job \in Jobs /\ job # NoJob
    BY <1>1, NoJobIs DEF Jobs, CallRecs
  <2> HIDE DEF job, o
  <2>4. /\ s \in SessionRecs /\ s.job = job /\ s.retired = o.retired /\ s.stream = o.stream
        /\ s.outputs = o.outputs /\ s.leases = o.leases
    BY <1>1, <2>1, <2>3 DEF SessionRecs
  <2> HIDE DEF s
  <2>5. SessionInv(s)
    BY <1>1, <1>6, <2>1, <2>3, <2>4, NoJobIs DEF SessionInv, job
  <2>6. /\ pub' \in PubRecs /\ pub'.session = [pub.session EXCEPT ![n] = s]
        /\ pub'.table = pub.table /\ pub'.made = pub.made
    BY <1>1, <2>1, <2>2, <2>4, PutIs
  <2>7. pub'.session[n] = s /\ \A m \in Sessions \ {n} : pub'.session[m] = pub.session[m]
    BY <1>1, <2>6, TableFacts
  <2> HIDE DEF n
  <2>8. PbType'
    BY <1>4, <2>6, TableFacts DEF PbType
  <2>9. \A m \in Sessions : SessionInv(pub'.session[m])
    BY <2>5, <2>7 DEF PbInv
  <2>10. \A m \in Sessions : pub'.session[m].retired = pub.session[m].retired
    BY <2>4, <2>7 DEF o
  <2>11. TableInv'
    <3>1. \A m \in Sessions : m > pub'.made => pub'.session[m] = NewSession
      BY <1>1, <2>6, <2>7, TableFacts DEF PbInv, TableInv
    <3> QED BY <3>1, <2>6, <2>10 DEF PbInv, TableInv
  <2>12. OwnerInv'
    <3>1. ASSUME NEW h \in HttpCalls
          PROVE  /\ calls'[h].pc # "gate" => calls'[h].session = None
                 /\ calls'[h].pc = "gate" =>
                      /\ calls'[h].id \in Ids /\ calls'[h].output \in HubOutputs
                      /\ calls'[h].session \in Sessions /\ calls'[h].session <= pub'.made
                      /\ ~pub'.session[calls'[h].session].retired =>
                            pub'.table[calls'[h].id] = calls'[h].session
      <4>1. CASE h = k
        BY <4>1, <1>2, <1>3
      <4>2. CASE h # k
        BY <4>2, <1>3, <2>6, <2>10 DEF PbInv, OwnerInv
      <4> QED BY <4>1, <4>2
    <3>2. ASSUME NEW m \in Sessions, pub'.session[m].job # NoJob, ~pub'.session[m].retired
          PROVE  pub'.table[pub'.session[m].job.id] = m
      <4>1. CASE m = n
        BY <4>1, <3>2, <1>1, <2>4, <2>6, <2>7 DEF job, n, o
      <4>2. CASE m # n
        BY <4>2, <3>2, <2>6, <2>7 DEF PbInv, OwnerInv
      <4> QED BY <4>1, <4>2
    <3> QED BY <3>1, <3>2 DEF OwnerInv
  <2>13. NoIdleEntry'
    <3> SUFFICES ASSUME NEW j \in Ids, pub'.table[j] # None,
                        pub'.session[pub'.table[j]].job = NoJob,
                        \A h \in HttpCalls : calls'[h].session # pub'.table[j]
                 PROVE  \/ pub'.session[pub'.table[j]].outputs # {}
                        \/ ~NothingUnderway(pub'.session[pub'.table[j]])
      BY DEF NoIdleEntry, JobOver
    <3>1. pub'.table[j] = pub.table[j] /\ pub.table[j] \in Sessions
      BY <2>6, TableFacts
    <3>2. pub.table[j] # n
      BY <3>1, <2>3, <2>4, <2>7
    <3> QED BY <3>1, <3>2, <1>5, <2>7 DEF PbInv, NoIdleEntry, JobOver
  <2> QED BY <2>8, <2>9, <2>11, <2>12, <2>13 DEF PbInv
<1>7. CASE o.job # NoJob
  <2>1. pub' = pub
    BY <1>7 DEF PbGate
  <2>2. PbType' /\ TableInv' /\ \A m \in Sessions : SessionInv(pub'.session[m])
    BY <2>1, <1>4 DEF PbInv, PbType, TableInv
  <2>3. OwnerInv'
    <3>1. ASSUME NEW h \in HttpCalls
          PROVE  /\ calls'[h].pc # "gate" => calls'[h].session = None
                 /\ calls'[h].pc = "gate" =>
                      /\ calls'[h].id \in Ids /\ calls'[h].output \in HubOutputs
                      /\ calls'[h].session \in Sessions /\ calls'[h].session <= pub'.made
                      /\ ~pub'.session[calls'[h].session].retired =>
                            pub'.table[calls'[h].id] = calls'[h].session
      <4>1. CASE h = k
        BY <4>1, <1>2, <1>3
      <4>2. CASE h # k
        BY <4>2, <1>3, <2>1 DEF PbInv, OwnerInv
      <4> QED BY <4>1, <4>2
    <3> QED BY <3>1, <2>1 DEF PbInv, OwnerInv
  <2>4. NoIdleEntry'
    <3> SUFFICES ASSUME NEW j \in Ids, pub.table[j] # None,
                        pub.session[pub.table[j]].job = NoJob,
                        \A h \in HttpCalls : calls'[h].session # pub.table[j]
                 PROVE  \/ pub.session[pub.table[j]].outputs # {}
                        \/ ~NothingUnderway(pub.session[pub.table[j]])
      BY <2>1 DEF NoIdleEntry, JobOver
    <3>1. pub.table[j] \in Sessions /\ pub.table[j] # n
      BY <1>7, TableFacts
    <3> QED BY <3>1, <1>5 DEF PbInv, NoIdleEntry, JobOver
  <2> QED BY <2>2, <2>3, <2>4 DEF PbInv
<1> QED BY <1>6, <1>7

(* The publisher closes every session of the table, hence every live one.  *)
LEMMA PbCloseKeeps ==
  ASSUME PbInv, PbClose
  PROVE  PbInv'
<1> DEFINE New(m) == IF \E i \in Ids : pub.table[i] = m THEN Closed(pub.session[m])
                     ELSE pub.session[m]
           t == [i \in Ids |-> None]
           f == [m \in Sessions |-> New(m)]
<1>1. pub' = [pub EXCEPT !.closed = TRUE, !.table = t, !.session = f] /\ calls' = calls
  <2>1. pub' = [pub EXCEPT !.closed = TRUE, !.table = t,
                           !.session = [n \in Sessions |->
                              IF \E i \in Ids : pub.table[i] = n THEN Closed(@[n]) ELSE @[n]]]
    BY DEF PbClose
  <2> QED BY <2>1 DEF PbClose
<1>2. \A m \in Sessions : /\ New(m) \in SessionRecs /\ SessionInv(New(m))
                          /\ New(m).job = pub.session[m].job
                          /\ pub.session[m].retired => New(m).retired
                          /\ (\E i \in Ids : pub.table[i] = m) => New(m).retired
  BY SessionFacts, ClosedIs, ClosedKeeps
<1>3. \A m \in Sessions : m > pub.made => New(m) = NewSession
  BY TableFacts DEF PbInv, TableInv
<1> HIDE DEF New
<1>4. t \in [Ids -> Places] /\ f \in [Sessions -> SessionRecs]
  BY <1>2 DEF Places
<1> HIDE DEF t, f
<1>5. /\ pub' \in PubRecs /\ pub'.table = t /\ pub'.session = f /\ pub'.made = pub.made
  BY <1>1, <1>4, TableFacts DEF PubRecs
<1>6. /\ \A i \in Ids : pub'.table[i] = None
      /\ \A m \in Sessions : pub'.session[m] = New(m)
  BY <1>5 DEF t, f
<1>7. \A m \in Sessions : m <= pub'.made => pub'.session[m].retired
  BY <1>2, <1>5, <1>6 DEF PbInv, TableInv
<1>8. PbType'
  BY <1>1, <1>5, TableFacts DEF PbType
<1>9. TableInv'
  BY <1>3, <1>5, <1>6, <1>7, TableFacts DEF TableInv, None
<1>10. OwnerInv'
  <2>1. ASSUME NEW m \in Sessions, pub'.session[m].job # NoJob
        PROVE  pub'.session[m].retired
    <3>1. m <= pub.made
      BY <2>1, <1>2, <1>6, MadeIs
    <3> QED BY <3>1, <1>5, <1>7
  <2> QED BY <2>1, <1>1, <1>5, <1>7 DEF PbInv, OwnerInv
<1>11. NoIdleEntry'
  BY <1>6 DEF NoIdleEntry
<1> QED BY <1>2, <1>6, <1>8, <1>9, <1>10, <1>11 DEF PbInv

LEMMA PbStutters ==
  ASSUME PbInv, UNCHANGED <<pub, calls>>
  PROVE  PbInv'
BY DEF PbInv, PbType, TableInv, OwnerInv, NoIdleEntry, JobOver

LEMMA PbInitKeeps == PbInit => PbInv
<1> SUFFICES ASSUME PbInit PROVE PbInv
  OBVIOUS
<1> DEFINE t == [i \in Ids |-> None]
           f == [n \in Sessions |-> NewSession]
<1>1. /\ pub = [closed |-> FALSE, made |-> 0, asks |-> 0, table |-> t, session |-> f]
      /\ calls = [k \in HttpCalls |-> NoCall]
  BY DEF PbInit
<1>2. t \in [Ids -> Places] /\ f \in [Sessions -> SessionRecs]
  BY NewSessionIs DEF Places
<1>3. \A i \in Ids : t[i] = None
  OBVIOUS
<1>4. \A n \in Sessions : f[n] = NewSession /\ n > 0
  BY PublisherAssumption DEF Sessions
<1> HIDE DEF t, f
<1>5. pub \in PubRecs /\ pub.table = t /\ pub.session = f /\ pub.made = 0
  BY <1>1, <1>2 DEF PubRecs
<1>6. NoCall \in CallRecs /\ NoCall.pc = "none" /\ NoCall.session = None
  BY DEF NoCall, CallRecs, Places, None
<1>7. PbType
  BY <1>1, <1>5, <1>6, PublisherAssumption DEF PbType
<1>8. TableInv
  BY <1>3, <1>4, <1>5, PublisherAssumption DEF TableInv, None, Sessions
<1>9. OwnerInv
  BY <1>1, <1>4, <1>5, <1>6, NewSessionIs DEF OwnerInv
<1>10. NoIdleEntry
  BY <1>3, <1>5 DEF NoIdleEntry
<1> QED BY <1>4, <1>5, <1>7, <1>8, <1>9, <1>10, NewSessionIs DEF PbInv

(* The inductive invariant of the publisher: the table, the calls and the  *)
(* jobs agree about whose session is whose, until it is retired; a live    *)
(* stream's outputs are its leases.                                        *)
THEOREM PublisherInvariant == PbSpec => []PbInv
<1>1. PbInv /\ [PbNext]_pbVars => PbInv'
  <2> SUFFICES ASSUME PbInv, [PbNext]_pbVars PROVE PbInv'
    OBVIOUS
  <2>1. ASSUME NEW k \in HttpCalls, NEW i \in Ids, NEW o \in HubOutputs, NEW later \in BOOLEAN,
               PbReserve(k, i, o, later) \/ PbLeave(k, i, o, later)
        PROVE  PbInv'
    BY <2>1, PbReserveKeeps, PbLeaveKeeps
  <2>2. ASSUME NEW k \in HttpCalls, PbGate(k)
        PROVE  PbInv'
    BY <2>2, PbGateKeeps
  <2>3. ASSUME NEW k \in HttpCalls, PbImageEnds(k) \/ \E i \in Ids : PbImage(k, i)
        PROVE  PbInv'
    BY <2>3, PbStutters DEF PbImageEnds, PbImage
  <2>4. ASSUME NEW n \in Sessions, PbRun(n) \/ PbAsk(n) \/ PbHostEnds(n)
        PROVE  PbInv'
    BY <2>4, PbRunKeeps, PbAskKeeps, PbHostEndsKeeps
  <2>5. ASSUME NEW n \in Sessions, \E ok \in BOOLEAN : PbOpened(n, ok)
        PROVE  PbInv'
    BY <2>5, PbOpenedKeeps
  <2>6. ASSUME NEW n \in Sessions, \E answer \in {"done", "rejected", "lost"} : PbAnswered(n, answer)
        PROVE  PbInv'
    BY <2>6, PbAnsweredKeeps
  <2>7. CASE PbClose
    BY <2>7, PbCloseKeeps
  <2>8. CASE UNCHANGED pbVars
    BY <2>8, PbStutters DEF pbVars
  <2> QED BY <2>1, <2>2, <2>3, <2>4, <2>5, <2>6, <2>7, <2>8 DEF PbNext
<1> QED BY PbInitKeeps, <1>1, PTL DEF PbSpec

(* Between two changes the outputs of a live stream are the leases its     *)
(* host has, a stream that is open belongs to a client of the table, and   *)
(* no client that has nothing takes a place in it, for any clients,        *)
(* outputs, requests and sessions (hub_output.rs connection, retire,       *)
(* ConnectionGuard::finish).                                               *)
THEOREM PublisherIsHonest == PbSpec => []PublisherHonest
<1>1. ASSUME PbInv
      PROVE  PublisherHonest
  <2>1. LeasesKnown
    BY <1>1, SessionFacts DEF LeasesKnown, SessionInv
  <2>2. ASSUME NEW n \in Sessions, JobOver(n), pub.session[n].stream = "open"
        PROVE  ~pub.session[n].retired /\ \E i \in Ids : pub.table[i] = n
    <3>1. ~pub.session[n].retired
      BY <1>1, <2>2, SessionFacts, NoJobIs DEF JobOver, SessionInv
    <3> QED BY <1>1, <2>2, <3>1, MadeIs DEF PbInv, TableInv
  <2> QED BY <1>1, <2>1, <2>2 DEF PublisherHonest, NoOrphanStream, PbInv
<1> QED BY <1>1, PublisherInvariant, PTL

-----------------------------------------------------------------------------
(* Coordinated operations of focusers                                      *)

(* The focuser groups by themselves: the safety part of the specification. *)
FgSpec == FgInit /\ [][FgNext]_fgVars

FgPlaces(g) == DOMAIN MembersOf[g]
FgPhases == {"none", "connecting", "moving", "complete", "partialFailure", "failed",
             "preflightFailed", "stopped", "failedUncertain"}
FgReports == {"notStarted", "rejected", "moving", "uncertain", "failed", "complete"}
FgOperations(g) ==
  [pc : {"idle", "connect", "reserve", "preflight", "check", "sent", "observe", "done"},
   at : FgPlaces(g), phase : FgPhases, note : {"none", "ok", "refused", "unknown"},
   held : SUBSET FgMembers(g), rep : [FgMembers(g) -> FgReports],
   moved : SUBSET FgMembers(g), moves : Nat]

(* How far an operation got, by its stage.                                 *)
FgStageInv(g, o) ==
  /\ o.pc = "idle" => o.phase = "none"
  /\ o.pc \in {"connect", "reserve", "preflight"} =>
        /\ o.phase = "connecting" /\ o.moved = {}
        /\ \A f \in FgMembers(g) : o.rep[f] = "notStarted"
  /\ o.pc = "connect" => o.at = 1
  /\ o.pc = "reserve" => \A i \in FgPlaces(g) : i < o.at => MembersOf[g][i] \in o.held
  /\ o.pc \in {"preflight", "check", "sent", "observe"} => o.held = FgMembers(g)
  /\ o.pc \in {"check", "sent", "observe"} => o.phase = "moving"
  /\ o.pc \in {"check", "sent"} =>
        \A i \in FgPlaces(g) :
          /\ i >= o.at => o.rep[MembersOf[g][i]] = "notStarted"
          /\ i > o.at \/ (i = o.at /\ o.pc = "check") => MembersOf[g][i] \notin o.moved
  /\ o.pc = "sent" /\ o.note = "ok" => MembersOf[g][o.at] \in o.moved
  /\ o.pc \in {"idle", "done"} => o.held = {}

(* What the report says of each member and of all.                         *)
FgReportInv(g, o) ==
  /\ \A f \in FgMembers(g) :
       /\ o.rep[f] \in {"notStarted", "rejected"} =>
            f \notin o.moved \/ (o.pc = "sent" /\ f = MembersOf[g][o.at])
                             \/ o.phase = "failedUncertain"
       /\ o.rep[f] \in {"moving", "complete"} => f \in o.moved
  /\ o.phase \in {"connecting", "failed", "preflightFailed"} => o.moved = {}
  /\ o.phase = "complete" => \A f \in FgMembers(g) : o.rep[f] = "complete"
  /\ o.phase = "partialFailure" => \A f \in FgMembers(g) : o.rep[f] # "moving"

FgOpInv(g, o) == o \in FgOperations(g) /\ FgStageInv(g, o) /\ FgReportInv(g, o)

FgInv ==
  /\ fop = [g \in Groups |-> fop[g]] /\ \A g \in Groups : FgOpInv(g, fop[g])
  /\ fctl \in [Focusers -> Groups \cup {Nobody}]
  /\ \A g \in Groups : \A f \in fop[g].held : fctl[f] = g

LEMMA FgFacts ==
  ASSUME NEW g \in Groups
  PROVE  /\ 1 \in FgPlaces(g) /\ Len(MembersOf[g]) \in Nat /\ FgPlaces(g) \subseteq Nat
         /\ \A i \in FgPlaces(g) : i # Len(MembersOf[g]) => i + 1 \in FgPlaces(g)
         /\ \A i \in FgPlaces(g) : i <= Len(MembersOf[g]) /\ MembersOf[g][i] \in FgMembers(g)
         /\ \A i, j \in FgPlaces(g) : MembersOf[g][i] = MembersOf[g][j] => i = j
         /\ \A f \in FgMembers(g) : \E i \in FgPlaces(g) : MembersOf[g][i] = f
         /\ FgMembers(g) \subseteq Focusers
<1>1. MembersOf[g] \in Seq(Focusers) /\ Len(MembersOf[g]) >= 2
  BY FocuserGroupAssumption
<1>2. FgPlaces(g) = 1 .. Len(MembersOf[g]) /\ Len(MembersOf[g]) \in Nat
  BY <1>1 DEF FgPlaces
<1>3. \A i, j \in FgPlaces(g) : MembersOf[g][i] = MembersOf[g][j] => i = j
  BY FocuserGroupAssumption DEF FgPlaces
<1>4. \A i \in FgPlaces(g) : MembersOf[g][i] \in FgMembers(g)
  BY DEF FgMembers, FgPlaces
<1>5. \A f \in FgMembers(g) : \E i \in FgPlaces(g) : MembersOf[g][i] = f
  BY DEF FgMembers, FgPlaces
<1>6. FgMembers(g) \subseteq Focusers
  BY DEF FgMembers, Focusers
<1> QED BY <1>1, <1>2, <1>3, <1>4, <1>5, <1>6

(* An operation of a group goes on; what it holds it has control of.       *)
LEMMA FgStep ==
  ASSUME FgInv, NEW g \in Groups, NEW o, FgOpInv(g, o), fop' = [fop EXCEPT ![g] = o],
         \/ fctl' = fctl /\ o.held \subseteq fop[g].held
         \/ \E f \in Focusers : /\ fctl[f] = Nobody /\ fctl' = [fctl EXCEPT ![f] = g]
                                /\ o.held = fop[g].held \cup {f}
  PROVE  FgInv'
<1>1. fop'[g] = o /\ \A h \in Groups \ {g} : fop'[h] = fop[h]
  BY DEF FgInv
<1>2. fop' = [h \in Groups |-> fop'[h]]
  BY DEF FgInv
<1>3. \A h \in Groups : FgOpInv(h, fop'[h])
  BY <1>1 DEF FgInv
<1>4. fctl' \in [Focusers -> Groups \cup {Nobody}]
  BY DEF FgInv
<1>5. \A h \in Groups : \A f \in fop'[h].held : fctl'[f] = h
  <2>1. CASE fctl' = fctl /\ o.held \subseteq fop[g].held
    BY <2>1, <1>1 DEF FgInv
  <2>2. ASSUME NEW f \in Focusers, fctl[f] = Nobody, fctl' = [fctl EXCEPT ![f] = g],
               o.held = fop[g].held \cup {f}
        PROVE  \A h \in Groups : \A e \in fop'[h].held : fctl'[e] = h
    <3>1. fctl'[f] = g /\ \A e \in Focusers \ {f} : fctl'[e] = fctl[e]
      BY <2>2 DEF FgInv
    <3>2. \A h \in Groups : h # Nobody
      BY FocuserGroupAssumption
    <3>3. ASSUME NEW h \in Groups, NEW e \in fop'[h].held
          PROVE  fctl'[e] = h
      <4>1. CASE e = f
        BY <4>1, <1>1, <2>2, <3>1, <3>2, <3>3 DEF FgInv
      <4>2. CASE e # f
        <5>1. e \in fop[h].held
          BY <4>2, <1>1, <2>2, <3>3
        <5>2. e \in Focusers /\ fctl[e] = h
          BY <5>1, FgFacts DEF FgInv, FgOpInv, FgOperations
        <5> QED BY <4>2, <5>2, <3>1
      <4> QED BY <4>1, <4>2
    <3> QED BY <3>3
  <2> QED BY <2>1, <2>2
<1> QED BY <1>2, <1>3, <1>4, <1>5 DEF FgInv

LEMMA FgOperationIs ==
  ASSUME FgInv, NEW g \in Groups
  PROVE  /\ fop[g] \in FgOperations(g) /\ FgStageInv(g, fop[g]) /\ FgReportInv(g, fop[g])
         /\ fop[g].at \in FgPlaces(g) /\ FgMember(g) \in FgMembers(g)
         /\ FgMember(g) = MembersOf[g][fop[g].at]
BY FgFacts DEF FgInv, FgOpInv, FgOperations, FgMember

LEMMA FgEndedIs ==
  ASSUME NEW g \in Groups, NEW o \in FgOperations(g), NEW p \in FgPhases
  PROVE  /\ FgEnded(o, p) \in FgOperations(g) /\ FgEnded(o, p).pc = "done"
         /\ FgEnded(o, p).phase = p /\ FgEnded(o, p).held = {} /\ FgEnded(o, p).note = "none"
         /\ FgEnded(o, p).rep = o.rep /\ FgEnded(o, p).moved = o.moved
BY FgFacts DEF FgEnded, FgOperations

(* What ends an operation keeps the invariant if its report is true.       *)
LEMMA FgEnds ==
  ASSUME FgInv, NEW g \in Groups, NEW o \in FgOperations(g), NEW p \in FgPhases \ {"none"},
         fop' = [fop EXCEPT ![g] = FgEnded(o, p)], fctl' = fctl,
         \A f \in FgMembers(g) :
           /\ o.rep[f] \in {"notStarted", "rejected"} => f \notin o.moved \/ p = "failedUncertain"
           /\ o.rep[f] \in {"moving", "complete"} => f \in o.moved,
         p \in {"connecting", "failed", "preflightFailed"} => o.moved = {},
         p = "complete" => \A f \in FgMembers(g) : o.rep[f] = "complete",
         p = "partialFailure" => \A f \in FgMembers(g) : o.rep[f] # "moving"
  PROVE  FgInv'
<1> DEFINE e == FgEnded(o, p)
<1>1. /\ e \in FgOperations(g) /\ e.pc = "done" /\ e.phase = p /\ e.held = {}
      /\ e.rep = o.rep /\ e.moved = o.moved
  BY FgEndedIs
<1> HIDE DEF e
<1>2. FgStageInv(g, e)
  BY <1>1 DEF FgStageInv
<1>3. FgReportInv(g, e)
  BY <1>1 DEF FgReportInv
<1>4. FgOpInv(g, e) /\ e.held \subseteq fop[g].held
  BY <1>1, <1>2, <1>3 DEF FgOpInv
<1> QED BY <1>4, FgStep DEF e

LEMMA FgNewIs ==
  ASSUME NEW g \in Groups
  PROVE  /\ NoOperation(g) \in FgOperations(g) /\ FgOpInv(g, NoOperation(g))
         /\ NoOperation(g).held = {}
<1>1. NoOperation(g) \in FgOperations(g)
  BY FgFacts DEF NoOperation, FgOperations, FgPhases, FgReports
<1>2. FgStageInv(g, NoOperation(g))
  BY DEF NoOperation, FgStageInv
<1>3. FgReportInv(g, NoOperation(g))
  BY DEF NoOperation, FgReportInv
<1> QED BY <1>1, <1>2, <1>3 DEF FgOpInv, NoOperation

LEMMA FgStartKeeps ==
  ASSUME FgInv, NEW g \in Groups, FgStart(g)
  PROVE  FgInv'
<1> DEFINE o == [NoOperation(g) EXCEPT !.pc = "connect", !.phase = "connecting",
                                       !.moves = fop[g].moves + 1]
<1>1. fop' = [fop EXCEPT ![g] = o] /\ fctl' = fctl
  BY DEF FgStart
<1>2. fop[g].moves + 1 \in Nat
  BY FgOperationIs DEF FgOperations
<1>3. o \in FgOperations(g)
  BY <1>2, FgNewIs DEF FgOperations, FgPhases
<1>4. FgStageInv(g, o)
  BY DEF NoOperation, FgStageInv
<1>5. FgReportInv(g, o) /\ o.held = {}
  BY DEF NoOperation, FgReportInv
<1> HIDE DEF o
<1> QED BY <1>1, <1>3, <1>4, <1>5, FgStep DEF FgOpInv

LEMMA FgConnectKeeps ==
  ASSUME FgInv, NEW g \in Groups, FgConnect(g)
  PROVE  FgInv'
<1> DEFINE o == [fop[g] EXCEPT !.pc = "reserve"]
<1>1. /\ fop' = [fop EXCEPT ![g] = o] /\ fctl' = fctl /\ fop[g].pc = "connect"
      /\ fop[g] \in FgOperations(g) /\ FgStageInv(g, fop[g]) /\ FgReportInv(g, fop[g])
  BY FgOperationIs DEF FgConnect
<1>2. /\ o \in FgOperations(g) /\ o.pc = "reserve" /\ o.at = fop[g].at
      /\ o.phase = fop[g].phase /\ o.held = fop[g].held /\ o.rep = fop[g].rep
      /\ o.moved = fop[g].moved
  BY <1>1 DEF FgOperations
<1> HIDE DEF o
<1>3. \A i \in FgPlaces(g) : ~(i < 1)
  BY FgFacts, FocuserGroupAssumption DEF FgPlaces
<1>4. FgStageInv(g, o)
  BY <1>1, <1>2, <1>3 DEF FgStageInv
<1>5. FgReportInv(g, o)
  BY <1>1, <1>2 DEF FgReportInv
<1> QED BY <1>1, <1>2, <1>4, <1>5, FgStep DEF FgOpInv

LEMMA FgConnectFailsKeeps ==
  ASSUME FgInv, NEW g \in Groups, FgConnectFails(g)
  PROVE  FgInv'
<1>1. /\ fop' = [fop EXCEPT ![g] = FgEnded(fop[g], "failed")] /\ fctl' = fctl
      /\ fop[g].pc = "connect"
  BY FgOperationIs DEF FgConnectFails, FgInv
<1>2. /\ fop[g] \in FgOperations(g) /\ fop[g].moved = {}
      /\ \A f \in FgMembers(g) : fop[g].rep[f] = "notStarted"
  BY <1>1, FgOperationIs DEF FgStageInv
<1>3. "failed" \in FgPhases \ {"none"}
  BY DEF FgPhases
<1> DEFINE o == fop[g]
<1>4. /\ o \in FgOperations(g) /\ fop' = [fop EXCEPT ![g] = FgEnded(o, "failed")]
      /\ \A f \in FgMembers(g) :
           /\ o.rep[f] \in {"notStarted", "rejected"} => f \notin o.moved
           /\ o.rep[f] \notin {"moving", "complete"}
      /\ o.moved = {}
  BY <1>1, <1>2
<1> HIDE DEF o
<1> QED BY <1>1, <1>3, <1>4, FgEnds

(* The next member, or the stage after the last.                           *)
LEMMA FgAdvanceIs ==
  ASSUME FgInv, NEW g \in Groups,
         NEW stage \in {"preflight", "check"}
  PROVE  LET o == FgAdvance(g, stage) IN
         /\ o \in FgOperations(g) /\ o.phase = fop[g].phase /\ o.held = fop[g].held
         /\ o.rep = fop[g].rep /\ o.moved = fop[g].moved /\ o.note = fop[g].note
         /\ \/ FgLast(g) /\ o.pc = stage /\ o.at = 1
            \/ ~FgLast(g) /\ o.pc = fop[g].pc /\ o.at = fop[g].at + 1
<1>1. fop[g] \in FgOperations(g) /\ fop[g].at \in FgPlaces(g)
  BY FgOperationIs
<1>2. CASE FgLast(g)
  BY <1>1, <1>2, FgFacts DEF FgAdvance, FgOperations
<1>3. CASE ~FgLast(g)
  <2>1. fop[g].at + 1 \in FgPlaces(g)
    BY <1>1, <1>3, FgFacts DEF FgLast
  <2> QED BY <1>1, <1>3, <2>1 DEF FgAdvance, FgOperations
<1> QED BY <1>2, <1>3

LEMMA FgReserveKeeps ==
  ASSUME FgInv, NEW g \in Groups, FgReserve(g)
  PROVE  FgInv'
<1> DEFINE a == FgAdvance(g, "preflight")
           o == [a EXCEPT !.held = @ \cup {FgMember(g)}]
<1>1. /\ fop' = [fop EXCEPT ![g] = o] /\ fctl' = [fctl EXCEPT ![FgMember(g)] = g]
      /\ fop[g].pc = "reserve" /\ fctl[FgMember(g)] = Nobody
  BY DEF FgReserve
<1>2. /\ FgStageInv(g, fop[g]) /\ FgReportInv(g, fop[g]) /\ fop[g].at \in FgPlaces(g)
      /\ FgMember(g) \in FgMembers(g) /\ FgMember(g) = MembersOf[g][fop[g].at]
      /\ FgMember(g) \in Focusers
  BY FgOperationIs, FgFacts
<1>3. /\ a \in FgOperations(g) /\ a.phase = fop[g].phase /\ a.held = fop[g].held
      /\ a.rep = fop[g].rep /\ a.moved = fop[g].moved
      /\ \/ FgLast(g) /\ a.pc = "preflight" /\ a.at = 1
         \/ ~FgLast(g) /\ a.pc = "reserve" /\ a.at = fop[g].at + 1
  BY <1>1, FgAdvanceIs
<1> HIDE DEF a
<1>4. /\ o \in FgOperations(g) /\ o.phase = a.phase /\ o.held = fop[g].held \cup {FgMember(g)}
      /\ o.rep = a.rep /\ o.moved = a.moved /\ o.pc = a.pc /\ o.at = a.at
  BY <1>2, <1>3 DEF FgOperations
<1> HIDE DEF o
<1>5. \A i \in FgPlaces(g) : i <= fop[g].at => MembersOf[g][i] \in o.held
  <2>1. \A i \in FgPlaces(g) : i < fop[g].at => MembersOf[g][i] \in fop[g].held
    BY <1>1, <1>2 DEF FgStageInv
  <2>2. \A i \in FgPlaces(g) : i <= fop[g].at => i < fop[g].at \/ i = fop[g].at
    BY <1>2, FgFacts
  <2> QED BY <2>1, <2>2, <1>2, <1>4
<1>6. FgLast(g) => o.held = FgMembers(g)
  <2>1. FgLast(g) => \A i \in FgPlaces(g) : MembersOf[g][i] \in o.held
    BY <1>5, FgFacts DEF FgLast
  <2> QED BY <2>1, <1>4, FgFacts DEF FgOperations
<1>7. ~FgLast(g) => \A i \in FgPlaces(g) : i < o.at => MembersOf[g][i] \in o.held
  BY <1>2, <1>3, <1>4, <1>5, FgFacts
<1>8. FgStageInv(g, o)
  BY <1>1, <1>2, <1>3, <1>4, <1>6, <1>7 DEF FgStageInv
<1>9. FgReportInv(g, o)
  BY <1>1, <1>2, <1>3, <1>4 DEF FgReportInv
<1> QED BY <1>1, <1>2, <1>4, <1>8, <1>9, FgStep DEF FgOpInv

LEMMA FgPreflightKeeps ==
  ASSUME FgInv, NEW g \in Groups, FgPreflight(g)
  PROVE  FgInv'
<1> DEFINE a == FgAdvance(g, "check")
           o == IF FgLast(g) THEN [a EXCEPT !.phase = "moving"] ELSE a
<1>1. fop' = [fop EXCEPT ![g] = o] /\ fctl' = fctl /\ fop[g].pc = "preflight"
  BY DEF FgPreflight
<1>2. FgStageInv(g, fop[g]) /\ FgReportInv(g, fop[g])
  BY FgOperationIs
<1>3. /\ a \in FgOperations(g) /\ a.phase = fop[g].phase /\ a.held = fop[g].held
      /\ a.rep = fop[g].rep /\ a.moved = fop[g].moved
      /\ \/ FgLast(g) /\ a.pc = "check" /\ a.at = 1
         \/ ~FgLast(g) /\ a.pc = "preflight" /\ a.at = fop[g].at + 1
  BY <1>1, FgAdvanceIs
<1> HIDE DEF a
<1>4. /\ o \in FgOperations(g) /\ o.held = FgMembers(g) /\ o.moved = {}
      /\ \A f \in FgMembers(g) : o.rep[f] = "notStarted"
      /\ \/ o.pc = "check" /\ o.phase = "moving"
         \/ o.pc = "preflight" /\ o.phase = "connecting"
  BY <1>1, <1>2, <1>3 DEF FgOperations, FgPhases, FgStageInv
<1> HIDE DEF o
<1>5. FgStageInv(g, o)
  BY <1>4, FgFacts DEF FgStageInv
<1>6. FgReportInv(g, o)
  BY <1>4 DEF FgReportInv
<1>7. o.held \subseteq fop[g].held
  BY <1>1, <1>2, <1>4 DEF FgStageInv
<1> QED BY <1>1, <1>4, <1>5, <1>6, <1>7, FgStep DEF FgOpInv

(* A report in which one member is now told r.                             *)
FgTold(o, f, r) == [o EXCEPT !.rep[f] = r]

LEMMA FgToldIs ==
  ASSUME NEW g \in Groups, NEW o \in FgOperations(g), NEW f \in FgMembers(g), NEW r \in FgReports
  PROVE  /\ FgTold(o, f, r) \in FgOperations(g) /\ FgTold(o, f, r).rep[f] = r
         /\ \A h \in FgMembers(g) \ {f} : FgTold(o, f, r).rep[h] = o.rep[h]
         /\ FgTold(o, f, r).pc = o.pc /\ FgTold(o, f, r).at = o.at
         /\ FgTold(o, f, r).phase = o.phase /\ FgTold(o, f, r).note = o.note
         /\ FgTold(o, f, r).held = o.held /\ FgTold(o, f, r).moved = o.moved
BY DEF FgOperations, FgTold

LEMMA FgRejectedKeeps ==
  ASSUME FgInv, NEW g \in Groups, FgRejected(g)
  PROVE  FgInv'
<1> DEFINE o == FgTold(fop[g], FgMember(g), "rejected")
<1>1. /\ fop' = [fop EXCEPT ![g] = FgEnded(o, "preflightFailed")] /\ fctl' = fctl
      /\ fop[g].pc \in {"reserve", "preflight"}
  BY DEF FgRejected, FgInv, FgTold
<1>2. /\ fop[g] \in FgOperations(g) /\ fop[g].moved = {} /\ FgMember(g) \in FgMembers(g)
      /\ \A f \in FgMembers(g) : fop[g].rep[f] = "notStarted"
  BY <1>1, FgOperationIs DEF FgStageInv
<1>3. /\ o \in FgOperations(g) /\ o.moved = {}
      /\ \A f \in FgMembers(g) : o.rep[f] \in {"notStarted", "rejected"}
  <2>1. "rejected" \in FgReports
    BY DEF FgReports
  <2>2. /\ o \in FgOperations(g) /\ o.moved = {} /\ o.rep[FgMember(g)] = "rejected"
        /\ \A f \in FgMembers(g) \ {FgMember(g)} : o.rep[f] = "notStarted"
    BY <1>2, <2>1, FgToldIs
  <2> HIDE DEF o
  <2> QED BY <2>2
<1>4. "preflightFailed" \in FgPhases \ {"none"}
  BY DEF FgPhases
<1> HIDE DEF o
<1>5. \A f \in FgMembers(g) :
         /\ o.rep[f] \in {"notStarted", "rejected"} => f \notin o.moved
         /\ o.rep[f] \notin {"moving", "complete"}
  BY <1>3
<1> QED BY <1>1, <1>3, <1>4, <1>5, FgEnds

LEMMA FgDispatchKeeps ==
  ASSUME FgInv, NEW g \in Groups, FgDispatch(g)
  PROVE  FgInv'
<1> DEFINE f == FgMember(g)
<1>1. fop[g].pc = "check" /\ fctl' = fctl
  BY DEF FgDispatch
<1>2. PICK n \in {"ok", "refused", "unknown"}, m \in {fop[g].moved, fop[g].moved \cup {f}} :
        /\ n = "ok" => m = fop[g].moved \cup {f}
        /\ fop' = [fop EXCEPT ![g] = [fop[g] EXCEPT !.pc = "sent", !.note = n, !.moved = m]]
  <2>1. PICK n \in {"ok", "refused", "unknown"} :
           \/ n # "refused" /\ fop' = [fop EXCEPT ![g].pc = "sent", ![g].note = n,
                                                  ![g].moved = @ \cup {f}]
           \/ n # "ok" /\ fop' = [fop EXCEPT ![g].pc = "sent", ![g].note = n]
    BY DEF FgDispatch
  <2>2. fop = [h \in Groups |-> fop[h]] /\ fop[g] \in FgOperations(g)
    BY FgOperationIs DEF FgInv
  <2> HIDE DEF f
  <2>3. CASE fop' = [fop EXCEPT ![g].pc = "sent", ![g].note = n, ![g].moved = @ \cup {f}]
    <3>1. fop' = [fop EXCEPT ![g] = [fop[g] EXCEPT !.pc = "sent", !.note = n,
                                                   !.moved = fop[g].moved \cup {f}]]
      BY <2>2, <2>3 DEF FgOperations
    <3> QED BY <3>1
  <2>4. CASE n # "ok" /\ fop' = [fop EXCEPT ![g].pc = "sent", ![g].note = n]
    <3>1. fop' = [fop EXCEPT ![g] = [fop[g] EXCEPT !.pc = "sent", !.note = n,
                                                   !.moved = fop[g].moved]]
      BY <2>2, <2>4 DEF FgOperations
    <3> QED BY <2>4, <3>1
  <2> QED BY <2>1, <2>3, <2>4
<1> DEFINE o == [fop[g] EXCEPT !.pc = "sent", !.note = n, !.moved = m]
<1>3. /\ fop[g] \in FgOperations(g) /\ FgStageInv(g, fop[g]) /\ FgReportInv(g, fop[g])
      /\ f \in FgMembers(g) /\ f = MembersOf[g][fop[g].at] /\ fop[g].at \in FgPlaces(g)
  BY FgOperationIs
<1>4. m \in SUBSET FgMembers(g)
  BY <1>2, <1>3 DEF FgOperations
<1> HIDE DEF f
<1>5. /\ o \in FgOperations(g) /\ o.pc = "sent" /\ o.at = fop[g].at /\ o.phase = fop[g].phase
      /\ o.note = n /\ o.held = fop[g].held /\ o.rep = fop[g].rep /\ o.moved = m
  BY <1>3, <1>4 DEF FgOperations
<1> HIDE DEF o
<1>6. FgStageInv(g, o)
  <2>1. \A i \in FgPlaces(g) :
          /\ i >= o.at => o.rep[MembersOf[g][i]] = "notStarted"
          /\ i > o.at => MembersOf[g][i] \notin o.moved
    <3>1. \A i \in FgPlaces(g) : i > fop[g].at => MembersOf[g][i] # f
      BY <1>3, FgFacts
    <3> QED BY <1>1, <1>2, <1>3, <1>5, <3>1 DEF FgStageInv
  <2>2. o.phase = "moving" /\ o.held = FgMembers(g)
    BY <1>1, <1>3, <1>5 DEF FgStageInv
  <2>3. \A i \in FgPlaces(g) : ~(i > i)
    BY FgFacts
  <2>4. o.note = "ok" => MembersOf[g][o.at] \in o.moved
    BY <1>2, <1>3, <1>5
  <2> QED BY <1>3, <1>5, <2>1, <2>2, <2>3, <2>4 DEF FgStageInv
<1>7. FgReportInv(g, o)
  <2>1. \A h \in FgMembers(g) : h \in m => h \in fop[g].moved \/ h = MembersOf[g][o.at]
    BY <1>2, <1>3, <1>5
  <2>2. \A h \in FgMembers(g) : h \in fop[g].moved => h \in m
    BY <1>2
  <2>3. fop[g].phase = "moving"
    BY <1>1, <1>3 DEF FgStageInv
  <2> QED BY <1>1, <1>3, <1>5, <2>1, <2>2, <2>3 DEF FgReportInv
<1>8. fop' = [fop EXCEPT ![g] = o]
  BY <1>2 DEF o
<1> QED BY <1>1, <1>5, <1>6, <1>7, <1>8, FgStep DEF FgOpInv

(* What goes on to the observation, with one member told r.                *)
LEMMA FgObserves ==
  ASSUME FgInv, NEW g \in Groups, NEW o \in FgOperations(g), fop[g].pc \in {"check", "sent", "observe"},
         fop' = [fop EXCEPT ![g] = o], fctl' = fctl,
         o.pc = "observe", o.phase = fop[g].phase, o.held = fop[g].held, o.moved = fop[g].moved,
         NEW f \in FgMembers(g),
         \A h \in FgMembers(g) : h = f \/ o.rep[h] = fop[g].rep[h],
         fop[g].pc = "sent" => f = FgMember(g),
         o.rep[f] \in {"notStarted", "rejected"} => f \notin fop[g].moved,
         o.rep[f] \in {"moving", "complete"} => f \in fop[g].moved
  PROVE  FgInv'
<1>1. /\ FgStageInv(g, fop[g]) /\ FgReportInv(g, fop[g]) /\ FgMember(g) = MembersOf[g][fop[g].at]
  BY FgOperationIs
<1>2. o.phase = "moving" /\ o.held = FgMembers(g)
  BY <1>1 DEF FgStageInv
<1>3. FgStageInv(g, o)
  BY <1>2 DEF FgStageInv
<1>4. FgReportInv(g, o)
  <2>1. ASSUME NEW h \in FgMembers(g)
        PROVE  /\ o.rep[h] \in {"notStarted", "rejected"} => h \notin o.moved
               /\ o.rep[h] \in {"moving", "complete"} => h \in o.moved
    <3>1. CASE h = f
      BY <3>1
    <3>2. CASE h # f
      <4>1. o.rep[h] = fop[g].rep[h] /\ fop[g].phase = "moving"
        BY <3>2, <1>2
      <4> QED BY <3>2, <4>1, <1>1 DEF FgReportInv
    <3> QED BY <3>1, <3>2
  <2> QED BY <1>2, <2>1 DEF FgReportInv
<1> QED BY <1>3, <1>4, FgStep DEF FgOpInv

LEMMA FgRecheckFailsKeeps ==
  ASSUME FgInv, NEW g \in Groups, FgRecheckFails(g)
  PROVE  FgInv'
<1> DEFINE f == FgMember(g)
           e == [fop[g] EXCEPT !.pc = "observe"]
           o == FgTold(e, f, "rejected")
<1>1. /\ fop[g].pc = "check" /\ fctl' = fctl /\ fop' = [fop EXCEPT ![g] = o]
  <2>1. /\ fop = [h \in Groups |-> fop[h]] /\ fop[g] \in FgOperations(g)
        /\ fop' = [fop EXCEPT ![g].pc = "observe", ![g].rep[f] = "rejected"]
        /\ fop[g].pc = "check" /\ fctl' = fctl
    BY FgOperationIs DEF FgRecheckFails, FgInv
  <2> HIDE DEF f
  <2> QED BY <2>1 DEF FgOperations, FgTold
<1>2. /\ fop[g] \in FgOperations(g) /\ FgStageInv(g, fop[g]) /\ f \in FgMembers(g)
      /\ f = MembersOf[g][fop[g].at] /\ fop[g].at \in FgPlaces(g)
  BY FgOperationIs
<1>3. /\ e \in FgOperations(g) /\ e.pc = "observe" /\ e.phase = fop[g].phase
      /\ e.held = fop[g].held /\ e.rep = fop[g].rep /\ e.moved = fop[g].moved
  BY <1>2 DEF FgOperations
<1>4. "rejected" \in FgReports
  BY DEF FgReports
<1> HIDE DEF e, f
<1>5. /\ o \in FgOperations(g) /\ o.pc = "observe" /\ o.phase = fop[g].phase
      /\ o.held = fop[g].held /\ o.moved = fop[g].moved /\ o.rep[f] = "rejected"
      /\ \A h \in FgMembers(g) \ {f} : o.rep[h] = fop[g].rep[h]
  BY <1>2, <1>3, <1>4, FgToldIs
<1>6. f \notin fop[g].moved
  BY <1>1, <1>2 DEF FgStageInv
<1> HIDE DEF o
<1>7. \A h \in FgMembers(g) : h = f \/ o.rep[h] = fop[g].rep[h]
  BY <1>5
<1>8. /\ fop[g].pc = "sent" => f = FgMember(g)
      /\ o.rep[f] \in {"notStarted", "rejected"} => f \notin fop[g].moved
      /\ o.rep[f] \in {"moving", "complete"} => f \in fop[g].moved
  BY <1>1, <1>5, <1>6
<1>9. fop[g].pc \in {"check", "sent", "observe"}
  BY <1>1
<1> QED BY <1>1, <1>2, <1>5, <1>7, <1>8, <1>9, FgObserves

LEMMA FgAnsweredKeeps ==
  ASSUME FgInv, NEW g \in Groups, FgAnswered(g)
  PROVE  FgInv'
<1> DEFINE f == FgMember(g)
           told == CASE fop[g].note = "ok" -> "moving"
                     [] fop[g].note = "refused" -> "failed" [] OTHER -> "uncertain"
           next == IF told = "moving" /\ ~FgLast(g) THEN "check" ELSE "observe"
           at == IF next = "check" THEN fop[g].at + 1 ELSE 1
           e == [fop[g] EXCEPT !.note = "none", !.pc = next, !.at = at]
           o == FgTold(e, f, told)
<1>1. /\ fop[g] \in FgOperations(g) /\ FgStageInv(g, fop[g]) /\ FgReportInv(g, fop[g])
      /\ f \in FgMembers(g) /\ f = MembersOf[g][fop[g].at] /\ fop[g].at \in FgPlaces(g)
  BY FgOperationIs
<1>2. fop[g].pc = "sent" /\ fctl' = fctl
  BY DEF FgAnswered
<1>3. fop' = [fop EXCEPT ![g] = o]
  <2>1. fop' = [fop EXCEPT ![g] = [fop[g] EXCEPT !.rep[f] = told, !.note = "none", !.pc = next,
                                                  !.at = at]]
    <3>1. fop' = [fop EXCEPT ![g] = [@ EXCEPT !.rep[f] = told, !.note = "none", !.pc = next,
                                               !.at = at]]
      BY DEF FgAnswered
    <3>2. fop = [h \in Groups |-> fop[h]]
      BY DEF FgInv
    <3> HIDE DEF told, next, f, at
    <3> QED BY <3>1, <3>2
  <2> HIDE DEF told, next, at, f
  <2>2. [fop[g] EXCEPT !.rep[f] = told, !.note = "none", !.pc = next, !.at = at] = o
    BY <1>1 DEF FgOperations, FgTold
  <2> QED BY <2>1, <2>2
<1>4. /\ told \in FgReports \ {"notStarted", "rejected", "complete"}
      /\ told = "moving" => fop[g].note = "ok"
  BY DEF FgReports
<1>5. /\ next \in {"check", "observe"} /\ at \in FgPlaces(g)
      /\ next = "check" => at = fop[g].at + 1 /\ told = "moving"
  BY <1>1, FgFacts DEF FgLast
<1> HIDE DEF told, next, at, f
<1>6. /\ e \in FgOperations(g) /\ e.pc = next /\ e.at = at /\ e.phase = fop[g].phase
      /\ e.held = fop[g].held /\ e.rep = fop[g].rep /\ e.moved = fop[g].moved
  BY <1>1, <1>5 DEF FgOperations
<1> HIDE DEF e
<1>7. /\ o \in FgOperations(g) /\ o.pc = next /\ o.at = at /\ o.phase = fop[g].phase
      /\ o.held = fop[g].held /\ o.moved = fop[g].moved /\ o.rep[f] = told
      /\ \A h \in FgMembers(g) \ {f} : o.rep[h] = fop[g].rep[h]
  BY <1>1, <1>4, <1>6, FgToldIs
<1>8. told = "moving" => f \in fop[g].moved
  BY <1>1, <1>2, <1>4 DEF FgStageInv
<1> HIDE DEF o
<1>9. CASE next = "observe"
  <2>1. f = FgMember(g)
    BY DEF f
  <2>2. /\ o.rep[f] \in {"notStarted", "rejected"} => f \notin fop[g].moved
        /\ o.rep[f] \in {"moving", "complete"} => f \in fop[g].moved
        /\ o.pc = "observe"
        /\ fop[g].pc \in {"check", "sent", "observe"}
    BY <1>2, <1>4, <1>7, <1>8, <1>9
  <2>3. \A h \in FgMembers(g) : h = f \/ o.rep[h] = fop[g].rep[h]
    BY <1>7
  <2> QED BY <1>1, <1>2, <1>3, <1>7, <2>1, <2>2, <2>3, FgObserves
<1>10. CASE next = "check"
  <2>1. \A i \in FgPlaces(g) : i >= o.at => i > fop[g].at /\ i # fop[g].at
    BY <1>1, <1>5, <1>7, <1>10, FgFacts
  <2>2. \A i \in FgPlaces(g) : i >= o.at =>
           o.rep[MembersOf[g][i]] = "notStarted" /\ MembersOf[g][i] \notin o.moved
    <3>1. \A i \in FgPlaces(g) : i > fop[g].at => i >= fop[g].at
      BY <1>1, FgFacts
    <3>2. \A i \in FgPlaces(g) : i >= o.at => MembersOf[g][i] # f /\ MembersOf[g][i] \in FgMembers(g)
      BY <1>1, <2>1, FgFacts
    <3> QED BY <1>1, <1>2, <1>7, <2>1, <3>1, <3>2 DEF FgStageInv
  <2>3. \A i \in FgPlaces(g) : i > o.at \/ i = o.at => i >= o.at
    BY <1>5, <1>7, FgFacts
  <2>4. o.phase = "moving" /\ o.held = FgMembers(g) /\ o.pc = "check"
    BY <1>1, <1>2, <1>7, <1>10 DEF FgStageInv
  <2>5. FgStageInv(g, o)
    BY <2>2, <2>3, <2>4 DEF FgStageInv
  <2>6. FgReportInv(g, o)
    <3>1. ASSUME NEW h \in FgMembers(g)
          PROVE  /\ o.rep[h] \in {"notStarted", "rejected"} => h \notin o.moved
                 /\ o.rep[h] \in {"moving", "complete"} => h \in o.moved
      <4>1. CASE h = f
        BY <4>1, <1>4, <1>7, <1>8
      <4>2. CASE h # f
        BY <4>2, <1>1, <1>7, <2>4 DEF FgReportInv
      <4> QED BY <4>1, <4>2
    <3> QED BY <2>4, <3>1 DEF FgReportInv
  <2> QED BY <1>2, <1>3, <1>7, <2>5, <2>6, FgStep DEF FgOpInv
<1> QED BY <1>5, <1>9, <1>10

LEMMA FgObserveKeeps ==
  ASSUME FgInv, NEW g \in Groups, NEW f \in FgMembers(g), FgObserve(g, f)
  PROVE  FgInv'
<1>1. PICK r \in {"uncertain", "complete", "failed"} :
         fop' = [fop EXCEPT ![g] = FgTold(fop[g], f, r)]
  BY DEF FgObserve, FgInv, FgTold
<1> DEFINE o == FgTold(fop[g], f, r)
<1>2. /\ fop[g] \in FgOperations(g) /\ FgReportInv(g, fop[g]) /\ fctl' = fctl
      /\ fop[g].pc = "observe" /\ fop[g].rep[f] = "moving"
  BY FgOperationIs DEF FgObserve
<1>3. r \in FgReports /\ f \in fop[g].moved
  BY <1>2 DEF FgReports, FgReportInv
<1>4. /\ o \in FgOperations(g) /\ o.pc = "observe" /\ o.phase = fop[g].phase
      /\ o.held = fop[g].held /\ o.moved = fop[g].moved /\ o.rep[f] = r
      /\ \A h \in FgMembers(g) \ {f} : o.rep[h] = fop[g].rep[h]
  BY <1>2, <1>3, FgToldIs
<1>5. fop' = [fop EXCEPT ![g] = o]
  BY <1>1
<1>6. /\ fop[g].pc = "sent" => f = FgMember(g)
      /\ o.rep[f] \in {"notStarted", "rejected"} => f \notin fop[g].moved
      /\ o.rep[f] \in {"moving", "complete"} => f \in fop[g].moved
      /\ fop[g].pc \in {"check", "sent", "observe"}
  BY <1>1, <1>2, <1>3, <1>4
<1> HIDE DEF o
<1>7. \A h \in FgMembers(g) : h = f \/ o.rep[h] = fop[g].rep[h]
  BY <1>4
<1> QED BY <1>2, <1>3, <1>4, <1>5, <1>6, <1>7, FgObserves

LEMMA FgFinishKeeps ==
  ASSUME FgInv, NEW g \in Groups, FgFinish(g)
  PROVE  FgInv'
<1> DEFINE o == fop[g]
           p == IF \A f \in FgMembers(g) : fop[g].rep[f] = "complete" THEN "complete"
                ELSE "partialFailure"
<1>1. /\ o.pc = "observe" /\ fop' = [fop EXCEPT ![g] = FgEnded(o, p)] /\ fctl' = fctl
      /\ \A f \in FgMembers(g) : o.rep[f] # "moving"
  BY DEF FgFinish, FgInv
<1>2. p \in FgPhases \ {"none"} /\ p \in {"complete", "partialFailure"}
  BY DEF FgPhases
<1>3. o \in FgOperations(g) /\ FgReportInv(g, o) /\ o.phase = "moving"
  BY <1>1, FgOperationIs DEF FgStageInv
<1>4. p = "complete" => \A f \in FgMembers(g) : o.rep[f] = "complete"
  OBVIOUS
<1>5. \A f \in FgMembers(g) :
         /\ o.rep[f] \in {"notStarted", "rejected"} => f \notin o.moved
         /\ o.rep[f] \in {"moving", "complete"} => f \in o.moved
  BY <1>1, <1>3 DEF FgReportInv
<1> HIDE DEF o, p
<1> QED BY <1>1, <1>2, <1>3, <1>4, <1>5, FgEnds

LEMMA FgInterruptedKeeps ==
  ASSUME FgInv, NEW g \in Groups, FgInterrupted(g)
  PROVE  FgInv'
<1> DEFINE o == fop[g]
<1>1. /\ o.pc \in FgInterruptible /\ fop' = [fop EXCEPT ![g] = FgEnded(o, "stopped")]
      /\ fctl' = fctl
  BY DEF FgInterrupted, FgInv
<1>2. "stopped" \in FgPhases \ {"none"}
  BY DEF FgPhases
<1>3. /\ o \in FgOperations(g) /\ FgReportInv(g, o) /\ o.phase \in {"connecting", "moving"}
      /\ o.pc # "sent"
  BY <1>1, FgOperationIs DEF FgStageInv, FgInterruptible
<1>4. \A f \in FgMembers(g) :
         /\ o.rep[f] \in {"notStarted", "rejected"} => f \notin o.moved
         /\ o.rep[f] \in {"moving", "complete"} => f \in o.moved
  BY <1>1, <1>3 DEF FgReportInv
<1> HIDE DEF o
<1> QED BY <1>1, <1>2, <1>3, <1>4, FgEnds

LEMMA FgTaskDiesKeeps ==
  ASSUME FgInv, NEW g \in Groups, FgTaskDies(g)
  PROVE  FgInv'
<1> DEFINE o == fop[g]
<1>1. fop' = [fop EXCEPT ![g] = FgEnded(o, "failedUncertain")] /\ fctl' = fctl
  BY DEF FgTaskDies, FgInv
<1>2. "failedUncertain" \in FgPhases \ {"none"}
  BY DEF FgPhases
<1>3. o \in FgOperations(g) /\ FgReportInv(g, o)
  BY FgOperationIs
<1>4. \A f \in FgMembers(g) : o.rep[f] \in {"moving", "complete"} => f \in o.moved
  BY <1>3 DEF FgReportInv
<1> HIDE DEF o
<1> QED BY <1>1, <1>2, <1>3, <1>4, FgEnds

LEMMA FgReleaseKeeps ==
  ASSUME FgInv, NEW f \in Focusers, FgRelease(f)
  PROVE  FgInv'
<1>1. /\ fop' = fop /\ fctl' = [fctl EXCEPT ![f] = Nobody] /\ fctl \in [Focusers -> Groups \cup {Nobody}]
      /\ f \notin fop[fctl[f]].held
  BY DEF FgRelease, FgInv
<1>2. \A g \in Groups : \A e \in fop[g].held : fctl'[e] = g
  <2>1. ASSUME NEW g \in Groups, NEW e \in fop[g].held
        PROVE  fctl'[e] = g
    <3>1. fctl[e] = g /\ e \in Focusers
      BY FgFacts, FgOperationIs DEF FgInv, FgOperations
    <3>2. e # f
      BY <1>1, <3>1
    <3> QED BY <1>1, <3>1, <3>2
  <2> QED BY <2>1
<1>3. fctl' \in [Focusers -> Groups \cup {Nobody}]
  BY <1>1
<1> QED BY <1>1, <1>2, <1>3 DEF FgInv, FgOpInv

LEMMA FgStutters ==
  ASSUME FgInv, UNCHANGED <<fctl, fop>>
  PROVE  FgInv'
BY DEF FgInv

LEMMA FgInitKeeps == FgInit => FgInv
<1> SUFFICES ASSUME FgInit PROVE FgInv
  OBVIOUS
<1>1. /\ fop = [g \in Groups |-> NoOperation(g)] /\ fctl = [f \in Focusers |-> Nobody]
      /\ \A g \in Groups : fop[g] = NoOperation(g)
  BY DEF FgInit
<1> QED BY <1>1, FgNewIs DEF FgInv

(* The inductive invariant of the focuser groups: how far an operation     *)
(* got, what it holds, and what its report may say at that stage.          *)
THEOREM FocuserGroupsInvariant == FgSpec => []FgInv
<1>1. FgInv /\ [FgNext]_fgVars => FgInv'
  <2> SUFFICES ASSUME FgInv, [FgNext]_fgVars PROVE FgInv'
    OBVIOUS
  <2>1. ASSUME NEW g \in Groups, FgStart(g) \/ FgInterrupted(g) \/ FgTaskDies(g)
        PROVE  FgInv'
    BY <2>1, FgStartKeeps, FgInterruptedKeeps, FgTaskDiesKeeps
  <2>2. ASSUME NEW g \in Groups, FgTask(g)
        PROVE  FgInv'
    BY <2>2, FgConnectKeeps, FgConnectFailsKeeps, FgReserveKeeps, FgPreflightKeeps,
       FgRejectedKeeps, FgDispatchKeeps, FgRecheckFailsKeeps, FgAnsweredKeeps, FgFinishKeeps,
       FgObserveKeeps DEF FgTask
  <2>3. ASSUME NEW f \in Focusers, FgRelease(f) \/ FgArrive(f)
        PROVE  FgInv'
    BY <2>3, FgReleaseKeeps, FgStutters DEF FgArrive
  <2>4. CASE UNCHANGED fgVars
    BY <2>4, FgStutters DEF fgVars
  <2> QED BY <2>1, <2>2, <2>3, <2>4 DEF FgNext
<1> QED BY FgInitKeeps, <1>1, PTL DEF FgSpec

LEMMA FgReportIsTrue == ASSUME FgInv PROVE FocuserReportTrue
<1>1. ASSUME NEW g \in Groups, NEW f \in FgMembers(g), fop[g].pc \in {"check", "sent", "observe"}
      PROVE  fctl[f] = g
  BY <1>1, FgOperationIs DEF FgInv, FgStageInv
<1> QED BY <1>1, FgOperationIs DEF FocuserReportTrue, FgReportInv

-----------------------------------------------------------------------------
(* The capture of a camera group                                           *)

(* The camera group by itself: the safety part of the specification.       *)
CgSpec == CgInit /\ [][CgNext]_cgVars

CamStates == {"free", "prepared", "stuck", "starting", "exposing", "imaged", "aborted", "lost"}
CgReports == {"notStarted", "prepared", "rejected", "failed", "uncertain", "starting",
              "exposing", "aborting", "complete", "aborted"}
CgPhases == {"none", "preflight", "preflightFailed", "capturing", "cancelled", "deadline",
             "complete", "partialFailure"}
Events == [start : {"none", "ok", "failed", "uncertain"}, image : {"none", "ok", "failed"},
           abort : {"none", "ok", "failed", "taken"}]
CgOps ==
  [pc : {"idle", "prepare", "recheck", "release", "burst", "loop", "done"},
   at : DOMAIN CameraOrder, stop : {"none", "cancelled", "deadline"}, cancelled : BOOLEAN,
   expired : BOOLEAN, deadlineHit : BOOLEAN, failure : BOOLEAN, starts : SUBSET Cameras,
   aborts : SUBSET Cameras, asked : SUBSET Cameras, images : SUBSET Cameras,
   futures : SUBSET Cameras]

CgType ==
  /\ ccam \in [Cameras -> CamStates] /\ cev \in [Cameras -> Events] /\ cop \in CgOps
  /\ crep \in [Cameras -> CgReports] /\ cphase \in CgPhases

Before == {"idle", "prepare", "recheck", "burst", "release"}
Unexposed == {"free", "prepared", "stuck"}

(* Before the burst nothing is under way and no answer is owed.            *)
BeforeInv ==
  cop.pc \in Before =>
    /\ \A m \in Cameras : ccam[m] \in Unexposed /\ cev[m] = NoEvent
    /\ cop.starts = {} /\ cop.aborts = {} /\ cop.asked = {} /\ cop.images = {}
    /\ cop.futures = {} /\ ~cop.failure /\ cop.stop = "none" /\ ~cop.deadlineHit
    /\ \A m \in Cameras : crep[m] \in {"notStarted", "prepared", "rejected", "failed", "uncertain"}
    /\ cop.pc # "release" => \A m \in Cameras : crep[m] \in {"notStarted", "prepared"}
    /\ cop.pc = "release" => cphase \in {"preflightFailed", "cancelled", "deadline"}
    /\ cop.pc = "release" => \A i \in DOMAIN CameraOrder :
          i < cop.at => ccam[CameraOrder[i]] # "prepared"

(* The answers e that wait for a member tell what became of its exposure c.*)
EventIs(c, e) ==
  /\ e.start = "failed" => c = "free"
  /\ e.start = "uncertain" => c = "lost"
  /\ c = "starting" => e.start = "none"
  /\ e.image = "ok" => c = "imaged"
  /\ e.image = "failed" => c # "imaged"
  /\ e.abort = "ok" => c = "aborted"

(* During the capture o: what is owed of a member that is reported as r.   *)
MemberIs(m, o, r, c, e) ==
  /\ r \in {"starting", "exposing", "aborting", "complete", "aborted", "failed", "uncertain"}
  /\ m \in o.starts => /\ r = "starting" /\ m \notin o.asked /\ m \notin o.futures
                       /\ e.start = "none" => c = "starting"
  /\ m \notin o.starts => r # "starting" /\ c # "starting"
  /\ r = "exposing" => m \in o.futures /\ m \notin o.asked
  /\ r = "aborting" => m \in o.aborts
  /\ m \in o.aborts => m \in o.asked
  /\ c = "imaged" => e.image = "ok" \/ r = "complete"
  /\ r = "complete" => c = "imaged"
  /\ r = "aborted" => c = "aborted"
  /\ r = "failed" => c = "free"

LoopInv ==
  cop.pc = "loop" =>
    /\ \A m \in Cameras : MemberIs(m, cop, crep[m], ccam[m], cev[m])
    /\ CgAbort(cop) => \A m \in Cameras : crep[m] # "exposing"

(* What a final report r of a member may say; ab: a policy asks to abort.  *)
DoneIs(ab, r, c, e) ==
  /\ r = "complete" => c = "imaged"
  /\ r = "aborted" => c = "aborted"
  /\ r \in {"notStarted", "rejected", "failed"} => c \in Unexposed
  /\ c = "imaged" /\ e.image = "none" => r = "complete"
  /\ ab /\ c = "exposing" => r = "uncertain"
  /\ c = "starting" => r = "uncertain"

DoneInv ==
  cop.pc = "done" =>
    /\ \A m \in Cameras : DoneIs(CgAbort(cop), crep[m], ccam[m], cev[m])
    /\ cphase = "preflightFailed" => \A m \in Cameras : ccam[m] \in {"free", "stuck"}
    /\ cphase = "complete" => \A m \in Cameras : crep[m] = "complete"
    /\ cphase = "partialFailure" => \A m \in Cameras : crep[m] \in CgSettled

CgInv ==
  CgType /\ BeforeInv /\ (\A m \in Cameras : EventIs(ccam[m], cev[m])) /\ LoopInv /\ DoneInv

LEMMA CgOrderIs ==
  /\ 1 \in DOMAIN CameraOrder /\ DOMAIN CameraOrder \subseteq Nat
  /\ \A i \in DOMAIN CameraOrder :
       /\ CameraOrder[i] \in Cameras /\ i <= Len(CameraOrder) /\ 1 <= i
       /\ i # Len(CameraOrder) => i + 1 \in DOMAIN CameraOrder
  /\ \A m \in Cameras : \E i \in DOMAIN CameraOrder : CameraOrder[i] = m
BY CameraGroupAssumption

LEMMA CgMemberIs == ASSUME CgType PROVE CgMember \in Cameras /\ cop.at \in DOMAIN CameraOrder
BY CgOrderIs DEF CgType, CgOps, CgMember

(* Before the burst the report is about reservations only.                 *)
LEMMA CgEarlyIs ==
  ASSUME CgInv, cop.pc \in Before
  PROVE  /\ \A m \in Cameras : EventIs(ccam[m], cev[m])
         /\ \A m \in Cameras : ccam[m] \in Unexposed /\ cev[m] = NoEvent
BY DEF CgInv, BeforeInv

-----------------------------------------------------------------------------
(* The supervisors: an answer arrives                                      *)

LEMMA CamKeeps ==
  ASSUME CgInv, NEW m \in Cameras, NEW c \in CamStates, NEW e \in Events,
         ccam' = [ccam EXCEPT ![m] = c], cev' = [cev EXCEPT ![m] = e],
         UNCHANGED <<cop, crep, cphase, cpolicy>>, EventIs(c, e),
         ccam[m] \in {"starting", "exposing"} \/ (c = ccam[m] /\ cop.pc \notin Before),
         cop.pc = "loop" => MemberIs(m, cop, crep[m], c, e),
         cop.pc = "done" => DoneIs(CgAbort(cop), crep[m], c, e)
  PROVE  CgInv'
<1>1. /\ ccam'[m] = c /\ cev'[m] = e
      /\ \A n \in Cameras \ {m} : ccam'[n] = ccam[n] /\ cev'[n] = cev[n]
  BY DEF CgInv, CgType
<1>2. CgType'
  BY DEF CgInv, CgType
<1>3. cop.pc \notin Before
  BY DEF CgInv, BeforeInv, Unexposed
<1>4. \A n \in Cameras : EventIs(ccam'[n], cev'[n])
  BY <1>1 DEF CgInv
<1>5. LoopInv'
  BY <1>1 DEF CgInv, LoopInv, CgAbort
<1>6. DoneInv'
  <2>1. \A n \in Cameras : cop.pc = "done" => DoneIs(CgAbort(cop), crep[n], ccam'[n], cev'[n])
    BY <1>1 DEF CgInv, DoneInv
  <2>2. \A n \in Cameras : DoneIs(CgAbort(cop), crep[n], ccam'[n], cev'[n])
                           => DoneIs(CgAbort(cop)', crep'[n], ccam'[n], cev'[n])
    BY DEF CgAbort
  <2>3. cop.pc = "done" /\ cphase = "preflightFailed"
          => \A n \in Cameras : ccam'[n] \in {"free", "stuck"}
    BY <1>1 DEF CgInv, DoneInv
  <2>4. /\ cop.pc = "done" /\ cphase = "complete" => \A n \in Cameras : crep[n] = "complete"
        /\ cop.pc = "done" /\ cphase = "partialFailure" => \A n \in Cameras : crep[n] \in CgSettled
    BY DEF CgInv, DoneInv
  <2> QED BY <2>1, <2>2, <2>3, <2>4 DEF DoneInv
<1> QED BY <1>2, <1>3, <1>4, <1>5, <1>6 DEF CgInv, BeforeInv

LEMMA CamStartsKeeps ==
  ASSUME CgInv, NEW m \in Cameras, CamStarts(m)
  PROVE  CgInv'
<1>1. /\ ccam[m] = "starting" /\ cev[m] \in Events /\ EventIs(ccam[m], cev[m])
      /\ UNCHANGED <<cop, crep, cphase, cpolicy>> /\ cev[m].start = "none"
  BY DEF CamStarts, CgInv, CgType, EventIs
<1>2. PICK a \in {"ok", "failed", "uncertain"} :
         /\ cev' = [cev EXCEPT ![m].start = a]
         /\ ccam' = [ccam EXCEPT ![m] = IF a = "ok" THEN "exposing"
                                        ELSE IF a = "failed" THEN "free" ELSE "lost"]
  BY DEF CamStarts
<1> DEFINE c == IF a = "ok" THEN "exposing" ELSE IF a = "failed" THEN "free" ELSE "lost"
           e == [cev[m] EXCEPT !.start = a]
<1>3. /\ cev' = [cev EXCEPT ![m] = e] /\ ccam' = [ccam EXCEPT ![m] = c]
      /\ e \in Events /\ c \in CamStates
      /\ e.start = a /\ e.image = cev[m].image /\ e.abort = cev[m].abort
  BY <1>1, <1>2 DEF Events, CamStates, CgInv, CgType
<1>4. \/ c = "exposing" /\ a = "ok"
      \/ c = "free" /\ a = "failed"
      \/ c = "lost" /\ a = "uncertain"
  BY <1>2
<1> HIDE DEF c, e
<1>5. EventIs(c, e)
  BY <1>1, <1>3, <1>4 DEF EventIs
<1>6. cop.pc = "loop" => MemberIs(m, cop, crep[m], c, e)
  <2> SUFFICES ASSUME cop.pc = "loop" PROVE MemberIs(m, cop, crep[m], c, e)
    OBVIOUS
  <2>1. MemberIs(m, cop, crep[m], ccam[m], cev[m])
    BY DEF CgInv, LoopInv
  <2> QED BY <2>1, <1>1, <1>3, <1>4 DEF MemberIs
<1>7. cop.pc = "done" => DoneIs(CgAbort(cop), crep[m], c, e)
  <2> SUFFICES ASSUME cop.pc = "done" PROVE DoneIs(CgAbort(cop), crep[m], c, e)
    OBVIOUS
  <2>1. DoneIs(CgAbort(cop), crep[m], ccam[m], cev[m])
    BY DEF CgInv, DoneInv
  <2> QED BY <2>1, <1>1, <1>3, <1>4 DEF DoneIs, Unexposed
<1> QED BY <1>1, <1>3, <1>5, <1>6, <1>7, CamKeeps

LEMMA CamEndsKeeps ==
  ASSUME CgInv, NEW m \in Cameras, CamEnds(m)
  PROVE  CgInv'
<1>1. /\ ccam[m] = "exposing" /\ cev[m] \in Events /\ EventIs(ccam[m], cev[m])
      /\ UNCHANGED <<cop, crep, cphase, cpolicy>>
  BY DEF CamEnds, CgInv, CgType
<1>2. PICK a \in {"ok", "failed"} :
         /\ cev' = [cev EXCEPT ![m].image = a]
         /\ ccam' = [ccam EXCEPT ![m] = IF a = "ok" THEN "imaged" ELSE "lost"]
  BY DEF CamEnds
<1> DEFINE c == IF a = "ok" THEN "imaged" ELSE "lost"
           e == [cev[m] EXCEPT !.image = a]
<1>3. /\ cev' = [cev EXCEPT ![m] = e] /\ ccam' = [ccam EXCEPT ![m] = c]
      /\ e \in Events /\ c \in CamStates
      /\ e.start = cev[m].start /\ e.image = a /\ e.abort = cev[m].abort
  BY <1>1, <1>2 DEF Events, CamStates, CgInv, CgType
<1>4. (c = "imaged" /\ a = "ok") \/ (c = "lost" /\ a = "failed")
  BY <1>2
<1> HIDE DEF c, e
<1>5. EventIs(c, e)
  BY <1>1, <1>3, <1>4 DEF EventIs
<1>6. cop.pc = "loop" => MemberIs(m, cop, crep[m], c, e)
  <2> SUFFICES ASSUME cop.pc = "loop" PROVE MemberIs(m, cop, crep[m], c, e)
    OBVIOUS
  <2>1. MemberIs(m, cop, crep[m], ccam[m], cev[m])
    BY DEF CgInv, LoopInv
  <2> QED BY <2>1, <1>1, <1>3, <1>4 DEF MemberIs
<1>7. cop.pc = "done" => DoneIs(CgAbort(cop), crep[m], c, e)
  <2> SUFFICES ASSUME cop.pc = "done" PROVE DoneIs(CgAbort(cop), crep[m], c, e)
    OBVIOUS
  <2>1. DoneIs(CgAbort(cop), crep[m], ccam[m], cev[m])
    BY DEF CgInv, DoneInv
  <2> QED BY <2>1, <1>1, <1>3, <1>4 DEF DoneIs, Unexposed
<1> QED BY <1>1, <1>3, <1>5, <1>6, <1>7, CamKeeps

LEMMA CamAbortsKeeps ==
  ASSUME CgInv, NEW m \in Cameras, CamAborts(m)
  PROVE  CgInv'
<1>1. /\ ccam[m] \in CamStates /\ cev[m] \in Events /\ EventIs(ccam[m], cev[m])
      /\ UNCHANGED <<cop, crep, cphase, cpolicy>> /\ m \in cop.aborts /\ cop.pc \notin Before
  BY DEF CamAborts, CgInv, CgType, BeforeInv
<1>2. PICK c \in CamStates, e \in Events :
         /\ ccam' = [ccam EXCEPT ![m] = c] /\ cev' = [cev EXCEPT ![m] = e]
         /\ e.start = cev[m].start
         /\ \/ c = ccam[m] /\ e.image = cev[m].image /\ e.abort = "failed"
            \/ /\ ccam[m] = "exposing" /\ c = "aborted"
               /\ e.image = "failed" /\ e.abort = "ok"
            \/ /\ ccam[m] = "exposing" /\ c = "lost"
               /\ e.image = "failed" /\ e.abort = "failed"
  <2>1. CASE ccam' = ccam /\ cev' = [cev EXCEPT ![m].abort = "failed"]
    <3> DEFINE e == [cev[m] EXCEPT !.abort = "failed"]
    <3>1. /\ ccam' = [ccam EXCEPT ![m] = ccam[m]] /\ cev' = [cev EXCEPT ![m] = e]
          /\ e \in Events /\ e.start = cev[m].start /\ e.image = cev[m].image
          /\ e.abort = "failed"
      BY <1>1, <2>1 DEF CgInv, CgType, Events
    <3> HIDE DEF e
    <3> QED BY <1>1, <3>1
  <2>2. ASSUME NEW c \in {"aborted", "lost"}, NEW a \in {"ok", "failed"},
               ccam[m] = "exposing", ccam' = [ccam EXCEPT ![m] = c],
               cev' = [cev EXCEPT ![m].abort = a, ![m].image = "failed"]
        PROVE  \E e \in Events :
                 /\ cev' = [cev EXCEPT ![m] = e] /\ e.start = cev[m].start
                 /\ e.image = "failed" /\ e.abort = a
    <3> DEFINE e == [cev[m] EXCEPT !.abort = a, !.image = "failed"]
    <3>1. /\ cev' = [cev EXCEPT ![m] = e] /\ e \in Events /\ e.start = cev[m].start
          /\ e.image = "failed" /\ e.abort = a
      BY <1>1, <2>2 DEF CgInv, CgType, Events
    <3> HIDE DEF e
    <3> QED BY <3>1
  <2>3. CASE /\ ccam[m] = "exposing" /\ ccam' = [ccam EXCEPT ![m] = "aborted"]
             /\ cev' = [cev EXCEPT ![m].abort = "ok", ![m].image = "failed"]
    <3>1. PICK e \in Events : /\ cev' = [cev EXCEPT ![m] = e] /\ e.start = cev[m].start
                              /\ e.image = "failed" /\ e.abort = "ok"
      BY <2>2, <2>3
    <3>2. "aborted" \in CamStates
      BY DEF CamStates
    <3> QED BY <2>3, <3>1, <3>2
  <2>4. CASE /\ ccam[m] = "exposing" /\ ccam' = [ccam EXCEPT ![m] = "lost"]
             /\ cev' = [cev EXCEPT ![m].abort = "failed", ![m].image = "failed"]
    <3>1. PICK e \in Events : /\ cev' = [cev EXCEPT ![m] = e] /\ e.start = cev[m].start
                              /\ e.image = "failed" /\ e.abort = "failed"
      BY <2>2, <2>4
    <3>2. "lost" \in CamStates
      BY DEF CamStates
    <3> QED BY <2>4, <3>1, <3>2
  <2> QED BY <2>1, <2>3, <2>4 DEF CamAborts
<1>5. EventIs(c, e)
  BY <1>1, <1>2 DEF EventIs
<1>6. cop.pc = "loop" => MemberIs(m, cop, crep[m], c, e)
  <2> SUFFICES ASSUME cop.pc = "loop" PROVE MemberIs(m, cop, crep[m], c, e)
    OBVIOUS
  <2>1. MemberIs(m, cop, crep[m], ccam[m], cev[m])
    BY DEF CgInv, LoopInv
  <2> QED BY <2>1, <1>1, <1>2 DEF MemberIs
<1>7. cop.pc = "done" => DoneIs(CgAbort(cop), crep[m], c, e)
  <2> SUFFICES ASSUME cop.pc = "done" PROVE DoneIs(CgAbort(cop), crep[m], c, e)
    OBVIOUS
  <2>1. DoneIs(CgAbort(cop), crep[m], ccam[m], cev[m])
    BY DEF CgInv, DoneInv
  <2> QED BY <2>1, <1>1, <1>2 DEF DoneIs, Unexposed
<1> QED BY <1>1, <1>2, <1>5, <1>6, <1>7, CamKeeps

-----------------------------------------------------------------------------
(* The operation: reservation                                              *)

(* Two states of an operation that agree on everything its capture is about*)
SameCapture(o, p) ==
  /\ p.stop = o.stop /\ p.deadlineHit = o.deadlineHit /\ p.failure = o.failure
  /\ p.starts = o.starts /\ p.aborts = o.aborts /\ p.asked = o.asked /\ p.images = o.images
  /\ p.futures = o.futures

LEMMA CgGoesTo ==
  ASSUME CgType, NEW p \in {"prepare", "release", "done"}, NEW i \in DOMAIN CameraOrder,
         cop' = [cop EXCEPT !.pc = p] \/ cop' = [cop EXCEPT !.pc = p, !.at = i]
  PROVE  /\ cop' \in CgOps /\ cop'.pc = p /\ SameCapture(cop, cop')
         /\ cop' = [cop EXCEPT !.pc = p, !.at = i] => cop'.at = i
BY DEF CgType, CgOps, SameCapture

LEMMA NextMemberIs ==
  ASSUME CgType, NEW stage \in {"recheck", "burst", "done"}, NextMember(stage)
  PROVE  /\ cop' \in CgOps /\ SameCapture(cop, cop')
         /\ \/ CgLast /\ cop'.pc = stage /\ cop'.at = 1
            \/ ~CgLast /\ cop'.pc = cop.pc /\ cop'.at = cop.at + 1
<1>1. cop \in CgOps /\ cop.at \in DOMAIN CameraOrder
  BY CgMemberIs DEF CgType
<1>2. CASE CgLast
  BY <1>1, <1>2, CgOrderIs DEF NextMember, CgOps, SameCapture
<1>3. CASE ~CgLast
  <2>1. cop.at + 1 \in DOMAIN CameraOrder
    BY <1>1, <1>3, CgOrderIs DEF CgLast
  <2> QED BY <1>1, <1>3, <2>1 DEF NextMember, CgOps, SameCapture
<1> QED BY <1>2, <1>3

(* A step before the burst that leaves the reports about reservations.     *)
LEMMA EarlyKeeps ==
  ASSUME CgInv, cop.pc \in Before, cop' \in CgOps, SameCapture(cop, cop'), cop'.pc \in Before,
         cev' = cev, ccam' \in [Cameras -> CamStates], crep' \in [Cameras -> CgReports],
         cphase' \in CgPhases, \A m \in Cameras : ccam'[m] \in Unexposed,
         \A m \in Cameras : crep'[m] \in {"notStarted", "prepared", "rejected", "failed", "uncertain"},
         cop'.pc # "release" => \A m \in Cameras : crep'[m] \in {"notStarted", "prepared"},
         cop'.pc = "release" =>
           /\ cphase' \in {"preflightFailed", "cancelled", "deadline"}
           /\ \A i \in DOMAIN CameraOrder : i < cop'.at => ccam'[CameraOrder[i]] # "prepared"
  PROVE  CgInv'
<1>1. CgType'
  BY DEF CgInv, CgType
<1>2. BeforeInv'
  BY DEF CgInv, BeforeInv, SameCapture
<1>3. \A m \in Cameras : EventIs(ccam'[m], cev'[m])
  BY DEF CgInv, BeforeInv, EventIs, NoEvent, Unexposed
<1>4. cop'.pc # "loop" /\ cop'.pc # "done"
  BY DEF Before
<1> QED BY <1>1, <1>2, <1>3, <1>4 DEF CgInv, LoopInv, DoneInv

LEMMA CgStartKeeps ==
  ASSUME CgInv, CgStart
  PROVE  CgInv'
<1>1. /\ CgType /\ cop.pc = "idle" /\ cop.pc \in Before /\ UNCHANGED <<ccam, cev, crep, cpolicy>>
      /\ cphase' = "preflight"
  BY DEF CgStart, CgInv, Before
<1>2. cop' \in CgOps /\ cop'.pc = "prepare" /\ SameCapture(cop, cop')
  BY <1>1, CgGoesTo, CgOrderIs DEF CgStart
<1> QED BY <1>1, <1>2, EarlyKeeps DEF CgInv, CgType, BeforeInv, Before, CgPhases

LEMMA CgStopAskedKeeps ==
  ASSUME CgInv, CgStopAsked
  PROVE  CgInv'
<1>1. /\ cop' \in CgOps /\ SameCapture(cop, cop') /\ cop'.pc = cop.pc /\ cop'.at = cop.at
      /\ UNCHANGED <<ccam, cev, crep, cphase, cpolicy>> /\ cop.pc # "done"
  BY DEF CgStopAsked, CgInv, CgType, CgOps, SameCapture
<1>2. CASE cop.pc \in Before
  BY <1>1, <1>2, EarlyKeeps DEF CgInv, CgType, BeforeInv
<1>3. CASE cop.pc \notin Before
  <2>1. CgType' /\ BeforeInv' /\ DoneInv'
    BY <1>1, <1>3 DEF CgInv, CgType, BeforeInv, DoneInv
  <2>2. LoopInv'
    BY <1>1 DEF CgInv, LoopInv, MemberIs, SameCapture, CgAbort
  <2>3. \A m \in Cameras : EventIs(ccam'[m], cev'[m])
    BY <1>1 DEF CgInv
  <2> QED BY <2>1, <2>2, <2>3 DEF CgInv
<1> QED BY <1>2, <1>3

LEMMA CgPrepareKeeps ==
  ASSUME CgInv, CgPrepare
  PROVE  CgInv'
<1>1. /\ CgType /\ cop.pc = "prepare" /\ cop.pc \in Before /\ UNCHANGED <<cev, cphase, cpolicy>>
      /\ CgMember \in Cameras
      /\ ccam' = [ccam EXCEPT ![CgMember] = "prepared"]
      /\ crep' = [crep EXCEPT ![CgMember] = "prepared"]
  BY CgMemberIs DEF CgPrepare, CgInv, Before
<1>2. cop' \in CgOps /\ cop'.pc \in {"prepare", "recheck"} /\ SameCapture(cop, cop')
  BY <1>1, NextMemberIs DEF CgPrepare
<1>3. /\ \A m \in Cameras : ccam[m] \in Unexposed /\ crep[m] \in {"notStarted", "prepared"}
      /\ ccam \in [Cameras -> CamStates] /\ crep \in [Cameras -> CgReports] /\ cphase \in CgPhases
  BY <1>1 DEF CgInv, BeforeInv, CgType
<1>4. /\ ccam' \in [Cameras -> CamStates] /\ crep' \in [Cameras -> CgReports]
      /\ \A m \in Cameras : ccam'[m] \in Unexposed /\ crep'[m] \in {"notStarted", "prepared"}
  BY <1>1, <1>3 DEF CamStates, CgReports, Unexposed
<1> QED BY <1>1, <1>2, <1>3, <1>4, EarlyKeeps DEF Before

LEMMA CgRecheckKeeps ==
  ASSUME CgInv, CgRecheck
  PROVE  CgInv'
<1>1. /\ CgType /\ cop.pc = "recheck" /\ cop.pc \in Before
      /\ UNCHANGED <<ccam, cev, crep, cphase, cpolicy>>
  BY DEF CgRecheck, CgInv, Before
<1>2. cop' \in CgOps /\ cop'.pc \in {"recheck", "burst"} /\ SameCapture(cop, cop')
  BY <1>1, NextMemberIs DEF CgRecheck
<1> QED BY <1>1, <1>2, EarlyKeeps DEF CgInv, CgType, BeforeInv, Before

LEMMA CgRejectedKeeps ==
  ASSUME CgInv, CgRejected
  PROVE  CgInv'
<1>1. /\ CgType /\ cop.pc \in {"prepare", "recheck"} /\ cop.pc \in Before
      /\ UNCHANGED <<ccam, cev, cpolicy>> /\ CgMember \in Cameras
      /\ crep' = [crep EXCEPT ![CgMember] = "rejected"] /\ cphase' = "preflightFailed"
  BY CgMemberIs DEF CgRejected, CgInv, Before
<1>2. cop' \in CgOps /\ cop'.pc = "release" /\ SameCapture(cop, cop') /\ cop'.at = 1
  BY <1>1, CgGoesTo, CgOrderIs DEF CgRejected
<1>3. /\ \A m \in Cameras : ccam[m] \in Unexposed /\ crep[m] \in {"notStarted", "prepared"}
      /\ ccam \in [Cameras -> CamStates] /\ crep \in [Cameras -> CgReports]
  BY <1>1 DEF CgInv, BeforeInv, CgType
<1>4. /\ crep' \in [Cameras -> CgReports]
      /\ \A m \in Cameras : crep'[m] \in {"notStarted", "prepared", "rejected"}
  BY <1>1, <1>3 DEF CgReports
<1>5. \A i \in DOMAIN CameraOrder : ~(i < 1)
  BY CgOrderIs
<1> QED BY <1>1, <1>2, <1>3, <1>4, <1>5, EarlyKeeps DEF Before, CgPhases

LEMMA CgInterruptedKeeps ==
  ASSUME CgInv, CgInterrupted
  PROVE  CgInv'
<1>1. /\ CgType /\ cop.pc \in {"prepare", "recheck", "burst"} /\ cop.pc \in Before
      /\ UNCHANGED <<ccam, cev, crep, cpolicy>> /\ cphase' \in {"cancelled", "deadline"}
  BY DEF CgInterrupted, CgInv, Before, StopPhase
<1>2. cop' \in CgOps /\ cop'.pc = "release" /\ SameCapture(cop, cop') /\ cop'.at = 1
  BY <1>1, CgGoesTo, CgOrderIs DEF CgInterrupted
<1>3. /\ \A m \in Cameras : ccam[m] \in Unexposed /\ crep[m] \in {"notStarted", "prepared"}
      /\ ccam \in [Cameras -> CamStates] /\ crep \in [Cameras -> CgReports]
  BY <1>1 DEF CgInv, BeforeInv, CgType
<1>5. \A i \in DOMAIN CameraOrder : ~(i < 1)
  BY CgOrderIs
<1> QED BY <1>1, <1>2, <1>3, <1>5, EarlyKeeps DEF Before, CgPhases

LEMMA CgReleaseKeeps ==
  ASSUME CgInv, CgRelease
  PROVE  CgInv'
<1>1. /\ CgType /\ cop.pc = "release" /\ cop.pc \in Before /\ UNCHANGED <<cev, cphase, cpolicy>>
      /\ CgMember \in Cameras /\ cop.at \in DOMAIN CameraOrder /\ CgMember = CameraOrder[cop.at]
  BY CgMemberIs DEF CgRelease, CgInv, Before, CgMember
<1>2. /\ \A m \in Cameras : ccam[m] \in Unexposed /\ cev[m] = NoEvent
      /\ \A m \in Cameras : crep[m] \in {"notStarted", "prepared", "rejected", "failed", "uncertain"}
      /\ \A i \in DOMAIN CameraOrder : i < cop.at => ccam[CameraOrder[i]] # "prepared"
      /\ cphase \in {"preflightFailed", "cancelled", "deadline"}
      /\ ccam \in [Cameras -> CamStates] /\ crep \in [Cameras -> CgReports] /\ cphase \in CgPhases
  BY <1>1 DEF CgInv, BeforeInv, CgType
<1>3. PICK c \in {"free", "stuck"}, r \in {"notStarted", "rejected", "failed", "uncertain"} :
         /\ \/ ccam' = [ccam EXCEPT ![CgMember] = c] /\ crep' = [crep EXCEPT ![CgMember] = r]
            \/ ccam[CgMember] # "prepared" /\ ccam' = ccam /\ crep' = crep
  <2>1. CASE /\ ccam' = [ccam EXCEPT ![CgMember] = "free"]
             /\ crep' = [crep EXCEPT ![CgMember] = IF @ = "prepared" THEN "notStarted" ELSE @]
    <3> DEFINE r == IF crep[CgMember] = "prepared" THEN "notStarted" ELSE crep[CgMember]
    <3>1. r \in {"notStarted", "rejected", "failed", "uncertain"}
      BY <1>1, <1>2
    <3>2. crep' = [crep EXCEPT ![CgMember] = r]
      BY <1>1, <1>2, <2>1
    <3> HIDE DEF r
    <3> QED BY <2>1, <3>1, <3>2
  <2>2. ASSUME NEW r \in {"failed", "uncertain"}, ccam' = [ccam EXCEPT ![CgMember] = "stuck"],
               crep' = [crep EXCEPT ![CgMember] = r]
        PROVE  \E q \in {"notStarted", "rejected", "failed", "uncertain"} :
                 crep' = [crep EXCEPT ![CgMember] = q]
    BY <2>2
  <2>3. CASE ccam[CgMember] # "prepared" /\ UNCHANGED <<ccam, crep>>
    BY <2>3
  <2> QED BY <2>1, <2>2, <2>3 DEF CgRelease
<1>4. /\ ccam' \in [Cameras -> CamStates] /\ crep' \in [Cameras -> CgReports]
      /\ \A m \in Cameras : ccam'[m] \in Unexposed
      /\ \A m \in Cameras : crep'[m] \in {"notStarted", "prepared", "rejected", "failed", "uncertain"}
      /\ ccam'[CgMember] # "prepared"
      /\ \A m \in Cameras \ {CgMember} : ccam'[m] = ccam[m]
  BY <1>1, <1>2, <1>3 DEF CamStates, CgReports, Unexposed
<1>5. \A i \in DOMAIN CameraOrder : i < cop.at \/ i = cop.at => ccam'[CameraOrder[i]] # "prepared"
  BY <1>1, <1>2, <1>4, CgOrderIs
<1>6. /\ cop' \in CgOps /\ SameCapture(cop, cop')
      /\ \/ CgLast /\ cop'.pc = "done" /\ cop'.at = 1
         \/ ~CgLast /\ cop'.pc = cop.pc /\ cop'.at = cop.at + 1
  BY <1>1, NextMemberIs DEF CgRelease
<1>7. CASE ~CgLast
  <2>1. \A i \in DOMAIN CameraOrder : i < cop'.at => i < cop.at \/ i = cop.at
    BY <1>1, <1>6, <1>7, CgOrderIs
  <2> QED BY <1>1, <1>2, <1>4, <1>5, <1>6, <1>7, <2>1, EarlyKeeps DEF Before
<1>8. CASE CgLast
  <2>1. CgType' /\ cop'.pc = "done"
    BY <1>1, <1>2, <1>4, <1>6, <1>8 DEF CgType
  <2>2. \A i \in DOMAIN CameraOrder : i < cop.at \/ i = cop.at
    BY <1>1, <1>8, CgOrderIs DEF CgLast
  <2>3. \A m \in Cameras : ccam'[m] \in {"free", "stuck"}
    BY <2>2, <1>4, <1>5, CgOrderIs DEF Unexposed
  <2>4. \A m \in Cameras : EventIs(ccam'[m], cev'[m])
    BY <2>3, <1>1, <1>2 DEF EventIs, NoEvent
  <2>5. \A m \in Cameras : DoneIs(CgAbort(cop)', crep'[m], ccam'[m], cev'[m])
    BY <2>3, <1>4 DEF DoneIs, Unexposed
  <2>6. DoneInv'
    BY <2>3, <2>5, <1>1, <1>2 DEF DoneInv
  <2>7. LoopInv' /\ BeforeInv'
    BY <2>1 DEF LoopInv, BeforeInv, Before
  <2> QED BY <2>1, <2>4, <2>6, <2>7 DEF CgInv
<1> QED BY <1>7, <1>8

-----------------------------------------------------------------------------
(* The operation: the capture                                              *)

(* The head of the loop asks for the aborts that o calls for, and no member*)
(* that is still exposing is left out.                                     *)
LEMMA CgLoopKeeps ==
  ASSUME NEW o \in CgOps, NEW rep \in [Cameras -> CgReports], CgLooped(o, rep), o.pc = "loop",
         ccam' \in [Cameras -> CamStates], cev' \in [Cameras -> Events], cphase' \in CgPhases,
         cpolicy' = cpolicy, \A m \in Cameras : EventIs(ccam'[m], cev'[m]),
         \A m \in Cameras : MemberIs(m, o, rep[m], ccam'[m], cev'[m])
  PROVE  CgInv'
<1> DEFINE more == ToAbort(o, rep)
<1>1. /\ more \subseteq Cameras
      /\ cop' = [o EXCEPT !.aborts = @ \cup more, !.asked = @ \cup more]
      /\ crep' = [m \in Cameras |-> IF m \in more THEN "aborting" ELSE rep[m]]
  BY DEF CgLooped, ToAbort
<1>2. \A m \in more : rep[m] = "exposing"
  BY DEF ToAbort
<1>3. CgAbort(o) => \A m \in Cameras : rep[m] = "exposing" /\ m \notin o.asked => m \in more
  BY DEF ToAbort
<1> HIDE DEF more
<1>4. /\ cop' \in CgOps /\ cop'.pc = "loop" /\ cop'.starts = o.starts
      /\ cop'.futures = o.futures /\ cop'.failure = o.failure /\ cop'.stop = o.stop
      /\ cop'.aborts = o.aborts \cup more /\ cop'.asked = o.asked \cup more
  BY <1>1 DEF CgOps
<1>5. CgType'
  BY <1>1, <1>4 DEF CgType, CgReports
<1>6. ASSUME NEW m \in Cameras
      PROVE  MemberIs(m, cop', crep'[m], ccam'[m], cev'[m])
  <2>1. MemberIs(m, o, rep[m], ccam'[m], cev'[m])
    OBVIOUS
  <2>2. CASE m \in more
    <3>1. crep'[m] = "aborting" /\ rep[m] = "exposing"
      BY <1>1, <1>2, <2>2
    <3> QED BY <2>1, <2>2, <3>1, <1>4 DEF MemberIs
  <2>3. CASE m \notin more
    <3>1. crep'[m] = rep[m]
      BY <1>1, <2>3
    <3> QED BY <2>1, <2>3, <3>1, <1>4 DEF MemberIs
  <2> QED BY <2>2, <2>3
<1>7. ASSUME CgAbort(cop)', NEW m \in Cameras, crep'[m] = "exposing"
      PROVE  FALSE
  <2>1. CgAbort(o)
    BY <1>4, <1>7 DEF CgAbort
  <2>2. rep[m] = "exposing" /\ m \notin more
    BY <1>1, <1>7
  <2> QED BY <2>1, <2>2, <1>3 DEF MemberIs
<1>8. LoopInv'
  BY <1>6, <1>7 DEF LoopInv
<1>9. BeforeInv' /\ DoneInv'
  BY <1>4 DEF BeforeInv, DoneInv, Before
<1> QED BY <1>5, <1>8, <1>9 DEF CgInv

LEMMA CgBurstKeeps ==
  ASSUME CgInv, CgBurst
  PROVE  CgInv'
<1> DEFINE o == [cop EXCEPT !.pc = "loop", !.starts = Cameras]
           rep == [m \in Cameras |-> "starting"]
<1>1. /\ cop \in CgOps /\ cop.pc \in Before /\ CgLooped(o, rep)
      /\ ccam' = [m \in Cameras |-> "starting"] /\ cphase' = "capturing"
      /\ UNCHANGED <<cev, cpolicy>>
  BY DEF CgInv, CgType, CgBurst, Before
<1>2. /\ \A m \in Cameras : cev[m] = NoEvent
      /\ cop.aborts = {} /\ cop.asked = {} /\ cop.futures = {}
  BY <1>1 DEF CgInv, BeforeInv
<1>3. /\ o \in CgOps /\ o.pc = "loop" /\ o.starts = Cameras /\ o.aborts = {} /\ o.asked = {}
      /\ o.futures = {} /\ rep \in [Cameras -> CgReports]
      /\ \A m \in Cameras : rep[m] = "starting"
  BY <1>1, <1>2 DEF CgOps, CgReports
<1> HIDE DEF o, rep
<1>4. /\ ccam' \in [Cameras -> CamStates] /\ cev' \in [Cameras -> Events] /\ cphase' \in CgPhases
      /\ \A m \in Cameras : ccam'[m] = "starting" /\ cev'[m] = NoEvent
  BY <1>1, <1>2 DEF CgInv, CgType, CamStates, CgPhases
<1>5. \A m \in Cameras : EventIs(ccam'[m], cev'[m])
  BY <1>4 DEF EventIs, NoEvent
<1>6. \A m \in Cameras : MemberIs(m, o, rep[m], ccam'[m], cev'[m])
  BY <1>3, <1>4 DEF MemberIs, NoEvent
<1> QED BY <1>1, <1>3, <1>4, <1>5, <1>6, CgLoopKeeps

(* In the loop each member is accounted for.                               *)
LEMMA CgLoopIs ==
  ASSUME CgInv, cop.pc = "loop"
  PROVE  /\ cop \in CgOps /\ crep \in [Cameras -> CgReports] /\ cphase \in CgPhases
         /\ ccam \in [Cameras -> CamStates] /\ cev \in [Cameras -> Events]
         /\ \A m \in Cameras : /\ MemberIs(m, cop, crep[m], ccam[m], cev[m])
                               /\ EventIs(ccam[m], cev[m]) /\ cev[m] \in Events
BY DEF CgInv, CgType, LoopInv

(* An answer of m is taken: what waits for m and is reported of it changes,*)
(* the others' accounts stay.                                              *)
LEMMA CgHeardKeeps ==
  ASSUME CgInv, cop.pc = "loop", NEW m \in Cameras, NEW e \in Events, NEW r \in CgReports,
         NEW o \in CgOps, o.pc = "loop", cev' = [cev EXCEPT ![m] = e],
         CgLooped(o, [crep EXCEPT ![m] = r]), UNCHANGED <<ccam, cphase, cpolicy>>,
         EventIs(ccam[m], e), MemberIs(m, o, r, ccam[m], e),
         \A n \in Cameras \ {m} : /\ n \in o.starts <=> n \in cop.starts
                                  /\ n \in o.futures <=> n \in cop.futures
                                  /\ n \in o.aborts <=> n \in cop.aborts
                                  /\ n \in o.asked <=> n \in cop.asked
  PROVE  CgInv'
<1> DEFINE rep == [crep EXCEPT ![m] = r]
<1>1. /\ rep \in [Cameras -> CgReports] /\ rep[m] = r
      /\ \A n \in Cameras \ {m} : rep[n] = crep[n]
      /\ cev' \in [Cameras -> Events] /\ cev'[m] = e
      /\ \A n \in Cameras \ {m} : cev'[n] = cev[n]
      /\ ccam' = ccam /\ ccam' \in [Cameras -> CamStates] /\ cphase' \in CgPhases
      /\ CgLooped(o, rep)
  BY CgLoopIs
<1> HIDE DEF rep
<1>2. \A n \in Cameras : EventIs(ccam'[n], cev'[n])
  BY <1>1, CgLoopIs
<1>3. ASSUME NEW n \in Cameras
      PROVE  MemberIs(n, o, rep[n], ccam'[n], cev'[n])
  <2>1. CASE n = m
    BY <2>1, <1>1
  <2>2. CASE n # m
    <3>1. MemberIs(n, cop, rep[n], ccam'[n], cev'[n])
      BY <2>2, <1>1, CgLoopIs
    <3> QED BY <2>2, <3>1 DEF MemberIs
  <2> QED BY <2>1, <2>2
<1> QED BY <1>1, <1>2, <1>3, CgLoopKeeps

LEMMA CgStartHeardKeeps ==
  ASSUME CgInv, NEW m \in Cameras, CgStartHeard(m)
  PROVE  CgInv'
<1> DEFINE a == cev[m].start ok == a = "ok"
           o == [cop EXCEPT !.starts = @ \ {m}, !.failure = @ \/ ~ok,
                            !.images = IF ok THEN @ \cup {m} ELSE @,
                            !.futures = IF ok THEN @ \cup {m} ELSE @]
           r == IF ok THEN "exposing" ELSE a
           e == [cev[m] EXCEPT !.start = "none"]
<1>1. /\ cop.pc = "loop" /\ m \in cop.starts /\ a # "none"
      /\ cev' = [cev EXCEPT ![m].start = "none"] /\ CgLooped(o, [crep EXCEPT ![m] = r])
      /\ UNCHANGED <<ccam, cphase, cpolicy>>
  BY DEF CgStartHeard
<1>2. /\ cop \in CgOps /\ cev \in [Cameras -> Events] /\ cev[m] \in Events
      /\ MemberIs(m, cop, crep[m], ccam[m], cev[m]) /\ EventIs(ccam[m], cev[m])
  BY <1>1, CgLoopIs
<1>3. /\ e \in Events /\ e.start = "none" /\ e.image = cev[m].image /\ e.abort = cev[m].abort
      /\ cev' = [cev EXCEPT ![m] = e] /\ a \in {"ok", "failed", "uncertain"}
  BY <1>1, <1>2 DEF Events
<1>4. /\ r \in CgReports
      /\ \/ ok /\ r = "exposing"
         \/ a = "failed" /\ ~ok /\ r = "failed"
         \/ a = "uncertain" /\ ~ok /\ r = "uncertain"
  BY <1>3 DEF CgReports
<1>5. /\ o \in CgOps /\ o.pc = "loop" /\ o.starts = cop.starts \ {m}
      /\ o.aborts = cop.aborts /\ o.asked = cop.asked
      /\ o.futures = IF ok THEN cop.futures \cup {m} ELSE cop.futures
  BY <1>1, <1>2 DEF CgOps
<1> HIDE DEF o, r, e
<1>6. EventIs(ccam[m], e)
  BY <1>2, <1>3 DEF EventIs
<1>7. MemberIs(m, o, r, ccam[m], e)
  BY <1>1, <1>2, <1>3, <1>4, <1>5 DEF MemberIs, EventIs
<1>8. \A n \in Cameras \ {m} : /\ n \in o.starts <=> n \in cop.starts
                               /\ n \in o.futures <=> n \in cop.futures
                               /\ n \in o.aborts <=> n \in cop.aborts
                               /\ n \in o.asked <=> n \in cop.asked
  BY <1>5
<1> HIDE DEF a, ok
<1> QED BY <1>1, <1>3, <1>4, <1>5, <1>6, <1>7, <1>8, CgHeardKeeps

LEMMA CgImageHeardKeeps ==
  ASSUME CgInv, NEW m \in Cameras, CgImageHeard(m)
  PROVE  CgInv'
<1> DEFINE a == cev[m].image
           r == ImageOutcome(a, crep[m])
           o == [cop EXCEPT !.images = @ \ {m}, !.futures = @ \ {m},
                            !.failure = @ \/ r = "uncertain"]
           e == [cev[m] EXCEPT !.image = "none"]
<1>1. /\ cop.pc = "loop" /\ m \in cop.futures /\ a # "none"
      /\ cev' = [cev EXCEPT ![m].image = "none"] /\ CgLooped(o, [crep EXCEPT ![m] = r])
      /\ UNCHANGED <<ccam, cphase, cpolicy>>
  BY DEF CgImageHeard
<1>2. /\ cop \in CgOps /\ cev \in [Cameras -> Events] /\ cev[m] \in Events
      /\ MemberIs(m, cop, crep[m], ccam[m], cev[m]) /\ EventIs(ccam[m], cev[m])
  BY <1>1, CgLoopIs
<1>3. /\ e \in Events /\ e.image = "none" /\ e.start = cev[m].start /\ e.abort = cev[m].abort
      /\ cev' = [cev EXCEPT ![m] = e] /\ a \in {"ok", "failed"}
  BY <1>1, <1>2 DEF Events
<1>4. /\ r \in CgReports
      /\ \/ a = "ok" /\ r = "complete"
         \/ a = "failed" /\ r \in {"aborting", "aborted"} /\ r = crep[m]
         \/ a = "failed" /\ r = "uncertain" /\ crep[m] \notin {"aborting", "aborted"}
  BY <1>3 DEF CgReports, ImageOutcome
<1> HIDE DEF r
<1>5. /\ o \in CgOps /\ o.pc = "loop" /\ o.starts = cop.starts
      /\ o.aborts = cop.aborts /\ o.asked = cop.asked /\ o.futures = cop.futures \ {m}
  BY <1>1, <1>2 DEF CgOps
<1> HIDE DEF o, e
<1>6. EventIs(ccam[m], e)
  BY <1>2, <1>3 DEF EventIs
<1>7. MemberIs(m, o, r, ccam[m], e)
  BY <1>1, <1>2, <1>3, <1>4, <1>5 DEF MemberIs, EventIs
<1>8. \A n \in Cameras \ {m} : /\ n \in o.starts <=> n \in cop.starts
                               /\ n \in o.futures <=> n \in cop.futures
                               /\ n \in o.aborts <=> n \in cop.aborts
                               /\ n \in o.asked <=> n \in cop.asked
  BY <1>5
<1> HIDE DEF a
<1> QED BY <1>1, <1>3, <1>4, <1>5, <1>6, <1>7, <1>8, CgHeardKeeps

LEMMA CgAbortHeardKeeps ==
  ASSUME CgInv, NEW m \in Cameras, CgAbortHeard(m)
  PROVE  CgInv'
<1> DEFINE a == cev[m].abort
           r == AbortOutcome(a, crep[m])
           o == [AbortCounted(cop, m) EXCEPT !.images = IF r = "aborted" THEN @ \ {m} ELSE @]
           e == [cev[m] EXCEPT !.abort = "taken"]
<1>1. /\ cop.pc = "loop" /\ m \in cop.aborts /\ a \notin {"none", "taken"}
      /\ cev' = [cev EXCEPT ![m].abort = "taken"] /\ CgLooped(o, [crep EXCEPT ![m] = r])
      /\ UNCHANGED <<ccam, cphase, cpolicy>>
  BY DEF CgAbortHeard
<1>2. /\ cop \in CgOps /\ cev \in [Cameras -> Events] /\ cev[m] \in Events
      /\ MemberIs(m, cop, crep[m], ccam[m], cev[m]) /\ EventIs(ccam[m], cev[m])
  BY <1>1, CgLoopIs
<1>3. /\ e \in Events /\ e.abort = "taken" /\ e.start = cev[m].start /\ e.image = cev[m].image
      /\ cev' = [cev EXCEPT ![m] = e] /\ a \in {"ok", "failed"}
  BY <1>1, <1>2 DEF Events
<1>4. /\ r \in CgReports
      /\ \/ crep[m] = "complete" /\ r = "complete"
         \/ crep[m] # "complete" /\ a = "ok" /\ r = "aborted"
         \/ crep[m] # "complete" /\ a = "failed" /\ r = "uncertain"
  BY <1>3 DEF CgReports, AbortOutcome
<1> HIDE DEF r
<1>5. /\ o \in CgOps /\ o.pc = "loop" /\ o.starts = cop.starts
      /\ o.aborts = cop.aborts \ {m} /\ o.asked = cop.asked /\ o.futures = cop.futures
  BY <1>1, <1>2 DEF CgOps, AbortCounted
<1> HIDE DEF o, e
<1>6. EventIs(ccam[m], e)
  BY <1>2, <1>3 DEF EventIs
<1>7. MemberIs(m, o, r, ccam[m], e)
  BY <1>1, <1>2, <1>3, <1>4, <1>5 DEF MemberIs, EventIs
<1>8. \A n \in Cameras \ {m} : /\ n \in o.starts <=> n \in cop.starts
                               /\ n \in o.futures <=> n \in cop.futures
                               /\ n \in o.aborts <=> n \in cop.aborts
                               /\ n \in o.asked <=> n \in cop.asked
  BY <1>5
<1> HIDE DEF a
<1> QED BY <1>1, <1>3, <1>4, <1>5, <1>6, <1>7, <1>8, CgHeardKeeps

LEMMA CgStopSeenKeeps ==
  ASSUME CgInv, CgStopSeen
  PROVE  CgInv'
<1>1. cop.pc = "loop" /\ UNCHANGED <<ccam, cev, cphase, cpolicy>>
  BY DEF CgStopSeen
<1>2. PICK s \in {"cancelled", "deadline"}, d \in BOOLEAN :
         CgLooped([cop EXCEPT !.stop = s, !.deadlineHit = d], crep)
  <2>1. cop \in CgOps
    BY <1>1, CgLoopIs
  <2>2. CASE CgLooped([cop EXCEPT !.stop = "cancelled"], crep)
    <3>1. [cop EXCEPT !.stop = "cancelled"]
            = [cop EXCEPT !.stop = "cancelled", !.deadlineHit = cop.deadlineHit]
      BY <2>1 DEF CgOps
    <3>2. cop.deadlineHit \in BOOLEAN
      BY <2>1 DEF CgOps
    <3> QED BY <2>2, <3>1, <3>2
  <2>3. CASE CgLooped([cop EXCEPT !.deadlineHit = TRUE,
                                  !.stop = IF @ = "none" THEN "deadline" ELSE @], crep)
    <3>1. [cop EXCEPT !.deadlineHit = TRUE, !.stop = IF @ = "none" THEN "deadline" ELSE @]
            = [cop EXCEPT !.stop = IF cop.stop = "none" THEN "deadline" ELSE cop.stop,
                          !.deadlineHit = TRUE]
      BY <2>1 DEF CgOps
    <3>2. (IF cop.stop = "none" THEN "deadline" ELSE cop.stop) \in {"cancelled", "deadline"}
      BY <2>1 DEF CgOps
    <3> QED BY <2>3, <3>1, <3>2
  <2> QED BY <2>2, <2>3 DEF CgStopSeen
<1> DEFINE o == [cop EXCEPT !.stop = s, !.deadlineHit = d]
<1>3. /\ o \in CgOps /\ o.pc = "loop" /\ o.starts = cop.starts /\ o.asked = cop.asked
      /\ o.aborts = cop.aborts /\ o.futures = cop.futures
  BY <1>1, CgLoopIs DEF CgOps
<1>4. CgLooped(o, crep)
  BY <1>2
<1> HIDE DEF o
<1>5. \A m \in Cameras : MemberIs(m, o, crep[m], ccam'[m], cev'[m])
  <2>1. \A m \in Cameras : MemberIs(m, cop, crep[m], ccam'[m], cev'[m])
    BY <1>1, CgLoopIs
  <2> QED BY <2>1, <1>3 DEF MemberIs
<1>6. /\ crep \in [Cameras -> CgReports] /\ cphase' \in CgPhases
      /\ ccam' \in [Cameras -> CamStates] /\ cev' \in [Cameras -> Events]
      /\ \A m \in Cameras : EventIs(ccam'[m], cev'[m])
  BY <1>1, CgLoopIs
<1> QED BY <1>1, <1>3, <1>4, <1>5, <1>6, CgLoopKeeps

(* The operation ends with reports rep and the phase of the group.         *)
LEMMA CgEnds ==
  ASSUME CgInv, cop' \in CgOps, cop'.pc = "done", CgAbort(cop)' <=> CgAbort(cop),
         crep' \in [Cameras -> CgReports], cphase' \in CgPhases \ {"preflightFailed"},
         UNCHANGED <<ccam, cev>>,
         \A m \in Cameras : DoneIs(CgAbort(cop), crep'[m], ccam[m], cev[m]),
         cphase' = "complete" => \A m \in Cameras : crep'[m] = "complete",
         cphase' = "partialFailure" => \A m \in Cameras : crep'[m] \in CgSettled
  PROVE  CgInv'
<1>1. CgType'
  BY DEF CgInv, CgType
<1>2. \A m \in Cameras : EventIs(ccam'[m], cev'[m])
  BY DEF CgInv
<1>3. DoneInv'
  <2>1. \A m \in Cameras : DoneIs(CgAbort(cop)', crep'[m], ccam'[m], cev'[m])
    BY DEF DoneIs
  <2> QED BY <2>1 DEF DoneInv
<1>4. LoopInv' /\ BeforeInv'
  BY DEF LoopInv, BeforeInv, Before
<1> QED BY <1>1, <1>2, <1>3, <1>4 DEF CgInv

LEMMA CgFinishKeeps ==
  ASSUME CgInv, CgFinish
  PROVE  CgInv'
<1>1. /\ cop.pc = "loop" /\ UNCHANGED <<ccam, cev, crep, cpolicy>>
      /\ cop' = [cop EXCEPT !.pc = "done"] /\ cop.starts = {} /\ cop.aborts = {}
      /\ cop.futures = {} \/ cop.stop # "none" \/ CgAbort(cop)
  BY DEF CgFinish, NothingLeft, CgFinishing
<1>2. cop' \in CgOps /\ cop'.pc = "done" /\ (CgAbort(cop)' <=> CgAbort(cop))
  <2>1. cop' \in CgOps /\ cop'.pc = "done" /\ SameCapture(cop, cop')
    BY <1>1, CgGoesTo, CgOrderIs DEF CgInv
  <2> QED BY <2>1, <1>1 DEF SameCapture, CgAbort
<1>3. \A m \in Cameras : /\ crep[m] \in {"exposing"} \cup CgSettled
                         /\ crep[m] = "exposing" => m \in cop.futures
                         /\ crep[m] = "exposing" => ~CgAbort(cop)
                         /\ crep[m] # "rejected"
  BY <1>1, CgLoopIs DEF MemberIs, CgSettled, CgInv, LoopInv
<1>4. \A m \in Cameras : DoneIs(CgAbort(cop), crep'[m], ccam[m], cev[m])
  <2>1. ASSUME NEW m \in Cameras
        PROVE  DoneIs(CgAbort(cop), crep[m], ccam[m], cev[m])
    <3>1. /\ MemberIs(m, cop, crep[m], ccam[m], cev[m]) /\ EventIs(ccam[m], cev[m])
          /\ m \notin cop.starts
      BY <1>1, CgLoopIs
    <3> QED BY <3>1, <1>3 DEF MemberIs, EventIs, DoneIs, CgSettled, Unexposed
  <2> QED BY <2>1, <1>1
<1>5. /\ cphase' \in {"cancelled", "deadline", "complete", "partialFailure"}
      /\ cphase' = "complete" => \A m \in Cameras : crep[m] = "complete"
      /\ cphase' = "partialFailure" => cop.stop = "none"
  <2>1. cop.stop \in {"none", "cancelled", "deadline"}
    BY <1>1, CgLoopIs DEF CgOps
  <2> QED BY <2>1 DEF CgFinish, StopPhase
<1>6. cphase' = "partialFailure" => \A m \in Cameras : crep[m] \in CgSettled
  BY <1>1, <1>3, <1>5
<1>7. crep' \in [Cameras -> CgReports]
  BY <1>1, CgLoopIs
<1> QED BY <1>1, <1>2, <1>4, <1>5, <1>6, <1>7, CgEnds DEF CgPhases

LEMMA CgTaskDiesKeeps ==
  ASSUME CgInv, CgTaskDies
  PROVE  CgInv'
<1>1. /\ cop.pc \in {"prepare", "recheck", "burst", "loop"} /\ UNCHANGED <<ccam, cev, cpolicy>>
      /\ crep' = [m \in Cameras |-> IF crep[m] \in CgSettled THEN crep[m] ELSE "uncertain"]
      /\ cphase' = "partialFailure" /\ cop' = [cop EXCEPT !.pc = "done"] /\ CgType
  BY DEF CgTaskDies, CgInv
<1>2. cop' \in CgOps /\ cop'.pc = "done" /\ (CgAbort(cop)' <=> CgAbort(cop))
  <2>1. cop' \in CgOps /\ cop'.pc = "done" /\ SameCapture(cop, cop')
    BY <1>1, CgGoesTo, CgOrderIs
  <2> QED BY <2>1, <1>1 DEF SameCapture, CgAbort
<1>3. crep' \in [Cameras -> CgReports] /\ \A m \in Cameras : crep'[m] \in CgSettled
  BY <1>1 DEF CgReports, CgSettled, CgType
<1>4. ASSUME NEW m \in Cameras
      PROVE  DoneIs(CgAbort(cop), crep'[m], ccam[m], cev[m])
  <2>1. \/ crep'[m] = crep[m] /\ crep[m] \in CgSettled
        \/ crep'[m] = "uncertain" /\ crep[m] \notin CgSettled
    BY <1>1
  <2>2. CASE cop.pc = "loop"
    <3>1. MemberIs(m, cop, crep[m], ccam[m], cev[m]) /\ EventIs(ccam[m], cev[m])
      BY <2>2, CgLoopIs
    <3> QED BY <3>1, <2>1 DEF MemberIs, EventIs, DoneIs, CgSettled, Unexposed
  <2>3. CASE cop.pc # "loop"
    <3>1. crep[m] \in {"notStarted", "prepared"} /\ ccam[m] \in Unexposed
      BY <1>1, <2>3 DEF CgInv, BeforeInv, Before
    <3> QED BY <3>1, <2>1 DEF DoneIs, CgSettled, Unexposed
  <2> QED BY <2>2, <2>3
<1> QED BY <1>1, <1>2, <1>3, <1>4, CgEnds DEF CgPhases

-----------------------------------------------------------------------------
LEMMA CgInitKeeps == CgInit => CgInv
<1> SUFFICES ASSUME CgInit PROVE CgInv
  OBVIOUS
<1>1. CgType
  BY CgOrderIs DEF CgInit, CgType, CgOps, CamStates, CgReports, CgPhases, Events, NoEvent
<1>2. /\ cop.pc = "idle" /\ \A m \in Cameras : ccam[m] = "free" /\ cev[m] = NoEvent
      /\ \A m \in Cameras : crep[m] = "notStarted"
      /\ cop.starts = {} /\ cop.aborts = {} /\ cop.asked = {} /\ cop.images = {}
      /\ cop.futures = {} /\ ~cop.failure /\ cop.stop = "none" /\ ~cop.deadlineHit
  BY DEF CgInit
<1>3. BeforeInv
  BY <1>2 DEF BeforeInv, Unexposed
<1>4. \A m \in Cameras : EventIs(ccam[m], cev[m])
  BY <1>2 DEF EventIs, NoEvent
<1> QED BY <1>1, <1>2, <1>3, <1>4 DEF CgInv, LoopInv, DoneInv

(* The inductive invariant of a camera group: before the burst nothing is  *)
(* exposed, the answers that wait tell what became of their exposures, the *)
(* capture accounts for every member, and a final report is true and stays *)
(* true while late answers still come.                                     *)
THEOREM CameraGroupInvariant == CgSpec => []CgInv
<1>1. CgInv /\ [CgNext]_cgVars => CgInv'
  <2> SUFFICES ASSUME CgInv, [CgNext]_cgVars PROVE CgInv'
    OBVIOUS
  <2>1. CASE CgStart \/ CgStopAsked \/ CgTaskDies
    BY <2>1, CgStartKeeps, CgStopAskedKeeps, CgTaskDiesKeeps
  <2>2. CASE CgTask
    BY <2>2, CgPrepareKeeps, CgRecheckKeeps, CgRejectedKeeps, CgInterruptedKeeps,
       CgReleaseKeeps, CgBurstKeeps, CgStopSeenKeeps, CgFinishKeeps, CgStartHeardKeeps,
       CgImageHeardKeeps, CgAbortHeardKeeps DEF CgTask
  <2>3. ASSUME NEW m \in Cameras, CamStarts(m) \/ CamEnds(m) \/ CamAborts(m)
        PROVE  CgInv'
    BY <2>3, CamStartsKeeps, CamEndsKeeps, CamAbortsKeeps
  <2>4. CASE UNCHANGED cgVars
    BY <2>4 DEF cgVars, CgInv, CgType, BeforeInv, LoopInv, DoneInv, CgAbort
  <2> QED BY <2>1, <2>2, <2>3, <2>4 DEF CgNext
<1> QED BY CgInitKeeps, <1>1, PTL DEF CgSpec

LEMMA CgReportIsTrue == ASSUME CgInv PROVE CameraReportTrue
BY DEF CgInv, DoneInv, DoneIs, CameraReportTrue, Unexposed

(* What a group reports of its members is what happened to them, for any   *)
(* number of focusers, groups and cameras, any order of their answers and  *)
(* any moment of a failure, a stop request or the end of the task          *)
(* (coordination.rs, coordination/camera.rs run).                          *)
THEOREM GroupReportsAreTrue == FgSpec /\ CgSpec => []GroupReportsTrue
<1>1. FgInv /\ CgInv => GroupReportsTrue
  BY FgReportIsTrue, CgReportIsTrue DEF GroupReportsTrue
<1> QED BY FocuserGroupsInvariant, CameraGroupInvariant, <1>1, PTL
=============================================================================
