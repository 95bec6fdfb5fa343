---------------------------- MODULE HubLifecycle ----------------------------
(***************************************************************************)
(* The host of the hub: revisioned configuration, runtimes and clients     *)
(* (regain-hub service.rs, the lifecycle half of runtime.rs, the store of  *)
(* config.rs, activity.rs). A runtime serves one revision; apply replaces  *)
(* it by the next one. Requests of clients, the detached apply task, local *)
(* discovery, credential storage and the host's shutdown run concurrently. *)
(* A step is what happens under one lock, or between two awaits.           *)
(***************************************************************************)
EXTENDS Naturals, FiniteSets

CONSTANTS
  HubClients,
  MaxRuntimes,    \* bound on the revisions of the configuration
  MaxTokens,      \* bound on the connection attempts
  UsesCredential  \* the revisions that refer to the stored credential

ASSUME HubLifecycleAssumption ==
  /\ MaxRuntimes \in Nat \ {0} /\ MaxTokens \in Nat
  /\ UsesCredential \subseteq 2..MaxRuntimes

VARIABLES
  hsvc,    \* HubService: phase, runtime, stored revision, who has the update lock
  happ,    \* where the apply task is
  hrt,     \* per runtime: lifecycle, activities (0: a change), progress of its shutdown
  hcl,     \* per client: stream, binding, connection, change and request
  hopens,  \* connection attempts under way: <<client, token, runtime>>
  htok,    \* connection attempts made so far
  hcred    \* the credential and the storage transaction on it

hlVars == <<hsvc, happ, hrt, hcl, hopens, htok, hcred>>

Runtimes == 1..MaxRuntimes

NewRuntime == [closed |-> FALSE, frozen |-> FALSE, act |-> {}, jobs |-> {}, down |-> "up", toClose |-> {},
               warm |-> FALSE, failed |-> FALSE]
NoSession == [closed |-> FALSE, bound |-> 0, sclosed |-> FALSE, con |-> "none", tok |-> 0,
              gone |-> {}, change |-> "none", req |-> "none", seen |-> 0, cmd |-> {}]

HlInit ==
  /\ hsvc = [phase |-> "ready", cur |-> 1, store |-> 1, lock |-> "free", cleanup |-> FALSE,
             stop |-> "no"]
  /\ happ = "idle"
  /\ hrt = [r \in Runtimes |-> NewRuntime]
  /\ hcl = [c \in HubClients |-> NoSession]
  /\ hopens = {} /\ htok = 0
  /\ hcred = [present |-> FALSE, job |-> "none"]

(* try_lock of the update gate: a waiting shutdown is next in line.        *)
LockFree == hsvc.lock = "free" /\ hsvc.stop # "waiting"

(* What admits new work: the checks under the lifecycle lock.              *)
HlAdmits(r) == ~hrt[r].closed /\ ~hrt[r].frozen

HlIdle(r) == hrt[r].act = {} /\ hrt[r].jobs = {}

HlHold(r, h) == hrt' = [hrt EXCEPT ![r].act = @ \cup {h}]

-----------------------------------------------------------------------------
(* Requests of a client: runtime(), bind(), the operation                  *)

HlRuntime(c) ==
  /\ ~hcl[c].closed /\ hcl[c].req = "none" /\ hsvc.phase = "ready"
  /\ hcl' = [hcl EXCEPT ![c].req = "runtime", ![c].seen = hsvc.cur]
  /\ UNCHANGED <<hsvc, happ, hrt, hopens, htok, hcred>>

(* close() of a client session: its connections go.                        *)
HlClosed(s) == [s EXCEPT !.sclosed = TRUE, !.con = "none", !.gone = @ \cup {s.tok}]

(* The activity of a ready connection goes with the last user of it.       *)
HlDropped(c) == IF hcl[c].con = "ready" /\ hcl[c].tok \notin hcl[c].cmd
              THEN {<<c, hcl[c].tok>>} ELSE {}

HlBind(c) ==
  /\ hcl[c].req = "runtime"
  /\ LET s == hcl[c] IN
     IF s.bound = s.seen THEN hcl' = [hcl EXCEPT ![c].req = "bound"] /\ UNCHANGED hrt
     ELSE /\ hcl' = [hcl EXCEPT ![c] = [HlClosed(s) EXCEPT !.req = "bound", !.bound = s.seen,
                       !.sclosed = hrt[s.seen].closed, !.change = "none", !.tok = 0]]
          /\ hrt' = IF s.bound = 0 THEN hrt
                    ELSE [hrt EXCEPT ![s.bound].act = @ \ HlDropped(c)]
  /\ UNCHANGED <<hsvc, happ, hopens, htok, hcred>>

HlOperation(c) == hcl[c].req = "bound"

(* connect_inner, under the lifecycle and the client's lock.               *)
Reservable(c) ==
  /\ HlAdmits(hcl[c].bound) /\ ~hcl[c].sclosed /\ hcl[c].con = "none"

HlReserve(c, change) ==
  /\ htok < MaxTokens /\ htok' = htok + 1
  /\ HlHold(hcl[c].bound, <<c, htok'>>)
  /\ hopens' = hopens \cup {<<c, htok', hcl[c].bound>>}
  /\ hcl' = [hcl EXCEPT ![c].con = "pending", ![c].tok = htok', ![c].change = change,
                        ![c].req = IF change = "none" THEN "none" ELSE @]

HlConnect(c) ==
  /\ HlOperation(c) /\ Reservable(c) /\ hcl[c].change = "none"
  /\ HlReserve(c, "none")
  /\ UNCHANGED <<hsvc, happ, hcred>>

(* A request that is refused, or changes nothing.                          *)
HlRefused(c) ==
  /\ HlOperation(c)
  /\ hcl' = [hcl EXCEPT ![c].req = "none"]
  /\ UNCHANGED <<hsvc, happ, hrt, hopens, htok, hcred>>

(* disconnect_checked.                                                     *)
HlDisconnect(c) ==
  /\ HlOperation(c) /\ hcl[c].change = "none" /\ hcl[c].con # "none"
  /\ hrt' = [hrt EXCEPT ![hcl[c].bound].act = @ \ HlDropped(c)]
  /\ hcl' = [hcl EXCEPT ![c].req = "none", ![c].con = "none", ![c].gone = @ \cup {hcl[c].tok}]
  /\ UNCHANGED <<hsvc, happ, hopens, htok, hcred>>

(* change_connection: admitted with an activity of its own, then a task.   *)
HlChange(c) ==
  /\ HlOperation(c) /\ HlAdmits(hcl[c].bound) /\ ~hcl[c].sclosed
  /\ hcl[c].change = "none" /\ hcl[c].con # "pending"
  /\ HlHold(hcl[c].bound, <<c, 0>>)
  /\ hcl' = [hcl EXCEPT ![c].req = "none",
                        ![c].change = IF hcl[c].con = "none" THEN "connect" ELSE "disconnect"]
  /\ UNCHANGED <<hsvc, happ, hopens, htok, hcred>>

HlChangeConnects(c) ==
  /\ hcl[c].change = "connect" /\ Reservable(c)
  /\ HlReserve(c, "opening")
  /\ UNCHANGED <<hsvc, happ, hcred>>

(* The change is over: refused, done, or out of time.                      *)
HlChangeEnds(c) ==
  /\ \/ hcl[c].change \in {"connect", "disconnect"}
     \/ hcl[c].change = "opening" /\ \A o \in hopens : o[1] # c \/ o[2] # hcl[c].tok
  /\ IF hcl[c].change = "disconnect" /\ hcl[c].con # "none"
     THEN /\ hcl' = [hcl EXCEPT ![c].change = "none", ![c].con = "none",
                                ![c].gone = @ \cup {hcl[c].tok}]
          /\ hrt' = [hrt EXCEPT ![hcl[c].bound].act = @ \ ({<<c, 0>>} \cup HlDropped(c))]
     ELSE /\ hcl' = [hcl EXCEPT ![c].change = "none"]
          /\ hrt' = [hrt EXCEPT ![hcl[c].bound].act = @ \ {<<c, 0>>}]
  /\ UNCHANGED <<hsvc, happ, hopens, htok, hcred>>

(* The attempt's own token is still pending in an open session.            *)
StillWanted(o) ==
  LET s == hcl[o[1]] IN
  s.bound = o[3] /\ ~s.sclosed /\ s.con = "pending" /\ s.tok = o[2]

(* open() has ended, or was cut off; the source keeps its transport open.  *)
HlOpened(o) ==
  /\ o \in hopens /\ hopens' = hopens \ {o}
  /\ \/ /\ StillWanted(o)
        /\ hcl' = [hcl EXCEPT ![o[1]].con = "ready", ![o[1]].tok = o[2]]
        /\ hrt' = [hrt EXCEPT ![o[3]].warm = TRUE]
     \/ /\ hcl' = IF StillWanted(o)
                  THEN [hcl EXCEPT ![o[1]].con = "none", ![o[1]].gone = @ \cup {o[2]}] ELSE hcl
        /\ \E w \in {hrt[o[3]].warm, hrt[o[3]].down # "down"} :
             hrt' = [hrt EXCEPT ![o[3]].act = @ \ {<<o[1], o[2]>>}, ![o[3]].warm = w]
  /\ UNCHANGED <<hsvc, happ, htok, hcred>>

(* Released leases close the transports, in the sources' own time.         *)
HlCools(r) ==
  /\ hrt[r].warm /\ hrt[r].act = {}
  /\ hrt' = [hrt EXCEPT ![r].warm = FALSE]
  /\ UNCHANGED <<hsvc, happ, hcl, hopens, htok, hcred>>

(* get and put use a connection for as long as they run.                   *)
HlCommand(c) ==
  /\ HlOperation(c) /\ hcl[c].con = "ready"
  /\ hcl' = [hcl EXCEPT ![c].req = "none", ![c].cmd = @ \cup {hcl[c].tok}]
  /\ UNCHANGED <<hsvc, happ, hrt, hopens, htok, hcred>>

HlCommandEnds(c, t) ==
  /\ t \in hcl[c].cmd
  /\ hcl' = [hcl EXCEPT ![c].cmd = @ \ {t}]
  /\ hrt' = IF hcl[c].con = "ready" /\ hcl[c].tok = t THEN hrt
            ELSE [r \in Runtimes |-> [hrt[r] EXCEPT !.act = @ \ {<<c, t>>}]]
  /\ UNCHANGED <<hsvc, happ, hopens, htok, hcred>>

(* Groups and inspections: work that outlives its client.                  *)
HlGroup(c) ==
  /\ HlOperation(c) /\ HlAdmits(hcl[c].bound) /\ "group" \notin hrt[hcl[c].bound].jobs
  /\ hrt' = [hrt EXCEPT ![hcl[c].bound].jobs = @ \cup {"group"}]
  /\ hcl' = [hcl EXCEPT ![c].req = "none"]
  /\ UNCHANGED <<hsvc, happ, hopens, htok, hcred>>

HlGroupEnds(r) ==
  /\ "group" \in hrt[r].jobs
  /\ hrt' = [hrt EXCEPT ![r].jobs = @ \ {"group"}]
  /\ UNCHANGED <<hsvc, happ, hcl, hopens, htok, hcred>>

(* The stream ends.                                                        *)
HlEof(c) ==
  /\ ~hcl[c].closed
  /\ hcl' = [hcl EXCEPT ![c] = [HlClosed(@) EXCEPT !.closed = TRUE, !.req = "none"]]
  /\ hrt' = IF hcl[c].bound = 0 THEN hrt
            ELSE [hrt EXCEPT ![hcl[c].bound].act = @ \ HlDropped(c)]
  /\ UNCHANGED <<hsvc, happ, hopens, htok, hcred>>

-----------------------------------------------------------------------------
(* Local discovery                                                         *)

(* reserve_local_discovery for a native probe: no user, no open transport. *)
ProbeAllowed(r) == HlAdmits(r) /\ HlIdle(r) /\ ~hrt[r].warm

HlDiscover(native) ==
  /\ LockFree /\ hsvc.phase = "ready"
  /\ LET r == hsvc.cur IN
     /\ IF native THEN ProbeAllowed(r) ELSE HlAdmits(r) /\ "catalog" \notin hrt[r].jobs
     /\ hrt' = [hrt EXCEPT ![r].frozen = native,
                           ![r].jobs = @ \cup {IF native THEN "probe" ELSE "catalog"}]
  /\ UNCHANGED <<hsvc, happ, hcl, hopens, htok, hcred>>

(* The finite probe ends; dropping the lease thaws the runtime.            *)
HlDiscovered(r) ==
  /\ \/ "probe" \in hrt[r].jobs
        /\ hrt' = [hrt EXCEPT ![r].jobs = @ \ {"probe"}, ![r].frozen = FALSE]
     \/ "catalog" \in hrt[r].jobs /\ hrt' = [hrt EXCEPT ![r].jobs = @ \ {"catalog"}]
  /\ UNCHANGED <<hsvc, happ, hcl, hopens, htok, hcred>>

-----------------------------------------------------------------------------
(* Credentials                                                             *)

CredentialLock == "credential"

(* create_credential and delete_credential: checked, then stored by a      *)
(* blocking task that has the update lock.                                 *)
HlCredential(job) ==
  /\ LockFree /\ hsvc.phase = "ready" /\ hcred.job = "none"
  /\ job = "delete" => hcred.present /\ hsvc.store \notin UsesCredential
  /\ job = "create" => ~hcred.present
  /\ hsvc' = [hsvc EXCEPT !.lock = CredentialLock]
  /\ hcred' = [hcred EXCEPT !.job = job]
  /\ UNCHANGED <<happ, hrt, hcl, hopens, htok>>

(* Fault: a failed transaction keeps the lock.                             *)
HlCredentialStuck ==
  /\ hcred.job # "none"
  /\ \E done \in BOOLEAN :
       /\ hcred' = [present |-> IF done THEN hcred.job = "create" ELSE hcred.present,
                    job |-> "none"]
       /\ hsvc' = [hsvc EXCEPT !.lock = IF done THEN "free" ELSE @]
  /\ UNCHANGED <<happ, hrt, hcl, hopens, htok>>

(* The transaction ends, one way or the other, and with it the lock.       *)
HlCredentialStored ==
  /\ hcred.job # "none"
  /\ \E done \in BOOLEAN :
       hcred' = [present |-> IF done THEN hcred.job = "create" ELSE hcred.present, job |-> "none"]
  /\ hsvc' = [hsvc EXCEPT !.lock = IF @ = "credential" THEN "free" ELSE @]
  /\ UNCHANGED <<happ, hrt, hcl, hopens, htok>>

-----------------------------------------------------------------------------
(* Shutdown of a runtime, once and shared by everyone who asks for it      *)

HlShutDown(r) ==
  /\ hrt[r].down = "up"
  /\ hrt' = [hrt EXCEPT ![r].closed = TRUE, ![r].down = "closing",
                        ![r].toClose = {c \in HubClients : hcl[c].bound = r}]

HlCloseClient(r, c) ==
  /\ hrt[r].down = "closing" /\ c \in hrt[r].toClose
  /\ hrt' = [hrt EXCEPT ![r].toClose = @ \ {c},
                        ![r].act = IF hcl[c].bound = r THEN @ \ HlDropped(c) ELSE @]
  /\ hcl' = IF hcl[c].bound = r THEN [hcl EXCEPT ![c] = HlClosed(@)] ELSE hcl
  /\ UNCHANGED <<hsvc, happ, hopens, htok, hcred>>

(* The groups have stopped, the sources are drained, the probes are over.  *)
HlDown(r) ==
  /\ hrt[r].down = "closing" /\ hrt[r].toClose = {}
  /\ hrt[r].jobs = {}
  /\ \/ hrt' = [hrt EXCEPT ![r].down = "down", ![r].failed = TRUE]
     \/ hrt' = [hrt EXCEPT ![r].down = "down", ![r].failed = FALSE, ![r].warm = FALSE]
  /\ UNCHANGED <<hsvc, happ, hcl, hopens, htok, hcred>>

-----------------------------------------------------------------------------
(* Apply                                                                   *)

HlNextRevision == hsvc.store + 1
HlThaw == [hrt EXCEPT ![hsvc.cur].frozen = FALSE]

HlApply ==
  /\ LockFree /\ happ = "idle" /\ hsvc.store < MaxRuntimes
  /\ hsvc' = [hsvc EXCEPT !.lock = "apply"] /\ happ' = "begin"
  /\ UNCHANGED <<hrt, hcl, hopens, htok, hcred>>

(* Fault: pending and retained operations are not waited out.              *)
QuiescentFrozenOnly(r) == HlAdmits(r)

(* quiesce.                                                                *)
HlQuiescent(r) == HlAdmits(r) /\ HlIdle(r)

HlQuiesce ==
  /\ happ = "begin"
  /\ IF hsvc.phase = "ready" /\ HlQuiescent(hsvc.cur)
     THEN /\ happ' = "quiesced" /\ UNCHANGED hsvc
          /\ hrt' = [hrt EXCEPT ![hsvc.cur].frozen = TRUE]
     ELSE happ' = "idle" /\ hsvc' = [hsvc EXCEPT !.lock = "free"] /\ UNCHANGED hrt
  /\ UNCHANGED <<hcl, hopens, htok, hcred>>

HlApplying ==
  /\ happ = "quiesced"
  /\ hsvc' = [hsvc EXCEPT !.phase = "applying"] /\ happ' = "prepare"
  /\ UNCHANGED <<hrt, hcl, hopens, htok, hcred>>

(* store.prepare and the builder: staged on disk, credentials resolved.    *)
HlPrepared ==
  /\ happ = "prepare" /\ (HlNextRevision \in UsesCredential => hcred.present)
  /\ happ' = "commit"
  /\ UNCHANGED <<hsvc, hrt, hcl, hopens, htok, hcred>>

(* Invalid, a conflict, an I/O error or a missing credential.              *)
HlRejected ==
  /\ happ \in {"prepare", "commit"}
  /\ hsvc' = [hsvc EXCEPT !.phase = "ready", !.lock = "free"] /\ happ' = "idle"
  /\ hrt' = HlThaw
  /\ UNCHANGED <<hcl, hopens, htok, hcred>>

(* commit: replaced atomically, durable or not; then the old runtime goes. *)
HlCommitted ==
  /\ happ = "commit"
  /\ hsvc' = [hsvc EXCEPT !.store = HlNextRevision] /\ happ' = "drain"
  /\ UNCHANGED <<hrt, hcl, hopens, htok, hcred>>

(* Fault: an update that ended nobody knows how is taken for a refusal.    *)
UnknownPhaseReady == "ready"

UnknownPhase == "blocked"

(* A task of the update dies: block_after_unknown_update.                  *)
HlUnknown ==
  /\ happ \in {"quiesced", "prepare", "commit", "drain"}
  /\ \E new \in {hsvc.store, HlNextRevision} :
       /\ new = hsvc.store \/ happ = "commit"
       /\ hsvc' = [hsvc EXCEPT !.phase = UnknownPhase, !.store = new]
  /\ happ' = "blocking" /\ hrt' = HlThaw
  /\ UNCHANGED <<hcl, hopens, htok, hcred>>

HlDrain ==
  /\ happ \in {"drain", "blocking"}
  /\ HlShutDown(hsvc.cur)
  /\ UNCHANGED <<hsvc, happ, hcl, hopens, htok, hcred>>

HlPublish ==
  /\ happ \in {"drain", "blocking"} /\ hrt[hsvc.cur].down = "down"
  /\ LET bad == hrt[hsvc.cur].failed IN
     hsvc' = IF happ = "blocking" THEN [hsvc EXCEPT !.lock = "free", !.cleanup = bad]
             ELSE [hsvc EXCEPT !.lock = "free", !.cleanup = bad, !.cur = hsvc.store,
                               !.phase = IF bad THEN "blocked" ELSE "ready"]
  /\ happ' = "idle" /\ hrt' = HlThaw
  /\ UNCHANGED <<hcl, hopens, htok, hcred>>

-----------------------------------------------------------------------------
(* Shutdown of the host                                                    *)

HlStop ==
  /\ hsvc.stop = "no"
  /\ hsvc' = [hsvc EXCEPT !.stop = "waiting"]
  /\ UNCHANGED <<happ, hrt, hcl, hopens, htok, hcred>>

HlStopping ==
  /\ hsvc.stop = "waiting" /\ hsvc.lock = "free"
  /\ hsvc' = [hsvc EXCEPT !.stop = "draining", !.lock = "stop", !.phase = "stopped"]
  /\ UNCHANGED <<happ, hrt, hcl, hopens, htok, hcred>>

HlStopDrains ==
  /\ hsvc.stop = "draining" /\ HlShutDown(hsvc.cur)
  /\ UNCHANGED <<hsvc, happ, hcl, hopens, htok, hcred>>

HlStopped ==
  /\ hsvc.stop = "draining" /\ hrt[hsvc.cur].down = "down"
  /\ hsvc' = [hsvc EXCEPT !.stop = "done", !.lock = "free",
                          !.cleanup = hsvc.cleanup \/ hrt[hsvc.cur].failed]
  /\ UNCHANGED <<happ, hrt, hcl, hopens, htok, hcred>>

-----------------------------------------------------------------------------
HlClientStep(c) ==
  \/ HlRuntime(c) \/ HlBind(c) \/ HlConnect(c) \/ HlRefused(c) \/ HlDisconnect(c) \/ HlChange(c)
  \/ HlChangeConnects(c) \/ HlChangeEnds(c) \/ HlCommand(c) \/ HlGroup(c) \/ HlEof(c)
  \/ \E t \in hcl[c].cmd : HlCommandEnds(c, t)

HlApplySteps ==
  HlQuiesce \/ HlApplying \/ HlPrepared \/ HlRejected \/ HlCommitted \/ HlDrain \/ HlPublish

HlRuntimeSteps(r) ==
  \/ HlGroupEnds(r) \/ HlDiscovered(r) \/ HlDown(r) \/ \E c \in HubClients : HlCloseClient(r, c)

HlNext ==
  \/ \E c \in HubClients : HlClientStep(c)
  \/ \E o \in hopens : HlOpened(o)
  \/ \E r \in Runtimes : HlRuntimeSteps(r) \/ HlCools(r)
  \/ \E native \in BOOLEAN : HlDiscover(native)
  \/ \E job \in {"create", "delete"} : HlCredential(job)
  \/ HlCredentialStored \/ HlApply \/ HlApplySteps \/ HlUnknown
  \/ HlStop \/ HlStopping \/ HlStopDrains \/ HlStopped

(* The tasks run; probes and storage are finite; a stopped group ends.     *)
HlFairness ==
  /\ WF_hlVars(HlApplySteps) /\ WF_hlVars(HlCredentialStored)
  /\ WF_hlVars(HlStopping) /\ WF_hlVars(HlStopDrains) /\ WF_hlVars(HlStopped)
  /\ \A r \in Runtimes : WF_hlVars(HlRuntimeSteps(r))

-----------------------------------------------------------------------------
(* A connection that was given up (disconnected, replaced, its client or   *)
(* its runtime closed) does not come back when an earlier attempt          *)
(* succeeds, and every connection is counted as an activity.               *)
ConnectionWanted ==
  \A c \in HubClients :
    LET s == hcl[c] IN
    /\ s.con = "ready" => s.tok \notin s.gone /\ <<c, s.tok>> \in hrt[s.bound].act
    /\ s.closed \/ s.sclosed => s.con = "none"
    /\ s.bound # 0 /\ hrt[s.bound].down = "down" => s.con = "none"

(* One owner of the devices at a time: a runtime that was replaced, or is  *)
(* being replaced, has no connection, attempt, change or job left, also    *)
(* when requests of its clients were admitted before the replacement; and  *)
(* a native probe runs while no connection or transport of the hub is open.*)
(* Connections that were given up stay so.                                 *)
OneOwner ==
  /\ \A r \in Runtimes :
       \/ r < hsvc.cur
       \/ r = hsvc.cur /\ happ \in {"quiesced", "prepare", "commit", "drain"}
       => HlIdle(r) /\ \A o \in hopens : o[3] # r
  /\ \A r \in Runtimes : "probe" \in hrt[r].jobs => hrt[r].jobs = {"probe"} /\ hrt[r].act = {} /\ ~hrt[r].warm
  /\ ConnectionWanted

(* What the host serves is what is stored: while requests are admitted,    *)
(* the runtime is the one of the stored revision, its predecessor was      *)
(* drained without an error, and a credential it refers to exists.         *)
RevisionServed ==
  hsvc.phase = "ready" =>
    /\ hsvc.cur = hsvc.store /\ ~hsvc.cleanup
    /\ \A r \in Runtimes : r < hsvc.cur => hrt[r].down = "down" /\ ~hrt[r].failed
    /\ hsvc.store \in UsesCredential => hcred.present

(* A host that was asked to stop has stopped: its drain came to an end.    *)
HostNotStopping == hsvc.stop \in {"no", "done"}
=============================================================================
