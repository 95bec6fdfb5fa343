# Regain in TLA+

TLA+ models of Regain's recovery core (`crates/regain-core`), of its equipment hub
(`crates/regain-hub`), of the Alpaca server (`crates/regain-alpaca`) and of the camera
workers and helpers underneath them; TLC configurations that check the models on small
instances; and TLAPS proofs of what matters most about fourteen of them. `PROJECT.json` ties
every definition to the source lines it models, every property to a run and to a mutant
that breaks it, and every theorem to its module.

Paths below are relative to the repository.

## 1. The system

Regain keeps astronomical equipment usable through failures. A camera is owned by a
`Session` that talks to a native worker process, replaces it when it fails, resets the USB
device as a last resort, and replaces failed exposures within a budget. The hub lets several
frontends (Alpaca, ASCOM, N.I.N.A.) share sources of equipment and derives outputs from
them: typed devices, cameras, weather, a safety monitor, coordinated groups.

| Part | State it keeps | Operations | Talks to | What is hard |
|---|---|---|---|---|
| Cooling mailbox (`cooling.rs`) | accepting flag, one pending request, its phase and reply | `submit`, `wait`, `cancel_before_dispatch`, drop; owner: `claim`, `dispatch`, `finish`, `retire`, `activate` | frontends' threads, the session owner | a deadline or cancellation racing dispatch; limits that change between check and write |
| Camera session (`session.rs`) and USB peripheral fence (`usb_peripherals.rs`) | worker, path, failures of this outage, settling, desired controls; the pending episode | `connect`, `capture`, `reset_usb`, `refresh`, `set`, `close`; `begin`, `announce`, `acknowledge`, `finish` | worker, reset helper, mailbox, frontend | nested bounded retries; cancellation at every await; answers for an earlier episode |
| Source actor (`source.rs`, `readout.rs`) and resume fence (`resume.rs`) | leases, controller, uncertain-write latch, generation, samples, poll schedule; epoch of the host | acquire, release, claim, yield, simulate, refresh, read, image, write, shutdown; polls | every output through a bounded queue; the backend | writes must not be replayed; callers vanish; sleep at any await |
| Safety engine (`safety.rs`, `safety_output.rs`) | per member: phase, permission, counters, times; the aggregate; a task per member | `observe`, `reset_source`, `sync_resume`, `expire`, `snapshot`, `shutdown`, `consume` | source actors' status and events | lost, late and reordered events; permission without evidence |
| Camera supervisor (`camera/acquisition.rs`, `guiding.rs`, `prepared.rs`) | active exposure, guide pulse, completion, uncertainty, the control lease | start, stop, abort, download, pulse, set, prepare, abandon | source actor | a task per request that outlives its caller; leases borrowed and given back out of order |
| Native camera owner (`camera/native_owner.rs`) | generation, operation under way, retained image, core session | connect, close, reset, capture, abort, set, cool | core session | late ends of retained tasks |
| Groups (`coordination.rs`, `coordination/`) | active operation, report per member | start, run, cancel | several source actors, cameras | no rollback; members in common |
| Runtime and configuration (`runtime.rs`, `service.rs`, `config.rs`, `activity.rs`) | the served runtime, its revision, activities, credentials | requests, connections, discovery, apply, shutdown | all hub parts | replacement under open sessions; failures half-way |
| IPC client and server (`client.rs`, `ipc.rs`) | pending requests, permits, the stream | request, pump, dispatch, close | frontends | which requests are in doubt when the stream ends |
| Weather (`weather.rs`), sampling (`sampling.rs`), typed outputs | windows of samples, ages, operation leases | tick, observe, read, move, set, ... | source actors | values of an earlier epoch; transports replaced between two requests |
| Native accessories (`native.rs`, `native_reference.rs`, core `accessory.rs`, `caa/`) | stream with one request, saved reference | move, sync, halt, configure, restore | worker process | a crash between device, file and answer |
| Imports: Windows drivers (`com.rs`), Alpaca (`alpaca.rs`), virtual sources | connection phase, doubt, worker or client | open, close, request, reset | driver's worker, other server, other output | answers lost; state that others share |
| Camera images (`camera/image.rs`, ...) | memory budget, frames, exports | reserve, adopt, read, decode, export | source, clients | cancellation at every await |
| Continuous stream (`continuous.rs`), ZWO direct worker (`asi/direct`), QHY worker (`regain-qhy`) | newest frame; cooling queue, doubt; wheel, cooler, frame | start, poll, download, stop, set, idle work | worker's client, camera | an owner thread that must never stop serving; transfers that fail with or without effect |
| USB reset helper (`regain-transport/usb/windows`) | approvals, one pipe | prepare, recover, revoke, cycle a port | sessions of several processes | a camera that leaves and comes back under another arrival |
| Alpaca server (`regain-alpaca`) | camera slot, accessory slots, published hub devices | connect, disconnect, capture, abort, wheel, configure | HTTP clients, core sessions, hub streams | dropped requests; gates between slots |
| White balance, thermal policy, timing arithmetic, configuration transfer, discovery, endpoints, device protocols, C# drivers and the N.I.N.A. plugin | mostly stateless translation | - | devices, Windows, frontends | outside this project, see section 8 |

`PROJECT.json` lists the components file by file, each with what is modelled or why it is
not, and, under `hazards`, the lines where each difficulty bites with the properties
that would catch it.

### What makes each part correct

* **Mailbox.** A receipt is answered once and truthfully: ok only for a command the worker
  acknowledged and the session recorded, refusal only for one that was never sent,
  "uncertain" otherwise; after that nothing is written until the worker has been
  replaced. Every receipt resolves and the slot never stays taken.
* **Capture.** The sensor is armed once, and again only to replace a failed short exposure
  within the budget; never after cancellation or a write of unknown effect. One USB reset
  per outage. No exposure before peripherals were confirmed or cooling has settled.
* **Source actor.** No write is replayed, handed over in doubt, or misreported. No sample
  survives a sleep or an acknowledged write. Waits, polls and cleanup keep their discipline.
* **Safety.** "Safe" is said only on fresh evidence of the present epoch from every
  member, earned by an unbroken run; an unsafe reading is always heard; no permission
  outlives its task or output; evidence flows again after a resume.
* **Cameras.** Commands reach only the exposure they were admitted for; what runs has
  control; doubt stays until it is abandoned; an image is that of its own exposure.
* **Hub.** One runtime owns the devices; what is served is what is stored; groups report
  of every member what happened to it; callers of a broken stream are told the truth.
* **Devices.** A saved reference is one that a client was told; nothing is commanded on a
  reference or certainty that is not there; no value or frame is older than it says.
* **Imports, workers and helpers.** A lost answer leaves doubt, never a second request or a
  false refusal; a port is cycled only for the arrival that was named and approved; a
  memory budget is exact; a cooler is not left driven behind a clean end.

## 2. Modules

Abstract specifications: `CommandContract` (what an acknowledged command promises its
caller, whatever queues and deadlines lie between) and `ExposureContract` (what one capture
request promises, whatever recovery happens inside). `CoolingMailbox` implements the
first, `CaptureSession` the second.

| Module | Models | Source |
|---|---|---|
| `CoolingMailbox` | mailbox, its clients, the owner's service of it | core `cooling.rs`, `session.rs`, `worker.rs` |
| `CaptureSession` | recovery session and peripheral fence | core `session.rs`, `usb_peripherals.rs`, `timing.rs`, `model.rs` |
| `SourceActor` | source actor, lease guards, host sleep | hub `source.rs`, `readout.rs`, `resume.rs` |
| `SafetyEndpoint` | one member's policy, as functions of its record | `safety.rs` |
| `SafetyHub` | the hub of endpoints, the consume tasks, what they see of the sources; composes `SafetyEndpoint` | `safety.rs`, `safety_output.rs`, `source.rs` |
| `CameraAcquisition` | camera supervisor | `camera/acquisition.rs`, `guiding.rs`, `prepared.rs`, `typed_source.rs` |
| `NativeOwner` | owner of one native camera | `camera/native_owner.rs` |
| `FocuserGroup`, `CameraGroup`; `Coordination` | coordinated moves; captures; what both promise | `coordination.rs`, `coordination/` |
| `HubLifecycle` | host with clients, runtimes, discovery, credentials, updates | `runtime.rs`, `service.rs`, `config.rs`, `activity.rs`, `ipc.rs`, `credentials.rs` |
| `HubIpc` | one client stream, both ends | `client.rs`, `ipc.rs` |
| `WeatherOutput`, `TypedSamples`, `TypedCommands` | weather; ages of samples; commands of the typed outputs | `weather.rs`; `sampling.rs`, `source.rs`, `readout.rs`; `focuser.rs`, `filterwheel.rs`, `rotator.rs`, `switch.rs`, `covercalibrator.rs`, `capabilities.rs` |
| `RotatorReference` | native rotator from backend to device, with its file | `native.rs`, `native_reference.rs`, core `accessory.rs`, `regain-zwo/caa`, `regain-worker` |
| `ContinuousStream` | continuous acquisition of a worker | core `continuous.rs` |
| `AlpacaCamera`, `AlpacaSlots`, `HubPublisher` | the Alpaca server's camera slot, accessory slots, published hub devices | `device.rs`; `server.rs`, `accessory.rs`, `rotator.rs`, `flatpanel.rs`; `hub_output.rs`, `hub_camera.rs` |
| `DirectCamera` | ZWO worker without SDK | `regain-zwo/asi/direct` |
| `QhyCamera` | QHY worker, its wheel and its supervisor | `regain-qhy`, core `session.rs` |
| `CameraImages` | budget, readers, decoding and export of frames | `camera/image.rs`, `json_image.rs`, `ipc_image.rs` |
| `UsbBroker` | elevated helper and its clients | `regain-transport/usb/windows`, `usb/helper.rs` |
| `ComBackend`, `AlpacaBackend`, `VirtualSource` | sources that are somebody else's devices | `com.rs`, `ImportDriver.cs`; `alpaca.rs`, `alpaca/http.rs`; `virtual_source.rs`, `virtual_source/camera.rs` |

The `MC...` modules instantiate several components for one TLC run. Where their comment says
so, the parts share no state and a behaviour exercises one of them (the variable `part` or
`scenario`): the run asks its questions of each part. The `...Proofs` modules hold the theorems
of section 5. Definitions whose comment begins with "Fault:" are the mutated forms that the mutants of
`PROJECT.json` put in place of the definition after them; nothing else uses them.

### Correspondence with the code

A step is what a task does between two awaits or under one lock, whichever is shorter; the
outcome of an await is chosen in the step that follows it. In particular:

* **CoolingMailbox.** `submit` is two steps because `validate` reads the shared status before
  the slot is reserved. The owner's service is one step per lock or await: `Claim`, `Check`
  (limits read again), `Dispatch`, `SetSent`/`SetUnsent`, `SetReply`, `Readback`, `Finish`,
  `Invalidate`. Deadlines are the set `late`: time may pass one between any two steps.
  Values are abstracted to the set of requests that the current limits admit.
* **CaptureSession.** `pc` is the place between two awaits, one action each. Errors keep the
  classes that `retryable` tells apart. `Reset`, `Rebind` and `AwaitAck` are `reset_usb` with the fence's
  `begin`, `announce` and `finish`; `back` is where it returns to. Exposure times, controls
  other than the cooler, and progress reports are left out.
* **SourceActor.** One action per command, plus connecting, ending, cleaning up, polls,
  `Sleep`, `Resume` and the clients' guards. Identities that are only compared are kept as
  the outcome of the comparison, so the state is finite without a bound on sleeps or
  reconnections; poll times as far as they order steps.
* **SafetyEndpoint, SafetyHub.** The endpoint's record has the fields of `Endpoint` with times as
  integers. Every hub operation is one step under its lock and ends in a snapshot. The consume task
  reads the source's status in one step and locks the hub in a later one. Generations are
  sequences: a random one (`Uuid::new_v4`) is a new number, one that a resume derives
  (`Uuid::new_v5`) is its parent with the epoch appended. The broadcast has its capacity and its
  lag report.
* **CameraAcquisition.** A task per request (`exp`, `cmd`, `gd`, `setg`), the state under its lock (`active`,
  `guide`, `done`, ...), the camera (`eq`), and the queue to the source, which is served in order: a command takes
  effect where it is sent and its task hears of it later. A lease is named after the request it
  was acquired for. Exposing and Reading, always treated alike, are one phase.
* **NativeOwner.** An operation is admitted under the state lock, then runs in a retained task
  that looks after every await whether it is still the current one.
* **Groups.** One action per phase of a group's task; members move and cameras expose by
  themselves. Focuser calibration arithmetic is left out.
* **HubLifecycle.** `hcl` is what each client stream holds, `hrt` each runtime with its
  activities, jobs and shutdown, `hsvc` the service with the stored revision and the update lock, `hopens` the
  attempts under way. Revisions are numbers; a runtime is named by its own.
* **HubIpc.** The client's pending table and permits, the bounded pipe, the server's tasks, and
  what became of each request at the device.
* **RotatorReference.** The worker's stream holds one request; the file is replaced atomically and
  survives; the worker and the rotator may be lost at any step.
* **Outputs, workers, imports.** See the header of each module for its steps and for what is external.

## 3. Runs

All bounds are constants of the `.cfg` or of the MC module's instances.

| Run | What it asks | Properties |
|---|---|---|
| `cooling_mailbox` | two clients race for one slot against deadlines, cancellation, dropped receipts, other limits, a lost session | `MailboxInv`, `CommitMatchesOutcome`, `OnlyDueWrites`, `MailboxLive`, `ImplementsContract` |
| `capture_session` | two captures with replacements, preparations, rereads, fallback and one reset per outage, cancelled anywhere | `CaptureInv`, `StartsRestored`, `CaptureEnds`, `ImplementsExposureContract` |
| `capture_fence` | expected violation, see section 6 | `NoStartWhileBlocked` |
| `fences` | lease guards writing through a full queue beside a safety output, under sleep, lost transports and lost events | `SafetyInv`, `LastWordHeeded`, `WritesToldTrue`, `WritesFenced` |
| `resume` | every command of one guard, polls, retries and sleeps; a safety output whose sleep clock may fail | `ActorSound`, `RetryWaitKept`, `EverythingResumes` |
| `safety_timing` | one member over four units of time, late and backdated answers, a broadcast that overflows | `SafeIsProven`, `GrantIsEarned` |
| `camera_acquisition` | exposures of groups and clients, stops, aborts, a pulse and a setting share one camera and lease | `ControlCoversWork`, `SupervisorInv`, `TasksKeepTheirOwn` |
| `camera_control` | expected violation, see section 6 | `Covered` |
| `hub` | focuser groups with members in common, a camera group, the host with two runtimes, a stream that breaks anywhere | `GroupReportsTrue`, `OneOwner`, `RevisionServed`, `IpcAnswersTrue`, `HubLive` |
| `devices` | a weather average, a continuous stream, a rotator's saved reference, a native camera's owner, a safety output of two members | `NothingStale`, `SavedReference`, `NativeOwnerHonest`, `NoBlindCommand`, `GrantIsEarnedByBoth` |
| `outputs` | sampled readings, the Alpaca camera and accessory slots, the published hub devices, typed commands, the direct ZWO worker | `AgesHonest`, `AlpacaServerHonest`, `PublisherHonest`, `DirectHonest`, `TypedHonest` |
| `workers` | the QHY worker, the image budget, the reset helper, and sources behind a Windows driver, an Alpaca server or an output | `QhyHonest`, `ImagesHonest`, `UsbHonest`, `ImportsHonest` |

Every property is stated, in words and as a formula, where it is defined. A property whose
name ends in "Honest" is the conjunction of what one part promises, stated above its parts.

### Bounds, and why they are enough

* *Cooling.* The slot holds one request, so contention needs two; a third would find what
  the second finds. Deadlines, worker replacements and cancellations are unbounded.
* *Capture.* The smallest budgets at which each loop goes round and then stops: two
  replacements, two preparations, one reread, a reset threshold of two. Two captures,
  because outages, the fence and answers for an old episode reach from one into the next.
  `FailureCap` lies above the threshold, beyond which the counter is never compared.
* *Fences, resume.* A queue of one makes full queues common; two leases contend for control
  in `fences`, where only claims and writes interact, and one lease sends every command in
  `resume`. Sleeps, reconnections and requests of the actor are unbounded. Its safety output has two
  polls, two generations and one sleep (`fences`), or two sleeps (`resume`, liveness).
* *Safety timing.* Four units of time with a confirmation of 1, a hold of 1, two readings and an
  age of 2 let a run be earned, expire and be earned again; a broadcast of one makes every lag
  reachable. A sleep or a new generation happens early, if at all (`MaxChanges`,
  `MaxChangeTime`); what they do to evidence is the question of `fences`.
* *Camera.* Two sessions, two acquisitions and a pulse: each kind of task meets each other one.
  At most three tasks are under way, a setting counting as two; both acquisitions are reserved for
  groups, whose starts do all that a client's own does. `camera_control` needs one of each.
* *Hub.* Two groups with the same two focusers in opposite orders and one move each; two
  cameras; one client, two revisions, two attempts, a credential only the second refers to; three
  requests, two of which change something, two in flight and a pipe of one frame.
* *Devices.* A circle of three places and two syncs make a stale reference visible; two weather
  sources and three samples over three units of time, with an age of two, so that samples grow old
  both as the selected one and inside the window, and one break: a sleep, a reconnection or a change of the
  averaging period; three video configurations; four operations of a native camera; two members with
  one generation each.
* *Outputs and workers.* Two callers of everything that is shared; counters (`MaxExposures`,
  `MaxShots`, `MaxFaults`, `MaxQhyFaults`, `MaxQhyStarts`, `MaxQhyMoves`, `MaxImages`,
  `MaxUbArrivals`, ...) at the least value at which an act can be outrun by the next of its kind:
  two, except where a third is needed for an answer to be outrun while it is awaited
  (`MaxChanges`, `MaxAsks`, `MaxUbRequests`). One failure of a sample, one clock unit of the helper.

Deadlock is checked in `capture_session` and `safety_timing`. In the other runs a system may really
stop: clients need not submit, a dropped session, an actor that was shut down, a finished group or a
closed stream is done, or a bound is reached.

### Fairness

| Module | Assumed | Why the code justifies it |
|---|---|---|
| `CoolingMailbox` | weak: `DeadlinePasses`, `WaitReply`, `WaitExpire` of each request; `Check \/ Exchange` | time passes; a receipt is polled by its waiter; each exchange is bounded by the request's deadline. Nothing obliges the owner to claim a request |
| `CaptureSession` | weak: `CaptureStep`, `AckTimeout` | each await of a capture has a timeout, as has the wait for confirmation |
| `SourceActor` | weak: `Progress`, `Timer`, `SendRelease`; strong: `Receive` | backend operations have deadlines, spawned tasks run; after a poll the next is always later, so the loop meets the queue again and again, but not continuously |
| `SafetyHub` | weak: each consume task, the actor's answer to a resume, sending a published event | scheduled tasks with nothing to wait for |
| `FocuserGroup`, `CameraGroup` | weak: the group's task, release of its leases, arrival of a move; start, end and abort of a camera | every wait of the task has a deadline; devices answer or their deadline does |
| `HubIpc` | weak: taking, writing and hearing of frames; breaking of a stream that must break | the pump and the server's writer are tasks of their own, frames have a timeout |
| `HubLifecycle` | weak: steps of apply, of the credential store, of shutdown and of a runtime's shutdown | retained tasks; each job they drain is bounded |

`EverythingResumes` is stated for hosts that in the end stay awake and whose suspend clock in the end
stays valid: a host that keeps sleeping refuses requests by design.

## 4. Abstractions

* A deadline, backoff or timeout may fire at any moment that the order of steps allows, except
  in the safety and sampling modules, where ages are compared and time is a number that does not
  run backwards.
* Atomicity is that of the locks and awaits in the code: code between two awaits of one task is one
  step, unless another thread can read what it shares.
* A worker, backend, driver or device may answer, fail in each class the caller tells apart,
  time out or die at each exchange, with or without the effect; inside it is not modelled.
* Random identities never collide. Angles, positions, gains and settings are small ranges.
* Variables under "history" are written for the properties; no guard reads them, the bounds
  of a run excepted.
* A worker's process takes longer to start than a spawned task takes to be polled first
  (`AlpacaCamera`); a QHY wheel settles in less than the quarter of a second
  between two readbacks, and than the opening of a camera takes (`QhyCamera`); in `TypedCommands` a connected device moves only by what the hub writes; a definite
  refusal of an Alpaca server had no effect (`AlpacaBackend`).


## 5. Proofs

TLAPS checks the theorems of the `...Proofs` modules for every value of the constants. Nothing
is assumed beyond what the modules state about their constants, and each assumption is one that
the code or its configuration makes good:

| Assumption | What it says | Why it holds |
|---|---|---|
| `NoneAssumption` (`CoolingMailbox`) | the mark of a free slot is no request | `Option<Pending>` |
| `ConstantsAssumption` (`CaptureSession`) | budgets are natural numbers, at least one preparation is allowed | `RecoveryOptions` counts with unsigned integers; a capture prepares at least once |
| `SourceAssumption` (`SourceActor`) | finitely many guards, a queue of at least one place | a process has finitely many handles; the channel's capacity is a positive constant |
| `SamplesAssumption` (`TypedSamples`) | at least one property is polled, in at least one attempt; what a reading depends on is polled too | a source without samples has no ages to tell; `PropertyPoll::new` refuses zero attempts; `cached_property` looks only into the snapshot of its own source |
| `PolicyAssumption` (`SafetyEndpoint`), `HubAssumption` | ages, counts and intervals are positive, the broadcast holds at least one event | `SafetyPolicy::validate`; `broadcast::channel` refuses zero |
| `AcquisitionAssumption` (`CameraAcquisition`) | the names of sessions, exposures, pulses and the setter differ | they are of different types, or random identities |
| `NativeOpsAssumption` (`NativeOwner`) | at least one operation may be admitted | a bound of the model; the code numbers operations without limit |
| `HubIpcAssumption` (`HubIpc`) | at least one request in flight, room for one frame, what changes something is among the requests | constants of `client.rs`; a socket holds a frame or blocks |
| `UbAssumption` (`UsbBroker`) | at least one target of an approval; a call and an operation take time | an approval without a target is refused; positive constants of `broker.rs` |
| `RotatorAssumption` (`RotatorReference`) | the circle has at least one place | angles are taken modulo 360 degrees |
| `PublisherAssumption` (`HubPublisher`) | the bound on sessions is a number | a bound of the model; the code makes sessions without limit |
| `FocuserGroupAssumption` (`FocuserGroup`) | a group has at least two members, none of them twice; no group has the name of nobody | `FocuserGroupConfig::validate`; groups have identities of their own |
| `CameraGroupAssumption` (`CameraGroup`) | the same for cameras | `CameraGroupConfig::validate` |
| `HubLifecycleAssumption` | at least one runtime; the first uses no credential that an update brings | the host loads one configuration before it serves |

The bounds that keep TLC's state spaces finite (`MaxTime`, `MaxGen`, `MaxCaptures`, ...) are
constants like the others: what is proved holds for every bound.

### The theorems and their arguments

All proofs have the same plan: an inductive invariant; one lemma for each action, split by the
conjuncts that the action can disturb; and at the end the property from the invariant. The
invariants are needed because no property below is inductive by itself: each speaks of what is
told or started, and says nothing of the messages, latches and half-done tasks that lead there.

**Cooling mailbox** (`CoolingMailboxProofs`). `MailboxInv` is inductive as it stands
(`MailboxCorrect`): who has the slot (`SlotInv`), what the worker was sent (`SentInv`), what
each client knows (`ClientInv`). `CommitMatchesOutcome` follows from it. `OnlyDueWrites` needs
`WriteInv`: between the check of a command and its write the limits admitted it, a request that
runs unexpired implies that the mailbox accepts, and an opening session has a worker.
`MailboxImplementsContract` is the refinement of `CommandContract`: every step of the mailbox is
a step of the contract or leaves it alone.

**Capture session** (`CaptureSessionProofs`). `IInv` is `CaptureInv` with `FenceInv` and
`SettleInv`: a confirmation that is owed is either the pending episode's, or the fence is
blocked and what is under way carries an error that no preparation retries; and a disturbed
cooler is settled before a start can be reached. Without the two a start command could follow a
reset that nobody confirmed, and `StartsAreRestored` shows that it does not.
`CaptureImplementsContract` is the refinement of `ExposureContract`.

**Source actor** (`SourceActorProofs`). `ActorInv` says of every request where it is: it has one
waiter, and stands in the queue, or in the backend, or is answered (`QueueInv`, `PlaceInv`);
releases in the queue are those of guards that were dropped, and a lease belongs to one guard
(`LeaseInv`); what a request reports is what happened to it (`FateInv`, `WritesToldTrue`), and
neither a write in doubt nor one from before a sleep reaches the backend (`FenceInv`).
`LengthInv` bounds the queue by its capacity and the messages that are sent without waiting.
`ActorIsSound` gives the actor's own invariant with `WritesToldTrue`, `WritesAreFenced` the
three parts of `WritesFenced`, for any number of guards; the run `fences` checks the latter two
over an instance of the actor beside a safety output, the run `resume` the former.
`RetryWaitHolds`: while a failed read is being retried, only time ends the wait for the next
poll, or the end of retrying.

**Samples** (at the end of `SourceActorProofs`). The age of a sensor's value is asked for in a
request of its own, before the value. `SampleInv` says of each place an age is kept that it
reaches back to when the sensor took the value it will be told with: the age that waits for its
value and belongs to the property the cursor is at (`PendingOK`), the age of the request under
way (`RequestOK`), and the age in the snapshot (`KeptOK`). `AgesAreHonest` follows for a
reading that depends on several properties, since what is told is the oldest of their ages; it
is about `SmSpec`, the sampling alone.

**Safety engine** (`SafetyHubProofs`, `SafetyGrantProofs`). `SafetyInv` follows evidence
backwards: what an endpoint counts was in its task's hands, what is there was in the broadcast,
what is there was a poll of the source, of the generation it names; and a generation is new or
longer than any it derives from, so that none is met twice. `EvidenceIsGenuine` shows it
inductive, and `SafeOnlyOnProof` concludes that no one is told "safe" without a young safe poll
of this resume epoch from every source.

The second module shows the converse, that nothing is missing. `GrantInv` adds

* `Chain`: a source's events are in order and tell of the bad readings before them
  (`StreamInv`); what it has published and its task has not handled is in the broadcast, or
  being sent, or the task has been or will be told that events were lost, or that the source's
  status changed (`NothingMissed`, `LooksAgain`, `KnowsGeneration`, `HandInv`);
* `Judged`: an endpoint that counts has an unbroken run of readings behind it, apart by the
  confirmation interval, and none of them bad (`Counts`, `AliveInv`, `RunInv`); and what the
  task has handled the endpoint has taken note of (`HeardInv`).

`GrantIsEarnedHolds` then follows: in the step that grants, the endpoint of every source has
earned it, over the number of readings and the time that the policy asks for, with interval
arithmetic for any policy. So does `LastWordHolds`: a task that has caught up has judged the
last reading, and a task or an output that ended has left no permission.

**Camera supervisor** (`CameraAcquisitionProofs`). `IInv` relates the phase of the active
exposure to the tasks (`PhaseOfTask`, `NoneIdles`), to the commands under way (`PhaseOfCommand`,
`CommandsFollow`), the transfer of an image to the completion that was offered (`TransferKept`,
`OfferIsOwn`), what the camera makes to the exposure that started it (`CameraIsOwn`), and the
leases that were lent and not given back to control (`LeasesOK`, `Controlled`). From it follow
`SupervisorIsSound`, `TasksReachTheirOwn`, and `WorkIsControlled`, with the exception described
in section 6.

**Native camera owner** (second half of `CameraAcquisitionProofs`). `NativeInv` says of every
retained task what it holds at its place and which generation it names (`OwnerTasksOK`); that
what `State` marks still runs in the present generation, and that a control operation is under
way only without doubt and without a cooler command beside it (`MarkersOK`); that the image is
the last capture's, whose task has ended and was not cancelled, while whoever waits for an
abort waits for a cancelled one (`ImageOK`); and that the engine and the worker belong to the
generation that is connected, or, once a close has had the engine, the worker is gone
(`WorkerOK`). Without the third an abort could be acknowledged whose image is then served;
without the second the end of a setting could overwrite doubt. `NativeOwnerIsHonest` and
`DoubtStays` follow for any number of operations; they are about the owner by itself, `NoSpec`.

**Hub lifecycle** (`HubLifecycleProofs`). `HlIInv` says which lock each update, connection
attempt and shutdown has (`LockInv`), how the runtime that is served and the stored revision go
together in every phase of an update (`RevisionInv`), which activities stand for what in which
runtime (`RuntimeInv`, `OpenInv`, `CommandInv`, `GoneInv`), and what a client's session may
still refer to (`ConnectionInv`, `BindingInv`). `OneOwnerHolds` and `RevisionServedHolds` are
consequences. The theorems are about `HlSpec`, the host by itself, without fairness.

**Alpaca publisher** (at the end of `HubLifecycleProofs`, a client of that host). `PbInv` says
that a live session has one place in the table (`TableInv`), and that the calls and the job of a
session are of the client whose place that is, until the session is retired (`OwnerInv`);
and of each session that a live stream's outputs are its leases, and that a retired session with
an open stream has a job that has yet to look at it (`SessionInv`), since a stream that is being
opened is not seen by the session's retirement. `PublisherIsHonest` follows, for any number of
clients; the run `outputs` checks it for one. It is about `PbSpec`, the publisher by itself.

**Coordinated operations** (last in `HubLifecycleProofs`). `FgInv` says how far a focuser
group's operation got: which members it holds, that each of them is controlled by it alone, and
that the members after the one it is at have not been moved (`FgStageInv`); and what its report may say
by then (`FgReportInv`). Members are told apart by their place, so a group that named one twice
would break it: its first move would falsify "not started" for the second place. `CgInv` is
about one capture: before the burst nothing is exposed and no answer is owed (`BeforeInv`), the
answers that wait tell what became of the exposure (`EventIs`), and the loop accounts for every
member: a member that is exposing has an image to come and is one no abort was asked of, one
that is aborting has an answer to come, and an image that was taken is reported complete or
waits (`MemberIs`); the head of the loop leaves no exposing member out when a policy asks
for aborts (`CgLoopKeeps`). `DoneIs` is about reports that are final while cameras still answer.
`GroupReportsAreTrue` joins the two, `FgSpec` and `CgSpec` being each by itself.

**Channels** (`ChannelProofs`): the IPC stream, the helper's pipe, and a rotator behind its
worker's stream. `IpcInv` says that a request waits once and travels once (`OnceInv`), that
nothing is done for it before it arrived (`ArrivalInv`), that answers on the way are true
(`FrameInv`), what was told, and what can no longer happen then (`ToldInv`). `LimitInv` counts:
what the server is answering belongs to requests whose permits the client keeps while the
connection lives, so that the server's limit is never met although callers give up.
`IpcAnswersHold` follows. `UbInv` numbers the helper's requests (`IssuedInv`), ties what is
served to the call of its client, if that still waits (`ServedInv`), approvals to the user's
consent (`ConsentInv`), and cycles of a port to the request in progress (`CycleInv`,
`AnswerInv`); `UsbHonestHolds` follows.

`RtInv` is about the rotator: the stream holds the one request or answer that is awaited
(`PipeInv`) and the answer still holds when it is heard (`AnswersTrue`); a change of the
reference rests on a rotator that stands still (`StillInv`); records are numbered, so that a
pending save replaces only the record it was made from (`NumberInv`); the record of doubt is on
disk while the reference changes, and what may be saved over it is what clients are to go by
(`RecordInv`); and while the backend has no doubt, the worker goes by the reference clients were
told of (`TrustInv`). With the arithmetic of the circle (`Circle`, `MoveGoes`),
`SavedReferenceHolds` and `MovesAreByReference` follow. The theorems are about the safety part
of each, `IpcSpec`, `UbSpec` and `RtSpec`, without fairness.

### What is only model-checked

* Liveness (`MailboxLive`, `CaptureEnds`, `EverythingResumes`, `HubLive`): TLAPS has no rules
  for fairness and `ENABLED`.
* What a recursive definition computes for every input: induction over data is out of the
  provers' reach. The models use none in what is proved.
  For this reason `NothingStale`, whose sum of weights is a recursive function, and
  `ImagesHonest`, whose shapes of nested arrays are recursive operators, stay with TLC.
* `AlpacaServerHonest`, `DirectHonest`, `TypedHonest`, `QhyHonest` and, of `ImportsHonest`,
  `VirtualHonest`: their proofs would be of the kind above, one component at a time.
  `ComHonest` and `AlpacaHonest` are about modules without constants, whose states TLC
  enumerates completely.
* `GrantIsEarnedByBoth` is the conclusion of `GrantIsEarnedHolds` for the two members of one
  instance; it is checked and not proved a second time.
* The two expected violations of section 6 are counterexamples, which TLC finds.

## 6. Findings

* `NoStartWhileBlocked` (run `capture_fence`) is what `usb_peripherals.rs:79` says of the fence:
  "Reject captures after an unconfirmed reset". `Session::capture` asks the fence once, before its
  first attempt. When the USB reset that belongs to a preparation fails (`session.rs:1631`), the fence
  is blocked, but the failure is an ordinary preparation error: if it is retryable, the next
  preparation opens the camera and the exposure starts with the fence still blocked. The reset
  between attempts ends the capture and is not affected, which `StartsRestored` checks.
* `Covered` (run `camera_control`) is what the comment at `camera/guiding.rs:270` says: a pulse
  retains its ownership through completion. `command()` in `camera/acquisition.rs` (line 1117) asks
  `guide_retains` only for an abort whose exposure is still the active one. When the exposure has
  become uncertain and was abandoned before its abort is acknowledged, the abort gives away the lease
  that a running pulse shares, and the pulse goes on without control. `ControlCoversWork` shows
  that this is the only way.

### Observations without a run

What follows was met while reading the code; none of it contradicts a promise strongly enough, or
is modelled exactly enough, for a run of its own.

* The direct ZWO worker may report "stopped" although stopping or verifying failed
  (`server.rs:665`; `docs/architecture.md:244` says a clean abort is never acknowledged then);
  `download` assigns `reconnect_required`, so a doubt latched during a capture is cleared by
  downloading a clean frame; a failed `stop_video` on the way to a still start does not latch it; a
  stop in still mode clears only the owner's slot, so a published frame stays downloadable; a
  failure of the idle environment service ends the owner thread silently.
* After a replacement of the QHY worker a wheel that still turns is verified by a single readback
  (`worker.rs:241`, `cfw.rs:22`), so a frame may be exposed while it settles. `QhyHonest` excepts the
  frames of such a worker from what it says of the position during the exposure, until a move of its
  own has completed, and claims for them only where the wheel is after the readout; a stopped video leaves the sensor in stream mode until it is
  initialised again; "disconnecting the camera disables its cooler" (`docs/qhycfw3.md:50`) holds for a
  disconnect that succeeds.
* In the Alpaca server the wheel's connect path passes neither the connections gate nor the check of
  other slots; a failed first camera join leaves the profile's cooler command queued with only a wheel
  client; a connect accepted right before shutdown can open a session after it. A hub connection that fails on
  a session just retired reports neither an error nor progress.
* Over IPC, large frames in both directions can make both ends wait until the frame timeout.
* In the Alpaca import a plain write answered by HTTP 408, 429 or 5xx is reported as transient although it
  may have taken effect; `disconnect` returns Ok with nothing sent while an unacknowledged open
  is in doubt (the doubt stays latched); a disconnect that met an error stays uncertain for good;
  the identity is verified in an exchange of its own and can change before the request. In the COM
  import a killed worker leaves its device connected.
* With several members, a safety output can be granted between the moment a consume task learns that
  events were lost (or that its source has a new generation) and the reset of its endpoint in
  the next step: the permission then rests on a run that is about to be taken back.

## 7. Plan

Modelled so far is what the table of section 2 lists. Next, in this order: proofs of the
invariants that are only model-checked (section 5), beginning with
the workers; then the operators of `timing.rs` (allowances,
saturation) and of focuser group targets against reference definitions.

## 8. Not modelled

White balance, thermal policy, timing arithmetic, camera options and property tables: numeric or
tabular functions without state. Configuration transfer and validation: pure functions of large
documents. Endpoints, launching, secret storage, discovery: operating system calls. Device protocols,
USB and serial transports, image decoding: tables, formats and calls whose outcomes enter the models as what
a worker, backend or client may do. HTTP and ASCOM translation, the C# drivers and the N.I.N.A.
plugin: frontends; what they may ask and when they may vanish is in the clients of the models. Within
the modelled parts, left out are: resuming cooling after a reconnection and changing a running video
(`DirectCamera`), the setup pages of the publisher and the `settings` page of an accessory, local geometry and
property reads of a native camera, `seed_filter_wheel`, network discovery, user tokens and access rules of
the helper's pipe, and commands of a rotator that the hub does not offer.
