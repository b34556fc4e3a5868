# A TLA+ model of SecOutfall

SecOutfall runs a sample inside a Windows VM and observes it. One analysis is
a *study*: a series of *sessions* separated by reboots of the VM. The agent (a
service inside the VM) keeps the study's history in `scope.json` across
reboots, tracks which processes belong to the sample, reports what it sees to
an external Controller, and at the end of every session asks the Controller to
reboot or to shut down the VM.

This directory holds TLA+ modules for the parts of the agent where order,
failure and concurrency decide whether it is right, TLC configurations for
small instances, and proofs checked by TLAPS for every instance. Paths below
are relative to `src/crates/agent/src` unless they start with another crate.

## 1. Inventory

| Part | State it keeps | Operations | What is hard |
|---|---|---|---|
| session manager (`plugins/session_manager.rs`) | the open session, `finalized`, `finalize_done`, the score to report | `open_session_if_needed`, `finalize_session`, `request_reboot_or_shutdown`, periodic save, boot reports, bus consumer | three tasks may finalize; the periodic save reads a flag and saves later; the save may fail and the sequence goes on |
| host runtime and bodies (`app/runtime.rs`, `bin/secoutfall-agent.rs`) | the running session, the scheduler handle, the stop channel | service, console, demo and local bodies, `run_until_stop` | decides when the process ends, while other tasks may still be finalizing or publishing |
| scheduler (`adapters/driving/scheduler.rs`) | timers | persist, deadline, keepalive, statistics branches | one task polls all branches: when one returns the others are dropped in the middle of an await |
| scope store (`adapters/driven/scope_store/json.rs`) | `scope.json`, `scope.json.tmp` | `load`, `save` | one temp name for all savers, every file operation an await; I/O errors, power loss |
| composition root (`app/builder.rs`) | none after start | `load_scope_state`, `assemble` | a nil study id is replaced at each boot until one is saved |
| scope aggregate (`domain/scope.rs`) | scoped processes, drops, sessions, study id | `process_entered`, `process_exited`, `is_scoped`, `scope_dead`, `drop_observed`, `drop_closed` | pids are recycled; events get lost |
| scope tracker (`plugins/scope_tracker.rs`) | expected image names, bus subscription | `drain_expectations`, `handle_source` | the expectation comes over the bus, the process start over the source |
| target launcher, launchers, shell association (`plugins/target_launcher.rs`, `adapters/driven/launcher`, `shell_association`) | `attempted`, a job queue; the scheduled task | marker trigger, resolve, launch flow | runs beside the pipeline; one event shape triggers it; a task that timed out may fire, or stay behind |
| user-actor supervisor (`plugins/user_actor_supervisor.rs`) | pid gate, job queue | the same for the user actor | the pid gate the IPC server reads |
| job queue (`app/worker.rs`) | bounded channel, counter of losses, token | `submit`, worker loop, `stop` | submits race the end of the worker |
| kernel (`kernel/src/app/services/kernel_service.rs`) | plugin list, middleware chain | `boot`, `shutdown`, `accept` | hooks fail halfway; events run through the chain concurrently |
| event bus (`kernel/src/bus.rs`) | bounded broadcast ring | `publish`, `subscribe` | slow subscribers lose events |
| scoring (`plugins/scoring.rs`, `domain/score.rs`) | per-pid chains, the maximum | observe, forget, raise | recycled pids; the last raise races the death that finalizes |
| drops collector (`plugins/drops_collector.rs`) | quota, seen hashes, name sequence | capped copy, rename, upload | the sample writes while it is copied; a copy, a rename or an upload may fail |
| event reporter, brokers (`plugins/event_reporter.rs`, `adapters/driven/broker`) | the shared sequence, the client queue | publish, flush, connect budget | what is queued when the process ends |
| service control (`adapters/driving/service_control.rs`) | the status handle | register, report, stop control | a stop between Running and the task that listens |
| ETW source (`adapters/driving/etw_adapter.rs`) | trace session, bounded channel | attach, parse, deliver | what happened before it is attached, and what does not fit |
| driver source (`adapters/driving/driver_event_source.rs`, `protocol/src/driver_wire.rs`) | drain buffer, clock offset, name cache | drain, walk, map | malformed records, stale names |
| driver control, sensor store (`ports/driven/driver_control.rs`, `adapters/driven/driver_control_device.rs`, `sensor_store`) | none | encode and push policies, verified copy | two parsers of one blob |
| IPC server and client (`adapters/driving/ipc_server.rs`, `user-actor/src/adapters/driving/ipc_client.rs`) | permits, handshake state, evidence, the DACL | accept, handshake, serve; connect, dispatch, reconnect | connection cap, handshake deadline, reconnects, reports from two tasks |
| user actor and screenshot intake (`user-actor/`, `plugins/screenshot_intake.rs`) | capture counter, sink, hook thread; quota, queue, files | focus source, capture, input, exit; save, upload | concurrent captures, blocking tasks at exit, names that repeat |
| kernel driver (`driver/secoutfall`) | three record queues, identity table, injection ledger, policies | callbacks, GET_DATA, IOCTLs | queues at their limit; locks dropped in the middle |
| injectee (`injectee/`) | the ring shared with the driver | handshake, hooks, `emit` | a lock-free ring that is drained while it is written and unmapped |
| protocol crate | none | schemas; frame header and screenshot codec | limits that both ends must share |
| statistics, development tools | none | counters | nothing that orders matter for |

How they interact: event sources, the scheduler, the IPC server and the host
push `SandboxEvent`s into the kernel's `accept`, which runs them through the
plugins' `pre` and `post` hooks. Plugins talk to each other over the bus
(`ScopeDied`, `ExtendScopeExpectation`, `DropClosed`, ...) and share one
`ScopeState` behind a lock. The session manager alone saves that state and
alone asks the Controller for a bounce. The host decides when the process
ends, by a stop from outside or by polling `finalize_done`.

What makes the parts correct: a study keeps its id and its sessions across
every crash; a session that ended is recorded as ended; exactly one task
finalizes and the host does not end the process under it; the study ends when
its plan is exhausted; the scope is the target's process tree, no more and no
less; a scope is declared dead when it is, and then always; jobs are handled
or counted as lost; a failed boot leaves nothing running and a stop is heard;
reports leave before the process does; the score is what was observed; a file
with a final name is whole; a record of the driver is delivered or counted and
names the right process; both sides of every shared buffer read the same.

## 2. Modules

| Module | Models | State ↔ code |
|---|---|---|
| `ScopeStore` | `scope_store/json.rs` | `file`, `temp`: what the two names are bound to; `spc[w]`: where saver `w` is in `save()`; `snap[w]`: the state it was called with |
| `StudyLedger` | what the session manager promises (an abstract specification, not code) | sessions in memory, sessions on disk, is the agent up, what did it ask |
| `SessionLifecycle` | session manager, host, scheduler, `load_scope_state`; uses `ScopeStore` | `mem`: the shared `ScopeState`; `fby`/`fpc`/`done`: who won the `finalized` swap, where `finalize_session` is, `finalize_done`; `host`, `sched`, `tick`, `cons`: the tasks; `phase`, `asked`, `crashes`: the VM and the Controller |
| `ScopeTracking` | scope aggregate, scope tracker, target launcher with both launch mechanisms, ETW source, processes of the OS | `os`: who really holds a pid; `trace`, `rundown`, `stream`: the source and the events under way; `recs`: `scoped_processes`; `expected`/`pending`: expected names and the bus subscription; `attempted`/`launch`: the launcher; `task`: the scheduled task |
| `JobQueue` | `app/worker.rs` | the channel, the worker's place in its loop, the token, the loss counter, the owner and the handles |
| `DropsCollector` | drops collector; extends `JobQueue` | `source`: the sample's files; `dir`: the drops directory; `pc`, `read`, `nameSeq`, `seen`, `collected`: `collect_drop` and its state; `up`: the power |
| `Kernel` | `kernel_service.rs` | each plugin's hook state, the boot's or rollback's position, the position of every event in the pipeline |
| `AgentHost` | host bodies, `runtime.rs`, service control, brokers, event reporter; extends `Kernel` | `body`: the step the host is at; `scm`, `channel`, `forwarder`: the way of a stop; `scheduler`, `source`, `consumer`: the tasks; `finalizer`, `reported`: the finalize; `wire`: the envelopes of every publisher and where they are |
| `Telemetry` | scope tracker's bridge, event bus, scoring, the session manager's score | `bus`, `pos`, `lagged`, `missed`: the channel, its receivers and what a lag took from them; `detector`, `maxScore`: scoring; `managerMax`, `reported`: the session manager |
| `IpcSession` | IPC server, user-actor IPC client, user-actor supervisor, frame codec of the protocol crate | `accept`/`taken`: the accept loop and who has opened the listening instance; `task[k]`/`hands[k]`: a serve task and its `handshaked`; `up`, `down`: frames in the pipe, those to the server with their header fields; `dacl`, `mechanism`, `gate`: who may open it and who is expected; `actor`, `welcomed`, `sink`, `shot`: the client's run loop and the sizes of its screenshots; `evidence`: the last `user_actor` report |
| `UserActor` | the user-actor process, screenshot intake | `actor`, `pump`, `adapter`, `watcher`: its tasks and threads; `captured`, `flow`, `sink`: a capture; `input`: blocking input; `jobs`, `job`, `files`, `staged`: the intake |
| `DriverRecords` | driver callbacks, queues and GET_DATA, policy push, sensor store, driver event source | `proc`, `gen`: who really holds a pid; `idents`: the identity table; `callback`: what is left of a callback; `queue`, `draining`, `heads`, `batch`: the drain; `names`: the agent's cache |
| `DriverWire` | `driver_wire.rs`, `driver_control.rs` and the driver's parsers | a batch as fields by address and the walk over it; the policies wanted and the ones the driver holds |
| `SensorRing` | injection ledger, sensor handshake, the ring and its drain | `ledger`, `attempts`, `apcs`: injection; `sensor`, `device`: the handshake; `views`: the mapped rings; `emitter`, `drain`: who writes and who reads |
| `MC*` | instances for TLC | |
| `FilesProofs` | TLAPS proofs of `ScopeStore`, `JobQueue` and `DropsCollector` | |
| `DriverProofs` | TLAPS proofs of `DriverRecords` and `SensorRing` | |
| `SessionLifecycleProofs`, `ScopeTrackingProofs`, `AgentHostProofs`, `IpcSessionProofs`, `TelemetryProofs`, `UserActorProofs` | TLAPS proofs of the module they are named after | |

`MCFiles`, `MCEvidence` and `MCDriverShared` each hold two components that share
nothing (the scope store and the drops collector; the score and the screenshots;
the codecs and the ring): a behaviour is one of the first or one of the second. In
`MCScopeTracking` a behaviour has lost events or file events, not both: file events
move nothing of the scope, and after a loss `DropsExact` claims nothing. That a
path outside the policy is no drop is left to the proof of `DropsExact`.

Choices that matter for reading them:

* **One await, one step.** Between two awaits a task is atomic. `save()` is five
  steps; `finalize_session` is seven; the periodic tick is two (the flag is
  read, then the state is cloned), because a bus consumer or the host may run in
  between on another worker thread. The scheduler's own branches are polled by
  one task, so none of them moves while the tick is between those two steps.
* **Dropped futures.** When the deadline branch returns, or the host cancels the
  scheduler, every branch of the scheduler is dropped where it stands. A save
  that is dropped leaves the files as they are and closes its handle
  (`Store!Dropped`). A file operation already handed to the blocking pool may
  still complete; that is the same as a drop one step later.
* **Crash.** Everything in memory is lost and a file that was not written
  completely stays partial. The rename is taken to be durable: `save` syncs the
  directory on unix, and NTFS journals the rename.
* **`OpenBusy`.** Windows refuses to remove or rename a file that is open
  without delete sharing, unix allows it. The constant chooses. The agent is
  deployed on Windows; the store is also tested on unix.
* **The Controller and the VM are external.** The Controller may act on the
  request while the agent is still shutting down; power may go at any moment.
* **The operating system is external** in `ScopeTracking`: processes start,
  write, close and exit in any order, pids are recycled, and the stream of
  events is ordered but may lose the kinds named by `Lossy` (in one boot, one of
  the kinds). Any program may bear the name of the target's image: such a
  namesake, and what it starts, is `alias` in `os`. Two ghosts record what the
  source has lost (`lost`) and whether a namesake has been reported, and if so
  whether that was before the target was started (`namesake`).
* **The pipe is external** in `IpcSession`: bounded both ways, a write waits when
  it is full and fails when the other end is closed, and what the server wrote
  before it closed can still be read. The user actor holds the nonce, other
  clients do not. The client's reader task and its channel are merged with the
  pipe: they only move frames on.
* **Locks in the driver.** What the driver does under one lock is one step, what
  it does after dropping it is another; the lock-free ring is as many steps as
  it has accesses that matter. `gen`, `walked`, `overrun`, `counted` and `misled` are ghosts: no
  guard of the code's actions reads them. The geometry of a ring is constant,
  whereas the drain takes slot count and slot size from the ring's own header each
  time (`Injection.cpp:893-902`), which its process could rewrite.
* **Publishers.** `AgentHost` keeps the envelopes of each publisher in order and
  not the numbers of the shared counter: no property depends on the order across
  publishers. One envelope stands for the boot reports, and one for the reports
  of the finalize up to `session.ended`.
* Definitions marked *Faulty variant* are single-change mistakes of the code
  (a dropped guard, an off-by-one, a wrong order). They are used by no
  specification; `PROJECT.json` pairs each with a property that fails when the
  variant takes the place of the real definition.

## 3. Runs

Every run is `tlc -config <cfg> <module>`. `CHECK_DEADLOCK FALSE` is set where
the system really may stop: a study that is over, a VM switched off at its
boot bound, a process that has ended, a bound on events that is used up.

| Run | cfg | Bounds | Shows |
|---|---|---|---|
| `files` | `FI.cfg` | 2 savers, 3 states, errors, drops, crashes, open files neither removed nor renamed; 2 jobs on a queue of 1, files of at most 2 chunks, 1 change by the sample, a power loss | `SavedIsDurable`: while no two saves overlapped, `scope.json` is exactly the last state whose `save` returned Ok; `LeftoverHarmless`: and no save is refused because of a temp file an earlier one left; `NamedIsWhole`: a final name, and an upload, is the whole content its hash is of; `SpentOnCopies`: quota and hashes are spent on copies that exist; `LossesCounted`: the loss counter is exactly the jobs refused and abandoned; `StopEnds` |
| `study_safety` | `SL_safety.cfg` | plan of 2, 3 boots, 1 power loss, stops, scope deaths, broker loss, I/O errors | `IdsUniqueOncePersisted`, `CleanEndIsDurable`, `OnlySchedulerFinalizeIsLost`, `StudyInv`, `StudyIdStable`, `ImplementsLedger` |
| `study_liveness` | `SL_live.cfg` | plan of 2, 3 boots, 1 power loss, stops, scope deaths, broker loss | `FinalizeEndsInExit`: a claimed finalize ends in the exit of the agent; `StudyEndsOrOverruns`: a study ends, or runs into a session beyond its table, or its request never reaches the Controller |
| `tracking` | `ST.cfg` | 2 pids, 1 path, 2 events in flight, interpreter target, both launch mechanisms, lost starts or stops unless there are file events, namesakes of the target's image at any time | `ScopeIsTree`, `NoFalseDeath`, `DropsExact`: the scope and the drops against the real process tree, each under the losses and the namesakes it tolerates; `DeathReported`, `MarkerLaunches` |
| `host` | `AH.cfg` | 4 hosts, 2 plugins, a source event, a deadline and a stop, 2 connects, 1 event envelope | `FinalReportsLeave`: after a flush that succeeded nothing of the boot, or of a finalize the host waited for, is left behind; `NothingStartedIsLeft`: a boot that fails stops what it started; `StopHeard`: the SCM's stop leads to Stopped |
| `ipc` | `IPC.cfg` | the user actor and one other client, 1 permit, 1 frame each way, 1 queued screenshot, images at and above the payload limit, both mechanisms, either DACL, instances that cannot be made | `EvidenceTrue`: the actor's frames are all taken and the last `user_actor` report is the truth; `SquattersEvicted`, `ActorAnswered`, `StopEndsAll` |
| `evidence` | `EV.cfg` | 2 pids, 2 calls, a bus of 2, 1 tracked pid, 4 events; or the user actor: 2 boots with a process each, saving with polling or staging with WinEvents, 2 pushes, 3 focus changes, quota 2, sink and queue of 1 | `ScoreExact`: the maximum is that of a definition per process; `FinalScore`: the report is between what was announced in time and what was seen; `DeathFinalizes`: a death ends the session, also after a lag, unless it was itself overwritten; `SavedKept`, `UploadedIsOwn`, `ActorExits` |
| `driver` | `DR.cfg` | 2 pids, 2 processes, 4 records, queues of 1, 1 fault | `NoSilentLoss`: every number drawn is in a callback, a queue, a batch, walked or counted; `AttributionTrue`: identities and names are those of the process |
| `driver_shared` | `DI.cfg` | 3 records of any kind with any one field damaged, or cut; lists of at most 3 names, paths and lists below and above the driver's limits; 2 processes on one pid, 2 threads, ring of 2 slots, 3 and 2 calls | `WalkEnds`, `DamageIsLocal`: a damaged record costs itself, an unusable size the rest; `ControlAgrees`: the driver holds what was encoded, refuses what is over a limit or ill-formed and nothing else; `RingExact`: every index of a ring is one record under the right process or is counted, also when there is no memory for the record; `InjectedOnce` |
| `v_driver_never_launches` | `ST_V_dated.cfg` | 2 pids, events as `SourceDated` | `MarkerLaunches` is violated |
| `v_squatter_stays` | `IPC_V_unread.cfg` | as `ipc` | `EvictedByTimeout` is violated |
| `v_ring_unmapped` | `DI_V_unmapped.cfg` | as `driver_shared` | `DrainSparesKernel` is violated |

Why the bounds are enough for these questions. Overlap needs two savers, and
the agent has exactly two (the periodic save and the finalize). A study of two
planned sessions has a first, a last and, after one power loss, a session
beyond the table; three boots cover a reboot before and after the loss, and
the theorems of section 5 lift the history properties to any number. Two pids
are a target with a child or an outsider beside it, and each pid is taken over
again and again; two events in flight are enough for a start and a stop of one pid, or
a start and the expectation that must precede it, to be under way together. A
queue of one with two jobs is full, and overfull; a file of two chunks is one
chunk above the cap and can change between two reads. With one permit one
other client is enough to use the cap up, and one frame of buffer makes every
write wait at some point; the images are the largest that fits a frame and one
byte more. One of each kind of event at the host gives every
order of the three finalizers and the stop. A bus of two is overtaken by four
events and the raises they cause. Queues of one overflow with two records, and
four records are a creation, its exit and the next holder of the pid. A ring of
two slots is overrun by the third call; the second process has the first one's
pid and address. Paths of up to 3 units meet a limit of 6 bytes, and lists one of 12.
Two boots with the user actor are one that leaves files and one that finds them.

## 4. Fairness

Safety runs assume none. The liveness runs assume:

* `SessionLifecycle`: weak fairness of every step a live task can take — tokio
  keeps polling a woken task, file operations return, the host's 250 ms poll
  ticks. Strong fairness of `DeadlineFires`, because the periodic tick shares
  the task and may keep getting in the way of that branch, while every poll of
  the task polls the deadline's timer too. The Controller acts on a request it has received and a VM
  that is off boots. Nothing is assumed of stops, scope deaths, periodic ticks
  or power losses.
* `ScopeTracking`: the pipeline keeps taking events from the source and the
  launcher's worker runs. Nothing is assumed of the processes.
* `IpcSession`: the tasks on both sides run, the user actor's reads included, and
  the connect deadline or an open instance is met. Nothing makes the other
  clients read, and the ERROR after the handshake deadline, and the one of a
  rejection, are writes without a deadline: `SquattersEvicted` and `StopEndsAll`
  except a client that leaves that write unread for good, and
  `v_squatter_stays` shows it. Strong fairness of `ServeTimeout`:
  a client that keeps sending moves the task between reading and refusing, and
  the one deadline of the exchange is looked at by every read that waits.
  Nothing is assumed of connects, sends, closes or screenshots.
* `JobQueue`, `DropsCollector`: the worker is scheduled, a file operation returns
  and an upload ends by its request timeout; `stop` is polled.
* `AgentHost`: one condition for every step that a task, the host or the broker
  client can take; there are finitely many of them. Stops, source events,
  deadlines and scope deaths come from outside and are not promised.
* `Telemetry`: the two receivers are scheduled; how fast is open, so they may
  lag.
* `DriverWire`: the loop over a batch goes on. `DriverRecords` and `SensorRing`
  are checked for safety only.
* `UserActor`: threads and blocking tasks run, a key that is down comes up, the
  runtime is dropped once main has returned. Nothing says when the process
  leaves.

## 5. Proofs

All are of the specifications as TLC checks them, from the assumptions named in
the modules and no others, for every value of the constants: any plan, any
number of boots and power losses, any pids, plugins, clients, jobs, capacities
and quotas. Each `...Inv` below was checked by TLC on the instance of its run
before it was proved.

Store and study:

* `FilesProofs!SavedDurable`. `SavedIsDurable` is not
  inductive: it says nothing of the temp file that a rename is about to
  install. `DurableInv` adds that without overlap there is one saver and that,
  once it has removed the temp name, the name is free, then bound to its own
  partial file, then to its own complete one.
* `FilesProofs!LeftoverNeverBlocks` (`LeftoverHarmless`), from `DurableInv` and
  `OwnerIsWriting`: whoever holds a file open is in its write, so every way out
  of the write, a dropped future included, closes it.
* `SessionLifecycleProofs!TypeCorrect`, through `Typed`: the types, and that a
  running agent has a session to finalize, so `finalize_session`'s exits for "no
  open session" are unreachable.
* `SessionLifecycleProofs!StudyInvariant`: the inductive invariant `StudyInv`. Its
  parts are needed together. `SavesFit`: every save in flight carries this
  boot's study and session count, and once a save is past its remove, any temp
  file is of this boot — a stale temp from before a crash cannot be renamed
  over the state. `RecordFits`: `scope.json` is this boot's or lacks exactly
  this boot's session. `StartedFits`: every session ever persisted is still
  in `scope.json`. `AskedLate`: nothing is asked before the request step.
* From it: `IdsUnique` (an id is used twice only when its first boot never got a
  save), `LedgerImplemented` (the agent with its tasks, files and crashes
  implements `StudyLedger`), `StudyIdNeverChanges`.

* `SessionLifecycleProofs!FinalizeNotLost` (`OnlySchedulerFinalizeIsLost`). `FinalizeInv` adds who may
  hold the `finalized` swap while the agent is up: the claimant and the task at
  its steps agree, the host waits in `accept` only for its own finalize, and it
  is past its loop only when the finalize is done or a stop has come, and past
  the join only when the consumer is gone.
* `SessionLifecycleProofs!CleanEndDurable` (`CleanEndIsDurable`). `DurableInv` has a part that holds
  always (`ShapeInv`: in memory, in every snapshot and in both files at most the
  last session is open; `OwnRecord`) and one that holds while no two saves have
  overlapped (`LoneSaver`; `Announced`; `EndsKept`: every announced end is in
  `scope.json`, in memory and in the snapshot of the save under way). The
  property alone is not inductive: a snapshot taken earlier may lack the end.

Scope (`ScopeTrackingProofs`):

* `TrackingInvariant`, and from it `ScopeFollowsTree` (`ScopeIsTree`),
  `DeathIsTrue` (`NoFalseDeath`), `DropsAreExact` (`DropsExact`). The properties
  speak of a drained stream, so none is inductive. `Pipelined` says that there
  are functions over the positions of the stream which give the tracker's live
  set, observed and closed drops after each event in flight, start at its present
  state and end at the truth, up to the losses. A step of the OS extends them by
  one event, a step of the tracker drops their first element. While the image is
  not expected yet, a namesake in the stream enters or not depending on when the
  expectation comes: there are such functions from every position of the stream
  on then, and `Quiet` says that there is nothing to follow so far. `OneStart`
  says that the one start of the target is to come, in flight or behind, with the
  tree `R` that grows from it position by position (`Grows`), inside the scope
  from the moment the start is read; before it the scope is empty unless a
  namesake was early. `NoFalseDeath` follows since an `R` that has died out stays
  so. `LaunchInv` puts the expectation before anything that can start the image.

Queue and drops (`FilesProofs`):

* `CollectorCountsLosses` (`LossesCounted`), from `QueueInvariant`. `LossInv` adds
  that a job is in one place and that no handler has taken a late one: without
  that the jobs queued at the count could not be told from those that came after.
* `NamedCopiesWhole` (`NamedIsWhole`). `NamesInv` adds `PartIsRead`: between open
  and rename the part file is what was read, within the cap, and synced before
  it is named; and that every final name is synced, without which a power loss
  would break it.
* `BudgetOnCopies` (`SpentOnCopies`). `BudgetInv` adds that the gate that was
  passed is still open at every later step of `collect_drop`.

Kernel and host (`AgentHostProofs`):

* `KernelLifecycle` and `HostLeavesNothingStarted` (`NothingStartedIsLeft`), of
  the kernel called in any way and of the hosts that drive it. `LifecycleInv`
  says for each phase which hooks have been called up to the position, and that
  the stops so far are above it.
* `ReportsLeave` (`FinalReportsLeave`). `ReportsInv`: which finalizer can run at
  which step of the body (`Phases`, `StopTaken`, `Finalizing`), which envelopes
  can still be in a publisher's hand (`Hands`), and after the flush none is
  queued (`Flushed`).

IPC (`IpcSessionProofs`):

* `IpcEvidence` (`EvidenceTrue`). `IpcInv`: a serve task owns its pipe (`Owned`),
  HELLO is the first frame of a connection and only images that the sink let
  through follow (`Greeted`), and a WELCOME is behind `user_actor.started` while
  `user_actor.stopped` comes before the connection is let go (`Told`).

User actor (`UserActorProofs`):

* `UploadsAreOwn` (`UploadedIsOwn`) and the action property `SavedNotReplaced`
  (`SavedKept`). `ShotInv`: there is one focus source, and the number it holds is
  the last one counted, so that giving a slot back is safe (`FlowInv`); no frame
  is in two of sink, pipe, queue, worker and files (`Single`); every frame of the
  running process has a number below the next one (`Fresh`). `BootStep` is the next
  boot, which keeps the files and forgets everything else.

Score (`TelemetryProofs`):

* `ScoreIsExact` (`ScoreExact`) and the action property `ReportedScore`
  (`FinalScore`), from `TelemetryInvariant`. `ScoreExact` compares one number with
  a definition over the whole history, so it says nothing of what the detector
  still has to know. `Remembers` does: per pid the counts, the chains fired and
  the run key are those of the one process that called and has not exited, and
  there is nothing on other pids. That is preserved only because calls and exits
  of a pid stand on the bus one process after the other (`InTurn`): without it
  the exit of an earlier process could come after a call of the next and forget
  it. `RaisesKnown` bounds the raises on the bus by scoring's maximum, and those
  the manager has passed, but for the ones a lag took (`missed`), by the manager's.

Driver records (`DriverProofs`, first part):

* `RecordsCounted` (`NoSilentLoss`) and `RecordsAttributed` (`AttributionTrue`),
  from `RecordsInvariant`. The count needs `OnePlace`: a record is in one
  callback, one queue or the batch, and nowhere twice, so that a push, an
  eviction and a pop each move one. The name of a stop event needs the order of
  things to come: `Ordered`, that the control records of one process leave in the
  order of their numbers although the three queues are read under separate locks;
  `Known` and `Holders`, that a later holder of a pid has a later creation; and
  `Names`, that for each stop under way, and for the next one of every process,
  the start that will put its name into the cache is still ahead of it, or is
  there already and no other start comes between, or was lost.

Sensor ring (`DriverProofs`, second part, of `RingSpec`, the half of `MCDriverShared`'s
specification that has a ring):

* `RingInvariant`, and from it `RingIsExact` (`RingExact`) and `InjectedAtMostOnce`
  (`InjectedOnce`), for rings of any number of slots, any number of threads,
  processes and addresses, and any cap of a drain.
* Injection: `ClaimedOnce` says that an entry before its claim has neither attempt
  nor APC and that one attempt becomes at most one APC; `SensorPlaced`, that
  whatever the sensor does is done in a process that was injected.
* The ring: `RingSound`. A sequence is that of a call for which the slot was
  claimed; a slot that is not overrun was claimed at most once around the cursor
  (`OnceAround`), hence two claims above the cursor are not of one slot and a
  thread at work on a slot has not been passed (`ClaimsSound`); a finished slot
  ahead of the cursor has the words of one call (`OneCall`). The lemmas
  `RoundApart` and `SlotOfNext` are the arithmetic of `%` behind that, and each of
  `ClaimKeepsRing`, `StoredSound`, `CursorKeepsRing` and `SkipKeepsRing` is one way in
  which the ring or the cursor moves.
* The drain: `DrainSound` keeps what was seen of a slot true while it is not
  claimed again, `Accounted` the count: a call below the cursor has its record, or
  is in SensorEventsDropped or, for want of a record, in AllocFailures. `RingsPlaced` says that while a drain is
  under way the address it holds is either unmapped or still the ring of the
  process it was taken from. The proof shows what that rests on: the control
  device is exclusive, so no sensor can be given a new ring at that address before
  the drain has ended. Were the device opened shared, a record could name the
  wrong process and the cursor of one ring be written to another.

Only model-checked. Everything that rests on fairness (`FinalizeEndsInExit`,
`StudyEndsOrOverruns`, `DeathReported`, `MarkerLaunches`, `StopEnds`,
`StopHeard`, `DeathFinalizes`, `WalkEnds`, `ActorExits`, `SquattersEvicted`,
`ActorAnswered`, `StopEndsAll`), which this prover does not cover. And
`DamageIsLocal` and `ControlAgrees`, which are about what the codecs and their
folds compute for an input: that takes induction over data.

## 6. Where code and words differ

Three with a run whose counterexample shows it (details in `PROJECT.json`):

1. With the driver as event source the marker never launches the target
   (`v_driver_never_launches`).
2. A pipe client that sends and does not read keeps its serve task and its
   permit beyond `HANDSHAKE_TIMEOUT`: the ERROR writes at `ipc_server.rs:444` and
   `:500` have no deadline, unlike the refusal between them
   (`v_squatter_stays`). Nor does such a task end on `stop()`, although
   `ipc_server.rs:316` says "Served tasks end on cancel (every read selects on the
   token)": a write does not.
3. The ring drain reads addresses that the exit of a process may unmap
   meanwhile (`v_ring_unmapped`).

The others follow from the models, as exceptions in the properties that hold,
or from reading the code.

Study and host:

* A `ServiceStop` that arrives while the deadline branch finalizes returns from
  `accept` at once (`session_manager.rs:266`), the host breaks, and
  `scheduler.stop()` drops that finalize; `tests/finalize_completion.rs:1` says
  "`run_until_stop` must wait for the finalize to FULLY complete".
  `OnlySchedulerFinalizeIsLost` and `FinalReportsLeave` show that this is the
  only way to lose one.
* A periodic save that began before the finalize may be renamed over the
  finalized state, and the next boot stamps the session abandoned;
  `session_manager.rs:188` says that an open session "can only be an
  unclean-reboot leftover". `CleanEndIsDurable` shows that it takes overlapping
  saves.
* A power loss in the last planned session leads to a session beyond the table,
  without a deadline: the third outcome of `StudyEndsOrOverruns`.
* A boot that crashes before its first save gives its id to the next one
  (`IdsUniqueOncePersisted`). A failed `start` leaves the later plugins
  initialized and not stopped (`NothingStartedIsLeft` speaks of started ones).
* The event source and the IPC tasks outlive the kernel's shutdown and the final
  flush; a sequence number is drawn before the publish that may fail, so a gap
  is not always a loss on the wire.
* A service body that fails before it runs never reports Stopped. `service_mode`
  ignores the arguments it is given.
* `study.score` "(session maximum)" misses a raise that reaches the bus after the
  death, and on a deadline or a stop also one that stands on the bus unread:
  `publish_finalize_reports` reads the maximum without draining its subscription
  (`session_manager.rs:426`). `FinalScore` speaks of the raises the manager has
  gone past.
* No plugin of the agent answers Stop or Abort, so those branches of the kernel's
  pipeline are modelled and not exercised.

Scope and launch:

* `scope.rs:161` admits whatever bears an expected image name, not only the
  process that was launched: a namesake enters the scope with its descendants
  and its drops are reported. One that comes and goes before the target starts
  publishes `ScopeDied`, on which autoshutdown ends the session with the target
  still to come, and one that lives on keeps the scope alive after the tree is
  gone. `scope_tracker.rs:1` calls it "process-tree membership". `NoFalseDeath` excepts the
  early namesake, `DropsExact` and `DeathReported` any, and `ScopeIsTree` names
  them.
* After a lost stop, an unrelated process that takes the pid over is a scope
  member (`scope.rs:162` returns before the retain); `scope.rs:204` says that a
  recycled pid must not inherit the scope. `ScopeIsTree` excepts lost stops.
* A `/Run` of the scheduled task that timed out may have fired, although the
  launch is reported failed; a definition left behind fires on the next event 777
  and starts the target again after `ScopeDied` (the exceptions of
  `NoFalseDeath` and `DeathReported`).
* `domain/command_line.rs` does not reset its count of backslashes at a blank, so
  `a\ b` splits into `a\` and `\b`, unlike `CommandLineToArgvW`.
* Submits after the worker has counted its leftovers are in no counter, although
  `worker.rs:46` says of a refused job "was dropped and counted"; `LossesCounted`
  shows that these are the only ones.
* The ETW parser takes the pid of a process start from the record's header; the
  model takes it to be the process the record is about.

IPC and user actor:

* The pipe's DACL is computed once, when the server is attached: before a logon
  it leaves the console user out, and an actor started later fails at once
  (the outcome `failed` of `ActorAnswered`). The SYSTEM exception of the pid gate can only
  matter when the gate is armed, which the scheduled-task path never does.
* A connection accepted and dropped fails `send_hello`, which ends `run()`
  instead of the reconnect its module doc describes.
* "The pump is best-effort on shutdown; the process exits anyway": it does not
  when `WM_QUIT` was never posted (`ActorExits`), since the runtime waits for the
  hook thread. When hooking fails `PUMP_SINK` stays set.
* The watcher subscribes after the transport may have delivered the first
  configuration, and then starts no focus source until the next one.
* The supervisor launches the actor once per boot. Screenshot names repeat on a
  later boot with the same session number (`SavedKept` is about one process); a staging file is not flushed before its upload and stays behind when
  its write fails.

Driver and sensor:

* `EPOCH_DIFF_100NS` (`driver_event_source.rs:354`) is 100 times the distance of
  the epochs, so `filetime_to_unix_ms` yields 0 and every record gets the time at
  which the first was drained.
* "ordered by the global sequence": the heads of the three queues are read under
  separate locks, and numbers are drawn before the push.
* "Track identity regardless of queue pressure": without memory for the record
  the identity is not tracked. A drop record that is refused is not freed. The
  agent's name cache keeps the names of processes that exited. Unload tears
  injection and protection down before the callbacks that use them are removed.
* GET_STATS does not fill in `ProtectionsStripped` and `ProtectionTrusted`. An
  empty name ends the list of protected names early, while in the list of drop
  extensions it is refused; an empty drop directory does not disarm an earlier
  policy ("disabled when the dir is empty").
* The drain passes the first word of a slot as thread id and the second as API
  (`Injection.cpp:908`); `secoutfallCommon.h` declares them the other way round.
* The control device is exclusive: the agent's handle for statistics keeps its own
  event source and the sensors' handshakes out.
* The first image loaded is taken for ntdll, and it is mostly the executable. A
  late step of an injection attempt may change the entry of the next holder of
  the pid (the exception of `InjectedOnce`). A slot overrun while it is read mixes
  two calls, although "slot sequences make torn/garbage reads detectable" (the
  exception of `RingExact`). A cursor is written back to whichever ring has the
  address; only the exclusive device keeps that from being another process's.
  A slot without memory for its record counts as drained and shows only in
  AllocFailures (`secoutfall.cpp:231`, `Injection.cpp:915`).
  What is not drained when a process exits is in no counter, and the sensor's own
  `dropped` counts drained slots and is read by nobody.
* When the agent drops the remainder of a batch, its `skipped` grows by one, however
  many records that was (`driver_event_source.rs:444`); `NoSilentLoss` counts them
  all as seen.
* "The driver answers the challenge exactly once per pid": it answers until the
  sensor has registered.

With overlapping saves a partial `scope.json` is possible: a periodic save dropped
between its create and its write leaves an empty temp file to a finalize that is
about to rename. `SavedIsDurable` and `LeftoverHarmless` except overlaps.

## 7. Not modelled, and the plan

Left out inside the modelled parts: the payloads of reports, the value of the
fake clock, keepalives and statistics ticks, the bytes inside an IPC frame, the file
names inside the ETW parser, what an activity of the user actor types, the
protection callbacks and the unload of the driver, installing the service, a stop
channel that closes without a message (every host keeps its sender until it has
delivered `ServiceStop`). Lag of the bus is in `Telemetry` only; the tracker's own
subscription (4096 events, drained at every source event) is taken not to lag.

Not modelled by nature: the protocol crate's schemas and serde derives
(`payload.rs`, `events.rs`), field
by field validation of the configuration, the in-memory and local stores, the
killer and the clock (single OS calls), development tools and fuzz targets.

The plan of modules and proofs is carried out. What could follow: liveness in a
prover that covers fairness, and the codecs of `DriverWire` in one that has
induction over sequences.
