-------------------------- MODULE SessionLifecycle --------------------------
(***************************************************************************)
(* One study over many boots of the agent: the session manager             *)
(* (plugins/session_manager.rs), the host loop (app/runtime.rs), the       *)
(* scheduler (adapters/driving/scheduler.rs) and the scope store they all  *)
(* write (module ScopeStore).                                              *)
(*                                                                         *)
(* Three tasks run concurrently in the agent:                              *)
(*  - the host, in run_until_stop;                                         *)
(*  - the scheduler, one task whose persist and deadline branches          *)
(*    interleave at await points and are dropped together;                 *)
(*  - the session manager's bus consumer.                                  *)
(* Any of them may run finalize_session; the `finalized` swap picks one.   *)
(*                                                                         *)
(* Abstractions.  A session record is whether it ended and whether it was  *)
(* stamped abandoned; its id is its position.  A study id is the boot that *)
(* drew it (0 = nil).  Of the wire events only the request for a reboot or *)
(* a shutdown is kept; the other publishes are logged when they fail and   *)
(* change nothing.  Keepalives and statistics ticks touch none of this     *)
(* state.  Durations are left out: a timer may fire whenever its task      *)
(* runs.  init always opens a session, so the "no open session" exits of   *)
(* finalize_session are unreachable (Typed in SessionLifecycleProofs) and  *)
(* have no action.                                                         *)
(***************************************************************************)
EXTENDS Integers, Sequences

CONSTANTS
  Planned,       \* length of the uptimes table; 0 for a dynamic study
  Autoshutdown,  \* finalize when the scope dies
  SkipRequest,   \* debug gate skip_reboot_and_shutdown
  Stops,         \* SCM or Ctrl+C may deliver ServiceStop
  BrokerLoss,    \* the publish of the request may fail
  OpenBusy, IoErrors, NoFile,   \* as in ScopeStore
  MaxBoots,      \* bound: boots of the agent
  MaxCrashes     \* bound: power losses and hard resets

ASSUME LifecycleAssumption ==
  /\ Planned \in Nat
  /\ MaxBoots \in Nat
  /\ MaxCrashes \in Nat
  /\ {Autoshutdown, SkipRequest, Stops, BrokerLoss, OpenBusy, IoErrors} \subseteq BOOLEAN

Session == [ended : BOOLEAN, abandoned : BOOLEAN]
ScopeState == [study : Nat, sessions : Seq(Session)]
EmptyScope == [study |-> 0, sessions |-> <<>>]

Saver == {"persist", "finalize"}

VARIABLES
  \* the scope store (module ScopeStore)
  file, temp, spc, snap, overlap, last,
  \* the VM
  phase,      \* "off", "up", "exited", "failed" (boot error), "over" (shut down)
  crashes,
  asked,      \* the request of this boot that reached the broker
  \* the agent process
  mem,        \* the shared ScopeState
  fby,        \* who won the `finalized` swap
  fpc,        \* where finalize_session is
  done,       \* finalize_done
  host, sched, tick, cons,
  \* history
  started,    \* session.started of each boot: its study and session id
  persisted,  \* the boots whose scope a save installed
  clean       \* the sessions announced as ended after a save that returned Ok

store == <<file, temp, spc, snap, overlap, last>>
vm == <<phase, crashes, asked>>
finalize == <<fby, fpc, done>>
tasks == <<host, sched, tick, cons>>
agent == <<mem, finalize, tasks>>
history == <<started, persisted, clean>>
vars == <<store, vm, agent, history>>

Store == INSTANCE ScopeStore
  WITH Savers <- Saver, Value <- ScopeState, Empty <- EmptyScope,
       NoOwner <- "nobody", Droppable <- Saver

ASSUME NoFileAssumption == NoFile \notin Store!Inode
-----------------------------------------------------------------------------
(* Boot                                                                    *)

\* open_session_if_needed: a leftover open session is stamped abandoned ...
CloseAbandoned(ss) ==
  IF ss # <<>> /\ ~ss[Len(ss)].ended
  THEN [ss EXCEPT ![Len(ss)] = [ended |-> TRUE, abandoned |-> TRUE]]
  ELSE ss

\* Faulty variant: a leftover is continued.
ReopenSession(ss) ==
  IF ss # <<>> /\ ~ss[Len(ss)].ended THEN ss
  ELSE Append(ss, [ended |-> FALSE, abandoned |-> FALSE])

\* ... and a fresh record is always pushed.
OpenSession(ss) == Append(CloseAbandoned(ss), [ended |-> FALSE, abandoned |-> FALSE])

\* Faulty variant: every boot draws a study id.
FreshStudyId(s) == Len(started) + 1

\* load_scope_state: a nil study id is replaced by a fresh one.
StudyId(s) == IF s.study = 0 THEN Len(started) + 1 ELSE s.study

Init ==
  /\ Store!Init
  /\ phase = "off" /\ crashes = 0 /\ asked = "none"
  /\ mem = EmptyScope
  /\ fby = "none" /\ fpc = "none" /\ done = FALSE
  /\ host = "gone" /\ sched = "gone" /\ tick = "wait" /\ cons = "gone"
  /\ started = <<>> /\ persisted = {} /\ clean = {}

\* RunningSession::start: load, init (open the session), start (publish
\* session.started, spawn the consumer), spawn the scheduler.
Boot ==
  /\ phase = "off"
  /\ Len(started) < MaxBoots
  /\ Store!Loadable(file)
  /\ LET old == Store!Contents(file) IN
       /\ mem' = [study |-> StudyId(old), sessions |-> OpenSession(old.sessions)]
       /\ started' = Append(started, [study |-> StudyId(old), id |-> Len(old.sessions)])
  /\ phase' = "up" /\ asked' = "none"
  /\ fby' = "none" /\ fpc' = "none" /\ done' = FALSE
  /\ host' = "loop" /\ sched' = "run" /\ tick' = "wait" /\ cons' = "recv"
  /\ UNCHANGED <<store, crashes, persisted, clean>>

\* A scope.json that does not parse makes load, and the agent, fail.
BootFails ==
  /\ phase = "off"
  /\ ~Store!Loadable(file)
  /\ phase' = "failed"
  /\ UNCHANGED <<store, crashes, asked, agent, history>>
-----------------------------------------------------------------------------
(* finalize_session, run by the task that won the swap                     *)

\* Faulty variant: load and store in place of the swap.
ClaimUnchecked(task) == fby' = task /\ fpc' = "stamp"

\* if finalized.swap(true) { return }.
Claim(task) ==
  /\ fby = "none"
  /\ fby' = task
  /\ fpc' = "stamp"

\* Faulty variant: the wrong record.
EndFirst(ss) == [ss EXCEPT ![1] = [ended |-> TRUE, abandoned |-> ss[1].abandoned]]

\* session.ended_at_ms = now, under the lock.
EndLast(ss) == [ss EXCEPT ![Len(ss)] = [ended |-> TRUE, abandoned |-> ss[Len(ss)].abandoned]]

FinalizeStamp ==
  /\ phase = "up" /\ fpc = "stamp"
  /\ mem' = [mem EXCEPT !.sessions = EndLast(mem.sessions)]
  /\ fpc' = "reports"
  /\ UNCHANGED <<store, vm, fby, done, tasks, history>>

\* session.finalizing, study.score and study.drops_summary, the clock offset,
\* the process sweep: awaits that may fail and change nothing kept here.
FinalizeReportsClockKills ==
  /\ phase = "up" /\ fpc = "reports"
  /\ fpc' = "snapshot"
  /\ UNCHANGED <<store, vm, mem, fby, done, tasks, history>>

FinalizeBeginSave ==
  /\ phase = "up" /\ fpc = "snapshot"
  /\ Store!BeginSave("finalize", mem)
  /\ fpc' = "saving"
  /\ UNCHANGED <<vm, mem, fby, done, tasks, history>>

\* A step of either save; a rename that succeeds makes this boot durable.
SaveStep(w) ==
  /\ phase = "up"
  /\ Store!Step(w)
  /\ persisted' = IF spc'[w] = "ok" THEN persisted \cup {Len(started)} ELSE persisted
  /\ UNCHANGED <<vm, agent, started, clean>>

\* Faulty variant: an id off by one.
PublishEndedOffByOne ==
  /\ phase = "up" /\ fpc = "saving" /\ ~Store!Busy("finalize")
  /\ fpc' = "request"
  /\ clean' = clean \cup {[study |-> mem.study, id |-> Len(mem.sessions) - 2]}
  /\ UNCHANGED <<store, vm, mem, fby, done, tasks, started, persisted>>

\* The save has returned, Ok or not ("continue"): session.ended.
FinalizePublishEnded ==
  /\ phase = "up" /\ fpc = "saving" /\ ~Store!Busy("finalize")
  /\ fpc' = "request"
  /\ clean' = IF spc["finalize"] = "ok"
              THEN clean \cup {[study |-> mem.study, id |-> Len(mem.sessions) - 1]} ELSE clean
  /\ UNCHANGED <<store, vm, mem, fby, done, tasks, started, persisted>>

\* Faulty variant: one session too early.
ExhaustedEarly == Planned = 0 \/ Len(mem.sessions) + 1 >= Planned

\* request_reboot_or_shutdown, after its delay.
Exhausted == Planned = 0 \/ Len(mem.sessions) >= Planned

FinalizeRequest ==
  /\ phase = "up" /\ fpc = "request"
  /\ \/ ~SkipRequest /\ asked' = (IF Exhausted THEN "shutdown" ELSE "reboot")
     \/ (SkipRequest \/ BrokerLoss) /\ asked' = asked
  /\ fpc' = "flag"
  /\ UNCHANGED <<store, phase, crashes, mem, fby, done, tasks, history>>

\* Faulty variant: the flag is not raised.
FinalizeSilent ==
  /\ phase = "up" /\ fpc = "flag"
  /\ fpc' = "done"
  /\ UNCHANGED <<store, vm, mem, fby, done, tasks, history>>

\* LAST: finalize_done.
FinalizeDone ==
  /\ phase = "up" /\ fpc = "flag"
  /\ done' = TRUE
  /\ fpc' = "done"
  /\ UNCHANGED <<store, vm, mem, fby, tasks, history>>

FinalizeStep ==
  \/ FinalizeStamp \/ FinalizeReportsClockKills
  \/ FinalizeBeginSave \/ FinalizePublishEnded \/ FinalizeRequest \/ FinalizeDone
-----------------------------------------------------------------------------
(* The scheduler task: one task polls all branches, so none of its other   *)
(* branches moves while the tick is between its two steps ("checked").     *)

\* scheduler.stop() has been called by the host.
Cancelled == host \in {"shutdown", "join", "flush"}

\* Faulty variant: the last entry of the table is missed.
HasDeadlineShort == Len(mem.sessions) < Planned

\* The current session has an entry in the uptimes table.
HasDeadline == Len(mem.sessions) <= Planned

\* run() returns or is cancelled: every branch's future is dropped, the
\* periodic save and a finalize that this task was running included.
SchedulerEnds ==
  /\ sched' = "gone"
  /\ tick' = "wait"
  /\ LET mine == fby = "sched" /\ fpc # "done" IN
       /\ fpc' = IF mine THEN "dropped" ELSE fpc
       /\ Store!Dropped(IF mine THEN Saver ELSE {"persist"})

\* PersistTick reaches the session manager's `pre`: the flag is read ...
PersistTick ==
  /\ phase = "up" /\ sched = "run" /\ ~Cancelled
  /\ tick = "wait" /\ ~Store!Busy("persist")
  /\ fby = "none"
  /\ tick' = "checked"
  /\ UNCHANGED <<store, vm, mem, finalize, host, sched, cons, history>>

\* ... and then the state is cloned and handed to save.
PersistSnapshot ==
  /\ phase = "up" /\ sched = "run" /\ tick = "checked"
  /\ Store!BeginSave("persist", mem)
  /\ tick' = "wait"
  /\ UNCHANGED <<vm, mem, finalize, host, sched, cons, history>>

\* SessionDeadline: finalize here, or return at once when another task is at it.
DeadlineFires ==
  /\ phase = "up" /\ sched = "run" /\ HasDeadline /\ ~Cancelled
  /\ fby # "sched" /\ tick = "wait"
  /\ \/ Claim("sched") /\ UNCHANGED <<store, sched, tick>>
     \/ fby # "none" /\ SchedulerEnds /\ UNCHANGED fby
  /\ UNCHANGED <<vm, mem, done, host, cons, history>>

\* The finalize of the deadline branch has returned, so deadline_task and run do.
DeadlineReturns ==
  /\ phase = "up" /\ sched = "run" /\ fby = "sched" /\ fpc = "done"
  /\ SchedulerEnds
  /\ UNCHANGED <<vm, mem, fby, done, host, cons, history>>

\* The task sees the cancelled token some time after scheduler.stop().
SchedulerCancelled ==
  /\ phase = "up" /\ sched = "run" /\ Cancelled /\ tick = "wait"
  /\ SchedulerEnds
  /\ UNCHANGED <<vm, mem, fby, done, host, cons, history>>
-----------------------------------------------------------------------------
(* The session manager's bus consumer                                      *)

\* ScopeDied under autoshutdown: finalize, then leave the loop.
ConsumerScopeDied ==
  /\ phase = "up" /\ cons = "recv" /\ Autoshutdown /\ host # "join"
  /\ \/ Claim("cons") /\ cons' = "finalize"
     \/ fby # "none" /\ cons' = "gone" /\ UNCHANGED <<fby, fpc>>
  /\ UNCHANGED <<store, vm, mem, done, host, sched, tick, history>>

ConsumerReturns ==
  /\ phase = "up" /\ cons = "finalize" /\ fpc = "done"
  /\ cons' = "gone"
  /\ UNCHANGED <<store, vm, mem, finalize, host, sched, tick, history>>

\* stop() has cancelled the token: a consumer waiting for an event leaves.
ConsumerCancelled ==
  /\ phase = "up" /\ cons = "recv" /\ host = "join"
  /\ cons' = "gone"
  /\ UNCHANGED <<store, vm, mem, finalize, host, sched, tick, history>>
-----------------------------------------------------------------------------
(* The host: run_until_stop                                                *)

\* ServiceStop from the stop channel: accept() runs the finalize to its end,
\* or returns at once when it is already claimed; then break, scheduler.stop().
HostServiceStop ==
  /\ phase = "up" /\ host = "loop" /\ Stops
  /\ \/ Claim("host") /\ host' = "accept"
     \/ fby # "none" /\ host' = "shutdown" /\ UNCHANGED <<fby, fpc>>
  /\ UNCHANGED <<store, vm, mem, done, sched, tick, cons, history>>

HostFinalizeReturns ==
  /\ phase = "up" /\ host = "accept" /\ fpc = "done"
  /\ host' = "shutdown"
  /\ UNCHANGED <<store, vm, mem, finalize, sched, tick, cons, history>>

\* The 250 ms poll sees finalize_done: break, scheduler.stop().
HostPoll ==
  /\ phase = "up" /\ host = "loop" /\ done
  /\ host' = "shutdown"
  /\ UNCHANGED <<store, vm, mem, finalize, sched, tick, cons, history>>

\* kernel.shutdown() reaches SessionManagerPlugin::stop: cancel the consumer ...
HostShutdown ==
  /\ phase = "up" /\ host = "shutdown"
  /\ host' = "join"
  /\ UNCHANGED <<store, vm, mem, finalize, sched, tick, cons, history>>

\* Faulty variant: the consumer is not awaited.
HostDetaches ==
  /\ phase = "up" /\ host = "join"
  /\ host' = "flush"
  /\ UNCHANGED <<store, vm, mem, finalize, sched, tick, cons, history>>

\* ... and await it.
HostJoin ==
  /\ phase = "up" /\ host = "join" /\ cons = "gone"
  /\ host' = "flush"
  /\ UNCHANGED <<store, vm, mem, finalize, sched, tick, cons, history>>

\* After the flush the process exits and takes what is left of its tasks along.
HostExit ==
  /\ phase = "up" /\ host = "flush"
  /\ phase' = "exited" /\ host' = "gone" /\ sched' = "gone" /\ tick' = "wait"
  /\ Store!Crash
  /\ UNCHANGED <<crashes, asked, mem, finalize, cons, history>>
-----------------------------------------------------------------------------
(* The VM and the Controller (external)                                    *)

PowerDown(next) ==
  /\ phase' = next
  /\ host' = "gone" /\ sched' = "gone" /\ tick' = "wait" /\ cons' = "gone"
  /\ Store!Crash
  /\ UNCHANGED <<asked, mem, finalize, history>>

\* Power loss or hard reset at any moment.
PowerLoss ==
  /\ phase \in {"up", "exited"} /\ crashes < MaxCrashes
  /\ crashes' = crashes + 1
  /\ PowerDown("off")

\* The Controller bounces the VM once it has seen the request, be the agent
\* through with its shutdown or not.
ControllerReboots ==
  /\ phase \in {"up", "exited"} /\ asked = "reboot"
  /\ PowerDown("off") /\ UNCHANGED crashes

ControllerShutsDown ==
  /\ phase \in {"up", "exited"} /\ asked = "shutdown"
  /\ PowerDown("over") /\ UNCHANGED crashes
-----------------------------------------------------------------------------
Scheduler == PersistTick \/ PersistSnapshot \/ DeadlineFires \/ DeadlineReturns \/ SchedulerCancelled
Consumer == ConsumerScopeDied \/ ConsumerReturns \/ ConsumerCancelled
Host == HostServiceStop \/ HostFinalizeReturns \/ HostPoll \/ HostShutdown \/ HostJoin \/ HostExit
Vm == Boot \/ BootFails \/ PowerLoss \/ ControllerReboots \/ ControllerShutsDown

Next ==
  \/ FinalizeStep
  \/ \E w \in Saver : SaveStep(w)
  \/ Scheduler
  \/ Consumer
  \/ Host
  \/ Vm

Spec == Init /\ [][Next]_vars

\* The agent's tasks keep running while the process lives and the I/O they
\* await returns; an armed deadline fires, however often the tick is in the
\* way (each poll of the task polls that branch too); the Controller acts on a request
\* and a VM that is off boots.  Stops, scope deaths, periodic ticks and power
\* losses are not promised.
Fairness ==
  /\ WF_vars(FinalizeStep)
  /\ \A w \in Saver : WF_vars(SaveStep(w))
  /\ WF_vars(PersistSnapshot)
  /\ SF_vars(DeadlineFires) /\ WF_vars(DeadlineReturns) /\ WF_vars(SchedulerCancelled)
  /\ WF_vars(ConsumerReturns) /\ WF_vars(ConsumerCancelled)
  /\ WF_vars(HostFinalizeReturns) /\ WF_vars(HostPoll)
  /\ WF_vars(HostShutdown) /\ WF_vars(HostJoin) /\ WF_vars(HostExit)
  /\ WF_vars(Boot) /\ WF_vars(ControllerReboots) /\ WF_vars(ControllerShutsDown)

FairSpec == Spec /\ Fairness
-----------------------------------------------------------------------------
(* Properties                                                              *)

HostPc == {"loop", "accept", "shutdown", "join", "flush", "gone"}
FinalizePc == {"none", "stamp", "reports", "snapshot", "saving",
               "request", "flag", "done", "dropped"}
SessionKey == [study : Nat, id : Nat]

TypeOK ==
  /\ Store!TypeOK
  /\ phase \in {"off", "up", "exited", "failed", "over"}
  /\ crashes \in Nat
  /\ asked \in {"none", "reboot", "shutdown"}
  /\ mem \in ScopeState
  /\ fby \in {"none", "host", "sched", "cons"}
  /\ fpc \in FinalizePc
  /\ done \in BOOLEAN
  /\ host \in HostPc
  /\ sched \in {"run", "gone"}
  /\ tick \in {"wait", "checked"}
  /\ cons \in {"recv", "finalize", "gone"}
  /\ started \in Seq(SessionKey)
  /\ persisted \subseteq Nat
  /\ clean \subseteq SessionKey

\* All sessions but the last have ended, and only an ended one is abandoned.
WellFormed(s) ==
  /\ \A i \in 1 .. Len(s.sessions) - 1 : s.sessions[i].ended
  /\ \A i \in 1 .. Len(s.sessions) : s.sessions[i].abandoned => s.sessions[i].ended

\* Two boots of a study open the same session id only when the first of them
\* never got its scope saved (open_session_if_needed: ids one-per-boot).
IdsUniqueOncePersisted ==
  \A a, b \in 1 .. Len(started) : a < b /\ started[a] = started[b] => a \notin persisted

\* At most the last session of scope.json is open, whatever crashes and
\* overlapping saves came before, so the boot's look at the last record alone
\* finds every session an unclean reboot left open.  And unless two saves have
\* overlapped, a session that finalize announced as ended after a save that
\* returned Ok stays recorded as ended and is never stamped abandoned: the
\* bounce it asks for next cannot lose its end.
CleanEndIsDurable ==
  /\ WellFormed(mem) /\ WellFormed(Store!Contents(file))
  /\ ~overlap => \A k \in clean :
       LET s == Store!Contents(file) IN
       /\ s.study = k.study
       /\ k.id < Len(s.sessions)
       /\ s.sessions[k.id + 1] = [ended |-> TRUE, abandoned |-> FALSE]

\* The host leaves an unfinished finalize behind only when it is the
\* scheduler's: the one it ran itself and the consumer's are waited for.
OnlySchedulerFinalizeIsLost ==
  phase = "exited" /\ fby # "none" /\ ~done => fby = "sched" /\ Stops

\* A study keeps its id: once scope.json holds one, no later save or boot
\* changes it (scope.rs: "stable across the study's reboots").
StudyIdStable ==
  [][Store!Contents(file).study # 0 => Store!Contents(file)'.study = Store!Contents(file).study]_vars

\* The study as a ledger: the races and crashes of the detailed specification
\* never show in the counts.
Ledger == INSTANCE StudyLedger
  WITH count <- Len(mem.sessions),
       durable <- Len(Store!Contents(file).sessions),
       up <- phase = "up"

ImplementsLedger == Ledger!Spec

\* A finalize that has been claimed ends in the agent's exit: the host never
\* waits for a completion flag that nobody will set.
FinalizeEndsInExit == (phase = "up" /\ fby # "none") ~> (phase # "up")

\* Unless two saves overlap, a planned study comes to its end in spite of
\* power losses (every bounce it asks for leaves one more session recorded),
\* or to a session beyond the uptimes table, which has no deadline, or to an
\* exit whose request never reached the Controller (finalize or publish lost).
StudyEndsOrOverruns ==
  <>(\/ phase = "over" \/ overlap
     \/ phase = "up" /\ Len(mem.sessions) > Planned
     \/ phase = "exited" /\ asked = "none")

-----------------------------------------------------------------------------
(* The inductive invariant behind the properties of the study's history    *)

Recorded == Store!Contents(file)

\* A state of the running boot: its study and its sessions.
Fits(v) == v.study = mem.study /\ Len(v.sessions) = Len(mem.sessions)

\* Past its remove, a save only ever finds a temp file of this boot.
Making(w) == spc[w] \in {"create", "write", "rename"}

SavesFit ==
  IF phase = "up"
  THEN \A w \in Saver :
         /\ Store!Busy(w) => Fits(snap[w])
         /\ Making(w) => temp = NoFile \/ Fits(temp.val)
  ELSE \A w \in Saver : ~Store!Busy(w)

\* scope.json is this boot's or lacks exactly this boot's session.
RecordFits ==
  /\ Recorded = EmptyScope \/ Recorded.study > 0
  /\ phase = "up" =>
       /\ mem.study > 0
       /\ \/ Fits(Recorded)
          \/ /\ Len(Recorded.sessions) = Len(mem.sessions) - 1
             /\ Recorded = EmptyScope \/ Recorded.study = mem.study

StartedFits ==
  /\ phase = "up" =>
       /\ started # <<>>
       /\ started[Len(started)] = [study |-> mem.study, id |-> Len(mem.sessions) - 1]
  /\ \A a \in persisted :
       /\ a \in 1 .. Len(started)
       /\ started[a].study = Recorded.study
       /\ started[a].id < Len(Recorded.sessions)

AskedLate ==
  /\ fby = "none" => fpc = "none"
  /\ phase = "up" /\ fpc \notin {"flag", "done", "dropped"} => asked = "none"

\* However the tasks, the saves and the power losses interleave: scope.json is
\* the running boot's or the one it loaded, every session ever persisted is
\* still in it, no stale temp file can be renamed over it, and a boot asks the
\* Controller at most once.
StudyInv == SavesFit /\ RecordFits /\ StartedFits /\ AskedLate
=============================================================================
