---------------------------- MODULE ScopeTracking ----------------------------
(***************************************************************************)
(* The analysis scope of one boot: the target launcher                     *)
(* (plugins/target_launcher.rs), the scope tracker (domain/scope.rs,       *)
(* plugins/scope_tracker.rs) and the event source between the operating    *)
(* system and the pipeline.                                                *)
(*                                                                         *)
(* The operating system is external: processes start, write, close and     *)
(* exit, pids are recycled, and from the attachment of the source on each  *)
(* act is reported by one event of an ordered stream that may lose events  *)
(* (the bounded channel behind the ETW callback, the driver's queues).     *)
(* The pipeline handles one source event at a time; the launch runs beside *)
(* it, on the launcher's job queue, through a user's token or a scheduled  *)
(* task.                                                                   *)
(*                                                                         *)
(* Abstractions.  Of an image name it only matters whether it is the       *)
(* marker, the image the launcher starts, or another; the boot is one that *)
(* seeds the scope (session 0 or every_session).  A pid has at most one    *)
(* record in scoped_processes, since an entry removes the previous one,    *)
(* so the list is a function.  The bus (4096 events) is taken not to lag   *)
(* between two events of the pipeline.  An ETW record names the process it *)
(* is about, as the parser takes its header to do.                         *)
(***************************************************************************)
EXTENDS Naturals, Sequences

CONSTANTS
  Pid,
  NoPid,        \* the parent is not reported or none of Pid
  Path,
  Matches,      \* the paths the drop filter accepts
  Interpreter,  \* the target is no .exe: another image runs it
  Mechanism,    \* the launch mechanisms the configuration may name
  Dated,        \* the source is the driver: events come as SourceDated
  Lossy,        \* the kinds of events the source may lose
  MaxStream     \* bound: events in flight

ASSUME TrackingAssumption ==
  /\ NoPid \notin Pid
  /\ Matches \subseteq Path
  /\ {Interpreter, Dated} \subseteq BOOLEAN
  /\ Mechanism \subseteq {"Token", "SchedTask"}
  /\ Lossy \subseteq {"started", "stopped"}
  /\ MaxStream \in Nat

VARIABLES
  \* the operating system
  os,         \* who holds a pid: nobody ("free"), a process of the target's tree
              \* ("in"), a namesake of the image the launcher starts, or a descendant
              \* of one ("alias"), another ("out")
  written,    \* the drop paths a process of the tree has written ...
  released,   \* ... and that one has closed since
  trace,      \* the source is attached
  rundown,    \* running processes the attached trace has not reported yet
  stream,     \* events on their way to the pipeline
  \* the scope tracker
  expected,   \* the launched image is among the expected names
  pending,    \* ExtendScopeExpectation waits in the subscription
  recs,       \* scoped_processes of the session
  observed, closed,
  died,       \* ScopeDied has been published
  \* the target launcher
  attempted, launch,
  task,       \* the task scheduler: [def, fired] of SecOutfallLaunch
  \* history
  lost,       \* the kinds of events the source has lost so far
  namesake    \* a namesake has been reported: "none", first after ("late") or
              \* before ("early") the target was started

source == <<trace, rundown>>
world == <<os, written, released, lost, namesake>>
tracker == <<expected, recs, observed, closed, died>>
launcher == <<attempted, launch, task>>
vars == <<world, source, stream, tracker, pending, launcher>>

Name == {"marker", "target", "other"}
Started == [kind : {"started"}, pid : Pid, parent : Pid \cup {NoPid}, name : Name]
Stopped == [kind : {"stopped"}, pid : Pid]
FileEvent == [kind : {"written", "closed"}, pid : Pid, path : Path]
Event == Started \cup Stopped \cup FileEvent

\* scope-tracker start(): the target's own name is expected; an interpreter's is not.
Init ==
  /\ os = [p \in Pid |-> "free"] /\ written = {} /\ released = {}
  /\ trace = "off" /\ rundown = {} /\ stream = <<>>
  /\ lost = {} /\ namesake = "none"
  /\ expected = ~Interpreter /\ pending = FALSE
  /\ recs = [p \in Pid |-> "none"]
  /\ observed = {} /\ closed = {} /\ died = FALSE
  /\ attempted = FALSE /\ launch = "idle"
  /\ task = [def |-> "none", fired |-> FALSE]
-----------------------------------------------------------------------------
(* The event source, and the operating system (external)                   *)

\* One record of an attached trace: parsed in the callback and handed over, or
\* dropped and counted when the channel is full (bound: events of one kind are
\* dropped in a boot).
Emit(e) ==
  \/ Len(stream) < MaxStream /\ stream' = Append(stream, e) /\ UNCHANGED lost
  \/ e.kind \in Lossy /\ lost \subseteq {e.kind} /\ lost' = {e.kind} /\ UNCHANGED stream

\* What happens before the source is attached is not reported, and what
\* happens later is reported after the rundown.
Report(e) ==
  \/ trace = "on" /\ rundown = {} /\ Emit(e)
  \/ trace # "on" /\ UNCHANGED <<stream, lost>>

\* run: the trace is started, or it is not and the source ends.  The kernel
\* replays the processes that run; the driver does not.
Attach ==
  /\ trace = "off"
  /\ \/ trace' = "on" /\ rundown' = IF Dated THEN {} ELSE {p \in Pid : os[p] # "free"}
     \/ trace' = "failed" /\ UNCHANGED rundown
  /\ UNCHANGED <<world, stream, tracker, pending, launcher>>

\* The target is still to be started.
Armed ==
  \/ launch \in {"idle", "queued", "resolved", "Token", "SchedTask", "primary", "created"}
  \/ task.fired

\* History: p, of class c, is reported under the name n.
Noted(c, n) ==
  namesake' = IF c # "alias" \/ n # "target" \/ trace # "on" THEN namesake
              ELSE IF Armed THEN "early" ELSE IF namesake = "none" THEN "late" ELSE namesake

\* event_type: DCStart is ProcessStarted.
Replay(p) ==
  /\ p \in rundown /\ rundown' = rundown \ {p}
  /\ \E n \in IF os[p] = "alias" THEN Name ELSE Name \ {"target"} :
       /\ Emit([kind |-> "started", pid |-> p, parent |-> NoPid, name |-> n])
       /\ Noted(os[p], n)
  /\ UNCHANGED <<os, written, released, trace, tracker, pending, launcher>>

\* The class of a process of name n whose parent is q: any program may bear the
\* image's name, or start one that does.
ClassOf(q, n) ==
  IF q # NoPid /\ os[q] # "out" THEN os[q] ELSE IF n = "target" THEN "alias" ELSE "out"

\* p is created by q, or by a process outside the model when q is NoPid.
Spawn(p, q, n) ==
  /\ os[p] = "free"
  /\ q # NoPid => os[q] # "free"
  /\ os' = [os EXCEPT ![p] = ClassOf(q, n)]
  /\ Report([kind |-> "started", pid |-> p, parent |-> q, name |-> n])
  /\ Noted(ClassOf(q, n), n)
  /\ UNCHANGED <<written, released, source, tracker, pending, launcher>>

Exit(p) ==
  /\ os[p] # "free"
  /\ os' = [os EXCEPT ![p] = "free"]
  /\ Report([kind |-> "stopped", pid |-> p])
  /\ UNCHANGED <<written, released, namesake, source, tracker, pending, launcher>>

Write(p, f) ==
  /\ os[p] # "free"
  /\ Report([kind |-> "written", pid |-> p, path |-> f])
  /\ written' = IF os[p] = "in" /\ f \in Matches THEN written \cup {f} ELSE written
  /\ UNCHANGED <<os, released, namesake, source, tracker, pending, launcher>>

Close(p, f) ==
  /\ os[p] # "free"
  /\ Report([kind |-> "closed", pid |-> p, path |-> f])
  /\ released' = IF os[p] = "in" /\ f \in written THEN released \cup {f} ELSE released
  /\ UNCHANGED <<os, written, namesake, source, tracker, pending, launcher>>
-----------------------------------------------------------------------------
(* The scope tracker and the launcher on the pipeline                      *)

\* drain_expectations, at the top of every pre.
Drain == expected' = (expected \/ pending) /\ pending' = FALSE

\* Faulty variant: dead records match.
IsScopedEver(p) == p # NoPid /\ recs[p] # "none"

\* is_scoped: a live record of the current session.
IsScoped(p) == p # NoPid /\ recs[p] = "live"

\* process_entered: the image is expected or the parent is live in the scope;
\* a record of the pid is replaced.
ProcessEntered(e) ==
  /\ recs' = IF IsScoped(e.parent) \/ (e.name = "target" /\ expected')
             THEN [recs EXCEPT ![e.pid] = "live"] ELSE recs
  /\ UNCHANGED <<observed, closed, died>>

\* Faulty variant: one exit is enough.
ScopeDeadAny(r) == \E p \in Pid : r[p] = "ended"

\* scope_dead: some process was scoped and all have ended.
ScopeDead(r) ==
  /\ \E p \in Pid : r[p] # "none"
  /\ \A p \in Pid : r[p] # "live"

\* Faulty variant: scope_dead is asked before the exit is stamped.
ExitedLate(e) ==
  /\ recs' = IF IsScoped(e.pid) THEN [recs EXCEPT ![e.pid] = "ended"] ELSE recs
  /\ died' = (died \/ (IsScoped(e.pid) /\ ScopeDead(recs)))
  /\ UNCHANGED <<observed, closed>>

\* process_exited, then scope_dead and ScopeDied.
ProcessExited(e) ==
  /\ recs' = IF IsScoped(e.pid) THEN [recs EXCEPT ![e.pid] = "ended"] ELSE recs
  /\ died' = (died \/ (IsScoped(e.pid) /\ ScopeDead(recs')))
  /\ UNCHANGED <<observed, closed>>

\* drop_observed: a live member writes a path the filter accepts.
DropObserved(e) ==
  /\ observed' = IF IsScoped(e.pid) /\ e.path \in Matches THEN observed \cup {e.path} ELSE observed
  /\ UNCHANGED <<recs, closed, died>>

\* Faulty variant: any process may close a drop.
ClosedByAnyone(e) ==
  /\ closed' = IF e.path \in observed THEN closed \cup {e.path} ELSE closed
  /\ UNCHANGED <<recs, observed, died>>

\* drop_closed: a live member closes an observed path.
DropClosed(e) ==
  /\ closed' = IF IsScoped(e.pid) /\ e.path \in observed THEN closed \cup {e.path} ELSE closed
  /\ UNCHANGED <<recs, observed, died>>

HandleSource(e) ==
  \/ e.kind = "started" /\ ProcessEntered(e)
  \/ e.kind = "stopped" /\ ProcessExited(e)
  \/ e.kind = "written" /\ DropObserved(e)
  \/ e.kind = "closed" /\ DropClosed(e)

\* Faulty variant: the flag is set and the job not submitted.
LauncherPreForgets(e) ==
  /\ attempted' = (attempted \/ (e.kind = "started" /\ e.name = "marker"))
  /\ UNCHANGED <<launch, task>>

\* The launcher's pre: the first marker submits the launch, when the event
\* comes as `Source`.
LauncherPre(e) ==
  IF e.kind = "started" /\ e.name = "marker" /\ ~Dated /\ ~attempted
  THEN attempted' = TRUE /\ launch' = "queued" /\ UNCHANGED task
  ELSE UNCHANGED launcher

\* One source event through the pipeline.
Accept ==
  /\ stream # <<>>
  /\ Drain
  /\ HandleSource(Head(stream))
  /\ LauncherPre(Head(stream))
  /\ stream' = Tail(stream)
  /\ UNCHANGED <<world, source>>

\* Any other event through the pipeline (ticks, screenshots): only the drain.
AcceptOther ==
  /\ pending /\ Drain
  /\ UNCHANGED <<world, source, stream, recs, observed, closed, died, launcher>>
-----------------------------------------------------------------------------
(* The launch flow, on its queue                                           *)

\* A step of the flow that leaves the processes alone.
FlowStep == UNCHANGED <<world, source, stream, tracker, attempted>>

\* The target's process, in a session of the user's: the first of its tree.
StartTarget(p) ==
  /\ os[p] = "free"
  /\ os' = [os EXCEPT ![p] = "in"] 
  /\ Report([kind |-> "started", pid |-> p, parent |-> NoPid, name |-> "target"])
  /\ UNCHANGED <<written, released, namesake, source, tracker, pending, attempted>>

\* What the registry has under shell\open\command: nothing readable, a command
\* that names no program, or one that does.
OpenCommand == {"none", "blank", "usable"}

\* blocking_resolve: the extension's own command wins over its ProgID's.
ResolvedCommand(override, progId) == IF override # "none" THEN override ELSE progId

\* resolve_spec: an .exe is launched itself, anything else by the program its
\* association names.
LaunchResolve ==
  /\ launch = "queued"
  /\ \E override, progId \in OpenCommand :
       launch' = IF ~Interpreter \/ ResolvedCommand(override, progId) = "usable"
                 THEN "resolved" ELSE "failed"
  /\ FlowStep /\ UNCHANGED <<pending, task>>

\* The image's expectation is published before the launcher is called.
LaunchExpects ==
  /\ launch = "resolved" /\ launch' \in Mechanism
  /\ pending' = TRUE
  /\ FlowStep /\ UNCHANGED task

\* TokenProcessLauncher: the token of the console session's user and a primary
\* duplicate of it.
TokenTaken ==
  /\ launch = "Token" /\ launch' \in {"primary", "failed"}
  /\ FlowStep /\ UNCHANGED <<pending, task>>

CreateProcessAsUser ==
  /\ launch = "primary" /\ UNCHANGED task
  /\ \/ \E p \in Pid : StartTarget(p) /\ launch' = "done"
     \/ launch' = "failed" /\ FlowStep /\ UNCHANGED pending

\* One schtasks call within its budget: what it was called for has happened or
\* not, and it succeeds only when it has.  A call that times out is killed.
Schtasks == {r \in [ok : BOOLEAN, done : BOOLEAN] : r.ok => r.done}

\* SchedTaskLauncher: no console user, or no definition, fails the launch.
TaskCreate ==
  /\ launch = "SchedTask"
  /\ \/ launch' = "failed" /\ UNCHANGED task
     \/ \E r \in Schtasks :
          /\ task' = [task EXCEPT !.def = IF r.done THEN "defined" ELSE @]
          /\ launch' = IF r.ok THEN "created" ELSE "failed"
  /\ FlowStep /\ UNCHANGED pending

TaskRun ==
  /\ launch = "created"
  /\ \E r \in Schtasks :
       /\ task' = [task EXCEPT !.fired = @ \/ r.done]
       /\ launch' = IF r.ok THEN "ran" ELSE "runFailed"
  /\ FlowStep /\ UNCHANGED pending

\* The definition is deleted whatever became of the run, whose error is
\* returned then; that of the delete is not.
TaskDelete ==
  /\ launch \in {"ran", "runFailed"}
  /\ \E r \in Schtasks : task' = [task EXCEPT !.def = IF r.done THEN "none" ELSE @]
  /\ launch' = IF launch = "ran" THEN "done" ELSE "failed"
  /\ FlowStep /\ UNCHANGED pending

LaunchFlow ==
  \/ LaunchResolve \/ LaunchExpects
  \/ TokenTaken \/ CreateProcessAsUser
  \/ TaskCreate \/ TaskRun \/ TaskDelete

\* The task's helper starts the target, or it does not.
TaskFires ==
  /\ task.fired /\ task' = [task EXCEPT !.fired = FALSE]
  /\ UNCHANGED launch
  /\ \/ \E p \in Pid : StartTarget(p)
     \/ UNCHANGED <<os, written, released, lost, namesake, source, stream, tracker, pending, attempted>>

\* An application logs the event that a task left behind is defined on (bound:
\* once).
TaskTriggered ==
  /\ launch \in {"done", "failed"} /\ task = [def |-> "defined", fired |-> FALSE]
  /\ task' = [def |-> "again", fired |-> TRUE]
  /\ UNCHANGED <<os, written, released, lost, namesake, source, stream, tracker, pending, attempted, launch>>
-----------------------------------------------------------------------------
Next ==
  \/ Attach
  \/ \E p \in Pid : Replay(p)
  \/ \E p \in Pid, q \in Pid \cup {NoPid}, n \in Name : Spawn(p, q, n)
  \/ \E p \in Pid : Exit(p)
  \/ \E p \in Pid, f \in Path : Write(p, f) \/ Close(p, f)
  \/ Accept
  \/ AcceptOther
  \/ LaunchFlow \/ TaskFires \/ TaskTriggered

Spec == Init /\ [][Next]_vars

\* The source task keeps draining the stream, the trace delivers its rundown and
\* the queue's worker runs.
Fairness == WF_vars(Accept) /\ WF_vars(\E p \in Pid : Replay(p)) /\ WF_vars(LaunchFlow)
FairSpec == Spec /\ Fairness
-----------------------------------------------------------------------------
(* Properties                                                              *)

Drained == stream = <<>>
TreeAlive == \E p \in Pid : os[p] = "in"
AliasAlive == \E p \in Pid : os[p] = "alias"

\* Unless a stop was lost nothing is in the scope but the target's tree and the
\* namesakes of its image with theirs (process_entered admits whatever bears an
\* expected name), whatever starts were lost: a recycled pid does not inherit
\* the scope of its previous holder (is_scoped).  Unless a start was lost the
\* whole tree is in the scope, whatever stops were lost: the expectation is in
\* place when the interpreter's start arrives (drain_expectations), and children
\* inherit.
ScopeIsTree ==
  Drained => \A p \in Pid :
    /\ "stopped" \notin lost /\ recs[p] = "live" => os[p] \in {"in", "alias"}
    /\ "started" \notin lost /\ os[p] = "in" => recs[p] = "live"

\* ScopeDied, on which autoshutdown ends the session, is only published when
\* the tree is really gone, for good, unless a start was lost, a namesake was in
\* the scope before the target, whose exit then is the end of a scope, or the
\* scheduled task that failed to be deleted launches the target once more.  A
\* namesake that comes later does no harm.
NoFalseDeath ==
  died /\ "started" \notin lost /\ task.def # "again" /\ namesake # "early" => ~TreeAlive

\* Every path that the tree wrote is reported as a drop, and those it then closed
\* as closed; and nothing else is, unless a namesake was in the scope: a close by
\* another process neither reports a drop nor uses up the one report
\* (drop_closed).  Lost starts and stops disturb this.
DropsExact ==
  Drained /\ lost = {} =>
    /\ written \subseteq observed /\ released \subseteq closed
    /\ namesake = "none" => observed = written /\ closed = released

\* A launched tree lives on or its death is published as ScopeDied, also when
\* the launch was reported as failed after the task had fired; unless an event
\* is lost, the target is launched once more, or there is a namesake or a
\* descendant of one from then on at all times, which keeps the scope alive.
DeathReported ==
  TreeAlive ~> \/ []TreeAlive
               \/ <>(died \/ lost # {} \/ task.def = "again")
               \/ <>[]AliasAlive

\* The first marker leads to a launch attempt (target_launcher.rs: "the first
\* sighting launches the target").
MarkerLaunches ==
  (\E i \in 1 .. Len(stream) : stream[i].kind = "started" /\ stream[i].name = "marker")
    ~> (launch \in {"done", "failed"})

=============================================================================
