------------------------------ MODULE UserActor ------------------------------
(***************************************************************************)
(* The user-actor process and the agent's screenshot intake: the config    *)
(* push starts one focus source, focus changes are captured under a quota  *)
(* and go through a bounded sink to the agent, which saves and uploads     *)
(* them; reactive and scripted input run as blocking tasks beside it.      *)
(* The process leaves when its transport ends; another one comes with the  *)
(* next boot of the agent, which may save under the same names.            *)
(*                                                                         *)
(* The transport keeps the frames of one connection in order and may lose  *)
(* them (IpcSession models it).  Dropping the tokio runtime (external)     *)
(* drops every task at its next await and waits for the blocking ones.     *)
(***************************************************************************)
EXTENDS Naturals, Sequences, FiniteSets

CONSTANTS
  MaxLives,     \* bound: user-actor processes, one for each boot of the agent
  MaxWelcomes,  \* bound: config pushes to one process
  MaxFocus,     \* bound: focus changes
  Quota,        \* max_per_session, pushed to the actor and kept by the agent
  SinkCap,      \* SINK_CHANNEL_CAPACITY
  QueueCap      \* QUEUE_CAPACITY of the intake

ASSUME ActorAssumption ==
  /\ {MaxLives, MaxFocus, SinkCap, QueueCap} \subseteq Nat \ {0}
  /\ {MaxWelcomes, Quota} \subseteq Nat

Life == 1 .. MaxLives
Source == 1 .. 2      \* at most one is started
Idle == [at |-> "idle", seq |-> 0]
NoFile == <<0, 0>>
Torn(frame) == <<frame[1], frame[2], "torn">>
NoJob == [at |-> "idle", frame |-> NoFile]
Unsubscribed == [subscribed |-> FALSE, pending |-> 0]
NoInput == [reactive |-> "idle", script |-> "off"]

VARIABLES
  setup,      \* the configuration: [capture, method, save, upload]
  life,       \* the number of the process
  actor,      \* "up", "leaving", "dropping" (the runtime), "gone"
  welcomes,   \* config pushes applied
  watcher,    \* the task that starts the source: subscribed?, pushes it has yet to see
  sources,    \* focus sources started
  pump,       \* the hook thread: "off", "starting", "pumping", "ended"
  adapter,    \* the WinEvent adapter: "off", "running", "stopping", "joining", "ended"
  quit,       \* WM_QUIT was posted
  flow,       \* per source: where handle_focus is
  captured,   \* the capture counter
  sink,       \* frames queued for the transport
  input,      \* blocking input: of the reactive plugin, of the scripts
  focuses,    \* focus changes so far
  \* the agent
  wire,       \* per process: frames on their way
  accepted,   \* frames counted against the quota
  jobs, job,  \* the intake's queue and what its worker does
  intake,     \* "up" or "stopped"
  files,      \* the saved frames by name: NoFile for none
  staged,     \* the staging file of this job: "none", "torn", "whole"
  uploaded    \* <<frame, content>> of the uploads reported

process == <<actor, welcomes, watcher, sources, pump, adapter, quit, flow, captured, sink, input>>
agent == <<accepted, jobs, job, intake, files, staged, uploaded>>
actorVars == <<setup, life, process, focuses, wire, agent>>

ActorInit ==
  /\ setup \in [capture : BOOLEAN, method : {"polling", "winevents"}, save : BOOLEAN, upload : BOOLEAN]
  /\ life = 1
  /\ actor = "up" /\ welcomes = 0 /\ watcher = Unsubscribed /\ sources = 0
  /\ pump = "off" /\ adapter = "off" /\ quit = FALSE
  /\ flow = [s \in Source |-> Idle] /\ captured = 0 /\ sink = <<>> /\ input = NoInput
  /\ focuses = 0 /\ wire = [l \in Life |-> <<>>]
  /\ accepted = 0 /\ jobs = <<>> /\ job = NoJob /\ intake = "up"
  /\ files = [n \in 0 .. MaxFocus |-> NoFile] /\ staged = "none" /\ uploaded = {}
-----------------------------------------------------------------------------
(* Configuration and focus source                                          *)

\* WELCOME: config_apply stores and announces it, the scripted runner starts
\* its activities once.  A watcher that has not subscribed misses it.
Welcome ==
  /\ actor = "up" /\ welcomes < MaxWelcomes
  /\ welcomes' = welcomes + 1
  /\ watcher' = [watcher EXCEPT !.pending = IF watcher.subscribed THEN @ + 1 ELSE @]
  /\ input' = [input EXCEPT !.script = IF @ = "off" THEN "beat" ELSE @]
  /\ UNCHANGED <<setup, life, actor, sources, pump, adapter, quit, flow, captured, sink, focuses, wire, agent>>

WatcherSubscribes ==
  /\ actor = "up" /\ ~watcher.subscribed
  /\ watcher' = [watcher EXCEPT !.subscribed = TRUE]
  /\ UNCHANGED <<setup, life, actor, welcomes, sources, pump, adapter, quit, flow, captured, sink, input, focuses, wire, agent>>

StartSource ==
  /\ sources' = sources + 1
  /\ pump' = IF setup.method = "winevents" THEN "starting" ELSE pump
  /\ adapter' = IF setup.method = "winevents" THEN "running" ELSE adapter

\* Faulty variant: a second push starts another source.
WatcherReceivesAgain ==
  /\ actor = "up" /\ watcher.pending > 0
  /\ watcher' = [watcher EXCEPT !.pending = @ - 1]
  /\ IF sources < 2 THEN StartSource ELSE UNCHANGED <<sources, pump, adapter>>
  /\ UNCHANGED <<setup, life, actor, welcomes, quit, flow, captured, sink, input, focuses, wire, agent>>

\* start_focus_source_when_configured: a repeated push does not start another.
WatcherReceives ==
  /\ actor = "up" /\ watcher.pending > 0
  /\ watcher' = [watcher EXCEPT !.pending = @ - 1]
  /\ IF sources = 0 THEN StartSource ELSE UNCHANGED <<sources, pump, adapter>>
  /\ UNCHANGED <<setup, life, actor, welcomes, quit, flow, captured, sink, input, focuses, wire, agent>>

\* pump_thread: the hooks, then the thread id; without hooks it ends.
PumpStarts ==
  /\ pump = "starting"
  /\ pump' \in {"pumping", "ended"}
  /\ UNCHANGED <<setup, life, actor, welcomes, watcher, sources, adapter, quit, flow, captured, sink, input, focuses, wire, agent>>
-----------------------------------------------------------------------------
(* Capture: FocusWatchPlugin::handle_focus                                 *)

Live(s) ==
  /\ s <= sources /\ actor \in {"up", "leaving"}
  /\ setup.method = "winevents" => pump = "pumping" /\ adapter = "running"

\* The change is announced to the reactive plugin; then the gate, and the
\* counter is read.
FocusChanged(s) ==
  /\ Live(s) /\ flow[s] = Idle /\ focuses < MaxFocus
  /\ focuses' = focuses + 1
  /\ input' = [input EXCEPT !.reactive = IF @ = "idle" THEN "due" ELSE @]
  /\ flow' = IF setup.capture /\ captured < Quota
             THEN [flow EXCEPT ![s] = [at |-> "reserve", seq |-> captured]] ELSE flow
  /\ UNCHANGED <<setup, life, actor, welcomes, watcher, sources, pump, adapter, quit, captured, sink, wire, agent>>

\* compare_exchange: a lost race ends it.
Reserve(s) ==
  /\ flow[s].at = "reserve"
  /\ IF captured = flow[s].seq
     THEN captured' = captured + 1 /\ flow' = [flow EXCEPT ![s].at = "capture"]
     ELSE flow' = [flow EXCEPT ![s] = Idle] /\ UNCHANGED captured
  /\ UNCHANGED <<setup, life, actor, welcomes, watcher, sources, pump, adapter, quit, sink, input, focuses, wire, agent>>

\* The capture, then the sink, which refuses a frame when it is full; a
\* failure of either gives the slot back.
CaptureAndSend(s) ==
  /\ flow[s].at = "capture"
  /\ flow' = [flow EXCEPT ![s] = Idle]
  /\ \/ Len(sink) < SinkCap /\ sink' = Append(sink, <<life, flow[s].seq>>) /\ UNCHANGED captured
     \/ captured' = captured - 1 /\ UNCHANGED sink
  /\ UNCHANGED <<setup, life, actor, welcomes, watcher, sources, pump, adapter, quit, input, focuses, wire, agent>>

\* The transport takes a frame from the sink; a failed send loses it.
TransportSends ==
  /\ actor = "up" /\ sink # <<>>
  /\ sink' = Tail(sink)
  /\ wire' = [wire EXCEPT ![life] = Append(@, Head(sink))] \/ UNCHANGED wire
  /\ UNCHANGED <<setup, life, actor, welcomes, watcher, sources, pump, adapter, quit, flow, captured, input, focuses, agent>>
-----------------------------------------------------------------------------
(* Input: blocking tasks                                                   *)

\* consume_bus_events: the gate may skip the change; Enter goes down, is held
\* and goes up in a blocking task.
ReactivePress ==
  /\ input.reactive = "due" /\ actor = "up"
  /\ input' \in {[input EXCEPT !.reactive = "held"], [input EXCEPT !.reactive = "idle"]}
  /\ UNCHANGED <<setup, life, actor, welcomes, watcher, sources, pump, adapter, quit, flow, captured, sink, focuses, wire, agent>>

KeyUp ==
  /\ input.reactive = "held"
  /\ input' = [input EXCEPT !.reactive = "idle"]
  /\ UNCHANGED <<setup, life, actor, welcomes, watcher, sources, pump, adapter, quit, flow, captured, sink, focuses, wire, agent>>

\* run_script: a step runs as a blocking task, between two passes it waits.
ScriptStep ==
  /\ \/ input.script = "beat" /\ actor = "up" /\ input' = [input EXCEPT !.script = "step"]
     \/ input.script = "step" /\ input' = [input EXCEPT !.script = "beat"]
  /\ UNCHANGED <<setup, life, actor, welcomes, watcher, sources, pump, adapter, quit, flow, captured, sink, focuses, wire, agent>>
-----------------------------------------------------------------------------
(* Leaving                                                                 *)

\* The transport ended or Ctrl-C: the token is cancelled, the watcher aborted
\* and the kernel shut down, which aborts the reactive consumer and stops the
\* scripts; what runs on a blocking thread goes on.
Leave ==
  /\ actor = "up"
  /\ actor' = "leaving" /\ sink' = <<>>
  /\ watcher' = Unsubscribed
  /\ input' = [input EXCEPT !.reactive = IF @ = "due" THEN "idle" ELSE @]
  /\ UNCHANGED <<setup, life, welcomes, sources, pump, adapter, quit, flow, captured, focuses, wire, agent>>

\* stop() of the adapter: WM_QUIT goes to the thread id, once there is one.
PostQuit == quit' = (quit \/ pump = "pumping")

\* The adapter sees the token, or the end of its pump, and calls stop(); it
\* calls it again after the loop, and waits for the pump and for the bridge.
AdapterStops ==
  /\ \/ adapter = "running" /\ (actor = "leaving" \/ pump = "ended")
        /\ \A s \in Source : flow[s] = Idle
        /\ adapter' = "stopping"
     \/ adapter = "stopping" /\ adapter' = "joining"
  /\ PostQuit
  /\ UNCHANGED <<setup, life, actor, welcomes, watcher, sources, pump, flow, captured, sink, input, focuses, wire, agent>>

\* The join has a timeout, the bridge behind it has none: its channel closes
\* with the pump thread.
AdapterReturns ==
  /\ adapter = "joining" /\ pump = "ended"
  /\ adapter' = "ended"
  /\ UNCHANGED <<setup, life, actor, welcomes, watcher, sources, pump, quit, flow, captured, sink, input, focuses, wire, agent>>

\* Faulty variant: WM_QUIT is dispatched like any other message.
PumpDispatchesQuit == FALSE /\ UNCHANGED actorVars

\* GetMessage returns 0 on WM_QUIT: unhook, drop the sender.
PumpQuits ==
  /\ pump = "pumping" /\ quit
  /\ pump' = "ended"
  /\ UNCHANGED <<setup, life, actor, welcomes, watcher, sources, adapter, quit, flow, captured, sink, input, focuses, wire, agent>>

\* main returns: the runtime drops its tasks, the adapter among them.
RuntimeDrops ==
  /\ actor = "leaving"
  /\ actor' = "dropping"
  /\ flow' = [s \in Source |-> Idle]
  /\ adapter' = IF adapter = "off" THEN "off" ELSE "ended"
  /\ UNCHANGED <<setup, life, welcomes, watcher, sources, pump, quit, captured, sink, input, focuses, wire, agent>>

\* The process ends when its blocking tasks have, and its memory goes.
ProcessEnds ==
  /\ actor = "dropping" /\ pump \in {"off", "ended"}
  /\ input.reactive # "held" /\ input.script # "step"
  /\ actor' = "gone" /\ welcomes' = 0 /\ watcher' = Unsubscribed /\ sources' = 0
  /\ pump' = "off" /\ adapter' = "off" /\ quit' = FALSE
  /\ flow' = [s \in Source |-> Idle] /\ captured' = 0 /\ sink' = <<>> /\ input' = NoInput
  /\ UNCHANGED <<setup, life, focuses, wire, agent>>

\* The supervisor launches one process per boot of the agent, so another one
\* belongs to a later boot, whose intake starts with nothing in memory.  When
\* that boot has the session number of the earlier one (its save never landed,
\* or there is no session and the number is 0), it finds the files there.
Relaunch ==
  /\ actor = "gone" /\ life < MaxLives
  /\ life' = life + 1 /\ actor' = "up"
  /\ wire' = [l \in Life |-> <<>>]
  /\ accepted' = 0 /\ jobs' = <<>> /\ job' = NoJob /\ intake' = "up" /\ staged' = "none"
  /\ UNCHANGED <<setup, welcomes, watcher, sources, pump, adapter, quit, flow, captured, sink, input,
                 focuses, files, uploaded>>
-----------------------------------------------------------------------------
(* Agent: screenshot intake                                                *)

\* pre(): every frame is counted, one within the quota is reported and
\* submitted; a full queue drops it.
IntakeReceives(l) ==
  LET frame == Head(wire[l]) IN
  /\ wire[l] # <<>>
  /\ wire' = [wire EXCEPT ![l] = Tail(@)]
  /\ accepted' = IF setup.capture THEN accepted + 1 ELSE accepted
  /\ jobs' = IF /\ setup.capture /\ accepted' <= Quota
                /\ intake = "up" /\ Len(jobs) < QueueCap
             THEN Append(jobs, frame) ELSE jobs
  /\ UNCHANGED <<setup, life, process, focuses, job, intake, files, staged, uploaded>>

WorkerTakes ==
  /\ intake = "up" /\ job = NoJob /\ jobs # <<>>
  /\ job' = [at |-> "write", frame |-> Head(jobs)] /\ jobs' = Tail(jobs)
  /\ UNCHANGED <<setup, life, process, focuses, wire, accepted, intake, files, staged, uploaded>>

NameOf(frame) == frame[2]
Done == job' = NoJob
Uploads == job' = [job EXCEPT !.at = "upload"]

\* Faulty variant: a file that exists is not written again.
WriteFileOnce ==
  /\ job.at = "write"
  /\ \/ /\ setup.save
        /\ files' = [files EXCEPT ![NameOf(job.frame)] = IF @ = NoFile THEN job.frame ELSE @]
        /\ Uploads /\ UNCHANGED staged
     \/ Done /\ UNCHANGED <<files, staged>>
  /\ UNCHANGED <<setup, life, process, focuses, wire, accepted, jobs, intake, uploaded>>

\* process_frame: write the frame under its name, or stage it for the upload
\* under a new one: the file is not flushed, so the upload may find it torn.
\* A failed write may have truncated the file, and leaves the staging file.
WriteFile ==
  /\ job.at = "write"
  /\ \/ /\ setup.save
        /\ files' = [files EXCEPT ![NameOf(job.frame)] = job.frame]
        /\ Uploads /\ UNCHANGED staged
     \/ /\ setup.save
        /\ files' = [files EXCEPT ![NameOf(job.frame)] = Torn(job.frame)]
        /\ Done /\ UNCHANGED staged
     \/ /\ ~setup.save /\ setup.upload
        /\ staged' \in {"torn", "whole"} /\ Uploads /\ UNCHANGED files
     \/ Done /\ UNCHANGED <<files, staged>>
  /\ UNCHANGED <<setup, life, process, focuses, wire, accepted, jobs, intake, uploaded>>

\* The upload reads the file back; then the staging file is removed.
Upload ==
  /\ job.at = "upload"
  /\ \/ /\ setup.upload
        /\ uploaded' = uploaded \cup
             {<<job.frame, IF setup.save THEN files[NameOf(job.frame)]
                           ELSE IF staged = "whole" THEN job.frame ELSE Torn(job.frame)>>}
     \/ UNCHANGED uploaded
  /\ Done /\ staged' = "none"
  /\ UNCHANGED <<setup, life, process, focuses, wire, accepted, jobs, intake, files>>

\* stop(): the worker ends after its job, what is queued is abandoned.
IntakeStops ==
  /\ intake = "up" /\ job = NoJob
  /\ intake' = "stopped" /\ jobs' = <<>>
  /\ UNCHANGED <<setup, life, process, focuses, wire, accepted, job, files, staged, uploaded>>
-----------------------------------------------------------------------------
Exit == AdapterStops \/ AdapterReturns \/ PumpStarts \/ PumpQuits \/ KeyUp \/ RuntimeDrops \/ ProcessEnds

ActorNext ==
  \/ Welcome \/ WatcherSubscribes \/ WatcherReceives
  \/ \E s \in Source : FocusChanged(s) \/ Reserve(s) \/ CaptureAndSend(s)
  \/ TransportSends \/ ReactivePress \/ ScriptStep
  \/ Leave \/ Exit \/ Relaunch
  \/ \E l \in Life : IntakeReceives(l)
  \/ WorkerTakes \/ WriteFile \/ Upload \/ IntakeStops

\* Threads and tasks are scheduled, a key that is down comes up, a step of a
\* script returns.  Nothing says when the process leaves.
ActorFairness ==
  /\ WF_actorVars(PumpStarts) /\ WF_actorVars(PumpQuits) /\ WF_actorVars(KeyUp) /\ WF_actorVars(ScriptStep)
  /\ WF_actorVars(RuntimeDrops) /\ WF_actorVars(ProcessEnds)

ActorSpec == ActorInit /\ [][ActorNext]_actorVars /\ ActorFairness
-----------------------------------------------------------------------------
(* Properties                                                              *)

\* A saved screenshot is replaced only by one of another process: within a
\* process no number is given to two frames, for all the slots given back
\* ("Unique name per (session, seq)", screenshot_intake.rs; the counter of
\* focus_watch.rs starts again with every process).
SavedKept ==
  [][\A n \in DOMAIN files : files'[n] # files[n] /\ files[n] # NoFile => files'[n][1] # files[n][1]]_actorVars

\* What is reported as uploaded is the frame itself, also when an earlier
\* process left a file of its name; only a staged frame may be incomplete.
UploadedIsOwn == \A u \in uploaded : u[2] = u[1] \/ (~setup.save /\ u[2] = Torn(u[1]))

\* Once it leaves, the process ends, whatever its input tasks do, unless its
\* hook thread never got WM_QUIT: the token was cancelled before the thread
\* published its id, or the runtime dropped the adapter before it could post.
ActorExits ==
  (actor = "leaving") ~> (actor = "gone" \/ [](pump = "pumping" /\ ~quit))
=============================================================================
