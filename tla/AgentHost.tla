------------------------------ MODULE AgentHost ------------------------------
(***************************************************************************)
(* The process around the kernel: the host bodies of secoutfall-agent.rs   *)
(* (service, console, its demo, local) from their start to their exit, the *)
(* SCM and its stop channel, RunningSession (runtime.rs), the scheduler's  *)
(* deadline, the session manager's finalize as the wire sees it, the event *)
(* reporter, and the broker adapters.                                      *)
(*                                                                         *)
(* What matters here is who is still running when the host shuts the       *)
(* kernel down and flushes the broker: the scheduler is cancelled and not  *)
(* awaited, the plugins' consumers are awaited, the event source is        *)
(* stopped only afterwards and the IPC server never.                       *)
(***************************************************************************)
EXTENDS Kernel, Functions

CONSTANTS
  Mode,      \* which hosts: a subset of DOMAIN Bodies
  Configs,   \* what the config may say: [skip: skip_reboot_and_shutdown,
             \* full: verbosity is Full]
  Attempts,  \* the connect budget of the NATS adapter
  MaxEvents  \* bound on the envelopes besides those of the finalize

\* The host bodies, step by step.
ServiceBody == <<"register", "config", "connect", "deps", "boot", "attach_ipc",
                 "attach_source", "report", "forward", "run">>
ConsoleBody == <<"config", "connect", "deps", "boot", "attach_ipc", "attach_source", "run">>
DemoBody == <<"config", "boot", "attach_source", "run">>
LocalBody == <<"config", "boot", "attach_source", "run">>
Bodies == [service |-> ServiceBody, console |-> ConsoleBody, demo |-> DemoBody, local |-> LocalBody]

ASSUME HostAssumption ==
  /\ Mode \subseteq DOMAIN Bodies /\ Configs \subseteq [skip : BOOLEAN, full : BOOLEAN]
  /\ Attempts \in Nat \ {0} /\ MaxEvents \in Nat
  /\ Event = {"source", "deadline", "stop"}
  /\ Plugins = 2 /\ Middleware = 2

\* The plugins and the pipeline steps with an effect on the wire.
SessionManager == 1
EventReporter == 2

\* Who publishes: the start of the session manager, the source's events, the
\* consumer of the reporter, and whoever runs the finalize.
Publisher == {"boot", "source", "reporter", "stop", "deadline", "consumer"}

VARIABLES
  mode,       \* the host that runs
  body,       \* where it is
  config,     \* the one of Configs in force
  attempts,   \* connects tried
  scm,        \* what the SCM was told, and "stop_sent" once it asks to stop
  channel,    \* ServiceStop on its way: "none", "handler", "stop", "taken"
  forwarder,  \* the blocking task between the two channels
  scheduler,  \* "none", "running", "returned", "cancelled", "dropped"
  source,     \* the event source: "none", "running", "stopped"
  finalizer,  \* who swapped `finalized`: "none", an event or "consumer"
  reported,   \* how many of the FinalReports it has drawn a number for
  finalizeDone,
  consumer,   \* the task of the session manager: "none", "running", "ended"
  wire,       \* the envelopes of each publisher and where they are: "hand",
              \* "queued", "gone" (sent, or counted as lost by the NATS adapter)
              \* or "refused"
  flush       \* "none", "ok", "failed"

settings == <<mode, config>>
host == <<settings, body, attempts, scm, channel, forwarder, scheduler, source>>
session == <<finalizer, reported, finalizeDone, consumer>>
inner == <<vars, session, wire, flush>>
allVars == <<inner, host>>

HostInit ==
  /\ Init
  /\ mode \in Mode /\ body = Bodies[mode][1] /\ attempts = 0
  /\ config \in Configs
  /\ scm = "stopped" /\ channel = "none" /\ forwarder = FALSE
  /\ scheduler = "none" /\ source = "none"
  /\ finalizer = "none" /\ reported = 0 /\ finalizeDone = FALSE /\ consumer = "none"
  /\ wire = [by \in Publisher |-> <<>>] /\ flush = "none"

Alive == body \notin {"failed", "ended"}

Goto(b) == body' = b

\* The step after b in the host's body.
PlaceOf(b) == CHOOSE i \in DOMAIN Bodies[mode] : Bodies[mode][i] = b
Advance == Goto(Bodies[mode][PlaceOf(body) + 1])

\* What the finalize publishes, in order: one stands for the reports up to
\* session.ended, the other for the request that makes the VM bounce, which
\* the dev-host gate suppresses.
FinalReports == IF config.skip THEN <<"session_ended">> ELSE <<"session_ended", "request">>

\* next_seq and the envelope around it, still in the hands of its publisher.
Draw(by) == wire' = [wire EXCEPT ![by] = Append(@, "hand")]

InHand(by) == "hand" \in Range(wire[by])

\* A future that is dropped takes no further step; an envelope in its hands is
\* gone.
Running(who) == Alive /\ ~ (who = "deadline" /\ scheduler = "dropped")
-----------------------------------------------------------------------------
(* From the start of the process to a running session                      *)

\* The `?` of every step before run_until_stop: the body returns, and nothing
\* is reported to the SCM.
Fails == Goto("failed") /\ UNCHANGED <<inner, settings, attempts, scm, channel, forwarder, scheduler, source>>

\* The service registers its handler and reports StartPending first.
Register ==
  /\ body = "register"
  /\ \/ /\ Advance /\ scm' = "start_pending"
        /\ UNCHANGED <<inner, settings, attempts, channel, forwarder, scheduler, source>>
     \/ Fails

\* standalone_config: a run on a dev host never asks for a bounce.
Standalone(c) == [c EXCEPT !.skip = TRUE]

\* The file is read, parsed and validated, or the built-in demo is used; the
\* log directory only degrades.  Then the local host opens its event file.
LoadConfig ==
  /\ body = "config"
  /\ \/ /\ Advance
        /\ config' = IF mode = "local" THEN Standalone(config) ELSE config
        /\ UNCHANGED <<inner, mode, attempts, scm, channel, forwarder, scheduler, source>>
     \/ Fails

\* A subject that is no NATS subject fails at once, a refused connect uses up
\* one attempt.
Connect ==
  /\ body = "connect"
  /\ \/ Advance /\ attempts' = 0
     \/ Goto("failed") /\ UNCHANGED attempts
     \/ /\ attempts' = attempts + 1
        /\ Goto(IF attempts + 1 < Attempts THEN "connect" ELSE "failed")
  /\ UNCHANGED <<inner, settings, scm, channel, forwarder, scheduler, source>>

\* The other adapters: only the HTTP uploader can refuse.  A driver that does
\* not open costs the statistics, an adapter that is not compiled in each call
\* to it.
ProductionDeps ==
  /\ body = "deps"
  /\ \/ /\ Advance
        /\ UNCHANGED <<inner, settings, attempts, scm, channel, forwarder, scheduler, source>>
     \/ Fails

\* start of the session manager publishes before it subscribes: one envelope
\* stands for clock.adjusted (the first session, unless the shift fails),
\* agent.state and session.started.
ManagerStarting == phase = "start" /\ at = SessionManager
BootReported == wire["boot"] # <<>>

BootReport ==
  /\ body = "boot" /\ ManagerStarting /\ ~ BootReported
  /\ Draw("boot")
  /\ UNCHANGED <<vars, host, session, flush>>

\* kernel.boot(): the consumer of the session manager starts with its plugin,
\* once its reports have been published or lost.
Boot ==
  /\ body = "boot" /\ phase \in {"init", "start", "rollback"}
  /\ ManagerStarting => BootReported /\ ~ InHand("boot")
  /\ BootInit \/ BootInitDone \/ BootStart \/ BootDone \/ StopHook \/ StopsDone
  /\ consumer' = IF hook'[SessionManager] = "started" THEN "running" ELSE "none"
  /\ UNCHANGED <<host, finalizer, reported, finalizeDone, wire, flush>>

BootFailed == body = "boot" /\ phase = "failed" /\ Fails

\* The scheduler task; Ctrl+C and the SCM feed the stop channel from here on.
SessionStarts ==
  /\ body = "boot" /\ phase = "running"
  /\ Advance /\ scheduler' = "running"
  /\ UNCHANGED <<inner, settings, attempts, scm, channel, forwarder, source>>

\* The IPC server (IpcSession), a task that nobody stops.
AttachIpc ==
  /\ body = "attach_ipc"
  /\ Advance
  /\ UNCHANGED <<inner, settings, attempts, scm, channel, forwarder, scheduler, source>>

\* The driver's policies, if it is enabled, are pushed before its source runs
\* (see DriverRecords); no failure of theirs ends the body.
AttachEventSource ==
  /\ body = "attach_source"
  /\ Advance /\ source' = "running"
  /\ UNCHANGED <<inner, settings, attempts, scm, channel, forwarder, scheduler>>

\* status.running() and then the task that forwards the handler's events.
ReportRunning ==
  /\ body = "report"
  /\ \/ Advance /\ scm' = "running"
        /\ UNCHANGED <<inner, settings, attempts, channel, forwarder, scheduler, source>>
     \/ Fails

Forward ==
  /\ body = "forward"
  /\ Advance /\ forwarder' = TRUE
  /\ UNCHANGED <<inner, settings, attempts, scm, channel, scheduler, source>>
-----------------------------------------------------------------------------
(* The stop                                                                *)

\* Faulty variant: the stop is lost unless someone listens already.
ScmStopsUnbuffered ==
  /\ mode = "service" /\ scm = "running"
  /\ scm' = "stop_sent" /\ channel' = IF forwarder THEN "handler" ELSE channel
  /\ UNCHANGED <<inner, settings, body, attempts, forwarder, scheduler, source>>

\* The SCM calls the handler, which sends ServiceStop.
ScmStops ==
  /\ mode = "service" /\ scm = "running"
  /\ scm' = "stop_sent" /\ channel' = "handler"
  /\ UNCHANGED <<inner, settings, body, attempts, forwarder, scheduler, source>>

Forwards ==
  /\ forwarder /\ channel = "handler"
  /\ channel' = "stop"
  /\ UNCHANGED <<inner, settings, body, attempts, scm, forwarder, scheduler, source>>

CtrlC ==
  /\ mode # "service" /\ channel = "none" /\ body \in {"attach_source", "run", "shutdown"}
  /\ channel' = "stop"
  /\ UNCHANGED <<inner, settings, body, attempts, scm, forwarder, scheduler, source>>

\* run_until_stop: accept the event, and leave the loop once it has returned.
HostReceives ==
  /\ body = "run" /\ channel = "stop"
  /\ Accept("stop")
  /\ channel' = "taken" /\ Goto("accepting")
  /\ UNCHANGED <<session, wire, flush, settings, attempts, scm, forwarder, scheduler, source>>

HostAccepted ==
  /\ body = "accepting" /\ pc["stop"] = "done"
  /\ Goto("shutdown")
  /\ UNCHANGED <<inner, settings, attempts, scm, channel, forwarder, scheduler, source>>

\* The poll of every 250 ms.
HostSees ==
  /\ body = "run" /\ finalizeDone
  /\ Goto("shutdown")
  /\ UNCHANGED <<inner, settings, attempts, scm, channel, forwarder, scheduler, source>>

\* scheduler.stop() sets the token and does not wait.
CancelScheduler ==
  /\ body = "shutdown" /\ phase = "running"
  /\ scheduler' = IF scheduler = "running" THEN "cancelled" ELSE scheduler
  /\ Shutdown
  /\ UNCHANGED <<session, wire, flush, settings, body, attempts, scm, channel, forwarder, source>>

\* At its next poll the scheduler sees the token, and drops what its branches
\* were in.
SchedulerDropped ==
  /\ Alive /\ scheduler = "cancelled"
  /\ scheduler' = "dropped"
  /\ UNCHANGED <<inner, settings, body, attempts, scm, channel, forwarder, source>>

\* Faulty variant: stop cancels the consumer and does not wait for it.
StopPluginDetached ==
  /\ body = "shutdown" /\ phase = "stopping"
  /\ StopHook \/ StopsDone
  /\ UNCHANGED <<host, session, wire, flush>>

\* kernel.shutdown(): each stop cancels the plugin's consumer and awaits it;
\* a finalize in progress there is finished first.
StopPlugin ==
  /\ body = "shutdown" /\ phase = "stopping"
  /\ \/ /\ at = SessionManager /\ StopHook
        /\ ~ (consumer = "running" /\ finalizer = "consumer")
        /\ consumer' = "ended"
     \/ /\ at # SessionManager
        /\ at = EventReporter => ~ InHand("reporter")
        /\ StopHook \/ StopsDone
        /\ UNCHANGED consumer
  /\ UNCHANGED <<host, finalizer, reported, finalizeDone, wire, flush>>

ShutdownDone ==
  /\ body = "shutdown" /\ phase = "down"
  /\ Goto("flush")
  /\ UNCHANGED <<inner, settings, attempts, scm, channel, forwarder, scheduler, source>>

Sent ==
  [by \in Publisher |->
    [i \in DOMAIN wire[by] |-> IF wire[by][i] = "queued" THEN "gone" ELSE wire[by][i]]]

UsesNats == mode \in {"service", "console"}

\* The round trip of the client: everything queued has arrived, or it fails.
\* The sinks of the other hosts hold nothing back.
FinalFlush ==
  /\ body = "flush"
  /\ Goto("stop_source")
  /\ \/ flush' = "ok"
        /\ wire' = Sent
     \/ UsesNats /\ flush' = "failed" /\ UNCHANGED wire
  /\ UNCHANGED <<vars, session, settings, attempts, scm, channel, forwarder, scheduler, source>>

StopSource ==
  /\ body = "stop_source"
  /\ Goto("ended") /\ source' = "stopped"
  /\ scm' = IF mode = "service" THEN "stopped" ELSE scm
  /\ UNCHANGED <<inner, settings, attempts, channel, forwarder, scheduler>>
-----------------------------------------------------------------------------
(* The wire                                                                *)

Room == Len(wire["source"]) + Len(wire["reporter"]) < MaxEvents

\* What becomes of an envelope at each sink.  The NATS client takes it into its
\* queue, or the connection is gone; the console prints it; the file may refuse
\* it; the tee of the local host fails only when all its sinks do.
NatsSink == {"queued", "gone"}
ConsoleSink == {"gone"}
JsonlSink == {"gone", "refused"}
TeeSink == {IF "gone" \in {a, b} THEN "gone" ELSE "refused" : a \in ConsoleSink, b \in JsonlSink}
Sink == CASE UsesNats -> NatsSink [] mode = "demo" -> ConsoleSink [] mode = "local" -> TeeSink

Publish(by) ==
  /\ Running(by)
  /\ \E i \in DOMAIN wire[by] :
       /\ wire[by][i] = "hand"
       /\ \E where \in Sink : wire' = [wire EXCEPT ![by][i] = where]
  /\ UNCHANGED <<vars, host, session, flush>>

\* The client's own task writes out what is queued.
ClientSends ==
  /\ Alive /\ \E by \in Publisher : "queued" \in Range(wire[by])
  /\ wire' = Sent
  /\ UNCHANGED <<vars, host, session, flush>>
-----------------------------------------------------------------------------
(* The pipeline and its callers                                            *)

\* The source hands its events over for as long as it runs, whatever the
\* kernel does.
SourceAccepts ==
  /\ Alive /\ source = "running"
  /\ Accept("source")
  /\ UNCHANGED <<host, session, wire, flush>>

Deadline ==
  /\ Alive /\ scheduler = "running"
  /\ Accept("deadline")
  /\ UNCHANGED <<host, session, wire, flush>>

\* The deadline branch returns, and the scheduler with it.
SchedulerReturns ==
  /\ Alive /\ scheduler \in {"running", "cancelled"} /\ pc["deadline"] = "done"
  /\ scheduler' = "returned"
  /\ UNCHANGED <<inner, settings, body, attempts, scm, channel, forwarder, source>>

\* Whoever swaps `finalized` first goes on; the others return at once.
Swap(who) == finalizer = "none" /\ finalizer' = who

\* finalize_session: the next envelope, once the last one is published.
FinalizeReport(who) ==
  /\ finalizer = who /\ reported < Len(FinalReports) /\ ~ InHand(who)
  /\ Running(who)
  /\ Draw(who) /\ reported' = reported + 1
  /\ UNCHANGED <<vars, host, finalizer, finalizeDone, consumer, flush>>

FinalizeDone(who) ==
  /\ finalizer = who /\ reported = Len(FinalReports) /\ ~ InHand(who) /\ ~ finalizeDone
  /\ Running(who)
  /\ finalizeDone' = TRUE
  /\ consumer' = IF who = "consumer" THEN "ended" ELSE consumer
  /\ UNCHANGED <<vars, host, finalizer, reported, wire, flush>>

\* pre of the session manager for a stop or a deadline.
ManagerPre(e) ==
  /\ ran[e] + 1 = SessionManager /\ Running(e)
  /\ \/ e \in {"stop", "deadline"} /\ pc[e] = "pre" /\ Swap(e) /\ UNCHANGED <<vars, reported>>
     \/ /\ Pre(e, "continue")
        /\ e \in {"stop", "deadline"} => (finalizer \notin {"none", e} \/ finalizeDone)
        /\ UNCHANGED <<finalizer, reported>>
  /\ UNCHANGED <<host, finalizeDone, consumer, wire, flush>>

\* pre of the reporter: a source event is published before the next step.
ReporterPre(e) ==
  /\ ran[e] + 1 = EventReporter /\ Running(e)
  /\ Pre(e, "continue")
  /\ IF e = "source" /\ config.full THEN Room /\ Draw(e) ELSE UNCHANGED wire
  /\ UNCHANGED <<host, session, flush>>

\* Its consumer reports what the tracker derived from the event: a drop, or
\* the death of the scope.
ReporterConsumes ==
  /\ Alive /\ hook[EventReporter] = "started" /\ pc["source"] # "new"
  /\ ~ InHand("reporter") /\ Room
  /\ Draw("reporter")
  /\ UNCHANGED <<vars, host, session, flush>>

PipelineRest(e) ==
  /\ Running(e) /\ (e = "source" => ~ InHand(e))
  /\ PreDone(e) \/ Post(e) \/ PostDone(e)
  /\ UNCHANGED <<host, session, wire, flush>>

\* ScopeDied on the bus, with autoshutdown: the consumer of the session
\* manager finalizes, or finds that someone has and ends.
ScopeDied ==
  /\ Alive /\ consumer = "running" /\ pc["source"] # "new"
  /\ finalizer # "consumer" /\ phase = "running"
  /\ \/ Swap("consumer") /\ UNCHANGED consumer
     \/ finalizer # "none" /\ consumer' = "ended" /\ UNCHANGED finalizer
  /\ UNCHANGED <<vars, host, reported, finalizeDone, wire, flush>>
-----------------------------------------------------------------------------
Start ==
  \/ Register \/ LoadConfig \/ Connect \/ ProductionDeps
  \/ BootReport \/ Boot \/ BootFailed \/ SessionStarts \/ AttachIpc \/ AttachEventSource \/ ReportRunning \/ Forward

Stop ==
  \/ HostReceives \/ HostAccepted \/ HostSees \/ CancelScheduler \/ StopPlugin
  \/ ShutdownDone \/ FinalFlush \/ StopSource

Hooks(e) == ManagerPre(e) \/ ReporterPre(e) \/ PipelineRest(e)

Finalize(who) == FinalizeReport(who) \/ FinalizeDone(who)

\* What the runtime's tasks, the host and the broker do next.
Progress ==
  \/ Start \/ Stop
  \/ Forwards \/ SchedulerReturns \/ SchedulerDropped
  \/ \E e \in Event : Hooks(e)
  \/ \E who \in Event \cup {"consumer"} : Finalize(who)
  \/ \E by \in Publisher : Publish(by)
  \/ ClientSends

\* What comes from outside.
Stimulus ==
  ScmStops \/ CtrlC \/ SourceAccepts \/ Deadline \/ ScopeDied \/ ReporterConsumes

HostNext == Progress \/ Stimulus

\* The runtime polls every task that can go on and the network answers; there
\* are finitely many such steps, so one condition serves them all.
HostSpec == HostInit /\ [][HostNext]_allVars /\ WF_allVars(Progress)
-----------------------------------------------------------------------------
(* Properties                                                              *)

Manager == {"boot", "stop", "deadline", "consumer"}

\* "The finalize reports and the reboot/shutdown request must leave the
\* process before exit, not die in the client queue": after a flush that
\* succeeded no report of the boot, or of the finalize that the host waited for,
\* is queued or unpublished.  It waits for every finalize but that of a
\* deadline which a stop overtakes.  No sink but that of NATS gives one up.
FinalReportsLeave ==
  flush = "ok" =>
    \A by \in Manager :
      /\ ~ (by = "deadline" /\ channel = "taken") => Range(wire[by]) \cap {"hand", "queued"} = {}
      /\ "refused" \notin Range(wire[by])

\* A stop that the SCM was told it may send is heard, however it interleaves
\* with the forwarder's start, a finalize in progress or the host's own exit:
\* the service reports Stopped.
StopHeard == (scm = "stop_sent") ~> (scm = "stopped")
=============================================================================
