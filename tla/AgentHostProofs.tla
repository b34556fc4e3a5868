--------------------------- MODULE AgentHostProofs ---------------------------
(* Proofs about the kernel's lifecycle, for any number of plugins, and     *)
(* about what the host leaves on the wire, for any host body, any config   *)
(* and any number of events.                                               *)
EXTENDS AgentHost, SequenceTheorems, TLAPS

-----------------------------------------------------------------------------
(* The lifecycle of the plugins                                            *)

Live == {"started", "start_failed"}
Hook == Live \cup {"new", "initialized", "init_failed", "stopped"}

LifecycleTyped ==
  /\ phase \in {"init", "start", "running", "rollback", "failed", "stopping", "down"}
  /\ at \in 0 .. Plugins + 1
  /\ hook \in [1 .. Plugins -> Hook]
  /\ stops \in Seq(Nat)

\* Each phase of boot and shutdown, by what it has called so far.
LifecycleInv ==
  /\ LifecycleTyped
  /\ phase = "init" =>
       /\ at > 0 /\ stops = <<>>
       /\ \A p \in 1 .. Plugins : hook[p] = IF p < at THEN "initialized" ELSE "new"
  /\ phase = "start" =>
       /\ at > 0 /\ stops = <<>>
       /\ \A p \in 1 .. Plugins : hook[p] = IF p < at THEN "started" ELSE "initialized"
  /\ phase = "running" => stops = <<>>
  /\ phase \in {"rollback", "stopping"} =>
       /\ at <= Plugins
       /\ \A p \in 1 .. Plugins : p > at => hook[p] \notin Live
       /\ \A i \in 1 .. Len(stops) : stops[i] > at
  /\ NothingStartedIsLeft

\* Every step of the lifecycle, by whomever it is taken.
LEMMA LifecycleStep ==
  ASSUME LifecycleInv, Lifecycle PROVE LifecycleInv'
<1> USE KernelAssumption DEF LifecycleInv, LifecycleTyped, NothingStartedIsLeft, Live, Hook, Rollback
<1>1. CASE BootInit
  BY <1>1 DEF BootInit
<1>2. CASE BootInitDone
  BY <1>2 DEF BootInitDone
<1>3. CASE BootStart
  BY <1>3 DEF BootStart
<1>4. CASE BootDone
  BY <1>4 DEF BootDone
<1>5. CASE Shutdown
  BY <1>5 DEF Shutdown
<1>6. CASE StopHook
  <2>1. /\ phase' = phase /\ at' = at - 1 /\ at \in 1 .. Plugins
        /\ hook' = [hook EXCEPT ![at] = "stopped"]
        /\ stops' = Append(stops, at)
    BY <1>6 DEF StopHook
  <2>2. /\ stops' \in Seq(Nat) /\ Len(stops') = Len(stops) + 1 /\ Len(stops) \in Nat
        /\ \A i \in 1 .. Len(stops) : stops'[i] = stops[i]
        /\ stops'[Len(stops) + 1] = at
    BY <2>1, AppendProperties
  <2>3. \A i, j \in 1 .. Len(stops') : i < j => stops'[j] < stops'[i]
    <3>1. /\ \A i, j \in 1 .. Len(stops) : i < j => stops[j] < stops[i]
          /\ \A i \in 1 .. Len(stops) : stops[i] > at
      BY <1>6 DEF StopHook
    <3>2. ASSUME NEW i \in 1 .. Len(stops'), NEW j \in 1 .. Len(stops'), i < j
          PROVE  stops'[j] < stops'[i]
      <4> HIDE DEF LifecycleInv
      <4>1. i \in 1 .. Len(stops) /\ (j \in 1 .. Len(stops) \/ j = Len(stops) + 1)
        BY <2>2, <3>2
      <4>2. QED
        BY <2>2, <3>1, <3>2, <4>1
    <3>3. QED
      BY <3>2
  <2>4. \A i \in 1 .. Len(stops') : stops'[i] > at'
    BY <1>6, <2>1, <2>2 DEF StopHook
  <2>5. LifecycleTyped'
    BY <2>1, <2>2
  <2>6. \A p \in 1 .. Plugins : p > at' => hook'[p] \notin Live
    BY <1>6, <2>1 DEF StopHook
  <2>7. \A p, q \in 1 .. Plugins : hook'[p] \in Live => hook'[q] # "new"
    BY <2>1
  <2>8. QED
    BY <1>6, <2>1, <2>3, <2>4, <2>5, <2>6, <2>7 DEF StopHook
<1>7. CASE StopsDone
  BY <1>7 DEF StopsDone
<1>8. QED
  BY <1>1, <1>2, <1>3, <1>4, <1>5, <1>6, <1>7 DEF Lifecycle

LEMMA LifecycleFrame ==
  ASSUME LifecycleInv, UNCHANGED lifecycle PROVE LifecycleInv'
  BY DEF LifecycleInv, LifecycleTyped, NothingStartedIsLeft, lifecycle

LEMMA LifecycleInit == Init => LifecycleInv
  BY KernelAssumption DEF Init, LifecycleInv, LifecycleTyped, NothingStartedIsLeft, Live, Hook

\* The kernel on its own, called as its clients please: no start before all
\* inits, nothing left started after a failed boot or a shutdown, and stops in
\* reverse order, once each.
THEOREM KernelLifecycle == Spec => []NothingStartedIsLeft
<1>1. LifecycleInv /\ [Next]_vars => LifecycleInv'
  <2> SUFFICES ASSUME LifecycleInv, [Next]_vars PROVE LifecycleInv'
    OBVIOUS
  <2>1. CASE \E e \in Event : Pipeline(e)
    BY <2>1, LifecycleFrame DEF Pipeline, Accept, Pre, PreDone, Post, PostDone
  <2>2. QED
    BY <2>1, LifecycleStep, LifecycleFrame DEF Next, vars
<1>2. LifecycleInv => NothingStartedIsLeft
  BY DEF LifecycleInv
<1>3. QED
  BY <1>1, <1>2, LifecycleInit, PTL DEF Spec
-----------------------------------------------------------------------------
(* The host bodies                                                         *)

Ending == {"failed", "accepting", "shutdown", "flush", "stop_source", "ended"}
Envelope == {"hand", "queued", "gone"}
Wires == [Publisher -> Seq(Envelope)]

HostTyped ==
  /\ mode \in DOMAIN Bodies
  /\ body \in Range(Bodies[mode]) \cup Ending
  /\ config \in [skip : BOOLEAN, full : BOOLEAN]
  /\ reported \in Nat
  /\ finalizeDone \in BOOLEAN
  /\ pc \in [Event -> {"new", "pre", "post", "aborted", "done"}]
  /\ ran \in [Event -> Nat]
  /\ wire \in Wires

\* The order of the steps that the four bodies share.
LEMMA AdvanceOrder ==
  ASSUME mode \in DOMAIN Bodies, body \in Range(Bodies[mode]), body # "run", Advance
  PROVE  /\ body' \in Range(Bodies[mode])
         /\ body = "register" => body' = "config"
         /\ body = "config" => body' \in {"connect", "boot"}
         /\ body = "connect" => body' = "deps"
         /\ body = "deps" => body' = "boot"
         /\ body = "boot" => body' \in {"attach_ipc", "attach_source"}
         /\ body = "attach_ipc" => body' = "attach_source"
         /\ body = "attach_source" => body' \in {"report", "run"}
         /\ body = "report" => body' = "forward"
         /\ body = "forward" => body' = "run"
<1>1. PICK i \in DOMAIN Bodies[mode] : i = PlaceOf(body) /\ Bodies[mode][i] = body
  BY DEF PlaceOf, Range
<1>2. body' = Bodies[mode][i + 1]
  BY <1>1 DEF Advance, Goto
<1>3. mode \in {"service", "console", "demo", "local"}
  BY DEF Bodies
<1>4. CASE mode = "service"
  <2>1. Bodies[mode] = ServiceBody
    BY <1>4 DEF Bodies
  <2>2. QED
    BY <1>1, <1>2, <2>1 DEF ServiceBody, Range
<1>5. CASE mode = "console"
  <2>1. Bodies[mode] = ConsoleBody
    BY <1>5 DEF Bodies
  <2>2. QED
    BY <1>1, <1>2, <2>1 DEF ConsoleBody, Range
<1>6. CASE mode \in {"demo", "local"}
  <2>1. Bodies[mode] = <<"config", "boot", "attach_source", "run">>
    BY <1>6 DEF Bodies, DemoBody, LocalBody
  <2>2. QED
    BY <1>1, <1>2, <2>1 DEF Range
<1>7. QED
  BY <1>3, <1>4, <1>5, <1>6
-----------------------------------------------------------------------------
(* The wire                                                                *)

Queued(by) == "queued" \in Range(wire[by])

LEMMA DrawWire ==
  ASSUME NEW by \in Publisher, wire \in Wires, Draw(by)
  PROVE  /\ wire' \in Wires
         /\ \A b \in Publisher \ {by} : wire'[b] = wire[b]
         /\ Queued(by)' => Queued(by)
<1>1. /\ wire' = [wire EXCEPT ![by] = Append(wire[by], "hand")]
      /\ wire[by] \in Seq(Envelope) /\ "hand" \in Envelope
  BY DEF Draw, Wires, Envelope
<1>2. /\ Append(wire[by], "hand") \in Seq(Envelope)
      /\ DOMAIN Append(wire[by], "hand") = 1 .. Len(wire[by]) + 1
      /\ \A i \in 1 .. Len(wire[by]) : Append(wire[by], "hand")[i] = wire[by][i]
      /\ Append(wire[by], "hand")[Len(wire[by]) + 1] = "hand"
  BY <1>1, AppendProperties
<1>3. wire'[by] = Append(wire[by], "hand")
  BY <1>1 DEF Wires
<1>4. Queued(by)' => Queued(by)
  <2>1. ASSUME NEW i \in 1 .. Len(wire[by]) + 1, Append(wire[by], "hand")[i] = "queued"
        PROVE  i \in 1 .. Len(wire[by]) /\ wire[by][i] = "queued"
    BY <1>1, <1>2, <2>1
  <2>2. DOMAIN wire[by] = 1 .. Len(wire[by])
    BY <1>1
  <2>3. QED
    BY <1>2, <1>3, <2>1, <2>2 DEF Queued, Range
<1>5. QED
  BY <1>1, <1>2, <1>4 DEF Wires

\* The hosts other than those with NATS hold nothing back: the tee has the
\* console, which never refuses.
LEMMA Sinks ==
  ASSUME mode \in DOMAIN Bodies PROVE Sink \subseteq {"queued", "gone"}
<1>1. mode \in {"service", "console", "demo", "local"}
  BY DEF Bodies
<1>2. TeeSink \subseteq {"gone"}
  BY DEF TeeSink, ConsoleSink, JsonlSink
<1>3. QED
  BY <1>1, <1>2 DEF Sink, UsesNats, NatsSink, ConsoleSink

LEMMA PublishWire ==
  ASSUME NEW by \in Publisher, mode \in DOMAIN Bodies, wire \in Wires, Publish(by)
  PROVE  /\ wire' \in Wires
         /\ \A b \in Publisher \ {by} : wire'[b] = wire[b]
         /\ InHand(by)
         /\ UNCHANGED <<vars, host, session, flush>>
<1>1. PICK i \in DOMAIN wire[by], where \in Sink :
        wire[by][i] = "hand" /\ wire' = [wire EXCEPT ![by][i] = where]
  BY DEF Publish
<1>2. /\ wire[by] \in Seq(Envelope) /\ i \in 1 .. Len(wire[by])
      /\ where \in Envelope
  BY <1>1, Sinks DEF Wires, Envelope
<1>3. [wire[by] EXCEPT ![i] = where] \in Seq(Envelope)
  BY <1>2, ExceptSeq
<1>4. /\ wire' \in Wires
      /\ \A b \in Publisher \ {by} : wire'[b] = wire[b]
  BY <1>1, <1>3 DEF Wires
<1>5. InHand(by)
  BY <1>1 DEF InHand, Range
<1>6. QED
  BY <1>4, <1>5 DEF Publish

LEMMA SentWire ==
  ASSUME wire \in Wires, wire' = Sent
  PROVE  /\ wire' \in Wires
         /\ \A by \in Publisher : ~Queued(by)' /\ (InHand(by)' => InHand(by))
<1>1. ASSUME NEW by \in Publisher
      PROVE  /\ wire'[by] \in Seq(Envelope)
             /\ DOMAIN wire'[by] = DOMAIN wire[by]
             /\ \A i \in DOMAIN wire[by] :
                  wire'[by][i] # "queued" /\ (wire'[by][i] = "hand" => wire[by][i] = "hand")
  <2> DEFINE s == [i \in DOMAIN wire[by] |-> IF wire[by][i] = "queued" THEN "gone" ELSE wire[by][i]]
  <2>1. wire'[by] = s
    BY DEF Sent
  <2>2. wire[by] \in Seq(Envelope) /\ DOMAIN wire[by] = 1 .. Len(wire[by]) /\ Len(wire[by]) \in Nat
    BY DEF Wires
  <2>3. \A i \in 1 .. Len(wire[by]) : s[i] \in Envelope
    BY <2>2 DEF Envelope
  <2>4. s \in Seq(Envelope)
    <3>1. s \in [1 .. Len(wire[by]) -> Envelope]
      BY <2>2, <2>3
    <3>2. QED
      BY <2>2, <3>1, SeqDef
  <2>5. QED
    BY <2>1, <2>4
<1>2. wire' \in Wires
  BY <1>1 DEF Wires, Sent
<1>3. QED
  BY <1>1, <1>2 DEF Queued, InHand, Range
-----------------------------------------------------------------------------
(* The final reports                                                       *)

Booting == {"register", "config", "connect", "deps"}
Attaching == {"attach_ipc", "attach_source", "report", "forward", "run", "accepting"}
Leaving == {"flush", "stop_source", "ended"}
Finalizers == {"stop", "deadline", "consumer"}

\* Where the host is and what its kernel does; no event is accepted, and so
\* nobody finalizes, before the kernel has booted.
Phases ==
  /\ body \in Booting => phase = "init"
  /\ body \in Attaching => phase = "running"
  /\ body = "shutdown" => phase \in {"running", "stopping", "down"}
  /\ body \in Leaving => phase = "down"
  /\ phase \in {"init", "start", "rollback", "failed"} =>
       finalizer = "none" /\ \A e \in Event : pc[e] = "new"

\* The host gets past its loop only when a finalize is done or a stop taken,
\* and a stop is taken once.
StopTaken ==
  /\ body \in Leaving \cup {"shutdown"} => finalizeDone \/ channel = "taken"
  /\ body = "accepting" => channel = "taken"
  /\ mode = "service" /\ channel # "none" => scm # "running"
  /\ mode = "service" /\ (channel # "none" \/ scm \in {"running", "stop_sent"}) =>
       body \notin Booting \cup {"boot", "attach_ipc", "attach_source", "report"}

\* Whoever won the swap, and how long it is waited for.
Finalizing ==
  /\ finalizeDone => finalizer # "none" /\ reported = Len(FinalReports)
  /\ pc["stop"] \notin {"new", "done"} => body = "accepting"
  /\ finalizer = "stop" /\ ~finalizeDone => pc["stop"] = "pre" /\ ran["stop"] = 0
  /\ finalizer = "consumer" /\ ~finalizeDone =>
       consumer = "running" /\ (phase = "running" \/ (phase = "stopping" /\ at > 0))

\* Who may have an envelope of the session manager in hand.
Hands ==
  /\ InHand("boot") => body = "boot" /\ ManagerStarting
  /\ \A who \in Finalizers : InHand(who) => finalizer = who /\ ~finalizeDone

\* A successful flush has emptied the queue, and what was waited for stays out.
Flushed ==
  flush = "ok" =>
    /\ body \in Leaving \ {"flush"}
    /\ \A by \in Manager :
         ~ (by = "deadline" /\ channel = "taken") => ~Queued(by)

ReportsInv == Phases /\ StopTaken /\ Finalizing /\ Hands /\ Flushed

\* Once the host is past its shutdown, the only envelope of the session
\* manager still unpublished is that of a deadline's finalize which a stop
\* overtook.
LEMMA NoHandsLeft ==
  ASSUME ReportsInv, body \in Leaving, NEW by \in Manager, InHand(by)
  PROVE  by = "deadline" /\ channel = "taken"
<1> USE DEF ReportsInv, Phases, StopTaken, Finalizing, Hands, Leaving, Finalizers
<1>1. by # "boot"
  OBVIOUS
<1>2. by # "stop"
  OBVIOUS
<1>3. by # "consumer"
  OBVIOUS
<1>4. by = "deadline" => channel = "taken"
  OBVIOUS
<1>5. QED
  BY <1>1, <1>2, <1>3, <1>4 DEF Manager

\* A step of the host that only moves its body, its tasks or its settings.
LEMMA StartReports ==
  ASSUME LifecycleInv, HostTyped, ReportsInv, Start PROVE HostTyped' /\ ReportsInv'
<1> USE HostAssumption DEF HostTyped, ReportsInv, Phases, StopTaken, Finalizing, Hands, Flushed,
    Booting, Attaching, Leaving, Finalizers, Ending, Manager,
    host, settings, session, inner, vars, lifecycle, pipeline, Goto, InHand, Queued, FinalReports
<1>1. ASSUME Fails, \/ body \in {"register", "config", "deps", "report"}
                    \/ body = "boot" /\ phase = "failed"
      PROVE  HostTyped' /\ ReportsInv'
  BY <1>1 DEF Fails, ManagerStarting
<1>2. CASE Register
  BY <1>1, <1>2, AdvanceOrder DEF Register
<1>3. CASE LoadConfig
  <2>1. CASE Fails
    BY <1>1, <1>3, <2>1 DEF LoadConfig
  <2>2. CASE ~Fails
    <3>1. /\ config' = IF mode = "local" THEN Standalone(config) ELSE config
          /\ body = "config" /\ Advance
          /\ UNCHANGED <<inner, mode, scm, channel>>
      BY <1>3, <2>2 DEF LoadConfig
    <3>2. config' \in [skip : BOOLEAN, full : BOOLEAN]
      BY <3>1 DEF Standalone
    <3>3. phase = "init" /\ finalizer = "none" /\ ~finalizeDone
      BY <3>1
    <3>4. QED
      BY <3>1, <3>2, <3>3, AdvanceOrder
  <2>3. QED
    BY <2>1, <2>2
<1>4. CASE Connect
  BY <1>4, AdvanceOrder DEF Connect
<1>5. CASE ProductionDeps
  BY <1>1, <1>5, AdvanceOrder DEF ProductionDeps
<1>6. CASE BootReport
  <2>1. /\ wire' \in Wires
        /\ \A b \in Publisher \ {"boot"} : wire'[b] = wire[b]
        /\ UNCHANGED <<vars, host, session, flush>>
        /\ body = "boot" /\ ManagerStarting
    BY <1>6, DrawWire DEF BootReport, Publisher
  <2>2. QED
    BY <2>1 DEF Publisher, ManagerStarting
<1>7. CASE Boot
  BY <1>7 DEF Boot, ManagerStarting, BootInit, BootInitDone, BootStart, BootDone, StopHook, StopsDone, Rollback
<1>8. CASE BootFailed
  BY <1>1, <1>8 DEF BootFailed
<1>9. CASE SessionStarts
  BY <1>9, AdvanceOrder DEF SessionStarts, ManagerStarting
<1>10. CASE AttachIpc
  BY <1>10, AdvanceOrder DEF AttachIpc
<1>11. CASE AttachEventSource
  BY <1>11, AdvanceOrder DEF AttachEventSource
<1>12. CASE ReportRunning
  BY <1>1, <1>12, AdvanceOrder DEF ReportRunning
<1>13. CASE Forward
  BY <1>13, AdvanceOrder DEF Forward
<1>14. QED
  BY <1>2, <1>3, <1>4, <1>5, <1>6, <1>7, <1>8, <1>9, <1>10, <1>11, <1>12, <1>13 DEF Start

\* What the stop does to the host, the kernel and the consumer.
LEMMA StopReports ==
  ASSUME LifecycleInv, HostTyped, ReportsInv, Stop PROVE HostTyped' /\ ReportsInv'
<1> USE HostAssumption DEF HostTyped, ReportsInv, Phases, StopTaken, Finalizing, Hands, Flushed,
    Booting, Attaching, Leaving, Finalizers, Ending, Manager, ManagerStarting,
    host, settings, session, inner, vars, lifecycle, pipeline, Goto, InHand, Queued, FinalReports
<1>1. CASE HostReceives
  BY <1>1 DEF HostReceives, Accept
<1>2. CASE HostAccepted
  BY <1>2 DEF HostAccepted
<1>3. CASE HostSees
  BY <1>3 DEF HostSees
<1>4. CASE CancelScheduler
  BY <1>4 DEF CancelScheduler, Shutdown
<1>5. CASE StopPlugin
  BY <1>5 DEF StopPlugin, StopHook, StopsDone, SessionManager, LifecycleInv, LifecycleTyped
<1>6. CASE ShutdownDone
  BY <1>6 DEF ShutdownDone
<1>7. CASE FinalFlush
  <2>1. /\ body = "flush" /\ body' = "stop_source"
        /\ \/ flush' = "ok" /\ wire' = Sent
           \/ flush' = "failed" /\ wire' = wire
        /\ UNCHANGED <<vars, session, settings, scm, channel>>
    BY <1>7 DEF FinalFlush
  <2>2. CASE flush' = "failed" /\ wire' = wire
    BY <2>1, <2>2
  <2>3. CASE flush' = "ok" /\ wire' = Sent
    <3>1. /\ wire' \in Wires
          /\ \A by \in Publisher : ~Queued(by)' /\ (InHand(by)' => InHand(by))
      BY <2>3, SentWire
    <3>2. QED
      BY <2>1, <2>3, <3>1 DEF Publisher
  <2>4. QED
    BY <2>1, <2>2, <2>3
<1>8. CASE StopSource
  BY <1>8 DEF StopSource
<1>9. QED
  BY <1>1, <1>2, <1>3, <1>4, <1>5, <1>6, <1>7, <1>8 DEF Stop

\* The hooks of the pipeline and the finalize they and the consumer run.
LEMMA HookReports ==
  ASSUME LifecycleInv, HostTyped, ReportsInv, NEW e \in Event, Hooks(e)
  PROVE  HostTyped' /\ ReportsInv'
<1> USE HostAssumption DEF HostTyped, ReportsInv, Phases, StopTaken, Finalizing, Hands, Flushed,
    Booting, Attaching, Leaving, Finalizers, Manager, ManagerStarting,
    host, settings, session, inner, vars, lifecycle, pipeline, InHand, Queued, FinalReports
<1>1. CASE ManagerPre(e)
  BY <1>1 DEF ManagerPre, SessionManager, Swap, Pre
<1>2. CASE ReporterPre(e)
  <2>1. /\ Pre(e, "continue") /\ ran[e] = 1
        /\ UNCHANGED <<host, session, flush>>
        /\ (e = "source" /\ Draw(e)) \/ wire' = wire
    BY <1>2 DEF ReporterPre, EventReporter
  <2>2. wire' \in Wires /\ \A b \in Publisher \ {"source"} : wire'[b] = wire[b]
    BY <2>1, DrawWire DEF Publisher
  <2>3. \A b \in Manager : wire'[b] = wire[b]
    BY <2>2 DEF Publisher
  <2>4. QED
    BY <2>1, <2>2, <2>3 DEF Pre
<1>3. CASE PipelineRest(e)
  BY <1>3 DEF PipelineRest, PreDone, Post, PostDone
<1>4. QED
  BY <1>1, <1>2, <1>3 DEF Hooks

LEMMA FinalizeReports ==
  ASSUME LifecycleInv, HostTyped, ReportsInv, NEW who \in Event \cup {"consumer"}, Finalize(who)
  PROVE  HostTyped' /\ ReportsInv'
<1> USE HostAssumption DEF HostTyped, ReportsInv, Phases, StopTaken, Finalizing, Hands, Flushed,
    Booting, Attaching, Leaving, Finalizers, Manager, ManagerStarting,
    host, settings, session, inner, vars, lifecycle, pipeline, FinalReports
<1>1. CASE FinalizeReport(who)
  <2>1. /\ finalizer = who /\ reported < Len(FinalReports) /\ Draw(who) /\ reported' = reported + 1
        /\ UNCHANGED <<vars, host, finalizer, finalizeDone, consumer, flush>>
    BY <1>1 DEF FinalizeReport
  <2>2. who \in Publisher /\ who # "boot"
    BY DEF Publisher
  <2>3. /\ wire' \in Wires
        /\ \A b \in Publisher \ {who} : wire'[b] = wire[b]
        /\ Queued(who)' => Queued(who)
    BY <2>1, <2>2, DrawWire
  <2>4. ~finalizeDone
    BY <2>1
  <2>5. Hands'
    BY <2>1, <2>2, <2>3, <2>4 DEF InHand, Publisher
  <2>6. Flushed'
    BY <2>1, <2>2, <2>3 DEF Queued, Publisher
  <2>7. QED
    BY <2>1, <2>3, <2>4, <2>5, <2>6
<1>2. CASE FinalizeDone(who)
  BY <1>2 DEF FinalizeDone, InHand, Queued
<1>3. QED
  BY <1>1, <1>2 DEF Finalize

\* The publishers, the broker's client and the tasks around the pipeline.
LEMMA WireReports ==
  ASSUME LifecycleInv, HostTyped, ReportsInv,
         (\E by \in Publisher : Publish(by)) \/ ClientSends \/ ReporterConsumes
  PROVE  HostTyped' /\ ReportsInv'
<1> USE HostAssumption DEF HostTyped, ReportsInv, Phases, StopTaken, Finalizing, Hands, Flushed,
    Booting, Attaching, Leaving, Finalizers, ManagerStarting,
    host, settings, session, inner, vars, lifecycle, pipeline, FinalReports
<1>1. ASSUME NEW by \in Publisher, Publish(by) PROVE HostTyped' /\ ReportsInv'
  <2>1. /\ wire' \in Wires
        /\ \A b \in Publisher \ {by} : wire'[b] = wire[b]
        /\ InHand(by)
        /\ UNCHANGED <<vars, host, session, flush>>
    BY <1>1, PublishWire
  <2>2. Hands'
    BY <2>1 DEF InHand, Publisher
  <2>3. Flushed'
    <3>1. SUFFICES ASSUME flush = "ok", NEW b \in Manager, ~ (b = "deadline" /\ channel = "taken")
                   PROVE  ~Queued(b)'
      BY <2>1
    <3>2. ~InHand(b)
      BY <3>1, NoHandsLeft
    <3>3. wire'[b] = wire[b]
      BY <2>1, <3>2 DEF Manager, Publisher
    <3>4. QED
      BY <3>1, <3>3 DEF Queued
  <2>4. QED
    BY <2>1, <2>2, <2>3
<1>2. CASE ClientSends
  <2>1. /\ wire' \in Wires
        /\ \A by \in Publisher : ~Queued(by)' /\ (InHand(by)' => InHand(by))
        /\ UNCHANGED <<vars, host, session, flush>>
    BY <1>2, SentWire DEF ClientSends
  <2>2. QED
    BY <2>1 DEF Manager, Publisher
<1>3. CASE ReporterConsumes
  <2>1. /\ wire' \in Wires
        /\ \A b \in Publisher \ {"reporter"} : wire'[b] = wire[b]
        /\ UNCHANGED <<vars, host, session, flush>>
    BY <1>3, DrawWire DEF ReporterConsumes, Publisher
  <2>2. QED
    BY <2>1 DEF Manager, Publisher, InHand, Queued
<1>4. QED
  BY <1>1, <1>2, <1>3

LEMMA TaskReports ==
  ASSUME LifecycleInv, HostTyped, ReportsInv,
         \/ Forwards \/ SchedulerReturns \/ SchedulerDropped
         \/ ScmStops \/ CtrlC \/ SourceAccepts \/ Deadline \/ ScopeDied
         \/ UNCHANGED allVars
  PROVE  HostTyped' /\ ReportsInv'
<1> USE HostAssumption DEF HostTyped, ReportsInv, Phases, StopTaken, Finalizing, Hands, Flushed,
    Booting, Attaching, Leaving, Finalizers, Manager, ManagerStarting,
    host, settings, session, inner, vars, lifecycle, pipeline, InHand, Queued, FinalReports
<1>1. CASE Forwards
  BY <1>1 DEF Forwards
<1>2. CASE SchedulerReturns \/ SchedulerDropped
  BY <1>2 DEF SchedulerReturns, SchedulerDropped
<1>3. CASE ScmStops
  BY <1>3 DEF ScmStops
<1>4. CASE CtrlC
  BY <1>4 DEF CtrlC
<1>5. CASE SourceAccepts \/ Deadline
  BY <1>5 DEF SourceAccepts, Deadline, Accept
<1>6. CASE ScopeDied
  BY <1>6 DEF ScopeDied, Swap
<1>7. CASE UNCHANGED allVars
  BY <1>7 DEF allVars
<1>8. QED
  BY <1>1, <1>2, <1>3, <1>4, <1>5, <1>6, <1>7

\* The host drives the lifecycle only through boot and shutdown.
LEMMA HostLifecycle ==
  ASSUME LifecycleInv, [HostNext]_allVars PROVE LifecycleInv'
<1> USE DEF allVars, inner, host, settings, session, vars, pipeline
<1> SUFFICES Lifecycle \/ UNCHANGED lifecycle
  BY LifecycleStep, LifecycleFrame
<1>1. CASE Start
  BY <1>1 DEF Start, Register, LoadConfig, Connect, ProductionDeps, BootReport, Boot, BootFailed,
              SessionStarts, AttachIpc, AttachEventSource, ReportRunning, Forward, Fails, Lifecycle
<1>2. CASE Stop
  BY <1>2 DEF Stop, HostReceives, HostAccepted, HostSees, CancelScheduler, StopPlugin, ShutdownDone,
              FinalFlush, StopSource, Accept, Lifecycle
<1>3. CASE Forwards \/ SchedulerReturns \/ SchedulerDropped \/ ClientSends
  BY <1>3 DEF Forwards, SchedulerReturns, SchedulerDropped, ClientSends
<1>4. CASE \E e \in Event : Hooks(e)
  BY <1>4 DEF Hooks, ManagerPre, ReporterPre, PipelineRest, Pre, PreDone, Post, PostDone
<1>5. CASE (\E who \in Event \cup {"consumer"} : Finalize(who)) \/ \E by \in Publisher : Publish(by)
  BY <1>5 DEF Finalize, FinalizeReport, FinalizeDone, Publish
<1>6. CASE Stimulus
  BY <1>6 DEF Stimulus, ScmStops, CtrlC, SourceAccepts, Deadline, ScopeDied, ReporterConsumes, Accept
<1>7. CASE UNCHANGED allVars
  BY <1>7
<1>8. QED
  BY <1>1, <1>2, <1>3, <1>4, <1>5, <1>6, <1>7 DEF HostNext, Progress

HostInv == LifecycleInv /\ HostTyped /\ ReportsInv

\* The kernel's phases, the tasks and the envelopes agree in every state that a
\* host body reaches.
THEOREM HostInvariant == HostSpec => []HostInv
<1>1. HostInit => HostInv
  <2> SUFFICES ASSUME HostInit PROVE HostInv
    OBVIOUS
  <2>1. LifecycleInv
    BY LifecycleInit DEF HostInit
  <2>2. mode \in DOMAIN Bodies /\ body = Bodies[mode][1] /\ config \in [skip : BOOLEAN, full : BOOLEAN]
    BY HostAssumption DEF HostInit
  <2>3. body \in {"register", "config"} /\ body \in Range(Bodies[mode])
    BY <2>2 DEF Bodies, ServiceBody, ConsoleBody, DemoBody, LocalBody, Range
  <2>4. wire = [by \in Publisher |-> <<>>] /\ wire \in Wires
    BY DEF HostInit, Wires
  <2>5. \A by \in Publisher : ~InHand(by)
    BY <2>4 DEF InHand, Range
  <2>6. HostTyped
    BY <2>2, <2>3, <2>4 DEF HostInit, Init, HostTyped
  <2>7. ReportsInv
    BY <2>3, <2>5, HostAssumption
       DEF HostInit, Init, ReportsInv, Phases, StopTaken, Finalizing, Hands, Flushed,
           Booting, Attaching, Leaving, Finalizers, Publisher
  <2>8. QED
    BY <2>1, <2>6, <2>7 DEF HostInv
<1>2. HostInv /\ [HostNext]_allVars => HostInv'
  <2> SUFFICES ASSUME HostInv, [HostNext]_allVars PROVE HostInv'
    OBVIOUS
  <2> USE DEF HostInv
  <2>1. LifecycleInv'
    BY HostLifecycle
  <2>2. HostTyped' /\ ReportsInv'
    BY StartReports, StopReports, HookReports, FinalizeReports, WireReports, TaskReports
       DEF HostNext, Progress, Stimulus
  <2>3. QED
    BY <2>1, <2>2
<1>3. QED
  BY <1>1, <1>2, PTL DEF HostSpec

\* The plugins as the agent's hosts drive them.
THEOREM HostLeavesNothingStarted == HostSpec => []NothingStartedIsLeft
<1>1. HostInv => NothingStartedIsLeft
  BY DEF HostInv, LifecycleInv
<1>2. QED
  BY <1>1, HostInvariant, PTL

\* After a flush that succeeded no report of the boot or of a finalize that
\* the host waited for is queued or unpublished, in any host body.
THEOREM ReportsLeave == HostSpec => []FinalReportsLeave
<1>1. HostInv => FinalReportsLeave
  <2> SUFFICES ASSUME HostInv, flush = "ok", NEW by \in Manager
               PROVE  /\ ~ (by = "deadline" /\ channel = "taken") =>
                           Range(wire[by]) \cap {"hand", "queued"} = {}
                      /\ "refused" \notin Range(wire[by])
    BY DEF FinalReportsLeave
  <2>1. body \in Leaving /\ (~ (by = "deadline" /\ channel = "taken") => ~Queued(by))
    BY DEF HostInv, ReportsInv, Flushed
  <2>2. ~ (by = "deadline" /\ channel = "taken") => ~InHand(by)
    BY <2>1, NoHandsLeft DEF HostInv
  <2>3. wire[by] \in Seq(Envelope)
    BY DEF HostInv, HostTyped, Wires, Manager, Publisher
  <2>4. "refused" \notin Range(wire[by])
    BY <2>3 DEF Range, Envelope
  <2>5. QED
    BY <2>1, <2>2, <2>4 DEF Queued, InHand
<1>2. QED
  BY <1>1, HostInvariant, PTL
=============================================================================
