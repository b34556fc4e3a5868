------------------------------- MODULE Kernel -------------------------------
(***************************************************************************)
(* The kernel (kernel/src/app/services/kernel_service.rs): the lifecycle   *)
(* of the registered plugins (boot with rollback, shutdown) and the        *)
(* pipeline that every inbound event runs through.                         *)
(*                                                                         *)
(* accept() may be called by several tasks at once (the source, the        *)
(* scheduler, the host): each event keeps its own position.  A hook is one *)
(* step; what it does belongs to the plugin.  A stop that fails is logged  *)
(* and counts as done.                                                     *)
(***************************************************************************)
EXTENDS Naturals, Sequences

CONSTANTS
  Plugins,     \* number of plugins registered
  Middleware,  \* number of pipeline steps
  Event        \* events passed to accept()

ASSUME KernelAssumption == Plugins \in Nat /\ Middleware \in Nat

VARIABLES
  phase,   \* "init", "start", "running", "rollback", "failed", "stopping", "down"
  at,      \* the plugin whose hook comes next
  hook,    \* what has been called on each plugin
  stops,   \* the stop calls, in order
  pc,      \* where accept(e) is
  ran      \* its `ran` counter, and in the post loop what is left of it

lifecycle == <<phase, at, hook, stops>>
pipeline == <<pc, ran>>
vars == <<lifecycle, pipeline>>

Init ==
  /\ phase = "init" /\ at = 1
  /\ hook = [p \in 1 .. Plugins |-> "new"] /\ stops = <<>>
  /\ pc = [e \in Event |-> "new"]
  /\ ran = [e \in Event |-> 0]
-----------------------------------------------------------------------------
(* Lifecycle                                                               *)

Rollback(count) == phase' = "rollback" /\ at' = count

\* init all, then start all; the first failure rolls back the plugins before
\* it, and the failing one too when it is a start.
BootInit ==
  /\ phase = "init" /\ at <= Plugins
  /\ \/ hook' = [hook EXCEPT ![at] = "initialized"] /\ at' = at + 1 /\ UNCHANGED phase
     \/ hook' = [hook EXCEPT ![at] = "init_failed"] /\ Rollback(at - 1)
  /\ UNCHANGED <<stops, pipeline>>

BootInitDone ==
  /\ phase = "init" /\ at > Plugins
  /\ phase' = "start" /\ at' = 1
  /\ UNCHANGED <<hook, stops, pipeline>>

\* Faulty variant: the plugin whose start failed is not rolled back.
BootStartSkips ==
  /\ phase = "start" /\ at <= Plugins
  /\ \/ hook' = [hook EXCEPT ![at] = "started"] /\ at' = at + 1 /\ UNCHANGED phase
     \/ hook' = [hook EXCEPT ![at] = "start_failed"] /\ Rollback(at - 1)
  /\ UNCHANGED <<stops, pipeline>>

BootStart ==
  /\ phase = "start" /\ at <= Plugins
  /\ \/ hook' = [hook EXCEPT ![at] = "started"] /\ at' = at + 1 /\ UNCHANGED phase
     \/ hook' = [hook EXCEPT ![at] = "start_failed"] /\ Rollback(at)
  /\ UNCHANGED <<stops, pipeline>>

BootDone ==
  /\ phase = "start" /\ at > Plugins
  /\ phase' = "running"
  /\ UNCHANGED <<at, hook, stops, pipeline>>

Shutdown ==
  /\ phase = "running"
  /\ phase' = "stopping" /\ at' = Plugins
  /\ UNCHANGED <<hook, stops, pipeline>>

\* The loop of rollback and of shutdown: stop in reverse order.
StopHook ==
  /\ phase \in {"rollback", "stopping"} /\ at > 0
  /\ hook' = [hook EXCEPT ![at] = "stopped"]
  /\ stops' = Append(stops, at)
  /\ at' = at - 1
  /\ UNCHANGED <<phase, pipeline>>

StopsDone ==
  /\ phase \in {"rollback", "stopping"} /\ at = 0
  /\ phase' = IF phase = "rollback" THEN "failed" ELSE "down"
  /\ UNCHANGED <<at, hook, stops, pipeline>>
-----------------------------------------------------------------------------
(* accept                                                                  *)

\* The runtime only hands out the inlet of a kernel that has booted.
Accept(e) ==
  /\ phase \in {"running", "stopping", "down"}
  /\ pc[e] = "new"
  /\ pc' = [pc EXCEPT ![e] = "pre"]
  /\ UNCHANGED <<lifecycle, ran>>

\* Pre hook of the next step: Continue, Stop (its post still runs) or Abort.
Pre(e, next) ==
  /\ pc[e] = "pre" /\ ran[e] < Middleware
  /\ ran' = [ran EXCEPT ![e] = IF next = "abort" THEN @ ELSE @ + 1]
  /\ pc' = [pc EXCEPT ![e] = CASE next = "continue" -> "pre"
                               [] next = "stop" -> "post"
                               [] next = "abort" -> "aborted"]
  /\ UNCHANGED lifecycle

PreDone(e) ==
  /\ pc[e] = "pre" /\ ran[e] = Middleware
  /\ pc' = [pc EXCEPT ![e] = "post"]
  /\ UNCHANGED <<lifecycle, ran>>

\* Post hooks of the steps that ran, in reverse.
Post(e) ==
  /\ pc[e] = "post" /\ ran[e] > 0
  /\ ran' = [ran EXCEPT ![e] = @ - 1]
  /\ UNCHANGED <<lifecycle, pc>>

PostDone(e) ==
  /\ pc[e] = "post" /\ ran[e] = 0
  /\ pc' = [pc EXCEPT ![e] = "done"]
  /\ UNCHANGED <<lifecycle, ran>>
-----------------------------------------------------------------------------
Lifecycle ==
  BootInit \/ BootInitDone \/ BootStart \/ BootDone \/ Shutdown \/ StopHook \/ StopsDone

Pipeline(e) ==
  \/ Accept(e)
  \/ \E next \in {"continue", "stop", "abort"} : Pre(e, next)
  \/ PreDone(e) \/ Post(e) \/ PostDone(e)

Next == Lifecycle \/ \E e \in Event : Pipeline(e)

Spec == Init /\ [][Next]_vars
-----------------------------------------------------------------------------
(* Properties                                                              *)

\* No start hook has run before every plugin's init has, and a boot that
\* failed or a kernel that is down has no plugin left whose start was called,
\* even one that failed halfway (boot: "a failed boot never leaves half-live
\* plugins behind").  They are stopped once each and in reverse order, so no
\* plugin outlives one registered before it that it may rely on.
NothingStartedIsLeft ==
  /\ \A p, q \in 1 .. Plugins : hook[p] \in {"started", "start_failed"} => hook[q] # "new"
  /\ phase \in {"failed", "down"} =>
       \A p \in 1 .. Plugins : hook[p] \notin {"started", "start_failed"}
  /\ \A i, j \in 1 .. Len(stops) : i < j => stops[j] < stops[i]

=============================================================================
