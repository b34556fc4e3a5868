------------------------------ MODULE JobQueue ------------------------------
(***************************************************************************)
(* The bounded job queue of the agent's slow paths (app/worker.rs): drops  *)
(* upload, screenshots and launches are submitted from the pipeline        *)
(* without waiting and handled by one worker task.                         *)
(*                                                                         *)
(* The channel is tokio's mpsc (external): try_send is one step, recv of a *)
(* channel without senders returns what is buffered before it returns      *)
(* None.  The worker counts what is left and drops the receiver in two     *)
(* steps: a submit of another thread may come between them.                *)
(***************************************************************************)
EXTENDS Naturals, Sequences, FiniteSets

CONSTANTS
  Job,        \* the jobs submitted, each once
  Capacity,   \* of the channel
  NoJob       \* the handler is not running

ASSUME QueueAssumption ==
  /\ IsFiniteSet(Job)
  /\ Capacity \in Nat \ {0}
  /\ NoJob \notin Job

VARIABLES
  queue,      \* the channel's buffer
  worker,     \* "select", "handle", "count" (left the loop), "exited"
  current,    \* the job the handler runs
  cancelled,  \* the token of stop()
  dropped,    \* the loss counter
  owner,      \* the JobQueue value: "live", "stopping", "stopped", "dropped"
  handles,    \* SubmitHandles still exist
  result,     \* what became of each submit (below)
  handled     \* the jobs whose handler has returned, in order

channel == <<queue, dropped>>
loop == <<worker, current, handled>>
ends == <<owner, handles, cancelled>>
queueVars == <<channel, loop, ends, result>>

QueueInit ==
  /\ queue = <<>> /\ dropped = 0
  /\ worker = "select" /\ current = NoJob /\ handled = <<>>
  /\ owner = "live" /\ handles = TRUE /\ cancelled = FALSE
  /\ result = [j \in Job |-> "new"]

Senders == owner \in {"live", "stopping", "stopped"} \/ handles

\* submit: a full channel counts the loss, a closed one does not.  It returns
\* true for "accepted" and for "late" (accepted when the worker has already
\* counted what is left), false for "full" and "closed".
Submit(j) ==
  /\ handles
  /\ result[j] = "new"
  /\ \/ /\ worker # "exited" /\ Len(queue) < Capacity
        /\ queue' = Append(queue, j)
        /\ result' = [result EXCEPT ![j] = IF worker = "count" THEN "late" ELSE "accepted"]
        /\ UNCHANGED dropped
     \/ /\ worker # "exited" /\ Len(queue) = Capacity
        /\ result' = [result EXCEPT ![j] = "full"]
        /\ dropped' = dropped + 1
        /\ UNCHANGED queue
     \/ /\ worker = "exited"
        /\ result' = [result EXCEPT ![j] = "closed"]
        /\ UNCHANGED channel
  /\ UNCHANGED <<loop, ends>>

\* The select is biased: a cancelled token wins over a queued job.
WorkerTakes ==
  /\ worker = "select" /\ ~cancelled /\ queue # <<>>
  /\ worker' = "handle"
  /\ current' = Head(queue)
  /\ queue' = Tail(queue)
  /\ UNCHANGED <<dropped, handled, ends, result>>

HandlerReturns ==
  /\ worker = "handle"
  /\ worker' = "select"
  /\ handled' = Append(handled, current)
  /\ current' = NoJob
  /\ UNCHANGED <<channel, ends, result>>

\* Faulty variants: what is left is not counted; the token is ignored.
BreaksUncounted ==
  /\ worker = "select"
  /\ cancelled \/ (queue = <<>> /\ ~Senders)
  /\ worker' = "count"
  /\ UNCHANGED <<channel, current, handled, ends, result>>
BreaksOnlyWhenClosed ==
  /\ worker = "select"
  /\ queue = <<>> /\ ~Senders
  /\ worker' = "count"
  /\ UNCHANGED <<channel, current, handled, ends, result>>
\* The loop is left when the token is cancelled, or when every sender is gone
\* and the buffer is empty; what is left is counted.
WorkerBreaks ==
  /\ worker = "select"
  /\ cancelled \/ (queue = <<>> /\ ~Senders)
  /\ worker' = "count"
  /\ dropped' = dropped + Len(queue)
  /\ UNCHANGED <<queue, current, handled, ends, result>>

\* The task ends and the receiver goes, with whatever it still holds.
WorkerExits ==
  /\ worker = "count"
  /\ worker' = "exited"
  /\ queue' = <<>>
  /\ UNCHANGED <<dropped, current, handled, ends, result>>

\* stop(): cancel, then await the worker.
Stop ==
  /\ owner = "live"
  /\ owner' = "stopping" /\ cancelled' = TRUE
  /\ UNCHANGED <<channel, loop, handles, result>>

StopReturns ==
  /\ owner = "stopping" /\ worker = "exited"
  /\ owner' = "stopped"
  /\ UNCHANGED <<channel, loop, handles, cancelled, result>>

\* The JobQueue or the last SubmitHandle is dropped.
DropOwner ==
  /\ owner = "live"
  /\ owner' = "dropped"
  /\ UNCHANGED <<channel, loop, handles, cancelled, result>>

DropHandles ==
  /\ handles
  /\ handles' = FALSE
  /\ UNCHANGED <<channel, loop, owner, cancelled, result>>

-----------------------------------------------------------------------------
(* Properties                                                              *)

Accepted == {j \in Job : result[j] = "accepted"}
Late == {j \in Job : result[j] = "late"}
Full == {j \in Job : result[j] = "full"}
Held == {queue[i] : i \in 1 .. Len(queue)}
Done == {handled[i] : i \in 1 .. Len(handled)}

Looping == worker \in {"select", "handle"}

\* The accepted jobs that no handler has taken.
Left == Accepted \ (Done \cup {current})

\* No job is lost in silence (worker.rs: "Jobs left queued at shutdown are
\* losses, not silence").  While the worker loops, what it has not taken waits
\* in the queue and the counter is exactly the jobs a full channel refused; once
\* it has left, the counter is exactly those and the jobs it abandoned.  The two
\* kinds of submit that are lost uncounted come after that count: one between the
\* count and the end of the task, and one to the closed channel.
LossesCounted ==
  IF Looping THEN Left = Held /\ dropped = Cardinality(Full)
  ELSE dropped = Cardinality(Full \cup Left)

\* stop() returns: the worker sees the token after its current job, however
\* many jobs are queued or still arrive (or the power goes).
StopEnds == (owner = "stopping") ~> (owner # "stopping")

=============================================================================
