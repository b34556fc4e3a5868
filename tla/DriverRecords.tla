---------------------------- MODULE DriverRecords ----------------------------
(***************************************************************************)
(* The telemetry path of the kernel driver (secoutfall.cpp, Queue.h,       *)
(* Identity.h) into the agent (driver_event_source.rs): callbacks on       *)
(* several processors draw a sequence number, look the identity of the     *)
(* process up and push the record into one of three bounded queues; the    *)
(* agent drains them in batches and maps each record to a source event.    *)
(* Before the first drain it pushes its policies (secoutfall-agent.rs,     *)
(* driver_control_device.rs), which switch the classes of records on.      *)
(*                                                                         *)
(* A process has one thread in a callback at a time.  The identity of a    *)
(* process, its witnessed creation time, is the number of its creation.    *)
(***************************************************************************)
EXTENDS Naturals, Sequences, FiniteSets

CONSTANTS
  Pid,        \* process ids, recycled
  MaxSeq,     \* bound on the records
  MaxBorn,    \* bound on the processes
  MaxFaults,  \* bound on failed allocations and rejected records
  MaxIdents,  \* entries of the identity table
  Capacity,   \* of each of the three queues: [items, files, drops]
  Buffer,     \* size of the drain buffer
  NameCap     \* entries of the agent's name cache

ASSUME DriverAssumption ==
  /\ {MaxSeq, MaxBorn, MaxIdents, NameCap} \subseteq Nat \ {0} /\ MaxFaults \in Nat
  /\ Capacity \in [{"items", "files", "drops"} -> Nat \ {0}]
  /\ Buffer \in Nat \ {0, 1}

VARIABLES
  \* the driver and the processes it watches
  proc,       \* "none", "starting", "running", "exited" (handles still close)
  gen,        \* ghost: the number of the process that holds the pid
  born,       \* processes so far
  idents,     \* the identity table, 0 for no entry
  callback,   \* per pid: what is left of the callback it is in
  stream,     \* per pid: the drop state of the file it writes
  nextSeq, queue, overwritten, stopped,
  policy,     \* the policies in force
  \* the agent
  pushing,    \* where push_driver_policies is
  copied,     \* the sensor's copy: "none", "whole", "torn"
  draining,   \* "off", the queue whose head is read next, "pop", "walk", "ended"
  heads,      \* the head sequences read, MaxSeq + 1 for an empty queue
  batch,      \* the records of this drain
  names,      \* the name cache: the process a pid's name was remembered from
  event,      \* the last stop event: its process and the one its name is from
  walked,     \* ghost: records that left a batch, mapped or skipped
  lost,       \* ghost: processes whose ProcessCreated is lost
  faults      \* failed allocations and rejected records

driver == <<proc, gen, born, idents, callback, stream, nextSeq, queue, overwritten, stopped>>
agent == <<draining, heads, batch, names, event, walked>>
policies == <<policy, pushing, copied>>
vars == <<driver, agent, policies, lost, faults>>

Queues == <<"items", "files", "drops">>
Class == {Queues[i] : i \in 1 .. 3}
NoRecord == [seq |-> 0, type |-> "none", pid |-> "none", id |-> 0, gen |-> 0]
Idle == [at |-> "idle", rec |-> NoRecord, then |-> "idle"]
NoEvent == [of |-> 0, name |-> 0]
Unread == [c \in Class |-> MaxSeq + 1]

Init ==
  /\ proc = [p \in Pid |-> "none"] /\ gen = [p \in Pid |-> 0] /\ born = 0
  /\ idents = [p \in Pid |-> 0]
  /\ callback = [p \in Pid |-> Idle] /\ stream = [p \in Pid |-> "none"]
  /\ nextSeq = 0 /\ queue = [c \in Class |-> <<>>] /\ overwritten = 0 /\ stopped = 0
  /\ policy = {} /\ pushing = "open" /\ copied = "none"
  /\ draining = "off" /\ heads = Unread /\ batch = <<>>
  /\ names = [p \in Pid |-> 0] /\ event = NoEvent /\ walked = 0
  /\ lost = {} /\ faults = 0

ClassOf(type) ==
  CASE type = "FileWritten" -> "files"
    [] type = "FileCleanedUp" -> "files"
    [] type = "DropCaptured" -> "drops"
    [] OTHER -> "items"

\* ProcessCreated carries the command line and is the larger record.
Size(rec) == IF rec.type = "ProcessCreated" THEN 2 ELSE 1

SizeOf(recs) == Len(recs) + Cardinality({i \in DOMAIN recs : Size(recs[i]) = 2})
-----------------------------------------------------------------------------
(* Driver: records                                                         *)

\* AllocRecord: the number is drawn here, the push comes later.  Without
\* memory the callback returns, with `otherwise` still to do.
AllocRecord(p, type, id, then) ==
  /\ nextSeq < MaxSeq
  /\ \/ /\ nextSeq' = nextSeq + 1
        /\ callback' = [callback EXCEPT ![p] =
             [at |-> "push", then |-> then,
              rec |-> [seq |-> nextSeq + 1, type |-> type, pid |-> p, id |-> id, gen |-> gen'[p]]]]
        /\ UNCHANGED <<lost, faults>>
     \/ /\ faults < MaxFaults /\ faults' = faults + 1
        /\ callback' = [callback EXCEPT ![p] = [Idle EXCEPT !.at = then]]
        /\ lost' = IF type = "ProcessCreated" THEN lost \cup {gen'[p]} ELSE lost
        /\ UNCHANGED nextSeq

\* Faulty variant: a full queue evicts without counting.
PushUncounted(rec) ==
  LET q == queue[ClassOf(rec.type)] full == Len(q) = Capacity[ClassOf(rec.type)] IN
  /\ queue' = [queue EXCEPT ![ClassOf(rec.type)] = Append(IF full THEN Tail(q) ELSE q, rec)]
  /\ lost' = IF full /\ Head(q).type = "ProcessCreated" THEN lost \cup {Head(q).gen} ELSE lost
  /\ UNCHANGED <<overwritten, stopped>>

\* Queue::Push: a full queue loses its oldest record.
Push(rec) ==
  LET q == queue[ClassOf(rec.type)] full == Len(q) = Capacity[ClassOf(rec.type)] IN
  /\ queue' = [queue EXCEPT ![ClassOf(rec.type)] = Append(IF full THEN Tail(q) ELSE q, rec)]
  /\ overwritten' = IF full THEN overwritten + 1 ELSE overwritten
  /\ lost' = IF full /\ Head(q).type = "ProcessCreated" THEN lost \cup {Head(q).gen} ELSE lost
  /\ UNCHANGED stopped

\* PushDropRecord: a full queue refuses the new record.
PushDropRecord(rec) ==
  LET full == Len(queue["drops"]) = Capacity["drops"] IN
  /\ queue' = IF full THEN queue ELSE [queue EXCEPT !["drops"] = Append(@, rec)]
  /\ stopped' = IF full THEN stopped + 1 ELSE stopped
  /\ UNCHANGED <<overwritten, lost>>

\* The record of a callback reaches its queue.
CallbackPush(p) ==
  LET c == callback[p] IN
  /\ c.at = "push"
  /\ IF c.rec.type = "DropCaptured" THEN PushDropRecord(c.rec) ELSE Push(c.rec)
  /\ callback' = [callback EXCEPT ![p] = [Idle EXCEPT !.at = c.then]]
  /\ proc' = IF c.rec.type = "ProcessCreated" THEN [proc EXCEPT ![p] = "running"] ELSE proc
  /\ UNCHANGED <<gen, born, idents, stream, nextSeq, agent, policies, faults>>
-----------------------------------------------------------------------------
(* Driver: callbacks                                                       *)

\* IdentityTable::Insert: a full table refuses, a tracked pid keeps its entry.
Insert(p, id) ==
  IF idents[p] = 0 /\ Cardinality({q \in Pid : idents[q] # 0}) < MaxIdents
  THEN [idents EXCEPT ![p] = id] ELSE idents

\* OnProcessNotify, create: the process runs once the record is pushed.  The
\* record has no identity of its own, its time is the identity.
\* Without memory for the record the identity is not tracked either.
ProcessCreate(p) ==
  /\ proc[p] = "none" /\ callback[p] = Idle /\ born < MaxBorn
  /\ born' = born + 1 /\ gen' = [gen EXCEPT ![p] = born + 1]
  /\ AllocRecord(p, "ProcessCreated", 0, "idle")
  /\ IF callback'[p] = Idle
     THEN proc' = [proc EXCEPT ![p] = "running"] /\ UNCHANGED idents
     ELSE proc' = [proc EXCEPT ![p] = "starting"] /\ idents' = Insert(p, born + 1)
  /\ UNCHANGED <<stream, queue, overwritten, stopped, agent, policies>>

\* Faulty variant: the entry outlives its process.
ProcessExitKeeps(p) ==
  /\ proc[p] = "running" /\ callback[p] = Idle
  /\ proc' = [proc EXCEPT ![p] = "exited"] /\ UNCHANGED gen
  /\ AllocRecord(p, "ProcessExited", idents[p], "idle")
  /\ UNCHANGED <<born, idents, stream, queue, overwritten, stopped, agent, policies>>

\* OnProcessNotify, exit: the identity is carried out before it is removed.
ProcessExit(p) ==
  /\ proc[p] = "running" /\ callback[p] = Idle
  /\ proc' = [proc EXCEPT ![p] = "exited"] /\ UNCHANGED gen
  /\ AllocRecord(p, "ProcessExited", idents[p], "idle")
  /\ idents' = [idents EXCEPT ![p] = 0]
  /\ UNCHANGED <<born, stream, queue, overwritten, stopped, agent, policies>>

\* The pid is free once the process object is gone.
ProcessGone(p) ==
  /\ proc[p] = "exited" /\ callback[p] = Idle
  /\ proc' = [proc EXCEPT ![p] = "none"] /\ stream' = [stream EXCEPT ![p] = "none"]
  /\ gen' = [gen EXCEPT ![p] = 0]
  /\ UNCHANGED <<born, idents, callback, nextSeq, queue, overwritten, stopped, agent, policies, lost, faults>>

\* OnThreadNotify, OnImageLoadNotify, OnRegistryNotify.
ControlEvent(p) ==
  /\ proc[p] = "running" /\ callback[p] = Idle
  /\ UNCHANGED gen
  /\ AllocRecord(p, "Thread", idents[p], "idle")
  /\ UNCHANGED <<proc, born, idents, stream, queue, overwritten, stopped, agent, policies>>

\* SecOutfallPostWrite: the file record, then the capture of the stream.
PostWrite(p) ==
  /\ proc[p] = "running" /\ callback[p] = Idle /\ "watch" \in policy
  /\ UNCHANGED gen
  /\ AllocRecord(p, "FileWritten", idents[p], "capture")
  /\ UNCHANGED <<proc, born, idents, stream, queue, overwritten, stopped, agent, policies>>

\* TryCaptureDrop: the first write of a stream hard-links it, or leaves the
\* copy to the cleanup.
TryCaptureDrop(p) ==
  /\ callback[p].at = "capture"
  /\ \/ /\ "drops" \in policy /\ stream[p] = "none"
        /\ stream' = [stream EXCEPT ![p] = "linked"]
        /\ UNCHANGED gen /\ AllocRecord(p, "DropCaptured", idents[p], "idle")
     \/ /\ callback' = [callback EXCEPT ![p] = Idle]
        /\ stream' = [stream EXCEPT ![p] = IF "drops" \in policy /\ @ = "none" THEN "pending" ELSE @]
        /\ UNCHANGED <<gen, nextSeq, lost, faults>>
  /\ UNCHANGED <<proc, born, idents, queue, overwritten, stopped, agent, policies>>

\* SecOutfallPostCleanup and TryCleanupCopy; handles also close after the exit
\* callback, when the identity is gone.
PostCleanup(p) ==
  /\ proc[p] \in {"running", "exited"} /\ callback[p] = Idle /\ "watch" \in policy
  /\ stream[p] # "done"
  /\ UNCHANGED gen
  /\ AllocRecord(p, "FileCleanedUp", idents[p], "copy")
  /\ UNCHANGED <<proc, born, idents, stream, queue, overwritten, stopped, agent, policies>>

TryCleanupCopy(p) ==
  /\ callback[p].at = "copy"
  /\ stream' = [stream EXCEPT ![p] = "done"]
  /\ \/ stream[p] = "pending" /\ UNCHANGED gen /\ AllocRecord(p, "DropCaptured", idents[p], "idle")
     \/ callback' = [callback EXCEPT ![p] = Idle] /\ UNCHANGED <<gen, nextSeq, lost, faults>>
  /\ UNCHANGED <<proc, born, idents, queue, overwritten, stopped, agent, policies>>
-----------------------------------------------------------------------------
(* Agent: the policies                                                     *)

PushNext(where) == pushing' = where /\ UNCHANGED <<driver, agent, lost, faults>>

\* The control device and its security; without the device nothing is pushed
\* and the source is attached all the same.
OpenControl ==
  /\ pushing = "open"
  /\ PushNext("sensor") \/ PushNext("done")
  /\ UNCHANGED <<policy, copied>>

\* WindowsSensorStore::materialize: the directory of this boot is made, level
\* by level, with its own security.  An empty path, an unreadable source or any
\* error disarms.
CreateProtectedDir ==
  /\ pushing = "sensor"
  /\ PushNext("copy") \/ PushNext("apply")
  /\ UNCHANGED <<policy, copied>>

\* The source as it was read is written under a new name in that directory.
CopySensor ==
  /\ pushing = "copy"
  /\ \/ PushNext("apply") /\ UNCHANGED copied
     \/ PushNext("verify") /\ copied' \in {"whole", "torn"}
  /\ UNCHANGED policy

\* The copy is read back and hashed; a mismatch removes it.
VerifyCopy ==
  /\ pushing = "verify"
  /\ PushNext("apply")
  /\ copied' = IF copied = "whole" THEN "whole" ELSE "none"
  /\ UNCHANGED policy

\* apply_policies: injection, drops, protection; the first one that the driver
\* rejects ends it.  Only the drops bear on the records.
ApplyPolicies ==
  /\ pushing = "apply"
  /\ policy' \in {policy, policy \cup {"drops"}}
  /\ PushNext("watch") /\ copied' = "none"

\* The file watch is pushed whatever became of the others.
SetFileWatch ==
  /\ pushing = "watch"
  /\ policy' = policy \cup {"watch"} \/ UNCHANGED policy
  /\ PushNext("done") /\ UNCHANGED copied
-----------------------------------------------------------------------------
(* Agent: the drain                                                        *)

OpenSource ==
  /\ draining = "off" /\ pushing = "done"
  /\ draining' = "items"
  /\ UNCHANGED <<driver, heads, batch, names, event, walked, policies, lost, faults>>

\* GET_DATA: the head of each queue, one lock at a time.
ReadHead(i) ==
  /\ draining = Queues[i]
  /\ heads' = [heads EXCEPT ![Queues[i]] =
                IF queue[Queues[i]] = <<>> THEN MaxSeq + 1 ELSE queue[Queues[i]][1].seq]
  /\ draining' = IF i = 3 THEN "pop" ELSE Queues[i + 1]
  /\ UNCHANGED <<driver, batch, names, event, walked, policies, lost, faults>>

Oldest == CHOOSE c \in Class : \A d \in Class : heads[c] <= heads[d]

Fits(c) == queue[c] # <<>> /\ SizeOf(batch) + Size(Head(queue[c])) <= Buffer

\* PopIfFits from the queue with the oldest head; if its record does not fit,
\* from another one.
PopFrom(c) ==
  /\ draining = "pop" /\ heads[Oldest] <= MaxSeq /\ Fits(c)
  /\ c # Oldest => ~ Fits(Oldest)
  /\ batch' = Append(batch, Head(queue[c]))
  /\ queue' = [queue EXCEPT ![c] = Tail(@)]
  /\ draining' = "items" /\ heads' = Unread
  /\ UNCHANGED <<proc, gen, born, idents, callback, stream, nextSeq, overwritten, stopped,
                 names, event, walked, policies, lost, faults>>

DrainReturns ==
  /\ draining = "pop" /\ (heads[Oldest] > MaxSeq \/ \A c \in Class : ~ Fits(c))
  /\ draining' = "walk" /\ heads' = Unread
  /\ UNCHANGED <<driver, batch, names, event, walked, policies, lost, faults>>

\* remember_name: the cache is emptied when it is full.
Remembered(p, g) ==
  IF Cardinality({q \in Pid : names[q] # 0}) >= NameCap
  THEN [q \in Pid |-> IF q = p THEN g ELSE 0]
  ELSE [names EXCEPT ![p] = g]

\* map_record: a start is remembered by name, a stop is given the name its pid
\* is remembered by; a captured drop is only logged.
MapRecord(rec) ==
  /\ names' = IF rec.type = "ProcessCreated" THEN Remembered(rec.pid, rec.gen) ELSE names
  /\ event' = IF rec.type = "ProcessExited" THEN [of |-> rec.gen, name |-> names[rec.pid]] ELSE NoEvent

\* A record that decodes is mapped and accepted.
HandOver ==
  /\ draining = "walk" /\ batch # <<>>
  /\ batch' = Tail(batch) /\ walked' = walked + 1
  /\ MapRecord(Head(batch))
  /\ UNCHANGED <<driver, draining, heads, policies, lost, faults>>

LostOf(recs) == {recs[i].gen : i \in {j \in DOMAIN recs : recs[j].type = "ProcessCreated"}}

\* A record whose payload is rejected costs itself; a header without a usable
\* size costs the rest of the batch.
Skip(recs) ==
  /\ draining = "walk" /\ batch # <<>>
  /\ faults < MaxFaults /\ faults' = faults + 1
  /\ batch' = SubSeq(batch, Len(recs) + 1, Len(batch)) /\ walked' = walked + Len(recs)
  /\ lost' = lost \cup LostOf(recs)
  /\ UNCHANGED <<driver, draining, heads, names, event, policies>>

SkipRecord == Skip(SubSeq(batch, 1, 1))
DropRemainder == Skip(batch)

\* The sleep between two drains, or the cancellation that ends it.
NextDrain ==
  /\ draining = "walk" /\ batch = <<>>
  /\ draining' \in {"items", "ended"} /\ event' = NoEvent
  /\ UNCHANGED <<driver, heads, batch, names, walked, policies, lost, faults>>
-----------------------------------------------------------------------------
Callback(p) ==
  \/ ProcessCreate(p) \/ ProcessExit(p) \/ ProcessGone(p) \/ ControlEvent(p)
  \/ PostWrite(p) \/ TryCaptureDrop(p) \/ PostCleanup(p) \/ TryCleanupCopy(p)
  \/ CallbackPush(p)

PushPolicies == OpenControl \/ CreateProtectedDir \/ CopySensor \/ VerifyCopy \/ ApplyPolicies \/ SetFileWatch

AgentDrain ==
  \/ OpenSource \/ \E i \in 1 .. 3 : ReadHead(i)
  \/ \E c \in Class : PopFrom(c)
  \/ DrainReturns \/ HandOver \/ SkipRecord \/ DropRemainder \/ NextDrain

Next == PushPolicies \/ AgentDrain \/ \E p \in Pid : Callback(p)

Spec == Init /\ [][Next]_vars
-----------------------------------------------------------------------------
(* Properties                                                              *)

Records ==
  (UNION {{queue[c][i] : i \in DOMAIN queue[c]} : c \in Class})
    \cup {batch[i] : i \in DOMAIN batch}
    \cup {callback[p].rec : p \in {q \in Pid : callback[q].at = "push"}}

\* No silent loss: every sequence number drawn belongs to a record that is on
\* its way, is in a counter of the driver, or came out of a batch of the agent,
\* where it was mapped or skipped with a warning ("silent loss is
\* doctrine-forbidden", Queue.h).  `walked' is the true number of the latter; the
\* agent's own counter adds one for a whole remainder it drops
\* (driver_event_source.rs:444).
NoSilentLoss == nextSeq = Cardinality(Records) + overwritten + stopped + walked

\* Attribution is true or unknown, however pids are recycled, the identity
\* table is full or memory is short.  The identity in a record is that of the
\* process the event came from or 0 ("always safe, never wrong", Identity.h);
\* and a stop event gets the name of another process only when the
\* ProcessCreated of its own was lost on the way (remember_name).
AttributionTrue ==
  /\ \A rec \in Records : rec.id \in {0, rec.gen}
  /\ event.name \in {0, event.of} \/ event.of \in lost
=============================================================================
