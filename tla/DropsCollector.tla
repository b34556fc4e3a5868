--------------------------- MODULE DropsCollector ---------------------------
(***************************************************************************)
(* The drops collector (plugins/drops_collector.rs) over the job queue of  *)
(* app/worker.rs: every DropClosed of the bus becomes a job, and one       *)
(* worker copies the file out under a cap, drops it when its content is    *)
(* known, gives it its final name, counts it and uploads it.               *)
(*                                                                         *)
(* A file's content is a sequence of chunks.  The sample may write to a    *)
(* file, or unlink it, at any moment of its copy.  Every file operation    *)
(* may fail.  Power may go: an unsynced file then keeps any prefix, and a  *)
(* rename that was not synced may be undone.  The next boot counts its     *)
(* names from 0 again and, when the session was not saved, under the same  *)
(* session id: Init finds what such a boot may have left in the directory. *)
(***************************************************************************)
EXTENDS JobQueue, SequencesExt

CONSTANTS
  Chunk,          \* the contents of one read
  Hash8(_),       \* the first 8 hex digits of the digest of a content
  MaxSize,        \* drops.max_size, in chunks
  Limit,          \* drops.limit_per_session
  MaxEdits        \* bound: changes of the sample to its files

ASSUME CollectorAssumption ==
  /\ IsFiniteSet(Chunk)
  /\ {MaxSize, Limit, MaxEdits} \subseteq Nat

VARIABLES
  source,     \* job -> the dropped file: its data, and whether it has a name
  dir,        \* the drops directory: name -> [data, synced]
  pc,         \* where collect_drop is
  read,       \* the chunks read so far: what the digest is of
  nameSeq,    \* name_seq
  seen,       \* seen_hashes
  collected,  \* the copies counted against the limit
  uploaded,   \* what the controller has taken: copies by name
  up,         \* the power
  edits       \* changes of the sample so far

collector == <<pc, read, nameSeq, seen, collected>>
world == <<source, up, edits>>
dvars == <<queueVars, collector, world, dir, uploaded>>

Part(n) == <<"part", n>>
CopyName(n, h) == <<"copy", n, h>>
ThisPart == Part(nameSeq - 1)
Finals == {f \in DOMAIN dir : f[1] = "copy"}
Unlink(d, f) == [g \in DOMAIN d \ {f} |-> d[g]]
Put(d, f, v) == [g \in DOMAIN d \cup {f} |-> IF g = f THEN v ELSE d[g]]

DInit ==
  /\ QueueInit
  /\ source \in [Job -> {[data |-> d, linked |-> TRUE] : d \in BoundedSeq(Chunk, MaxSize)}]
  /\ \E d \in BoundedSeq(Chunk, MaxSize) :
       \E left \in SUBSET {Part(0), Part(1), CopyName(0, Hash8(d))} :
         dir = [f \in left |-> [data |-> d, synced |-> TRUE]]
  /\ pc = "idle" /\ read = <<>> /\ nameSeq = 0 /\ seen = {} /\ collected = 0
  /\ uploaded = {} /\ up = TRUE /\ edits = 0

-----------------------------------------------------------------------------
(* The consumer task                                                       *)

\* DropClosed is submitted; what a lagging receiver loses is never submitted.
ConsumerReceives(j) ==
  /\ Submit(j)
  /\ UNCHANGED <<collector, world, dir, uploaded>>

\* stop cancels consumer and queue, waits for the worker, then for the consumer.
ConsumerEnds ==
  /\ cancelled
  /\ DropHandles
  /\ UNCHANGED <<collector, world, dir, uploaded>>

QueueStep ==
  /\ WorkerTakes \/ WorkerBreaks \/ WorkerExits \/ StopReturns
  /\ UNCHANGED <<collector, world, dir, uploaded>>

\* stop(), or the plugin goes without it.
PluginEnds ==
  /\ Stop \/ DropOwner
  /\ UNCHANGED <<collector, world, dir, uploaded>>
-----------------------------------------------------------------------------
(* collect_drop                                                            *)

at(label) == worker = "handle" /\ pc = label
quiet == <<queueVars, world, uploaded>>
To(label) == pc' = label

\* The gate, before anything of the file is touched, then the pre-flight size
\* check: a vanished or a large file ends the job.
Preflight ==
  /\ at("idle")
  /\ To(IF /\ collected < Limit
            /\ source[current].linked
            /\ Len(source[current].data) <= MaxSize
         THEN "open" ELSE "done")
  /\ UNCHANGED <<quiet, read, nameSeq, seen, collected, dir>>

\* Faulty variant: a leftover of the same name is written over, not refused.
OpenPartOver ==
  /\ at("open")
  /\ nameSeq' = nameSeq + 1 /\ read' = <<>>
  /\ LET part == Part(nameSeq) IN
     /\ dir' = IF part \in DOMAIN dir THEN dir
               ELSE Put(dir, part, [data |-> <<>>, synced |-> FALSE])
     /\ To("copy")
  /\ UNCHANGED <<quiet, seen, collected>>

\* persist_copy takes its number and copy_capped opens both files: the part
\* must be new.  Whatever fails leads to the removal of the part, somebody
\* else's of that name included; a missing directory ends the job at once.
OpenPart ==
  /\ at("open")
  /\ nameSeq' = nameSeq + 1 /\ read' = <<>>
  /\ LET part == Part(nameSeq) IN
     \/ To("done") /\ UNCHANGED dir
     \/ To("remove") /\ UNCHANGED dir
     \/ /\ source[current].linked /\ part \notin DOMAIN dir
        /\ dir' = Put(dir, part, [data |-> <<>>, synced |-> FALSE])
        /\ To("copy")
  /\ UNCHANGED <<quiet, seen, collected>>

\* One read: over the cap, or a failed read or write, and the copy is aborted.
CopyChunk ==
  /\ at("copy")
  /\ Len(read) < Len(source[current].data)
  /\ LET chunk == source[current].data[Len(read) + 1]
         written == Append(dir[ThisPart].data, chunk)
     IN \/ To("remove") /\ UNCHANGED <<dir, read>>
        \/ /\ Len(read) + 1 <= MaxSize
           /\ read' = Append(read, chunk)
           /\ dir' = [dir EXCEPT ![ThisPart].data = written]
           /\ UNCHANGED pc
  /\ UNCHANGED <<quiet, nameSeq, seen, collected>>

\* End of file: flush and sync_all.
CopyEnds ==
  /\ at("copy")
  /\ Len(read) >= Len(source[current].data)
  /\ \/ To("remove") /\ UNCHANGED dir
     \/ To("name") /\ dir' = [dir EXCEPT ![ThisPart].synced = TRUE]
  /\ UNCHANGED <<quiet, read, nameSeq, seen, collected>>

\* Faulty variant: the hash is noted although the rename fails.
NameCopyBurning ==
  /\ at("name")
  /\ LET h == Hash8(read) IN
     /\ seen' = seen \cup {h}
     /\ \/ To("remove") /\ UNCHANGED dir
        \/ /\ h \notin seen
           /\ dir' = Put(Unlink(dir, ThisPart), CopyName(nameSeq - 1, h), dir[ThisPart])
           /\ To("count")
  /\ UNCHANGED <<quiet, read, nameSeq, collected>>

\* A known content is dropped; a new one gets its final name, and only then is
\* its hash noted.
NameCopy ==
  /\ at("name")
  /\ LET h == Hash8(read) IN
     \/ To("remove") /\ UNCHANGED <<dir, seen>>
     \/ /\ h \notin seen
        /\ dir' = Put(Unlink(dir, ThisPart), CopyName(nameSeq - 1, h), dir[ThisPart])
        /\ seen' = seen \cup {h}
        /\ To("count")
  /\ UNCHANGED <<quiet, read, nameSeq, collected>>

\* The cleanup of every failure; its own failure is ignored.
RemovePart ==
  /\ at("remove")
  /\ To("done")
  /\ dir' = Unlink(dir, ThisPart) \/ UNCHANGED dir
  /\ UNCHANGED <<quiet, read, nameSeq, seen, collected>>

Count ==
  /\ at("count")
  /\ collected' = collected + 1
  /\ To("report")
  /\ UNCHANGED <<quiet, read, nameSeq, seen, dir>>

\* report_and_upload: drop.copied is published, or fails to be, which is logged.
\* Without an endpoint nothing is uploaded.
Report ==
  /\ at("report")
  /\ To("upload") \/ To("done")
  /\ UNCHANGED <<quiet, read, nameSeq, seen, collected, dir>>

\* upload_file_at (upload/http.rs): the copy is opened, refused when it is larger
\* than the cap, and streamed through a second cap; what goes wrong, on the way or
\* in the answer, is logged by the collector.
Upload ==
  /\ at("upload")
  /\ LET copy == CopyName(nameSeq - 1, Hash8(read))
         sent == IF copy \in DOMAIN dir /\ Len(dir[copy].data) <= MaxSize
                 THEN {[name |-> copy, data |-> dir[copy].data]} ELSE {}
     IN (uploaded' = uploaded \cup sent \/ UNCHANGED uploaded)
  /\ To("done")
  /\ UNCHANGED <<queueVars, world, read, nameSeq, seen, collected, dir>>

CollectReturns ==
  /\ pc = "done"
  /\ HandlerReturns
  /\ To("idle") /\ read' = <<>>
  /\ UNCHANGED <<nameSeq, seen, collected, world, dir, uploaded>>

Collect ==
  \/ Preflight \/ OpenPart \/ CopyChunk \/ CopyEnds \/ NameCopy
  \/ RemovePart \/ Count \/ Report \/ Upload \/ CollectReturns
-----------------------------------------------------------------------------
(* The sample and the power                                                *)

SampleWrites(j) ==
  /\ edits < MaxEdits
  /\ Len(source[j].data) <= MaxSize
  /\ \E c \in Chunk : source' = [source EXCEPT ![j].data = Append(@, c)]
  /\ edits' = edits + 1
  /\ UNCHANGED <<queueVars, collector, up, dir, uploaded>>
SampleUnlinks(j) ==
  /\ edits < MaxEdits /\ source[j].linked
  /\ source' = [source EXCEPT ![j].linked = FALSE]
  /\ edits' = edits + 1
  /\ UNCHANGED <<queueVars, collector, up, dir, uploaded>>

\* What a power loss may leave of a file, and of the name of the latest copy.
Survives(v) == IF v.synced THEN {v.data} ELSE Prefixes(v.data)
Undone(f) == IF f[1] = "copy" THEN {f, Part(f[2])} ELSE {f}
PowerLoss ==
  /\ up' = FALSE
  /\ \E left \in {g \in [DOMAIN dir -> UNION {Survives(dir[f]) : f \in DOMAIN dir}] :
                    \A f \in DOMAIN dir : g[f] \in Survives(dir[f])},
        name \in {g \in [DOMAIN dir -> UNION {Undone(f) : f \in DOMAIN dir}] :
                    \A f \in DOMAIN dir : g[f] \in Undone(f)} :
       dir' = [n \in {name[f] : f \in DOMAIN dir} |->
                 LET f == CHOOSE f \in DOMAIN dir : name[f] = n
                 IN [data |-> left[f], synced |-> TRUE]]
  /\ queue' = <<>> /\ dropped' = 0
  /\ worker' = "exited" /\ current' = NoJob /\ handled' = <<>>
  /\ owner' = "dropped" /\ handles' = FALSE /\ cancelled' = FALSE
  /\ result' = [j \in Job |-> "new"]
  /\ pc' = "idle" /\ read' = <<>> /\ nameSeq' = 0 /\ seen' = {} /\ collected' = 0
  /\ UNCHANGED <<source, edits, uploaded>>

DNext ==
  /\ up
  /\ \/ \E j \in Job : ConsumerReceives(j) \/ SampleWrites(j) \/ SampleUnlinks(j)
     \/ ConsumerEnds \/ QueueStep \/ PluginEnds \/ Collect \/ PowerLoss

DSpec == DInit /\ [][DNext]_dvars

\* The worker task is scheduled, file operations return, and a request ends by
\* REQUEST_TIMEOUT.
DFairness == WF_dvars(QueueStep) /\ WF_dvars(Collect)

DFairSpec == DSpec /\ DFairness
-----------------------------------------------------------------------------
(* Properties                                                              *)

\* A file with a final name, and one the controller was given under that name, is
\* the whole content its name was hashed from, of at most max_size, whatever the
\* sample did to the source meanwhile, whatever an earlier boot left behind, and
\* after a power loss too (the create_new and sync_all of copy_capped).
NamedIsWhole ==
  /\ \A f \in Finals : Hash8(dir[f].data) = f[3] /\ Len(dir[f].data) <= MaxSize
  /\ \A u \in uploaded : Hash8(u.data) = u.name[3]

\* The session budget is spent on copies that exist and on nothing else: every
\* hash noted, and every unit counted, is a copy in the directory, and there are
\* never more than limit_per_session of them (collected is raised after persist_copy, the hash noted after the rename).
SpentOnCopies ==
  /\ collected <= Limit
  /\ Cardinality(seen) = collected + (IF pc = "count" THEN 1 ELSE 0)
  /\ \A h \in seen : \E f \in Finals : f[3] = h
=============================================================================
