----------------------------- MODULE ScopeStore -----------------------------
(***************************************************************************)
(* The JSON scope repository (adapters/driven/scope_store/json.rs):        *)
(* `scope.json` replaced by remove temp, create_new temp, write, fsync,    *)
(* close, rename.  Every file operation is one step, because each is an    *)
(* await point of the saving task.  Several tasks may be saving at once:   *)
(* nothing in the repository serialises them and all use one temp name.    *)
(*                                                                         *)
(* Abstractions.  A file is the value its writer meant to put in it, plus  *)
(* whether all of it is there and which saver still holds it open.  The    *)
(* write, the fsync and the close are one step: until it, a crash leaves   *)
(* a partial file.  The rename itself is taken to survive a power loss     *)
(* (fsync of the directory on unix, the metadata journal on Windows).  The *)
(* handle of a dropped future closes with it; that tokio closes it only    *)
(* when the write in its pool returns is one of the IoErrors of the next   *)
(* save.                                                                   *)
(***************************************************************************)
EXTENDS Naturals

CONSTANTS
  Savers,     \* tasks that may call save
  Value,      \* the scope states that may be saved
  Empty,      \* ScopeState::default(), what a missing file loads as
  NoFile,     \* the name is not bound to a file
  NoOwner,    \* no task holds the file open
  OpenBusy,   \* the OS refuses to remove or rename a file that is open
  IoErrors,   \* file operations may fail for reasons of their own
  Droppable   \* the savers whose future may be dropped between two awaits

\* A file: the value written to it, whether the write is complete, who has it open.
Inode == [val : Value, full : BOOLEAN, own : Savers \cup {NoOwner}]

ASSUME StoreAssumption ==
  /\ Empty \in Value
  /\ NoOwner \notin Savers
  /\ NoFile \notin Inode
  /\ OpenBusy \in BOOLEAN
  /\ IoErrors \in BOOLEAN
  /\ Droppable \subseteq Savers

VARIABLES
  file,     \* what scope.json names
  temp,     \* what scope.json.tmp names
  spc,      \* where each saver is in save()
  snap,     \* the state each saver was called with
  overlap,  \* history: two saves have been in flight together
  last      \* history: the state of the last save that returned Ok

vars == <<file, temp, spc, snap, overlap, last>>

Working == {"remove", "create", "write", "rename"}
Resting == {"idle", "ok", "err"}

TypeOK ==
  /\ file \in Inode \cup {NoFile}
  /\ temp \in Inode \cup {NoFile}
  /\ spc \in [Savers -> Working \cup Resting]
  /\ snap \in [Savers -> Value]
  /\ overlap \in BOOLEAN
  /\ last \in Value

Busy(w) == spc[w] \in Working

\* What load() returns for a file that is missing or complete.
Contents(f) == IF f = NoFile THEN Empty ELSE f.val

\* load() deserialises f: a partial file is an error.
Loadable(f) == f # NoFile => f.full

Opened(f) == f # NoFile /\ f.own # NoOwner

\* The handle of w on f, if it has one, is closed.
Closed(f, w) == IF f # NoFile /\ f.own = w THEN [f EXCEPT !.own = NoOwner] ELSE f

\* As Closed, with the whole value written first.
Written(f, w) ==
  IF f # NoFile /\ f.own = w THEN [f EXCEPT !.own = NoOwner, !.full = TRUE] ELSE f
-----------------------------------------------------------------------------
Init ==
  /\ file = NoFile
  /\ temp = NoFile
  /\ spc = [w \in Savers |-> "idle"]
  /\ snap = [w \in Savers |-> Empty]
  /\ overlap = FALSE
  /\ last = Empty

\* save(v) is called: the snapshot is serialised before the first await.
BeginSave(w, v) ==
  /\ spc[w] \in Resting
  /\ spc' = [spc EXCEPT ![w] = "remove"]
  /\ snap' = [snap EXCEPT ![w] = v]
  /\ overlap' = (overlap \/ \E x \in Savers \ {w} : Busy(x))
  /\ UNCHANGED <<file, temp, last>>

\* A `?` returns early with an error; an open handle is closed as it drops.
FailSave(w) ==
  /\ spc' = [spc EXCEPT ![w] = "err"]
  /\ temp' = Closed(temp, w)
  /\ file' = Closed(file, w)
  /\ UNCHANGED <<snap, overlap, last>>

\* Faulty variant: the target is removed too, to make room for the rename.
RemoveTempAndFile(w) ==
  /\ spc[w] = "remove"
  /\ ~(OpenBusy /\ Opened(temp))
  /\ temp' = NoFile /\ file' = NoFile
  /\ spc' = [spc EXCEPT ![w] = "create"]
  /\ UNCHANGED <<snap, overlap, last>>

\* Faulty variant: the leftover of an earlier save is not removed.
KeepTemp(w) ==
  /\ spc[w] = "remove"
  /\ spc' = [spc EXCEPT ![w] = "create"]
  /\ UNCHANGED <<file, temp, snap, overlap, last>>

\* fs::remove_file(&temp): NotFound is no error.
RemoveTemp(w) ==
  /\ spc[w] = "remove"
  /\ ~(OpenBusy /\ Opened(temp))
  /\ temp' = NoFile
  /\ spc' = [spc EXCEPT ![w] = "create"]
  /\ UNCHANGED <<file, snap, overlap, last>>

\* create_new(true): only when the name is free.
CreateTemp(w) ==
  /\ spc[w] = "create"
  /\ temp = NoFile
  /\ temp' = [val |-> snap[w], full |-> FALSE, own |-> w]
  /\ spc' = [spc EXCEPT ![w] = "write"]
  /\ UNCHANGED <<file, snap, overlap, last>>

\* write_all, sync_all and the close act on the handle, wherever the file now is.
WriteTemp(w) ==
  /\ spc[w] = "write"
  /\ temp' = Written(temp, w)
  /\ file' = Written(file, w)
  /\ spc' = [spc EXCEPT ![w] = "rename"]
  /\ UNCHANGED <<snap, overlap, last>>

\* fs::rename moves whatever the temp name is bound to.
RenameTemp(w) ==
  /\ spc[w] = "rename"
  /\ temp # NoFile
  /\ ~(OpenBusy /\ Opened(temp))
  /\ file' = temp
  /\ temp' = NoFile
  /\ spc' = [spc EXCEPT ![w] = "ok"]
  /\ last' = snap[w]
  /\ UNCHANGED <<snap, overlap>>

\* What the temp name is bound to makes the operation the saver is at fail.
Blocked(w) ==
  \/ spc[w] = "remove" /\ OpenBusy /\ Opened(temp)
  \/ spc[w] = "create" /\ temp # NoFile
  \/ spc[w] = "rename" /\ (temp = NoFile \/ (OpenBusy /\ Opened(temp)))

\* The operation the saver is at cannot succeed, or fails by itself.
Refused(w) ==
  /\ Busy(w)
  /\ Blocked(w) \/ IoErrors
  /\ FailSave(w)

\* One step of save() by task w.
Step(w) == RemoveTemp(w) \/ CreateTemp(w) \/ WriteTemp(w) \/ RenameTemp(w) \/ Refused(w)

\* The savers in D are dropped between two awaits: their handles close and
\* whatever they had made stays.
Dropped(D) ==
  /\ spc' = [w \in Savers |-> IF w \in D /\ Busy(w) THEN "idle" ELSE spc[w]]
  /\ temp' = IF temp # NoFile /\ temp.own \in D THEN [temp EXCEPT !.own = NoOwner] ELSE temp
  /\ file' = IF file # NoFile /\ file.own \in D THEN [file EXCEPT !.own = NoOwner] ELSE file
  /\ UNCHANGED <<snap, overlap, last>>

\* The process dies or the VM loses power.
Crash ==
  /\ spc' = [w \in Savers |-> "idle"]
  /\ snap' = [w \in Savers |-> Empty]
  /\ temp' = IF temp = NoFile THEN NoFile ELSE [temp EXCEPT !.own = NoOwner]
  /\ file' = IF file = NoFile THEN NoFile ELSE [file EXCEPT !.own = NoOwner]
  /\ UNCHANGED <<overlap, last>>

Next ==
  \/ \E w \in Savers, v \in Value : BeginSave(w, v)
  \/ \E w \in Savers : Step(w)
  \/ \E w \in Droppable : Busy(w) /\ Dropped({w})
  \/ Crash

Spec == Init /\ [][Next]_vars
-----------------------------------------------------------------------------
(* Properties                                                              *)

\* As long as no two saves have overlapped, scope.json holds exactly the
\* state of the last save() that returned Ok, complete, whatever later saves
\* failed, were dropped or were cut by a crash (json.rs: "a crash mid-write
\* leaves the previous state intact").
SavedIsDurable == ~overlap => Contents(file) = last /\ Loadable(file)

\* As long as no two saves have overlapped, no save is refused because of the
\* temp name: whatever temp file a failed, dropped or crashed save left there,
\* complete, partial or never closed, the next save gets past it, and it has
\* closed its own before it renames (json.rs: "A temp left behind by a crash
\* must not block the fresh create below"; "Close the handle deterministically
\* before renaming").  What is left to fail is an operation's own error.
LeftoverHarmless == ~overlap => \A w \in Savers : ~Blocked(w)
=============================================================================
