----------------------------- MODULE FilesProofs -----------------------------
(* Proofs about the two components that keep files: the scope store, for   *)
(* any number of savers and any values, and the drops collector with the   *)
(* job queue under it, for any jobs, contents, hash function, capacity,    *)
(* cap and limit.                                                          *)
EXTENDS ScopeStore, DropsCollector, SequenceTheorems, FiniteSetTheorems, TLAPS

-----------------------------------------------------------------------------
(* The scope store                                                         *)

\* Each operation of a saver, and the loss of its future, keeps the types.
LEMMA StepTypeOK ==
  TypeOK /\ [Next]_vars => TypeOK'
<1> SUFFICES ASSUME TypeOK, [Next]_vars PROVE TypeOK'
  OBVIOUS
<1> USE StoreAssumption DEF TypeOK, Inode, Working, Resting
<1>1. ASSUME NEW w \in Savers, NEW v \in Value, BeginSave(w, v) PROVE TypeOK'
  BY <1>1 DEF BeginSave, Busy
<1>2. ASSUME NEW w \in Savers, RemoveTemp(w) PROVE TypeOK'
  BY <1>2 DEF RemoveTemp
<1>3. ASSUME NEW w \in Savers, CreateTemp(w) PROVE TypeOK'
  BY <1>3 DEF CreateTemp
<1>4. ASSUME NEW w \in Savers, WriteTemp(w) PROVE TypeOK'
  BY <1>4 DEF WriteTemp, Written
<1>5. ASSUME NEW w \in Savers, RenameTemp(w) PROVE TypeOK'
  BY <1>5 DEF RenameTemp
<1>6. ASSUME NEW w \in Savers, Refused(w) PROVE TypeOK'
  BY <1>6 DEF Refused, FailSave, Closed
<1>7. ASSUME NEW w \in Droppable, Dropped({w}) PROVE TypeOK'
  BY <1>7 DEF Dropped, Busy
<1>8. CASE Crash
  BY <1>8 DEF Crash
<1>9. CASE UNCHANGED vars
  BY <1>9 DEF vars
<1>10. QED
  BY <1>1, <1>2, <1>3, <1>4, <1>5, <1>6, <1>7, <1>8, <1>9 DEF Next, Step

\* The files and the savers always have their types.
LEMMA TypeCorrect == Spec => []TypeOK
<1>1. Init => TypeOK
  BY StoreAssumption DEF Init, TypeOK, Working, Resting
<1>2. QED
  BY <1>1, StepTypeOK, PTL DEF Spec
-----------------------------------------------------------------------------
(***************************************************************************)
(* SavedIsDurable.  While no two saves have overlapped there is one saver, *)
(* and once it has removed the temp name that name is its own: free, then  *)
(* bound to its partial file, then to its complete one.  That is what the  *)
(* rename installs.                                                        *)
(***************************************************************************)
OneSaver == \A w, x \in Savers : Busy(w) /\ Busy(x) => w = x

TempIsMine ==
  \A w \in Savers :
    /\ spc[w] = "create" => temp = NoFile
    /\ spc[w] = "write"  => temp = [val |-> snap[w], full |-> FALSE, own |-> w]
    /\ spc[w] = "rename" => temp = [val |-> snap[w], full |-> TRUE, own |-> NoOwner]

DurableInv == ~overlap => OneSaver /\ TempIsMine /\ SavedIsDurable

\* The invariant is inductive given the types.
LEMMA DurableStep ==
  TypeOK /\ DurableInv /\ [Next]_vars => DurableInv'
<1> SUFFICES ASSUME TypeOK, DurableInv, [Next]_vars, ~overlap' PROVE
                    OneSaver' /\ TempIsMine' /\ SavedIsDurable'
  BY DEF DurableInv
<1> USE StoreAssumption DEF TypeOK, DurableInv, OneSaver, TempIsMine, SavedIsDurable,
        Contents, Loadable, Busy, Working, Resting, Inode
<1>1. ASSUME NEW w \in Savers, NEW v \in Value, BeginSave(w, v)
      PROVE  OneSaver' /\ TempIsMine' /\ SavedIsDurable'
  <2>1. ~overlap /\ \A x \in Savers \ {w} : ~Busy(x)
    BY <1>1 DEF BeginSave
  <2>2. OneSaver'
    BY <1>1, <2>1 DEF BeginSave
  <2>3. TempIsMine' /\ SavedIsDurable'
    BY <1>1, <2>1 DEF BeginSave
  <2>4. QED
    BY <2>2, <2>3
<1>2. ASSUME NEW w \in Savers, RemoveTemp(w)
      PROVE  OneSaver' /\ TempIsMine' /\ SavedIsDurable'
  BY <1>2 DEF RemoveTemp
<1>3. ASSUME NEW w \in Savers, CreateTemp(w)
      PROVE  OneSaver' /\ TempIsMine' /\ SavedIsDurable'
  BY <1>3 DEF CreateTemp
<1>4. ASSUME NEW w \in Savers, WriteTemp(w)
      PROVE  OneSaver' /\ TempIsMine' /\ SavedIsDurable'
  <2>1. ~overlap /\ spc[w] = "write" /\ spc' = [spc EXCEPT ![w] = "rename"]
    BY <1>4 DEF WriteTemp
  <2>2. \A x \in Savers : spc'[x] \in Working => x = w
    BY <2>1
  <2>3. temp' = [val |-> snap[w], full |-> TRUE, own |-> NoOwner] /\ snap' = snap
    <3>1. temp = [val |-> snap[w], full |-> FALSE, own |-> w]
      BY <2>1
    <3>2. temp \in Inode
      BY <3>1
    <3>3. temp' = [temp EXCEPT !.own = NoOwner, !.full = TRUE] /\ snap' = snap
      BY <1>4, <3>1, <3>2 DEF WriteTemp, Written
    <3>4. QED
      BY <3>1, <3>3
  <2>4. TempIsMine'
    BY <2>1, <2>2, <2>3
  <2>5. SavedIsDurable'
    <3>1. Contents(file) = last /\ Loadable(file) /\ UNCHANGED <<last, overlap>>
      BY <1>4, <2>1 DEF WriteTemp
    <3>2. file' = file \/ (file # NoFile /\ file' = [file EXCEPT !.own = NoOwner, !.full = TRUE])
      BY <1>4 DEF WriteTemp, Written
    <3>3. file' = file \/ (file # NoFile /\ file' # NoFile /\ file'.val = file.val /\ file'.full)
      <4>1. file # NoFile => file \in Inode
        OBVIOUS
      <4> HIDE DEF DurableInv, TypeOK
      <4>2. CASE file # NoFile /\ file' = [file EXCEPT !.own = NoOwner, !.full = TRUE]
        <5>1. file \in Inode
          BY <4>1, <4>2
        <5>2. file' \in Inode /\ file'.val = file.val /\ file'.full
          BY <4>2, <5>1
        <5>3. QED
          BY <4>2, <5>2
      <4>3. QED
        BY <3>2, <4>2
    <3> HIDE DEF DurableInv, TypeOK
    <3>4. QED
      BY <3>1, <3>3
  <2>6. OneSaver'
    BY <2>2
  <2>7. QED
    BY <2>4, <2>5, <2>6
<1>5. ASSUME NEW w \in Savers, RenameTemp(w)
      PROVE  OneSaver' /\ TempIsMine' /\ SavedIsDurable'
  BY <1>5 DEF RenameTemp
<1>6. ASSUME NEW w \in Savers, Refused(w)
      PROVE  OneSaver' /\ TempIsMine' /\ SavedIsDurable'
  BY <1>6 DEF Refused, FailSave, Closed
<1>7. ASSUME NEW w \in Droppable, Busy(w), Dropped({w})
      PROVE  OneSaver' /\ TempIsMine' /\ SavedIsDurable'
  BY <1>7 DEF Dropped
<1>8. CASE Crash
  BY <1>8 DEF Crash
<1>9. CASE UNCHANGED vars
  BY <1>9 DEF vars
<1>10. QED
  BY <1>1, <1>2, <1>3, <1>4, <1>5, <1>6, <1>7, <1>8, <1>9 DEF Next, Step

\* json.rs save/load: whatever fails, is dropped or crashes, scope.json is
\* the last successful save, complete, as long as no two saves overlapped.
THEOREM SavedDurable == Spec => []SavedIsDurable
<1>1. Init => DurableInv
  BY StoreAssumption DEF Init, DurableInv, OneSaver, TempIsMine, SavedIsDurable,
     Contents, Loadable, Busy, Working
<1>2. DurableInv => SavedIsDurable
  BY DEF DurableInv, SavedIsDurable
<1>3. QED
  BY <1>1, <1>2, DurableStep, TypeCorrect, PTL DEF Spec
-----------------------------------------------------------------------------
(***************************************************************************)
(* LeftoverHarmless.  A saver that runs alone finds the temp name as it    *)
(* left it itself (TempIsMine), except at its first step: there a file     *)
(* that is still open would be that of another saver in its write, and     *)
(* there is none.                                                          *)
(***************************************************************************)
OwnerIsWriting ==
  \A w \in Savers :
    /\ temp # NoFile /\ temp.own = w => spc[w] = "write"
    /\ file # NoFile /\ file.own = w => spc[w] = "write"

\* Every way out of the write, the loss of the future included, closes the file.
LEMMA OwnerStep == TypeOK /\ OwnerIsWriting /\ [Next]_vars => OwnerIsWriting'
<1> SUFFICES ASSUME TypeOK, OwnerIsWriting, [Next]_vars PROVE OwnerIsWriting'
  OBVIOUS
<1> USE StoreAssumption DEF TypeOK, OwnerIsWriting, Inode, Working, Resting
<1>1. ASSUME NEW w \in Savers, NEW v \in Value, BeginSave(w, v) PROVE OwnerIsWriting'
  BY <1>1 DEF BeginSave
<1>2. ASSUME NEW w \in Savers, RemoveTemp(w) PROVE OwnerIsWriting'
  BY <1>2 DEF RemoveTemp
<1>3. ASSUME NEW w \in Savers, CreateTemp(w) PROVE OwnerIsWriting'
  BY <1>3 DEF CreateTemp
<1>4. ASSUME NEW w \in Savers, WriteTemp(w) PROVE OwnerIsWriting'
  BY <1>4 DEF WriteTemp, Written
<1>5. ASSUME NEW w \in Savers, RenameTemp(w) PROVE OwnerIsWriting'
  BY <1>5 DEF RenameTemp
<1>6. ASSUME NEW w \in Savers, Refused(w) PROVE OwnerIsWriting'
  BY <1>6 DEF Refused, FailSave, Closed, Busy
<1>7. ASSUME NEW w \in Droppable, Dropped({w}) PROVE OwnerIsWriting'
  BY <1>7 DEF Dropped, Busy
<1>8. CASE Crash
  BY <1>8 DEF Crash
<1>9. CASE UNCHANGED vars
  BY <1>9 DEF vars
<1>10. QED
  BY <1>1, <1>2, <1>3, <1>4, <1>5, <1>6, <1>7, <1>8, <1>9 DEF Next, Step

\* json.rs save: whatever an earlier save left under the temp name, a save that
\* runs alone is never refused because of it, on an OS that lets open files be
\* renamed and on one that does not.
THEOREM LeftoverNeverBlocks == Spec => []LeftoverHarmless
<1>1. Init => DurableInv /\ OwnerIsWriting
  BY StoreAssumption DEF Init, DurableInv, OneSaver, TempIsMine, SavedIsDurable,
     Contents, Loadable, Busy, Working, OwnerIsWriting
<1>2. TypeOK /\ DurableInv /\ OwnerIsWriting => LeftoverHarmless
  <2> SUFFICES ASSUME TypeOK, DurableInv, OwnerIsWriting, ~overlap, NEW w \in Savers
               PROVE  ~Blocked(w)
    BY DEF LeftoverHarmless
  <2> USE StoreAssumption
  <2>1. spc[w] = "remove" => ~Opened(temp)
    <3> SUFFICES ASSUME spc[w] = "remove", Opened(temp) PROVE FALSE
      OBVIOUS
    <3>1. temp.own \in Savers /\ temp # NoFile
      BY DEF Opened, TypeOK, Inode
    <3>2. spc[temp.own] = "write"
      BY <3>1 DEF OwnerIsWriting
    <3>3. temp.own = w
      BY <3>1, <3>2 DEF DurableInv, OneSaver, Busy, Working
    <3>4. QED
      BY <3>2, <3>3
  <2>2. spc[w] = "create" => temp = NoFile
    BY DEF DurableInv, TempIsMine
  <2>3. spc[w] = "rename" => temp # NoFile /\ ~Opened(temp)
    <3> SUFFICES ASSUME spc[w] = "rename" PROVE temp # NoFile /\ ~Opened(temp)
      OBVIOUS
    <3>1. temp = [val |-> snap[w], full |-> TRUE, own |-> NoOwner]
      BY DEF DurableInv, TempIsMine
    <3>2. temp \in Inode /\ temp.own = NoOwner
      BY <3>1 DEF TypeOK, Inode
    <3>3. QED
      BY <3>2 DEF Opened
  <2>4. QED
    BY <2>1, <2>2, <2>3 DEF Blocked
<1>3. QED
  BY <1>1, <1>2, DurableStep, OwnerStep, TypeCorrect, PTL DEF Spec
-----------------------------------------------------------------------------
(* The queue counts its losses                                             *)

QueueTyped ==
  /\ queue \in Seq(Job)
  /\ handled \in Seq(Job)
  /\ worker \in {"select", "handle", "count", "exited"}
  /\ current \in IF worker = "handle" THEN Job ELSE {NoJob}
  /\ result \in [Job -> {"new", "accepted", "late", "full", "closed"}]
  /\ dropped \in Nat

\* A job is in one place at a time, and no handler has taken a late one.
OnePlace ==
  /\ \A i, j \in 1 .. Len(queue) : queue[i] = queue[j] => i = j
  /\ Held \subseteq Accepted \cup Late
  /\ Done \cup {current} \subseteq Accepted \cup {NoJob}
  /\ Held \cap (Done \cup {current}) = {}
  /\ Looping => Late = {}

\* LossesCounted, and where the jobs are.
LossInv == QueueTyped /\ OnePlace /\ LossesCounted

\* A queue without repetition holds as many jobs as it is long.
LEMMA HeldCount ==
  ASSUME queue \in Seq(Job), \A i, j \in 1 .. Len(queue) : queue[i] = queue[j] => i = j
  PROVE  IsFiniteSet(Held) /\ Cardinality(Held) = Len(queue)
<1>1. queue \in Bijection(1 .. Len(queue), Held)
  <2>1. queue \in [1 .. Len(queue) -> Held]
    BY DEF Held
  <2>2. queue \in Injection(1 .. Len(queue), Held)
    BY <2>1 DEF Injection, IsInjective
  <2>3. queue \in Surjection(1 .. Len(queue), Held)
    BY <2>1 DEF Surjection, Held
  <2>4. QED
    BY <2>2, <2>3 DEF Bijection
<1>2. ExistsBijection(1 .. Len(queue), Held)
  BY <1>1 DEF ExistsBijection
<1>3. /\ Len(queue) \in Nat
      /\ IsFiniteSet(1 .. Len(queue)) /\ Cardinality(1 .. Len(queue)) = Len(queue)
  BY FS_Interval
<1>4. QED
  BY <1>2, <1>3, FS_Bijection

\* What the operations do to the jobs in the queue.
LEMMA AppendHeld ==
  ASSUME queue \in Seq(Job), NEW j \in Job, queue' = Append(queue, j), j \notin Held,
         \A i, k \in 1 .. Len(queue) : queue[i] = queue[k] => i = k
  PROVE  /\ Held' = Held \cup {j}
         /\ \A i, k \in 1 .. Len(queue') : queue'[i] = queue'[k] => i = k
<1>1. /\ Len(queue') = Len(queue) + 1 /\ Len(queue) \in Nat
      /\ \A i \in 1 .. Len(queue) : queue'[i] = queue[i]
      /\ queue'[Len(queue) + 1] = j
  BY AppendProperties
<1>2. 1 .. Len(queue') = (1 .. Len(queue)) \cup {Len(queue) + 1}
  BY <1>1
<1>3. Held' = Held \cup {j}
  BY <1>1, <1>2 DEF Held
<1>4. \A i \in 1 .. Len(queue) : queue[i] # j
  BY DEF Held
<1>5. QED
  BY <1>1, <1>2, <1>3, <1>4

LEMMA TailHeld ==
  ASSUME queue \in Seq(Job), queue # <<>>, queue' = Tail(queue),
         \A i, k \in 1 .. Len(queue) : queue[i] = queue[k] => i = k
  PROVE  /\ Head(queue) \in Held
         /\ Held' = Held \ {Head(queue)}
         /\ \A i, k \in 1 .. Len(queue') : queue'[i] = queue'[k] => i = k
         /\ queue' \in Seq(Job)
<1>1. /\ Len(queue') = Len(queue) - 1 /\ Len(queue) \in Nat \ {0}
      /\ \A i \in 1 .. Len(queue') : queue'[i] = queue[i + 1]
      /\ Head(queue) = queue[1]
      /\ queue' \in Seq(Job)
  BY HeadTailProperties
<1>2. \A i \in 1 .. Len(queue') : i + 1 \in 1 .. Len(queue) /\ i + 1 # 1
  BY <1>1
<1>3. \A i \in 1 .. Len(queue) : i = 1 \/ (i - 1 \in 1 .. Len(queue') /\ queue[i] = queue'[i - 1])
  BY <1>1
<1>4. Held' \subseteq Held \ {Head(queue)}
  BY <1>1, <1>2 DEF Held
<1>5. Held \ {Head(queue)} \subseteq Held'
  BY <1>1, <1>3 DEF Held
<1>6. QED
  BY <1>1, <1>2, <1>4, <1>5 DEF Held

LEMMA AppendDone ==
  ASSUME handled \in Seq(Job), NEW j \in Job, handled' = Append(handled, j)
  PROVE  Done' = Done \cup {j} /\ handled' \in Seq(Job)
<1>1. /\ Len(handled') = Len(handled) + 1 /\ Len(handled) \in Nat
      /\ \A i \in 1 .. Len(handled) : handled'[i] = handled[i]
      /\ handled'[Len(handled) + 1] = j
      /\ handled' \in Seq(Job)
  BY AppendProperties
<1>2. 1 .. Len(handled') = (1 .. Len(handled)) \cup {Len(handled) + 1}
  BY <1>1
<1>3. QED
  BY <1>1, <1>2 DEF Done

LEMMA QueueFrame ==
  ASSUME LossInv, UNCHANGED <<channel, loop, result>> PROVE LossInv'
<1>1. UNCHANGED <<queue, dropped, worker, current, handled, result>>
  BY DEF channel, loop
<1>2. /\ Held' = Held /\ Done' = Done /\ Accepted' = Accepted /\ Late' = Late
      /\ Full' = Full /\ Left' = Left /\ Looping' = Looping
  BY <1>1 DEF Held, Done, Accepted, Late, Full, Left, Looping
<1>3. QED
  BY <1>1, <1>2 DEF LossInv, QueueTyped, OnePlace, LossesCounted

\* Sets of jobs are finite.
LEMMA JobSets ==
  ASSUME NEW S, S \subseteq Job PROVE IsFiniteSet(S) /\ Cardinality(S) \in Nat
  BY QueueAssumption, FS_Subset, FS_CardinalityType

\* submit: accepted, refused and counted, or refused by a closed channel.
LEMMA SubmitLoss ==
  ASSUME LossInv, NEW j \in Job, Submit(j) PROVE LossInv'
<1> USE QueueAssumption DEF LossInv, QueueTyped, Looping
<1>1. /\ result[j] = "new" /\ UNCHANGED <<worker, current, handled>>
      /\ NoJob \notin Job
  BY DEF Submit, loop
<1>2. /\ j \notin Accepted /\ j \notin Late /\ j \notin Full
      /\ j \notin Held /\ j \notin Done /\ j # current
  BY <1>1 DEF Accepted, Late, Full, OnePlace
<1>3. Done' = Done
  BY <1>1 DEF Done
<1>4. CASE result' = [result EXCEPT ![j] = IF worker = "count" THEN "late" ELSE "accepted"]
  <2>1. worker # "exited" /\ queue' = Append(queue, j) /\ dropped' = dropped
    <3>1. result'[j] \in {"late", "accepted"}
      BY <1>4
    <3>2. QED
      BY <3>1 DEF Submit
  <2>2. /\ Full' = Full
        /\ IF worker = "count" THEN Accepted' = Accepted /\ Late' = Late \cup {j}
           ELSE Accepted' = Accepted \cup {j} /\ Late' = Late
    BY <1>1, <1>4 DEF Accepted, Late, Full
  <2>3. /\ Held' = Held \cup {j}
        /\ \A i, k \in 1 .. Len(queue') : queue'[i] = queue'[k] => i = k
    BY <1>2, <2>1, AppendHeld DEF OnePlace
  <2>4. QueueTyped'
    BY <1>1, <1>4, <2>1
  <2>5. OnePlace'
    BY <1>1, <1>2, <1>3, <2>1, <2>2, <2>3 DEF OnePlace
  <2>6. LossesCounted'
    <3>1. CASE worker = "count"
      <4>1. Left' = Left
        BY <1>1, <1>3, <2>2, <3>1 DEF Left
      <4>2. QED
        BY <1>1, <2>1, <2>2, <3>1, <4>1 DEF LossesCounted
    <3>2. CASE worker # "count"
      <4>1. Looping /\ Left' = Left \cup {j}
        BY <1>1, <1>2, <1>3, <2>1, <2>2, <3>2 DEF Left
      <4>2. QED
        BY <1>1, <2>1, <2>2, <2>3, <4>1 DEF LossesCounted
    <3>3. QED
      BY <3>1, <3>2
  <2>7. QED
    BY <2>4, <2>5, <2>6
<1>5. CASE result' = [result EXCEPT ![j] = "full"]
  <2>1. queue' = queue /\ dropped' = dropped + 1
    <3>1. result'[j] = "full"
      BY <1>5
    <3>2. QED
      BY <3>1 DEF Submit, channel
  <2>2. /\ Accepted' = Accepted /\ Late' = Late /\ Held' = Held
        /\ Full' = Full \cup {j}
    BY <1>1, <1>5, <2>1 DEF Accepted, Late, Full, Held
  <2>3. QueueTyped' /\ OnePlace'
    BY <1>1, <1>3, <1>5, <2>1, <2>2 DEF OnePlace
  <2>4. Cardinality(Full \cup {j}) = Cardinality(Full) + 1
    BY <1>2, FS_AddElement, JobSets DEF Full
  <2>5. /\ Left' = Left
        /\ Full' \cup Left' = (Full \cup Left) \cup {j}
        /\ j \notin Full \cup Left
        /\ Full \cup Left \subseteq Job
    BY <1>1, <1>2, <1>3, <2>2 DEF Left, Accepted, Full
  <2>6. Cardinality((Full \cup Left) \cup {j}) = Cardinality(Full \cup Left) + 1
    BY <2>5, FS_AddElement, JobSets
  <2>7. Cardinality(Full' \cup Left') = Cardinality(Full \cup Left) + 1
    BY <2>5, <2>6, Zenon
  <2>8. LossesCounted'
    BY <1>1, <2>1, <2>2, <2>4, <2>5, <2>7 DEF LossesCounted
  <2>9. QED
    BY <2>3, <2>8
<1>6. CASE result' = [result EXCEPT ![j] = "closed"]
  <2>1. queue' = queue /\ dropped' = dropped
    <3>1. result'[j] = "closed"
      BY <1>6
    <3>2. QED
      BY <3>1 DEF Submit, channel
  <2>2. Accepted' = Accepted /\ Late' = Late /\ Full' = Full /\ Held' = Held
    BY <1>1, <1>6, <2>1 DEF Accepted, Late, Full, Held
  <2>3. Left' = Left
    BY <1>1, <1>3, <2>2 DEF Left
  <2>4. QED
    BY <1>1, <1>3, <1>6, <2>1, <2>2, <2>3 DEF OnePlace, LossesCounted
<1>7. QED
  BY <1>4, <1>5, <1>6 DEF Submit

\* The worker takes the next job, or breaks out of its loop and counts.
LEMMA WorkerLoss ==
  ASSUME LossInv, WorkerTakes \/ WorkerBreaks \/ WorkerExits \/ HandlerReturns PROVE LossInv'
<1> USE QueueAssumption DEF LossInv, QueueTyped, Looping
<1>1. CASE WorkerTakes
  <2>1. /\ worker = "select" /\ worker' = "handle" /\ queue # <<>>
        /\ current' = Head(queue) /\ queue' = Tail(queue) /\ current = NoJob
        /\ UNCHANGED <<dropped, handled, result>>
    BY <1>1 DEF WorkerTakes
  <2>2. /\ Head(queue) \in Held
        /\ Held' = Held \ {Head(queue)}
        /\ \A i, k \in 1 .. Len(queue') : queue'[i] = queue'[k] => i = k
        /\ queue' \in Seq(Job)
    BY <2>1, TailHeld DEF OnePlace
  <2>3. Head(queue) \in Job
    BY <2>1
  <2>4. Done' = Done /\ Accepted' = Accepted /\ Late' = Late /\ Full' = Full
    BY <2>1 DEF Done, Accepted, Late, Full
  <2>5. OnePlace'
    BY <2>1, <2>2, <2>3, <2>4 DEF OnePlace
  <2>6. Left' = Left \ {Head(queue)}
    <3>1. NoJob \notin Accepted
      BY DEF Accepted
    <3>2. QED
      BY <2>1, <2>4, <3>1 DEF Left
  <2>7. LossesCounted'
    BY <2>1, <2>2, <2>4, <2>6 DEF LossesCounted
  <2>8. QED
    BY <2>1, <2>2, <2>3, <2>5, <2>7
<1>2. CASE WorkerBreaks
  <2>1. /\ worker = "select" /\ worker' = "count" /\ dropped' = dropped + Len(queue)
        /\ UNCHANGED <<queue, current, handled, result>> /\ current = NoJob
    BY <1>2 DEF WorkerBreaks
  <2>2. /\ Held' = Held /\ Done' = Done /\ Accepted' = Accepted /\ Late' = Late
        /\ Full' = Full /\ Left' = Left
    BY <2>1 DEF Held, Done, Accepted, Late, Full, Left
  <2>3. IsFiniteSet(Held) /\ Cardinality(Held) = Len(queue) /\ Len(queue) \in Nat
    BY HeldCount DEF OnePlace
  <2>4. Full \subseteq Job /\ Full \cap Held = {} /\ Left = Held
    BY <2>1 DEF OnePlace, LossesCounted, Full, Left, Accepted
  <2>5. Cardinality(Full \cup Left) = Cardinality(Full) + Len(queue)
    <3>1. IsFiniteSet(Full) /\ Cardinality(Full) \in Nat
      BY <2>4, JobSets
    <3>2. Cardinality(Full \cap Held) = 0
      BY <2>4, FS_EmptySet
    <3>3. Cardinality(Full \cup Held)
            = Cardinality(Full) + Cardinality(Held) - Cardinality(Full \cap Held)
      BY <2>3, <3>1, FS_Union
    <3>4. QED
      BY <2>3, <2>4, <3>1, <3>2, <3>3
  <2>6. LossesCounted'
    BY <2>1, <2>2, <2>5 DEF LossesCounted
  <2>7. QED
    BY <2>1, <2>2, <2>3, <2>6 DEF OnePlace
<1>3. CASE WorkerExits
  <2>1. /\ worker = "count" /\ worker' = "exited" /\ queue' = <<>>
        /\ UNCHANGED <<dropped, current, handled, result>>
    BY <1>3 DEF WorkerExits
  <2>2. /\ Held' = {} /\ Done' = Done /\ Accepted' = Accepted /\ Late' = Late
        /\ Full' = Full /\ Left' = Left
    BY <2>1 DEF Held, Done, Accepted, Late, Full, Left
  <2>3. QED
    BY <2>1, <2>2 DEF OnePlace, LossesCounted
<1>4. CASE HandlerReturns
  <2>1. /\ worker = "handle" /\ worker' = "select" /\ current \in Job /\ current' = NoJob
        /\ handled' = Append(handled, current)
        /\ UNCHANGED <<queue, dropped, result>>
    BY <1>4 DEF HandlerReturns, channel
  <2>2. Done' = Done \cup {current} /\ handled' \in Seq(Job)
    BY <2>1, AppendDone
  <2>3. /\ Held' = Held /\ Held \subseteq Job /\ Accepted' = Accepted /\ Accepted \subseteq Job
        /\ Late' = Late /\ Full' = Full
    BY <2>1 DEF Held, Accepted, Late, Full
  <2>4. Left' = Left
    BY <2>1, <2>2, <2>3 DEF Left
  <2>5. QED
    BY <2>1, <2>2, <2>3, <2>4 DEF OnePlace, LossesCounted
<1>5. QED
  BY <1>1, <1>2, <1>3, <1>4

LEMMA LossStep == LossInv /\ [DNext]_dvars => LossInv'
<1> SUFFICES ASSUME LossInv, [DNext]_dvars PROVE LossInv'
  OBVIOUS
<1>1. CASE \E j \in Job : ConsumerReceives(j)
  BY <1>1, SubmitLoss DEF ConsumerReceives
<1>2. CASE QueueStep \/ ConsumerEnds \/ PluginEnds
  BY <1>2, WorkerLoss, QueueFrame
     DEF QueueStep, ConsumerEnds, PluginEnds, DropHandles, Stop, DropOwner, StopReturns
<1>3. CASE Collect
  BY <1>3, WorkerLoss, QueueFrame
     DEF Collect, Preflight, OpenPart, CopyChunk, CopyEnds, NameCopy, RemovePart, Count, Report,
         Upload, CollectReturns, quiet, queueVars
<1>4. CASE \E j \in Job : SampleWrites(j) \/ SampleUnlinks(j)
  BY <1>4, QueueFrame DEF SampleWrites, SampleUnlinks, queueVars
<1>5. CASE PowerLoss
  <2>1. /\ queue' = <<>> /\ dropped' = 0 /\ worker' = "exited" /\ current' = NoJob /\ handled' = <<>>
        /\ result' = [j \in Job |-> "new"]
    BY <1>5 DEF PowerLoss
  <2>2. /\ Held' = {} /\ Done' = {} /\ Accepted' = {} /\ Late' = {} /\ Full' = {}
        /\ Left' = {} /\ ~Looping'
    BY <2>1 DEF Held, Done, Accepted, Late, Full, Left, Looping
  <2>3. QED
    BY <2>1, <2>2, FS_EmptySet DEF LossInv, QueueTyped, OnePlace, LossesCounted
<1>6. CASE UNCHANGED dvars
  BY <1>6, QueueFrame DEF dvars, queueVars
<1>7. QED
  BY <1>1, <1>2, <1>3, <1>4, <1>5, <1>6 DEF DNext

\* The queue, the worker and the counter agree in every reachable state.
THEOREM QueueInvariant == DSpec => []LossInv
<1>1. DInit => LossInv
  <2> SUFFICES ASSUME DInit PROVE LossInv
    OBVIOUS
  <2>1. /\ queue = <<>> /\ dropped = 0 /\ worker = "select" /\ current = NoJob /\ handled = <<>>
        /\ result = [j \in Job |-> "new"]
    BY DEF DInit, QueueInit
  <2>2. /\ Held = {} /\ Done = {} /\ Accepted = {} /\ Late = {} /\ Full = {}
        /\ Left = {} /\ Looping
    BY <2>1 DEF Held, Done, Accepted, Late, Full, Left, Looping
  <2>3. QED
    BY <2>1, <2>2, FS_EmptySet DEF LossInv, QueueTyped, OnePlace, LossesCounted
<1>2. QED
  BY <1>1, LossStep, PTL DEF DSpec

\* Every drop that is lost is in the counter, exactly, while the worker loops and
\* after it has left; what is not came after its last count.
THEOREM CollectorCountsLosses == DSpec => []LossesCounted
<1>1. LossInv => LossesCounted
  BY DEF LossInv
<1>2. QED
  BY <1>1, QueueInvariant, PTL
-----------------------------------------------------------------------------
(* A named copy is whole                                                   *)

File == [data : Seq(Chunk), synced : BOOLEAN]
Labels == {"idle", "open", "copy", "remove", "name", "count", "report", "upload", "done"}

CollectorTyped ==
  /\ source \in [Job -> [data : Seq(Chunk), linked : BOOLEAN]]
  /\ dir \in [DOMAIN dir -> File]
  /\ pc \in Labels
  /\ read \in Seq(Chunk)
  /\ nameSeq \in Nat
  /\ collected \in Nat

\* What collect_drop has in its part file: a part of this run, that only it
\* writes, and that is synced before it gets its name.
PartIsRead ==
  pc \in {"copy", "name"} =>
    /\ ThisPart \in DOMAIN dir
    /\ dir[ThisPart].data = read
    /\ Len(read) <= MaxSize
    /\ pc = "name" => dir[ThisPart].synced

NamesInv ==
  /\ CollectorTyped
  /\ PartIsRead
  /\ \A f \in Finals : dir[f].synced
  /\ NamedIsWhole

\* Parts and copies are told apart by their names.
LEMMA NameKinds ==
  /\ \A n : Part(n)[1] = "part"
  /\ \A n, h : CopyName(n, h)[1] = "copy" /\ CopyName(n, h)[3] = h
  BY DEF Part, CopyName

\* What the operations on the directory do to the copies in it.
LEMMA Directory ==
  ASSUME dir \in [DOMAIN dir -> File], NEW p, p[1] # "copy"
  PROVE  /\ dir' = Unlink(dir, p) =>
              /\ dir' \in [DOMAIN dir' -> File]
              /\ Finals' = Finals /\ \A f \in Finals : dir'[f] = dir[f]
         /\ \A v \in File : dir' = Put(dir, p, v) =>
              /\ dir' \in [DOMAIN dir' -> File]
              /\ Finals' = Finals /\ \A f \in Finals : dir'[f] = dir[f]
              /\ p \in DOMAIN dir' /\ dir'[p] = v
         /\ \A v \in File : p \in DOMAIN dir /\ dir' = [dir EXCEPT ![p] = v] =>
              /\ dir' \in [DOMAIN dir' -> File]
              /\ Finals' = Finals /\ \A f \in Finals : dir'[f] = dir[f]
              /\ p \in DOMAIN dir' /\ dir'[p] = v
         /\ \A c, v : v \in File /\ c[1] = "copy" /\ dir' = Put(Unlink(dir, p), c, v) =>
              /\ dir' \in [DOMAIN dir' -> File]
              /\ Finals' = Finals \cup {c}
              /\ dir'[c] = v /\ \A f \in Finals \ {c} : dir'[f] = dir[f]
  BY DEF Unlink, Put, Finals

LEMMA FileExcept ==
  ASSUME NEW r \in File, NEW d
  PROVE  [r EXCEPT !.data = d] = [data |-> d, synced |-> r.synced]
  BY DEF File

\* The steps of collect_drop up to the final name.
LEMMA NamesCollect ==
  ASSUME QueueTyped, NamesInv, Collect PROVE NamesInv'
<1> USE CollectorAssumption DEF NamesInv, CollectorTyped, Labels, PartIsRead, NamedIsWhole, To, at
<1> USE DEF quiet, queueVars, world
<1>1. MaxSize \in Nat /\ ThisPart[1] # "copy"
  BY NameKinds DEF ThisPart
<1>2. worker = "handle" => current \in Job /\ source[current].data \in Seq(Chunk)
  BY DEF QueueTyped
<1>3. CASE Preflight \/ Count \/ Report \/ CollectReturns
  <2>1. /\ UNCHANGED <<source, dir, nameSeq, uploaded>>
        /\ pc' \in {"open", "report", "upload", "done", "idle"}
        /\ read' \in Seq(Chunk) /\ collected' \in Nat
    <3>1. CASE Preflight
      BY <3>1 DEF Preflight
    <3>2. CASE Count \/ Report
      BY <3>2 DEF Count, Report
    <3>3. CASE CollectReturns
      BY <3>3, EmptySeq DEF CollectReturns
    <3>4. QED
      BY <1>3, <3>1, <3>2, <3>3
  <2>2. QED
    BY <2>1 DEF Finals
<1>4. CASE OpenPart
  <2> DEFINE new == [data |-> <<>>, synced |-> FALSE]
  <2>1. nameSeq' = nameSeq + 1 /\ read' = <<>> /\ ThisPart' = Part(nameSeq)
    BY <1>4 DEF OpenPart, ThisPart
  <2>2. CASE UNCHANGED dir /\ pc' # "copy"
    BY <1>4, <2>1, <2>2 DEF OpenPart, Finals
  <2>3. CASE dir' = Put(dir, Part(nameSeq), new) /\ pc' = "copy"
    <3>1. new \in File
      BY DEF File
    <3>2. Part(nameSeq)[1] # "copy"
      BY NameKinds
    <3> HIDE DEF new
    <3>3. /\ dir' \in [DOMAIN dir' -> File]
          /\ Finals' = Finals /\ \A f \in Finals : dir'[f] = dir[f]
          /\ Part(nameSeq) \in DOMAIN dir' /\ dir'[Part(nameSeq)] = new
      BY <2>3, <3>1, <3>2, Directory
    <3>4. new.data = <<>> /\ Len(<<>>) <= MaxSize
      BY <1>1 DEF new
    <3>5. UNCHANGED <<source, collected, uploaded>>
      BY <1>4 DEF OpenPart
    <3>6. CollectorTyped'
      BY <2>1, <2>3, <3>3, <3>5, EmptySeq
    <3>7. PartIsRead'
      BY <2>1, <2>3, <3>3, <3>4
    <3>8. QED
      BY <3>3, <3>5, <3>6, <3>7
  <2>4. QED
    BY <1>4, <2>2, <2>3 DEF OpenPart
<1>5. CASE CopyChunk
  <2> DEFINE chunk == source[current].data[Len(read) + 1]
             new == [dir[ThisPart] EXCEPT !.data = Append(dir[ThisPart].data, chunk)]
  <2>1. CASE UNCHANGED <<dir, read>> /\ pc' = "remove"
    BY <1>5, <2>1 DEF CopyChunk, Finals, ThisPart
  <2>2. CASE ~ (UNCHANGED <<dir, read>> /\ pc' = "remove")
    <3>1. /\ pc = "copy" /\ worker = "handle" /\ Len(read) < Len(source[current].data)
          /\ Len(read) + 1 <= MaxSize /\ read' = Append(read, chunk) /\ pc' = pc
          /\ dir' = [dir EXCEPT ![ThisPart] = new]
          /\ UNCHANGED <<quiet, nameSeq, seen, collected>>
      BY <1>5, <2>2 DEF CopyChunk
    <3>2. chunk \in Chunk
      BY <1>2, <3>1
    <3> HIDE DEF chunk
    <3>3. /\ ThisPart \in DOMAIN dir /\ dir[ThisPart] \in File /\ dir[ThisPart].data = read
          /\ ThisPart' = ThisPart
      BY <3>1 DEF ThisPart
    <3>4. new \in File /\ new.data = Append(read, chunk)
      <4>1. Append(read, chunk) \in Seq(Chunk)
        BY <3>2
      <4>2. dir[ThisPart].synced \in BOOLEAN
        BY <3>3 DEF File
      <4>3. new = [data |-> Append(read, chunk), synced |-> dir[ThisPart].synced]
        BY <3>3, FileExcept
      <4>4. QED
        BY <4>1, <4>2, <4>3 DEF File
    <3> HIDE DEF new
    <3>5. /\ dir' \in [DOMAIN dir' -> File]
          /\ Finals' = Finals /\ \A f \in Finals : dir'[f] = dir[f]
          /\ ThisPart \in DOMAIN dir' /\ dir'[ThisPart] = new
      BY <1>1, <3>1, <3>3, <3>4, Directory
    <3>6. read' \in Seq(Chunk) /\ Len(read') <= MaxSize
      BY <3>1, <3>2
    <3>7. QED
      BY <3>1, <3>3, <3>4, <3>5, <3>6
  <2>3. QED
    BY <2>1, <2>2
<1>6. CASE CopyEnds
  <2> DEFINE new == [dir[ThisPart] EXCEPT !.synced = TRUE]
  <2>1. CASE UNCHANGED dir /\ pc' = "remove"
    BY <1>6, <2>1 DEF CopyEnds, Finals, ThisPart
  <2>2. CASE ~ (UNCHANGED dir /\ pc' = "remove")
    <3>1. /\ pc = "copy" /\ pc' = "name" /\ dir' = [dir EXCEPT ![ThisPart] = new]
          /\ UNCHANGED <<quiet, read, nameSeq, seen, collected>>
      BY <1>6, <2>2 DEF CopyEnds
    <3>2. /\ ThisPart \in DOMAIN dir /\ dir[ThisPart] \in File /\ dir[ThisPart].data = read
          /\ ThisPart' = ThisPart
      BY <3>1 DEF ThisPart
    <3>3. new \in File /\ new.data = read /\ new.synced
      BY <3>2 DEF File
    <3> HIDE DEF new
    <3>4. /\ dir' \in [DOMAIN dir' -> File]
          /\ Finals' = Finals /\ \A f \in Finals : dir'[f] = dir[f]
          /\ ThisPart \in DOMAIN dir' /\ dir'[ThisPart] = new
      BY <1>1, <3>1, <3>2, <3>3, Directory
    <3>5. QED
      BY <3>1, <3>2, <3>3, <3>4
  <2>3. QED
    BY <2>1, <2>2
<1>7. CASE NameCopy
  <2> DEFINE copy == CopyName(nameSeq - 1, Hash8(read))
  <2>1. CASE UNCHANGED <<dir, seen>> /\ pc' = "remove"
    BY <1>7, <2>1 DEF NameCopy, Finals, ThisPart
  <2>2. CASE ~ (UNCHANGED <<dir, seen>> /\ pc' = "remove")
    <3>1. /\ pc = "name" /\ pc' = "count" /\ dir' = Put(Unlink(dir, ThisPart), copy, dir[ThisPart])
          /\ UNCHANGED <<quiet, read, nameSeq, collected>>
      BY <1>7, <2>2 DEF NameCopy
    <3>2. /\ dir[ThisPart] \in File /\ dir[ThisPart].data = read /\ Len(read) <= MaxSize
          /\ dir[ThisPart].synced
      BY <3>1
    <3>3. copy[1] = "copy" /\ copy[3] = Hash8(read)
      BY NameKinds
    <3> HIDE DEF copy
    <3>4. /\ dir' \in [DOMAIN dir' -> File]
          /\ Finals' = Finals \cup {copy}
          /\ dir'[copy] = dir[ThisPart] /\ \A f \in Finals \ {copy} : dir'[f] = dir[f]
      BY <1>1, <3>1, <3>2, <3>3, Directory
    <3>5. \A f \in Finals' : dir'[f].synced /\ Hash8(dir'[f].data) = f[3] /\ Len(dir'[f].data) <= MaxSize
      BY <3>2, <3>3, <3>4
    <3>6. QED
      BY <3>1, <3>4, <3>5
  <2>3. QED
    BY <2>1, <2>2
<1>8. CASE RemovePart
  <2>1. CASE dir' = Unlink(dir, ThisPart)
    BY <1>1, <1>8, <2>1, Directory DEF RemovePart
  <2>2. CASE UNCHANGED dir
    BY <1>8, <2>2 DEF RemovePart, Finals
  <2>3. QED
    BY <1>8, <2>1, <2>2 DEF RemovePart
<1>9. CASE Upload
  <2> DEFINE copy == CopyName(nameSeq - 1, Hash8(read))
  <2>1. pc' = "done" /\ UNCHANGED <<queueVars, world, read, nameSeq, seen, collected, dir>>
    BY <1>9 DEF Upload
  <2>2. \A u \in uploaded' : u \in uploaded \/ (copy \in DOMAIN dir /\ u = [name |-> copy, data |-> dir[copy].data])
    BY <1>9 DEF Upload
  <2>3. copy \in DOMAIN dir => copy \in Finals
    BY NameKinds DEF Finals
  <2> HIDE DEF copy
  <2>4. \A u \in uploaded' : Hash8(u.data) = u.name[3]
    BY <2>2, <2>3
  <2>5. QED
    BY <2>1, <2>4 DEF Finals
<1>10. QED
  BY <1>3, <1>4, <1>5, <1>6, <1>7, <1>8, <1>9 DEF Collect

\* What a power loss leaves of a copy is the copy itself: it was synced under
\* its part name, and its rename is undone as a whole or not at all.
LEMMA NamesPower ==
  ASSUME NamesInv, PowerLoss PROVE NamesInv'
<1> USE CollectorAssumption DEF NamesInv, CollectorTyped, Labels, PartIsRead, NamedIsWhole
<1>1. PICK left \in [DOMAIN dir -> UNION {Survives(dir[f]) : f \in DOMAIN dir}],
           name \in [DOMAIN dir -> UNION {Undone(f) : f \in DOMAIN dir}] :
        /\ \A f \in DOMAIN dir : left[f] \in Survives(dir[f]) /\ name[f] \in Undone(f)
        /\ dir' = [n \in {name[f] : f \in DOMAIN dir} |->
                     LET f == CHOOSE f \in DOMAIN dir : name[f] = n
                     IN [data |-> left[f], synced |-> TRUE]]
  BY DEF PowerLoss
<1>2. ASSUME NEW f \in DOMAIN dir
      PROVE  left[f] \in Seq(Chunk) /\ (dir[f].synced => left[f] = dir[f].data)
  <2>1. dir[f].data \in Seq(Chunk) /\ left[f] \in Survives(dir[f])
    BY <1>1 DEF File
  <2>2. CASE dir[f].synced
    BY <2>1, <2>2 DEF Survives
  <2>3. CASE ~dir[f].synced
    <3>1. PICK l \in 0 .. Len(dir[f].data) : left[f] = SubSeq(dir[f].data, 1, l)
      BY <2>1, <2>3 DEF Survives, Prefixes
    <3>2. SubSeq(dir[f].data, 1, l) \in Seq(Chunk)
      BY <2>1, SubSeqProperties
    <3>3. QED
      BY <2>3, <3>1, <3>2
  <2>4. QED
    BY <2>2, <2>3
<1>3. ASSUME NEW n \in DOMAIN dir'
      PROVE  \E f \in DOMAIN dir : name[f] = n /\ dir'[n] = [data |-> left[f], synced |-> TRUE]
  <2>1. PICK g \in DOMAIN dir : name[g] = n
    BY <1>1
  <2> DEFINE f == CHOOSE f \in DOMAIN dir : name[f] = n
  <2>2. f \in DOMAIN dir /\ name[f] = n
    BY <2>1
  <2>3. dir'[n] = [data |-> left[f], synced |-> TRUE]
    BY <1>1
  <2>4. QED
    BY <2>2, <2>3
<1>4. dir' \in [DOMAIN dir' -> File]
  <2>1. ASSUME NEW n \in DOMAIN dir' PROVE dir'[n] \in File
    <3>1. PICK f \in DOMAIN dir : dir'[n] = [data |-> left[f], synced |-> TRUE]
      BY <1>3
    <3>2. left[f] \in Seq(Chunk)
      BY <1>2
    <3>3. QED
      BY <3>1, <3>2 DEF File
  <2>2. dir' = [n \in DOMAIN dir' |-> dir'[n]]
    BY <1>1
  <2>3. QED
    BY <2>1, <2>2
<1>5. ASSUME NEW n \in Finals'
      PROVE  dir'[n].synced /\ Hash8(dir'[n].data) = n[3] /\ Len(dir'[n].data) <= MaxSize
  <2>1. n \in DOMAIN dir' /\ n[1] = "copy"
    BY <1>5 DEF Finals
  <2>2. PICK f \in DOMAIN dir : name[f] = n /\ dir'[n] = [data |-> left[f], synced |-> TRUE]
    BY <1>3, <2>1
  <2>3. n \in Undone(f)
    BY <1>1, <2>2
  <2>4. n = f
    BY <2>1, <2>3, NameKinds DEF Undone
  <2>5. f \in Finals
    BY <2>1, <2>4 DEF Finals
  <2>6. left[f] = dir[f].data
    BY <1>2, <2>5
  <2>7. dir'[n].synced /\ dir'[n].data = dir[f].data
    BY <2>2, <2>6
  <2>8. QED
    BY <2>4, <2>5, <2>7
<1>6. /\ pc' = "idle" /\ read' = <<>> /\ nameSeq' = 0 /\ collected' = 0
      /\ UNCHANGED <<source, uploaded>>
  BY DEF PowerLoss
<1>7. CollectorTyped'
  BY <1>4, <1>6, EmptySeq
<1>8. QED
  BY <1>5, <1>6, <1>7

LEMMA NamesStep == QueueTyped /\ NamesInv /\ [DNext]_dvars => NamesInv'
<1> SUFFICES ASSUME QueueTyped, NamesInv, [DNext]_dvars PROVE NamesInv'
  OBVIOUS
<1>1. ASSUME UNCHANGED <<collector, dir, uploaded>>,
             source' \in [Job -> [data : Seq(Chunk), linked : BOOLEAN]]
      PROVE  NamesInv'
  BY <1>1 DEF NamesInv, CollectorTyped, PartIsRead, NamedIsWhole, Finals, ThisPart, collector
<1>2. source \in [Job -> [data : Seq(Chunk), linked : BOOLEAN]]
  BY DEF NamesInv, CollectorTyped
<1>3. CASE \E j \in Job : ConsumerReceives(j)
  BY <1>1, <1>2, <1>3 DEF ConsumerReceives, world
<1>4. CASE ConsumerEnds \/ QueueStep \/ PluginEnds
  BY <1>1, <1>2, <1>4 DEF ConsumerEnds, QueueStep, PluginEnds, world
<1>5. ASSUME NEW j \in Job, SampleWrites(j) PROVE NamesInv'
  <2>1. PICK c \in Chunk : source' = [source EXCEPT ![j].data = Append(@, c)]
    BY <1>5 DEF SampleWrites
  <2>2. Append(source[j].data, c) \in Seq(Chunk)
    BY <1>2
  <2>3. source' \in [Job -> [data : Seq(Chunk), linked : BOOLEAN]]
    BY <1>2, <2>1, <2>2
  <2>4. QED
    BY <1>1, <1>5, <2>3 DEF SampleWrites
<1>6. ASSUME NEW j \in Job, SampleUnlinks(j) PROVE NamesInv'
  <2>1. source' \in [Job -> [data : Seq(Chunk), linked : BOOLEAN]]
    BY <1>2, <1>6 DEF SampleUnlinks
  <2>2. QED
    BY <1>1, <1>6, <2>1 DEF SampleUnlinks
<1>7. CASE UNCHANGED dvars
  BY <1>1, <1>2, <1>7 DEF dvars, world
<1>8. QED
  BY <1>3, <1>4, <1>5, <1>6, <1>7, NamesCollect, NamesPower DEF DNext

\* The part and the copies of an earlier boot are whole too.
LEMMA NamesInit == DInit => NamesInv
<1> SUFFICES ASSUME DInit PROVE NamesInv
  OBVIOUS
<1>1. \A d \in BoundedSeq(Chunk, MaxSize) : d \in Seq(Chunk) /\ Len(d) <= MaxSize
  BY CollectorAssumption DEF BoundedSeq, SeqOf
<1>1d. PICK d \in BoundedSeq(Chunk, MaxSize) :
        \E left \in SUBSET {Part(0), Part(1), CopyName(0, Hash8(d))} :
          dir = [f \in left |-> [data |-> d, synced |-> TRUE]]
  BY DEF DInit
<1>1l. PICK left \in SUBSET {Part(0), Part(1), CopyName(0, Hash8(d))} :
        dir = [f \in left |-> [data |-> d, synced |-> TRUE]]
  BY <1>1d
<1>2. /\ left \subseteq {Part(0), Part(1), CopyName(0, Hash8(d))}
      /\ dir = [f \in left |-> [data |-> d, synced |-> TRUE]]
  BY <1>1l
<1>3. /\ source \in [Job -> {[data |-> x, linked |-> TRUE] : x \in BoundedSeq(Chunk, MaxSize)}]
      /\ pc = "idle" /\ read = <<>> /\ nameSeq = 0 /\ collected = 0 /\ uploaded = {}
  BY DEF DInit
<1>4. dir \in [DOMAIN dir -> File]
  <2>1. [data |-> d, synced |-> TRUE] \in File
    BY <1>1 DEF File
  <2>2. QED
    BY <1>2, <2>1
<1>5. source \in [Job -> [data : Seq(Chunk), linked : BOOLEAN]]
  <2>1. \A x \in BoundedSeq(Chunk, MaxSize) :
          [data |-> x, linked |-> TRUE] \in [data : Seq(Chunk), linked : BOOLEAN]
    BY <1>1
  <2>2. \A j \in Job : source[j] \in [data : Seq(Chunk), linked : BOOLEAN]
    <3>1. SUFFICES ASSUME NEW j \in Job PROVE source[j] \in [data : Seq(Chunk), linked : BOOLEAN]
      OBVIOUS
    <3>2. PICK x \in BoundedSeq(Chunk, MaxSize) : source[j] = [data |-> x, linked |-> TRUE]
      BY <1>3
    <3>3. QED
      BY <2>1, <3>2
  <2>3. QED
    BY <1>3, <2>2
<1>6. \A f \in Finals : dir[f] = [data |-> d, synced |-> TRUE] /\ f[3] = Hash8(d)
  <2>1. SUFFICES ASSUME NEW f \in Finals
                 PROVE  dir[f] = [data |-> d, synced |-> TRUE] /\ f[3] = Hash8(d)
    OBVIOUS
  <2>2. f \in left /\ f[1] = "copy"
    BY <1>2 DEF Finals
  <2>3. f = CopyName(0, Hash8(d))
    BY <1>2, <2>2, NameKinds
  <2>4. f[3] = Hash8(d)
    BY <2>3, NameKinds
  <2>5. QED
    BY <1>2, <2>2, <2>4
<1>7. QED
  BY <1>1, <1>3, <1>4, <1>5, <1>6, EmptySeq
     DEF NamesInv, CollectorTyped, Labels, PartIsRead, NamedIsWhole

\* The inductive invariant of the copies, on top of that of the queue.
THEOREM NamesInvariant == DSpec => []NamesInv
<1>1. LossInv => QueueTyped
  BY DEF LossInv
<1>2. QED
  BY <1>1, QueueInvariant, NamesInit, NamesStep, PTL DEF DSpec

\* Whatever the sample, an earlier boot or a power loss does: a copy under its
\* final name, and one that was uploaded, is the whole content of its hash.
THEOREM NamedCopiesWhole == DSpec => []NamedIsWhole
<1>1. NamesInv => NamedIsWhole
  BY DEF NamesInv
<1>2. QED
  BY <1>1, NamesInvariant, PTL
-----------------------------------------------------------------------------
(* The budget is spent on copies                                           *)

\* collect_drop passes the gate before it takes a number, and only its own
\* Count raises what the gate looked at.
BudgetInv ==
  /\ pc \in {"open", "copy", "remove", "name", "count"} => collected < Limit
  /\ IsFiniteSet(seen)
  /\ SpentOnCopies

LEMMA BudgetCollect ==
  ASSUME NamesInv, BudgetInv, Collect PROVE BudgetInv'
<1> USE CollectorAssumption DEF BudgetInv, SpentOnCopies, at, quiet, To, collector, world
<1>1. /\ dir \in [DOMAIN dir -> File] /\ ThisPart[1] # "copy"
      /\ \A n : Part(n)[1] # "copy"
      /\ collected \in Nat /\ Limit \in Nat /\ Cardinality(seen) \in Nat
  BY NameKinds, FS_CardinalityType DEF NamesInv, CollectorTyped, ThisPart
<1>2. ASSUME Finals' = Finals, UNCHANGED <<seen, collected>>,
             pc \in {"idle", "open", "copy", "remove", "name", "report", "upload", "done"},
             pc' # "count",
             pc' \in {"open", "copy", "remove", "name"} =>
               pc \in {"open", "copy", "remove", "name"} \/ collected < Limit
      PROVE  BudgetInv'
  BY <1>1, <1>2
<1>3. CASE Preflight
  BY <1>2, <1>3 DEF Preflight, Finals
<1>4. CASE Report \/ Upload \/ CollectReturns
  BY <1>2, <1>4 DEF Report, Upload, CollectReturns, Finals
<1>5. CASE OpenPart
  <2>1. CASE UNCHANGED dir
    BY <1>2, <1>5, <2>1 DEF OpenPart, Finals
  <2>2. CASE dir' = Put(dir, Part(nameSeq), [data |-> <<>>, synced |-> FALSE])
    <3>1. [data |-> <<>>, synced |-> FALSE] \in File
      BY EmptySeq DEF File
    <3>2. Finals' = Finals
      BY <1>1, <2>2, <3>1, Directory
    <3>3. QED
      BY <1>2, <1>5, <3>2 DEF OpenPart
  <2>3. QED
    BY <1>5, <2>1, <2>2 DEF OpenPart
<1>6. CASE CopyChunk \/ CopyEnds
  <2>1. DOMAIN dir' = DOMAIN dir
    BY <1>6 DEF CopyChunk, CopyEnds
  <2>2. Finals' = Finals
    BY <2>1 DEF Finals
  <2>3. QED
    BY <1>2, <1>6, <2>2 DEF CopyChunk, CopyEnds
<1>7. CASE NameCopy
  <2> DEFINE h == Hash8(read)
             copy == CopyName(nameSeq - 1, h)
  <2>1. CASE UNCHANGED <<dir, seen>> /\ pc' = "remove"
    BY <1>2, <1>7, <2>1 DEF NameCopy, Finals
  <2>2. CASE ~ (UNCHANGED <<dir, seen>> /\ pc' = "remove")
    <3>1. /\ pc = "name" /\ pc' = "count" /\ h \notin seen /\ seen' = seen \cup {h}
          /\ dir' = Put(Unlink(dir, ThisPart), copy, dir[ThisPart])
          /\ collected' = collected
      BY <1>7, <2>2 DEF NameCopy
    <3>2. dir[ThisPart] \in File
      BY <1>1, <3>1 DEF NamesInv, PartIsRead
    <3>3. copy[1] = "copy" /\ copy[3] = h
      BY NameKinds
    <3> HIDE DEF h, copy
    <3>4. Finals' = Finals \cup {copy}
      BY <1>1, <3>1, <3>2, <3>3, Directory
    <3>5. IsFiniteSet(seen') /\ Cardinality(seen') = Cardinality(seen) + 1
      BY <3>1, FS_AddElement
    <3>6. \A g \in seen' : \E f \in Finals' : f[3] = g
      BY <3>1, <3>3, <3>4
    <3>7. QED
      BY <1>1, <3>1, <3>5, <3>6
  <2>3. QED
    BY <2>1, <2>2
<1>8. CASE RemovePart
  <2>1. Finals' = Finals
    BY <1>1, <1>8, Directory DEF RemovePart, Finals
  <2>2. QED
    BY <1>2, <1>8, <2>1 DEF RemovePart
<1>9. CASE Count
  <2>1. /\ pc = "count" /\ pc' = "report" /\ collected' = collected + 1
        /\ UNCHANGED <<seen, dir>>
    BY <1>9 DEF Count
  <2>2. Finals' = Finals
    BY <2>1 DEF Finals
  <2>3. QED
    BY <1>1, <2>1, <2>2
<1>10. QED
  BY <1>3, <1>4, <1>5, <1>6, <1>7, <1>8, <1>9 DEF Collect

\* drops.limit_per_session bounds the copies of a session, and no unit of it and
\* no hash is spent on a file that failed on the way.
THEOREM BudgetOnCopies == DSpec => []SpentOnCopies
<1>1. DInit => BudgetInv
  <2> SUFFICES ASSUME DInit PROVE BudgetInv
    OBVIOUS
  <2>1. seen = {} /\ collected = 0 /\ pc = "idle"
    BY DEF DInit
  <2>2. QED
    BY <2>1, FS_EmptySet, CollectorAssumption DEF BudgetInv, SpentOnCopies
<1>2. NamesInv /\ BudgetInv /\ [DNext]_dvars => BudgetInv'
  <2> SUFFICES ASSUME NamesInv, BudgetInv, [DNext]_dvars PROVE BudgetInv'
    OBVIOUS
  <2>1. ASSUME UNCHANGED <<collector, dir>> PROVE BudgetInv'
    BY <2>1 DEF BudgetInv, SpentOnCopies, Finals, collector
  <2>2. CASE PowerLoss
    <3>1. seen' = {} /\ collected' = 0 /\ pc' = "idle"
      BY <2>2 DEF PowerLoss
    <3>2. QED
      BY <3>1, FS_EmptySet, CollectorAssumption DEF BudgetInv, SpentOnCopies
  <2>3. CASE ConsumerEnds \/ QueueStep \/ PluginEnds \/ \E j \in Job : ConsumerReceives(j)
    BY <2>1, <2>3 DEF ConsumerEnds, QueueStep, PluginEnds, ConsumerReceives
  <2>4. CASE \E j \in Job : SampleWrites(j) \/ SampleUnlinks(j)
    BY <2>1, <2>4 DEF SampleWrites, SampleUnlinks
  <2>5. CASE UNCHANGED dvars
    BY <2>1, <2>5 DEF dvars
  <2>6. QED
    BY <2>2, <2>3, <2>4, <2>5, BudgetCollect DEF DNext
<1>3. BudgetInv => SpentOnCopies
  BY DEF BudgetInv
<1>4. QED
  BY <1>1, <1>2, <1>3, NamesInvariant, PTL DEF DSpec
=============================================================================
