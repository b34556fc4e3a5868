----------------------- MODULE SessionLifecycleProofs -----------------------
(* Proofs about the session lifecycle, for any plan and any number of      *)
(* boots and power losses: what is on the disk and when it is written, then *)
(* the history of a study, its session ids, the study id and the refinement *)
(* of the ledger.                                                           *)
EXTENDS SessionLifecycle, SequenceTheorems, TLAPS

-----------------------------------------------------------------------------
(* What the operators on session lists return                              *)

\* Stamping the last record keeps a list of sessions of the same length.
LEMMA EndLastSeq ==
  ASSUME NEW ss \in Seq(Session), ss # <<>>
  PROVE  EndLast(ss) \in Seq(Session) /\ Len(EndLast(ss)) = Len(ss)
<1>1. Len(ss) \in 1 .. Len(ss) /\ ss[Len(ss)] \in Session
  OBVIOUS
<1>2. [ended |-> TRUE, abandoned |-> ss[Len(ss)].abandoned] \in Session
  BY <1>1 DEF Session
<1>3. QED
  BY <1>1, <1>2, ExceptSeq DEF EndLast

\* Closing a leftover does not change the length ...
LEMMA CloseAbandonedSeq ==
  ASSUME NEW ss \in Seq(Session)
  PROVE  CloseAbandoned(ss) \in Seq(Session) /\ Len(CloseAbandoned(ss)) = Len(ss)
<1>1. CASE ss # <<>> /\ ~ss[Len(ss)].ended
  <2>1. Len(ss) \in 1 .. Len(ss)
    BY <1>1
  <2>2. [ended |-> TRUE, abandoned |-> TRUE] \in Session
    BY DEF Session
  <2>3. QED
    BY <1>1, <2>1, <2>2, ExceptSeq DEF CloseAbandoned
<1>2. CASE ~(ss # <<>> /\ ~ss[Len(ss)].ended)
  BY <1>2 DEF CloseAbandoned
<1>3. QED
  BY <1>1, <1>2

\* ... and opening adds one record.
LEMMA OpenSessionSeq ==
  ASSUME NEW ss \in Seq(Session)
  PROVE  OpenSession(ss) \in Seq(Session) /\ Len(OpenSession(ss)) = Len(ss) + 1
<1>1. [ended |-> FALSE, abandoned |-> FALSE] \in Session
  BY DEF Session
<1>2. QED
  BY <1>1, CloseAbandonedSeq DEF OpenSession
-----------------------------------------------------------------------------
(* Types                                                                   *)

\* What a missing scope.json loads as is a scope state.
LEMMA EmptyIsScope == EmptyScope \in ScopeState
  BY DEF EmptyScope, ScopeState

\* The store's operations, as the tasks use them, keep its types.
LEMMA StoreTypes ==
  ASSUME Store!TypeOK, mem \in ScopeState
  PROVE  /\ \A w \in Saver : Store!BeginSave(w, mem) => Store!TypeOK'
         /\ \A w \in Saver : Store!Step(w) => Store!TypeOK'
         /\ \A D \in SUBSET Saver : Store!Dropped(D) => Store!TypeOK'
         /\ Store!Crash => Store!TypeOK'
         /\ UNCHANGED store => Store!TypeOK'
<1> USE LifecycleAssumption, NoFileAssumption
    DEF Store!TypeOK, Store!Inode, Store!Working, Store!Resting
<1>1. ASSUME NEW w \in Saver, Store!BeginSave(w, mem) PROVE Store!TypeOK'
  BY <1>1 DEF Store!BeginSave, Store!Busy
<1>2. ASSUME NEW w \in Saver, Store!Step(w) PROVE Store!TypeOK'
  <2>1. CASE Store!RemoveTemp(w)
    BY <2>1 DEF Store!RemoveTemp
  <2>2. CASE Store!CreateTemp(w)
    BY <2>2 DEF Store!CreateTemp
  <2>3. CASE Store!WriteTemp(w)
    BY <2>3 DEF Store!WriteTemp, Store!Written
  <2>4. CASE Store!RenameTemp(w)
    BY <2>4 DEF Store!RenameTemp
  <2>5. CASE Store!Refused(w)
    BY <2>5 DEF Store!Refused, Store!FailSave, Store!Closed
  <2>6. QED
    BY <1>2, <2>1, <2>2, <2>3, <2>4, <2>5 DEF Store!Step
<1>3. ASSUME NEW D \in SUBSET Saver, Store!Dropped(D) PROVE Store!TypeOK'
  BY <1>3 DEF Store!Dropped, Store!Busy
<1>4. ASSUME Store!Crash PROVE Store!TypeOK'
  BY <1>4, EmptyIsScope DEF Store!Crash
<1>5. ASSUME UNCHANGED store PROVE Store!TypeOK'
  BY <1>5 DEF store
<1>6. QED
  BY <1>1, <1>2, <1>3, <1>4, <1>5

\* The types, and that a running agent has an open session: without it the
\* stamp of finalize_session would have no record to write to.
Typed == TypeOK /\ (phase = "up" => mem.sessions # <<>>)

LEMMA TypedInit == Init => Typed
<1> SUFFICES ASSUME Init PROVE Typed
  OBVIOUS
<1>1. Store!TypeOK
  BY EmptyIsScope DEF Init, Store!Init, Store!TypeOK, Store!Working, Store!Resting
<1>2. started \in Seq(SessionKey)
  BY DEF Init
<1>3. QED
  BY <1>1, <1>2, EmptyIsScope DEF Init, Typed, TypeOK, FinalizePc, HostPc

\* A task that ends or a VM that goes down keeps the types.
LEMMA TypedStep == Typed /\ [Next]_vars => Typed'
<1> SUFFICES ASSUME Typed, [Next]_vars PROVE Typed'
  OBVIOUS
<1> USE StoreTypes DEF Typed, TypeOK, FinalizePc, HostPc, vm, finalize, tasks, agent, history
<1>1. CASE FinalizeStep
  <2>1. CASE FinalizeStamp
    <3>1. EndLast(mem.sessions) \in Seq(Session) /\ Len(EndLast(mem.sessions)) = Len(mem.sessions)
      BY <2>1, EndLastSeq DEF FinalizeStamp, ScopeState
    <3>2. mem' \in ScopeState /\ mem'.sessions # <<>>
      BY <2>1, <3>1 DEF FinalizeStamp, ScopeState
    <3>3. QED
      BY <2>1, <3>2 DEF FinalizeStamp
  <2>2. CASE FinalizeReportsClockKills
    BY <2>2 DEF FinalizeReportsClockKills
  <2>3. CASE FinalizeBeginSave
    BY <2>3 DEF FinalizeBeginSave, Saver
  <2>4. CASE FinalizePublishEnded
    <3>1. [study |-> mem.study, id |-> Len(mem.sessions) - 1] \in SessionKey
      BY <2>4 DEF FinalizePublishEnded, SessionKey, ScopeState
    <3>2. QED
      BY <2>4, <3>1 DEF FinalizePublishEnded
  <2>5. CASE FinalizeRequest
    BY <2>5 DEF FinalizeRequest
  <2>6. CASE FinalizeDone
    BY <2>6 DEF FinalizeDone
  <2>7. QED
    BY <1>1, <2>1, <2>2, <2>3, <2>4, <2>5, <2>6 DEF FinalizeStep
<1>2. ASSUME NEW w \in Saver, SaveStep(w) PROVE Typed'
  <2>1. Len(started) \in Nat
    BY DEF SessionKey
  <2>2. Store!TypeOK'
    BY <1>2 DEF SaveStep
  <2>3. persisted' \subseteq Nat
    BY <1>2, <2>1 DEF SaveStep
  <2>4. UNCHANGED <<vm, agent, started, clean>>
    BY <1>2 DEF SaveStep
  <2>5. QED
    BY <2>2, <2>3, <2>4
<1>3. CASE Scheduler
  <2>1. ASSUME SchedulerEnds, phase' = phase, mem' = mem PROVE Store!TypeOK'
    BY <2>1 DEF SchedulerEnds, Saver
  <2>2. CASE PersistTick
    BY <2>2 DEF PersistTick
  <2>3. CASE PersistSnapshot
    BY <2>3 DEF PersistSnapshot, Saver
  <2>4. CASE DeadlineFires
    BY <2>4, <2>1 DEF DeadlineFires, Claim, SchedulerEnds
  <2>5. CASE DeadlineReturns
    BY <2>5, <2>1 DEF DeadlineReturns, SchedulerEnds
  <2>6. CASE SchedulerCancelled
    BY <2>6, <2>1 DEF SchedulerCancelled, SchedulerEnds
  <2>7. QED
    BY <1>3, <2>2, <2>3, <2>4, <2>5, <2>6 DEF Scheduler
<1>4. CASE Consumer
  BY <1>4 DEF Consumer, ConsumerScopeDied, ConsumerReturns, ConsumerCancelled, Claim
<1>5. CASE Host
  <2>1. CASE HostServiceStop
    BY <2>1 DEF HostServiceStop, Claim
  <2>2. CASE HostFinalizeReturns \/ HostPoll \/ HostShutdown \/ HostJoin
    BY <2>2 DEF HostFinalizeReturns, HostPoll, HostShutdown, HostJoin
  <2>3. CASE HostExit
    BY <2>3 DEF HostExit
  <2>4. QED
    BY <1>5, <2>1, <2>2, <2>3 DEF Host
<1>6. CASE Vm
  <2>1. CASE Boot
    <3> DEFINE old == Store!Contents(file)
    <3>1. old \in ScopeState
      BY DEF Store!Contents, Store!TypeOK, Store!Inode, ScopeState, EmptyScope
    <3>2. StudyId(old) \in Nat
      BY <3>1 DEF StudyId, ScopeState
    <3>3. OpenSession(old.sessions) \in Seq(Session) /\ Len(OpenSession(old.sessions)) = Len(old.sessions) + 1
      BY <3>1, OpenSessionSeq DEF ScopeState
    <3>4. mem' \in ScopeState /\ mem'.sessions # <<>>
      BY <2>1, <3>1, <3>2, <3>3 DEF Boot, ScopeState
    <3>5. started' \in Seq(SessionKey)
      BY <2>1, <3>1, <3>2 DEF Boot, ScopeState, SessionKey
    <3>6. QED
      BY <2>1, <3>4, <3>5 DEF Boot
  <2>2. CASE BootFails
    BY <2>2 DEF BootFails
  <2>3. CASE PowerLoss
    BY <2>3, LifecycleAssumption DEF PowerLoss, PowerDown
  <2>4. CASE ControllerReboots \/ ControllerShutsDown
    BY <2>4 DEF ControllerReboots, ControllerShutsDown, PowerDown
  <2>5. QED
    BY <1>6, <2>1, <2>2, <2>3, <2>4 DEF Vm
<1>7. CASE UNCHANGED vars
  BY <1>7 DEF vars
<1>8. QED
  BY <1>1, <1>2, <1>3, <1>4, <1>5, <1>6, <1>7 DEF Next

\* The agent's state, the files and the study's history keep their types.
THEOREM TypeCorrect == Spec => []TypeOK
<1>1. Typed => TypeOK
  BY DEF Typed
<1>2. QED
  BY <1>1, TypedInit, TypedStep, PTL DEF Spec
-----------------------------------------------------------------------------
(***************************************************************************)
(* OnlySchedulerFinalizeIsLost.  The property speaks of the exit; what     *)
(* makes it true is where the three tasks stand before: the host runs its  *)
(* own finalize inside accept(), the consumer stays in "finalize" for the  *)
(* whole of its own, and the host reaches the flush only past both, with   *)
(* the flag raised or after a ServiceStop that found the swap taken.       *)
(***************************************************************************)

Winner ==
  /\ fby = "host" => host = "accept" \/ fpc = "done"
  /\ fby = "cons" => cons = "finalize" \/ fpc = "done"
  /\ fby = "none" => fpc = "none"
  /\ fpc = "done" => done
  /\ host = "accept" => fby = "host"
  /\ host \in {"shutdown", "join", "flush"} => done \/ (fby # "none" /\ Stops)
  /\ host = "flush" => cons = "gone"

FinalizeInv == (phase = "up" => Winner) /\ OnlySchedulerFinalizeIsLost

LEMMA FinalizeInvStep == Typed /\ FinalizeInv /\ [Next]_vars => FinalizeInv'
<1> SUFFICES ASSUME Typed, FinalizeInv, [Next]_vars PROVE FinalizeInv'
  OBVIOUS
<1> USE DEF FinalizeInv, Winner, OnlySchedulerFinalizeIsLost, vm, finalize, tasks, agent, history
<1>0. fby \in {"none", "host", "sched", "cons"} /\ cons \in {"recv", "finalize", "gone"}
  BY DEF Typed, TypeOK
<1>1. CASE FinalizeStep
  BY <1>1 DEF FinalizeStep, FinalizeStamp, FinalizeReportsClockKills, FinalizeBeginSave,
              FinalizePublishEnded, FinalizeRequest, FinalizeDone
<1>2. CASE \E w \in Saver : SaveStep(w)
  BY <1>2 DEF SaveStep
<1>3. CASE Scheduler
  BY <1>3 DEF Scheduler, PersistTick, PersistSnapshot, DeadlineFires, DeadlineReturns,
              SchedulerCancelled, SchedulerEnds, Claim, Cancelled
<1>4. CASE Consumer
  BY <1>4 DEF Consumer, ConsumerScopeDied, ConsumerReturns, ConsumerCancelled, Claim
<1>5. CASE Host
  <2>1. CASE HostServiceStop
    BY <2>1 DEF HostServiceStop, Claim
  <2>2. CASE HostFinalizeReturns \/ HostPoll \/ HostShutdown \/ HostJoin
    BY <2>2 DEF HostFinalizeReturns, HostPoll, HostShutdown, HostJoin
  <2>3. CASE HostExit
    BY <1>0, <2>3 DEF HostExit
  <2>4. QED
    BY <1>5, <2>1, <2>2, <2>3 DEF Host
<1>6. CASE Vm
  BY <1>6 DEF Vm, Boot, BootFails, PowerLoss, ControllerReboots, ControllerShutsDown, PowerDown
<1>7. CASE UNCHANGED vars
  BY <1>7 DEF vars
<1>8. QED
  BY <1>1, <1>2, <1>3, <1>4, <1>5, <1>6, <1>7 DEF Next

\* The agent never exits on a finalize of its own or of the consumer that has
\* not run to its end; only one in the scheduler task can be cut, by a stop.
THEOREM FinalizeNotLost == Spec => []OnlySchedulerFinalizeIsLost
<1>1. Init => FinalizeInv
  BY DEF Init, FinalizeInv, OnlySchedulerFinalizeIsLost
<1>2. FinalizeInv => OnlySchedulerFinalizeIsLost
  BY DEF FinalizeInv
<1>3. Spec => []Typed
  BY TypedInit, TypedStep, PTL DEF Spec
<1>4. QED
  BY <1>1, <1>2, <1>3, FinalizeInvStep, PTL DEF Spec
-----------------------------------------------------------------------------
(* What the store's operations do to scope.json                            *)

\* Dropping savers and dying leave the values of both files alone.
LEMMA StoreDowns ==
  ASSUME Store!TypeOK
  PROVE  /\ \A D \in SUBSET Saver : Store!Dropped(D) =>
              /\ Recorded' = Recorded
              /\ snap' = snap
              /\ temp' = NoFile <=> temp = NoFile
              /\ temp # NoFile => temp'.val = temp.val
              /\ \A w \in Saver : spc'[w] = spc[w] \/ spc'[w] = "idle"
         /\ Store!Crash =>
              /\ Recorded' = Recorded
              /\ \A w \in Saver : spc'[w] = "idle"
<1> USE NoFileAssumption DEF Store!TypeOK, Store!Inode, Recorded, Store!Contents
<1>1. ASSUME NEW D \in SUBSET Saver, Store!Dropped(D)
      PROVE  /\ Recorded' = Recorded
             /\ snap' = snap
             /\ temp' = NoFile <=> temp = NoFile
             /\ temp # NoFile => temp'.val = temp.val
             /\ \A w \in Saver : spc'[w] = spc[w] \/ spc'[w] = "idle"
  BY <1>1 DEF Store!Dropped
<1>2. ASSUME Store!Crash
      PROVE  Recorded' = Recorded /\ \A w \in Saver : spc'[w] = "idle"
  BY <1>2 DEF Store!Crash
<1>3. QED
  BY <1>1, <1>2

\* No step of a save but the rename changes what scope.json holds, and no
\* other returns Ok.
LEMMA OnlyRenameRecords ==
  ASSUME Store!TypeOK, NEW w \in Saver, Store!Step(w), ~Store!RenameTemp(w)
  PROVE  Recorded' = Recorded /\ spc'[w] # "ok"
<1> USE NoFileAssumption DEF Store!TypeOK, Store!Inode, Recorded, Store!Contents
<1>1. CASE Store!RemoveTemp(w) \/ Store!CreateTemp(w)
  BY <1>1 DEF Store!RemoveTemp, Store!CreateTemp
<1>2. CASE Store!WriteTemp(w)
  BY <1>2 DEF Store!WriteTemp, Store!Written
<1>3. CASE Store!Refused(w)
  BY <1>3 DEF Store!Refused, Store!FailSave, Store!Closed
<1>4. QED
  BY <1>1, <1>2, <1>3 DEF Store!Step

\* The fields the invariant reads, and what leaves it true.
LEMMA Frame ==
  ASSUME StudyInv, Typed, mem' = mem, phase' = phase, started' = started,
         persisted' = persisted, Recorded' = Recorded, snap' = snap,
         temp' = NoFile <=> temp = NoFile,
         temp # NoFile => temp'.val = temp.val,
         \A w \in Saver : spc'[w] = spc[w] \/ spc'[w] = "idle"
  PROVE  (SavesFit /\ RecordFits /\ StartedFits)'
<1>1. SavesFit'
  BY DEF StudyInv, SavesFit, Fits, Store!Busy, Store!Working, Making
<1>2. RecordFits'
  BY DEF StudyInv, RecordFits, Fits
<1>3. StartedFits'
  BY DEF StudyInv, StartedFits
<1>4. QED
  BY <1>1, <1>2, <1>3
\* A snapshot taken of the running boot's state fits it, and the first thing
\* its save does is to remove the temp file it finds.
LEMMA BeginFits ==
  ASSUME StudyInv, Typed, phase = "up", NEW x \in Saver, Store!BeginSave(x, mem),
         UNCHANGED <<mem, phase, started, persisted>>
  PROVE  (SavesFit /\ RecordFits /\ StartedFits)'
<1> USE DEF Typed, TypeOK, Store!TypeOK
<1>1. SavesFit'
  BY DEF StudyInv, SavesFit, Fits, Store!Busy, Store!Working, Store!Resting, Making, Store!BeginSave
<1>2. Recorded' = Recorded
  BY DEF Store!BeginSave, Recorded, Store!Contents
<1>3. RecordFits'
  BY <1>2 DEF StudyInv, RecordFits, Fits
<1>4. StartedFits'
  BY <1>2 DEF StudyInv, StartedFits
<1>5. QED
  BY <1>1, <1>3, <1>4

\* A step of a save: only the rename changes what scope.json holds, and it
\* installs a state of the running boot.
LEMMA StepFits ==
  ASSUME StudyInv, Typed, NEW x \in Saver, SaveStep(x)
  PROVE  (SavesFit /\ RecordFits /\ StartedFits)'
<1> USE NoFileAssumption DEF Typed, TypeOK, Store!TypeOK, Store!Inode
<1>1. /\ phase = "up" /\ Store!Step(x) /\ mem' = mem /\ phase' = phase /\ started' = started
      /\ persisted' = IF spc'[x] = "ok" THEN persisted \cup {Len(started)} ELSE persisted
  BY DEF SaveStep, vm, agent
<1>2. CASE Store!RenameTemp(x)
  <2>1. Fits(temp.val) /\ Recorded' = temp.val /\ temp # NoFile
    BY <1>1, <1>2 DEF StudyInv, SavesFit, Making, Store!RenameTemp, Recorded, Store!Contents
  <2>2. SavesFit'
    BY <1>1, <1>2 DEF StudyInv, SavesFit, Fits, Store!Busy, Store!Working, Making, Store!RenameTemp
  <2>3. RecordFits'
    BY <1>1, <2>1 DEF StudyInv, RecordFits, Fits
  <2>4. persisted' = persisted \cup {Len(started)}
    BY <1>1, <1>2 DEF Store!RenameTemp
  <2>5. /\ started # <<>> /\ Len(started) \in 1 .. Len(started)
        /\ started[Len(started)] = [study |-> mem.study, id |-> Len(mem.sessions) - 1]
    BY <1>1 DEF StudyInv, StartedFits
  <2>6. Len(mem.sessions) \in Nat
    BY DEF ScopeState
  <2>7. ASSUME NEW a \in persisted
        PROVE  a \in 1 .. Len(started) /\ started[a].study = mem.study /\ started[a].id < Len(mem.sessions)
    <3>1. a \in 1 .. Len(started) /\ started[a].study = Recorded.study /\ started[a].id < Len(Recorded.sessions)
      BY <2>7 DEF StudyInv, StartedFits
    <3>2. started[a].id \in Nat
      <4>1. started \in Seq(SessionKey)
        BY DEF Typed, TypeOK
      <4>2. started[a] \in SessionKey
        BY <3>1, <4>1, ElementOfSeq
      <4>3. QED
        BY <4>2 DEF SessionKey
    <3>3. Recorded # EmptyScope
      BY <3>1, <3>2 DEF EmptyScope
    <3>4. QED
      BY <1>1, <2>6, <3>1, <3>2, <3>3 DEF StudyInv, RecordFits, Fits
  <2>8. StartedFits'
    BY <1>1, <2>1, <2>4, <2>5, <2>6, <2>7 DEF StartedFits, Fits
  <2>9. QED
    BY <2>2, <2>3, <2>8
<1>3. CASE ~Store!RenameTemp(x)
  <2>1. Recorded' = Recorded /\ persisted' = persisted
    BY <1>1, <1>3, OnlyRenameRecords
  <2>2. SavesFit'
    <3> USE DEF StudyInv, SavesFit, Fits, Store!Busy, Store!Working, Making
    <3>1. CASE Store!RemoveTemp(x)
      BY <1>1, <3>1 DEF Store!RemoveTemp
    <3>2. CASE Store!CreateTemp(x)
      BY <1>1, <3>2 DEF Store!CreateTemp
    <3>3. CASE Store!WriteTemp(x)
      BY <1>1, <3>3 DEF Store!WriteTemp, Store!Written
    <3>4. CASE Store!Refused(x)
      BY <1>1, <3>4 DEF Store!Refused, Store!FailSave, Store!Closed
    <3>5. QED
      BY <1>1, <1>3, <3>1, <3>2, <3>3, <3>4 DEF Store!Step
  <2>3. RecordFits'
    BY <1>1, <2>1 DEF StudyInv, RecordFits, Fits
  <2>4. StartedFits'
    BY <1>1, <2>1 DEF StudyInv, StartedFits
  <2>5. QED
    BY <2>2, <2>3, <2>4
<1>4. QED
  BY <1>2, <1>3
-----------------------------------------------------------------------------
(* The invariant                                                           *)

LEMMA StudyInit == Init => StudyInv
  BY DEF Init, Store!Init, StudyInv, SavesFit, RecordFits, StartedFits, AskedLate, Recorded,
         Store!Contents, Store!Busy, Store!Working

\* A request is made at most once: the parts about finalize_session.
LEMMA AskedStep ==
  ASSUME Typed, StudyInv, [Next]_vars PROVE AskedLate'
<1> USE DEF StudyInv, AskedLate, vm, finalize, tasks, agent, history
<1>1. CASE FinalizeStep
  BY <1>1 DEF FinalizeStep, FinalizeStamp, FinalizeReportsClockKills, FinalizeBeginSave,
              FinalizePublishEnded, FinalizeRequest, FinalizeDone
<1>2. CASE \E w \in Saver : SaveStep(w)
  BY <1>2 DEF SaveStep
<1>3. CASE Scheduler
  BY <1>3 DEF Scheduler, PersistTick, PersistSnapshot, DeadlineFires, DeadlineReturns,
              SchedulerCancelled, SchedulerEnds, Claim
<1>4. CASE Consumer
  BY <1>4 DEF Consumer, ConsumerScopeDied, ConsumerReturns, ConsumerCancelled, Claim
<1>5. CASE Host
  BY <1>5 DEF Host, HostServiceStop, HostFinalizeReturns, HostPoll, HostShutdown, HostJoin,
              HostExit, Claim
<1>6. CASE Vm
  BY <1>6 DEF Vm, Boot, BootFails, PowerLoss, ControllerReboots, ControllerShutsDown, PowerDown
<1>7. CASE UNCHANGED vars
  BY <1>7 DEF vars
<1>8. QED
  BY <1>1, <1>2, <1>3, <1>4, <1>5, <1>6, <1>7 DEF Next

\* The boot that loads scope.json opens the one session it lacks.
LEMMA BootFits ==
  ASSUME Typed, StudyInv, Boot PROVE (SavesFit /\ RecordFits /\ StartedFits)'
<1> DEFINE key == [study |-> StudyId(Recorded), id |-> Len(Recorded.sessions)]
<1>1. Recorded \in ScopeState
  BY DEF Typed, TypeOK, Store!TypeOK, Store!Inode, Recorded, Store!Contents, ScopeState, EmptyScope
<1>2. started \in Seq(SessionKey) /\ Len(started) \in Nat
  BY DEF Typed, TypeOK
<1>3. /\ phase = "off" /\ phase' = "up"
      /\ mem' = [study |-> StudyId(Recorded), sessions |-> OpenSession(Recorded.sessions)]
      /\ started' = Append(started, key)
      /\ UNCHANGED <<file, temp, spc, snap, persisted>>
  BY DEF Boot, store, Recorded
<1>4. Recorded' = Recorded
  BY <1>3 DEF Recorded, Store!Contents
<1>5. Len(mem'.sessions) = Len(Recorded.sessions) + 1 /\ Len(Recorded.sessions) \in Nat
  BY <1>1, <1>3, OpenSessionSeq DEF ScopeState
<1>6. /\ mem'.study = StudyId(Recorded) /\ mem'.study > 0
      /\ Recorded = EmptyScope \/ Recorded.study = mem'.study
  BY <1>1, <1>2, <1>3 DEF StudyId, StudyInv, RecordFits, ScopeState
<1>7. SavesFit'
  BY <1>3 DEF StudyInv, SavesFit, Store!Busy, Store!Working, Making
<1>8. RecordFits'
  BY <1>3, <1>4, <1>5, <1>6 DEF StudyInv, RecordFits
<1>9. StartedFits'
  <2>1. key \in SessionKey
    BY <1>1, <1>2, <1>5 DEF SessionKey, StudyId, ScopeState
  <2>2. /\ Len(started') = Len(started) + 1
        /\ started'[Len(started')] = key
        /\ \A a \in 1 .. Len(started) : started'[a] = started[a]
    BY <1>2, <1>3, <2>1
  <2>3. started' # <<>>
    BY <1>2, <2>2
  <2>4. QED
    BY <1>2, <1>3, <1>4, <1>5, <1>6, <2>2, <2>3 DEF StudyInv, StartedFits
<1>10. QED
  BY <1>7, <1>8, <1>9

LEMMA StudyStep == Typed /\ StudyInv /\ [Next]_vars => StudyInv'
<1> SUFFICES ASSUME Typed, StudyInv, [Next]_vars PROVE StudyInv'
  OBVIOUS
<1> DEFINE Rest == SavesFit /\ RecordFits /\ StartedFits
<1> SUFFICES Rest'
  BY AskedStep DEF StudyInv
<1>0. Store!TypeOK
  BY DEF Typed, TypeOK
<1>1. ASSUME UNCHANGED <<file, temp, spc, snap, phase, mem, started, persisted>> PROVE Rest'
  BY <1>1, Frame DEF Recorded, Store!Contents
<1>2. ASSUME SchedulerEnds, UNCHANGED <<phase, mem, started, persisted>> PROVE Rest'
  <2>1. PICK D \in SUBSET Saver : Store!Dropped(D)
    BY <1>2 DEF SchedulerEnds, Saver
  <2>2. QED
    BY <1>0, <1>2, <2>1, StoreDowns, Frame
<1>3. ASSUME Store!Crash, phase' # "up", UNCHANGED <<started, persisted>> PROVE Rest'
  <2>1. Recorded' = Recorded /\ \A w \in Saver : spc'[w] = "idle"
    BY <1>0, <1>3, StoreDowns
  <2>2. QED
    BY <1>3, <2>1 DEF StudyInv, SavesFit, RecordFits, StartedFits, Store!Busy, Store!Working
<1> USE DEF store, vm, finalize, tasks, agent, history
<1>4. CASE FinalizeStep
  <2>1. CASE FinalizeStamp
    <3>1. EndLast(mem.sessions) \in Seq(Session) /\ Len(EndLast(mem.sessions)) = Len(mem.sessions)
      BY <2>1, EndLastSeq DEF FinalizeStamp, ScopeState, Typed, TypeOK
    <3>2. mem'.study = mem.study /\ Len(mem'.sessions) = Len(mem.sessions)
      BY <2>1, <3>1 DEF FinalizeStamp, ScopeState, Typed, TypeOK
    <3>3. QED
      BY <2>1, <3>2 DEF FinalizeStamp, StudyInv, SavesFit, RecordFits, StartedFits, Fits, Making,
                        Recorded, Store!Contents, Store!Busy
  <2>2. CASE FinalizeBeginSave
    BY <2>2, BeginFits DEF FinalizeBeginSave, Saver
  <2>3. CASE FinalizeReportsClockKills \/ FinalizePublishEnded \/ FinalizeRequest \/ FinalizeDone
    BY <2>3, <1>1 DEF FinalizeReportsClockKills, FinalizePublishEnded, FinalizeRequest, FinalizeDone
  <2>4. QED
    BY <1>4, <2>1, <2>2, <2>3 DEF FinalizeStep
<1>5. CASE \E w \in Saver : SaveStep(w)
  BY <1>5, StepFits
<1>6. CASE Scheduler
  <2>1. CASE PersistTick
    BY <2>1, <1>1 DEF PersistTick
  <2>2. CASE PersistSnapshot
    BY <2>2, BeginFits DEF PersistSnapshot, Saver
  <2>3. CASE DeadlineFires
    BY <2>3, <1>1, <1>2 DEF DeadlineFires
  <2>4. CASE DeadlineReturns \/ SchedulerCancelled
    BY <2>4, <1>2 DEF DeadlineReturns, SchedulerCancelled
  <2>5. QED
    BY <1>6, <2>1, <2>2, <2>3, <2>4 DEF Scheduler
<1>7. CASE Consumer
  BY <1>7, <1>1 DEF Consumer, ConsumerScopeDied, ConsumerReturns, ConsumerCancelled
<1>8. CASE Host
  <2>1. CASE HostExit
    BY <2>1, <1>3 DEF HostExit
  <2>2. CASE HostServiceStop \/ HostFinalizeReturns \/ HostPoll \/ HostShutdown \/ HostJoin
    BY <2>2, <1>1 DEF HostServiceStop, HostFinalizeReturns, HostPoll, HostShutdown, HostJoin
  <2>3. QED
    BY <1>8, <2>1, <2>2 DEF Host
<1>9. CASE Vm
  <2>1. CASE Boot
    BY <2>1, BootFits
  <2>2. CASE BootFails
    BY <2>2 DEF BootFails, StudyInv, SavesFit, RecordFits, StartedFits, Recorded, Store!Contents, Store!Busy
  <2>3. CASE PowerLoss \/ ControllerReboots \/ ControllerShutsDown
    BY <2>3, <1>3 DEF PowerLoss, ControllerReboots, ControllerShutsDown, PowerDown
  <2>4. QED
    BY <1>9, <2>1, <2>2, <2>3 DEF Vm
<1>10. CASE UNCHANGED vars
  BY <1>10, <1>1 DEF vars
<1>11. QED
  BY <1>4, <1>5, <1>6, <1>7, <1>8, <1>9, <1>10 DEF Next

\* Both invariants hold in every reachable state.
THEOREM StudyInvariant == Spec => [](Typed /\ StudyInv)
<1>1. Init => Typed /\ StudyInv
  BY TypedInit, StudyInit
<1>2. Typed /\ StudyInv /\ [Next]_vars => (Typed /\ StudyInv)'
  BY TypedStep, StudyStep
<1>3. QED
  BY <1>1, <1>2, PTL DEF Spec
-----------------------------------------------------------------------------
(* Session ids                                                             *)

\* A boot takes an id above every persisted one; a boot becomes persisted
\* only while it is the last.
LEMMA IdsStep ==
  Typed /\ StudyInv /\ IdsUniqueOncePersisted /\ [Next]_vars => IdsUniqueOncePersisted'
<1> SUFFICES ASSUME Typed, StudyInv, IdsUniqueOncePersisted, [Next]_vars
             PROVE  IdsUniqueOncePersisted'
  OBVIOUS
<1>1. started \in Seq(SessionKey) /\ Len(started) \in Nat
  BY DEF Typed, TypeOK
<1>2. CASE Boot
  <2> DEFINE key == [study |-> StudyId(Recorded), id |-> Len(Recorded.sessions)]
  <2>1. started' = Append(started, key) /\ persisted' = persisted
    BY <1>2 DEF Boot, Recorded
  <2>2. Recorded \in ScopeState
    BY DEF Typed, TypeOK, Store!TypeOK, Store!Inode, Recorded, Store!Contents, ScopeState, EmptyScope
  <2>3. key \in SessionKey /\ Len(Recorded.sessions) \in Nat
    BY <1>1, <2>2 DEF SessionKey, StudyId, ScopeState
  <2>4. /\ Len(started') = Len(started) + 1
        /\ started'[Len(started) + 1] = key
        /\ \A a \in 1 .. Len(started) : started'[a] = started[a]
    BY <1>1, <2>1, <2>3
  <2>5. \A a \in persisted : a \in 1 .. Len(started) /\ started[a] # key
    BY <2>3 DEF StudyInv, StartedFits
  <2>6. QED
    BY <1>1, <2>1, <2>4, <2>5 DEF IdsUniqueOncePersisted
<1>3. CASE \E w \in Saver : SaveStep(w)
  BY <1>1, <1>3 DEF SaveStep, IdsUniqueOncePersisted
<1>4. ASSUME UNCHANGED <<started, persisted>> PROVE IdsUniqueOncePersisted'
  BY <1>4 DEF IdsUniqueOncePersisted
<1> USE <1>4 DEF store, vm, finalize, tasks, agent, history
<1>5. CASE FinalizeStep
  BY <1>5 DEF FinalizeStep, FinalizeStamp, FinalizeReportsClockKills, FinalizeBeginSave,
              FinalizePublishEnded, FinalizeRequest, FinalizeDone
<1>6. CASE Scheduler
  BY <1>6 DEF Scheduler, PersistTick, PersistSnapshot, DeadlineFires, DeadlineReturns,
              SchedulerCancelled
<1>7. CASE Consumer
  BY <1>7 DEF Consumer, ConsumerScopeDied, ConsumerReturns, ConsumerCancelled
<1>8. CASE Host
  BY <1>8 DEF Host, HostServiceStop, HostFinalizeReturns, HostPoll, HostShutdown, HostJoin, HostExit
<1>9. CASE Vm
  BY <1>2, <1>9 DEF Vm, BootFails, PowerLoss, ControllerReboots, ControllerShutsDown, PowerDown
<1>10. CASE UNCHANGED vars
  BY <1>10 DEF vars
<1>11. QED
  BY <1>3, <1>5, <1>6, <1>7, <1>8, <1>9, <1>10 DEF Next

\* For every plan, crash pattern and interleaving of saves: a session id is
\* used again within a study only if the boot that used it first never got
\* its scope saved.
THEOREM IdsUnique == Spec => []IdsUniqueOncePersisted
<1>1. Init => IdsUniqueOncePersisted
  BY DEF Init, IdsUniqueOncePersisted
<1>2. QED
  BY <1>1, IdsStep, StudyInvariant, PTL DEF Spec

-----------------------------------------------------------------------------
(* The study id and the ledger                                             *)

\* What each step does to the four values the ledger shows.
LEMMA LedgerStep ==
  Typed /\ StudyInv /\ [Next]_vars => [Ledger!Next]_(Ledger!vars)
<1> SUFFICES ASSUME Typed, StudyInv, [Next]_vars
             PROVE  Ledger!Next \/ UNCHANGED Ledger!vars
  BY DEF Ledger!vars
<1> USE DEF store, vm, finalize, tasks, agent, history
<1>0. Store!TypeOK
  BY DEF Typed, TypeOK
<1>1. ASSUME UNCHANGED <<file, mem, phase, asked>> PROVE UNCHANGED Ledger!vars
  BY <1>1 DEF Ledger!vars, Store!Contents
<1>2. ASSUME Recorded' = Recorded, UNCHANGED <<mem, asked>>, phase' # "up"
      PROVE  Ledger!Next \/ UNCHANGED Ledger!vars
  BY <1>2 DEF Ledger!vars, Ledger!Next, Ledger!Down, Recorded
<1>3. CASE FinalizeStep
  <2>1. CASE FinalizeStamp
    <3>1. Len(EndLast(mem.sessions)) = Len(mem.sessions)
      BY <2>1, EndLastSeq DEF FinalizeStamp, ScopeState, Typed, TypeOK
    <3>2. Len(mem'.sessions) = Len(mem.sessions)
      BY <2>1, <3>1 DEF FinalizeStamp, ScopeState, Typed, TypeOK
    <3>3. QED
      BY <2>1, <3>2 DEF FinalizeStamp, Ledger!vars, Store!Contents
  <2>2. CASE FinalizeRequest
    BY <2>2, <1>1 DEF FinalizeRequest, Ledger!vars, Ledger!Next, Ledger!Ask, Exhausted, StudyInv,
                      AskedLate, Store!Contents
  <2>3. CASE FinalizeReportsClockKills \/ FinalizeBeginSave \/ FinalizePublishEnded \/ FinalizeDone
    BY <2>3, <1>1 DEF FinalizeReportsClockKills, FinalizeBeginSave, FinalizePublishEnded,
                      FinalizeDone, Store!BeginSave
  <2>4. QED
    BY <1>3, <2>1, <2>2, <2>3 DEF FinalizeStep
<1>4. ASSUME NEW w \in Saver, SaveStep(w) PROVE Ledger!Next \/ UNCHANGED Ledger!vars
  <2>1. phase = "up" /\ Store!Step(w) /\ UNCHANGED <<mem, phase, asked>>
    BY <1>4 DEF SaveStep
  <2>2. CASE Store!RenameTemp(w)
    <3>1. Fits(temp.val) /\ Store!Contents(file') = temp.val
      BY <2>1, <2>2 DEF StudyInv, SavesFit, Making, Store!RenameTemp, Store!Contents
    <3>2. Ledger!Persist
      BY <2>1, <3>1 DEF Ledger!Persist, Fits
    <3>3. QED
      BY <3>2 DEF Ledger!Next
  <2>3. CASE ~Store!RenameTemp(w)
    BY <1>0, <2>1, <2>3, OnlyRenameRecords DEF Ledger!vars, Recorded
  <2>4. QED
    BY <2>2, <2>3
<1>5. CASE Scheduler
  <2>1. ASSUME SchedulerEnds, UNCHANGED <<mem, phase, asked>> PROVE UNCHANGED Ledger!vars
    <3>1. PICK D \in SUBSET Saver : Store!Dropped(D)
      BY <2>1 DEF SchedulerEnds, Saver
    <3>2. Recorded' = Recorded
      BY <1>0, <3>1, StoreDowns
    <3>3. QED
      BY <2>1, <3>2 DEF Ledger!vars, Recorded
  <2>2. QED
    BY <1>5, <1>1, <2>1 DEF Scheduler, PersistTick, PersistSnapshot, DeadlineFires, DeadlineReturns,
                            SchedulerCancelled, Store!BeginSave
<1>6. CASE Consumer
  BY <1>6, <1>1 DEF Consumer, ConsumerScopeDied, ConsumerReturns, ConsumerCancelled
<1>7. CASE Host
  <2>1. CASE HostExit
    BY <1>0, <1>2, <2>1, StoreDowns DEF HostExit
  <2>2. QED
    BY <1>7, <1>1, <2>1 DEF Host, HostServiceStop, HostFinalizeReturns, HostPoll, HostShutdown, HostJoin
<1>8. CASE Vm
  <2>1. CASE Boot
    <3>1. Recorded \in ScopeState
      BY <1>0 DEF Store!TypeOK, Store!Inode, Recorded, Store!Contents, ScopeState, EmptyScope
    <3>2. Len(mem'.sessions) = Len(Recorded.sessions) + 1
      BY <2>1, <3>1, OpenSessionSeq DEF Boot, ScopeState, Recorded
    <3>3. Ledger!Boot
      BY <2>1, <3>2 DEF Boot, Ledger!Boot, Recorded, Store!Contents
    <3>4. QED
      BY <3>3 DEF Ledger!Next
  <2>2. CASE BootFails
    BY <2>2 DEF BootFails, Ledger!vars, Store!Contents
  <2>3. CASE PowerLoss \/ ControllerReboots \/ ControllerShutsDown
    BY <1>0, <1>2, <2>3, StoreDowns DEF PowerLoss, ControllerReboots, ControllerShutsDown, PowerDown
  <2>4. QED
    BY <1>8, <2>1, <2>2, <2>3 DEF Vm
<1>9. CASE UNCHANGED vars
  BY <1>1, <1>9 DEF vars
<1>10. QED
  BY <1>3, <1>4, <1>5, <1>6, <1>7, <1>8, <1>9 DEF Next

\* The agent implements the ledger: boots add one session to the durable ones,
\* a save records the whole of the running boot, no recorded session is lost,
\* and the request for a reboot or a shutdown is made once and by the plan.
THEOREM LedgerImplemented == Spec => ImplementsLedger
<1>1. Init => Ledger!Init
  BY DEF Init, Store!Init, Ledger!Init, Store!Contents, EmptyScope
<1>2. QED
  BY <1>1, LedgerStep, StudyInvariant, PTL DEF Spec, ImplementsLedger, Ledger!Spec

\* The study id in scope.json never changes once it is there.
THEOREM StudyIdNeverChanges == Spec => StudyIdStable
<1> DEFINE Keeps == Recorded.study # 0 => Recorded'.study = Recorded.study
<1>1. Typed /\ StudyInv /\ [Next]_vars => [Keeps]_vars
  <2> SUFFICES ASSUME Typed, StudyInv, [Next]_vars PROVE Keeps
    OBVIOUS
  <2> USE DEF store, vm, finalize, tasks, agent, history
  <2>0. Store!TypeOK
    BY DEF Typed, TypeOK
  <2>1. ASSUME Recorded' = Recorded PROVE Keeps
    BY <2>1
  <2>2. ASSUME file' = file PROVE Keeps
    BY <2>2 DEF Recorded, Store!Contents
  <2>3. CASE FinalizeStep
    BY <2>2, <2>3 DEF FinalizeStep, FinalizeStamp, FinalizeReportsClockKills, FinalizeBeginSave,
              FinalizePublishEnded, FinalizeRequest, FinalizeDone, Store!BeginSave
  <2>4. ASSUME NEW w \in Saver, SaveStep(w) PROVE Keeps
    <3>1. phase = "up" /\ Store!Step(w)
      BY <2>4 DEF SaveStep
    <3>2. CASE Store!RenameTemp(w)
      <4>1. Fits(temp.val) /\ Recorded' = temp.val
        BY <3>1, <3>2 DEF StudyInv, SavesFit, Making, Store!RenameTemp, Store!Contents, Recorded
      <4>2. Recorded.study # 0 => Recorded.study = mem.study
        BY <3>1 DEF StudyInv, RecordFits, Fits, EmptyScope
      <4>3. QED
        BY <4>1, <4>2 DEF Fits
    <3>3. CASE ~Store!RenameTemp(w)
      BY <2>0, <2>1, <3>1, <3>3, OnlyRenameRecords
    <3>4. QED
      BY <3>2, <3>3
  <2>5. CASE Scheduler
    <3>1. ASSUME SchedulerEnds PROVE Keeps
      <4>1. PICK D \in SUBSET Saver : Store!Dropped(D)
        BY <3>1 DEF SchedulerEnds, Saver
      <4>2. QED
        BY <2>0, <2>1, <4>1, StoreDowns
    <3>2. QED
      BY <2>2, <2>5, <3>1 DEF Scheduler, PersistTick, PersistSnapshot, DeadlineFires,
                              DeadlineReturns, SchedulerCancelled, Store!BeginSave
  <2>6. CASE Consumer
    BY <2>2, <2>6 DEF Consumer, ConsumerScopeDied, ConsumerReturns, ConsumerCancelled
  <2>7. CASE Host
    BY <2>0, <2>1, <2>2, <2>7, StoreDowns
       DEF Host, HostServiceStop, HostFinalizeReturns, HostPoll, HostShutdown, HostJoin, HostExit
  <2>8. CASE Vm
    BY <2>0, <2>1, <2>2, <2>8, StoreDowns
       DEF Vm, Boot, BootFails, PowerLoss, ControllerReboots, ControllerShutsDown, PowerDown
  <2>9. CASE UNCHANGED vars
    BY <2>2, <2>9 DEF vars
  <2>10. QED
    BY <2>3, <2>4, <2>5, <2>6, <2>7, <2>8, <2>9 DEF Next
<1>2. QED
  BY <1>1, StudyInvariant, PTL DEF Spec, StudyIdStable, Recorded
-----------------------------------------------------------------------------
(* A clean end is durable                                                  *)

EndedClean == [ended |-> TRUE, abandoned |-> FALSE]

\* Scope state s records session k as ended and not abandoned.
Has(s, k) ==
  /\ s.study = k.study
  /\ k.id < Len(s.sessions)
  /\ s.sessions[k.id + 1] = EndedClean

\* Every scope state there is has the shape load expects.
ShapeInv ==
  /\ WellFormed(mem)
  /\ WellFormed(Recorded)
  /\ \A w \in Saver : WellFormed(snap[w])
  /\ temp # NoFile => WellFormed(temp.val)

\* The running boot's own record is never an abandoned one; finalize stamps
\* it before it takes its snapshot.
OwnRecord ==
  phase = "up" =>
    /\ ~mem.sessions[Len(mem.sessions)].abandoned
    /\ fpc \in {"reports", "snapshot", "saving"} => mem.sessions[Len(mem.sessions)] = EndedClean

\* A save that is alone in flight renames its own snapshot or nothing.
LoneSaver ==
  /\ \A w, x \in Saver : Store!Busy(w) /\ Store!Busy(x) => w = x
  /\ \A w \in Saver :
       /\ spc[w] = "create" => temp = NoFile
       /\ spc[w] \in {"write", "rename"} /\ temp # NoFile => temp.val = snap[w]

\* What finalize is about to announce: any save in flight carries the stamped
\* state, and after an Ok scope.json is that state.
Announced ==
  phase = "up" /\ fpc = "saving" =>
    /\ \A w \in Saver : Store!Busy(w) => snap[w] = mem
    /\ spc["finalize"] = "ok" => Recorded = mem

\* No copy of the scope that may still be saved lacks a clean end.
EndsKept ==
  \A k \in clean :
    /\ Has(Recorded, k)
    /\ phase = "up" => Has(mem, k)
    /\ \A w \in Saver : Store!Busy(w) => Has(snap[w], k)

DurableInv ==
  /\ ShapeInv
  /\ OwnRecord
  /\ ~overlap => LoneSaver /\ Announced /\ EndsKept

\* The stamp of finalize_session writes the last record and no other.
LEMMA EndLastRecords ==
  ASSUME NEW ss \in Seq(Session), ss # <<>>
  PROVE  /\ \A i \in 1 .. Len(ss) - 1 : EndLast(ss)[i] = ss[i]
         /\ EndLast(ss)[Len(ss)] = [ended |-> TRUE, abandoned |-> ss[Len(ss)].abandoned]
<1> DEFINE new == [ended |-> TRUE, abandoned |-> ss[Len(ss)].abandoned]
<1>1. Len(ss) \in 1 .. Len(ss) /\ ss[Len(ss)] \in Session
  OBVIOUS
<1>2. new \in Session
  BY <1>1 DEF Session
<1>3. EndLast(ss) = [ss EXCEPT ![Len(ss)] = new]
  BY DEF EndLast
<1> HIDE DEF new
<1>4. \A i \in 1 .. Len(ss) : [ss EXCEPT ![Len(ss)] = new][i] = IF i = Len(ss) THEN new ELSE ss[i]
  BY <1>1, <1>2, ExceptSeq
<1>5. \A i \in 1 .. Len(ss) - 1 : i \in 1 .. Len(ss) /\ i # Len(ss)
  OBVIOUS
<1>6. \A i \in 1 .. Len(ss) - 1 : EndLast(ss)[i] = ss[i]
  BY <1>3, <1>4, <1>5, Zenon
<1>7. EndLast(ss)[Len(ss)] = new
  BY <1>1, <1>3, <1>4, Zenon
<1>8. QED
  BY <1>6, <1>7 DEF new

\* Opening a session keeps every ended record, leaves all earlier ones ended
\* and puts an open one last.
LEMMA OpenSessionRecords ==
  ASSUME NEW ss \in Seq(Session), \A i \in 1 .. Len(ss) - 1 : ss[i].ended
  PROVE  /\ \A i \in 1 .. Len(ss) : ss[i].ended => OpenSession(ss)[i] = ss[i]
         /\ \A i \in 1 .. Len(ss) : OpenSession(ss)[i].ended
         /\ OpenSession(ss)[Len(ss) + 1] = [ended |-> FALSE, abandoned |-> FALSE]
<1> DEFINE cs == CloseAbandoned(ss)
<1>1. cs \in Seq(Session) /\ Len(cs) = Len(ss)
  BY CloseAbandonedSeq
<1>2. \A i \in 1 .. Len(ss) : cs[i].ended /\ (ss[i].ended => cs[i] = ss[i])
  BY DEF CloseAbandoned
<1>3. [ended |-> FALSE, abandoned |-> FALSE] \in Session
  BY DEF Session
<1> HIDE DEF cs
<1>4. /\ \A i \in 1 .. Len(ss) : Append(cs, [ended |-> FALSE, abandoned |-> FALSE])[i] = cs[i]
      /\ Append(cs, [ended |-> FALSE, abandoned |-> FALSE])[Len(ss) + 1]
           = [ended |-> FALSE, abandoned |-> FALSE]
  BY <1>1, <1>3
<1>5. QED
  BY <1>2, <1>4 DEF OpenSession, cs

LEMMA StampShape ==
  ASSUME NEW s \in ScopeState, NEW t \in ScopeState, s.sessions # <<>>, WellFormed(s),
         t.sessions = EndLast(s.sessions)
  PROVE  WellFormed(t)
<1>1. Len(t.sessions) = Len(s.sessions)
  BY EndLastSeq DEF ScopeState
<1>2. s.sessions \in Seq(Session) /\ Len(s.sessions) \in Nat \ {0}
  BY DEF ScopeState
<1>3. /\ \A i \in 1 .. Len(s.sessions) - 1 : t.sessions[i] = s.sessions[i]
      /\ t.sessions[Len(s.sessions)].ended
  <2>1. EndLast(s.sessions)[Len(s.sessions)]
          = [ended |-> TRUE, abandoned |-> s.sessions[Len(s.sessions)].abandoned]
    BY <1>2, EndLastRecords, Zenon
  <2>2. \A i \in 1 .. Len(s.sessions) - 1 : EndLast(s.sessions)[i] = s.sessions[i]
    BY <1>2, EndLastRecords, Zenon
  <2>3. QED
    BY <2>1, <2>2
<1>4. QED
  BY <1>1, <1>2, <1>3 DEF WellFormed

LEMMA OpenShape ==
  ASSUME NEW s \in ScopeState, NEW t \in ScopeState, WellFormed(s),
         t.sessions = OpenSession(s.sessions)
  PROVE  WellFormed(t)
<1>1. Len(t.sessions) = Len(s.sessions) + 1 /\ Len(s.sessions) \in Nat
  BY OpenSessionSeq DEF ScopeState
<1>2. QED
  BY <1>1, OpenSessionRecords DEF WellFormed, ScopeState

\* A clean end survives the stamp of a later session ...
LEMMA StampHas ==
  ASSUME NEW s \in ScopeState, NEW t \in ScopeState, s.sessions # <<>>, NEW k \in SessionKey,
         t.study = s.study, t.sessions = EndLast(s.sessions), Has(s, k)
  PROVE  Has(t, k)
<1>1. s.sessions \in Seq(Session) /\ Len(s.sessions) \in Nat /\ k.id \in Nat
  BY DEF ScopeState, SessionKey
<1>2. Len(t.sessions) = Len(s.sessions)
  BY <1>1, EndLastSeq
<1>3. CASE k.id + 1 = Len(s.sessions)
  <2>1. t.sessions[k.id + 1] = [ended |-> TRUE, abandoned |-> s.sessions[k.id + 1].abandoned]
    BY <1>1, <1>3, EndLastRecords
  <2>2. QED
    BY <1>2, <2>1 DEF Has, EndedClean
<1>4. CASE k.id + 1 # Len(s.sessions)
  <2>1. k.id + 1 \in 1 .. Len(s.sessions) - 1
    BY <1>1, <1>4 DEF Has
  <2>2. t.sessions[k.id + 1] = s.sessions[k.id + 1]
    BY <1>1, <2>1, EndLastRecords, Zenon
  <2>3. QED
    BY <1>2, <2>2 DEF Has
<1>5. QED
  BY <1>3, <1>4

\* ... and the boots that follow.
LEMMA OpenHas ==
  ASSUME NEW s \in ScopeState, NEW t \in ScopeState, WellFormed(s), NEW k \in SessionKey,
         t.study = s.study, t.sessions = OpenSession(s.sessions), Has(s, k)
  PROVE  Has(t, k)
<1>1. s.sessions \in Seq(Session) /\ Len(s.sessions) \in Nat /\ k.id \in Nat
  BY DEF ScopeState, SessionKey
<1>2. Len(t.sessions) = Len(s.sessions) + 1
  BY <1>1, OpenSessionSeq
<1>3. k.id + 1 \in 1 .. Len(s.sessions) /\ s.sessions[k.id + 1].ended
  BY <1>1 DEF Has, EndedClean
<1>4. t.sessions[k.id + 1] = s.sessions[k.id + 1]
  <2>1. \A i \in 1 .. Len(s.sessions) - 1 : s.sessions[i].ended
    BY DEF WellFormed
  <2>2. QED
    BY <1>1, <1>3, <2>1, OpenSessionRecords
<1>5. QED
  BY <1>1, <1>2, <1>4 DEF Has

\* What the invariant reads, and the steps that leave it alone: those that
\* drop savers and those that move finalize_session past its save or not at all.
LEMMA DurableFrame ==
  ASSUME DurableInv, Typed, mem' = mem, phase' = phase, clean' = clean, overlap' = overlap,
         Recorded' = Recorded, snap' = snap,
         temp' = NoFile <=> temp = NoFile,
         temp # NoFile => temp'.val = temp.val,
         \A w \in Saver : spc'[w] = spc[w] \/ spc'[w] = "idle",
         fpc' \in {"reports", "snapshot", "saving"} => fpc \in {"reports", "snapshot", "saving"},
         fpc' = "saving" => fpc = "saving"
  PROVE  DurableInv'
<1> USE DEF DurableInv
<1>1. ShapeInv'
  BY DEF ShapeInv, WellFormed
<1>2. OwnRecord'
  BY DEF OwnRecord
<1>3. ASSUME ~overlap PROVE LoneSaver'
  BY <1>3 DEF LoneSaver, Store!Busy, Store!Working
<1>4. ASSUME ~overlap PROVE Announced'
  BY <1>4 DEF Announced, Store!Busy, Store!Working, Saver
<1>5. ASSUME ~overlap PROVE EndsKept'
  BY <1>5 DEF EndsKept, Has, Store!Busy, Store!Working
<1>6. QED
  BY <1>1, <1>2, <1>3, <1>4, <1>5

\* A save begins: it is alone, or it makes an overlap.
LEMMA DurableBegin ==
  ASSUME DurableInv, Typed, phase = "up", NEW x \in Saver, Store!BeginSave(x, mem),
         UNCHANGED <<mem, phase, clean>>,
         IF x = "finalize" THEN fpc = "snapshot" /\ fpc' = "saving" ELSE fpc' = fpc
  PROVE  DurableInv'
<1> USE DEF DurableInv, Typed, TypeOK, Store!TypeOK
<1>1. Recorded' = Recorded /\ temp' = temp /\ (~overlap' => ~overlap)
  BY DEF Store!BeginSave, Recorded, Store!Contents
<1>2. /\ spc'[x] = "remove" /\ snap'[x] = mem
      /\ \A w \in Saver \ {x} : spc'[w] = spc[w] /\ snap'[w] = snap[w]
  BY DEF Store!BeginSave
<1>3. ~overlap' => \A w \in Saver \ {x} : ~Store!Busy(w) /\ ~Store!Busy(w)'
  BY DEF Store!BeginSave, Store!Busy
<1>4. ShapeInv'
  BY <1>1, <1>2 DEF ShapeInv, WellFormed
<1>5. OwnRecord'
  BY DEF OwnRecord
<1>6. ASSUME ~overlap' PROVE LoneSaver'
  BY <1>1, <1>2, <1>3, <1>6 DEF LoneSaver, Store!Busy, Store!Working
<1>7. ASSUME ~overlap' PROVE Announced'
  BY <1>1, <1>2, <1>3, <1>7 DEF Announced, Saver
<1>8. ASSUME ~overlap' PROVE EndsKept'
  BY <1>1, <1>2, <1>3, <1>8 DEF EndsKept, Has
<1>9. QED
  BY <1>4, <1>5, <1>6, <1>7, <1>8

\* A step of a save: a rename installs the saver's own snapshot.
LEMMA DurableSave ==
  ASSUME DurableInv, Typed, NEW x \in Saver, SaveStep(x)
  PROVE  DurableInv'
<1> USE NoFileAssumption DEF DurableInv, Typed, TypeOK, Store!TypeOK, Store!Inode
<1>1. phase = "up" /\ Store!Step(x) /\ UNCHANGED <<mem, phase, fpc, clean>>
  BY DEF SaveStep, vm, agent, finalize
<1>2. /\ snap' = snap /\ overlap' = overlap
      /\ \A w \in Saver \ {x} : spc'[w] = spc[w]
      /\ Store!Busy(x)
  BY <1>1 DEF Store!Step, Store!RemoveTemp, Store!CreateTemp, Store!WriteTemp, Store!RenameTemp,
              Store!Refused, Store!FailSave, Store!Busy, Store!Working
<1>3. ~overlap => \A w \in Saver \ {x} : ~Store!Busy(w) /\ ~Store!Busy(w)'
  BY <1>2 DEF LoneSaver, Store!Busy
<1>4. OwnRecord'
  BY <1>1 DEF OwnRecord
<1>5. CASE Store!RenameTemp(x)
  <2>1. /\ temp # NoFile /\ temp' = NoFile /\ Recorded' = temp.val
        /\ spc[x] = "rename" /\ spc'[x] = "ok"
    BY <1>5 DEF Store!RenameTemp, Recorded, Store!Contents
  <2>2. ShapeInv'
    BY <1>1, <1>2, <2>1 DEF ShapeInv, WellFormed
  <2>3. ~overlap => temp.val = snap[x]
    BY <2>1 DEF LoneSaver
  <2>4. ASSUME ~overlap PROVE LoneSaver'
    BY <1>2, <1>3, <2>1, <2>4 DEF LoneSaver, Store!Busy, Store!Working
  <2>5. ASSUME ~overlap PROVE Announced'
    BY <1>1, <1>2, <1>3, <2>1, <2>3, <2>5 DEF Announced, Store!Busy, Store!Working
  <2>6. ASSUME ~overlap PROVE EndsKept'
    BY <1>1, <1>2, <1>3, <2>1, <2>3, <2>6 DEF EndsKept, Has, Store!Busy, Store!Working
  <2>7. QED
    BY <1>2, <1>4, <2>2, <2>4, <2>5, <2>6
<1>6. CASE ~Store!RenameTemp(x)
  <2>1. Recorded' = Recorded /\ spc'[x] # "ok"
    BY <1>1, <1>6, OnlyRenameRecords
  <2>2. \/ temp' = NoFile /\ spc'[x] = "create"
        \/ spc[x] = "create" /\ temp' # NoFile /\ temp'.val = snap[x] /\ spc'[x] = "write"
        \/ /\ temp' = NoFile <=> temp = NoFile
           /\ temp # NoFile => temp'.val = temp.val
           /\ spc'[x] = "err" \/ (spc[x] = "write" /\ spc'[x] = "rename")
    <3>1. CASE Store!RemoveTemp(x)
      BY <3>1 DEF Store!RemoveTemp
    <3>2. CASE Store!CreateTemp(x)
      <4>1. [val |-> snap[x], full |-> FALSE, own |-> x] \in Store!Inode
        OBVIOUS
      <4>2. QED
        BY <3>2, <4>1 DEF Store!CreateTemp
    <3>3. CASE Store!WriteTemp(x)
      BY <3>3 DEF Store!WriteTemp, Store!Written
    <3>4. CASE Store!Refused(x)
      BY <3>4 DEF Store!Refused, Store!FailSave, Store!Closed
    <3>5. QED
      BY <1>1, <1>6, <3>1, <3>2, <3>3, <3>4 DEF Store!Step
  <2>3. ShapeInv'
    BY <1>1, <1>2, <2>1, <2>2 DEF ShapeInv, WellFormed
  <2>4. ASSUME ~overlap PROVE LoneSaver'
    BY <1>2, <1>3, <2>2, <2>4 DEF LoneSaver, Store!Busy, Store!Working
  <2>5. ASSUME ~overlap PROVE Announced'
    BY <1>1, <1>2, <1>3, <2>1, <2>5 DEF Announced, Saver
  <2>6. ASSUME ~overlap PROVE EndsKept'
    BY <1>1, <1>2, <1>3, <2>1, <2>6 DEF EndsKept, Has
  <2>7. QED
    BY <1>2, <1>4, <2>3, <2>4, <2>5, <2>6
<1>7. QED
  BY <1>5, <1>6

LEMMA DurableStep == Typed /\ StudyInv /\ DurableInv /\ [Next]_vars => DurableInv'
<1> SUFFICES ASSUME Typed, StudyInv, DurableInv, [Next]_vars PROVE DurableInv'
  OBVIOUS
<1>0. Store!TypeOK /\ mem \in ScopeState /\ Typed'
  BY TypedStep DEF Typed, TypeOK
<1>1. ASSUME UNCHANGED <<file, temp, spc, snap, overlap, phase, mem, clean>>,
             fpc' \in {"reports", "snapshot", "saving"} => fpc \in {"reports", "snapshot", "saving"},
             fpc' = "saving" => fpc = "saving"
      PROVE  DurableInv'
  BY <1>1, DurableFrame DEF Recorded, Store!Contents
<1>2. ASSUME SchedulerEnds, UNCHANGED <<phase, mem, clean>> PROVE DurableInv'
  <2>1. PICK D \in SUBSET Saver : Store!Dropped(D)
    BY <1>2 DEF SchedulerEnds, Saver
  <2>2. overlap' = overlap
    BY <2>1 DEF Store!Dropped
  <2>3. fpc' = fpc \/ fpc' = "dropped"
    BY <1>2 DEF SchedulerEnds
  <2>4. QED
    BY <1>0, <1>2, <2>1, <2>2, <2>3, StoreDowns, DurableFrame
<1>3. ASSUME Store!Crash, phase' # "up", UNCHANGED <<mem, clean>> PROVE DurableInv'
  <2>1. Recorded' = Recorded /\ \A w \in Saver : spc'[w] = "idle"
    BY <1>0, <1>3, StoreDowns
  <2>2. WellFormed(EmptyScope)
    BY DEF WellFormed, EmptyScope
  <2>3. /\ \A w \in Saver : snap'[w] = EmptyScope
        /\ temp' # NoFile => temp # NoFile /\ temp'.val = temp.val
        /\ overlap' = overlap
    BY <1>0, <1>3 DEF Store!Crash, Store!TypeOK, Store!Inode
  <2>4. ShapeInv'
    BY <1>3, <2>1, <2>2, <2>3 DEF DurableInv, ShapeInv, WellFormed
  <2>5. QED
    BY <1>3, <2>1, <2>3, <2>4
       DEF DurableInv, OwnRecord, LoneSaver, Announced, EndsKept, Has, Store!Busy, Store!Working
<1> USE DEF store, vm, finalize, tasks, agent, history
<1>4. CASE FinalizeStep
  <2>1. CASE FinalizeStamp
    <3>1. /\ mem'.study = mem.study /\ mem'.sessions = EndLast(mem.sessions)
          /\ mem.sessions # <<>> /\ mem.sessions \in Seq(Session) /\ mem' \in ScopeState
          /\ phase = "up" /\ Recorded' = Recorded
          /\ UNCHANGED <<temp, spc, snap, overlap, phase, clean>> /\ fpc' = "reports"
      BY <1>0, <2>1 DEF FinalizeStamp, ScopeState, Typed, TypeOK, Recorded, Store!Contents
    <3>2. ShapeInv'
      <4>1. WellFormed(mem')
        BY <1>0, <3>1, StampShape DEF DurableInv, ShapeInv
      <4>2. QED
        BY <3>1, <4>1 DEF DurableInv, ShapeInv, WellFormed
    <3>3. OwnRecord'
      <4>1. Len(mem'.sessions) = Len(mem.sessions)
        BY <3>1, EndLastSeq
      <4>2. mem'.sessions[Len(mem.sessions)]
              = [ended |-> TRUE, abandoned |-> mem.sessions[Len(mem.sessions)].abandoned]
        BY <3>1, EndLastRecords
      <4>3. mem.sessions[Len(mem.sessions)].abandoned = FALSE
        <5>1. mem.sessions[Len(mem.sessions)] \in Session
          BY <3>1
        <5>2. QED
          BY <3>1, <5>1 DEF DurableInv, OwnRecord, Session
      <4>4. mem'.sessions[Len(mem'.sessions)] = EndedClean
        BY <4>1, <4>2, <4>3 DEF EndedClean
      <4>5. ~EndedClean.abandoned
        BY DEF EndedClean
      <4>6. QED
        BY <4>4, <4>5 DEF OwnRecord
    <3>4. ASSUME ~overlap PROVE EndsKept'
      <4>1. \A k \in clean : Has(mem', k)
        BY <1>0, <3>1, <3>4, StampHas DEF DurableInv, EndsKept, Typed, TypeOK
      <4>2. QED
        BY <3>1, <3>4, <4>1 DEF DurableInv, EndsKept, Has, Store!Busy
    <3>5. QED
      BY <3>1, <3>2, <3>3, <3>4 DEF DurableInv, LoneSaver, Announced, Store!Busy
  <2>2. CASE FinalizeBeginSave
    BY <2>2, DurableBegin DEF FinalizeBeginSave, Saver
  <2>3. CASE FinalizePublishEnded
    <3> DEFINE key == [study |-> mem.study, id |-> Len(mem.sessions) - 1]
    <3>1. /\ phase = "up" /\ fpc = "saving" /\ fpc' = "request"
          /\ clean' = IF spc["finalize"] = "ok" THEN clean \cup {key} ELSE clean
          /\ UNCHANGED <<file, temp, spc, snap, overlap, mem, phase>>
      BY <2>3 DEF FinalizePublishEnded
    <3>2. Has(mem, key)
      <4>1. Len(mem.sessions) \in Nat
        BY <1>0 DEF ScopeState
      <4>2. mem.sessions[Len(mem.sessions)] = EndedClean
        BY <3>1 DEF DurableInv, OwnRecord
      <4>3. QED
        BY <4>1, <4>2 DEF Has
    <3>3. ShapeInv' /\ OwnRecord'
      BY <3>1 DEF DurableInv, ShapeInv, OwnRecord, WellFormed, Recorded, Store!Contents
    <3>4. ASSUME ~overlap PROVE LoneSaver' /\ Announced'
      BY <3>1, <3>4 DEF DurableInv, LoneSaver, Announced, Store!Busy
    <3>5. ASSUME ~overlap PROVE EndsKept'
      <4>1. spc["finalize"] = "ok" => Has(Recorded, key) /\ \A w \in Saver : Store!Busy(w) => Has(snap[w], key)
        BY <3>1, <3>2, <3>5 DEF DurableInv, Announced
      <4> HIDE DEF key
      <4>2. \A k \in clean' :
              /\ Has(Recorded, k) /\ Has(mem, k)
              /\ \A w \in Saver : Store!Busy(w) => Has(snap[w], k)
        BY <3>1, <3>2, <3>5, <4>1 DEF DurableInv, EndsKept
      <4>3. QED
        BY <3>1, <4>2 DEF EndsKept, Has, Recorded, Store!Contents, Store!Busy
    <3>6. QED
      BY <3>1, <3>3, <3>4, <3>5 DEF DurableInv
  <2>4. CASE FinalizeReportsClockKills \/ FinalizeRequest \/ FinalizeDone
    BY <2>4, <1>1 DEF FinalizeReportsClockKills, FinalizeRequest, FinalizeDone
  <2>5. QED
    BY <1>4, <2>1, <2>2, <2>3, <2>4 DEF FinalizeStep
<1>5. CASE \E w \in Saver : SaveStep(w)
  BY <1>5, DurableSave
<1>6. CASE Scheduler
  <2>1. CASE PersistTick
    BY <2>1, <1>1 DEF PersistTick
  <2>2. CASE PersistSnapshot
    BY <2>2, DurableBegin DEF PersistSnapshot, Saver
  <2>3. CASE DeadlineFires
    BY <2>3, <1>1, <1>2 DEF DeadlineFires, Claim
  <2>4. CASE DeadlineReturns \/ SchedulerCancelled
    BY <2>4, <1>2 DEF DeadlineReturns, SchedulerCancelled
  <2>5. QED
    BY <1>6, <2>1, <2>2, <2>3, <2>4 DEF Scheduler
<1>7. CASE Consumer
  BY <1>7, <1>1 DEF Consumer, ConsumerScopeDied, ConsumerReturns, ConsumerCancelled, Claim
<1>8. CASE Host
  <2>1. CASE HostExit
    BY <2>1, <1>3 DEF HostExit
  <2>2. CASE HostServiceStop \/ HostFinalizeReturns \/ HostPoll \/ HostShutdown \/ HostJoin
    BY <2>2, <1>1 DEF HostServiceStop, HostFinalizeReturns, HostPoll, HostShutdown, HostJoin, Claim
  <2>3. QED
    BY <1>8, <2>1, <2>2 DEF Host
<1>9. CASE Vm
  <2>1. CASE Boot
    <3>1. Recorded \in ScopeState
      BY <1>0 DEF Store!TypeOK, Store!Inode, Recorded, Store!Contents, ScopeState, EmptyScope
    <3>2. /\ phase = "off" /\ phase' = "up" /\ fpc' = "none" /\ Recorded' = Recorded
          /\ mem'.study = StudyId(Recorded) /\ mem'.sessions = OpenSession(Recorded.sessions)
          /\ mem' \in ScopeState
          /\ UNCHANGED <<temp, spc, snap, overlap, clean>>
      BY <1>0, <2>1 DEF Boot, Recorded, Store!Contents, Typed, TypeOK
    <3>3. \A w \in Saver : ~Store!Busy(w) /\ ~Store!Busy(w)'
      BY <3>2 DEF StudyInv, SavesFit, Store!Busy
    <3>4. ShapeInv'
      <4>1. WellFormed(mem')
        BY <3>1, <3>2, OpenShape DEF DurableInv, ShapeInv
      <4>2. QED
        BY <3>2, <4>1 DEF DurableInv, ShapeInv, WellFormed
    <3>5. OwnRecord'
      <4>1. Len(mem'.sessions) = Len(Recorded.sessions) + 1
        BY <3>1, <3>2, OpenSessionSeq DEF ScopeState
      <4>2. mem'.sessions[Len(Recorded.sessions) + 1] = [ended |-> FALSE, abandoned |-> FALSE]
        <5>1. \A i \in 1 .. Len(Recorded.sessions) - 1 : Recorded.sessions[i].ended
          BY DEF DurableInv, ShapeInv, WellFormed
        <5>2. QED
          BY <3>1, <3>2, <5>1, OpenSessionRecords DEF ScopeState
      <4>3. QED
        BY <3>2, <4>1, <4>2 DEF OwnRecord
    <3>6. ASSUME ~overlap PROVE EndsKept'
      <4>1. ASSUME NEW k \in clean PROVE Has(Recorded, k) /\ Has(mem', k)
        <5>1. k \in SessionKey /\ Has(Recorded, k)
          BY <3>6 DEF DurableInv, EndsKept, Typed, TypeOK
        <5>2. Recorded # EmptyScope
          BY <5>1 DEF EmptyScope, Has, SessionKey
        <5>3. mem'.study = Recorded.study
          BY <3>1, <3>2, <5>2 DEF StudyInv, RecordFits, StudyId, ScopeState
        <5>4. QED
          BY <3>1, <3>2, <5>1, <5>3, OpenHas DEF DurableInv, ShapeInv
      <4>2. QED
        BY <3>2, <3>3, <4>1 DEF EndsKept, Has
    <3>7. ASSUME ~overlap PROVE LoneSaver' /\ Announced'
      BY <3>2, <3>3, <3>7 DEF DurableInv, LoneSaver, Announced
    <3>8. QED
      BY <3>2, <3>4, <3>5, <3>6, <3>7 DEF DurableInv
  <2>2. CASE BootFails
    <3>1. phase' # "up" /\ UNCHANGED <<file, temp, spc, snap, overlap, mem, clean>>
      BY <2>2 DEF BootFails
    <3>2. QED
      BY <3>1 DEF DurableInv, ShapeInv, WellFormed, OwnRecord, LoneSaver, Announced, EndsKept, Has,
                  Recorded, Store!Contents, Store!Busy
  <2>3. CASE PowerLoss \/ ControllerReboots \/ ControllerShutsDown
    BY <2>3, <1>3 DEF PowerLoss, ControllerReboots, ControllerShutsDown, PowerDown
  <2>4. QED
    BY <1>9, <2>1, <2>2, <2>3 DEF Vm
<1>10. CASE UNCHANGED vars
  BY <1>10, <1>1 DEF vars
<1>11. QED
  BY <1>4, <1>5, <1>6, <1>7, <1>8, <1>9, <1>10 DEF Next

\* For every plan and every pattern of crashes, failures and interleavings:
\* at most the last session is open, and while no two saves have overlapped, a
\* session announced as ended after an Ok save stays recorded as cleanly ended.
THEOREM CleanEndDurable == Spec => []CleanEndIsDurable
<1>1. Init => DurableInv
  BY DEF Init, Store!Init, DurableInv, ShapeInv, WellFormed, EmptyScope, OwnRecord, LoneSaver, Announced,
         EndsKept, Recorded, Store!Contents, Store!Busy, Store!Working
<1>2. DurableInv => CleanEndIsDurable
  BY DEF DurableInv, ShapeInv, EndsKept, Has, EndedClean, CleanEndIsDurable, Recorded
<1>3. QED
  BY <1>1, <1>2, DurableStep, StudyInvariant, PTL DEF Spec
=============================================================================
