------------------------------ MODULE Telemetry ------------------------------
(***************************************************************************)
(* From an observation to the score of the session: the scope tracker      *)
(* bridges what it sees onto the bounded bus, the scoring task derives the *)
(* session maximum from it and publishes raises back onto the same bus,    *)
(* and the session manager reports its own copy of the maximum when a      *)
(* death of the scope, or the deadline, makes it finalize.                 *)
(*                                                                         *)
(* Scope membership is that of ScopeTracking, here with a source that      *)
(* loses nothing: a pid is in the scope from its start to its stop.  `gen' *)
(* numbers the processes that have held a pid; the code never sees it.     *)
(***************************************************************************)
EXTENDS Naturals, Sequences, FiniteSets, FiniteSetsExt, Functions

CONSTANTS
  Pid,            \* pids of the scope
  Target,         \* the pid the target was started with
  Cli,            \* pids that interpreters get (is_cli_interpreter)
  Api,            \* the hooked calls the sensor reports
  Weights,        \* [scoring]: signal -> score
  MassEncryptMin, \* MASS_ENCRYPT_MIN
  MaxTracked,     \* MAX_TRACKED_PIDS
  Capacity,       \* events the bus retains
  Autoshutdown,   \* session.autoshutdown
  None,
  MaxEvents       \* bound: events the tracker publishes after the start of the target

Chain == {"injection", "ransomware"}
Signal == {"cli", "drop", "runkey"} \cup Chain

ASSUME TelemetryAssumption ==
  /\ IsFiniteSet(Pid) /\ IsFiniteSet(Api) /\ Target \in Pid /\ Cli \subseteq Pid
  /\ Weights \in [Signal -> Nat]
  /\ {MassEncryptMin, MaxTracked, Capacity} \subseteq Nat \ {0}
  /\ MaxEvents \in Nat /\ Autoshutdown \in BOOLEAN

Subscriber == {"scoring", "manager"}

VARIABLES
  bus,        \* every event published; the channel retains the last Capacity
  pos,        \* subscriber -> how much of the bus it has gone past
  lagged,     \* scoring lost events to a lag
  missed,     \* the positions of the raises and deaths that a lag took from the manager
  gen,        \* pid -> the number of processes that held it
  scoped,     \* pids in the scope
  dying,      \* the tracker has published the last exit, not yet the death
  arrived,    \* events the tracker has published
  detector,   \* ChainDetector: pid -> [counts, fired, runKey]
  dropped,    \* dropped_pids
  maxScore,   \* scoring: the session maximum
  managerMax, \* session manager: the maximum it will report
  finished,   \* session manager: its consumer has finalized and left
  reported    \* study.score, once finalized

source == <<gen, scoped, arrived>>
scoring == <<detector, dropped, maxScore>>
manager == <<managerMax, finished, reported>>
vars == <<bus, pos, lagged, missed, source, dying, scoring, manager>>

Entered(p, g) == [kind |-> "Entered", pid |-> p, gen |-> g, cli |-> p \in Cli]

\* The target has just entered the scope.
Init ==
  /\ bus = <<Entered(Target, 1)>>
  /\ pos = [s \in Subscriber |-> 0] /\ lagged = FALSE /\ missed = {}
  /\ gen = [p \in Pid |-> IF p = Target THEN 1 ELSE 0] /\ scoped = {Target} /\ arrived = 0 /\ dying = FALSE
  /\ detector = Restrict([p \in Pid |-> None], {}) /\ dropped = 0 /\ maxScore = 0
  /\ managerMax = 0 /\ finished = FALSE /\ reported = None
-----------------------------------------------------------------------------
(* The scope tracker, on one event of the inlet after the other            *)

Event(kind, p) == [kind |-> kind, pid |-> p, gen |-> gen[p]]
Died == [kind |-> "ScopeDied"]

Arrives == ~dying

\* What an event of the inlet makes the tracker publish.
Bridge(events) ==
  /\ arrived + Len(events) <= MaxEvents
  /\ arrived' = arrived + Len(events)
  /\ bus' = bus \o events
  /\ UNCHANGED <<pos, lagged, missed, scoring, manager>>

ProcessStarted(p) ==
  /\ Arrives
  /\ p \notin scoped
  /\ gen' = [gen EXCEPT ![p] = @ + 1] /\ scoped' = scoped \cup {p}
  /\ Bridge(<<Entered(p, gen'[p])>>)
  /\ UNCHANGED dying

ProcessStopped(p) ==
  /\ Arrives
  /\ p \in scoped
  /\ scoped' = scoped \ {p} /\ UNCHANGED gen
  /\ Bridge(<<Event("Exited", p)>>)
  /\ dying' = (scoped' = {})

\* The death is a second publish: a raise may come in between.
ScopeDies ==
  /\ dying /\ dying' = FALSE
  /\ bus' = Append(bus, Died)
  /\ UNCHANGED <<source, pos, lagged, missed, scoring, manager>>

\* The first write of the one matching file.
FileWritten(p) ==
  /\ Arrives
  /\ p \in scoped
  /\ \A i \in DOMAIN bus : bus[i].kind # "Drop"
  /\ Bridge(<<Event("Drop", p)>>)
  /\ UNCHANGED <<gen, scoped, dying>>

ScoringRelevant == {"thread", "runkey", "writevm", "shadow", "encrypt"}

\* Only signals of scoped processes cross onto the bus.
BehaviorCall(p, api) ==
  /\ Arrives
  /\ Bridge(IF api \in ScoringRelevant /\ p \in scoped
              THEN <<[kind |-> "Behavior", pid |-> p, gen |-> gen[p], api |-> api]>>
              ELSE <<>>)
  /\ UNCHANGED <<gen, scoped, dying>>
-----------------------------------------------------------------------------
(* The bus.  recv() tells a receiver that fell behind how much it lost and  *)
(* moves it to the oldest event retained.                                  *)

Behind(s) == Len(bus) - pos[s] > Capacity
Ready(s) == pos[s] < Len(bus) /\ ~Behind(s)
Received(s) == bus[pos[s] + 1]
Consumed(s) == pos' = [pos EXCEPT ![s] = @ + 1]

\* What the manager would have acted on among the events a receiver is past.
Lost(s) == {i \in pos[s] + 1 .. Len(bus) - Capacity : bus[i].kind \in {"Raised", "ScopeDied"}}

Overtaken(s) ==
  /\ Behind(s)
  /\ s = "manager" => ~finished
  /\ pos' = [pos EXCEPT ![s] = Len(bus) - Capacity]
  /\ IF s = "manager" THEN missed' = missed \cup Lost(s) /\ UNCHANGED lagged
                      ELSE lagged' = TRUE /\ UNCHANGED missed
  /\ UNCHANGED <<bus, source, dying, scoring, managerMax, reported>>

\* Faulty variant: a lag ends the session manager's loop (Lagged breaks as
\* Closed does).
LagEnds(s) == Overtaken(s) /\ finished' = (s = "manager" \/ finished)

Lag(s) == Overtaken(s) /\ UNCHANGED finished
-----------------------------------------------------------------------------
(* Scoring                                                                 *)

\* The apis of a chain, and how often each must be seen.
Members(c) ==
  IF c = "injection" THEN [a \in {"writevm", "thread"} |-> 1]
  ELSE [a \in {"encrypt", "shadow"} |-> IF a = "encrypt" THEN MassEncryptMin ELSE 1]

SlotFor(p) ==
  IF p \in DOMAIN detector THEN detector[p]
  ELSE [counts |-> [a \in ScoringRelevant |-> 0], fired |-> {}, runKey |-> FALSE]

HasSlot(p) == p \in DOMAIN detector \/ Cardinality(DOMAIN detector) < MaxTracked

Bumped(p, api) == [SlotFor(p).counts EXCEPT ![api] = @ + 1]

Completed(p, api) ==
  {c \in Chain \ SlotFor(p).fired :
     \A a \in DOMAIN Members(c) : Bumped(p, api)[a] >= Members(c)[a]}

Observe(p, api) ==
  [counts |-> Bumped(p, api),
   fired  |-> SlotFor(p).fired \cup Completed(p, api),
   runKey |-> SlotFor(p).runKey \/ api = "runkey"]

Scored(e) == e.kind = "Behavior" /\ HasSlot(e.pid)

\* The signals of one bus event; the heaviest counts.
Found(e) ==
  CASE e.kind = "Entered" -> IF e.cli THEN {"cli"} ELSE {}
    [] e.kind = "Drop"    -> {"drop"}
    [] Scored(e)          -> IF e.api = "runkey" /\ ~SlotFor(e.pid).runKey
                               THEN {"runkey"} ELSE Completed(e.pid, e.api)
    [] OTHER              -> {}

Candidate(e) == Max({0} \cup {Weights[s] : s \in Found(e)})

Learn(e) == [p \in DOMAIN detector \cup {e.pid} |->
               IF p = e.pid THEN Observe(p, e.api) ELSE detector[p]]

\* Faulty variant: the exit of a process leaves its memory in place.
RememberExited(e) == IF Scored(e) THEN Learn(e) ELSE detector

Remember(e) ==
  CASE e.kind = "Exited" -> Restrict(detector, DOMAIN detector \ {e.pid})
    [] Scored(e)         -> Learn(e)
    [] OTHER             -> detector

Raise(score) == IF score > maxScore THEN <<[kind |-> "Raised", score |-> score]>> ELSE <<>>

ScoringReceives ==
  /\ Ready("scoring")
  /\ LET e == Received("scoring") IN
     /\ detector' = Remember(e)
     /\ dropped' = IF e.kind = "Behavior" /\ ~HasSlot(e.pid) THEN dropped + 1 ELSE dropped
     /\ maxScore' = Max({maxScore, Candidate(e)})
     /\ bus' = bus \o Raise(Candidate(e))
  /\ Consumed("scoring")
  /\ UNCHANGED <<lagged, missed, source, dying, manager>>
-----------------------------------------------------------------------------
(* The session manager                                                     *)

\* finalize_session: the first caller reports the maximum the manager knows.
Finalize == reported' = IF reported = None THEN managerMax ELSE reported

\* Faulty variant: only the first raise is taken.
NotedOnce(e) == IF e.kind = "Raised" /\ managerMax = 0 THEN e.score ELSE managerMax

Noted(e) == IF e.kind = "Raised" THEN Max({managerMax, e.score}) ELSE managerMax

\* After a death with autoshutdown the consumer finalizes and is gone.
ManagerReceives ==
  /\ Ready("manager") /\ ~finished
  /\ LET e == Received("manager") IN
     /\ managerMax' = Noted(e)
     /\ finished' = (e = Died /\ Autoshutdown)
     /\ IF finished' THEN Finalize ELSE UNCHANGED reported
  /\ Consumed("manager")
  /\ UNCHANGED <<bus, lagged, missed, source, dying, scoring>>

\* SessionDeadline or ServiceStop in the pipeline: the manager's pre finalizes.
DeadlineOrStop ==
  /\ Arrives
  /\ Finalize
  /\ UNCHANGED <<bus, pos, lagged, missed, source, dying, scoring, managerMax, finished>>

-----------------------------------------------------------------------------
Tracker ==
  \/ \E p \in Pid : \/ ProcessStarted(p)
                    \/ ProcessStopped(p)
                    \/ FileWritten(p)
                    \/ \E a \in Api : BehaviorCall(p, a)
  \/ ScopeDies

Scoring == Lag("scoring") \/ ScoringReceives
Manager == Lag("manager") \/ ManagerReceives

Next == Tracker \/ Scoring \/ Manager \/ DeadlineOrStop

Spec == Init /\ [][Next]_vars

\* Tasks of the runtime that can run are run.  The stop of the plugins comes
\* after the finalize and only cuts a behaviour short.
FairSpec == Spec /\ WF_vars(Scoring) /\ WF_vars(Manager)
-----------------------------------------------------------------------------
(* Properties                                                              *)

\* The definition the detector is measured against: what a prefix of the bus
\* is worth, process by process.
Calls(h, p, g, a) ==
  {i \in DOMAIN h : h[i].kind = "Behavior" /\ h[i].pid = p /\ h[i].gen = g /\ h[i].api = a}

Worth(h) ==
  {s \in {"cli", "drop", "runkey"} : \E i \in DOMAIN h :
     \/ s = "cli" /\ h[i].kind = "Entered" /\ h[i].cli
     \/ s = "drop" /\ h[i].kind = "Drop"
     \/ s = "runkey" /\ h[i].kind = "Behavior" /\ h[i].api = "runkey"}
    \cup {c \in Chain : \E p \in Pid : \E g \in 1..gen[p] :
            \A a \in DOMAIN Members(c) : Cardinality(Calls(h, p, g, a)) >= Members(c)[a]}

Score(h) == Max({0} \cup {Weights[s] : s \in Worth(h)})

\* A scoring task that lost nothing, to a lag or to the bound on pids, knows
\* exactly the largest signal of what it has seen; a chain counts only when
\* one process made all its calls, whoever had the pid before
\* (domain/score.rs observe and forget).
ScoreExact ==
  (~lagged /\ dropped = 0)
    => maxScore = Score(SubSeq(bus, 1, pos["scoring"]))

\* study.score is never above what was observed, and not below any raise the
\* manager has gone past and a lag did not take from it, lags before and after
\* that raise included.  On a death these are all the raises that the bus still
\* held and that stood on it before the death.  On a deadline or a stop they
\* are only the raises received so far: publish_finalize_reports reads its
\* maximum without draining the bus (session_manager.rs:426), and a raise still
\* unread there is not in the report.
FinalScore ==
  [][reported = None /\ reported' # None =>
       /\ reported' <= maxScore
       /\ \A i \in (1..pos["manager"]) \ missed :
            bus[i].kind = "Raised" => reported' >= bus[i].score]_vars

\* With autoshutdown a death of the scope on the bus ends the session, also
\* when the bus overtook the manager before it: a lag is survived
\* (session_manager.rs:639, Lagged goes on receiving).  Only a death that was
\* itself overwritten (bus.rs overflow policy) goes unnoticed.
DeathFinalizes ==
  LET Waiting == \E i \in DOMAIN bus : bus[i] = Died /\ i \notin missed
  IN  Autoshutdown => (Waiting ~> (reported # None \/ ~Waiting))
=============================================================================
