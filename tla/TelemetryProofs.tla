--------------------------- MODULE TelemetryProofs ---------------------------
(***************************************************************************)
(* The score of a session, for any pids, weights, capacity of the bus and  *)
(* number of events: what scoring derives is exactly what the bus is       *)
(* worth, and what the manager reports is between the two.                 *)
(***************************************************************************)
EXTENDS Telemetry, Integers, FiniteSetTheorems, TLAPS

\* The events of the bus, and what the detector remembers of a process.
ScopeEvent ==
  [kind : {"Entered"}, pid : Pid, gen : Nat, cli : BOOLEAN] \cup [kind : {"Exited", "Drop"}, pid : Pid, gen : Nat]
    \cup [kind : {"Behavior"}, pid : Pid, gen : Nat, api : ScoringRelevant]
BusEvent == ScopeEvent \cup {Died} \cup [kind : {"Raised"}, score : Nat]
Memory == [counts : [ScoringRelevant -> Nat], fired : SUBSET Chain, runKey : BOOLEAN]

TelemetryTyped ==
  /\ bus \in Seq(BusEvent)
  /\ pos \in [Subscriber -> Nat] /\ \A s \in Subscriber : pos[s] <= Len(bus)
  /\ gen \in [Pid -> Nat] /\ scoped \subseteq Pid
  /\ detector \in [DOMAIN detector -> Memory] /\ DOMAIN detector \subseteq Pid
  /\ dropped \in Nat /\ maxScore \in Nat /\ managerMax \in Nat

\* A raise on the bus is not above the maximum, and one the manager has gone
\* past, and that no lag took from it, is not above the manager's.
RaisesKnown ==
  /\ managerMax <= maxScore
  /\ \A i \in DOMAIN bus : bus[i].kind = "Raised" => bus[i].score <= maxScore
  /\ \A i \in (1 .. pos["manager"]) \ missed : bus[i].kind = "Raised" => bus[i].score <= managerMax

\* The calls and exits of a pid on the bus: one process after the other, the
\* exit of each before the calls of the next.
Calling(i, p) == bus[i].kind = "Behavior" /\ bus[i].pid = p
Exiting(i, p) == bus[i].kind = "Exited" /\ bus[i].pid = p
InTurn ==
  \A p \in Pid :
    /\ p \in scoped => 0 < gen[p]
    /\ \A i \in DOMAIN bus : Calling(i, p) \/ Exiting(i, p) => 0 < bus[i].gen /\ bus[i].gen <= gen[p]
    /\ \A i \in DOMAIN bus : Exiting(i, p) /\ p \in scoped => bus[i].gen < gen[p]
    /\ \A i, j \in DOMAIN bus : /\ i < j /\ (Calling(i, p) \/ Exiting(i, p)) /\ (Calling(j, p) \/ Exiting(j, p))
                                => /\ bus[i].gen <= bus[j].gen
                                   /\ Exiting(i, p) => bus[i].gen < bus[j].gen
    /\ \A i \in DOMAIN bus : Calling(i, p) /\ (p \notin scoped \/ bus[i].gen < gen[p])
                             => \E k \in DOMAIN bus : Exiting(k, p) /\ bus[k].gen = bus[i].gen

\* The calls of api a that process g of pid p made in the first n events.
Made(n, p, g, a) == {i \in 1 .. n : Calling(i, p) /\ bus[i].gen = g /\ bus[i].api = a}
Met(n, p, g, c) == \A a \in DOMAIN Members(c) : Cardinality(Made(n, p, g, a)) >= Members(c)[a]

\* What the detector remembers is what the process with the pid has done, and
\* it has nothing on a pid without a process that called.
Recalls(n, p, g, m) ==
  /\ \A a \in ScoringRelevant : m.counts[a] = Cardinality(Made(n, p, g, a))
  /\ m.fired = {c \in Chain : Met(n, p, g, c)}
  /\ m.runKey <=> Made(n, p, g, "runkey") # {}
Remembers(n, memory) ==
  /\ \A p \in DOMAIN memory : \E g \in 1 .. gen[p] :
       /\ Recalls(n, p, g, memory[p])
       /\ \E i \in 1 .. n : Calling(i, p) /\ bus[i].gen = g
       /\ \A i \in 1 .. n : Exiting(i, p) => bus[i].gen # g
  /\ \A p \in Pid \ DOMAIN memory : \A i \in 1 .. n : Calling(i, p) =>
       \E k \in 1 .. n : Exiting(k, p) /\ bus[k].gen = bus[i].gen

ScoreInv ==
  ~lagged /\ dropped = 0
    => Remembers(pos["scoring"], detector) /\ maxScore = Score(SubSeq(bus, 1, pos["scoring"]))

TelemetryInv == TelemetryTyped /\ RaisesKnown /\ InTurn /\ ScoreInv

-----------------------------------------------------------------------------
(* The heaviest signal                                                     *)

HasMax(S) == S \subseteq Nat /\ \E m \in S : \A y \in S : m >= y
Best(F) == Max({0} \cup {Weights[s] : s \in F})

LEMMA MaxOf ==
  ASSUME NEW S, HasMax(S)
  PROVE  Max(S) \in S /\ Max(S) \in Nat /\ \A y \in S : Max(S) >= y
<1>1. PICK m \in S : \A y \in S : m >= y
  BY DEF HasMax
<1>2. Max(S) \in S /\ \A y \in S : Max(S) >= y
  BY <1>1, Zenon DEF Max
<1>3. QED
  BY <1>2 DEF HasMax

LEMMA OneMore ==
  ASSUME NEW S, HasMax(S), NEW x \in Nat
  PROVE  HasMax(S \cup {x})
<1>1. PICK m \in S : m \in Nat /\ \A y \in S : y \in Nat /\ m >= y
  BY DEF HasMax
<1>2. CASE x >= m
  <2>1. \A y \in S \cup {x} : x >= y
    BY <1>1, <1>2
  <2>2. QED
    BY <1>1, <2>1 DEF HasMax
<1>3. CASE ~ (x >= m)
  <2>1. \A y \in S \cup {x} : m >= y
    BY <1>1, <1>3
  <2>2. QED
    BY <1>1, <2>1 DEF HasMax
<1>4. QED
  BY <1>2, <1>3

LEMMA Larger ==
  ASSUME NEW a \in Nat, NEW b \in Nat
  PROVE  Max({a, b}) = IF a >= b THEN a ELSE b
<1>1. HasMax({a})
  BY DEF HasMax
<1>2. HasMax({a} \cup {b})
  BY <1>1, OneMore
<1>3. {a} \cup {b} = {a, b}
  OBVIOUS
<1>4. Max({a, b}) \in {a, b} /\ Max({a, b}) >= a /\ Max({a, b}) >= b
  BY <1>2, <1>3, MaxOf
<1>5. QED
  BY <1>4

\* There are five signals, so a set of them has a heaviest.
LEMMA WeightsHaveMax ==
  ASSUME NEW F \in SUBSET Signal
  PROVE  HasMax({0} \cup {Weights[s] : s \in F})
<1> DEFINE Of(T) == {0} \cup {Weights[s] : s \in F \cap T}
<1>1. HasMax(Of({}))
  <2>1. Of({}) = {0}
    OBVIOUS
  <2>2. HasMax({0})
    BY DEF HasMax
  <2>3. QED
    BY <2>1, <2>2
<1>2. ASSUME NEW T, NEW t \in Signal, HasMax(Of(T))
      PROVE  HasMax(Of(T \cup {t}))
  <2>1. Weights[t] \in Nat
    BY TelemetryAssumption
  <2>2. CASE t \in F
    <3>1. Of(T \cup {t}) = Of(T) \cup {Weights[t]}
      BY <2>2
    <3>2. QED
      BY <1>2, <2>1, <3>1, OneMore
  <2>3. CASE t \notin F
    <3>1. Of(T \cup {t}) = Of(T)
      BY <2>3
    <3>2. QED
      BY <1>2, <3>1
  <2>4. QED
    BY <2>2, <2>3
<1> HIDE DEF Of
<1>3. HasMax(Of({} \cup {"cli"}))
  BY <1>1, <1>2 DEF Signal
<1>4. HasMax(Of(({} \cup {"cli"}) \cup {"drop"}))
  BY <1>2, <1>3 DEF Signal
<1>5. HasMax(Of((({} \cup {"cli"}) \cup {"drop"}) \cup {"runkey"}))
  BY <1>2, <1>4 DEF Signal
<1>6. HasMax(Of(((({} \cup {"cli"}) \cup {"drop"}) \cup {"runkey"}) \cup {"injection"}))
  BY <1>2, <1>5 DEF Signal, Chain
<1>7. HasMax(Of((((({} \cup {"cli"}) \cup {"drop"}) \cup {"runkey"}) \cup {"injection"}) \cup {"ransomware"}))
  BY <1>2, <1>6 DEF Signal, Chain
<1>8. (((({} \cup {"cli"}) \cup {"drop"}) \cup {"runkey"}) \cup {"injection"}) \cup {"ransomware"} = Signal
  BY DEF Signal, Chain
<1>9. F \cap Signal = F
  OBVIOUS
<1>10. QED
  BY <1>7, <1>8, <1>9 DEF Of

LEMMA BestNat ==
  ASSUME NEW F \in SUBSET Signal
  PROVE  /\ Best(F) \in Nat /\ Best(F) \in {0} \cup {Weights[s] : s \in F}
         /\ \A s \in F : Weights[s] \in Nat /\ Best(F) >= Weights[s]
<1>1. Best(F) \in Nat /\ Best(F) \in {0} \cup {Weights[s] : s \in F}
      /\ \A y \in {0} \cup {Weights[s] : s \in F} : Best(F) >= y
  BY WeightsHaveMax, MaxOf DEF Best
<1>2. QED
  BY <1>1, TelemetryAssumption

\* The heaviest of both is the heavier of the heaviest of each.
LEMMA BestJoined ==
  ASSUME NEW A \in SUBSET Signal, NEW B \in SUBSET Signal
  PROVE  Best(A \cup B) = Max({Best(A), Best(B)})
<1>1. A \cup B \in SUBSET Signal
  OBVIOUS
<1>2. /\ Best(A) \in Nat /\ Best(B) \in Nat /\ Best(A \cup B) \in Nat
      /\ Best(A) \in {0} \cup {Weights[s] : s \in A}
      /\ Best(B) \in {0} \cup {Weights[s] : s \in B}
      /\ Best(A \cup B) \in {0} \cup {Weights[s] : s \in A \cup B}
      /\ \A s \in A : Best(A) >= Weights[s]
      /\ \A s \in B : Best(B) >= Weights[s]
      /\ \A s \in A \cup B : Best(A \cup B) >= Weights[s]
  BY <1>1, BestNat
<1>3. Best(A \cup B) >= Best(A) /\ Best(A \cup B) >= Best(B)
  BY <1>2
<1>4. Best(A \cup B) <= Best(A) \/ Best(A \cup B) <= Best(B)
  BY <1>2
<1>5. Max({Best(A), Best(B)}) = IF Best(A) >= Best(B) THEN Best(A) ELSE Best(B)
  BY <1>2, Larger
<1>6. QED
  BY <1>2, <1>3, <1>4, <1>5
-----------------------------------------------------------------------------
(* The bus                                                                 *)

LEMMA Grown ==
  ASSUME NEW S, NEW s \in Seq(S), NEW e \in S
  PROVE  /\ s \o <<e>> \in Seq(S) /\ Len(s \o <<e>>) = Len(s) + 1 /\ Len(s) \in Nat
         /\ DOMAIN s = 1 .. Len(s) /\ DOMAIN (s \o <<e>>) = 1 .. Len(s) + 1
         /\ \A i \in 1 .. Len(s) : (s \o <<e>>)[i] = s[i]
         /\ (s \o <<e>>)[Len(s) + 1] = e
OBVIOUS

LEMMA NoEvents ==
  ASSUME NEW S, NEW s \in Seq(S)
  PROVE  s \o <<>> = s
OBVIOUS

\* What was on the bus stays where it is.
Keeps == bus' \in Seq(BusEvent) /\ Len(bus) <= Len(bus') /\ \A i \in DOMAIN bus : bus'[i] = bus[i]

LEMMA BusFacts ==
  ASSUME TelemetryTyped
  PROVE  /\ Len(bus) \in Nat /\ DOMAIN bus = 1 .. Len(bus)
         /\ \A i \in DOMAIN bus : bus[i] \in BusEvent
         /\ \A s \in Subscriber : pos[s] \in Nat /\ pos[s] <= Len(bus) /\ 1 .. pos[s] \subseteq DOMAIN bus
BY DEF TelemetryTyped

LEMMA EventFacts ==
  ASSUME NEW e \in BusEvent
  PROVE  /\ e.kind \in {"Entered", "Exited", "Drop", "Behavior", "ScopeDied", "Raised"}
         /\ e.kind \in {"Entered", "Exited", "Drop", "Behavior"} => e.pid \in Pid /\ e.gen \in Nat
         /\ e.kind = "Behavior" => e.api \in ScoringRelevant
         /\ e.kind = "Raised" => e.score \in Nat
         /\ e.kind = "Entered" => e.cli \in BOOLEAN
BY DEF BusEvent, ScopeEvent, Died

\* Grows by one event, or not at all.
LEMMA KeepsOne ==
  ASSUME TelemetryTyped, NEW e \in BusEvent, bus' = bus \o <<e>>
  PROVE  /\ Keeps /\ Len(bus') = Len(bus) + 1 /\ DOMAIN bus' = DOMAIN bus \cup {Len(bus) + 1}
         /\ bus'[Len(bus) + 1] = e /\ Len(bus) \in Nat /\ DOMAIN bus = 1 .. Len(bus)
<1>1. bus \in Seq(BusEvent)
  BY DEF TelemetryTyped
<1>2. /\ bus' \in Seq(BusEvent) /\ Len(bus') = Len(bus) + 1 /\ Len(bus) \in Nat
      /\ DOMAIN bus = 1 .. Len(bus) /\ DOMAIN bus' = 1 .. Len(bus) + 1
      /\ \A i \in 1 .. Len(bus) : bus'[i] = bus[i]
      /\ bus'[Len(bus) + 1] = e
  BY <1>1, Grown
<1>3. QED
  BY <1>2 DEF Keeps

LEMMA KeepsAll ==
  ASSUME TelemetryTyped, bus' = bus
  PROVE  Keeps
BY BusFacts DEF Keeps, TelemetryTyped
-----------------------------------------------------------------------------
(* What scoring does with an event                                         *)

LEMMA MembersFacts ==
  ASSUME NEW c \in Chain
  PROVE  /\ DOMAIN Members(c) \subseteq ScoringRelevant \ {"runkey"}
         /\ \A a \in DOMAIN Members(c) : Members(c)[a] \in Nat /\ Members(c)[a] > 0
         /\ \E a \in DOMAIN Members(c) : TRUE
<1>1. CASE c = "injection"
  BY <1>1 DEF Members, ScoringRelevant
<1>2. CASE c = "ransomware"
  <2>1. MassEncryptMin \in Nat \ {0}
    BY TelemetryAssumption
  <2>2. QED
    BY <1>2, <2>1 DEF Members, ScoringRelevant
<1>3. QED
  BY <1>1, <1>2 DEF Chain

LEMMA FoundIs ==
  ASSUME NEW e
  PROVE  /\ e.kind = "Entered" => Found(e) = IF e.cli THEN {"cli"} ELSE {}
         /\ e.kind = "Drop" => Found(e) = {"drop"}
         /\ Scored(e) => Found(e) = IF e.api = "runkey" /\ ~SlotFor(e.pid).runKey
                                      THEN {"runkey"} ELSE Completed(e.pid, e.api)
         /\ e.kind \notin {"Entered", "Drop"} /\ ~ Scored(e) => Found(e) = {}
<1>1. e.kind = "Entered" => Found(e) = IF e.cli THEN {"cli"} ELSE {}
  BY DEF Found, Scored
<1>2. e.kind = "Drop" => Found(e) = {"drop"}
  BY DEF Found, Scored
<1>3. Scored(e) => Found(e) = IF e.api = "runkey" /\ ~SlotFor(e.pid).runKey
                                THEN {"runkey"} ELSE Completed(e.pid, e.api)
  <2>1. Scored(e) => e.kind = "Behavior"
    BY DEF Scored
  <2>2. QED
    BY <2>1 DEF Found
<1>4. e.kind \notin {"Entered", "Drop"} /\ ~ Scored(e) => Found(e) = {}
  BY DEF Found
<1>5. QED
  BY <1>1, <1>2, <1>3, <1>4

LEMMA RememberIs ==
  ASSUME NEW e
  PROVE  /\ e.kind = "Exited" => Remember(e) = [p \in DOMAIN detector \ {e.pid} |-> detector[p]]
         /\ Scored(e) => Remember(e) = Learn(e)
         /\ e.kind # "Exited" /\ ~ Scored(e) => Remember(e) = detector
<1>1. e.kind = "Exited" => Remember(e) = [p \in DOMAIN detector \ {e.pid} |-> detector[p]]
  BY DEF Remember, Scored, Restrict
<1>2. Scored(e) => Remember(e) = Learn(e)
  <2>1. Scored(e) => e.kind = "Behavior"
    BY DEF Scored
  <2>2. QED
    BY <2>1 DEF Remember
<1>3. e.kind # "Exited" /\ ~ Scored(e) => Remember(e) = detector
  BY DEF Remember
<1>4. QED
  BY <1>1, <1>2, <1>3

LEMMA SlotTyped ==
  ASSUME TelemetryTyped, NEW p \in Pid
  PROVE  SlotFor(p) \in Memory
BY DEF TelemetryTyped, SlotFor, Memory

LEMMA ObserveTyped ==
  ASSUME TelemetryTyped, NEW p \in Pid, NEW api \in ScoringRelevant
  PROVE  /\ Observe(p, api) \in Memory
         /\ Bumped(p, api) \in [ScoringRelevant -> Nat]
         /\ Bumped(p, api)[api] = SlotFor(p).counts[api] + 1
         /\ \A a \in ScoringRelevant \ {api} : Bumped(p, api)[a] = SlotFor(p).counts[a]
         /\ Completed(p, api) \in SUBSET Chain
<1>1. SlotFor(p) \in Memory
  BY SlotTyped
<1>2. SlotFor(p).counts \in [ScoringRelevant -> Nat] /\ SlotFor(p).fired \in SUBSET Chain /\ SlotFor(p).runKey \in BOOLEAN
  BY <1>1 DEF Memory
<1>3. /\ Bumped(p, api) \in [ScoringRelevant -> Nat]
      /\ Bumped(p, api)[api] = SlotFor(p).counts[api] + 1
      /\ \A a \in ScoringRelevant \ {api} : Bumped(p, api)[a] = SlotFor(p).counts[a]
  BY <1>2 DEF Bumped
<1>4. Completed(p, api) \in SUBSET Chain
  BY DEF Completed
<1>5. Observe(p, api) \in Memory
  BY <1>2, <1>3, <1>4 DEF Observe, Memory
<1>6. QED
  BY <1>3, <1>4, <1>5

LEMMA ScoringTyped ==
  ASSUME TelemetryTyped, NEW e \in BusEvent
  PROVE  /\ Found(e) \in SUBSET Signal /\ Candidate(e) = Best(Found(e)) /\ Candidate(e) \in Nat
         /\ Remember(e) \in [DOMAIN Remember(e) -> Memory] /\ DOMAIN Remember(e) \subseteq Pid
<1>1. Scored(e) => e.kind = "Behavior" /\ e.pid \in Pid /\ e.api \in ScoringRelevant
  BY EventFacts DEF Scored
<1>2. Found(e) \in SUBSET Signal
  <2>1. CASE Scored(e)
    BY <1>1, <2>1, FoundIs, ObserveTyped DEF Signal
  <2>2. CASE ~ Scored(e)
    BY <2>2, FoundIs DEF Signal
  <2>3. QED
    BY <2>1, <2>2
<1>3. Candidate(e) = Best(Found(e))
  BY DEF Candidate, Best
<1>4. Candidate(e) \in Nat
  BY <1>2, <1>3, BestNat
<1>5. Remember(e) \in [DOMAIN Remember(e) -> Memory] /\ DOMAIN Remember(e) \subseteq Pid
  <2>1. detector \in [DOMAIN detector -> Memory] /\ DOMAIN detector \subseteq Pid
    BY DEF TelemetryTyped
  <2>2. CASE e.kind = "Exited"
    BY <2>1, <2>2, RememberIs
  <2>3. CASE Scored(e)
    <3>1. Observe(e.pid, e.api) \in Memory
      BY <1>1, <2>3, ObserveTyped
    <3>2. Learn(e) \in [DOMAIN detector \cup {e.pid} -> Memory]
      BY <2>1, <3>1 DEF Learn
    <3>3. QED
      BY <1>1, <2>1, <2>3, <3>2, RememberIs
  <2>4. CASE e.kind # "Exited" /\ ~ Scored(e)
    BY <2>1, <2>4, RememberIs
  <2>5. QED
    BY <2>2, <2>3, <2>4
<1>6. QED
  BY <1>2, <1>3, <1>4, <1>5
-----------------------------------------------------------------------------
(* One process of a pid after the other                                    *)

\* Nothing new of any process.
LEMMA TurnKept ==
  ASSUME TelemetryTyped, InTurn, Keeps, UNCHANGED <<gen, scoped>>,
         \A i \in DOMAIN bus' \ DOMAIN bus : bus'[i].kind \notin {"Behavior", "Exited"}
  PROVE  InTurn'
<1>1. DOMAIN bus \subseteq DOMAIN bus'
  BY BusFacts DEF Keeps
<1>2. \A i \in DOMAIN bus', p \in Pid :
        /\ Calling(i, p)' <=> i \in DOMAIN bus /\ Calling(i, p)
        /\ Exiting(i, p)' <=> i \in DOMAIN bus /\ Exiting(i, p)
  BY DEF Keeps, Calling, Exiting
<1>3. \A i \in DOMAIN bus : bus'[i] = bus[i]
  BY DEF Keeps
<1>4. QED
  BY <1>1, <1>2, <1>3 DEF InTurn

\* A process starts: it is numbered after all that had the pid.
LEMMA TurnStarted ==
  ASSUME TelemetryTyped, InTurn, Keeps, NEW q \in Pid, q \notin scoped,
         gen' = [gen EXCEPT ![q] = @ + 1], scoped' = scoped \cup {q},
         \A i \in DOMAIN bus' \ DOMAIN bus : bus'[i].kind \notin {"Behavior", "Exited"}
  PROVE  InTurn'
<1>1. DOMAIN bus \subseteq DOMAIN bus' /\ DOMAIN bus \subseteq Nat
  BY BusFacts DEF Keeps
<1>2. \A i \in DOMAIN bus', p \in Pid :
        /\ Calling(i, p)' <=> i \in DOMAIN bus /\ Calling(i, p)
        /\ Exiting(i, p)' <=> i \in DOMAIN bus /\ Exiting(i, p)
  BY DEF Keeps, Calling, Exiting
<1>3. \A i \in DOMAIN bus : bus'[i] = bus[i]
  BY DEF Keeps
<1>4. \A p \in Pid : gen[p] \in Nat /\ gen'[p] = IF p = q THEN gen[p] + 1 ELSE gen[p]
  BY DEF TelemetryTyped
<1>5. \A i \in DOMAIN bus, p \in Pid : Calling(i, p) \/ Exiting(i, p) => bus[i].gen \in Nat
  BY BusFacts, EventFacts DEF Calling, Exiting
<1>6. ASSUME NEW p \in Pid
      PROVE  /\ p \in scoped' => 0 < gen'[p]
             /\ \A i \in DOMAIN bus' : Calling(i, p)' \/ Exiting(i, p)' => 0 < bus'[i].gen /\ bus'[i].gen <= gen'[p]
             /\ \A i \in DOMAIN bus' : Exiting(i, p)' /\ p \in scoped' => bus'[i].gen < gen'[p]
             /\ \A i, j \in DOMAIN bus' :
                  /\ i < j /\ (Calling(i, p)' \/ Exiting(i, p)') /\ (Calling(j, p)' \/ Exiting(j, p)')
                  => /\ bus'[i].gen <= bus'[j].gen
                     /\ Exiting(i, p)' => bus'[i].gen < bus'[j].gen
             /\ \A i \in DOMAIN bus' : Calling(i, p)' /\ (p \notin scoped' \/ bus'[i].gen < gen'[p])
                  => \E k \in DOMAIN bus' : Exiting(k, p)' /\ bus'[k].gen = bus'[i].gen
  <2>1. p \in scoped' => 0 < gen'[p]
    BY <1>4 DEF InTurn
  <2>2. ASSUME NEW i \in DOMAIN bus, Calling(i, p) \/ Exiting(i, p)
        PROVE  0 < bus[i].gen /\ bus[i].gen <= gen'[p] /\ (p = q => bus[i].gen < gen'[p])
    BY <1>4, <1>5, <2>2 DEF InTurn
  <2>3. ASSUME NEW i \in DOMAIN bus, Exiting(i, p), p \in scoped'
        PROVE  bus[i].gen < gen'[p]
    BY <1>4, <2>2, <2>3 DEF InTurn
  <2>4. ASSUME NEW i \in DOMAIN bus, Calling(i, p), p \notin scoped' \/ bus[i].gen < gen'[p]
        PROVE  \E k \in DOMAIN bus : Exiting(k, p) /\ bus[k].gen = bus[i].gen
    BY <1>4, <2>4 DEF InTurn
  <2>5. \A i, j \in DOMAIN bus : /\ i < j /\ (Calling(i, p) \/ Exiting(i, p)) /\ (Calling(j, p) \/ Exiting(j, p))
                                 => /\ bus[i].gen <= bus[j].gen
                                    /\ Exiting(i, p) => bus[i].gen < bus[j].gen
    BY DEF InTurn
  <2>6. QED
    BY <1>1, <1>2, <1>3, <2>1, <2>2, <2>3, <2>4, <2>5
<1>7. QED
  BY <1>6 DEF InTurn

\* A process of the scope calls or exits.
LEMMA TurnTaken ==
  ASSUME TelemetryTyped, InTurn, NEW q \in Pid, q \in scoped, NEW e \in BusEvent,
         Keeps, NEW l, l = Len(bus) + 1, DOMAIN bus' = DOMAIN bus \cup {l}, bus'[l] = e,
         e.kind \in {"Behavior", "Exited"}, e.pid = q, e.gen = gen[q], UNCHANGED gen,
         scoped' = IF e.kind = "Exited" THEN scoped \ {q} ELSE scoped
  PROVE  InTurn'
<1>1. /\ DOMAIN bus' = DOMAIN bus \cup {l} /\ bus'[l] = e /\ l \in Nat
      /\ \A i \in DOMAIN bus : i \in Nat /\ i < l /\ bus'[i] = bus[i]
  BY BusFacts DEF Keeps
<1>2. \A i \in DOMAIN bus, p \in Pid : (Calling(i, p)' <=> Calling(i, p)) /\ (Exiting(i, p)' <=> Exiting(i, p))
  BY <1>1 DEF Calling, Exiting
<1>3. \A p \in Pid : /\ Calling(l, p)' <=> e.kind = "Behavior" /\ p = q
                     /\ Exiting(l, p)' <=> e.kind = "Exited" /\ p = q
  BY <1>1 DEF Calling, Exiting
<1>4. \A p \in Pid : gen[p] \in Nat
  BY DEF TelemetryTyped
<1>5. \A i \in DOMAIN bus, p \in Pid : Calling(i, p) \/ Exiting(i, p) => bus[i].gen \in Nat
  BY BusFacts, EventFacts DEF Calling, Exiting
<1>6. ASSUME NEW p \in Pid
      PROVE  /\ p \in scoped' => 0 < gen'[p]
             /\ \A i \in DOMAIN bus' : Calling(i, p)' \/ Exiting(i, p)' => 0 < bus'[i].gen /\ bus'[i].gen <= gen'[p]
             /\ \A i \in DOMAIN bus' : Exiting(i, p)' /\ p \in scoped' => bus'[i].gen < gen'[p]
             /\ \A i, j \in DOMAIN bus' :
                  /\ i < j /\ (Calling(i, p)' \/ Exiting(i, p)') /\ (Calling(j, p)' \/ Exiting(j, p)')
                  => /\ bus'[i].gen <= bus'[j].gen
                     /\ Exiting(i, p)' => bus'[i].gen < bus'[j].gen
             /\ \A i \in DOMAIN bus' : Calling(i, p)' /\ (p \notin scoped' \/ bus'[i].gen < gen'[p])
                  => \E k \in DOMAIN bus' : Exiting(k, p)' /\ bus'[k].gen = bus'[i].gen
  <2>1. p \in scoped' => p \in scoped /\ 0 < gen'[p]
    BY DEF InTurn
  <2>2. ASSUME NEW i \in DOMAIN bus', Calling(i, p)' \/ Exiting(i, p)'
        PROVE  0 < bus'[i].gen /\ bus'[i].gen <= gen'[p]
    <3>1. CASE i \in DOMAIN bus
      BY <1>1, <1>2, <2>2, <3>1 DEF InTurn
    <3>2. CASE i = l
      BY <1>1, <1>3, <1>4, <2>2, <3>2 DEF InTurn
    <3>3. QED
      BY <1>1, <3>1, <3>2
  <2>3. ASSUME NEW i \in DOMAIN bus', Exiting(i, p)', p \in scoped'
        PROVE  bus'[i].gen < gen'[p]
    <3>1. i \in DOMAIN bus
      BY <1>1, <1>3, <2>3
    <3>2. QED
      BY <1>1, <1>2, <2>1, <2>3, <3>1 DEF InTurn
  <2>4. ASSUME NEW i \in DOMAIN bus', NEW j \in DOMAIN bus', i < j,
               Calling(i, p)' \/ Exiting(i, p)', Calling(j, p)' \/ Exiting(j, p)'
        PROVE  bus'[i].gen <= bus'[j].gen /\ (Exiting(i, p)' => bus'[i].gen < bus'[j].gen)
    <3>1. i \in DOMAIN bus /\ bus'[i] = bus[i] /\ (Calling(i, p) \/ Exiting(i, p))
      BY <1>1, <1>2, <2>4
    <3>2. CASE j \in DOMAIN bus
      BY <1>1, <1>2, <2>4, <3>1, <3>2 DEF InTurn
    <3>3. CASE j = l
      <4>1. p = q /\ bus'[j].gen = gen[q]
        BY <1>1, <1>3, <2>4, <3>3
      <4>2. QED
        BY <1>2, <3>1, <4>1 DEF InTurn
    <3>4. QED
      BY <1>1, <3>2, <3>3
  <2>5. ASSUME NEW i \in DOMAIN bus', Calling(i, p)', p \notin scoped' \/ bus'[i].gen < gen'[p]
        PROVE  \E k \in DOMAIN bus' : Exiting(k, p)' /\ bus'[k].gen = bus'[i].gen
    <3>1. CASE i = l
      BY <1>1, <1>3, <1>4, <2>5, <3>1
    <3>2. CASE i \in DOMAIN bus /\ (p \notin scoped \/ bus[i].gen < gen[p])
      <4>1. PICK k \in DOMAIN bus : Exiting(k, p) /\ bus[k].gen = bus[i].gen
        BY <1>2, <2>5, <3>2 DEF InTurn
      <4>2. QED
        BY <1>1, <1>2, <3>2, <4>1
    <3>3. CASE i \in DOMAIN bus /\ p \in scoped /\ ~ (bus[i].gen < gen[p])
      <4>1. p = q /\ e.kind = "Exited"
        BY <1>1, <2>5, <3>3
      <4>2. bus[i].gen = gen[p]
        <5>1. Calling(i, p) /\ bus[i].gen \in Nat /\ bus[i].gen <= gen[p]
          BY <1>2, <1>5, <2>5, <3>3 DEF InTurn
        <5>2. QED
          BY <1>4, <3>3, <5>1
      <4>3. QED
        BY <1>1, <1>3, <3>3, <4>1, <4>2
    <3>4. QED
      BY <1>1, <3>1, <3>2, <3>3
  <2>6. QED
    BY <2>1, <2>2, <2>3, <2>4, <2>5
<1>7. QED
  BY <1>6 DEF InTurn
-----------------------------------------------------------------------------
(* What the first events of the bus are worth                              *)

Seen(n, s) == \E i \in 1 .. n : \/ s = "cli" /\ bus[i].kind = "Entered" /\ bus[i].cli
                                \/ s = "drop" /\ bus[i].kind = "Drop"
                                \/ s = "runkey" /\ bus[i].kind = "Behavior" /\ bus[i].api = "runkey"
ChainMade(n, c) == \E p \in Pid : \E g \in 1 .. gen[p] : Met(n, p, g, c)
WorthAt(n) == {s \in {"cli", "drop", "runkey"} : Seen(n, s)} \cup {c \in Chain : ChainMade(n, c)}

LEMMA ScoreAt ==
  ASSUME NEW n \in Nat, bus \in Seq(BusEvent), n <= Len(bus)
  PROVE  Score(SubSeq(bus, 1, n)) = Best(WorthAt(n))
<1> DEFINE h == SubSeq(bus, 1, n)
<1>1. DOMAIN h = 1 .. n /\ \A i \in 1 .. n : h[i] = bus[i]
  OBVIOUS
<1> HIDE DEF h
<1>2. \A p, g, a : Calls(h, p, g, a) = Made(n, p, g, a)
  BY <1>1 DEF Calls, Made, Calling
<1>3. Worth(h) = WorthAt(n)
  <2>1. \A c : (\E p \in Pid : \E g \in 1..gen[p] :
                  \A a \in DOMAIN Members(c) : Cardinality(Calls(h, p, g, a)) >= Members(c)[a])
               <=> ChainMade(n, c)
    BY <1>2 DEF ChainMade, Met
  <2>2. \A s : (\E i \in DOMAIN h : \/ s = "cli" /\ h[i].kind = "Entered" /\ h[i].cli
                                    \/ s = "drop" /\ h[i].kind = "Drop"
                                    \/ s = "runkey" /\ h[i].kind = "Behavior" /\ h[i].api = "runkey")
               <=> Seen(n, s)
    BY <1>1 DEF Seen
  <2>3. QED
    BY <2>1, <2>2 DEF Worth, WorthAt
<1>4. QED
  BY <1>3 DEF Score, Best, h

LEMMA ScoreAtPrimed ==
  ASSUME NEW n \in Nat, bus' \in Seq(BusEvent), n <= Len(bus')
  PROVE  Score(SubSeq(bus, 1, n))' = Best(WorthAt(n)')
<1> DEFINE h == SubSeq(bus', 1, n)
<1>1. DOMAIN h = 1 .. n /\ \A i \in 1 .. n : h[i] = bus'[i]
  OBVIOUS
<1> HIDE DEF h
<1>2. \A p, g, a : Calls(h, p, g, a) = Made(n, p, g, a)'
  BY <1>1 DEF Calls, Made, Calling
<1> DEFINE ch(c) == \E p \in Pid : \E g \in 1..gen'[p] :
                      \A a \in DOMAIN Members(c) : Cardinality(Calls(h, p, g, a)) >= Members(c)[a]
           sn(s) == \E i \in DOMAIN h : \/ s = "cli" /\ h[i].kind = "Entered" /\ h[i].cli
                                        \/ s = "drop" /\ h[i].kind = "Drop"
                                        \/ s = "runkey" /\ h[i].kind = "Behavior" /\ h[i].api = "runkey"
           w == {s \in {"cli", "drop", "runkey"} : sn(s)} \cup {c \in Chain : ch(c)}
<1>3. w = WorthAt(n)'
  <2>1. \A c : ch(c) <=> ChainMade(n, c)'
    BY <1>2 DEF ChainMade, Met
  <2>2. \A s : sn(s) <=> Seen(n, s)'
    BY <1>1 DEF Seen
  <2> HIDE DEF ch, sn
  <2>3. QED
    BY <2>1, <2>2 DEF WorthAt
<1>4. Score(SubSeq(bus, 1, n))' = Best(w)
  BY DEF Score, Best, Worth, h, Calls
<1>5. QED
  BY <1>3, <1>4

LEMMA WorthSignals ==
  ASSUME NEW n
  PROVE  WorthAt(n) \in SUBSET Signal
BY DEF WorthAt, Signal

\* Only a call of the process adds to what it made.
LEMMA MadeFinite ==
  ASSUME NEW n \in Nat, NEW p, NEW g, NEW a
  PROVE  /\ IsFiniteSet(Made(n, p, g, a)) /\ Cardinality(Made(n, p, g, a)) \in Nat
         /\ Cardinality(Made(n, p, g, a)) = 0 <=> Made(n, p, g, a) = {}
<1>1. IsFiniteSet(1 .. n)
  BY FS_Interval
<1>2. Made(n, p, g, a) \in SUBSET (1 .. n)
  BY DEF Made
<1>3. QED
  BY <1>1, <1>2, FS_Subset, FS_CardinalityType, FS_EmptySet

LEMMA NothingMade ==
  ASSUME NEW n \in Nat, NEW p, NEW g, \A a \in ScoringRelevant : Made(n, p, g, a) = {}
  PROVE  \A c \in Chain : ~ Met(n, p, g, c)
<1>1. ASSUME NEW c \in Chain, Met(n, p, g, c)
      PROVE  FALSE
  <2>1. PICK a \in DOMAIN Members(c) : TRUE
    BY MembersFacts
  <2>2. Members(c)[a] \in Nat /\ Members(c)[a] > 0 /\ a \in ScoringRelevant
    BY MembersFacts
  <2>3. Cardinality(Made(n, p, g, a)) = 0
    BY <2>2, FS_EmptySet
  <2>4. Cardinality(Made(n, p, g, a)) >= Members(c)[a]
    BY <1>1 DEF Met
  <2>5. QED
    BY <2>2, <2>3, <2>4
<1>2. QED
  BY <1>1

\* What comes after the first n events does not change them.
LEMMA PrefixKept ==
  ASSUME TelemetryTyped, InTurn, Keeps, NEW n \in Nat, n <= Len(bus), gen' \in [Pid -> Nat],
         \A p \in Pid : gen[p] <= gen'[p]
  PROVE  /\ \A i \in 1 .. n : bus'[i] = bus[i]
         /\ \A p, g, a : Made(n, p, g, a)' = Made(n, p, g, a)
         /\ \A p, g, c : Met(n, p, g, c)' <=> Met(n, p, g, c)
         /\ WorthAt(n)' = WorthAt(n)
<1>1. \A i \in 1 .. n : bus'[i] = bus[i] /\ i \in DOMAIN bus
  BY BusFacts DEF Keeps
<1>2. \A p, g, a : Made(n, p, g, a)' = Made(n, p, g, a)
  BY <1>1 DEF Made, Calling
<1>3. \A p, g, c : Met(n, p, g, c)' <=> Met(n, p, g, c)
  BY <1>2 DEF Met
<1>4. ASSUME NEW c \in Chain
      PROVE  ChainMade(n, c)' <=> ChainMade(n, c)
  <2>1. ASSUME NEW p \in Pid, NEW g \in 1 .. gen'[p], Met(n, p, g, c)
        PROVE  g \in 1 .. gen[p]
    <3>1. gen[p] \in Nat /\ gen'[p] \in Nat /\ g \in Nat /\ 1 <= g
      BY DEF TelemetryTyped
    <3>2. ASSUME gen[p] < g, NEW a \in ScoringRelevant
          PROVE  Made(n, p, g, a) = {}
      <4>1. SUFFICES ASSUME NEW i \in 1 .. n, Calling(i, p), bus[i].gen = g
                     PROVE  FALSE
        BY DEF Made
      <4>2. bus[i].gen <= gen[p]
        BY <1>1, <4>1 DEF InTurn
      <4>3. QED
        BY <3>1, <3>2, <4>1, <4>2
    <3>3. ~ (gen[p] < g)
      BY <2>1, <3>2, NothingMade
    <3>4. QED
      BY <3>1, <3>3
  <2>2. \A p \in Pid : 1 .. gen[p] \subseteq 1 .. gen'[p]
    BY DEF TelemetryTyped
  <2>3. QED
    BY <1>3, <2>1, <2>2 DEF ChainMade
<1>5. \A s : Seen(n, s)' <=> Seen(n, s)
  BY <1>1 DEF Seen
<1>6. WorthAt(n)' = WorthAt(n)
  BY <1>4, <1>5 DEF WorthAt
<1>7. QED
  BY <1>1, <1>2, <1>3, <1>6

LEMMA RemembersKept ==
  ASSUME TelemetryTyped, InTurn, Keeps, gen' \in [Pid -> Nat], \A p \in Pid : gen[p] <= gen'[p],
         NEW n \in Nat, n <= Len(bus), NEW memory, DOMAIN memory \subseteq Pid, Remembers(n, memory)
  PROVE  Remembers(n, memory)'
<1>1. /\ \A i \in 1 .. n : bus'[i] = bus[i]
      /\ \A p, g, a : Made(n, p, g, a)' = Made(n, p, g, a)
      /\ \A p, g, c : Met(n, p, g, c)' <=> Met(n, p, g, c)
  BY PrefixKept
<1>2. \A i \in 1 .. n : \A p : (Calling(i, p)' <=> Calling(i, p)) /\ (Exiting(i, p)' <=> Exiting(i, p))
  BY <1>1 DEF Calling, Exiting
<1>3. \A p \in Pid : 1 .. gen[p] \subseteq 1 .. gen'[p]
  BY DEF TelemetryTyped
<1>4. ASSUME NEW p \in DOMAIN memory
      PROVE  \E g \in 1 .. gen'[p] : /\ Recalls(n, p, g, memory[p])'
                                     /\ \E i \in 1 .. n : Calling(i, p)' /\ bus'[i].gen = g
                                     /\ \A i \in 1 .. n : Exiting(i, p)' => bus'[i].gen # g
  <2>1. PICK g \in 1 .. gen[p] : /\ Recalls(n, p, g, memory[p])
                                 /\ \E i \in 1 .. n : Calling(i, p) /\ bus[i].gen = g
                                 /\ \A i \in 1 .. n : Exiting(i, p) => bus[i].gen # g
    BY DEF Remembers
  <2>2. g \in 1 .. gen'[p]
    BY <1>3
  <2>3. Recalls(n, p, g, memory[p])'
    BY <1>1, <2>1 DEF Recalls
  <2>4. QED
    BY <1>1, <1>2, <2>1, <2>2, <2>3
<1>5. ASSUME NEW p \in Pid \ DOMAIN memory, NEW i \in 1 .. n, Calling(i, p)'
      PROVE  \E k \in 1 .. n : Exiting(k, p)' /\ bus'[k].gen = bus'[i].gen
  BY <1>1, <1>2, <1>5 DEF Remembers
<1>6. QED
  BY <1>4, <1>5 DEF Remembers

\* The bus grows while scoring has other things to do.
LEMMA ScoreKept ==
  ASSUME TelemetryTyped, InTurn, ScoreInv, Keeps, gen' \in [Pid -> Nat], \A p \in Pid : gen[p] <= gen'[p],
         pos'["scoring"] = pos["scoring"], UNCHANGED <<detector, dropped, maxScore>>, (lagged => lagged')
  PROVE  ScoreInv'
<1> SUFFICES ASSUME NEW n, n = pos["scoring"], NEW memory, memory = detector,
                    ~lagged', dropped' = 0
             PROVE  (Remembers(pos["scoring"], detector) /\ maxScore = Score(SubSeq(bus, 1, pos["scoring"])))'
  BY DEF ScoreInv
<1>1. Remembers(n, memory) /\ maxScore = Score(SubSeq(bus, 1, n))
  BY DEF ScoreInv
<1>2. n \in Nat /\ n <= Len(bus) /\ n <= Len(bus') /\ bus \in Seq(BusEvent) /\ bus' \in Seq(BusEvent)
  <2>1. n \in Nat /\ n <= Len(bus) /\ Len(bus) \in Nat
    BY BusFacts DEF Subscriber
  <2>2. Len(bus') \in Nat /\ bus' \in Seq(BusEvent) /\ Len(bus) <= Len(bus')
    BY DEF Keeps
  <2>3. QED
    BY <2>1, <2>2 DEF TelemetryTyped
<1>3. Remembers(n, memory)'
  BY <1>1, <1>2, RemembersKept DEF TelemetryTyped
<1>4. WorthAt(n)' = WorthAt(n)
  BY <1>2, PrefixKept
<1>5. Score(SubSeq(bus, 1, n)) = Score(SubSeq(bus, 1, n))'
  BY <1>2, <1>4, ScoreAt, ScoreAtPrimed
<1>6. pos'["scoring"] = n /\ detector' = memory
  OBVIOUS
<1>7. Remembers(pos["scoring"], detector)'
  BY <1>3, <1>6
<1>8. QED
  BY <1>1, <1>5, <1>6, <1>7
-----------------------------------------------------------------------------
(* Scoring goes past one event                                             *)

\* An event that is no call leaves what was made alone.
LEMMA MadeNext ==
  ASSUME TelemetryTyped, NEW n \in Nat, n < Len(bus), NEW p, NEW g, NEW a
  PROVE  /\ Calling(n + 1, p) /\ bus[n + 1].gen = g /\ bus[n + 1].api = a =>
              /\ Made(n + 1, p, g, a) = Made(n, p, g, a) \cup {n + 1}
              /\ Cardinality(Made(n + 1, p, g, a)) = Cardinality(Made(n, p, g, a)) + 1
         /\ ~ (Calling(n + 1, p) /\ bus[n + 1].gen = g /\ bus[n + 1].api = a) =>
              Made(n + 1, p, g, a) = Made(n, p, g, a)
<1>1. 1 .. n + 1 = (1 .. n) \cup {n + 1} /\ n + 1 \notin 1 .. n
  OBVIOUS
<1>2. ASSUME Calling(n + 1, p), bus[n + 1].gen = g, bus[n + 1].api = a
      PROVE  Made(n + 1, p, g, a) = Made(n, p, g, a) \cup {n + 1}
  BY <1>1, <1>2 DEF Made
<1>3. n + 1 \notin Made(n, p, g, a)
  BY <1>1 DEF Made
<1>4. ASSUME ~ (Calling(n + 1, p) /\ bus[n + 1].gen = g /\ bus[n + 1].api = a)
      PROVE  Made(n + 1, p, g, a) = Made(n, p, g, a)
  BY <1>1, <1>4 DEF Made
<1>5. Cardinality(Made(n, p, g, a) \cup {n + 1}) = Cardinality(Made(n, p, g, a)) + 1
  BY <1>3, MadeFinite, FS_AddElement
<1>6. QED
  BY <1>2, <1>4, <1>5

\* Before a call of process g of p is scored, the slot for p is about g.
LEMMA SlotIsTheCallers ==
  ASSUME TelemetryTyped, InTurn, NEW n \in Nat, n < Len(bus), Remembers(n, detector),
         NEW p \in Pid, NEW g, Calling(n + 1, p), g = bus[n + 1].gen
  PROVE  Recalls(n, p, g, SlotFor(p)) /\ \A i \in 1 .. n : Exiting(i, p) => bus[i].gen # g
<1>1. n + 1 \in DOMAIN bus /\ \A i \in 1 .. n : i \in DOMAIN bus /\ i < n + 1
  BY BusFacts
<1>2. DOMAIN bus \subseteq Nat /\ \A i \in DOMAIN bus : Calling(i, p) \/ Exiting(i, p) => bus[i].gen \in Nat
  BY BusFacts, EventFacts DEF Calling, Exiting
<1>3. \A i \in 1 .. n : Exiting(i, p) => bus[i].gen < g
  BY <1>1 DEF InTurn
<1>4. \A i \in 1 .. n : Exiting(i, p) => bus[i].gen # g
  BY <1>1, <1>2, <1>3
<1>5. CASE p \in DOMAIN detector
  <2>1. PICK h \in 1 .. gen[p] : /\ Recalls(n, p, h, detector[p])
                                 /\ \E i \in 1 .. n : Calling(i, p) /\ bus[i].gen = h
                                 /\ \A i \in 1 .. n : Exiting(i, p) => bus[i].gen # h
    BY <1>5 DEF Remembers
  <2>2. PICK i \in 1 .. n : Calling(i, p) /\ bus[i].gen = h
    BY <2>1
  <2>3. h = g
    <3>1. h <= g /\ g <= gen[p] /\ h \in Nat /\ g \in Nat /\ gen[p] \in Nat
      BY <1>1, <1>2, <2>2 DEF InTurn, TelemetryTyped
    <3>2. ASSUME h < g
          PROVE  FALSE
      <4>1. bus[i].gen < gen[p]
        BY <2>2, <3>1, <3>2
      <4>2. PICK k \in DOMAIN bus : Exiting(k, p) /\ bus[k].gen = h
        BY <1>1, <2>2, <4>1 DEF InTurn
      <4>3. ~ (n + 1 < k)
        <5>1. n + 1 < k => g <= bus[k].gen
          BY <1>1, <4>2 DEF InTurn
        <5>2. QED
          BY <3>1, <3>2, <4>2, <5>1
      <4>4. k # n + 1
        BY <4>2 DEF Calling, Exiting
      <4>5. k \in 1 .. n
        BY <1>2, <4>3, <4>4, BusFacts
      <4>6. QED
        BY <2>1, <4>2, <4>5
    <3>3. QED
      BY <3>1, <3>2
  <2>4. QED
    BY <1>4, <1>5, <2>1, <2>3 DEF SlotFor
<1>6. CASE p \notin DOMAIN detector
  <2>1. \A a : Made(n, p, g, a) = {}
    <3>1. SUFFICES ASSUME NEW i \in 1 .. n, Calling(i, p), bus[i].gen = g
                   PROVE  FALSE
      BY DEF Made
    <3>2. PICK k \in 1 .. n : Exiting(k, p) /\ bus[k].gen = g
      BY <1>6, <3>1 DEF Remembers
    <3>3. QED
      BY <1>4, <3>2
  <2>2. SlotFor(p) = [counts |-> [a \in ScoringRelevant |-> 0], fired |-> {}, runKey |-> FALSE]
    BY <1>6 DEF SlotFor
  <2>3. \A c \in Chain : ~ Met(n, p, g, c)
    BY <2>1, NothingMade
  <2>4. \A a \in ScoringRelevant : Cardinality(Made(n, p, g, a)) = 0
    BY <2>1, FS_EmptySet
  <2>5. Recalls(n, p, g, SlotFor(p))
    BY <2>1, <2>2, <2>3, <2>4 DEF Recalls
  <2>6. QED
    BY <1>4, <2>5
<1>7. QED
  BY <1>5, <1>6

\* Scoring a call: the slot is then about the calls up to and with this one,
\* and the chains reported are those it completes.
LEMMA CallRecalled ==
  ASSUME TelemetryTyped, InTurn, NEW n \in Nat, n < Len(bus), Remembers(n, detector),
         NEW p \in Pid, NEW g, NEW api \in ScoringRelevant,
         Calling(n + 1, p), g = bus[n + 1].gen, api = bus[n + 1].api
  PROVE  /\ Recalls(n + 1, p, g, Observe(p, api))
         /\ \A c \in Chain : Met(n, p, g, c) => Met(n + 1, p, g, c)
         /\ Completed(p, api) = {c \in Chain : Met(n + 1, p, g, c) /\ ~ Met(n, p, g, c)}
<1> DEFINE before(a) == Cardinality(Made(n, p, g, a))
           after(a) == Cardinality(Made(n + 1, p, g, a))
<1>1. Recalls(n, p, g, SlotFor(p))
  BY SlotIsTheCallers
<1>2. \A a \in ScoringRelevant : SlotFor(p).counts[a] = before(a) /\ before(a) \in Nat
  BY <1>1, MadeFinite DEF Recalls
<1>3. after(api) = before(api) + 1 /\ \A a \in ScoringRelevant \ {api} : after(a) = before(a)
  BY MadeNext
<1>4. \A a \in ScoringRelevant : Bumped(p, api)[a] = after(a)
  BY <1>2, <1>3, ObserveTyped
<1>5. ASSUME NEW c \in Chain
      PROVE  /\ Met(n + 1, p, g, c) <=> \A a \in DOMAIN Members(c) : Bumped(p, api)[a] >= Members(c)[a]
             /\ Met(n, p, g, c) => Met(n + 1, p, g, c)
  <2>1. \A a \in DOMAIN Members(c) : a \in ScoringRelevant /\ Members(c)[a] \in Nat
    BY MembersFacts
  <2>2. Met(n + 1, p, g, c) <=> \A a \in DOMAIN Members(c) : after(a) >= Members(c)[a]
    BY DEF Met
  <2>3. Met(n, p, g, c) <=> \A a \in DOMAIN Members(c) : before(a) >= Members(c)[a]
    BY DEF Met
  <2> HIDE DEF before, after
  <2>4. \A a \in ScoringRelevant : after(a) \in Nat /\ after(a) >= before(a)
    BY <1>2, <1>3
  <2>5. QED
    BY <1>2, <1>4, <2>1, <2>2, <2>3, <2>4
<1>6. SlotFor(p).fired = {c \in Chain : Met(n, p, g, c)}
  BY <1>1 DEF Recalls
<1>7. Completed(p, api) = {c \in Chain : Met(n + 1, p, g, c) /\ ~ Met(n, p, g, c)}
  BY <1>5, <1>6 DEF Completed
<1>8. Recalls(n + 1, p, g, Observe(p, api))
  <2>1. \A a \in ScoringRelevant : Observe(p, api).counts[a] = after(a)
    BY <1>4 DEF Observe
  <2>2. Observe(p, api).fired = {c \in Chain : Met(n + 1, p, g, c)}
    BY <1>5, <1>6, <1>7 DEF Observe
  <2>3. Observe(p, api).runKey <=> Made(n + 1, p, g, "runkey") # {}
    <3>1. SlotFor(p).runKey <=> Made(n, p, g, "runkey") # {}
      BY <1>1 DEF Recalls
    <3>2. Observe(p, api).runKey = (SlotFor(p).runKey \/ api = "runkey")
      BY DEF Observe
    <3>3. CASE api = "runkey"
      <4>1. n + 1 \in Made(n + 1, p, g, "runkey")
        <5>1. n + 1 \in 1 .. n + 1
          OBVIOUS
        <5>2. Calling(n + 1, p) /\ bus[n + 1].gen = g /\ bus[n + 1].api = "runkey"
          BY <3>3
        <5>3. QED
          BY <5>1, <5>2 DEF Made
      <4>2. Made(n + 1, p, g, "runkey") # {}
        BY <4>1
      <4>3. QED
        BY <3>2, <3>3, <4>2
    <3>4. CASE api # "runkey"
      <4>1. Made(n + 1, p, g, "runkey") = Made(n, p, g, "runkey")
        BY <3>4, MadeNext
      <4>2. QED
        BY <3>1, <3>2, <3>4, <4>1
    <3>5. QED
      BY <3>3, <3>4
  <2>4. QED
    BY <2>1, <2>2, <2>3 DEF Recalls
<1>9. QED
  BY <1>5, <1>7, <1>8

LEMMA OthersUntouched ==
  ASSUME TelemetryTyped, NEW n \in Nat, n < Len(bus), NEW p, NEW g,
         ~ (Calling(n + 1, p) /\ bus[n + 1].gen = g)
  PROVE  /\ \A c : Met(n + 1, p, g, c) <=> Met(n, p, g, c)
         /\ \A m : Recalls(n, p, g, m) => Recalls(n + 1, p, g, m)
<1>1. \A a : Made(n + 1, p, g, a) = Made(n, p, g, a)
  BY MadeNext
<1>2. \A c : Met(n + 1, p, g, c) <=> Met(n, p, g, c)
  BY <1>1 DEF Met
<1>3. \A m : Recalls(n, p, g, m) => Recalls(n + 1, p, g, m)
  BY <1>1, <1>2 DEF Recalls
<1>4. QED
  BY <1>2, <1>3

\* Having scored an event for which there was room, the detector remembers
\* the prefix with it: the caller's slot, and nothing of a process that left.
LEMMA RemembersNext ==
  ASSUME TelemetryTyped, InTurn, NEW n \in Nat, n < Len(bus), Remembers(n, detector),
         NEW e, e = bus[n + 1], e.kind = "Behavior" => HasSlot(e.pid)
  PROVE  Remembers(n + 1, Remember(e))
<1>1. /\ n + 1 \in DOMAIN bus /\ e \in BusEvent
      /\ \A i \in 1 .. n : i \in DOMAIN bus /\ i < n + 1 /\ i \in 1 .. n + 1
      /\ \A i \in 1 .. n + 1 : i \in 1 .. n \/ i = n + 1
      /\ n + 1 \in 1 .. n + 1 /\ DOMAIN bus \subseteq Nat /\ DOMAIN bus = 1 .. Len(bus)
  BY BusFacts
<1>2. \A p : (Calling(n + 1, p) <=> e.kind = "Behavior" /\ e.pid = p)
             /\ (Exiting(n + 1, p) <=> e.kind = "Exited" /\ e.pid = p)
  BY DEF Calling, Exiting
<1>3. Scored(e) <=> e.kind = "Behavior"
  BY DEF Scored
<1>4. ASSUME NEW p \in DOMAIN detector, ~ Calling(n + 1, p), ~ Exiting(n + 1, p)
      PROVE  \E g \in 1 .. gen[p] :
               /\ Recalls(n + 1, p, g, detector[p])
               /\ \E i \in 1 .. n + 1 : Calling(i, p) /\ bus[i].gen = g
               /\ \A i \in 1 .. n + 1 : Exiting(i, p) => bus[i].gen # g
  <2>1. PICK g \in 1 .. gen[p] : /\ Recalls(n, p, g, detector[p])
                                 /\ \E i \in 1 .. n : Calling(i, p) /\ bus[i].gen = g
                                 /\ \A i \in 1 .. n : Exiting(i, p) => bus[i].gen # g
    BY DEF Remembers
  <2>2. Recalls(n + 1, p, g, detector[p])
    BY <1>4, <2>1, OthersUntouched
  <2>3. QED
    BY <1>1, <1>4, <2>1, <2>2
<1>5. ASSUME NEW p \in Pid \ DOMAIN detector, NEW i \in 1 .. n, Calling(i, p)
      PROVE  \E k \in 1 .. n + 1 : Exiting(k, p) /\ bus[k].gen = bus[i].gen
  BY <1>1, <1>5 DEF Remembers
<1>6. CASE e.kind = "Behavior"
  <2> DEFINE q == e.pid
  <2>1. q \in Pid /\ e.api \in ScoringRelevant /\ e.gen \in Nat /\ Calling(n + 1, q)
    BY <1>1, <1>2, <1>6, EventFacts
  <2>2. /\ Remember(e) = Learn(e) /\ DOMAIN Learn(e) = DOMAIN detector \cup {q}
        /\ Learn(e)[q] = Observe(q, e.api) /\ \A p \in DOMAIN detector \ {q} : Learn(e)[p] = detector[p]
    BY <1>3, <1>6, RememberIs DEF Learn
  <2>3. Recalls(n + 1, q, e.gen, Observe(q, e.api))
    BY <2>1, CallRecalled
  <2>4. e.gen \in 1 .. gen[q]
    <3>1. 0 < e.gen /\ e.gen <= gen[q] /\ gen[q] \in Nat
      BY <1>1, <2>1 DEF InTurn, TelemetryTyped
    <3>2. QED
      BY <2>1, <3>1
  <2>5. \A i \in 1 .. n + 1 : Exiting(i, q) => bus[i].gen # e.gen
    <3>1. \A i \in 1 .. n : Exiting(i, q) => bus[i].gen # e.gen
      BY <2>1, SlotIsTheCallers
    <3>2. ~ Exiting(n + 1, q)
      BY <1>2, <1>6
    <3>3. QED
      BY <1>1, <3>1, <3>2
  <2>6. \E i \in 1 .. n + 1 : Calling(i, q) /\ bus[i].gen = e.gen
    BY <1>1, <2>1
  <2>7. ASSUME NEW p \in DOMAIN Learn(e)
        PROVE  \E g \in 1 .. gen[p] :
                 /\ Recalls(n + 1, p, g, Learn(e)[p])
                 /\ \E i \in 1 .. n + 1 : Calling(i, p) /\ bus[i].gen = g
                 /\ \A i \in 1 .. n + 1 : Exiting(i, p) => bus[i].gen # g
    <3>1. CASE p = q
      BY <2>2, <2>3, <2>4, <2>5, <2>6, <3>1
    <3>2. CASE p # q
      <4>1. p \in DOMAIN detector /\ ~ Calling(n + 1, p) /\ ~ Exiting(n + 1, p) /\ Learn(e)[p] = detector[p]
        BY <1>2, <1>6, <2>2, <3>2
      <4>2. QED
        BY <1>4, <4>1
    <3>3. QED
      BY <3>1, <3>2
  <2>8. ASSUME NEW p \in Pid \ DOMAIN Learn(e), NEW i \in 1 .. n + 1, Calling(i, p)
        PROVE  \E k \in 1 .. n + 1 : Exiting(k, p) /\ bus[k].gen = bus[i].gen
    <3>1. p # q /\ p \notin DOMAIN detector
      BY <2>2
    <3>2. i \in 1 .. n
      BY <1>1, <1>2, <2>8, <3>1
    <3>3. QED
      BY <1>5, <2>8, <3>1, <3>2
  <2>9. QED
    BY <2>2, <2>7, <2>8 DEF Remembers
<1>7. CASE e.kind = "Exited"
  <2> DEFINE q == e.pid
             kept == DOMAIN detector \ {q}
  <2>1. q \in Pid /\ e.gen \in Nat /\ Exiting(n + 1, q)
    BY <1>1, <1>2, <1>7, EventFacts
  <2>2. DOMAIN Remember(e) = kept /\ \A p \in kept : Remember(e)[p] = detector[p]
    BY <1>7, RememberIs
  <2>3. ASSUME NEW p \in kept
        PROVE  \E g \in 1 .. gen[p] :
                 /\ Recalls(n + 1, p, g, Remember(e)[p])
                 /\ \E i \in 1 .. n + 1 : Calling(i, p) /\ bus[i].gen = g
                 /\ \A i \in 1 .. n + 1 : Exiting(i, p) => bus[i].gen # g
    <3>1. ~ Calling(n + 1, p) /\ ~ Exiting(n + 1, p) /\ Remember(e)[p] = detector[p] /\ p \in DOMAIN detector
      BY <1>2, <1>7, <2>2
    <3>2. QED
      BY <1>4, <3>1
  <2>4. ASSUME NEW i \in 1 .. n, Calling(i, q)
        PROVE  \E k \in 1 .. n + 1 : Exiting(k, q) /\ bus[k].gen = bus[i].gen
    <3>1. i \in DOMAIN bus /\ bus[i].gen \in Nat /\ gen[q] \in Nat
      BY <1>1, <2>1, <2>4, BusFacts, EventFacts DEF Calling, TelemetryTyped
    <3>2. bus[i].gen <= e.gen /\ e.gen <= gen[q]
      BY <1>1, <2>1, <2>4, <3>1 DEF InTurn
    <3>3. CASE bus[i].gen = e.gen
      BY <1>1, <2>1, <3>3
    <3>4. CASE bus[i].gen # e.gen
      <4>1. bus[i].gen < gen[q] /\ bus[i].gen < e.gen
        BY <2>1, <3>1, <3>2, <3>4
      <4>2. PICK k \in DOMAIN bus : Exiting(k, q) /\ bus[k].gen = bus[i].gen
        BY <2>1, <2>4, <3>1, <4>1 DEF InTurn
      <4>3. ~ (n + 1 < k)
        <5>1. n + 1 < k => e.gen < bus[k].gen
          BY <1>1, <2>1, <4>2 DEF InTurn
        <5>2. QED
          BY <2>1, <3>1, <4>1, <4>2, <5>1
      <4>4. k \in 1 .. n + 1
        BY <1>1, <4>3
      <4>5. QED
        BY <4>2, <4>4
    <3>5. QED
      BY <3>3, <3>4
  <2>5. ASSUME NEW p \in Pid \ kept, NEW i \in 1 .. n + 1, Calling(i, p)
        PROVE  \E k \in 1 .. n + 1 : Exiting(k, p) /\ bus[k].gen = bus[i].gen
    <3>1. i \in 1 .. n
      BY <1>1, <1>2, <1>7, <2>5
    <3>2. CASE p = q
      BY <2>4, <2>5, <3>1, <3>2
    <3>3. CASE p # q
      BY <1>5, <2>5, <3>1, <3>3
    <3>4. QED
      BY <3>2, <3>3
  <2>6. QED
    BY <2>2, <2>3, <2>5 DEF Remembers
<1>8. CASE e.kind \notin {"Behavior", "Exited"}
  <2>1. Remember(e) = detector /\ \A p : ~ Calling(n + 1, p) /\ ~ Exiting(n + 1, p)
    BY <1>2, <1>3, <1>8, RememberIs
  <2>2. \A p \in Pid \ DOMAIN detector : \A i \in 1 .. n + 1 : Calling(i, p) =>
          \E k \in 1 .. n + 1 : Exiting(k, p) /\ bus[k].gen = bus[i].gen
    BY <1>1, <1>5, <2>1
  <2>3. QED
    BY <1>4, <2>1, <2>2 DEF Remembers
<1>9. QED
  BY <1>6, <1>7, <1>8

LEMMA SeenNext ==
  ASSUME NEW n \in Nat, NEW e, e = bus[n + 1]
  PROVE  \A s : Seen(n + 1, s) <=> \/ Seen(n, s)
                                   \/ s = "cli" /\ e.kind = "Entered" /\ e.cli
                                   \/ s = "drop" /\ e.kind = "Drop"
                                   \/ s = "runkey" /\ e.kind = "Behavior" /\ e.api = "runkey"
<1>1. 1 .. n + 1 = (1 .. n) \cup {n + 1}
  OBVIOUS
<1>2. QED
  BY <1>1 DEF Seen

\* A chain is complete after an event when it was, or when the event is the
\* call that completes it.
LEMMA ChainNext ==
  ASSUME TelemetryTyped, InTurn, NEW n \in Nat, n < Len(bus), Remembers(n, detector),
         NEW e, e = bus[n + 1], NEW c \in Chain
  PROVE  ChainMade(n + 1, c) <=> ChainMade(n, c) \/ (e.kind = "Behavior" /\ c \in Completed(e.pid, e.api))
<1>1. e \in BusEvent /\ n + 1 \in DOMAIN bus
  BY BusFacts
<1>2. \A p : Calling(n + 1, p) <=> e.kind = "Behavior" /\ e.pid = p
  BY DEF Calling
<1>3. ASSUME e.kind = "Behavior"
      PROVE  /\ e.pid \in Pid /\ e.gen \in 1 .. gen[e.pid]
             /\ Met(n, e.pid, e.gen, c) => Met(n + 1, e.pid, e.gen, c)
             /\ c \in Completed(e.pid, e.api) <=> Met(n + 1, e.pid, e.gen, c) /\ ~ Met(n, e.pid, e.gen, c)
  <2>1. e.pid \in Pid /\ e.api \in ScoringRelevant /\ e.gen \in Nat /\ Calling(n + 1, e.pid)
    BY <1>1, <1>2, <1>3, EventFacts
  <2>2. 0 < e.gen /\ e.gen <= gen[e.pid] /\ gen[e.pid] \in Nat
    BY <1>1, <2>1 DEF InTurn, TelemetryTyped
  <2>3. QED
    BY <2>1, <2>2, CallRecalled
<1>4. ASSUME NEW p \in Pid, NEW g \in 1 .. gen[p]
      PROVE  Met(n + 1, p, g, c) <=> Met(n, p, g, c)
               \/ (e.kind = "Behavior" /\ p = e.pid /\ g = e.gen /\ c \in Completed(e.pid, e.api))
  <2>1. CASE Calling(n + 1, p) /\ e.gen = g
    BY <1>2, <1>3, <2>1
  <2>2. CASE ~ (Calling(n + 1, p) /\ e.gen = g)
    BY <1>2, <2>2, OthersUntouched
  <2>3. QED
    BY <2>1, <2>2
<1>5. QED
  BY <1>3, <1>4 DEF ChainMade

\* No chain has the run key among its calls.
LEMMA RunKeyCompletesNone ==
  ASSUME TelemetryTyped, InTurn, NEW n \in Nat, n < Len(bus), Remembers(n, detector),
         NEW p \in Pid, Calling(n + 1, p), bus[n + 1].api = "runkey"
  PROVE  Completed(p, "runkey") = {}
<1> DEFINE g == bus[n + 1].gen
<1>1. "runkey" \in ScoringRelevant
  BY DEF ScoringRelevant
<1>2. Completed(p, "runkey") = {c \in Chain : Met(n + 1, p, g, c) /\ ~ Met(n, p, g, c)}
  BY <1>1, CallRecalled
<1>3. ASSUME NEW c \in Chain
      PROVE  Met(n + 1, p, g, c) <=> Met(n, p, g, c)
  <2>1. \A a \in DOMAIN Members(c) : a # "runkey"
    BY MembersFacts
  <2>2. \A a \in DOMAIN Members(c) : Made(n + 1, p, g, a) = Made(n, p, g, a)
    BY <2>1, MadeNext
  <2>3. QED
    BY <2>2 DEF Met
<1>4. QED
  BY <1>2, <1>3

\* The signals scoring finds in an event are what the prefix gains by it, or
\* had already.
LEMMA WorthNext ==
  ASSUME TelemetryTyped, InTurn, NEW n \in Nat, n < Len(bus), Remembers(n, detector),
         NEW e, e = bus[n + 1], e.kind = "Behavior" => HasSlot(e.pid)
  PROVE  WorthAt(n + 1) = WorthAt(n) \cup Found(e)
<1>1. e \in BusEvent
  BY BusFacts
<1>2. \A s : Seen(n + 1, s) <=> \/ Seen(n, s)
                                \/ s = "cli" /\ e.kind = "Entered" /\ e.cli
                                \/ s = "drop" /\ e.kind = "Drop"
                                \/ s = "runkey" /\ e.kind = "Behavior" /\ e.api = "runkey"
  BY SeenNext, Zenon
<1>3. \A c \in Chain : ChainMade(n + 1, c)
                       <=> ChainMade(n, c) \/ (e.kind = "Behavior" /\ c \in Completed(e.pid, e.api))
  BY ChainNext
<1>4. CASE e.kind # "Behavior"
  <2>1. Found(e) = {s \in {"cli", "drop"} : \/ s = "cli" /\ e.kind = "Entered" /\ e.cli
                                            \/ s = "drop" /\ e.kind = "Drop"}
    <3>1. CASE e.kind = "Entered"
      BY <3>1, FoundIs
    <3>2. CASE e.kind = "Drop"
      BY <3>2, FoundIs
    <3>3. CASE e.kind \notin {"Entered", "Drop"}
      <4>1. Found(e) = {}
        BY <1>4, <3>3, FoundIs DEF Scored
      <4>2. QED
        BY <3>3, <4>1
    <3>4. QED
      BY <3>1, <3>2, <3>3
  <2>2. QED
    BY <1>2, <1>3, <1>4, <2>1 DEF WorthAt
<1>5. CASE e.kind = "Behavior"
  <2> DEFINE q == e.pid
  <2>1. q \in Pid /\ e.api \in ScoringRelevant /\ Calling(n + 1, q)
    BY <1>1, <1>5, EventFacts DEF Calling
  <2>2. Found(e) = IF e.api = "runkey" /\ ~SlotFor(q).runKey THEN {"runkey"} ELSE Completed(q, e.api)
    BY <1>5, FoundIs DEF Scored
  <2>3. Completed(q, e.api) \subseteq Chain
    BY <2>1, ObserveTyped
  <2>4. CASE e.api # "runkey"
    BY <1>2, <1>3, <1>5, <2>2, <2>3, <2>4 DEF WorthAt
  <2>5. CASE e.api = "runkey"
    <3>1. Completed(q, e.api) = {}
      BY <2>1, <2>5, RunKeyCompletesNone
    <3>2. SlotFor(q).runKey => Seen(n, "runkey")
      <4>1. Recalls(n, q, e.gen, SlotFor(q))
        BY <2>1, SlotIsTheCallers
      <4>2. SlotFor(q).runKey => Made(n, q, e.gen, "runkey") # {}
        BY <4>1 DEF Recalls
      <4>3. QED
        BY <4>2 DEF Made, Seen, Calling
    <3>3. \A c \in Chain : ChainMade(n + 1, c) <=> ChainMade(n, c)
      BY <1>3, <3>1
    <3>4. \A s : Seen(n + 1, s) <=> Seen(n, s) \/ s = "runkey"
      BY <1>2, <1>5, <2>5
    <3>5. WorthAt(n + 1) = WorthAt(n) \cup {"runkey"}
      BY <3>3, <3>4 DEF WorthAt
    <3>6. CASE SlotFor(q).runKey
      <4>1. "runkey" \in WorthAt(n) /\ Found(e) = {}
        BY <2>2, <3>1, <3>2, <3>6 DEF WorthAt
      <4>2. QED
        BY <3>5, <4>1
    <3>7. CASE ~ SlotFor(q).runKey
      BY <2>2, <2>5, <3>5, <3>7
    <3>8. QED
      BY <3>6, <3>7
  <2>6. QED
    BY <2>4, <2>5
<1>6. QED
  BY <1>4, <1>5
-----------------------------------------------------------------------------
(* The invariant, action by action                                         *)

LEMMA StartsWell ==
  Init => TelemetryInv
<1> SUFFICES ASSUME Init
             PROVE  TelemetryInv
  OBVIOUS
<1>1. Target \in Pid
  BY TelemetryAssumption
<1>2. Entered(Target, 1) \in BusEvent
  BY <1>1 DEF Entered, BusEvent, ScopeEvent
<1>3. bus \in Seq(BusEvent) /\ Len(bus) = 1 /\ DOMAIN bus = {1} /\ bus[1].kind = "Entered"
  BY <1>2 DEF Init, Entered
<1>4. DOMAIN detector = {} /\ detector \in [DOMAIN detector -> Memory]
  BY DEF Init, Restrict
<1>5. TelemetryTyped
  <2>1. pos \in [Subscriber -> Nat] /\ \A s \in Subscriber : pos[s] <= Len(bus)
    BY <1>3 DEF Init
  <2>2. gen \in [Pid -> Nat] /\ scoped \subseteq Pid
    BY <1>1 DEF Init
  <2>3. dropped \in Nat /\ maxScore \in Nat /\ managerMax \in Nat
    BY DEF Init
  <2>4. QED
    BY <1>3, <1>4, <2>1, <2>2, <2>3 DEF TelemetryTyped
<1>6. RaisesKnown
  BY <1>3 DEF Init, RaisesKnown, Subscriber
<1>7. InTurn
  <2>1. \A i \in DOMAIN bus : \A p : ~ Calling(i, p) /\ ~ Exiting(i, p)
    BY <1>3 DEF Calling, Exiting
  <2>2. \A p \in scoped : 0 < gen[p]
    BY <1>1 DEF Init
  <2>3. QED
    BY <2>1, <2>2 DEF InTurn
<1>8. ScoreInv
  <2>1. pos["scoring"] = 0 /\ maxScore = 0
    BY DEF Init, Subscriber
  <2>2. Remembers(0, detector)
    BY <1>4 DEF Remembers
  <2>3. Score(SubSeq(bus, 1, 0)) = Best(WorthAt(0))
    BY <1>3, ScoreAt
  <2>4. WorthAt(0) = {}
    <3>1. \A s : ~ Seen(0, s)
      BY DEF Seen
    <3>2. \A p, g, a : Made(0, p, g, a) = {}
      BY DEF Made
    <3>3. \A c \in Chain : ~ ChainMade(0, c)
      BY <3>2, NothingMade DEF ChainMade
    <3>4. QED
      BY <3>1, <3>3 DEF WorthAt
  <2>5. Best(WorthAt(0)) = 0
    BY <2>4, BestNat
  <2>6. QED
    BY <2>1, <2>2, <2>3, <2>5 DEF ScoreInv
<1>9. QED
  BY <1>5, <1>6, <1>7, <1>8 DEF TelemetryInv

\* Nothing the invariant is about changes.
LEMMA NothingNew ==
  ASSUME TelemetryInv, UNCHANGED <<bus, pos, lagged, missed, gen, scoped, scoring, managerMax>>
  PROVE  TelemetryInv'
<1>1. UNCHANGED <<detector, dropped, maxScore>>
  BY DEF scoring
<1>2. TelemetryTyped'
  BY <1>1 DEF TelemetryInv, TelemetryTyped
<1>3. RaisesKnown'
  BY <1>1 DEF TelemetryInv, RaisesKnown
<1>4. Keeps
  BY KeepsAll DEF TelemetryInv
<1>5. InTurn'
  BY <1>4, TurnKept DEF TelemetryInv
<1>6. \A p \in Pid : gen[p] <= gen'[p] /\ gen' \in [Pid -> Nat]
  BY DEF TelemetryInv, TelemetryTyped
<1>7. ScoreInv'
  BY <1>1, <1>4, <1>6, ScoreKept DEF TelemetryInv, TelemetryTyped
<1>8. QED
  BY <1>2, <1>3, <1>5, <1>7 DEF TelemetryInv

\* The tracker publishes an event; nobody has received it yet.
LEMMA PublishKeeps ==
  ASSUME TelemetryInv, NEW e \in BusEvent, e.kind # "Raised", bus' = bus \o <<e>>,
         UNCHANGED <<pos, lagged, missed, scoring, managerMax>>,
         gen' \in [Pid -> Nat], \A p \in Pid : gen[p] <= gen'[p], scoped' \subseteq Pid, InTurn'
  PROVE  TelemetryInv'
<1>1. UNCHANGED <<detector, dropped, maxScore>>
  BY DEF scoring
<1>2. /\ Keeps /\ Len(bus') = Len(bus) + 1 /\ DOMAIN bus' = DOMAIN bus \cup {Len(bus) + 1}
      /\ bus'[Len(bus) + 1] = e /\ Len(bus) \in Nat /\ DOMAIN bus = 1 .. Len(bus)
  BY KeepsOne DEF TelemetryInv
<1>3. \A s \in Subscriber : pos[s] \in Nat /\ pos[s] <= Len(bus)
  BY BusFacts DEF TelemetryInv
<1>4. bus' \in Seq(BusEvent) /\ \A s \in Subscriber : pos'[s] <= Len(bus')
  BY <1>2, <1>3 DEF Keeps
<1>5. TelemetryTyped'
  BY <1>1, <1>4 DEF TelemetryInv, TelemetryTyped
<1>6. RaisesKnown'
  <2>1. \A i \in DOMAIN bus' : bus'[i].kind = "Raised" => i \in DOMAIN bus /\ bus'[i] = bus[i]
    BY <1>2 DEF Keeps
  <2>2. \A i \in 1 .. pos["manager"] : i \in DOMAIN bus /\ bus'[i] = bus[i]
    BY <1>2, <1>3 DEF Keeps, Subscriber
  <2>3. QED
    BY <1>1, <2>1, <2>2 DEF TelemetryInv, RaisesKnown
<1>7. ScoreInv'
  BY <1>1, <1>2, ScoreKept DEF TelemetryInv
<1>8. QED
  BY <1>5, <1>6, <1>7 DEF TelemetryInv

LEMMA StartedKeeps ==
  ASSUME TelemetryInv, NEW p \in Pid, ProcessStarted(p)
  PROVE  TelemetryInv'
<1> DEFINE e == Entered(p, gen'[p])
<1>1. /\ p \notin scoped /\ gen' = [gen EXCEPT ![p] = @ + 1] /\ scoped' = scoped \cup {p}
      /\ bus' = bus \o <<e>> /\ UNCHANGED <<pos, lagged, missed, scoring, managerMax>>
  BY DEF ProcessStarted, Bridge, manager
<1>2. gen \in [Pid -> Nat] /\ scoped \subseteq Pid
  BY DEF TelemetryInv, TelemetryTyped
<1>3. gen' \in [Pid -> Nat] /\ (\A q \in Pid : gen[q] <= gen'[q]) /\ scoped' \subseteq Pid
  BY <1>1, <1>2
<1>4. gen'[p] \in Nat
  BY <1>3
<1>5. e \in BusEvent /\ e.kind = "Entered"
  BY <1>4 DEF Entered, BusEvent, ScopeEvent
<1> HIDE DEF e
<1>6. Keeps /\ DOMAIN bus' = DOMAIN bus \cup {Len(bus) + 1} /\ bus'[Len(bus) + 1] = e
  BY <1>1, <1>5, KeepsOne DEF TelemetryInv
<1>7. \A i \in DOMAIN bus' \ DOMAIN bus : bus'[i].kind \notin {"Behavior", "Exited"}
  BY <1>5, <1>6
<1>8. InTurn'
  BY <1>1, <1>6, <1>7, TurnStarted DEF TelemetryInv
<1>9. QED
  BY <1>1, <1>3, <1>5, <1>8, PublishKeeps

\* An exit or a call: the process whose turn it is.
LEMMA TurnPublished ==
  ASSUME TelemetryInv, NEW q \in Pid, q \in scoped, NEW e \in BusEvent, bus' = bus \o <<e>>,
         e.kind \in {"Behavior", "Exited"}, e.pid = q, e.gen = gen[q],
         UNCHANGED <<gen, pos, lagged, missed, scoring, managerMax>>,
         scoped' = IF e.kind = "Exited" THEN scoped \ {q} ELSE scoped
  PROVE  TelemetryInv'
<1>1. Keeps /\ DOMAIN bus' = DOMAIN bus \cup {Len(bus) + 1} /\ bus'[Len(bus) + 1] = e
  BY KeepsOne DEF TelemetryInv
<1>2. InTurn'
  BY <1>1, TurnTaken DEF TelemetryInv
<1>3. scoped' \subseteq Pid /\ gen' \in [Pid -> Nat] /\ \A p \in Pid : gen[p] <= gen'[p]
  BY DEF TelemetryInv, TelemetryTyped
<1>4. QED
  BY <1>2, <1>3, PublishKeeps

LEMMA StoppedKeeps ==
  ASSUME TelemetryInv, NEW p \in Pid, ProcessStopped(p)
  PROVE  TelemetryInv'
<1> DEFINE e == Event("Exited", p)
<1>1. gen[p] \in Nat
  BY DEF TelemetryInv, TelemetryTyped
<1>2. e \in BusEvent /\ e.kind = "Exited" /\ e.pid = p /\ e.gen = gen[p]
  BY <1>1 DEF Event, BusEvent, ScopeEvent
<1>3. /\ p \in scoped /\ scoped' = scoped \ {p} /\ bus' = bus \o <<e>>
      /\ UNCHANGED <<gen, pos, lagged, missed, scoring, managerMax>>
  BY DEF ProcessStopped, Bridge, manager
<1> HIDE DEF e
<1>4. QED
  BY <1>2, <1>3, TurnPublished

LEMMA CallKeeps ==
  ASSUME TelemetryInv, NEW p \in Pid, NEW api, BehaviorCall(p, api)
  PROVE  TelemetryInv'
<1> DEFINE e == [kind |-> "Behavior", pid |-> p, gen |-> gen[p], api |-> api]
<1>1. UNCHANGED <<gen, scoped, pos, lagged, missed, scoring, managerMax>>
  BY DEF BehaviorCall, Bridge, manager
<1>2. CASE api \in ScoringRelevant /\ p \in scoped
  <2>1. gen[p] \in Nat
    BY DEF TelemetryInv, TelemetryTyped
  <2>2. e \in BusEvent /\ e.kind = "Behavior" /\ e.pid = p /\ e.gen = gen[p]
    BY <1>2, <2>1 DEF BusEvent, ScopeEvent
  <2>3. bus' = bus \o <<e>>
    BY <1>2 DEF BehaviorCall, Bridge
  <2> HIDE DEF e
  <2>4. QED
    BY <1>1, <1>2, <2>2, <2>3, TurnPublished
<1>3. CASE ~ (api \in ScoringRelevant /\ p \in scoped)
  <2>1. bus' = bus \o <<>>
    BY <1>3 DEF BehaviorCall, Bridge
  <2>2. bus' = bus
    BY <2>1, NoEvents DEF TelemetryInv, TelemetryTyped
  <2>3. QED
    BY <1>1, <2>2, NothingNew
<1>4. QED
  BY <1>2, <1>3

\* A drop or the death of the scope: of no process.
LEMMA OtherPublished ==
  ASSUME TelemetryInv, NEW e \in BusEvent, bus' = bus \o <<e>>, e.kind \notin {"Behavior", "Exited", "Raised"},
         UNCHANGED <<gen, scoped, pos, lagged, missed, scoring, managerMax>>
  PROVE  TelemetryInv'
<1>1. Keeps /\ DOMAIN bus' = DOMAIN bus \cup {Len(bus) + 1} /\ bus'[Len(bus) + 1] = e
  BY KeepsOne DEF TelemetryInv
<1>2. InTurn'
  BY <1>1, TurnKept DEF TelemetryInv
<1>3. scoped' \subseteq Pid /\ gen' \in [Pid -> Nat] /\ \A p \in Pid : gen[p] <= gen'[p]
  BY DEF TelemetryInv, TelemetryTyped
<1>4. QED
  BY <1>2, <1>3, PublishKeeps

LEMMA WriteKeeps ==
  ASSUME TelemetryInv, NEW p \in Pid, FileWritten(p)
  PROVE  TelemetryInv'
<1> DEFINE e == Event("Drop", p)
<1>1. gen[p] \in Nat
  BY DEF TelemetryInv, TelemetryTyped
<1>2. e \in BusEvent /\ e.kind = "Drop"
  BY <1>1 DEF Event, BusEvent, ScopeEvent
<1>3. bus' = bus \o <<e>> /\ UNCHANGED <<gen, scoped, pos, lagged, missed, scoring, managerMax>>
  BY DEF FileWritten, Bridge, manager
<1> HIDE DEF e
<1>4. QED
  BY <1>2, <1>3, OtherPublished

LEMMA DeathKeeps ==
  ASSUME TelemetryInv, ScopeDies
  PROVE  TelemetryInv'
<1>1. bus' = bus \o <<Died>> /\ UNCHANGED <<gen, scoped, pos, lagged, missed, scoring, managerMax>>
  <2>1. bus' = Append(bus, Died) /\ bus \in Seq(BusEvent) /\ Died \in BusEvent
    BY DEF ScopeDies, TelemetryInv, TelemetryTyped, BusEvent
  <2>2. Append(bus, Died) = bus \o <<Died>>
    BY <2>1
  <2>3. QED
    BY <2>1, <2>2 DEF ScopeDies, source, manager
<1>2. Died \in BusEvent /\ Died.kind = "ScopeDied"
  BY DEF Died, BusEvent
<1>3. QED
  BY <1>1, <1>2, OtherPublished

\* A subscriber that was overtaken gives up its claim on what it lost.
LEMMA LagKeeps ==
  ASSUME TelemetryInv, NEW s \in Subscriber, Lag(s)
  PROVE  TelemetryInv'
<1>1. /\ UNCHANGED <<bus, gen, scoped, detector, dropped, maxScore, managerMax>>
      /\ IF s = "manager" THEN missed' = missed \cup Lost(s) /\ UNCHANGED lagged
                          ELSE lagged' = TRUE /\ UNCHANGED missed
      /\ pos' = [pos EXCEPT ![s] = Len(bus) - Capacity] /\ Len(bus) - pos[s] > Capacity
  BY DEF Lag, Overtaken, Behind, source, scoring
<1>2. Len(bus) \in Nat /\ pos[s] \in Nat /\ Capacity \in Nat /\ pos \in [Subscriber -> Nat]
  BY BusFacts, TelemetryAssumption DEF TelemetryInv, TelemetryTyped
<1>3. Len(bus) - Capacity \in Nat /\ Len(bus) - Capacity <= Len(bus)
  BY <1>1, <1>2
<1>4. pos' \in [Subscriber -> Nat] /\ \A t \in Subscriber : pos'[t] <= Len(bus')
  BY <1>1, <1>2, <1>3, BusFacts DEF TelemetryInv
<1>5. TelemetryTyped'
  BY <1>1, <1>4 DEF TelemetryInv, TelemetryTyped
<1>6. "scoring" \in Subscriber /\ "manager" \in Subscriber /\ "scoring" # "manager"
  BY DEF Subscriber
<1>7. RaisesKnown'
  <2>1. managerMax <= maxScore /\ (\A i \in DOMAIN bus : bus[i].kind = "Raised" => bus[i].score <= maxScore)
    BY DEF TelemetryInv, RaisesKnown
  <2>2. ASSUME NEW i \in (1 .. pos'["manager"]) \ missed', bus[i].kind = "Raised"
        PROVE  bus[i].score <= managerMax
    <3>1. i \in (1 .. pos["manager"]) \ missed
      <4>1. CASE s = "manager"
        BY <1>1, <1>2, <1>3, <1>6, <2>2, <4>1 DEF Lost
      <4>2. CASE s # "manager"
        BY <1>1, <1>2, <1>6, <2>2, <4>2
      <4>3. QED
        BY <4>1, <4>2
    <3>2. QED
      BY <2>2, <3>1 DEF TelemetryInv, RaisesKnown
  <2>3. QED
    BY <1>1, <2>1, <2>2 DEF RaisesKnown
<1>8. Keeps
  BY <1>1, KeepsAll DEF TelemetryInv
<1>9. InTurn'
  BY <1>1, <1>8, TurnKept DEF TelemetryInv
<1>10. ScoreInv'
  <2>1. CASE s = "scoring"
    BY <1>1, <1>6, <2>1 DEF ScoreInv
  <2>2. CASE s # "scoring"
    <3>1. pos'["scoring"] = pos["scoring"] /\ (lagged => lagged')
      BY <1>1, <1>2, <1>6, <2>2
    <3>2. gen' \in [Pid -> Nat] /\ \A p \in Pid : gen[p] <= gen'[p]
      BY <1>1 DEF TelemetryInv, TelemetryTyped
    <3>3. QED
      BY <1>1, <1>8, <3>1, <3>2, ScoreKept DEF TelemetryInv
  <2>3. QED
    BY <2>1, <2>2
<1>11. QED
  BY <1>5, <1>7, <1>9, <1>10 DEF TelemetryInv

\* The manager keeps the largest raise it has gone past.
LEMMA NotedIs ==
  ASSUME NEW e \in BusEvent, managerMax \in Nat
  PROVE  /\ Noted(e) \in Nat /\ managerMax <= Noted(e)
         /\ e.kind = "Raised" => e.score <= Noted(e) /\ Noted(e) \in {managerMax, e.score}
         /\ e.kind # "Raised" => Noted(e) = managerMax
<1>1. CASE e.kind = "Raised"
  <2>1. e.score \in Nat
    BY <1>1, EventFacts
  <2>2. Noted(e) = IF managerMax >= e.score THEN managerMax ELSE e.score
    BY <1>1, <2>1, Larger DEF Noted
  <2>3. QED
    BY <1>1, <2>1, <2>2
<1>2. CASE e.kind # "Raised"
  BY <1>2 DEF Noted
<1>3. QED
  BY <1>1, <1>2

LEMMA ManagerKeeps ==
  ASSUME TelemetryInv, ManagerReceives
  PROVE  TelemetryInv'
<1> SUFFICES ASSUME NEW n, n = pos["manager"], NEW e, e = bus[n + 1]
             PROVE  TelemetryInv'
  OBVIOUS
<1>1. /\ UNCHANGED <<bus, lagged, missed, gen, scoped, detector, dropped, maxScore>> /\ n < Len(bus)
      /\ managerMax' = Noted(e) /\ pos' = [pos EXCEPT !["manager"] = n + 1]
  BY DEF ManagerReceives, Ready, Received, Consumed, source, scoring
<1>2. /\ Len(bus) \in Nat /\ n \in Nat /\ pos \in [Subscriber -> Nat] /\ managerMax \in Nat /\ maxScore \in Nat
      /\ DOMAIN bus = 1 .. Len(bus)
  BY BusFacts DEF TelemetryInv, TelemetryTyped, Subscriber
<1>3. n + 1 \in DOMAIN bus /\ e \in BusEvent
  BY <1>1, <1>2, BusFacts DEF TelemetryInv
<1>4. pos' \in [Subscriber -> Nat] /\ (\A t \in Subscriber : pos'[t] <= Len(bus'))
      /\ pos'["manager"] = n + 1 /\ pos'["scoring"] = pos["scoring"]
  BY <1>1, <1>2, BusFacts DEF TelemetryInv, Subscriber
<1>5. /\ managerMax' \in Nat /\ managerMax <= managerMax'
      /\ e.kind = "Raised" => e.score \in Nat /\ e.score <= managerMax' /\ managerMax' \in {managerMax, e.score}
      /\ e.kind # "Raised" => managerMax' = managerMax
  BY <1>1, <1>2, <1>3, NotedIs, EventFacts
<1>6. TelemetryTyped'
  BY <1>1, <1>4, <1>5 DEF TelemetryInv, TelemetryTyped
<1>7. RaisesKnown'
  <2>1. managerMax <= maxScore /\ (\A i \in DOMAIN bus : bus[i].kind = "Raised" => bus[i].score <= maxScore)
    BY DEF TelemetryInv, RaisesKnown
  <2>2. managerMax' <= maxScore
    BY <1>3, <1>5, <2>1
  <2>3. ASSUME NEW i \in (1 .. n + 1) \ missed, bus[i].kind = "Raised"
        PROVE  bus[i].score <= managerMax'
    <3>1. CASE i = n + 1
      BY <1>5, <2>3, <3>1
    <3>2. CASE i # n + 1
      <4>1. i \in (1 .. n) \ missed /\ i \in DOMAIN bus
        BY <1>1, <1>2, <3>2
      <4>2. bus[i].score <= managerMax /\ bus[i].score \in Nat
        BY <2>3, <4>1, BusFacts, EventFacts DEF TelemetryInv, RaisesKnown
      <4>3. QED
        BY <1>2, <1>5, <4>2
    <3>3. QED
      BY <3>1, <3>2
  <2>4. QED
    BY <1>1, <1>4, <2>1, <2>2, <2>3 DEF RaisesKnown
<1>8. Keeps
  BY <1>1, KeepsAll DEF TelemetryInv
<1>9. InTurn'
  BY <1>1, <1>8, TurnKept DEF TelemetryInv
<1>10. ScoreInv'
  <2>1. gen' \in [Pid -> Nat] /\ \A p \in Pid : gen[p] <= gen'[p]
    BY <1>1 DEF TelemetryInv, TelemetryTyped
  <2>2. QED
    BY <1>1, <1>4, <1>8, <2>1, ScoreKept DEF TelemetryInv
<1>11. QED
  BY <1>6, <1>7, <1>9, <1>10 DEF TelemetryInv

\* What scoring publishes: a raise to the score it just took, or nothing.
LEMMA RaiseKeeps ==
  ASSUME TelemetryTyped, NEW score \in Nat, bus' = bus \o Raise(score)
  PROVE  /\ Keeps /\ DOMAIN bus \subseteq DOMAIN bus'
         /\ \A i \in DOMAIN bus' \ DOMAIN bus : bus'[i].kind = "Raised" /\ bus'[i].score = score
<1>1. CASE score > maxScore
  <2> DEFINE e == [kind |-> "Raised", score |-> score]
  <2>1. e \in BusEvent /\ e.kind = "Raised" /\ e.score = score
    BY DEF BusEvent
  <2>2. bus' = bus \o <<e>>
    BY <1>1 DEF Raise
  <2> HIDE DEF e
  <2>3. QED
    BY <2>1, <2>2, KeepsOne
<1>2. CASE ~ (score > maxScore)
  <2>1. bus' = bus
    BY <1>2, NoEvents DEF Raise, TelemetryTyped
  <2>2. QED
    BY <2>1, KeepsAll
<1>3. QED
  BY <1>1, <1>2

LEMMA ScoringKeeps ==
  ASSUME TelemetryInv, ScoringReceives
  PROVE  TelemetryInv'
<1> SUFFICES ASSUME NEW n, n = pos["scoring"], NEW e, e = bus[n + 1], NEW score, score = Candidate(e),
                    NEW memory, memory = Remember(e)
             PROVE  TelemetryInv'
  OBVIOUS
<1>1. /\ UNCHANGED <<lagged, missed, gen, scoped, managerMax>> /\ n < Len(bus) /\ detector' = memory
      /\ dropped' = (IF e.kind = "Behavior" /\ ~HasSlot(e.pid) THEN dropped + 1 ELSE dropped)
      /\ maxScore' = Max({maxScore, score}) /\ bus' = bus \o Raise(score)
      /\ pos' = [pos EXCEPT !["scoring"] = n + 1]
  BY DEF ScoringReceives, Ready, Received, Consumed, source, manager
<1>2. /\ Len(bus) \in Nat /\ n \in Nat /\ pos \in [Subscriber -> Nat] /\ dropped \in Nat /\ maxScore \in Nat
      /\ managerMax \in Nat /\ DOMAIN bus = 1 .. Len(bus) /\ gen \in [Pid -> Nat] /\ TelemetryTyped
  BY BusFacts DEF TelemetryInv, TelemetryTyped, Subscriber
<1>3. n + 1 \in DOMAIN bus /\ e \in BusEvent
  BY <1>1, <1>2, BusFacts
<1>4. /\ Found(e) \in SUBSET Signal /\ score = Best(Found(e)) /\ score \in Nat
      /\ memory \in [DOMAIN memory -> Memory] /\ DOMAIN memory \subseteq Pid
  BY <1>2, <1>3, ScoringTyped
<1>5. maxScore' = (IF maxScore >= score THEN maxScore ELSE score)
  BY <1>1, <1>2, <1>4, Larger
<1>6. /\ Keeps /\ DOMAIN bus \subseteq DOMAIN bus'
      /\ \A i \in DOMAIN bus' \ DOMAIN bus : bus'[i].kind = "Raised" /\ bus'[i].score = score
  BY <1>1, <1>2, <1>4, RaiseKeeps
<1>7. bus' \in Seq(BusEvent) /\ Len(bus') \in Nat /\ Len(bus) <= Len(bus') /\ \A i \in DOMAIN bus : bus'[i] = bus[i]
  BY <1>6 DEF Keeps
<1>8. pos' \in [Subscriber -> Nat] /\ (\A t \in Subscriber : pos'[t] <= Len(bus'))
      /\ pos'["scoring"] = n + 1 /\ pos'["manager"] = pos["manager"]
  BY <1>1, <1>2, <1>7, BusFacts DEF Subscriber
<1>9. TelemetryTyped'
  <2>1. dropped' \in Nat /\ maxScore' \in Nat /\ managerMax' \in Nat
    BY <1>1, <1>2, <1>4, <1>5
  <2>2. detector' \in [DOMAIN detector' -> Memory] /\ DOMAIN detector' \subseteq Pid
    BY <1>1, <1>4
  <2>3. gen' \in [Pid -> Nat] /\ scoped' \subseteq Pid
    BY <1>1 DEF TelemetryInv, TelemetryTyped
  <2>4. QED
    BY <1>7, <1>8, <2>1, <2>2, <2>3 DEF TelemetryTyped
<1>10. RaisesKnown'
  <2>1. managerMax' <= maxScore'
    BY <1>1, <1>2, <1>4, <1>5 DEF TelemetryInv, RaisesKnown
  <2>2. ASSUME NEW i \in DOMAIN bus', bus'[i].kind = "Raised"
        PROVE  bus'[i].score <= maxScore'
    <3>1. CASE i \in DOMAIN bus
      <4>1. bus'[i] = bus[i] /\ bus[i].score \in Nat /\ bus[i].score <= maxScore
        BY <1>2, <1>7, <2>2, <3>1, BusFacts, EventFacts DEF TelemetryInv, RaisesKnown
      <4>2. QED
        BY <1>2, <1>4, <1>5, <4>1
    <3>2. CASE i \notin DOMAIN bus
      <4>1. bus'[i].score = score
        BY <1>6, <3>2
      <4>2. QED
        BY <1>2, <1>4, <1>5, <4>1
    <3>3. QED
      BY <3>1, <3>2
  <2>3. \A i \in 1 .. pos["manager"] : bus'[i] = bus[i]
    BY <1>2, <1>7, BusFacts DEF Subscriber
  <2>4. QED
    BY <1>1, <1>8, <2>1, <2>2, <2>3 DEF TelemetryInv, RaisesKnown
<1>11. InTurn'
  BY <1>1, <1>6, TurnKept DEF TelemetryInv
<1>12. ScoreInv'
  <2> SUFFICES ASSUME ~lagged', dropped' = 0
               PROVE  (Remembers(pos["scoring"], detector) /\ maxScore = Score(SubSeq(bus, 1, pos["scoring"])))'
    BY DEF ScoreInv
  <2>1. dropped = 0 /\ (e.kind = "Behavior" => HasSlot(e.pid))
    BY <1>1, <1>2
  <2>2. Remembers(n, detector) /\ maxScore = Score(SubSeq(bus, 1, n))
    BY <1>1, <2>1 DEF TelemetryInv, ScoreInv
  <2>3. maxScore = Best(WorthAt(n))
    BY <1>1, <1>2, <2>2, ScoreAt DEF TelemetryTyped
  <2>4. Remembers(n + 1, memory) /\ WorthAt(n + 1) = WorthAt(n) \cup Found(e)
    BY <1>1, <1>2, <2>1, <2>2, RemembersNext, WorthNext DEF TelemetryInv
  <2>5. Best(WorthAt(n + 1)) = maxScore'
    <3>1. WorthAt(n) \in SUBSET Signal
      BY WorthSignals
    <3>2. Best(WorthAt(n) \cup Found(e)) = Max({Best(WorthAt(n)), Best(Found(e))})
      BY <1>4, <3>1, BestJoined
    <3>3. QED
      BY <1>1, <1>4, <2>3, <2>4, <3>2
  <2>6. n + 1 \in Nat /\ n + 1 <= Len(bus) /\ n + 1 <= Len(bus')
    BY <1>1, <1>2, <1>7
  <2>7. gen' \in [Pid -> Nat] /\ \A p \in Pid : gen[p] <= gen'[p]
    BY <1>1, <1>2
  <2>8. Remembers(n + 1, memory)'
    BY <1>2, <1>4, <1>6, <2>4, <2>6, <2>7, RemembersKept DEF TelemetryInv
  <2>9. Score(SubSeq(bus, 1, n + 1))' = Best(WorthAt(n + 1))
    <3>1. WorthAt(n + 1)' = WorthAt(n + 1)
      BY <1>2, <1>6, <2>6, <2>7, PrefixKept DEF TelemetryInv
    <3>2. Score(SubSeq(bus, 1, n + 1))' = Best(WorthAt(n + 1)')
      BY <1>7, <2>6, ScoreAtPrimed
    <3>3. QED
      BY <3>1, <3>2
  <2>10. Remembers(pos["scoring"], detector)'
    BY <1>1, <1>8, <2>8
  <2>11. QED
    BY <1>8, <2>5, <2>9, <2>10
<1>13. QED
  BY <1>9, <1>10, <1>11, <1>12 DEF TelemetryInv

LEMMA StepKeeps ==
  ASSUME TelemetryInv, [Next]_vars
  PROVE  TelemetryInv'
<1>1. CASE UNCHANGED vars
  BY <1>1, NothingNew DEF vars, source, manager
<1>2. CASE Tracker
  <2>1. CASE ScopeDies
    BY <2>1, DeathKeeps
  <2>2. ASSUME NEW p \in Pid, \/ ProcessStarted(p) \/ ProcessStopped(p) \/ FileWritten(p)
                              \/ \E a \in Api : BehaviorCall(p, a)
        PROVE  TelemetryInv'
    BY <2>2, StartedKeeps, StoppedKeeps, WriteKeeps, CallKeeps
  <2>3. QED
    BY <1>2, <2>1, <2>2 DEF Tracker
<1>3. CASE Scoring
  BY <1>3, LagKeeps, ScoringKeeps DEF Scoring, Subscriber
<1>4. CASE Manager
  BY <1>4, LagKeeps, ManagerKeeps DEF Manager, Subscriber
<1>5. CASE DeadlineOrStop
  BY <1>5, NothingNew DEF DeadlineOrStop, source
<1>6. QED
  BY <1>1, <1>2, <1>3, <1>4, <1>5 DEF Next
-----------------------------------------------------------------------------
(* The theorems                                                            *)

\* The inductive invariant: what the detector remembers, and the order of
\* the bus that makes it enough (score.rs, scoring.rs, session_manager.rs).
THEOREM TelemetryInvariant == Spec => []TelemetryInv
<1>1. Init => TelemetryInv
  BY StartsWell
<1>2. TelemetryInv /\ [Next]_vars => TelemetryInv'
  BY StepKeeps
<1>3. QED
  BY <1>1, <1>2, PTL DEF Spec

\* Scoring that lost nothing knows exactly the largest signal of what it has
\* gone past, and no chain is put together from two processes with one pid
\* (domain/score.rs observe and forget).
THEOREM ScoreIsExact == Spec => []ScoreExact
<1>1. TelemetryInv => ScoreExact
  BY DEF TelemetryInv, ScoreInv, ScoreExact
<1>2. QED
  BY <1>1, TelemetryInvariant, PTL

\* A step that reports a score reports what the manager had: nothing that
\* was not observed, and no less than any raise it has gone past.
LEMMA ReportedIs ==
  ASSUME TelemetryInv, [Next]_vars, reported = None, reported' # None
  PROVE  reported' = managerMax
<1>1. CASE UNCHANGED vars
  BY <1>1 DEF vars, manager
<1>2. CASE Tracker
  BY <1>2 DEF Tracker, ProcessStarted, ProcessStopped, FileWritten, BehaviorCall, ScopeDies, Bridge, manager
<1>3. CASE Scoring
  BY <1>3 DEF Scoring, Lag, Overtaken, ScoringReceives, manager
<1>4. CASE Lag("manager")
  BY <1>4 DEF Lag, Overtaken
<1>5. CASE ManagerReceives
  BY <1>5 DEF ManagerReceives, Finalize
<1>6. CASE DeadlineOrStop
  BY <1>6 DEF DeadlineOrStop, Finalize
<1>7. QED
  BY <1>1, <1>2, <1>3, <1>4, <1>5, <1>6 DEF Next, Manager

\* study.score is between the raises the manager has gone past, but for those
\* a lag took from it, and the maximum of scoring (session_manager.rs,
\* publish_finalize_reports).
THEOREM ReportedScore == Spec => FinalScore
<1> DEFINE step == reported = None /\ reported' # None =>
                     /\ reported' <= maxScore
                     /\ \A i \in (1..pos["manager"]) \ missed :
                          bus[i].kind = "Raised" => reported' >= bus[i].score
<1>1. TelemetryInv /\ [Next]_vars => [step]_vars
  <2> SUFFICES ASSUME TelemetryInv, [Next]_vars, reported = None, reported' # None
               PROVE  /\ reported' <= maxScore
                      /\ \A i \in (1..pos["manager"]) \ missed :
                           bus[i].kind = "Raised" => reported' >= bus[i].score
    OBVIOUS
  <2>1. reported' = managerMax
    BY ReportedIs
  <2>2. managerMax \in Nat
    BY DEF TelemetryInv, TelemetryTyped
  <2>3. ASSUME NEW i \in (1 .. pos["manager"]) \ missed, bus[i].kind = "Raised"
        PROVE  managerMax >= bus[i].score
    <3>1. bus[i].score <= managerMax
      BY <2>3 DEF TelemetryInv, RaisesKnown
    <3>2. bus[i].score \in Nat
      BY <2>3, BusFacts, EventFacts DEF TelemetryInv, Subscriber
    <3>3. QED
      BY <2>2, <3>1, <3>2
  <2>4. managerMax <= maxScore
    BY DEF TelemetryInv, RaisesKnown
  <2>5. QED
    BY <2>1, <2>3, <2>4
<1>2. QED
  BY <1>1, TelemetryInvariant, PTL DEF Spec, FinalScore
=============================================================================
