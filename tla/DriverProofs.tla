---------------------------- MODULE DriverProofs ----------------------------
(***************************************************************************)
(* The kernel driver and those it reports to, for every instance.  First   *)
(* the telemetry path of DriverRecords: no record is lost uncounted, and a *)
(* stop event is attributed to the process it is about.  Then the injected *)
(* sensor of SensorRing: a process is injected once, and the drain pushes  *)
(* or counts every call below its cursor, with the words of that call.     *)
(***************************************************************************)
EXTENDS DriverRecords, SensorRing, Integers, SequencesExt, FiniteSetTheorems, TLAPS

Type == {"ProcessCreated", "ProcessExited", "Thread", "FileWritten", "FileCleanedUp", "DropCaptured"}
Rec == [seq : Nat, type : Type, pid : Pid, id : Nat, gen : Nat]
Call == [at : {"idle", "push", "capture", "copy"}, rec : Rec \cup {NoRecord}, then : {"idle", "capture", "copy"}]

RecordsTyped ==
  /\ proc \in [Pid -> {"none", "starting", "running", "exited"}]
  /\ gen \in [Pid -> Nat] /\ born \in Nat /\ idents \in [Pid -> Nat]
  /\ callback \in [Pid -> Call]
  /\ nextSeq \in Nat /\ overwritten \in Nat /\ stopped \in Nat /\ walked \in Nat
  /\ queue \in [Class -> Seq(Rec)] /\ batch \in Seq(Rec)
  /\ names \in [Pid -> Nat] /\ event \in [of : Nat, name : Nat]

\* A record is in one place: in the callback of its process, in the queue of
\* its class or in the batch, and the last one drawn has the largest number.
OnePlace ==
  /\ \A x \in Records : 0 < x.seq /\ x.seq <= nextSeq
  /\ \A p \in Pid : callback[p].at = "push" => callback[p].rec \in Rec /\ callback[p].rec.pid = p
  /\ \A c \in Class : IsInjective(queue[c]) /\ \A x \in ToSet(queue[c]) : ClassOf(x.type) = c
  /\ IsInjective(batch) /\ \A c \in Class : ToSet(queue[c]) \cap ToSet(batch) = {}
  /\ \A p \in Pid : callback[p].at = "push" =>
       callback[p].rec \notin ToSet(batch) /\ \A c \in Class : callback[p].rec \notin ToSet(queue[c])

\* The control records of one process leave in the order of their numbers.
Control(x, y) == x.pid = y.pid /\ ClassOf(x.type) = "items" /\ ClassOf(y.type) = "items"
Ordered ==
  /\ \A i, j \in DOMAIN batch : i < j /\ Control(batch[i], batch[j]) => batch[i].seq < batch[j].seq
  /\ \A i, j \in DOMAIN queue["items"] :
       i < j /\ Control(queue["items"][i], queue["items"][j]) => queue["items"][i].seq < queue["items"][j].seq
  /\ \A x \in ToSet(batch), y \in ToSet(queue["items"]) : Control(x, y) => x.seq < y.seq
  /\ \A p \in Pid : callback[p].at = "push" =>
       \A x \in Records : x.pid = p /\ x # callback[p].rec => x.seq < callback[p].rec.seq

\* The identity table knows a process from its creation to its exit, or not at all.
Known ==
  \A p \in Pid :
    /\ idents[p] \in {0, gen[p]}
    /\ proc[p] \in {"none", "exited"} => idents[p] = 0
    /\ callback[p].at # "idle" => proc[p] # "none"

\* Who holds a pid later has the larger number, and is created once.
IsStart(x) == x.type = "ProcessCreated"
Holders ==
  /\ \A p \in Pid : gen[p] <= born
  /\ \A x \in Records : x.gen <= born /\ (proc[x.pid] # "none" => x.gen <= gen[x.pid])
  /\ \A x, y \in Records : x.pid = y.pid /\ x.seq < y.seq => x.gen <= y.gen
  /\ \A x, y \in Records : IsStart(x) /\ IsStart(y) /\ x.gen = y.gen => x = y

\* What a stop with number n of process g on pid p will be called.
Named(p, g, n) ==
  \/ g \in lost
  \/ \E x \in Records : IsStart(x) /\ x.gen = g /\ x.pid = p /\ x.seq < n
  \/ names[p] \in {0, g} /\ \A x \in Records : IsStart(x) /\ x.pid = p => n <= x.seq
Names ==
  /\ \A x \in Records : x.type = "ProcessExited" => Named(x.pid, x.gen, x.seq)
  /\ \A p \in Pid : proc[p] # "none" => Named(p, gen[p], nextSeq + 1)

\* What depends on where the records are, and what on which ones there are.
Places == OnePlace /\ Ordered /\ IsFiniteSet(Records) /\ NoSilentLoss
Truth == Known /\ Holders /\ Names /\ AttributionTrue

RecInv == RecordsTyped /\ Places /\ Truth
-----------------------------------------------------------------------------
(* Queues without repetition                                               *)

LEMMA Appended ==
  ASSUME NEW S, NEW s \in Seq(S), NEW x \in S
  PROVE  /\ Append(s, x) \in Seq(S) /\ ToSet(Append(s, x)) = ToSet(s) \union {x}
         /\ DOMAIN Append(s, x) = 1 .. Len(s) + 1 /\ DOMAIN s = 1 .. Len(s) /\ Len(s) \in Nat
         /\ \A i \in DOMAIN s : Append(s, x)[i] = s[i]
         /\ Append(s, x)[Len(s) + 1] = x
         /\ IsInjective(s) /\ x \notin ToSet(s) => IsInjective(Append(s, x))
<1> DEFINE t == Append(s, x)
<1>1. /\ t \in Seq(S) /\ Len(t) = Len(s) + 1 /\ DOMAIN t = 1 .. Len(s) + 1
      /\ DOMAIN s = 1 .. Len(s) /\ Len(s) \in Nat
      /\ \A i \in 1 .. Len(s) : t[i] = s[i]
      /\ t[Len(s) + 1] = x
  OBVIOUS
<1> HIDE DEF t
<1>2. IsInjective(s) /\ x \notin ToSet(s) => IsInjective(t)
  BY <1>1 DEF IsInjective, ToSet
<1>3. ToSet(t) = ToSet(s) \union {x}
  BY <1>1 DEF ToSet
<1>4. QED
  BY <1>1, <1>2, <1>3 DEF t

LEMMA Shifted ==
  ASSUME NEW S, NEW s \in Seq(S), s # <<>>, IsInjective(s)
  PROVE  /\ Tail(s) \in Seq(S) /\ IsInjective(Tail(s))
         /\ ToSet(Tail(s)) = ToSet(s) \ {Head(s)}
         /\ Head(s) \in S /\ Head(s) \in ToSet(s) /\ Head(s) = s[1] /\ 1 \in DOMAIN s
         /\ DOMAIN s \subseteq Nat
         /\ \A i \in DOMAIN Tail(s) : i \in Nat /\ i + 1 \in DOMAIN s /\ Tail(s)[i] = s[i + 1]
         /\ \A x \in ToSet(s) : x # Head(s) => \E i \in DOMAIN s : 1 < i /\ x = s[i]
<1> DEFINE t == Tail(s)
<1>1. /\ t \in Seq(S) /\ Len(s) \in Nat \ {0} /\ DOMAIN t = 1 .. Len(s) - 1
      /\ DOMAIN s = 1 .. Len(s)
      /\ \A i \in 1 .. Len(s) - 1 : t[i] = s[i + 1]
      /\ Head(s) = s[1] /\ s[1] \in S
  OBVIOUS
<1> HIDE DEF t
<1>2. IsInjective(t)
  <2>1. ASSUME NEW a \in DOMAIN t, NEW b \in DOMAIN t, t[a] = t[b]
        PROVE  a = b
    <3>1. a + 1 \in DOMAIN s /\ b + 1 \in DOMAIN s /\ s[a + 1] = s[b + 1]
      BY <1>1, <2>1
    <3>2. a + 1 = b + 1
      BY <3>1 DEF IsInjective
    <3>3. QED
      BY <1>1, <3>2
  <2>2. QED
    BY <2>1 DEF IsInjective
<1>3. ASSUME NEW y \in ToSet(t)
      PROVE  y \in ToSet(s) /\ y # Head(s)
  <2>1. PICK i \in 1 .. Len(s) - 1 : y = s[i + 1]
    BY <1>1 DEF ToSet
  <2>2. i + 1 \in DOMAIN s /\ 1 \in DOMAIN s /\ i + 1 # 1
    BY <1>1
  <2>3. QED
    BY <1>1, <2>1, <2>2 DEF ToSet, IsInjective
<1>4. ASSUME NEW y \in ToSet(s), y # Head(s)
      PROVE  y \in ToSet(t) /\ \E i \in DOMAIN s : 1 < i /\ y = s[i]
  <2>1. PICK i \in 1 .. Len(s) : y = s[i]
    BY <1>1 DEF ToSet
  <2>2. i - 1 \in DOMAIN t /\ t[i - 1] = y /\ 1 < i
    BY <1>1, <1>4, <2>1
  <2>3. QED
    BY <1>1, <2>1, <2>2 DEF ToSet
<1>5. Head(s) \in ToSet(s) /\ 1 \in DOMAIN s
  BY <1>1 DEF ToSet
<1>6. ToSet(t) = ToSet(s) \ {Head(s)}
  BY <1>3, <1>4
<1>7. \A i \in DOMAIN t : i \in Nat /\ i + 1 \in DOMAIN s /\ t[i] = s[i + 1]
  BY <1>1
<1>8. QED
  BY <1>1, <1>2, <1>4, <1>5, <1>6, <1>7 DEF t

\* As many different elements as positions.
LEMMA Counted ==
  ASSUME NEW S, NEW s \in Seq(S), IsInjective(s)
  PROVE  IsFiniteSet(ToSet(s)) /\ Cardinality(ToSet(s)) = Len(s)
<1>1. s \in Bijection(1 .. Len(s), ToSet(s))
  <2>1. s \in [1 .. Len(s) -> ToSet(s)]
    BY DEF ToSet
  <2>2. s \in Injection(1 .. Len(s), ToSet(s))
    BY <2>1 DEF Injection, IsInjective
  <2>3. s \in Surjection(1 .. Len(s), ToSet(s))
    BY <2>1 DEF Surjection, ToSet
  <2>4. QED
    BY <2>2, <2>3 DEF Bijection
<1>2. ExistsBijection(1 .. Len(s), ToSet(s))
  BY <1>1 DEF ExistsBijection
<1>3. /\ Len(s) \in Nat
      /\ IsFiniteSet(1 .. Len(s)) /\ Cardinality(1 .. Len(s)) = Len(s)
  <2>1. Len(s) \in Nat
    OBVIOUS
  <2> DEFINE n == Len(s)
  <2> HIDE DEF n
  <2>2. n \in Nat /\ n \in Int /\ 1 \in Int
    BY <2>1 DEF n
  <2>3. IsFiniteSet(1 .. n) /\ Cardinality(1 .. n) = IF 1 > n THEN 0 ELSE n - 1 + 1
    BY <2>2, FS_Interval
  <2>4. IsFiniteSet(1 .. n) /\ Cardinality(1 .. n) = n
    BY <2>2, <2>3
  <2>5. QED
    BY <2>1, <2>4 DEF n
<1>4. QED
  BY <1>2, <1>3, FS_Bijection
-----------------------------------------------------------------------------
(* Where a record is                                                       *)

InHand(x) == \E p \in Pid : callback[p].at = "push" /\ x = callback[p].rec
Queued(x) == \E c \in Class : x \in ToSet(queue[c])

LEMMA Where ==
  /\ \A x : x \in Records <=> Queued(x) \/ x \in ToSet(batch) \/ InHand(x)
  /\ \A x : x \in Records' <=> Queued(x)' \/ x \in ToSet(batch)' \/ InHand(x)'
<1>1. \A x : x \in Records <=> Queued(x) \/ x \in ToSet(batch) \/ InHand(x)
  BY DEF Records, Queued, InHand, ToSet
<1>2. \A x : x \in Records' <=> Queued(x)' \/ x \in ToSet(batch)' \/ InHand(x)'
  BY DEF Records, Queued, InHand, ToSet
<1>3. QED
  BY <1>1, <1>2

LEMMA RecordFacts ==
  ASSUME RecordsTyped, OnePlace
  PROVE  Records \subseteq Rec
<1>1. ASSUME NEW x \in Records
      PROVE  x \in Rec
  <2>1. CASE Queued(x)
    <3>1. PICK c \in Class : x \in ToSet(queue[c])
      BY <2>1 DEF Queued
    <3>2. queue[c] \in Seq(Rec)
      BY DEF RecordsTyped
    <3>3. QED
      BY <3>1, <3>2 DEF ToSet
  <2>2. CASE x \in ToSet(batch)
    BY <2>2 DEF RecordsTyped, ToSet
  <2>3. CASE InHand(x)
    BY <2>3 DEF InHand, OnePlace
  <2>4. QED
    BY <1>1, <2>1, <2>2, <2>3, Where
<1>2. QED
  BY <1>1

LEMMA Classes ==
  /\ Class = {"items", "files", "drops"}
  /\ \A x : IsStart(x) => ClassOf(x.type) = "items"
  /\ ClassOf("ProcessExited") = "items" /\ ClassOf("DropCaptured") = "drops"
  /\ \A t \in Type : ClassOf(t) \in Class
<1>1. Class = {"items", "files", "drops"}
  <2>1. 1 .. 3 = {1, 2, 3}
    OBVIOUS
  <2>2. QED
    BY <2>1 DEF Class, Queues
<1>2. QED
  BY <1>1 DEF ClassOf, IsStart, Type
-----------------------------------------------------------------------------
(* What moves a record, and what takes it away                             *)

OrderedSeq(s) == \A i, j \in DOMAIN s : i < j /\ Control(s[i], s[j]) => s[i].seq < s[j].seq

LEMMA TailOrdered ==
  ASSUME NEW S, NEW s \in Seq(S), s # <<>>, OrderedSeq(s), IsInjective(s)
  PROVE  OrderedSeq(Tail(s))
<1> DEFINE t == Tail(s)
<1>1. /\ DOMAIN t \subseteq Nat
      /\ \A i \in DOMAIN t : i + 1 \in DOMAIN s /\ t[i] = s[i + 1]
  BY Shifted
<1> HIDE DEF t
<1>2. ASSUME NEW i \in DOMAIN t, NEW j \in DOMAIN t, i < j, Control(t[i], t[j])
      PROVE  t[i].seq < t[j].seq
  <2>1. i + 1 \in DOMAIN s /\ j + 1 \in DOMAIN s /\ i + 1 < j + 1 /\ t[i] = s[i + 1] /\ t[j] = s[j + 1]
    BY <1>1, <1>2
  <2>2. QED
    BY <1>2, <2>1 DEF OrderedSeq
<1>3. OrderedSeq(t)
  BY <1>2 DEF OrderedSeq
<1>4. QED
  BY <1>3 DEF t

LEMMA AppendOrdered ==
  ASSUME NEW S, NEW s \in Seq(S), NEW x \in S, OrderedSeq(s),
         \A y \in ToSet(s) : Control(y, x) => y.seq < x.seq
  PROVE  OrderedSeq(Append(s, x))
<1> DEFINE t == Append(s, x)
<1>1. /\ DOMAIN t = 1 .. Len(s) + 1 /\ DOMAIN s = 1 .. Len(s) /\ Len(s) \in Nat
      /\ \A i \in DOMAIN s : t[i] = s[i]
      /\ t[Len(s) + 1] = x
  BY Appended
<1> HIDE DEF t
<1>2. ASSUME NEW i \in DOMAIN t, NEW j \in DOMAIN t, i < j, Control(t[i], t[j])
      PROVE  t[i].seq < t[j].seq
  <2>1. i \in DOMAIN s /\ t[i] = s[i] /\ s[i] \in ToSet(s)
    BY <1>1, <1>2 DEF ToSet
  <2>2. CASE j \in DOMAIN s
    BY <1>1, <1>2, <2>1, <2>2 DEF OrderedSeq
  <2>3. CASE j = Len(s) + 1
    BY <1>1, <1>2, <2>1, <2>3
  <2>4. QED
    BY <1>1, <2>2, <2>3
<1>3. OrderedSeq(t)
  BY <1>2 DEF OrderedSeq
<1>4. QED
  BY <1>3 DEF t

\* Records leave the batch from its front, or a callback lets one go.
LEMMA LeavePlaces ==
  ASSUME RecordsTyped, OnePlace, Ordered, UNCHANGED <<queue, nextSeq>>,
         IsInjective(batch'), OrderedSeq(batch'), ToSet(batch') \subseteq ToSet(batch),
         \A p \in Pid : callback'[p].at = "push" => callback[p].at = "push" /\ callback'[p].rec = callback[p].rec
  PROVE  OnePlace' /\ Ordered' /\ Records' \subseteq Records
<1>1. Records' \subseteq Records
  BY Where DEF Queued, InHand
<1>2. OnePlace'
  <2>1. \A x \in Records' : 0 < x.seq /\ x.seq <= nextSeq'
    BY <1>1 DEF OnePlace
  <2>2. QED
    BY <2>1 DEF OnePlace
<1>3. \A p \in Pid : callback'[p].at = "push" =>
        \A x \in Records' : x.pid = p /\ x # callback'[p].rec => x.seq < callback'[p].rec.seq
  BY <1>1 DEF Ordered
<1>4. \A x \in ToSet(batch'), y \in ToSet(queue'["items"]) : Control(x, y) => x.seq < y.seq
  BY DEF Ordered
<1>5. QED
  BY <1>1, <1>2, <1>3, <1>4 DEF Ordered, OrderedSeq

\* The same records in the same places.
LEMMA SamePlaces ==
  ASSUME RecordsTyped, Places,
         UNCHANGED <<queue, batch, nextSeq, overwritten, stopped, walked>>,
         \A p \in Pid : /\ callback'[p].at = "push" <=> callback[p].at = "push"
                        /\ callback[p].at = "push" => callback'[p].rec = callback[p].rec
  PROVE  Places' /\ Records' = Records
<1>1. Records' = Records
  BY Where DEF Queued, InHand
<1>2. OnePlace' /\ Ordered'
  BY LeavePlaces DEF Places, OnePlace, Ordered, OrderedSeq
<1>3. QED
  BY <1>1, <1>2 DEF Places, NoSilentLoss

\* A callback draws the next number.
LEMMA DrawPlaces ==
  ASSUME RecordsTyped, Places, NEW p \in Pid, NEW r \in Rec, r.seq = nextSeq + 1, r.pid = p,
         UNCHANGED <<queue, batch, overwritten, stopped, walked>>, nextSeq' = nextSeq + 1,
         callback[p].at # "push", callback'[p].at = "push", callback'[p].rec = r,
         \A q \in Pid \ {p} : callback'[q] = callback[q]
  PROVE  Places' /\ Records' = Records \cup {r} /\ \A x \in Records : x.seq < r.seq
<1>1. \A x \in Records : x \in Rec /\ x.seq \in Nat /\ 0 < x.seq /\ x.seq <= nextSeq /\ x.seq < r.seq
  <2>1. Records \subseteq Rec /\ nextSeq \in Nat
    BY RecordFacts DEF Places, RecordsTyped
  <2>2. \A x \in Records : x \in Rec /\ x.seq \in Nat /\ 0 < x.seq /\ x.seq <= nextSeq
    BY <2>1 DEF Places, OnePlace, Rec
  <2>3. QED
    BY <2>1, <2>2
<1>2. r \notin Records
  BY <1>1
<1>3. Records' = Records \cup {r}
  <2>1. ASSUME NEW x PROVE InHand(x)' <=> InHand(x) \/ x = r
    BY DEF InHand
  <2>2. QED
    BY <2>1, Where DEF Queued
<1>4. IsFiniteSet(Records') /\ Cardinality(Records') = Cardinality(Records) + 1
  BY <1>2, <1>3, FS_AddElement DEF Places
<1>5. NoSilentLoss'
  <2> DEFINE n == Cardinality(Records)
             m == Cardinality(Records')
  <2>1. n \in Nat /\ m = n + 1
    BY <1>4, FS_CardinalityType DEF Places
  <2>2. nextSeq = n + overwritten + stopped + walked
    BY DEF Places, NoSilentLoss
  <2>3. overwritten \in Nat /\ stopped \in Nat /\ walked \in Nat
    BY DEF RecordsTyped
  <2>4. nextSeq' = m + overwritten + stopped + walked
    <3> HIDE DEF n, m
    <3>1. QED
      BY <2>1, <2>2, <2>3
  <2>5. QED
    BY <2>4 DEF NoSilentLoss
<1>6. OnePlace'
  <2>1. \A x \in Records' : 0 < x.seq /\ x.seq <= nextSeq'
    BY <1>1, <1>3 DEF RecordsTyped
  <2>2. \A q \in Pid : callback'[q].at = "push" => callback'[q].rec \in Rec /\ callback'[q].rec.pid = q
    BY DEF Places, OnePlace
  <2>3. r \notin ToSet(batch) /\ \A c \in Class : r \notin ToSet(queue[c])
    BY <1>2, Where DEF Queued
  <2>4. QED
    BY <2>1, <2>2, <2>3 DEF Places, OnePlace
<1>7. Ordered'
  <2>1. ASSUME NEW q \in Pid, callback'[q].at = "push", NEW x \in Records', x.pid = q, x # callback'[q].rec
        PROVE  x.seq < callback'[q].rec.seq
    <3>1. CASE q = p
      BY <1>1, <1>3, <2>1, <3>1
    <3>2. CASE q # p
      BY <1>3, <2>1, <3>2 DEF Places, Ordered
    <3>3. QED
      BY <3>1, <3>2
  <2>2. QED
    BY <2>1 DEF Places, Ordered
<1>8. QED
  BY <1>1, <1>3, <1>4, <1>5, <1>6, <1>7 DEF Places

\* A record is no longer on its way, and a counter says so.
LEMMA LeaveCounted ==
  ASSUME RecordsTyped, Places, OnePlace', Ordered', NEW x \in Records, Records' = Records \ {x},
         nextSeq' = nextSeq,
         \/ overwritten' = overwritten + 1 /\ UNCHANGED <<stopped, walked>>
         \/ stopped' = stopped + 1 /\ UNCHANGED <<overwritten, walked>>
         \/ walked' = walked + 1 /\ UNCHANGED <<overwritten, stopped>>
  PROVE  Places'
<1> DEFINE n == Cardinality(Records)
           m == Cardinality(Records')
<1>1. IsFiniteSet(Records') /\ m = n - 1
  BY FS_RemoveElement DEF Places
<1>2. n \in Nat
  BY FS_CardinalityType DEF Places
<1>3. nextSeq' = n + overwritten + stopped + walked
  BY DEF Places, NoSilentLoss
<1>4. overwritten \in Nat /\ stopped \in Nat /\ walked \in Nat
  BY DEF RecordsTyped
<1>5. nextSeq' = m + overwritten' + stopped' + walked'
  <2> HIDE DEF n, m
  <2>1. /\ nextSeq' = m + (overwritten + 1) + stopped + walked
        /\ nextSeq' = m + overwritten + (stopped + 1) + walked
        /\ nextSeq' = m + overwritten + stopped + (walked + 1)
    BY <1>1, <1>2, <1>3, <1>4
  <2>2. QED
    BY <2>1
<1>6. NoSilentLoss'
  BY <1>5 DEF NoSilentLoss
<1>7. QED
  BY <1>1, <1>6 DEF Places

\* A callback pushes its record into the queue of its class, of which the
\* records in b are left.
LEMMA PushPlaces ==
  ASSUME RecordsTyped, Places, NEW p \in Pid, callback[p].at = "push", NEW r, r = callback[p].rec,
         NEW c \in Class, c = ClassOf(r.type),
         NEW b \in Seq(Rec), IsInjective(b), ToSet(b) \subseteq ToSet(queue[c]), OrderedSeq(queue[c]) => OrderedSeq(b),
         queue' = [queue EXCEPT ![c] = Append(b, r)],
         UNCHANGED <<batch, nextSeq>>, callback'[p].at # "push",
         \A q \in Pid \ {p} : callback'[q] = callback[q]
  PROVE  OnePlace' /\ Ordered' /\ Records' = Records \ (ToSet(queue[c]) \ ToSet(b))
<1>1. /\ r \in Rec /\ r.pid = p /\ r \notin ToSet(batch)
      /\ \A d \in Class : r \notin ToSet(queue[d])
      /\ r \in Records
  <2>1. InHand(r)
    BY DEF InHand
  <2>2. QED
    BY <2>1, Where DEF Places, OnePlace
<1>2. /\ queue' \in [Class -> Seq(Rec)] /\ queue'[c] = Append(b, r)
      /\ \A d \in Class \ {c} : queue'[d] = queue[d]
  <2>1. Append(b, r) \in Seq(Rec)
    BY <1>1
  <2>2. QED
    BY <2>1 DEF RecordsTyped
<1>3. /\ ToSet(queue'[c]) = ToSet(b) \cup {r}
      /\ IsInjective(queue'[c])
  BY <1>1, <1>2, Appended
<1>4. \A q \in Pid \ {p} : callback[q].at = "push" => callback[q].rec # r
  BY <1>1 DEF Places, OnePlace
<1>5. ASSUME NEW x \in ToSet(queue[c])
      PROVE  x \notin ToSet(batch) /\ ~ InHand(x) /\ \A d \in Class \ {c} : x \notin ToSet(queue[d])
  <2>1. ClassOf(x.type) = c
    BY <1>5 DEF Places, OnePlace
  <2>2. \A d \in Class \ {c} : x \notin ToSet(queue[d])
    BY <2>1 DEF Places, OnePlace
  <2>3. x \notin ToSet(batch)
    BY <1>5 DEF Places, OnePlace
  <2>4. ~ InHand(x)
    BY <1>5 DEF Places, OnePlace, InHand
  <2>5. QED
    BY <2>2, <2>3, <2>4
<1>6. Records' = Records \ (ToSet(queue[c]) \ ToSet(b))
  <2>1. ASSUME NEW x
        PROVE  InHand(x) <=> InHand(x)' \/ x = r
    BY DEF InHand
  <2>2. ASSUME NEW x, x # r
        PROVE  Queued(x)' <=> Queued(x) /\ ~ (x \in ToSet(queue[c]) /\ x \notin ToSet(b))
    <3>1. Queued(x)' <=> x \in ToSet(b) \/ \E d \in Class \ {c} : x \in ToSet(queue[d])
      BY <1>2, <1>3, <2>2 DEF Queued
    <3>2. Queued(x) <=> x \in ToSet(queue[c]) \/ \E d \in Class \ {c} : x \in ToSet(queue[d])
      BY DEF Queued
    <3>3. QED
      BY <3>1, <3>2, <1>5
  <2>3. Queued(r)'
    BY <1>2, <1>3 DEF Queued
  <2>4. ASSUME NEW x
        PROVE  x \in Records' <=> x \in Records /\ ~ (x \in ToSet(queue[c]) /\ x \notin ToSet(b))
    <3>1. CASE x = r
      BY <1>1, <2>3, <3>1, Where
    <3>2. CASE x # r
      BY <1>5, <2>1, <2>2, <3>2, Where
    <3>3. QED
      BY <3>1, <3>2
  <2>5. QED
    BY <2>4
<1>7. OnePlace'
  <2>1. \A x \in Records' : 0 < x.seq /\ x.seq <= nextSeq'
    BY <1>6 DEF Places, OnePlace
  <2>2. \A q \in Pid : callback'[q].at = "push" => callback'[q].rec \in Rec /\ callback'[q].rec.pid = q
    BY DEF Places, OnePlace
  <2>3. \A d \in Class : IsInjective(queue'[d]) /\ \A x \in ToSet(queue'[d]) : ClassOf(x.type) = d
    BY <1>2, <1>3 DEF Places, OnePlace
  <2>4. \A d \in Class : ToSet(queue'[d]) \cap ToSet(batch) = {}
    BY <1>1, <1>2, <1>3 DEF Places, OnePlace
  <2>5. ASSUME NEW q \in Pid, callback'[q].at = "push", NEW d \in Class
        PROVE  callback'[q].rec \notin ToSet(queue'[d])
    <3>1. q # p /\ callback[q].at = "push" /\ callback'[q].rec = callback[q].rec /\ callback[q].rec # r
      BY <1>4, <2>5
    <3>2. QED
      BY <1>2, <1>3, <3>1 DEF Places, OnePlace
  <2>6. QED
    BY <2>1, <2>2, <2>3, <2>4, <2>5 DEF Places, OnePlace
<1>8. "items" \in Class
  BY Classes
<1>9. ASSUME NEW x \in Records, x.pid = p, x # r
      PROVE  x.seq < r.seq
  BY <1>9 DEF Places, Ordered
<1>10. OrderedSeq(queue'["items"])
  <2>1. CASE c = "items"
    <3>1. OrderedSeq(b)
      BY <2>1 DEF Places, Ordered, OrderedSeq
    <3>2. \A y \in ToSet(b) : y \in Records /\ y # r
      BY <1>1, Where DEF Queued
    <3>3. \A y \in ToSet(b) : Control(y, r) => y.seq < r.seq
      BY <1>1, <1>9, <3>2 DEF Control
    <3>4. OrderedSeq(Append(b, r))
      BY <1>1, <3>1, <3>3, AppendOrdered
    <3>5. QED
      BY <1>2, <2>1, <3>4
  <2>2. CASE c # "items"
    BY <1>2, <1>8, <2>2 DEF Places, Ordered, OrderedSeq
  <2>3. QED
    BY <2>1, <2>2
<1>11. ASSUME NEW x \in ToSet(batch), NEW y \in ToSet(queue'["items"]), Control(x, y)
       PROVE  x.seq < y.seq
  <2>1. CASE y = r
    <3>1. x \in Records /\ x # r /\ x.pid = p
      BY <1>1, <1>11, <2>1, Where DEF Control
    <3>2. QED
      BY <1>9, <2>1, <3>1
  <2>2. CASE y # r
    <3>1. y \in ToSet(queue["items"])
      BY <1>2, <1>3, <1>8, <1>11, <2>2
    <3>2. QED
      BY <1>11, <3>1 DEF Places, Ordered
  <2>3. QED
    BY <2>1, <2>2
<1>12. ASSUME NEW q \in Pid, callback'[q].at = "push", NEW x \in Records', x.pid = q, x # callback'[q].rec
       PROVE  x.seq < callback'[q].rec.seq
  BY <1>6, <1>12 DEF Places, Ordered
<1>13. Ordered'
  BY <1>10, <1>11, <1>12 DEF Places, Ordered, OrderedSeq
<1>14. QED
  BY <1>6, <1>7, <1>13

\* The drop queue is full: its record is gone, and counted.
LEMMA RefusePlaces ==
  ASSUME RecordsTyped, Places, NEW p \in Pid, callback[p].at = "push", NEW r, r = callback[p].rec,
         UNCHANGED <<queue, batch, nextSeq, overwritten, walked>>, stopped' = stopped + 1,
         callback'[p].at # "push", \A q \in Pid \ {p} : callback'[q] = callback[q]
  PROVE  Places' /\ Records' = Records \ {r}
<1>1. OnePlace' /\ Ordered'
  BY LeavePlaces DEF Places, OnePlace, Ordered, OrderedSeq
<1>2. Records' = Records \ {r} /\ r \in Records
  <2>1. \A q \in Pid \ {p} : callback[q].at = "push" => callback[q].rec # r
    BY DEF Places, OnePlace
  <2>2. ASSUME NEW x
        PROVE  /\ InHand(x) <=> InHand(x)' \/ x = r
               /\ ~ InHand(r)'
    BY <2>1 DEF InHand
  <2>3. r \notin ToSet(batch) /\ ~ Queued(r)
    BY DEF Places, OnePlace, Queued
  <2>4. \A x : Queued(x)' <=> Queued(x)
    BY DEF Queued
  <2>5. QED
    BY <2>2, <2>3, <2>4, Where
<1>3. QED
  BY <1>1, <1>2, LeaveCounted

\* The oldest record of a queue moves to the batch.
LEMMA PopPlaces ==
  ASSUME RecordsTyped, Places, NEW c \in Class, queue[c] # <<>>,
         batch' = Append(batch, Head(queue[c])), queue' = [queue EXCEPT ![c] = Tail(@)],
         UNCHANGED <<callback, nextSeq, overwritten, stopped, walked>>
  PROVE  Places' /\ Records' = Records
<1> DEFINE h == Head(queue[c])
<1>1. queue[c] \in Seq(Rec) /\ batch \in Seq(Rec) /\ IsInjective(queue[c]) /\ IsInjective(batch)
  BY DEF RecordsTyped, Places, OnePlace
<1>2. /\ queue' \in [Class -> Seq(Rec)] /\ queue'[c] = Tail(queue[c])
      /\ \A d \in Class \ {c} : queue'[d] = queue[d]
  <2>1. Tail(queue[c]) \in Seq(Rec)
    BY <1>1, Shifted
  <2>2. QED
    BY <2>1 DEF RecordsTyped
<1>3. /\ h \in Rec /\ h \in ToSet(queue[c]) /\ IsInjective(queue'[c])
      /\ ToSet(queue'[c]) = ToSet(queue[c]) \ {h}
  BY <1>1, <1>2, Shifted
<1> HIDE DEF h
<1>4. /\ h \notin ToSet(batch) /\ ClassOf(h.type) = c
      /\ \A d \in Class \ {c} : h \notin ToSet(queue[d])
      /\ \A p \in Pid : callback[p].at = "push" => callback[p].rec # h
  <2>1. ClassOf(h.type) = c
    BY <1>3 DEF Places, OnePlace
  <2>2. \A d \in Class \ {c} : h \notin ToSet(queue[d])
    BY <2>1 DEF Places, OnePlace
  <2>3. h \notin ToSet(batch) /\ \A p \in Pid : callback[p].at = "push" => callback[p].rec # h
    BY <1>3 DEF Places, OnePlace
  <2>4. QED
    BY <2>1, <2>2, <2>3
<1>5. batch' = Append(batch, h)
  BY DEF h
<1>6. ToSet(batch') = ToSet(batch) \cup {h} /\ IsInjective(batch')
  BY <1>1, <1>3, <1>4, <1>5, Appended
<1>7. Records' = Records
  <2>1. ASSUME NEW x
        PROVE  Queued(x) <=> Queued(x)' \/ x = h
    BY <1>2, <1>3 DEF Queued
  <2>2. \A x : InHand(x)' <=> InHand(x)
    BY DEF InHand
  <2>3. QED
    BY <1>6, <2>1, <2>2, Where
<1>8. OnePlace'
  <2>1. \A x \in Records' : 0 < x.seq /\ x.seq <= nextSeq'
    BY <1>7 DEF Places, OnePlace
  <2>2. \A d \in Class : IsInjective(queue'[d]) /\ \A x \in ToSet(queue'[d]) : ClassOf(x.type) = d
    BY <1>2, <1>3 DEF Places, OnePlace
  <2>3. \A d \in Class : ToSet(queue'[d]) \cap ToSet(batch') = {}
    BY <1>2, <1>3, <1>4, <1>6 DEF Places, OnePlace
  <2>4. ASSUME NEW p \in Pid, callback[p].at = "push"
        PROVE  callback[p].rec \notin ToSet(batch') /\ \A d \in Class : callback[p].rec \notin ToSet(queue'[d])
    BY <1>2, <1>3, <1>4, <1>6, <2>4 DEF Places, OnePlace
  <2>5. QED
    BY <1>6, <2>1, <2>2, <2>3, <2>4 DEF Places, OnePlace
<1>9. "items" \in Class
  BY Classes
<1>10. OrderedSeq(queue'["items"])
  <2>1. OrderedSeq(queue["items"])
    BY DEF Places, Ordered, OrderedSeq
  <2>2. CASE c = "items"
    BY <1>1, <1>2, <2>1, <2>2, TailOrdered
  <2>3. CASE c # "items"
    BY <1>2, <1>9, <2>1, <2>3
  <2>4. QED
    BY <2>2, <2>3
<1>11. OrderedSeq(batch')
  <2>1. OrderedSeq(batch)
    BY DEF Places, Ordered, OrderedSeq
  <2>2. ASSUME NEW y \in ToSet(batch), Control(y, h)
        PROVE  y.seq < h.seq
    <3>1. c = "items"
      BY <1>4, <2>2 DEF Control
    <3>2. QED
      BY <1>3, <2>2, <3>1 DEF Places, Ordered
  <2>3. QED
    BY <1>1, <1>3, <1>5, <2>1, <2>2, AppendOrdered
<1>12. ASSUME NEW x \in ToSet(batch'), NEW y \in ToSet(queue'["items"]), Control(x, y)
       PROVE  x.seq < y.seq
  <2>1. y \in ToSet(queue["items"])
    BY <1>2, <1>3, <1>9, <1>12
  <2>2. CASE x = h
    <3>1. c = "items"
      BY <1>4, <1>12, <2>2 DEF Control
    <3>2. y # h
      BY <1>3, <1>12, <3>1
    <3>3. PICK i \in DOMAIN queue[c] : 1 < i /\ y = queue[c][i]
      BY <1>1, <2>1, <3>1, <3>2, Shifted DEF h
    <3>4. h = queue[c][1] /\ 1 \in DOMAIN queue[c]
      BY <1>1, Shifted DEF h
    <3>5. QED
      BY <1>12, <2>2, <3>1, <3>3, <3>4 DEF Places, Ordered
  <2>3. CASE x # h
    BY <1>6, <1>12, <2>1, <2>3 DEF Places, Ordered
  <2>4. QED
    BY <2>2, <2>3
<1>13. Ordered'
  BY <1>7, <1>10, <1>11, <1>12 DEF Places, Ordered, OrderedSeq
<1>14. QED
  BY <1>7, <1>8, <1>13 DEF Places, NoSilentLoss

\* The first record of the batch leaves it.
LEMMA HeadPlaces ==
  ASSUME RecordsTyped, Places, batch # <<>>, batch' = Tail(batch), walked' = walked + 1,
         UNCHANGED <<queue, callback, nextSeq, overwritten, stopped>>
  PROVE  Places' /\ Records' = Records \ {Head(batch)} /\ Head(batch) \in Records
<1> DEFINE h == Head(batch)
<1>1. batch \in Seq(Rec) /\ IsInjective(batch) /\ OrderedSeq(batch)
  BY DEF RecordsTyped, Places, OnePlace, Ordered, OrderedSeq
<1>2. IsInjective(batch') /\ ToSet(batch') = ToSet(batch) \ {h} /\ h \in ToSet(batch)
  BY <1>1, Shifted
<1>3. OrderedSeq(batch')
  BY <1>1, TailOrdered
<1> HIDE DEF h
<1>4. OnePlace' /\ Ordered'
  BY <1>2, <1>3, LeavePlaces DEF Places
<1>5. ~ Queued(h) /\ ~ InHand(h)
  BY <1>2 DEF Places, OnePlace, Queued, InHand
<1>6. \A x : (Queued(x)' <=> Queued(x)) /\ (InHand(x)' <=> InHand(x))
  BY DEF Queued, InHand
<1>7. Records' = Records \ {h} /\ h \in Records
  BY <1>2, <1>5, <1>6, Where
<1>8. Places'
  BY <1>4, <1>7, LeaveCounted
<1>9. QED
  BY <1>7, <1>8 DEF h

\* The rest of the batch leaves it.
LEMMA RestPlaces ==
  ASSUME RecordsTyped, Places, batch' = <<>>, walked' = walked + Len(batch),
         UNCHANGED <<queue, callback, nextSeq, overwritten, stopped>>
  PROVE  Places' /\ Records' = Records \ ToSet(batch)
<1>1. IsInjective(batch') /\ OrderedSeq(batch') /\ ToSet(batch') = {}
  BY DEF IsInjective, OrderedSeq, ToSet
<1>2. OnePlace' /\ Ordered'
  BY <1>1, LeavePlaces DEF Places
<1>3. \A x \in ToSet(batch) : ~ Queued(x) /\ ~ InHand(x)
  BY DEF Places, OnePlace, Queued, InHand
<1>4. \A x : (Queued(x)' <=> Queued(x)) /\ (InHand(x)' <=> InHand(x))
  BY DEF Queued, InHand
<1>5. Records' = Records \ ToSet(batch) /\ ToSet(batch) \subseteq Records
  BY <1>1, <1>3, <1>4, Where
<1> DEFINE n == Cardinality(Records)
           m == Cardinality(Records')
           k == Len(batch)
<1>6. IsFiniteSet(ToSet(batch)) /\ Cardinality(ToSet(batch)) = k /\ k \in Nat
  BY Counted DEF RecordsTyped, Places, OnePlace
<1>7. IsFiniteSet(Records') /\ m = n - k /\ n \in Nat
  <2>1. IsFiniteSet(Records)
    BY DEF Places
  <2>2. Records \cap ToSet(batch) = ToSet(batch)
    BY <1>5
  <2>3. IsFiniteSet(Records') /\ m = n - Cardinality(Records \cap ToSet(batch))
    BY <1>5, <2>1, FS_Difference
  <2>4. n \in Nat
    BY <2>1, FS_CardinalityType
  <2>5. QED
    BY <1>6, <2>2, <2>3, <2>4
<1>8. nextSeq' = n + overwritten + stopped + walked
  BY DEF Places, NoSilentLoss
<1>9. overwritten \in Nat /\ stopped \in Nat /\ walked \in Nat
  BY DEF RecordsTyped
<1>10. nextSeq' = m + overwritten' + stopped' + walked'
  <2>1. walked' = walked + k
    OBVIOUS
  <2> HIDE DEF n, m, k
  <2>2. nextSeq' = m + overwritten + stopped + (walked + k)
    BY <1>6, <1>7, <1>8, <1>9
  <2>3. QED
    BY <2>1, <2>2
<1>11. NoSilentLoss'
  BY <1>10 DEF NoSilentLoss
<1>12. QED
  BY <1>2, <1>5, <1>7, <1>11 DEF Places
-----------------------------------------------------------------------------
(* What is known of a record's process                                     *)

LEMMA Fields ==
  ASSUME RecordsTyped, OnePlace
  PROVE  \A x \in Records : /\ x.seq \in Nat /\ x.gen \in Nat /\ x.pid \in Pid
                            /\ 0 < x.seq /\ x.seq <= nextSeq /\ x \in Rec
BY RecordFacts DEF OnePlace, Rec

\* The first record of the batch is the oldest control record of its process.
LEMMA HeadFirst ==
  ASSUME RecordsTyped, Places, batch # <<>>, NEW x \in Records, x # Head(batch), Control(Head(batch), x)
  PROVE  Head(batch).seq < x.seq
<1> DEFINE h == Head(batch)
<1>1. batch \in Seq(Rec) /\ IsInjective(batch)
  BY DEF RecordsTyped, Places, OnePlace
<1>2. /\ h \in ToSet(batch) /\ h = batch[1] /\ 1 \in DOMAIN batch
      /\ \A y \in ToSet(batch) : y # h => \E i \in DOMAIN batch : 1 < i /\ y = batch[i]
  BY <1>1, Shifted
<1>3. x # h /\ Control(h, x)
  OBVIOUS
<1> HIDE DEF h
<1>4. CASE x \in ToSet(batch)
  <2>1. PICK i \in DOMAIN batch : 1 < i /\ x = batch[i]
    BY <1>2, <1>3, <1>4
  <2>2. QED
    BY <1>2, <1>3, <2>1 DEF Places, Ordered, h
<1>5. CASE Queued(x)
  <2>1. PICK c \in Class : x \in ToSet(queue[c])
    BY <1>5 DEF Queued
  <2>2. c = "items"
    BY <1>3, <2>1 DEF Places, OnePlace, Control
  <2>3. QED
    BY <1>2, <1>3, <2>1, <2>2 DEF Places, Ordered, h
<1>6. CASE InHand(x)
  <2>1. PICK p \in Pid : callback[p].at = "push" /\ x = callback[p].rec
    BY <1>6 DEF InHand
  <2>2. h \in Records /\ h.pid = p
    BY <1>2, <1>3, <2>1, Where DEF Control, Places, OnePlace
  <2>3. QED
    BY <1>3, <2>1, <2>2 DEF Places, Ordered, h
<1>7. QED
  BY <1>4, <1>5, <1>6, Where

\* Records only leave, and a start among them is known to be lost; a process
\* may go.
LEMMA FewerTruth ==
  ASSUME RecordsTyped, OnePlace, Holders, Names,
         Records' \subseteq Records, lost \subseteq lost',
         \A x \in Records : IsStart(x) /\ x \notin Records' => x.gen \in lost',
         UNCHANGED <<names, born, nextSeq>>,
         \A p \in Pid : /\ gen'[p] = gen[p] \/ (gen'[p] = 0 /\ proc'[p] = "none")
                        /\ proc'[p] # "none" => proc[p] # "none"
  PROVE  Holders' /\ Names'
<1>1. ASSUME NEW p \in Pid, NEW g, NEW n \in Nat, Named(p, g, n)
      PROVE  Named(p, g, n)'
  BY <1>1 DEF Named
<1>2. Names'
  <2>1. ASSUME NEW x \in Records', x.type = "ProcessExited"
        PROVE  Named(x.pid, x.gen, x.seq)'
    <3>1. Named(x.pid, x.gen, x.seq) /\ x.pid \in Pid /\ x.seq \in Nat
      BY <2>1, Fields DEF Names
    <3>2. QED
      BY <1>1, <3>1
  <2>2. ASSUME NEW p \in Pid, proc'[p] # "none"
        PROVE  Named(p, gen[p], nextSeq + 1)'
    <3>1. gen'[p] = gen[p] /\ Named(p, gen[p], nextSeq + 1) /\ nextSeq + 1 \in Nat
      BY <2>2 DEF Names, RecordsTyped
    <3>2. ASSUME NEW g, g = gen[p], NEW n, n = nextSeq + 1
          PROVE  Named(p, gen[p], nextSeq + 1)'
      <4>1. Named(p, g, n)'
        BY <1>1, <3>1, <3>2
      <4>2. QED
        BY <3>1, <3>2, <4>1 DEF Named
    <3>3. QED
      BY <3>2
  <2>3. QED
    BY <2>1, <2>2 DEF Names
<1>3. Holders'
  <2>1. ASSUME NEW p \in Pid
        PROVE  gen'[p] <= born'
    <3>1. gen[p] <= born /\ 0 <= born
      BY DEF Holders, RecordsTyped
    <3>2. QED
      BY <3>1
  <2>2. ASSUME NEW x \in Records'
        PROVE  x.gen <= born' /\ (proc'[x.pid] # "none" => x.gen <= gen'[x.pid])
    BY Fields DEF Holders
  <2>3. QED
    BY <2>1, <2>2 DEF Holders
<1>4. QED
  BY <1>2, <1>3

\* A new record that is no start, of the process that holds the pid.
LEMMA DrawTruth ==
  ASSUME RecordsTyped, OnePlace, Holders, Names, NEW p \in Pid, proc[p] # "none",
         NEW r \in Rec, r.seq = nextSeq + 1, r.pid = p, r.gen = gen[p], ~ IsStart(r),
         Records' = Records \cup {r}, nextSeq' = nextSeq + 1, UNCHANGED <<names, born, gen, lost>>,
         \A q \in Pid : proc'[q] # "none" => proc[q] # "none"
  PROVE  Holders' /\ Names'
<1>0. nextSeq \in Nat /\ r.seq \in Nat /\ \A q \in Pid : gen[q] \in Nat
  BY DEF RecordsTyped, Rec
<1>1. \A x \in Records : /\ x.seq \in Nat /\ x.gen \in Nat /\ x.pid \in Pid
                         /\ 0 < x.seq /\ x.seq <= nextSeq /\ x.seq < r.seq
  BY <1>0, Fields
<1>2. ASSUME NEW q \in Pid, NEW g, NEW n, Named(q, g, n)
      PROVE  Named(q, g, n)'
  BY <1>2 DEF Named
<1>3. Names'
  <2>1. ASSUME NEW x \in Records', x.type = "ProcessExited"
        PROVE  Named(x.pid, x.gen, x.seq)'
    <3>1. CASE x \in Records
      <4>1. Named(x.pid, x.gen, x.seq) /\ x.pid \in Pid
        BY <1>1, <2>1, <3>1 DEF Names
      <4>2. QED
        BY <1>2, <4>1
    <3>2. CASE x = r
      <4>1. Named(p, gen[p], nextSeq + 1)
        BY DEF Names
      <4>2. Named(r.pid, r.gen, r.seq)
        BY <4>1
      <4>3. QED
        BY <1>2, <3>2, <4>2
    <3>3. QED
      BY <2>1, <3>1, <3>2
  <2>2. ASSUME NEW q \in Pid, proc'[q] # "none"
        PROVE  Named(q, gen[q], nextSeq + 1)'
    <3>1. Named(q, gen[q], nextSeq + 1)
      BY <2>2 DEF Names
    <3>2. CASE gen[q] \in lost
      BY <3>2 DEF Named
    <3>3. CASE \E x \in Records : IsStart(x) /\ x.gen = gen[q] /\ x.pid = q /\ x.seq < nextSeq + 1
      <4>1. PICK x \in Records : IsStart(x) /\ x.gen = gen[q] /\ x.pid = q
        BY <3>3
      <4>2. x.seq < nextSeq' + 1 /\ x \in Records'
        BY <1>0, <1>1
      <4>3. QED
        BY <4>1, <4>2 DEF Named
    <3>4. CASE names[q] \in {0, gen[q]} /\ \A x \in Records : IsStart(x) /\ x.pid = q => nextSeq + 1 <= x.seq
      <4>1. \A x \in Records' : ~ (IsStart(x) /\ x.pid = q)
        BY <1>0, <1>1, <3>4
      <4>2. QED
        BY <3>4, <4>1 DEF Named
    <3>5. QED
      BY <3>1, <3>2, <3>3, <3>4 DEF Named
  <2>3. QED
    BY <2>1, <2>2 DEF Names
<1>4. Holders'
  <2>1. \A q \in Pid : gen'[q] <= born'
    BY DEF Holders
  <2>2. ASSUME NEW x \in Records'
        PROVE  x.gen <= born' /\ (proc'[x.pid] # "none" => x.gen <= gen'[x.pid])
    <3>1. CASE x \in Records
      BY <1>1, <3>1 DEF Holders
    <3>2. CASE x = r
      BY <1>0, <2>1, <3>2 DEF Holders
    <3>3. QED
      BY <2>2, <3>1, <3>2
  <2>3. ASSUME NEW x \in Records', NEW y \in Records', x.pid = y.pid, x.seq < y.seq
        PROVE  x.gen <= y.gen
    <3>1. x \in Records
      BY <1>0, <1>1, <2>3
    <3>2. CASE y = r
      BY <1>1, <2>3, <3>1, <3>2 DEF Holders
    <3>3. CASE y \in Records
      BY <2>3, <3>1, <3>3 DEF Holders
    <3>4. QED
      BY <2>3, <3>2, <3>3
  <2>4. \A x, y \in Records' : IsStart(x) /\ IsStart(y) /\ x.gen = y.gen => x = y
    BY DEF Holders
  <2>5. QED
    BY <2>1, <2>2, <2>3, <2>4 DEF Holders
<1>5. QED
  BY <1>3, <1>4

\* A process is created; if its record is drawn it is the new start, if not
\* the process is known to be lost.
LEMMA StartTruth ==
  ASSUME RecordsTyped, OnePlace, Holders, Names, NEW p \in Pid, proc[p] = "none",
         born' = born + 1, gen' = [gen EXCEPT ![p] = born + 1], UNCHANGED names,
         \A q \in Pid \ {p} : proc'[q] = proc[q],
         \/ /\ UNCHANGED nextSeq /\ Records' = Records /\ lost' = lost \cup {born + 1}
         \/ /\ nextSeq' = nextSeq + 1 /\ UNCHANGED lost
            /\ \E r \in Rec : /\ r.seq = nextSeq + 1 /\ r.pid = p /\ r.gen = born + 1 /\ IsStart(r)
                              /\ Records' = Records \cup {r}
  PROVE  Holders' /\ Names'
<1>0. /\ nextSeq \in Nat /\ nextSeq' \in Nat /\ nextSeq <= nextSeq'
      /\ born \in Nat /\ born' \in Nat /\ \A q \in Pid : gen[q] \in Nat
      /\ gen'[p] = born + 1 /\ \A q \in Pid \ {p} : gen'[q] = gen[q]
  BY DEF RecordsTyped
<1>1. \A x \in Records : /\ x.seq \in Nat /\ x.gen \in Nat /\ x.pid \in Pid
                         /\ 0 < x.seq /\ x.seq <= nextSeq /\ x.gen <= born
  BY Fields DEF Holders
<1>2. \A x \in Records' \ Records : /\ x.seq = nextSeq + 1 /\ x.seq = nextSeq' /\ x.pid = p
                                    /\ x.gen = born + 1 /\ IsStart(x) /\ x.type # "ProcessExited"
  BY DEF IsStart
<1>3. Records \subseteq Records' /\ lost \subseteq lost'
  OBVIOUS
<1>4. \A x, y \in Records' \ Records : x = y
  OBVIOUS
<1>5. Names'
  <2>1. ASSUME NEW x \in Records', x.type = "ProcessExited"
        PROVE  Named(x.pid, x.gen, x.seq)'
    <3>1. x \in Records /\ Named(x.pid, x.gen, x.seq)
      BY <1>2, <2>1 DEF Names
    <3>2. \A y \in Records' \ Records : x.seq <= y.seq
      BY <1>0, <1>1, <1>2, <3>1
    <3>3. QED
      BY <1>3, <3>1, <3>2 DEF Named
  <2>2. Named(p, gen[p], nextSeq + 1)'
    <3>1. CASE UNCHANGED nextSeq /\ Records' = Records /\ lost' = lost \cup {born + 1}
      BY <1>0, <3>1 DEF Named
    <3>2. CASE \E r \in Rec : /\ r.seq = nextSeq + 1 /\ r.pid = p /\ r.gen = born + 1 /\ IsStart(r)
                              /\ Records' = Records \cup {r} /\ nextSeq' = nextSeq + 1
      <4>1. PICK r \in Rec : /\ r.seq = nextSeq + 1 /\ r.pid = p /\ r.gen = born + 1 /\ IsStart(r)
                             /\ Records' = Records \cup {r} /\ nextSeq' = nextSeq + 1
        BY <3>2
      <4>2. r \in Records' /\ r.seq < nextSeq' + 1 /\ r.gen = gen'[p]
        BY <1>0, <4>1
      <4>3. QED
        BY <4>1, <4>2 DEF Named
    <3>3. QED
      BY <3>1, <3>2
  <2>3. ASSUME NEW q \in Pid, q # p, proc'[q] # "none"
        PROVE  Named(q, gen[q], nextSeq + 1)'
    <3>1. Named(q, gen[q], nextSeq + 1) /\ gen'[q] = gen[q]
      BY <1>0, <2>3 DEF Names
    <3>2. CASE gen[q] \in lost
      BY <1>3, <3>1, <3>2 DEF Named
    <3>3. CASE \E x \in Records : IsStart(x) /\ x.gen = gen[q] /\ x.pid = q
      <4>1. PICK x \in Records : IsStart(x) /\ x.gen = gen[q] /\ x.pid = q
        BY <3>3
      <4>2. x.seq < nextSeq' + 1 /\ x \in Records'
        BY <1>0, <1>1, <1>3
      <4>3. QED
        BY <3>1, <4>1, <4>2 DEF Named
    <3>4. CASE names[q] \in {0, gen[q]} /\ \A x \in Records : IsStart(x) /\ x.pid = q => nextSeq + 1 <= x.seq
      <4>1. \A x \in Records' : ~ (IsStart(x) /\ x.pid = q)
        BY <1>0, <1>1, <1>2, <2>3, <3>4
      <4>2. QED
        BY <3>1, <3>4, <4>1 DEF Named
    <3>5. QED
      BY <3>1, <3>2, <3>3, <3>4 DEF Named
  <2>4. QED
    BY <2>1, <2>2, <2>3 DEF Names
<1>6. Holders'
  <2>1. ASSUME NEW q \in Pid
        PROVE  gen'[q] <= born'
    <3>1. gen[q] <= born /\ gen[q] \in Nat
      BY <1>0 DEF Holders
    <3>2. QED
      BY <1>0, <3>1
  <2>2. ASSUME NEW x \in Records'
        PROVE  x.gen <= born' /\ (proc'[x.pid] # "none" => x.gen <= gen'[x.pid])
    <3>1. CASE x \in Records
      <4>1. x.gen <= born' /\ x.gen <= born + 1
        BY <1>0, <1>1, <3>1
      <4>2. QED
        BY <1>0, <1>1, <3>1, <4>1 DEF Holders
    <3>2. CASE x \notin Records
      BY <1>0, <1>2, <2>2, <3>2
    <3>3. QED
      BY <3>1, <3>2
  <2>3. ASSUME NEW x \in Records', NEW y \in Records', x.pid = y.pid, x.seq < y.seq
        PROVE  x.gen <= y.gen
    <3>1. CASE y \in Records
      <4>1. x \in Records
        BY <1>0, <1>1, <1>2, <2>3, <3>1
      <4>2. QED
        BY <2>3, <3>1, <4>1 DEF Holders
    <3>2. CASE y \notin Records
      BY <1>0, <1>1, <1>2, <2>3, <3>2
    <3>3. QED
      BY <3>1, <3>2
  <2>4. ASSUME NEW x \in Records', NEW y \in Records', IsStart(x), IsStart(y), x.gen = y.gen
        PROVE  x = y
    <3>1. CASE x \in Records /\ y \in Records
      BY <2>4, <3>1 DEF Holders
    <3>2. CASE x \notin Records /\ y \notin Records
      BY <1>4, <3>2
    <3>3. QED
      BY <1>0, <1>1, <1>2, <2>4, <3>1, <3>2
  <2>5. QED
    BY <2>1, <2>2, <2>3, <2>4 DEF Holders
<1>7. QED
  BY <1>5, <1>6

\* remember_name forgets every name, or none, and knows the new one.
LEMMA RememberedNames ==
  ASSUME RecordsTyped, NEW p \in Pid, NEW g \in Nat
  PROVE  /\ Remembered(p, g) \in [Pid -> Nat] /\ Remembered(p, g)[p] = g
         /\ \A q \in Pid \ {p} : Remembered(p, g)[q] \in {0, names[q]}
<1> DEFINE full == Cardinality({q \in Pid : names[q] # 0}) >= NameCap
<1> HIDE DEF full
<1>1. Remembered(p, g) = IF full THEN [q \in Pid |-> IF q = p THEN g ELSE 0] ELSE [names EXCEPT ![p] = g]
  BY DEF Remembered, full
<1>2. CASE full
  BY <1>1, <1>2 DEF RecordsTyped
<1>3. CASE ~ full
  BY <1>1, <1>3 DEF RecordsTyped
<1>4. QED
  BY <1>2, <1>3

\* The first record of the batch is mapped.
LEMMA HandTruth ==
  ASSUME RecordsTyped, Places, Holders, Names, batch # <<>>, MapRecord(Head(batch)),
         Records' = Records \ {Head(batch)}, Head(batch) \in Records,
         UNCHANGED <<born, nextSeq, gen, proc, lost>>
  PROVE  Holders' /\ Names' /\ (event'.name \in {0, event'.of} \/ event'.of \in lost)
<1> DEFINE h == Head(batch)
<1>0. \A x \in Records : /\ x.seq \in Nat /\ x.gen \in Nat /\ x.pid \in Pid
                         /\ 0 < x.seq /\ x.seq <= nextSeq /\ x \in Rec
  BY Fields DEF Places
<1>1. \A x \in Records : x # h /\ Control(h, x) => h.seq < x.seq
  BY HeadFirst
<1>2. h \in Records /\ Records' = Records \ {h} /\ MapRecord(h)
  OBVIOUS
<1>3. nextSeq \in Nat /\ \A p \in Pid : gen[p] \in Nat
  BY DEF RecordsTyped
<1> HIDE DEF h
<1>4. event'.name \in {0, event'.of} \/ event'.of \in lost
  <2>1. CASE h.type = "ProcessExited"
    <3>1. event' = [of |-> h.gen, name |-> names[h.pid]]
      BY <1>2, <2>1 DEF MapRecord
    <3>2. Named(h.pid, h.gen, h.seq)
      BY <1>2, <2>1 DEF Names
    <3>3. ~ \E x \in Records : IsStart(x) /\ x.gen = h.gen /\ x.pid = h.pid /\ x.seq < h.seq
      <4>1. SUFFICES ASSUME NEW x \in Records, IsStart(x), x.pid = h.pid, x.seq < h.seq
                     PROVE  FALSE
        OBVIOUS
      <4>2. x # h /\ Control(h, x)
        BY <2>1, <4>1, Classes DEF IsStart, Control
      <4>3. QED
        BY <1>0, <1>1, <1>2, <4>1, <4>2
    <3>4. QED
      BY <3>1, <3>2, <3>3 DEF Named
  <2>2. CASE h.type # "ProcessExited"
    <3>1. event' = NoEvent
      BY <1>2, <2>2 DEF MapRecord
    <3>2. QED
      BY <3>1 DEF NoEvent
  <2>3. QED
    BY <2>1, <2>2
<1>5. CASE ~ IsStart(h)
  <2>1. UNCHANGED names
    BY <1>2, <1>5 DEF MapRecord, IsStart
  <2>2. Holders' /\ Names'
    BY <1>2, <1>5, <2>1, FewerTruth DEF Places
  <2>3. QED
    BY <1>4, <2>2
<1>6. CASE IsStart(h)
  <2>1. names' = Remembered(h.pid, h.gen)
    BY <1>2, <1>6 DEF MapRecord, IsStart
  <2>2. names'[h.pid] = h.gen /\ \A q \in Pid \ {h.pid} : names'[q] \in {0, names[q]}
    BY <1>0, <1>2, <2>1, RememberedNames
  <2>3. \A x \in Records : IsStart(x) /\ x.pid = h.pid /\ x # h => h.seq < x.seq /\ h.gen <= x.gen /\ h.gen # x.gen
    <3>1. ASSUME NEW x \in Records, IsStart(x), x.pid = h.pid, x # h
          PROVE  h.seq < x.seq /\ h.gen <= x.gen /\ h.gen # x.gen
      <4>1. Control(h, x)
        BY <1>6, <3>1, Classes DEF Control
      <4>2. h.seq < x.seq
        BY <1>1, <3>1, <4>1
      <4>3. QED
        BY <1>2, <1>6, <3>1, <4>2 DEF Holders
    <3>2. QED
      BY <3>1
  \* A later start of the pid belongs to a later process.
  <2>4. ASSUME NEW p \in Pid, NEW g \in Nat, NEW n \in Nat, Named(p, g, n),
               p = h.pid => h.seq < n,
               \A x \in Records : IsStart(x) /\ x.pid = p /\ x.seq < n => x.gen <= g
        PROVE  Named(p, g, n)'
    <3>1. CASE g \in lost
      BY <3>1 DEF Named
    <3>2. CASE \E x \in Records : x # h /\ IsStart(x) /\ x.gen = g /\ x.pid = p /\ x.seq < n
      BY <1>2, <3>2 DEF Named
    <3>3. CASE h.gen = g /\ h.pid = p /\ h.seq < n
      <4>1. ASSUME NEW x \in Records', IsStart(x), x.pid = p
            PROVE  n <= x.seq
        <5>1. x \in Records /\ x # h /\ x.pid = h.pid
          BY <1>2, <3>3, <4>1
        <5>2. h.gen <= x.gen /\ h.gen # x.gen /\ x.gen \in Nat /\ h.gen \in Nat /\ x.seq \in Nat
          BY <1>0, <1>2, <2>3, <4>1, <5>1
        <5>3. ~ (x.seq < n)
          BY <2>4, <3>3, <4>1, <5>1, <5>2
        <5>4. QED
          BY <5>2, <5>3
      <4>2. QED
        BY <2>2, <3>3, <4>1 DEF Named
    <3>4. CASE names[p] \in {0, g} /\ \A x \in Records : IsStart(x) /\ x.pid = p => n <= x.seq
      <4>1. p # h.pid
        BY <1>0, <1>2, <1>6, <2>4, <3>4
      <4>2. names'[p] \in {0, g}
        BY <2>2, <3>4, <4>1
      <4>3. QED
        BY <1>2, <3>4, <4>2 DEF Named
    <3>5. QED
      BY <2>4, <3>1, <3>2, <3>3, <3>4 DEF Named
  <2>5. ASSUME NEW x \in Records', x.type = "ProcessExited"
        PROVE  Named(x.pid, x.gen, x.seq)'
    <3>1. x \in Records /\ x # h /\ Named(x.pid, x.gen, x.seq)
      BY <1>2, <2>5 DEF Names
    <3>2. x.pid = h.pid => h.seq < x.seq
      BY <1>1, <1>6, <2>5, <3>1, Classes DEF Control
    <3>3. \A y \in Records : IsStart(y) /\ y.pid = x.pid /\ y.seq < x.seq => y.gen <= x.gen
      BY <3>1 DEF Holders
    <3>4. QED
      BY <1>0, <2>4, <3>1, <3>2, <3>3
  <2>6. ASSUME NEW p \in Pid, proc'[p] # "none"
        PROVE  Named(p, gen[p], nextSeq + 1)'
    <3>1. Named(p, gen[p], nextSeq + 1)
      BY <2>6 DEF Names
    <3>2. h.seq < nextSeq + 1
      BY <1>0, <1>2, <1>3
    <3>3. \A y \in Records : IsStart(y) /\ y.pid = p => y.gen <= gen[p]
      BY <2>6 DEF Holders
    <3>4. ASSUME NEW g, g = gen[p], NEW n, n = nextSeq + 1
          PROVE  Named(p, gen[p], nextSeq + 1)'
      <4>1. Named(p, g, n) /\ g \in Nat /\ n \in Nat /\ h.seq < n
        BY <1>3, <3>1, <3>2, <3>4
      <4>2. Named(p, g, n)'
        BY <2>4, <3>3, <3>4, <4>1
      <4>3. QED
        BY <3>4, <4>2 DEF Named
    <3>5. QED
      BY <3>4
  <2>7. Names'
    BY <2>5, <2>6 DEF Names
  <2>8. Holders'
    BY <1>2 DEF Holders
  <2>9. QED
    BY <1>4, <2>7, <2>8
<1>7. QED
  BY <1>5, <1>6
-----------------------------------------------------------------------------
(* The steps                                                               *)

LEMMA Allocated ==
  ASSUME RecordsTyped, NEW p \in Pid, NEW type \in Type, NEW id \in Nat,
         NEW then \in {"idle", "capture", "copy"}, gen' \in [Pid -> Nat], AllocRecord(p, type, id, then)
  PROVE  /\ nextSeq' \in Nat /\ callback' \in [Pid -> Call]
         /\ \A q \in Pid \ {p} : callback'[q] = callback[q]
         /\ \/ /\ nextSeq' = nextSeq + 1 /\ lost' = lost /\ callback'[p].at = "push"
               /\ \E r \in Rec : /\ r = callback'[p].rec /\ r.seq = nextSeq + 1 /\ r.type = type
                                 /\ r.pid = p /\ r.id = id /\ r.gen = gen'[p]
            \/ /\ nextSeq' = nextSeq /\ callback'[p] = [Idle EXCEPT !.at = then] /\ callback'[p].at = then
               /\ lost' = IF type = "ProcessCreated" THEN lost \cup {gen'[p]} ELSE lost
<1> DEFINE r == [seq |-> nextSeq + 1, type |-> type, pid |-> p, id |-> id, gen |-> gen'[p]]
           c == [at |-> "push", then |-> then, rec |-> r]
           d == [Idle EXCEPT !.at = then]
<1>1. nextSeq \in Nat /\ callback \in [Pid -> Call]
  BY DEF RecordsTyped
<1>2. r \in Rec /\ c \in Call
  BY <1>1 DEF Rec, Call
<1>3. d \in Call /\ d.at = then
  BY DEF Call, Idle
<1>4. \/ nextSeq' = nextSeq + 1 /\ callback' = [callback EXCEPT ![p] = c] /\ lost' = lost
      \/ /\ callback' = [callback EXCEPT ![p] = d] /\ nextSeq' = nextSeq
         /\ lost' = IF type = "ProcessCreated" THEN lost \cup {gen'[p]} ELSE lost
  BY DEF AllocRecord
<1>5. c.at = "push" /\ c.rec = r /\ r.seq = nextSeq + 1 /\ r.type = type /\ r.pid = p /\ r.id = id /\ r.gen = gen'[p]
  OBVIOUS
<1>6. [Idle EXCEPT !.at = then] = d
  OBVIOUS
<1> HIDE DEF r, c, d
<1>7. CASE nextSeq' = nextSeq + 1 /\ callback' = [callback EXCEPT ![p] = c] /\ lost' = lost
  <2>1. /\ callback'[p] = c /\ \A q \in Pid \ {p} : callback'[q] = callback[q]
        /\ callback' \in [Pid -> Call]
    BY <1>1, <1>2, <1>7
  <2>2. QED
    BY <1>1, <1>2, <1>5, <1>7, <2>1
<1>8. CASE /\ callback' = [callback EXCEPT ![p] = d] /\ nextSeq' = nextSeq
           /\ lost' = IF type = "ProcessCreated" THEN lost \cup {gen'[p]} ELSE lost
  <2>1. /\ callback'[p] = d /\ \A q \in Pid \ {p} : callback'[q] = callback[q]
        /\ callback' \in [Pid -> Call]
    BY <1>1, <1>3, <1>8
  <2>2. QED
    BY <1>1, <1>3, <1>6, <1>8, <2>1
<1>9. QED
  BY <1>4, <1>7, <1>8

\* A step that leaves every record where it is.
LEMMA QuietStep ==
  ASSUME RecInv, RecordsTyped', Known', event' \in {event, NoEvent},
         UNCHANGED <<queue, batch, nextSeq, overwritten, stopped, walked, names, born>>, lost \subseteq lost',
         \A p \in Pid : /\ callback'[p].at = "push" <=> callback[p].at = "push"
                        /\ callback[p].at = "push" => callback'[p].rec = callback[p].rec
                        /\ gen'[p] = gen[p] \/ (gen'[p] = 0 /\ proc'[p] = "none")
                        /\ proc'[p] # "none" => proc[p] # "none"
  PROVE  RecInv'
<1>1. Places' /\ Records' = Records
  BY SamePlaces DEF RecInv
<1>2. Holders' /\ Names'
  BY <1>1, FewerTruth DEF RecInv, Truth, Places
<1>3. AttributionTrue'
  BY <1>1 DEF RecInv, Truth, AttributionTrue, NoEvent
<1>4. QED
  BY <1>1, <1>2, <1>3 DEF RecInv, Truth

\* A callback of a process that exists draws a record, or has no memory for it.
LEMMA EventStep ==
  ASSUME RecInv, NEW p \in Pid, NEW type \in Type \ {"ProcessCreated"},
         NEW then \in {"idle", "capture", "copy"}, UNCHANGED gen, AllocRecord(p, type, idents[p], then),
         callback[p].at # "push", proc[p] # "none", proc'[p] # "none",
         \A q \in Pid \ {p} : proc'[q] = proc[q] /\ idents'[q] = idents[q],
         proc' \in [Pid -> {"none", "starting", "running", "exited"}], idents' \in [Pid -> Nat],
         idents'[p] \in {0, idents[p]}, proc'[p] = "exited" => idents'[p] = 0,
         UNCHANGED <<queue, batch, overwritten, stopped, walked, names, event, born>>
  PROVE  RecInv'
<1>0. RecordsTyped /\ Places /\ Known /\ Holders /\ Names /\ AttributionTrue
  BY DEF RecInv, Truth
<1>1. gen' \in [Pid -> Nat] /\ idents[p] \in Nat /\ type \in Type /\ type # "ProcessCreated"
  BY <1>0 DEF RecordsTyped
<1>2. /\ nextSeq' \in Nat /\ callback' \in [Pid -> Call]
      /\ \A q \in Pid \ {p} : callback'[q] = callback[q]
      /\ \/ /\ nextSeq' = nextSeq + 1 /\ lost' = lost /\ callback'[p].at = "push"
            /\ \E r \in Rec : /\ r = callback'[p].rec /\ r.seq = nextSeq + 1 /\ r.type = type
                              /\ r.pid = p /\ r.id = idents[p] /\ r.gen = gen'[p]
         \/ nextSeq' = nextSeq /\ callback'[p].at = then /\ lost' = lost
  BY <1>0, <1>1, Allocated
<1>3. RecordsTyped'
  BY <1>0, <1>2 DEF RecordsTyped
<1>4. Known'
  <2>1. ASSUME NEW q \in Pid
        PROVE  /\ idents'[q] \in {0, gen'[q]}
               /\ proc'[q] \in {"none", "exited"} => idents'[q] = 0
               /\ callback'[q].at # "idle" => proc'[q] # "none"
    <3>1. CASE q = p
      BY <1>0, <3>1 DEF Known
    <3>2. CASE q # p
      BY <1>0, <1>2, <3>2 DEF Known
    <3>3. QED
      BY <3>1, <3>2
  <2>2. QED
    BY <2>1 DEF Known
<1>5. CASE nextSeq' = nextSeq + 1 /\ lost' = lost /\ callback'[p].at = "push"
  <2>1. PICK r \in Rec : /\ r = callback'[p].rec /\ r.seq = nextSeq + 1 /\ r.type = type
                         /\ r.pid = p /\ r.id = idents[p] /\ r.gen = gen[p]
    BY <1>0, <1>2, <1>5 DEF RecordsTyped
  <2>2. Places' /\ Records' = Records \cup {r}
    BY <1>0, <1>2, <1>5, <2>1, DrawPlaces
  <2>3. ~ IsStart(r)
    BY <2>1 DEF IsStart
  <2>4. \A q \in Pid : proc'[q] # "none" => proc[q] # "none"
    OBVIOUS
  <2>5. Holders' /\ Names'
    BY <1>0, <1>5, <2>1, <2>2, <2>3, <2>4, DrawTruth DEF Places
  <2>6. AttributionTrue'
    BY <1>0, <1>5, <2>1, <2>2 DEF AttributionTrue, Known
  <2>7. QED
    BY <1>3, <1>4, <2>2, <2>5, <2>6 DEF RecInv, Truth
<1>6. CASE nextSeq' = nextSeq /\ callback'[p].at = then /\ lost' = lost
  <2>1. \A q \in Pid : /\ callback'[q].at = "push" <=> callback[q].at = "push"
                       /\ callback[q].at = "push" => callback'[q].rec = callback[q].rec
                       /\ proc'[q] # "none" => proc[q] # "none"
    BY <1>2, <1>6
  <2>2. QED
    BY <1>3, <1>4, <1>6, <2>1, QuietStep
<1>7. QED
  BY <1>0, <1>2, <1>5, <1>6 DEF RecordsTyped

LEMMA ProcessCreateStep ==
  ASSUME RecInv, NEW p \in Pid, ProcessCreate(p)
  PROVE  RecInv'
<1>0. RecordsTyped /\ Places /\ Known /\ Holders /\ Names /\ AttributionTrue
  BY DEF RecInv, Truth
<1>1. /\ proc[p] = "none" /\ callback[p] = Idle /\ born' = born + 1
      /\ gen' = [gen EXCEPT ![p] = born + 1]
      /\ AllocRecord(p, "ProcessCreated", 0, "idle")
      /\ UNCHANGED <<queue, batch, overwritten, stopped, walked, names, event>>
  BY DEF ProcessCreate, agent
<1>2. /\ gen' \in [Pid -> Nat] /\ born + 1 \in Nat /\ born' \in Nat /\ gen'[p] = born + 1
      /\ \A q \in Pid \ {p} : gen'[q] = gen[q]
      /\ "ProcessCreated" \in Type /\ callback[p].at = "idle" /\ idents[p] = 0
  BY <1>0, <1>1 DEF RecordsTyped, Type, Idle, Known
<1>3. /\ nextSeq' \in Nat /\ callback' \in [Pid -> Call]
      /\ \A q \in Pid \ {p} : callback'[q] = callback[q]
      /\ \/ /\ nextSeq' = nextSeq + 1 /\ lost' = lost /\ callback'[p].at = "push"
            /\ \E r \in Rec : /\ r = callback'[p].rec /\ r.seq = nextSeq + 1 /\ r.type = "ProcessCreated"
                              /\ r.pid = p /\ r.id = 0 /\ r.gen = born + 1
         \/ /\ nextSeq' = nextSeq /\ callback'[p] = [Idle EXCEPT !.at = "idle"] /\ callback'[p].at = "idle"
            /\ lost' = lost \cup {born + 1}
  BY <1>0, <1>1, <1>2, Allocated
<1>4. /\ idents' \in [Pid -> Nat] /\ idents'[p] \in {0, born + 1}
      /\ \A q \in Pid \ {p} : idents'[q] = idents[q]
  <2>1. idents' \in {idents, [idents EXCEPT ![p] = born + 1]}
    BY DEF ProcessCreate, Insert
  <2>2. QED
    BY <1>0, <1>2, <2>1 DEF RecordsTyped
<1>5. /\ proc' \in [Pid -> {"none", "starting", "running", "exited"}]
      /\ proc'[p] \in {"starting", "running"} /\ \A q \in Pid \ {p} : proc'[q] = proc[q]
  BY <1>0 DEF ProcessCreate, RecordsTyped
<1>6. RecordsTyped'
  BY <1>0, <1>1, <1>2, <1>3, <1>4, <1>5 DEF RecordsTyped
<1>7. Known'
  BY <1>0, <1>2, <1>3, <1>4, <1>5 DEF Known
<1>8. CASE nextSeq' = nextSeq + 1 /\ lost' = lost /\ callback'[p].at = "push"
  <2>1. PICK r \in Rec : /\ r = callback'[p].rec /\ r.seq = nextSeq + 1 /\ r.type = "ProcessCreated"
                         /\ r.pid = p /\ r.id = 0 /\ r.gen = born + 1
    BY <1>0, <1>3, <1>8 DEF RecordsTyped
  <2>2. Places' /\ Records' = Records \cup {r}
    BY <1>0, <1>1, <1>2, <1>3, <1>8, <2>1, DrawPlaces
  <2>3. Holders' /\ Names'
    BY <1>0, <1>1, <1>5, <1>8, <2>1, <2>2, StartTruth DEF Places, IsStart
  <2>4. AttributionTrue'
    BY <1>0, <1>1, <1>8, <2>1, <2>2 DEF AttributionTrue
  <2>5. QED
    BY <1>6, <1>7, <2>2, <2>3, <2>4 DEF RecInv, Truth
<1>9. CASE nextSeq' = nextSeq /\ callback'[p].at = "idle" /\ lost' = lost \cup {born + 1}
  <2>1. Places' /\ Records' = Records
    BY <1>0, <1>1, <1>2, <1>3, <1>9, SamePlaces
  <2>2. Holders' /\ Names'
    BY <1>0, <1>1, <1>5, <1>9, <2>1, StartTruth DEF Places
  <2>3. AttributionTrue'
    BY <1>0, <1>1, <1>9, <2>1 DEF AttributionTrue
  <2>4. QED
    BY <1>6, <1>7, <2>1, <2>2, <2>3 DEF RecInv, Truth
<1>10. QED
  BY <1>3, <1>8, <1>9

LEMMA CallbackPushStep ==
  ASSUME RecInv, NEW p \in Pid, CallbackPush(p)
  PROVE  RecInv'
<1> DEFINE r == callback[p].rec
           d == [Idle EXCEPT !.at = callback[p].then]
           k == ClassOf(r.type)
<1>0. RecordsTyped /\ Places /\ Known /\ Holders /\ Names /\ AttributionTrue
  BY DEF RecInv, Truth
<1>1. /\ callback[p].at = "push" /\ callback' = [callback EXCEPT ![p] = d]
      /\ UNCHANGED <<gen, born, idents, nextSeq, batch, names, event, walked>>
      /\ proc' = IF r.type = "ProcessCreated" THEN [proc EXCEPT ![p] = "running"] ELSE proc
      /\ IF r.type = "DropCaptured" THEN PushDropRecord(r) ELSE Push(r)
  BY DEF CallbackPush, agent
<1>2. d \in Call /\ d.at # "push"
  BY <1>0 DEF Call, Idle, RecordsTyped
<1>3. r = callback[p].rec /\ k = ClassOf(r.type)
  OBVIOUS
<1> HIDE DEF d
<1>4. /\ callback' \in [Pid -> Call] /\ callback'[p].at # "push"
      /\ \A o \in Pid \ {p} : callback'[o] = callback[o]
  BY <1>0, <1>1, <1>2 DEF RecordsTyped
<1>5. r \in Rec /\ r \in Records /\ r.pid = p /\ r.type \in Type /\ proc[p] # "none"
  <2>1. InHand(r)
    BY <1>1 DEF InHand
  <2>2. QED
    BY <1>0, <1>1, <2>1, Where DEF Places, OnePlace, Known, Rec
<1> HIDE DEF r
<1>6. /\ proc' \in [Pid -> {"none", "starting", "running", "exited"}]
      /\ \A o \in Pid : proc'[o] = proc[o] \/ (proc[o] # "none" /\ proc'[o] = "running")
  BY <1>0, <1>1, <1>5 DEF RecordsTyped
<1>7. Known'
  <2>1. ASSUME NEW o \in Pid
        PROVE  /\ idents'[o] \in {0, gen'[o]}
               /\ proc'[o] \in {"none", "exited"} => idents'[o] = 0
               /\ callback'[o].at # "idle" => proc'[o] # "none"
    <3>1. CASE o = p
      BY <1>0, <1>1, <1>5, <1>6, <3>1 DEF Known
    <3>2. CASE o # p
      BY <1>0, <1>1, <1>4, <1>6, <3>2 DEF Known
    <3>3. QED
      BY <3>1, <3>2
  <2>2. QED
    BY <2>1 DEF Known
<1>8. \A o \in Pid : proc'[o] # "none" => proc[o] # "none"
  BY <1>6
<1>9. ASSUME RecordsTyped', Places', Records' \subseteq Records, lost \subseteq lost',
             \A x \in Records : IsStart(x) /\ x \notin Records' => x.gen \in lost'
      PROVE  RecInv'
  <2>1. Holders' /\ Names'
    BY <1>0, <1>1, <1>8, <1>9, FewerTruth DEF Places
  <2>2. AttributionTrue'
    BY <1>0, <1>1, <1>9 DEF AttributionTrue
  <2>3. QED
    BY <1>7, <1>9, <2>1, <2>2 DEF RecInv, Truth
\* A drop: refused when its queue is full.
<1>10. CASE r.type = "DropCaptured" /\ Len(queue["drops"]) = Capacity["drops"]
  <2>1. UNCHANGED <<queue, overwritten, lost>> /\ stopped' = stopped + 1
    BY <1>1, <1>10 DEF PushDropRecord
  <2>2. RecordsTyped'
    BY <1>0, <1>1, <1>4, <1>6, <2>1 DEF RecordsTyped
  <2>3. Places' /\ Records' = Records \ {r}
    BY <1>0, <1>1, <1>4, <2>1, RefusePlaces DEF r
  <2>4. ~ IsStart(r)
    BY <1>10 DEF IsStart
  <2>5. QED
    BY <1>9, <2>1, <2>2, <2>3, <2>4
<1>11. k \in Class /\ queue[k] \in Seq(Rec) /\ IsInjective(queue[k])
  <2>1. k \in Class
    BY <1>5, Classes
  <2>2. QED
    BY <1>0, <2>1 DEF RecordsTyped, Places, OnePlace
<1> HIDE DEF k
\* There is room.
<1>12. CASE queue' = [queue EXCEPT ![k] = Append(queue[k], r)] /\ UNCHANGED <<overwritten, stopped, lost>>
  <2>1. OnePlace' /\ Ordered' /\ Records' = Records \ (ToSet(queue[k]) \ ToSet(queue[k]))
    <3>1. UNCHANGED <<batch, nextSeq>> /\ callback[p].at = "push"
      BY <1>1
    <3>2. QED
      BY <1>0, <1>3, <1>4, <1>11, <1>12, <3>1, PushPlaces
  <2>2. Records' = Records
    BY <2>1
  <2>3. Places'
    BY <1>0, <1>1, <1>12, <2>1, <2>2 DEF Places, NoSilentLoss
  <2>4. RecordsTyped'
    <3>1. queue' \in [Class -> Seq(Rec)]
      BY <1>0, <1>5, <1>11, <1>12, Appended DEF RecordsTyped
    <3>2. QED
      BY <1>0, <1>1, <1>4, <1>6, <1>12, <3>1 DEF RecordsTyped
  <2>5. QED
    BY <1>9, <1>12, <2>2, <2>3, <2>4
\* A full queue loses its oldest record.
<1>13. CASE /\ queue[k] # <<>> /\ queue' = [queue EXCEPT ![k] = Append(Tail(queue[k]), r)]
            /\ overwritten' = overwritten + 1 /\ UNCHANGED stopped
            /\ lost' = IF Head(queue[k]).type = "ProcessCreated" THEN lost \cup {Head(queue[k]).gen} ELSE lost
  <2> DEFINE h == Head(queue[k])
             b == Tail(queue[k])
  <2>1. /\ b \in Seq(Rec) /\ IsInjective(b) /\ ToSet(b) = ToSet(queue[k]) \ {h}
        /\ h \in ToSet(queue[k])
    BY <1>11, <1>13, Shifted
  <2>2. OrderedSeq(queue[k]) => OrderedSeq(b)
    BY <1>11, <1>13, TailOrdered
  <2>3. queue' = [queue EXCEPT ![k] = Append(b, r)]
    BY <1>13
  <2>4. lost' = IF IsStart(h) THEN lost \cup {h.gen} ELSE lost
    BY <1>13 DEF IsStart
  <2> HIDE DEF h, b
  <2>5. OnePlace' /\ Ordered' /\ Records' = Records \ (ToSet(queue[k]) \ ToSet(b))
    <3>1. UNCHANGED <<batch, nextSeq>> /\ callback[p].at = "push"
      BY <1>1
    <3>2. b \in Seq(Rec) /\ IsInjective(b) /\ ToSet(b) \subseteq ToSet(queue[k])
      BY <2>1
    <3>3. QED
      BY <1>0, <1>3, <1>4, <1>11, <2>2, <2>3, <3>1, <3>2, PushPlaces
  <2>6. Records' = Records \ {h} /\ h \in Records
    BY <1>11, <2>1, <2>5, Where DEF Queued
  <2>7. Places'
    BY <1>0, <1>1, <1>13, <2>5, <2>6, LeaveCounted
  <2>8. RecordsTyped'
    <3>1. queue' \in [Class -> Seq(Rec)]
      BY <1>0, <1>5, <1>11, <2>1, <2>3, Appended DEF RecordsTyped
    <3>2. QED
      BY <1>0, <1>1, <1>4, <1>6, <1>13, <3>1 DEF RecordsTyped
  <2>9. QED
    BY <1>9, <2>4, <2>6, <2>7, <2>8
<1>14. CASE r.type = "DropCaptured" /\ Len(queue["drops"]) # Capacity["drops"]
  <2>1. queue' = [queue EXCEPT !["drops"] = Append(@, r)] /\ UNCHANGED <<overwritten, stopped, lost>>
    BY <1>1, <1>14 DEF PushDropRecord
  <2>2. k = "drops"
    BY <1>14, Classes DEF k
  <2>3. QED
    BY <1>12, <2>1, <2>2
<1>15. CASE r.type # "DropCaptured"
  <2>1. Push(r)
    BY <1>1, <1>15
  <2>2. CASE Len(queue[k]) = Capacity[k]
    <3>1. queue[k] # <<>>
      BY <1>11, <2>2, Classes, DriverAssumption
    <3>2. QED
      BY <1>13, <2>1, <2>2, <3>1 DEF Push, k
  <2>3. CASE Len(queue[k]) # Capacity[k]
    BY <1>12, <2>1, <2>3 DEF Push, k
  <2>4. QED
    BY <2>2, <2>3
<1>16. QED
  BY <1>10, <1>14, <1>15

LEMMA CallbackStep ==
  ASSUME RecInv, NEW p \in Pid, Callback(p)
  PROVE  RecInv'
<1>0. RecordsTyped /\ Known
  BY DEF RecInv, Truth
<1>1. \A q \in Pid : idents[q] \in Nat /\ (proc[q] = "exited" => idents[q] = 0)
  BY <1>0 DEF RecordsTyped, Known
<1>2. Idle.at = "idle" /\ Idle \in Call
  BY DEF Idle, Call
<1>3. {"ProcessExited", "Thread", "FileWritten", "FileCleanedUp", "DropCaptured"} \subseteq Type \ {"ProcessCreated"}
  BY DEF Type
<1>4. CASE ProcessExit(p)
  <2>1. /\ proc[p] = "running" /\ callback[p] = Idle /\ UNCHANGED gen
        /\ proc' = [proc EXCEPT ![p] = "exited"] /\ idents' = [idents EXCEPT ![p] = 0]
        /\ AllocRecord(p, "ProcessExited", idents[p], "idle")
        /\ UNCHANGED <<queue, batch, overwritten, stopped, walked, names, event, born>>
    BY <1>4 DEF ProcessExit, agent
  <2>2. /\ proc' \in [Pid -> {"none", "starting", "running", "exited"}] /\ idents' \in [Pid -> Nat]
        /\ proc'[p] = "exited" /\ idents'[p] = 0
        /\ \A q \in Pid \ {p} : proc'[q] = proc[q] /\ idents'[q] = idents[q]
    BY <1>0, <2>1 DEF RecordsTyped
  <2>3. QED
    BY <1>2, <1>3, <2>1, <2>2, EventStep
<1>5. CASE ProcessGone(p)
  <2>1. /\ proc[p] = "exited" /\ callback[p] = Idle
        /\ proc' = [proc EXCEPT ![p] = "none"] /\ gen' = [gen EXCEPT ![p] = 0]
        /\ UNCHANGED <<idents, callback, queue, batch, nextSeq, overwritten, stopped, walked, names, event, born, lost>>
    BY <1>5 DEF ProcessGone, agent
  <2>2. RecordsTyped'
    BY <1>0, <2>1 DEF RecordsTyped
  <2>3. /\ proc'[p] = "none" /\ gen'[p] = 0
        /\ \A q \in Pid \ {p} : proc'[q] = proc[q] /\ gen'[q] = gen[q]
    BY <1>0, <2>1 DEF RecordsTyped
  <2>4. Known'
    BY <1>0, <1>1, <1>2, <2>1, <2>3 DEF Known
  <2>5. QED
    BY <2>1, <2>2, <2>3, <2>4, QuietStep
\* Callbacks that leave the processes and the table alone.
<1>6. ASSUME NEW type \in Type \ {"ProcessCreated"}, NEW then \in {"idle", "capture", "copy"},
             AllocRecord(p, type, idents[p], then), callback[p].at # "push", proc[p] # "none",
             UNCHANGED <<gen, proc, idents, queue, batch, overwritten, stopped, walked, names, event, born>>
      PROVE  RecInv'
  <2>1. /\ proc' \in [Pid -> {"none", "starting", "running", "exited"}] /\ idents' \in [Pid -> Nat]
    BY <1>0, <1>6 DEF RecordsTyped
  <2>2. QED
    BY <1>1, <1>6, <2>1, EventStep
<1>7. CASE ControlEvent(p)
  BY <1>2, <1>3, <1>6, <1>7 DEF ControlEvent, agent
<1>8. CASE PostWrite(p)
  BY <1>2, <1>3, <1>6, <1>8 DEF PostWrite, agent
<1>9. CASE PostCleanup(p)
  BY <1>2, <1>3, <1>6, <1>9 DEF PostCleanup, agent
\* The capture and the copy that find nothing to do.
<1>10. ASSUME callback[p].at \in {"capture", "copy"}, callback' = [callback EXCEPT ![p] = Idle],
              UNCHANGED <<gen, proc, idents, queue, batch, nextSeq, overwritten, stopped, walked, names, event, born, lost>>
       PROVE  RecInv'
  <2>1. /\ callback' \in [Pid -> Call] /\ callback'[p] = Idle
        /\ \A q \in Pid \ {p} : callback'[q] = callback[q]
    BY <1>0, <1>2, <1>10 DEF RecordsTyped
  <2>2. RecordsTyped'
    BY <1>0, <1>10, <2>1 DEF RecordsTyped
  <2>3. Known'
    BY <1>0, <1>2, <1>10, <2>1 DEF Known
  <2>4. \A q \in Pid : /\ callback'[q].at = "push" <=> callback[q].at = "push"
                       /\ callback[q].at = "push" => callback'[q].rec = callback[q].rec
    BY <1>2, <1>10, <2>1
  <2>5. QED
    BY <1>10, <2>2, <2>3, <2>4, QuietStep
<1>11. callback[p].at \in {"capture", "copy"} => callback[p].at # "push" /\ proc[p] # "none"
  BY <1>0 DEF Known
<1>12. CASE TryCaptureDrop(p)
  <2>1. /\ callback[p].at = "capture"
        /\ UNCHANGED <<gen, proc, idents, queue, batch, overwritten, stopped, walked, names, event, born>>
        /\ \/ AllocRecord(p, "DropCaptured", idents[p], "idle")
           \/ callback' = [callback EXCEPT ![p] = Idle] /\ UNCHANGED <<nextSeq, lost>>
    BY <1>12 DEF TryCaptureDrop, agent
  <2>2. QED
    BY <1>3, <1>6, <1>10, <1>11, <2>1
<1>13. CASE TryCleanupCopy(p)
  <2>1. /\ callback[p].at = "copy"
        /\ UNCHANGED <<gen, proc, idents, queue, batch, overwritten, stopped, walked, names, event, born>>
        /\ \/ AllocRecord(p, "DropCaptured", idents[p], "idle")
           \/ callback' = [callback EXCEPT ![p] = Idle] /\ UNCHANGED <<nextSeq, lost>>
    BY <1>13 DEF TryCleanupCopy, agent
  <2>2. QED
    BY <1>3, <1>6, <1>10, <1>11, <2>1
<1>14. QED
  BY <1>4, <1>5, <1>7, <1>8, <1>9, <1>12, <1>13, ProcessCreateStep, CallbackPushStep DEF Callback

\* What the agent does with its drain, its batch and its names.
LEMMA DrainStep ==
  ASSUME RecInv, AgentDrain
  PROVE  RecInv'
<1>0. RecordsTyped /\ Places /\ Known /\ Holders /\ Names /\ AttributionTrue
  BY DEF RecInv, Truth
<1>1. ASSUME UNCHANGED <<driver, batch, names, walked, lost>>, event' \in {event, NoEvent}
      PROVE  RecInv'
  <2>1. RecordsTyped' /\ Known'
    BY <1>0, <1>1 DEF RecordsTyped, Known, driver, NoEvent
  <2>2. QED
    BY <1>1, <2>1, QuietStep DEF driver
<1>2. CASE OpenSource \/ (\E i \in 1 .. 3 : ReadHead(i)) \/ DrainReturns \/ NextDrain
  BY <1>1, <1>2 DEF OpenSource, ReadHead, DrainReturns, NextDrain
<1>3. ASSUME NEW c \in Class, PopFrom(c)
      PROVE  RecInv'
  <2>1. /\ queue[c] # <<>> /\ batch' = Append(batch, Head(queue[c])) /\ queue' = [queue EXCEPT ![c] = Tail(@)]
        /\ UNCHANGED <<proc, gen, born, idents, callback, nextSeq, overwritten, stopped, names, event, walked, lost>>
    BY <1>3 DEF PopFrom, Fits
  <2>2. Places' /\ Records' = Records
    BY <1>0, <2>1, PopPlaces
  <2>3. batch' \in Seq(Rec) /\ queue' \in [Class -> Seq(Rec)]
    <3>1. queue[c] \in Seq(Rec) /\ batch \in Seq(Rec) /\ IsInjective(queue[c])
      BY <1>0 DEF RecordsTyped, Places, OnePlace
    <3>2. Head(queue[c]) \in Rec /\ Tail(queue[c]) \in Seq(Rec)
      BY <2>1, <3>1, Shifted
    <3>3. QED
      BY <1>0, <2>1, <3>1, <3>2 DEF RecordsTyped
  <2>4. RecordsTyped'
    BY <1>0, <2>1, <2>3 DEF RecordsTyped
  <2>5. Known' /\ AttributionTrue'
    BY <1>0, <2>1, <2>2 DEF Known, AttributionTrue
  <2>6. Holders' /\ Names'
    BY <1>0, <2>1, <2>2, FewerTruth DEF Places
  <2>7. QED
    BY <2>2, <2>4, <2>5, <2>6 DEF RecInv, Truth
<1>4. ASSUME batch # <<>>, batch' = Tail(batch)
      PROVE  batch \in Seq(Rec) /\ batch' \in Seq(Rec) /\ Head(batch) \in ToSet(batch) /\ Head(batch) \in Rec
  <2>1. batch \in Seq(Rec) /\ IsInjective(batch)
    BY <1>0 DEF RecordsTyped, Places, OnePlace
  <2>2. QED
    BY <1>4, <2>1, Shifted
<1>5. CASE HandOver
  <2>1. /\ batch # <<>> /\ batch' = Tail(batch) /\ walked' = walked + 1 /\ MapRecord(Head(batch))
        /\ UNCHANGED <<proc, gen, born, idents, callback, nextSeq, queue, overwritten, stopped, lost>>
    BY <1>5 DEF HandOver, driver
  <2>2. Places' /\ Records' = Records \ {Head(batch)} /\ Head(batch) \in Records
    BY <1>0, <2>1, HeadPlaces
  <2>3. names' \in [Pid -> Nat] /\ event' \in [of : Nat, name : Nat]
    <3> DEFINE h == Head(batch)
    <3>1. h \in Rec /\ MapRecord(h)
      BY <1>4, <2>1
    <3> HIDE DEF h
    <3>2. h.pid \in Pid /\ h.gen \in Nat
      BY <3>1 DEF Rec
    <3>3. Remembered(h.pid, h.gen) \in [Pid -> Nat] /\ names[h.pid] \in Nat /\ names \in [Pid -> Nat]
      BY <1>0, <3>2, RememberedNames DEF RecordsTyped
    <3>4. QED
      BY <3>1, <3>2, <3>3 DEF MapRecord, NoEvent
  <2>4. RecordsTyped'
    BY <1>0, <1>4, <2>1, <2>3 DEF RecordsTyped
  <2>5. Holders' /\ Names' /\ (event'.name \in {0, event'.of} \/ event'.of \in lost)
    BY <1>0, <2>1, <2>2, HandTruth
  <2>6. Known' /\ AttributionTrue'
    BY <1>0, <2>1, <2>2, <2>5 DEF Known, AttributionTrue
  <2>7. QED
    BY <2>2, <2>4, <2>5, <2>6 DEF RecInv, Truth
<1>6. ASSUME NEW recs, lost' = lost \cup LostOf(recs), Places', RecordsTyped', Records' = Records \ ToSet(recs),
             UNCHANGED <<driver, names, event>>
      PROVE  RecInv'
  <2>1. \A x \in Records : IsStart(x) /\ x \notin Records' => x.gen \in lost'
    BY <1>6 DEF LostOf, ToSet, IsStart
  <2>2. Holders' /\ Names'
    BY <1>0, <1>6, <2>1, FewerTruth DEF Places, driver
  <2>3. Known' /\ AttributionTrue'
    BY <1>0, <1>6 DEF Known, AttributionTrue, driver
  <2>4. QED
    BY <1>6, <2>2, <2>3 DEF RecInv, Truth
<1>7. CASE SkipRecord
  <2> DEFINE one == SubSeq(batch, 1, 1)
  <2>1. batch # <<>> /\ batch \in Seq(Rec)
    BY <1>0, <1>7 DEF SkipRecord, Skip, RecordsTyped
  <2>2. Len(one) = 1 /\ one[1] = batch[1] /\ DOMAIN one = {1} /\ Head(batch) = batch[1]
    BY <2>1
  <2>3. SubSeq(batch, 2, Len(batch)) = Tail(batch)
    BY <2>1
  <2>4. /\ batch' = SubSeq(batch, Len(one) + 1, Len(batch)) /\ walked' = walked + Len(one)
        /\ lost' = lost \cup LostOf(one) /\ UNCHANGED <<driver, names, event>>
    BY <1>7 DEF SkipRecord, Skip
  <2> HIDE DEF one
  <2>5. batch' = Tail(batch) /\ walked' = walked + 1 /\ ToSet(one) = {Head(batch)}
    BY <2>2, <2>3, <2>4 DEF ToSet
  <2>6. Places' /\ Records' = Records \ {Head(batch)}
    BY <1>0, <2>1, <2>4, <2>5, HeadPlaces DEF driver
  <2>7. RecordsTyped'
    BY <1>0, <1>4, <2>1, <2>4, <2>5 DEF RecordsTyped, driver
  <2>8. QED
    BY <1>6, <2>4, <2>5, <2>6, <2>7
<1>8. CASE DropRemainder
  <2>1. batch \in Seq(Rec) /\ Len(batch) \in Nat
    BY <1>0 DEF RecordsTyped
  <2>2. SubSeq(batch, Len(batch) + 1, Len(batch)) = <<>>
    BY <2>1
  <2>3. /\ batch' = <<>> /\ walked' = walked + Len(batch)
        /\ lost' = lost \cup LostOf(batch) /\ UNCHANGED <<driver, names, event>>
    BY <1>8, <2>2 DEF DropRemainder, Skip
  <2>4. Places' /\ Records' = Records \ ToSet(batch)
    BY <1>0, <2>3, RestPlaces DEF driver
  <2>5. RecordsTyped'
    BY <1>0, <2>1, <2>3 DEF RecordsTyped, driver
  <2>6. QED
    BY <1>6, <2>3, <2>4, <2>5
<1>9. QED
  BY <1>2, <1>3, <1>5, <1>7, <1>8 DEF AgentDrain
-----------------------------------------------------------------------------
(* The theorems                                                            *)

\* The invariant the theorems rest on holds initially and through every step.
THEOREM RecordsInvariant == Spec => []RecInv
<1>1. Init => RecInv
  <2>1. SUFFICES ASSUME Init
                 PROVE  RecInv
    OBVIOUS
  <2>2. Records = {}
    BY <2>1 DEF Init, Records, Idle
  <2>3. RecordsTyped
    BY <2>1 DEF Init, RecordsTyped, Call, Idle, NoEvent
  <2>4. OnePlace /\ Ordered
    BY <2>1, <2>2, Classes DEF Init, OnePlace, Ordered, ToSet, IsInjective, Idle
  <2>5. IsFiniteSet(Records) /\ NoSilentLoss
    BY <2>1, <2>2, FS_EmptySet DEF Init, NoSilentLoss
  <2>6. Known /\ Holders /\ Names
    BY <2>1, <2>2 DEF Init, Known, Holders, Names, Idle
  <2>7. AttributionTrue
    BY <2>1, <2>2 DEF Init, AttributionTrue, NoEvent
  <2>8. QED
    BY <2>3, <2>4, <2>5, <2>6, <2>7 DEF RecInv, Places, Truth
<1>2. RecInv /\ [Next]_vars => RecInv'
  <2>1. SUFFICES ASSUME RecInv, [Next]_vars
                 PROVE  RecInv'
    OBVIOUS
  <2>2. ASSUME UNCHANGED <<driver, agent, lost>>
        PROVE  RecInv'
    <3>1. RecordsTyped' /\ Known'
      BY <2>1, <2>2 DEF RecInv, Truth, RecordsTyped, Known, driver, agent
    <3>2. QED
      BY <2>1, <2>2, <3>1, QuietStep DEF driver, agent
  <2>3. CASE PushPolicies
    BY <2>2, <2>3 DEF PushPolicies, OpenControl, CreateProtectedDir, CopySensor, VerifyCopy,
                      ApplyPolicies, SetFileWatch, PushNext
  <2>4. CASE UNCHANGED vars
    BY <2>2, <2>4 DEF vars
  <2>5. QED
    BY <2>1, <2>3, <2>4, DrainStep, CallbackStep DEF Next
<1>3. QED
  BY <1>1, <1>2, PTL DEF Spec

\* No silent loss: however the callbacks of any number of processes interleave
\* with the drain, every number AllocRecord drew belongs to a record on its way
\* or is in overwritten, stopped or the drain's count (Queue.h, TryDrain).
THEOREM RecordsCounted == Spec => []NoSilentLoss
<1>1. RecInv => NoSilentLoss
  BY DEF RecInv, Places
<1>2. QED
  BY <1>1, RecordsInvariant, PTL

\* Attribution is true or unknown for any recycling of pids and any size of the
\* identity table and of the name cache; a stop is given another process's name
\* only if its own ProcessCreated was lost.
THEOREM RecordsAttributed == Spec => []AttributionTrue
<1>1. RecInv => AttributionTrue
  BY DEF RecInv, Truth
<1>2. QED
  BY <1>1, RecordsInvariant, PTL
-----------------------------------------------------------------------------
(* The injected sensor and its ring                                        *)

EntryState == {"PendingThread", "PendingNtdll", "Ready", "Injected", "Registered", "Failed"}
Entry == [life : Life, state : EntryState, thread : BOOLEAN, base : {"none", "exe", "ntdll"},
          view : View \cup {NoView}, cursor : Nat]
Attempt == [life : Life, found : {"unknown", "gone", "failed", "queued"}]
Words == [seq : Nat, api : Nat, thread : Nat, args : Nat]
Mapped == [life : Life, active : BOOLEAN, write : Nat, dropped : Nat, overrun : SUBSET Slot,
           slot : [Slot -> Words]]
Emit == [pc : {"idle", "head", "args", "commit"}, claimed : Nat]
Pass == [pc : {"begin", "slot", "head", "args", "back"}, view : View, life : Life, cursor : Nat,
         end : Nat, taken : Nat, api : Nat, thread : Nat]
SensorPc == {"absent", "wild", "start", "idle", "challenge", "register", "wait", "active", "hooked"}

RingTyped ==
  /\ host \in [life : 0 .. Lives, alive : BOOLEAN]
  /\ ledger \in {NoEntry} \cup Entry
  /\ attempts \subseteq Attempt /\ apcs \in [Life -> Nat]
  /\ sensor \in [pc : SensorPc, tries : Nat] /\ device \in {"free", "sensor", "agent"}
  /\ views \in [View -> {Unmapped} \cup Mapped] /\ doomed \in View \cup {NoView}
  /\ emitter \in [Callers -> Emit]
  /\ drain \in {NoDrain} \cup Pass
  /\ IsFiniteSet(called) /\ (\A r \in called : r.ring \in Life /\ r.index \in Nat)
  /\ counted \in [Life -> Nat] /\ misled \subseteq Life

\* The entry is that of the process that lives, and everything else is of it
\* or of a process before it.
OfItsTime ==
  /\ ledger # NoEntry => host.alive /\ ledger.life = host.life
  /\ doomed # NoView => ~host.alive
  /\ \A a \in attempts : a.life <= host.life
  /\ \A v \in View : views[v].life <= host.life
  /\ drain # NoDrain => drain.life <= host.life
  /\ \A r \in called : r.ring <= host.life
  /\ \A l \in Life : host.life < l => apcs[l] = 0 /\ counted[l] = 0 /\ l \notin misled

\* The sensor runs in a process that was injected, has a ring once answered,
\* and shakes hands only while no drain has the device.
SensorPlaced ==
  /\ sensor.pc # "absent" => ledger # NoEntry /\ apcs[host.life] > 0
  /\ sensor.pc \in {"register", "wait", "active", "hooked"} => ledger.view # NoView
  /\ sensor.pc \in {"challenge", "register"} => device = "sensor"
  /\ drain # NoDrain => device = "agent"
  /\ \A c \in Callers : emitter[c].pc # "idle" => sensor.pc = "hooked"
  /\ \A v \in View : views[v].life # 0 => apcs[views[v].life] > 0

\* Where rings are: the entry's is mapped, and a drain still has the ring of
\* the process it took it from, or nothing.
RingsPlaced ==
  /\ ledger # NoEntry => IF ledger.view = NoView THEN ledger.cursor = 0
                         ELSE views[ledger.view].life = ledger.life
  /\ drain # NoDrain =>
       /\ views[drain.view].life \in {0, drain.life}
       /\ ledger # NoEntry /\ ledger.life = drain.life => ledger.view = drain.view
       /\ ledger # NoEntry /\ ledger.life = drain.life /\ drain.pc = "begin" => ledger.cursor = drain.cursor

\* An entry before its claim has neither attempt nor APC; after it, one
\* attempt, which becomes the APC or nothing.
ClaimedOnce ==
  /\ \A a \in attempts : a.found = "gone" => a.life < host.life \/ ~host.alive
  /\ \A l \in Life \ misled :
       /\ apcs[l] <= 1
       /\ \A a, b \in attempts : a.life = l /\ b.life = l => a = b
       /\ \A a \in attempts : a.life = l /\ a.found = "unknown" => apcs[l] = 0
       /\ ledger # NoEntry /\ ledger.life = l /\ ledger.state \in {"PendingThread", "PendingNtdll", "Ready"}
            => apcs[l] = 0 /\ \A a \in attempts : a.life # l

Of(l) == {r \in called : r.ring = l}

\* What is below the cursor was pushed or counted, and nothing else was.
Accounted ==
  ledger # NoEntry =>
    /\ Cardinality(Of(ledger.life)) + counted[ledger.life] = Reached
    /\ \A r \in Of(ledger.life) : r.index < Reached

\* A finished slot the cursor has not reached carries one call.
OneCall(ring, from) ==
  \A s \in Slot \ ring.overrun :
    ring.slot[s].seq > from => /\ ring.slot[s].api = ring.slot[s].seq
                               /\ ring.slot[s].thread = ring.slot[s].seq
                               /\ ring.slot[s].args = ring.slot[s].seq

\* A sequence is that of a call the slot was claimed for.
SeqSound(ring) ==
  \A s \in Slot : ring.slot[s].seq # 0 =>
    ring.slot[s].seq <= ring.write /\ SlotOf(ring.slot[s].seq - 1) = s

\* A slot that is not overrun was claimed no further than once around the
\* cursor.
OnceAround(ring, from) ==
  \A s \in Slot \ ring.overrun : \A i \in Nat : i < ring.write /\ SlotOf(i) = s => i < from + SlotCount

\* Claims are distinct; that of a slot not overrun is not yet drained while
\* somebody is at it, and has the words written so far.
ClaimsSound(ring, from, emits) ==
  \A c \in Callers : emits[c].pc # "idle" =>
    LET i == emits[c].claimed
        words == ring.slot[SlotOf(i)]
    IN /\ i < ring.write /\ words.seq # Mark(i)
       /\ \A d \in Callers : emits[d].pc # "idle" /\ emits[d].claimed = i => c = d
       /\ SlotOf(i) \notin ring.overrun =>
            /\ from <= i
            /\ emits[c].pc \in {"args", "commit"} => words.api = Mark(i) /\ words.thread = Mark(i)
            /\ emits[c].pc = "commit" => words.args = Mark(i)

RingSound(ring, from, emits) ==
  from <= ring.write /\ SeqSound(ring) /\ OnceAround(ring, from) /\ ClaimsSound(ring, from, emits) /\ OneCall(ring, from)

Live == ledger # NoEntry /\ ledger.view # NoView
LiveSound == Live => RingSound(views[ledger.view], Reached, emitter)

\* The drain's slot, once its sequence was seen, and the words taken from it.
DrainSound ==
  drain # NoDrain /\ views[drain.view] # Unmapped =>
    LET ring == views[drain.view]
        s == SlotOf(drain.cursor)
    IN /\ drain.pc # "begin" => drain.end <= ring.write
       /\ drain.pc \in {"head", "args"} => drain.cursor < drain.end
       /\ OneCall(ring, drain.cursor)
       /\ drain.pc \in {"head", "args"} /\ s \notin ring.overrun => ring.slot[s].seq = Mark(drain.cursor)
       /\ drain.pc = "args" /\ s \notin ring.overrun => drain.api = Mark(drain.cursor) /\ drain.thread = Mark(drain.cursor)

\* What was pushed.
PushedSound ==
  \A r \in called :
    /\ r.life = r.ring
    /\ r.lapped \/ (/\ r.ThreadId[2] = Mark(r.index) /\ r.Api[2] = Mark(r.index)
                    /\ r.Args = Mark(r.index))

RingInv ==
  /\ RingTyped /\ OfItsTime /\ SensorPlaced /\ RingsPlaced
  /\ ClaimedOnce /\ Accounted /\ LiveSound /\ DrainSound /\ PushedSound

-----------------------------------------------------------------------------
(* What the parts of the state look like                                   *)

LEMMA EntryFacts ==
  ASSUME RingTyped, ledger # NoEntry
  PROVE  /\ ledger \in Entry /\ ledger.life \in Life /\ ledger.state \in EntryState /\ ledger.thread \in BOOLEAN
         /\ ledger.base \in {"none", "exe", "ntdll"} /\ ledger.view \in View \cup {NoView} /\ ledger.cursor \in Nat
BY DEF RingTyped, Entry

LEMMA NotNoEntry ==
  ASSUME NEW e \in Entry
  PROVE  e # NoEntry
BY DEF Entry, NoEntry, EntryState

LEMMA PassFacts ==
  ASSUME RingTyped, drain # NoDrain
  PROVE  /\ drain \in Pass /\ drain.pc \in {"begin", "slot", "head", "args", "back"} /\ drain.view \in View
         /\ drain.life \in Life /\ drain.cursor \in Nat /\ drain.end \in Nat /\ drain.taken \in Nat
         /\ drain.api \in Nat /\ drain.thread \in Nat
BY DEF RingTyped, Pass

LEMMA NotNoDrain ==
  ASSUME NEW d, d \in Pass \/ d.pc # "idle"
  PROVE  d # NoDrain
BY DEF Pass, NoDrain

LEMMA RingFacts ==
  ASSUME RingTyped, NEW v \in View
  PROVE  /\ views[v] \in {Unmapped} \cup Mapped /\ views[v].life \in Nat
         /\ views[v] = Unmapped <=> views[v].life = 0
         /\ views[v].life # 0 =>
              /\ views[v] \in Mapped /\ views[v].life \in Life /\ views[v].active \in BOOLEAN
              /\ views[v].write \in Nat /\ views[v].dropped \in Nat /\ views[v].overrun \in SUBSET Slot
              /\ views[v].slot \in [Slot -> Words]
<1>1. views[v] \in {Unmapped} \cup Mapped
  BY DEF RingTyped
<1>2. CASE views[v] = Unmapped
  BY <1>1, <1>2 DEF Unmapped
<1>3. CASE views[v] \in Mapped
  <2>1. views[v].life \in Life
    BY <1>3 DEF Mapped
  <2>2. views[v].life \in Nat /\ views[v].life # 0
    BY <2>1 DEF Life
  <2>3. views[v] # Unmapped
    BY <2>2 DEF Unmapped
  <2>4. QED
    BY <1>3, <2>1, <2>2, <2>3 DEF Mapped
<1>4. QED
  BY <1>1, <1>2, <1>3

LEMMA LifeFacts ==
  /\ Lives \in Nat /\ Life \subseteq Nat /\ 0 \notin Life
  /\ SlotCount \in Nat /\ SlotCount > 0 /\ NoView \notin View
BY RingAssumption DEF Life, NoView

LEMMA HostFacts ==
  ASSUME RingTyped
  PROVE  host.life \in Nat /\ host.life <= Lives /\ host.alive \in BOOLEAN
         /\ host = [life |-> host.life, alive |-> host.alive]
BY LifeFacts DEF RingTyped

LEMMA SensorFacts ==
  ASSUME RingTyped
  PROVE  sensor.pc \in SensorPc /\ sensor.tries \in Nat
BY DEF RingTyped

LEMMA SlotIn ==
  ASSUME NEW i \in Nat
  PROVE  SlotOf(i) \in Slot
BY LifeFacts DEF SlotOf, Slot

\* Two claims of a slot are a whole round apart.
LEMMA RoundApart ==
  ASSUME NEW i \in Nat, NEW j \in Nat, SlotOf(i) = SlotOf(j), i < j
  PROVE  i + SlotCount <= j
<1> DEFINE n == SlotCount
<1>1. n \in Nat \ {0} /\ i % n = j % n
  BY LifeFacts DEF SlotOf
<1> HIDE DEF n
<1>2. i = n * (i \div n) + (i % n) /\ i \div n \in Int
  BY <1>1
<1>3. j = n * (j \div n) + (j % n) /\ j \div n \in Int
  BY <1>1
<1>4. j - i = n * ((j \div n) - (i \div n))
  BY <1>1, <1>2, <1>3
<1>5. (j \div n) - (i \div n) >= 1
  BY <1>1, <1>2, <1>3, <1>4
<1>6. i + n <= j
  BY <1>1, <1>2, <1>3, <1>4, <1>5
<1>7. QED
  BY <1>6 DEF n

LEMMA SlotOfNext ==
  ASSUME NEW i \in Nat
  PROVE  SlotOf(i + SlotCount) = SlotOf(i)
<1> DEFINE n == SlotCount
<1>1. n \in Nat \ {0}
  BY LifeFacts
<1> HIDE DEF n
<1>2. i = n * (i \div n) + (i % n) /\ i \div n \in Int /\ i % n \in 0 .. n - 1
  BY <1>1
<1>3. i + n = n * ((i + n) \div n) + ((i + n) % n) /\ (i + n) \div n \in Int /\ (i + n) % n \in 0 .. n - 1
  BY <1>1
<1>4. n * (((i + n) \div n) - (i \div n) - 1) = (i % n) - ((i + n) % n)
  BY <1>1, <1>2, <1>3
<1>5. ((i + n) \div n) - (i \div n) - 1 = 0
  BY <1>1, <1>2, <1>3, <1>4
<1>6. (i + n) % n = i % n
  BY <1>1, <1>2, <1>3, <1>4, <1>5
<1>7. QED
  BY <1>6 DEF SlotOf, n

LEMMA ReachedNat ==
  ASSUME RingTyped, ledger # NoEntry
  PROVE  Reached \in Nat
BY EntryFacts, PassFacts DEF Reached
-----------------------------------------------------------------------------
(* Steps that leave rings and drain alone                                  *)

\* The entry keeps its ring and cursor, whatever becomes of its state.
SameRing ==
  \/ ledger' = ledger
  \/ /\ ledger # NoEntry /\ ledger' \in Entry /\ ledger'.life = ledger.life
     /\ ledger'.view = ledger.view /\ ledger'.cursor = ledger.cursor

DataInv == RingsPlaced /\ Accounted /\ LiveSound /\ DrainSound /\ PushedSound

LEMMA SameEntry ==
  ASSUME SameRing
  PROVE  /\ ledger' # NoEntry <=> ledger # NoEntry
         /\ ledger # NoEntry => /\ ledger'.life = ledger.life /\ ledger'.view = ledger.view
                                /\ ledger'.cursor = ledger.cursor
BY NotNoEntry DEF SameRing

LEMMA DataKept ==
  ASSUME DataInv, SameRing, UNCHANGED <<views, emitter, drain, called, counted>>
  PROVE  DataInv'
<1>1. /\ ledger' # NoEntry <=> ledger # NoEntry
      /\ ledger # NoEntry => /\ ledger'.life = ledger.life /\ ledger'.view = ledger.view
                             /\ ledger'.cursor = ledger.cursor /\ Reached' = Reached
  BY SameEntry DEF Reached
<1>2. RingsPlaced'
  BY <1>1 DEF DataInv, RingsPlaced
<1>3. Accounted'
  BY <1>1 DEF DataInv, Accounted, Of
<1>4. LiveSound'
  <2>1. SUFFICES ASSUME Live'
                 PROVE  RingSound(views[ledger.view], Reached, emitter)'
    BY DEF LiveSound
  <2>2. RingSound(views[ledger.view], Reached, emitter)
    BY <1>1, <2>1 DEF DataInv, LiveSound, Live
  <2>3. (views[ledger.view])' = views[ledger.view] /\ Reached' = Reached
    BY <1>1, <2>1 DEF Live
  <2>4. QED
    BY <2>2, <2>3
<1>5. DrainSound' /\ PushedSound'
  BY DEF DataInv, DrainSound, PushedSound
<1>6. QED
  BY <1>2, <1>3, <1>4, <1>5 DEF DataInv

LEMMA InvParts ==
  RingInv <=> RingTyped /\ OfItsTime /\ SensorPlaced /\ ClaimedOnce /\ DataInv
BY DEF RingInv, DataInv
-----------------------------------------------------------------------------
(* The ledger                                                              *)

\* The claim is of an entry in state Ready, and leaves an attempt.
LEMMA TryFacts ==
  ASSUME RingTyped, NEW e \in Entry, NEW rva, TryInjectLocked(e, rva)
  PROVE  /\ ledger' \in Entry /\ ledger'.life = e.life /\ ledger'.view = e.view /\ ledger'.cursor = e.cursor
         /\ \/ ledger' = e /\ attempts' = attempts
            \/ /\ e.state = "Ready" /\ ledger'.state = "Injected"
               /\ attempts' = attempts \cup {[life |-> e.life, found |-> "unknown"]}
         /\ attempts' \subseteq Attempt
<1>1. attempts \subseteq Attempt
  BY DEF RingTyped
<1>2. CASE e.thread /\ e.base # "none" /\ rva /\ e.state = "Ready"
  <2>1. /\ ledger' = [e EXCEPT !.state = "Injected"]
        /\ attempts' = attempts \cup {[life |-> e.life, found |-> "unknown"]}
    BY <1>2 DEF TryInjectLocked
  <2>2. ledger' \in Entry /\ ledger'.life = e.life /\ ledger'.view = e.view /\ ledger'.cursor = e.cursor
        /\ ledger'.state = "Injected"
    BY <2>1 DEF Entry, EntryState
  <2>3. [life |-> e.life, found |-> "unknown"] \in Attempt
    BY DEF Attempt, Entry
  <2>4. QED
    BY <1>1, <1>2, <2>1, <2>2, <2>3
<1>3. CASE ~ (e.thread /\ e.base # "none" /\ rva /\ e.state = "Ready")
  BY <1>1, <1>3 DEF TryInjectLocked
<1>4. QED
  BY <1>2, <1>3

\* A callback brings the entry on, and may claim the attempt.
LEMMA TryKeeps ==
  ASSUME RingInv, host.alive, ledger # NoEntry, NEW e \in Entry, NEW rva, TryInjectLocked(e, rva),
         e.life = ledger.life, e.view = ledger.view, e.cursor = ledger.cursor,
         e.state # ledger.state => /\ ledger.state \in {"PendingThread", "PendingNtdll", "Ready"}
                                   /\ e.state \in {"PendingThread", "PendingNtdll", "Ready"},
         UNCHANGED <<host, apcs, sensor, device, views, doomed, emitter, drain, called, counted, misled>>
  PROVE  RingInv'
<1>1. RingTyped /\ OfItsTime /\ SensorPlaced /\ ClaimedOnce /\ DataInv
  BY InvParts
<1>2. /\ ledger' \in Entry /\ ledger'.life = e.life /\ ledger'.view = e.view /\ ledger'.cursor = e.cursor
      /\ \/ ledger' = e /\ attempts' = attempts
         \/ /\ e.state = "Ready" /\ ledger'.state = "Injected"
            /\ attempts' = attempts \cup {[life |-> e.life, found |-> "unknown"]}
      /\ attempts' \subseteq Attempt
  BY <1>1, TryFacts
<1>3. SameRing /\ ledger' # NoEntry
  BY <1>2, NotNoEntry DEF SameRing
<1>4. DataInv'
  BY <1>1, <1>3, DataKept
<1>5. RingTyped'
  BY <1>1, <1>2 DEF RingTyped
<1>6. ledger.life = host.life /\ host.life \in Life
  BY <1>1, EntryFacts DEF OfItsTime
<1>7. OfItsTime'
  <2>1. \A a \in attempts' : a.life <= host.life
    <3>1. e.life = host.life /\ host.life <= host.life
      <4>1. host.life \in Nat
        BY <1>1, HostFacts
      <4>2. QED
        BY <1>6, <4>1
    <3>2. \A a \in attempts : a.life <= host.life
      BY <1>1 DEF OfItsTime
    <3>3. \A a \in attempts' : a \in attempts \/ a.life = host.life
      BY <1>2, <3>1
    <3>4. QED
      BY <3>1, <3>2, <3>3
  <2>2. QED
    BY <1>1, <1>2, <1>3, <1>6, <2>1 DEF OfItsTime
<1>8. SensorPlaced'
  BY <1>1, <1>2, <1>3 DEF SensorPlaced
<1>9. ClaimedOnce'
  <2> DEFINE new == [life |-> e.life, found |-> "unknown"]
  <2>1. \A a \in attempts' : a.found = "gone" => a.life < host'.life \/ ~host'.alive
    <3>1. \A a \in attempts' : a.found = "gone" => a \in attempts
      BY <1>2
    <3>2. QED
      BY <1>1, <3>1 DEF ClaimedOnce
  <2>2. ASSUME NEW l \in Life \ misled'
        PROVE  /\ apcs'[l] <= 1
               /\ \A a, b \in attempts' : a.life = l /\ b.life = l => a = b
               /\ \A a \in attempts' : a.life = l /\ a.found = "unknown" => apcs'[l] = 0
               /\ ledger'.life = l /\ ledger'.state \in {"PendingThread", "PendingNtdll", "Ready"}
                    => apcs'[l] = 0 /\ \A a \in attempts' : a.life # l
    <3>1. l \in Life \ misled
      OBVIOUS
    <3>2. /\ apcs[l] <= 1
          /\ \A a, b \in attempts : a.life = l /\ b.life = l => a = b
          /\ \A a \in attempts : a.life = l /\ a.found = "unknown" => apcs[l] = 0
          /\ ledger.life = l /\ ledger.state \in {"PendingThread", "PendingNtdll", "Ready"}
               => apcs[l] = 0 /\ \A a \in attempts : a.life # l
      BY <1>1, <3>1 DEF ClaimedOnce
    <3>3. CASE l # ledger.life
      <4>1. \A a \in attempts' : a.life = l => a \in attempts
        BY <1>2, <3>3
      <4>2. QED
        BY <1>2, <3>2, <3>3, <4>1
    <3>4. CASE l = ledger.life /\ ledger' = e /\ attempts' = attempts
      BY <3>2, <3>4
    <3>5. CASE /\ l = ledger.life /\ e.state = "Ready" /\ ledger'.state = "Injected"
               /\ attempts' = attempts \cup {new}
      <4>1. ledger.state \in {"PendingThread", "PendingNtdll", "Ready"}
        BY <3>5
      <4>2. apcs[l] = 0 /\ \A a \in attempts : a.life # l
        BY <3>2, <3>5, <4>1
      <4>3. QED
        BY <3>5, <4>2
    <3>6. QED
      BY <1>2, <3>3, <3>4, <3>5
  <2>3. QED
    BY <1>3, <2>1, <2>2 DEF ClaimedOnce
<1>10. QED
  BY <1>4, <1>5, <1>7, <1>8, <1>9, InvParts DEF RingInv, DataInv

LEMMA FirstThreadKeeps ==
  ASSUME RingInv, InjectionOnFirstThread
  PROVE  RingInv'
<1> DEFINE target == IF ledger.base # "none" THEN "Ready" ELSE "PendingNtdll"
           e == IF ledger.thread THEN ledger
                ELSE [ledger EXCEPT !.thread = TRUE, !.state = IF @ = "PendingThread" THEN target ELSE @]
<1>1. ledger # NoEntry /\ host.alive /\ TryInjectLocked(e, resolved)
      /\ UNCHANGED <<host, apcs, sensor, device, views, doomed, emitter, drain, called, counted, misled>>
  BY DEF InjectionOnFirstThread
<1>2. /\ ledger \in Entry /\ ledger.state \in EntryState
  BY <1>1, EntryFacts DEF RingInv
<1>3. /\ e \in Entry /\ e.life = ledger.life /\ e.view = ledger.view /\ e.cursor = ledger.cursor
      /\ e.state # ledger.state => ledger.state = "PendingThread" /\ e.state \in {"Ready", "PendingNtdll"}
  BY <1>2 DEF Entry, EntryState
<1> HIDE DEF e
<1>4. QED
  BY <1>1, <1>3, TryKeeps

LEMMA NothingMoves ==
  ASSUME RingInv, UNCHANGED <<host, ledger, attempts, apcs, sensor, device, views, doomed, emitter, drain,
                              called, counted, misled>>
  PROVE  RingInv'
<1>1. RingTyped /\ OfItsTime /\ SensorPlaced /\ ClaimedOnce /\ DataInv
  BY InvParts
<1>2. DataInv'
  BY <1>1, DataKept DEF SameRing
<1>3. RingTyped' /\ OfItsTime' /\ SensorPlaced' /\ ClaimedOnce'
  BY <1>1 DEF RingTyped, OfItsTime, SensorPlaced, ClaimedOnce
<1>4. QED
  BY <1>2, <1>3 DEF RingInv, DataInv

LEMMA ImageKeeps ==
  ASSUME RingInv, NEW image \in {"exe", "ntdll"}, InjectionOnImageLoad(image)
  PROVE  RingInv'
<1>1. CASE ledger = NoEntry
  BY <1>1, NothingMoves DEF InjectionOnImageLoad
<1>2. CASE ledger # NoEntry
  <2> DEFINE expected == IF ledger.thread THEN "PendingNtdll" ELSE "PendingThread"
             e == IF ledger.base # "none" THEN ledger
                  ELSE [ledger EXCEPT !.base = image, !.state = IF @ = expected THEN "Ready" ELSE @]
  <2>1. /\ host.alive /\ TryInjectLocked(e, resolved')
        /\ UNCHANGED <<host, apcs, sensor, device, views, doomed, emitter, drain, called, counted, misled>>
    BY <1>2 DEF InjectionOnImageLoad
  <2>2. /\ ledger \in Entry /\ ledger.state \in EntryState
    BY <1>2, EntryFacts DEF RingInv
  <2>3. /\ e \in Entry /\ e.life = ledger.life /\ e.view = ledger.view /\ e.cursor = ledger.cursor
        /\ e.state # ledger.state => ledger.state \in {"PendingThread", "PendingNtdll"} /\ e.state = "Ready"
    BY <2>2 DEF Entry, EntryState
  <2> HIDE DEF e
  <2>4. QED
    BY <1>2, <2>1, <2>3, TryKeeps
<1>3. QED
  BY <1>1, <1>2

LEMMA CreateKeeps ==
  ASSUME RingInv, InjectionOnProcessCreate
  PROVE  RingInv'
<1> DEFINE n == host.life + 1
           fresh == [life |-> n, state |-> "PendingThread", thread |-> FALSE, base |-> "none",
                     view |-> NoView, cursor |-> 0]
<1>1. RingTyped /\ OfItsTime /\ SensorPlaced /\ ClaimedOnce /\ DataInv
  BY InvParts
<1>2. /\ ~host.alive /\ host.life < Lives /\ doomed = NoView
      /\ host' = [life |-> n, alive |-> TRUE] /\ sensor' = [pc |-> "absent", tries |-> 0]
      /\ ledger' \in {NoEntry, fresh}
      /\ UNCHANGED <<attempts, apcs, device, views, doomed, emitter, drain, called, counted, misled>>
  BY DEF InjectionOnProcessCreate
<1>3. host.life \in Nat /\ n \in Life /\ n \in Nat /\ n # 0 /\ host.life < n
  BY <1>1, <1>2, HostFacts, LifeFacts DEF Life
<1>4. fresh \in Entry /\ fresh.life = n /\ fresh.view = NoView /\ fresh.cursor = 0 /\ fresh.state = "PendingThread"
  BY <1>3 DEF Entry, EntryState
<1>5. host'.life = n /\ host'.alive /\ sensor'.pc = "absent" /\ ledger = NoEntry
  BY <1>1, <1>2 DEF OfItsTime
<1> HIDE DEF n, fresh
<1>6. ledger' # NoEntry => ledger' = fresh /\ ledger' \in Entry
  BY <1>2, <1>4
<1>7. RingTyped'
  <2>1. host' \in [life : 0 .. Lives, alive : BOOLEAN]
    BY <1>2, <1>3 DEF Life
  <2>2. sensor' \in [pc : SensorPc, tries : Nat]
    BY <1>2 DEF SensorPc
  <2>3. QED
    BY <1>1, <1>2, <1>4, <2>1, <2>2 DEF RingTyped
<1>8. \A k \in Nat : k <= host.life => k <= n /\ k < n /\ k # n
  BY <1>3
<1>9. /\ \A a \in attempts : a.life \in Nat /\ a.life <= host.life
      /\ \A v \in View : views[v].life \in Nat /\ views[v].life <= host.life
      /\ drain # NoDrain => drain.life \in Nat /\ drain.life <= host.life
      /\ \A l \in Life : host.life < l => apcs[l] = 0 /\ counted[l] = 0 /\ l \notin misled
  <2>1. \A a \in attempts : a.life \in Nat
    BY <1>1, LifeFacts DEF RingTyped, Attempt
  <2>2. \A v \in View : views[v].life \in Nat
    BY <1>1, RingFacts
  <2>3. drain # NoDrain => drain.life \in Nat
    BY <1>1, PassFacts, LifeFacts
  <2>4. QED
    BY <1>1, <2>1, <2>2, <2>3 DEF OfItsTime
<1>10. \A r \in called : r.ring <= host.life
  BY <1>1 DEF OfItsTime
<1>11. \A r \in called : r.ring # n /\ r.ring <= n
  <2>1. \A r \in called : r.ring \in Nat
    BY <1>1, LifeFacts DEF RingTyped
  <2>2. QED
    BY <1>8, <1>10, <2>1
<1>12. OfItsTime'
  <2>1. \A l \in Life : n < l => host.life < l
    BY <1>3, LifeFacts
  <2>2. QED
    BY <1>2, <1>4, <1>5, <1>6, <1>8, <1>9, <1>11, <2>1 DEF OfItsTime
<1>13. SensorPlaced'
  <2>1. sensor.pc = "absent"
    BY <1>1, <1>5 DEF SensorPlaced
  <2>2. QED
    BY <1>1, <1>2, <1>5, <2>1 DEF SensorPlaced
<1>14. ClaimedOnce'
  <2>1. \A a \in attempts : a.life < n /\ a.life # n
    BY <1>8, <1>9
  <2>2. apcs[n] = 0
    BY <1>3, <1>9
  <2>3. QED
    BY <1>1, <1>2, <1>4, <1>5, <1>6, <2>1, <2>2 DEF ClaimedOnce
<1>15. DataInv'
  <2>1. RingsPlaced'
    BY <1>1, <1>2, <1>4, <1>6, <1>8, <1>9 DEF DataInv, RingsPlaced
  <2>2. Accounted'
    <3>1. ledger' # NoEntry => Reached' = 0 /\ ledger'.life = n
      BY <1>2, <1>4, <1>6, <1>8, <1>9 DEF Reached
    <3>2. {r \in called' : r.ring = n} = {}
      BY <1>2, <1>11
    <3>3. counted'[n] = 0 /\ Cardinality({}) = 0
      BY <1>2, <1>3, <1>9, FS_EmptySet
    <3>4. SUFFICES ASSUME ledger' # NoEntry
                   PROVE  /\ Cardinality({r \in called' : r.ring = ledger'.life}) + counted'[ledger'.life] = Reached'
                          /\ \A r \in {r \in called' : r.ring = ledger'.life} : r.index < Reached'
      BY DEF Accounted, Of
    <3>5. QED
      BY <3>1, <3>2, <3>3, <3>4
  <2>3. LiveSound'
    BY <1>4, <1>6 DEF LiveSound, Live
  <2>4. DrainSound' /\ PushedSound'
    BY <1>1, <1>2 DEF DataInv, DrainSound, PushedSound
  <2>5. QED
    BY <2>1, <2>2, <2>3, <2>4 DEF DataInv
<1>16. QED
  BY <1>7, <1>12, <1>13, <1>14, <1>15 DEF RingInv, DataInv

\* The attempt finds a process, and at most it alone queues an APC.
LEMMA SnapshotKeeps ==
  ASSUME RingInv, NEW a \in attempts, InjectSnapshot(a)
  PROVE  RingInv'
<1>1. RingTyped /\ OfItsTime /\ SensorPlaced /\ ClaimedOnce /\ DataInv
  BY InvParts
<1>2. /\ a.found = "unknown"
      /\ UNCHANGED <<host, ledger, sensor, device, views, doomed, emitter, drain, called, counted, misled>>
  BY DEF InjectSnapshot
<1>3. PICK found \in {"gone", "failed", "queued"} :
        /\ (found = "gone") = ~host.alive
        /\ found = "queued" => host.life = a.life
        /\ attempts' = (attempts \ {a}) \cup {[a EXCEPT !.found = found]}
        /\ apcs' = IF found = "queued" THEN [apcs EXCEPT ![a.life] = @ + 1] ELSE apcs
  BY DEF InjectSnapshot
<1> DEFINE b == [a EXCEPT !.found = found]
<1>4. b \in Attempt /\ b.life = a.life /\ b.found = found /\ a.life \in Life /\ a.life \in Nat
  BY <1>1, LifeFacts DEF RingTyped, Attempt
<1> HIDE DEF b
<1>5. attempts' = (attempts \ {a}) \cup {b}
  BY <1>3 DEF b
<1>6. /\ apcs' \in [Life -> Nat]
      /\ \A l \in Life : apcs'[l] >= apcs[l]
      /\ \A l \in Life : apcs'[l] # apcs[l] => l = a.life /\ found = "queued" /\ apcs'[l] = apcs[l] + 1
  BY <1>1, <1>3, <1>4 DEF RingTyped
<1>7. RingTyped'
  BY <1>1, <1>2, <1>4, <1>5, <1>6 DEF RingTyped
<1>8. OfItsTime'
  <2>1. \A c \in attempts' : c.life <= host.life
    BY <1>1, <1>4, <1>5 DEF OfItsTime
  <2>2. \A l \in Life : host.life < l => apcs'[l] = 0
    <3>1. \A l \in Life : host.life < l => apcs'[l] = apcs[l]
      BY <1>3, <1>4, <1>6
    <3>2. QED
      BY <1>1, <3>1 DEF OfItsTime
  <2>3. QED
    BY <1>1, <1>2, <2>1, <2>2 DEF OfItsTime
<1>9. SensorPlaced'
  <2>1. \A l \in Life : apcs[l] > 0 => apcs'[l] > 0
    BY <1>1, <1>6 DEF RingTyped
  <2>2. ledger # NoEntry => host.life \in Life
    BY <1>1, EntryFacts DEF OfItsTime
  <2>3. \A v \in View : views[v].life # 0 => views[v].life \in Life
    BY <1>1, RingFacts
  <2>4. QED
    BY <1>1, <1>2, <2>1, <2>2, <2>3 DEF SensorPlaced
<1>10. ClaimedOnce'
  <2>1. \A c \in attempts' : c.found = "gone" => c.life < host'.life \/ ~host'.alive
    BY <1>1, <1>2, <1>3, <1>4, <1>5 DEF ClaimedOnce
  <2>2. ASSUME NEW l \in Life \ misled'
        PROVE  /\ apcs'[l] <= 1
               /\ \A c, d \in attempts' : c.life = l /\ d.life = l => c = d
               /\ \A c \in attempts' : c.life = l /\ c.found = "unknown" => apcs'[l] = 0
               /\ ledger' # NoEntry /\ ledger'.life = l /\ ledger'.state \in {"PendingThread", "PendingNtdll", "Ready"}
                    => apcs'[l] = 0 /\ \A c \in attempts' : c.life # l
    <3>1. /\ l \in Life /\ apcs[l] <= 1
          /\ \A c, d \in attempts : c.life = l /\ d.life = l => c = d
          /\ \A c \in attempts : c.life = l /\ c.found = "unknown" => apcs[l] = 0
          /\ ledger # NoEntry /\ ledger.life = l /\ ledger.state \in {"PendingThread", "PendingNtdll", "Ready"}
               => apcs[l] = 0 /\ \A c \in attempts : c.life # l
      BY <1>1, <1>2 DEF ClaimedOnce
    <3>2. CASE l = a.life
      <4>1. apcs[l] = 0 /\ \A c \in attempts' : c.life = l => c = b
        BY <1>2, <1>5, <3>1, <3>2
      <4>2. apcs'[l] <= 1
        BY <1>6, <3>1, <4>1
      <4>3. ~ (ledger' # NoEntry /\ ledger'.life = l /\ ledger'.state \in {"PendingThread", "PendingNtdll", "Ready"})
        BY <1>2, <3>1, <3>2
      <4>4. b.found # "unknown"
        BY <1>4
      <4>5. QED
        BY <4>1, <4>2, <4>3, <4>4
    <3>3. CASE l # a.life
      <4>1. apcs'[l] = apcs[l] /\ \A c \in attempts' : c.life = l => c \in attempts
        BY <1>4, <1>5, <1>6, <3>3
      <4>2. QED
        BY <1>2, <3>1, <4>1
    <3>4. QED
      BY <3>2, <3>3
  <2>3. QED
    BY <2>1, <2>2 DEF ClaimedOnce
<1>11. DataInv'
  BY <1>1, <1>2, DataKept DEF SameRing
<1>12. QED
  BY <1>7, <1>8, <1>9, <1>10, <1>11 DEF RingInv, DataInv

\* The fixup reopens no entry but one of another process, which it misleads.
LEMMA FixupKeeps ==
  ASSUME RingInv, NEW a \in attempts, InjectFixup(a)
  PROVE  RingInv'
<1>1. RingTyped /\ OfItsTime /\ SensorPlaced /\ ClaimedOnce /\ DataInv
  BY InvParts
<1>2. /\ a.found # "unknown" /\ attempts' = attempts \ {a}
      /\ UNCHANGED <<host, apcs, sensor, device, views, doomed, emitter, drain, called, counted>>
  BY DEF InjectFixup
<1>3. CASE ledger = NoEntry \/ a.found = "queued"
  <2>1. UNCHANGED <<ledger, misled>>
    BY <1>3 DEF InjectFixup
  <2>2. DataInv'
    BY <1>1, <1>2, <2>1, DataKept DEF SameRing
  <2>3. RingTyped' /\ OfItsTime' /\ SensorPlaced'
    BY <1>1, <1>2, <2>1 DEF RingTyped, OfItsTime, SensorPlaced
  <2>4. ClaimedOnce'
    BY <1>1, <1>2, <2>1 DEF ClaimedOnce
  <2>5. QED
    BY <2>2, <2>3, <2>4 DEF RingInv, DataInv
<1>4. CASE ledger # NoEntry /\ a.found # "queued"
  <2> DEFINE e == [ledger EXCEPT !.state = IF a.found = "gone" THEN "Ready" ELSE "Failed"]
  <2>1. ledger' = e /\ misled' = IF ledger.life = a.life THEN misled ELSE misled \cup {ledger.life}
    BY <1>4 DEF InjectFixup
  <2>2. /\ ledger \in Entry /\ ledger.life \in Life /\ ledger.life = host.life /\ host.alive
    BY <1>1, <1>4, EntryFacts DEF OfItsTime
  <2>3. /\ e \in Entry /\ e.life = ledger.life /\ e.view = ledger.view /\ e.cursor = ledger.cursor
        /\ e.state = IF a.found = "gone" THEN "Ready" ELSE "Failed"
    BY <2>2 DEF Entry, EntryState
  <2> HIDE DEF e
  <2>4. SameRing /\ ledger' # NoEntry
    BY <1>4, <2>1, <2>3, NotNoEntry DEF SameRing
  <2>5. DataInv'
    BY <1>1, <1>2, <2>4, DataKept
  <2>6. RingTyped'
    BY <1>1, <1>2, <2>1, <2>2, <2>3 DEF RingTyped
  <2>7. OfItsTime'
    <3>1. \A l \in Life : host.life < l => l \notin misled'
      BY <1>1, <2>1, <2>2, HostFacts DEF OfItsTime
    <3>2. QED
      BY <1>1, <1>2, <2>1, <2>2, <2>3, <3>1 DEF OfItsTime
  <2>8. SensorPlaced'
    BY <1>1, <1>2, <1>4, <2>1, <2>3, <2>4 DEF SensorPlaced
  <2>9. ClaimedOnce'
    <3>1. a.found = "gone" => ledger.life \in misled'
      <4>1. a.found = "gone" => a.life < host.life
        BY <1>1, <2>2 DEF ClaimedOnce
      <4>2. a.life \in Nat /\ host.life \in Nat
        BY <1>1, LifeFacts, HostFacts DEF RingTyped, Attempt
      <4>3. a.found = "gone" => ledger.life # a.life
        BY <2>2, <4>1, <4>2
      <4>4. QED
        BY <2>1, <4>3
    <3>2. \A l \in Life \ misled' :
            ledger'.life = l => ledger'.state \notin {"PendingThread", "PendingNtdll", "Ready"}
      BY <2>1, <2>3, <3>1
    <3>3. Life \ misled' \subseteq Life \ misled
      BY <2>1
    <3>4. QED
      BY <1>1, <1>2, <3>2, <3>3 DEF ClaimedOnce
  <2>10. QED
    BY <2>5, <2>6, <2>7, <2>8, <2>9 DEF RingInv, DataInv
<1>5. QED
  BY <1>3, <1>4

LEMMA ExitKeeps ==
  ASSUME RingInv, InjectionOnProcessExit
  PROVE  RingInv'
<1>1. RingTyped /\ OfItsTime /\ SensorPlaced /\ ClaimedOnce /\ DataInv
  BY InvParts
<1>2. /\ host' = [host EXCEPT !.alive = FALSE] /\ device' = IF device = "sensor" THEN "free" ELSE device
      /\ doomed' = (IF ledger = NoEntry THEN NoView ELSE ledger.view)
      /\ ledger' = NoEntry /\ sensor' = [sensor EXCEPT !.pc = "absent"] /\ emitter' = [c \in Callers |-> NoEmit]
      /\ UNCHANGED <<attempts, apcs, views, drain, called, counted, misled>>
  BY DEF InjectionOnProcessExit
<1>3. /\ host' \in [life : 0 .. Lives, alive : BOOLEAN] /\ host'.life = host.life /\ ~host'.alive
      /\ sensor' \in [pc : SensorPc, tries : Nat] /\ sensor'.pc = "absent"
      /\ emitter' \in [Callers -> Emit] /\ \A c \in Callers : emitter'[c].pc = "idle"
  BY <1>1, <1>2 DEF RingTyped, SensorPc, Emit, NoEmit
<1>4. RingTyped'
  <2>1. doomed' \in View \cup {NoView}
    BY <1>1, <1>2, EntryFacts
  <2>2. QED
    BY <1>1, <1>2, <1>3, <2>1 DEF RingTyped
<1>5. OfItsTime'
  BY <1>1, <1>2, <1>3 DEF OfItsTime
<1>6. SensorPlaced'
  BY <1>1, <1>2, <1>3 DEF SensorPlaced
<1>7. ClaimedOnce'
  BY <1>1, <1>2, <1>3 DEF ClaimedOnce
<1>8. DataInv'
  BY <1>1, <1>2 DEF DataInv, RingsPlaced, Accounted, LiveSound, Live, DrainSound, PushedSound
<1>9. QED
  BY <1>4, <1>5, <1>6, <1>7, <1>8 DEF RingInv, DataInv

LEMMA DestroyKeeps ==
  ASSUME RingInv, DestroyLedgerEntry
  PROVE  RingInv'
<1>1. RingTyped /\ OfItsTime /\ SensorPlaced /\ ClaimedOnce /\ DataInv
  BY InvParts
<1>2. /\ doomed # NoView /\ views' = [views EXCEPT ![doomed] = Unmapped] /\ doomed' = NoView
      /\ UNCHANGED <<host, ledger, attempts, apcs, sensor, device, emitter, drain, called, counted, misled>>
  BY DEF DestroyLedgerEntry
<1>3. ledger = NoEntry /\ doomed \in View
  BY <1>1, <1>2 DEF OfItsTime, RingTyped
<1>4. /\ views' \in [View -> {Unmapped} \cup Mapped]
      /\ \A v \in View : views'[v] = views[v] \/ (views'[v] = Unmapped /\ views'[v].life = 0)
  BY <1>1, <1>2, <1>3 DEF RingTyped, Unmapped
<1>5. RingTyped'
  BY <1>1, <1>2, <1>4 DEF RingTyped
<1>6. OfItsTime'
  <2>1. \A v \in View : views'[v].life <= host.life
    BY <1>1, <1>4, HostFacts DEF OfItsTime
  <2>2. QED
    BY <1>1, <1>2, <1>3, <2>1 DEF OfItsTime
<1>7. SensorPlaced' /\ ClaimedOnce'
  BY <1>1, <1>2, <1>4 DEF SensorPlaced, ClaimedOnce
<1>8. DataInv'
  <2>1. RingsPlaced' /\ DrainSound'
    <3>1. drain # NoDrain => drain.view \in View
      BY <1>1, PassFacts
    <3>2. QED
      BY <1>1, <1>2, <1>3, <1>4, <3>1 DEF DataInv, RingsPlaced, DrainSound
  <2>2. Accounted' /\ LiveSound' /\ PushedSound'
    BY <1>1, <1>2, <1>3 DEF DataInv, Accounted, LiveSound, Live, PushedSound
  <2>3. QED
    BY <2>1, <2>2 DEF DataInv
<1>9. QED
  BY <1>5, <1>6, <1>7, <1>8 DEF RingInv, DataInv
-----------------------------------------------------------------------------
(* The sensor's init thread, and who has the device                        *)

LEMMA FailedFacts ==
  ASSUME RingTyped, TryFailed
  PROVE  sensor' \in [pc : SensorPc, tries : Nat] /\ sensor'.pc \in {"start", "idle"}
BY SensorFacts DEF TryFailed, SensorPc

LEMMA MovedFacts ==
  ASSUME RingTyped, NEW pc \in SensorPc, sensor' = [sensor EXCEPT !.pc = pc]
  PROVE  sensor' \in [pc : SensorPc, tries : Nat] /\ sensor'.pc = pc
BY DEF RingTyped

\* Only the init thread and the device move.
LEMMA HandKeeps ==
  ASSUME RingInv, sensor' \in [pc : SensorPc, tries : Nat], device' \in {"free", "sensor", "agent"}, SensorPlaced',
         UNCHANGED <<host, ledger, attempts, apcs, views, doomed, emitter, drain, called, counted, misled>>
  PROVE  RingInv'
<1>1. RingTyped /\ OfItsTime /\ ClaimedOnce /\ DataInv
  BY InvParts
<1>2. RingTyped' /\ OfItsTime' /\ ClaimedOnce'
  BY <1>1 DEF RingTyped, OfItsTime, ClaimedOnce
<1>3. DataInv'
  BY <1>1, DataKept DEF SameRing
<1>4. QED
  BY <1>2, <1>3 DEF RingInv, DataInv

LEMMA ApcKeeps ==
  ASSUME RingInv, ApcRuns
  PROVE  RingInv'
<1>1. RingTyped /\ SensorPlaced
  BY DEF RingInv
<1>2. /\ apcs[host.life] > 0 /\ sensor.pc = "absent" /\ ledger # NoEntry
      /\ UNCHANGED <<host, ledger, attempts, apcs, device, views, doomed, emitter, drain, called, counted, misled>>
      /\ \E pc \in {"start", "idle", "wild"} : sensor' = [sensor EXCEPT !.pc = pc]
  BY DEF ApcRuns
<1>3. PICK pc \in {"start", "idle", "wild"} : sensor' = [sensor EXCEPT !.pc = pc]
  BY <1>2
<1>4. sensor' \in [pc : SensorPc, tries : Nat] /\ sensor'.pc = pc
  BY <1>1, <1>3, MovedFacts DEF SensorPc
<1>5. SensorPlaced'
  BY <1>1, <1>2, <1>4 DEF SensorPlaced
<1>6. QED
  BY <1>1, <1>2, <1>4, <1>5, HandKeeps DEF RingTyped

LEMMA OpenKeeps ==
  ASSUME RingInv, OpenDevice
  PROVE  RingInv'
<1>1. RingTyped /\ SensorPlaced
  BY DEF RingInv
<1>2. /\ sensor.pc = "start"
      /\ UNCHANGED <<host, ledger, attempts, apcs, views, doomed, emitter, drain, called, counted, misled>>
  BY DEF OpenDevice
<1>3. CASE device = "free"
  <2>1. device' = "sensor" /\ sensor' = [sensor EXCEPT !.pc = "challenge"]
    BY <1>3 DEF OpenDevice
  <2>2. sensor' \in [pc : SensorPc, tries : Nat] /\ sensor'.pc = "challenge"
    BY <1>1, <2>1, MovedFacts DEF SensorPc
  <2>3. SensorPlaced'
    BY <1>1, <1>2, <1>3, <2>1, <2>2 DEF SensorPlaced
  <2>4. QED
    BY <1>2, <2>1, <2>2, <2>3, HandKeeps
<1>4. CASE device # "free"
  <2>1. TryFailed /\ UNCHANGED device
    BY <1>4 DEF OpenDevice
  <2>2. sensor' \in [pc : SensorPc, tries : Nat] /\ sensor'.pc \in {"start", "idle"}
    BY <1>1, <2>1, FailedFacts
  <2>3. SensorPlaced'
    BY <1>1, <1>2, <2>1, <2>2 DEF SensorPlaced
  <2>4. QED
    BY <1>1, <1>2, <2>1, <2>2, <2>3, HandKeeps DEF RingTyped
<1>5. QED
  BY <1>3, <1>4

LEMMA WaitKeeps ==
  ASSUME RingInv, WaitActive \/ InstallHooks
  PROVE  RingInv'
<1>1. RingTyped /\ SensorPlaced
  BY DEF RingInv
<1>2. /\ sensor.pc \in {"wait", "active"}
      /\ UNCHANGED <<host, ledger, attempts, apcs, device, views, doomed, emitter, drain, called, counted, misled>>
      /\ \E pc \in {"active", "idle", "hooked"} : sensor' = [sensor EXCEPT !.pc = pc]
  <2>1. CASE WaitActive
    BY <2>1 DEF WaitActive
  <2>2. CASE InstallHooks
    BY <2>2 DEF InstallHooks
  <2>3. QED
    BY <2>1, <2>2
<1>3. PICK pc \in {"active", "idle", "hooked"} : sensor' = [sensor EXCEPT !.pc = pc]
  BY <1>2
<1>4. sensor' \in [pc : SensorPc, tries : Nat] /\ sensor'.pc = pc
  BY <1>1, <1>3, MovedFacts DEF SensorPc
<1>5. SensorPlaced'
  BY <1>1, <1>2, <1>4 DEF SensorPlaced
<1>6. QED
  BY <1>1, <1>2, <1>4, <1>5, HandKeeps DEF RingTyped

LEMMA AgentKeeps ==
  ASSUME RingInv, AgentOpens \/ AgentCloses
  PROVE  RingInv'
<1>1. RingTyped /\ SensorPlaced
  BY DEF RingInv
<1>2. /\ UNCHANGED <<host, ledger, attempts, apcs, sensor, views, doomed, emitter, drain, called, counted, misled>>
      /\ device' \in {"free", "agent"} /\ device # "sensor" /\ (device = "agent" => drain = NoDrain)
  <2>1. CASE AgentOpens
    BY <2>1 DEF AgentOpens
  <2>2. CASE AgentCloses
    BY <2>2 DEF AgentCloses
  <2>3. QED
    BY <2>1, <2>2
<1>3. SensorPlaced'
  BY <1>1, <1>2 DEF SensorPlaced
<1>4. QED
  BY <1>1, <1>2, <1>3, HandKeeps DEF RingTyped

\* A challenge that is refused, or answered with the ring the entry has.
LEMMA RefusedKeeps ==
  ASSUME RingInv, sensor.pc = "challenge", UNCHANGED <<ledger, views>>,
         \/ sensor' = [sensor EXCEPT !.pc = "register"] /\ UNCHANGED device /\ ledger.view # NoView
         \/ TryFailed /\ device' = "free",
         UNCHANGED <<host, attempts, apcs, doomed, emitter, drain, called, counted, misled>>
  PROVE  RingInv'
<1>1. RingTyped /\ SensorPlaced
  BY DEF RingInv
<1>2. CASE sensor' = [sensor EXCEPT !.pc = "register"] /\ UNCHANGED device /\ ledger.view # NoView
  <2>1. sensor' \in [pc : SensorPc, tries : Nat] /\ sensor'.pc = "register"
    BY <1>1, <1>2, MovedFacts DEF SensorPc
  <2>2. SensorPlaced'
    BY <1>1, <1>2, <2>1 DEF SensorPlaced
  <2>3. QED
    BY <1>1, <1>2, <2>1, <2>2, HandKeeps DEF RingTyped
<1>3. CASE TryFailed /\ device' = "free"
  <2>1. sensor' \in [pc : SensorPc, tries : Nat] /\ sensor'.pc \in {"start", "idle"}
    BY <1>1, <1>3, FailedFacts
  <2>2. SensorPlaced'
    BY <1>1, <1>3, <2>1 DEF SensorPlaced
  <2>3. QED
    BY <1>3, <2>1, <2>2, HandKeeps
<1>4. QED
  BY <1>2, <1>3
-----------------------------------------------------------------------------
(* A ring while threads emit into it                                       *)

\* On a slot that is not overrun there is at most one claim not yet drained.
LEMMA OneClaim ==
  ASSUME NEW ring, NEW from \in Nat, OnceAround(ring, from), NEW i \in Nat, NEW j \in Nat,
         i < ring.write, j < ring.write, from <= i, from <= j,
         SlotOf(i) = SlotOf(j), SlotOf(i) \notin ring.overrun
  PROVE  i = j
<1>1. SlotOf(i) \in Slot \ ring.overrun
  BY SlotIn
<1>2. i < from + SlotCount /\ j < from + SlotCount
  BY <1>1 DEF OnceAround
<1>3. i < j => i + SlotCount <= j
  BY RoundApart
<1>4. j < i => j + SlotCount <= i
  BY RoundApart
<1>5. QED
  BY <1>2, <1>3, <1>4, LifeFacts

LEMMA EmitFacts ==
  ASSUME NEW emits \in [Callers -> Emit], NEW c \in Callers
  PROVE  emits[c].pc \in {"idle", "head", "args", "commit"} /\ emits[c].claimed \in Nat /\ emits[c] \in Emit
BY DEF Emit

LEMMA MappedFacts ==
  ASSUME NEW ring \in Mapped
  PROVE  /\ ring.write \in Nat /\ ring.overrun \in SUBSET Slot
         /\ \A s \in Slot : /\ ring.slot[s].seq \in Nat /\ ring.slot[s].api \in Nat
                            /\ ring.slot[s].thread \in Nat /\ ring.slot[s].args \in Nat
BY DEF Mapped, Words

\* fetch_add: the new claim is of an index nobody had.
LEMMA ClaimKeepsRing ==
  ASSUME NEW ring \in Mapped, NEW from \in Nat, NEW emits \in [Callers -> Emit], RingSound(ring, from, emits),
         NEW c \in Callers, emits[c].pc = "idle", NEW n, n = ring.write,
         NEW next \in Mapped, next.write = n + 1, next.slot = ring.slot,
         next.overrun = IF n < from + SlotCount THEN ring.overrun ELSE ring.overrun \cup {SlotOf(n)},
         NEW after, after = [emits EXCEPT ![c] = [pc |-> "head", claimed |-> n]]
  PROVE  RingSound(next, from, after)
<1>1. n \in Nat /\ SlotOf(n) \in Slot /\ ring.overrun \subseteq next.overrun
  BY MappedFacts, SlotIn
<1>2. SeqSound(next)
  <2>1. \A s \in Slot : ring.slot[s].seq \in Nat
    BY MappedFacts
  <2>2. QED
    BY <1>1, <2>1 DEF RingSound, SeqSound
<1>3. OnceAround(next, from)
  <2>1. SUFFICES ASSUME NEW s \in Slot \ next.overrun, NEW i \in Nat, i < n + 1, SlotOf(i) = s
                 PROVE  i < from + SlotCount
    BY DEF OnceAround
  <2>2. CASE i = n
    BY <2>1, <2>2
  <2>3. CASE i # n
    <3>1. i < ring.write /\ s \in Slot \ ring.overrun
      BY <1>1, <2>1, <2>3
    <3>2. QED
      BY <2>1, <3>1 DEF RingSound, OnceAround
  <2>4. QED
    BY <2>2, <2>3
<1>4. /\ after[c].pc = "head" /\ after[c].claimed = n
      /\ \A d \in Callers \ {c} : after[d] = emits[d]
  OBVIOUS
<1>5. \A d \in Callers : emits[d].pc # "idle" => emits[d].claimed \in Nat /\ emits[d].claimed < n
  BY EmitFacts DEF RingSound, ClaimsSound
<1>6. ring.slot[SlotOf(n)].seq # Mark(n)
  <2>1. ring.slot[SlotOf(n)].seq \in Nat /\ ring.slot[SlotOf(n)].seq <= n
    BY <1>1, MappedFacts DEF RingSound, SeqSound
  <2>2. QED
    BY <1>1, <2>1 DEF Mark
<1>7. ClaimsSound(next, from, after)
  <2>1. SUFFICES ASSUME NEW d \in Callers, after[d].pc # "idle", NEW i, i = after[d].claimed
                 PROVE  /\ i < n + 1 /\ ring.slot[SlotOf(i)].seq # Mark(i)
                        /\ \A e \in Callers : after[e].pc # "idle" /\ after[e].claimed = i => d = e
                        /\ SlotOf(i) \notin next.overrun =>
                             /\ from <= i
                             /\ after[d].pc \in {"args", "commit"} =>
                                  ring.slot[SlotOf(i)].api = Mark(i) /\ ring.slot[SlotOf(i)].thread = Mark(i)
                             /\ after[d].pc = "commit" => ring.slot[SlotOf(i)].args = Mark(i)
    BY DEF ClaimsSound
  <2>2. CASE d = c
    <3>1. i = n /\ after[d].pc = "head"
      BY <1>4, <2>1, <2>2
    <3>2. \A e \in Callers : after[e].pc # "idle" /\ after[e].claimed = n => e = c
      BY <1>1, <1>4, <1>5
    <3>3. SlotOf(n) \notin next.overrun => from <= n
      BY DEF RingSound
    <3>4. QED
      BY <1>1, <1>6, <2>2, <3>1, <3>2, <3>3
  <2>3. CASE d # c
    <3>1. emits[d].pc # "idle" /\ i = emits[d].claimed /\ after[d] = emits[d] /\ i \in Nat /\ i < n
      BY <1>4, <1>5, <2>1, <2>3
    <3>2. /\ ring.slot[SlotOf(i)].seq # Mark(i)
          /\ \A e \in Callers : emits[e].pc # "idle" /\ emits[e].claimed = i => d = e
          /\ SlotOf(i) \notin ring.overrun =>
               /\ from <= i
               /\ emits[d].pc \in {"args", "commit"} =>
                    ring.slot[SlotOf(i)].api = Mark(i) /\ ring.slot[SlotOf(i)].thread = Mark(i)
               /\ emits[d].pc = "commit" => ring.slot[SlotOf(i)].args = Mark(i)
      BY <3>1 DEF RingSound, ClaimsSound
    <3>3. \A e \in Callers : after[e].pc # "idle" /\ after[e].claimed = i => d = e
      BY <1>1, <1>4, <3>1, <3>2
    <3>4. QED
      BY <1>1, <3>1, <3>2, <3>3
  <2>4. QED
    BY <2>2, <2>3
<1>8. OneCall(next, from)
  BY <1>1 DEF RingSound, OneCall
<1>9. from <= next.write
  BY <1>1 DEF RingSound
<1>10. QED
  BY <1>2, <1>3, <1>7, <1>8, <1>9 DEF RingSound

\* While a thread is at a slot that is not overrun, the cursor is past the
\* sequence the slot still has.
LEMMA ClaimIsAhead ==
  ASSUME NEW ring \in Mapped, NEW from \in Nat, NEW emits \in [Callers -> Emit], RingSound(ring, from, emits),
         NEW c \in Callers, emits[c].pc # "idle", NEW i, i = emits[c].claimed, SlotOf(i) \notin ring.overrun
  PROVE  ring.slot[SlotOf(i)].seq <= from
<1>1. SUFFICES ASSUME ~ (ring.slot[SlotOf(i)].seq <= from)
               PROVE  FALSE
  OBVIOUS
<1> DEFINE s == SlotOf(i)
           k == ring.slot[s].seq - 1
<1>2. i \in Nat /\ s \in Slot /\ ring.write \in Nat /\ ring.slot[s].seq \in Nat
  BY EmitFacts, SlotIn, MappedFacts
<1>3. i < ring.write /\ ring.slot[s].seq # Mark(i) /\ from <= i
  BY DEF RingSound, ClaimsSound
<1>4. ring.slot[s].seq # 0 /\ ring.slot[s].seq <= ring.write /\ SlotOf(k) = s
  BY <1>1, <1>2 DEF RingSound, SeqSound
<1>5. k \in Nat /\ from <= k /\ k < ring.write
  BY <1>1, <1>2, <1>4
<1> HIDE DEF k
<1>6. k = i
  BY <1>2, <1>3, <1>4, <1>5, OneClaim DEF RingSound
<1>7. ring.slot[s].seq = Mark(i)
  BY <1>2, <1>6 DEF k, Mark
<1>8. QED
  BY <1>3, <1>7

\* A thread writes into the slot it has claimed: words before the sequence,
\* or the sequence last.
LaidDown(i, overrun, old, words, x) ==
  \/ /\ x.pc \in {"args", "commit"} /\ x.claimed = i /\ words.seq = old.seq
     /\ SlotOf(i) \notin overrun => /\ words.api = Mark(i) /\ words.thread = Mark(i)
                                    /\ x.pc = "commit" => words.args = Mark(i)
  \/ /\ x.pc = "idle" /\ words.seq = Mark(i)
     /\ SlotOf(i) \notin overrun => /\ words.api = Mark(i) /\ words.thread = Mark(i)
                                    /\ words.args = Mark(i)

Stored(ring, emits, c, next, x) ==
  LET i == emits[c].claimed
      s == SlotOf(i)
  IN /\ next.write = ring.write /\ next.overrun = ring.overrun
     /\ \A t \in Slot \ {s} : next.slot[t] = ring.slot[t]
     /\ LaidDown(i, ring.overrun, ring.slot[s], next.slot[s], x)

LEMMA StoredSound ==
  ASSUME NEW ring \in Mapped, NEW from \in Nat, NEW emits \in [Callers -> Emit], RingSound(ring, from, emits),
         NEW c \in Callers, emits[c].pc # "idle", NEW next \in Mapped, NEW x, Stored(ring, emits, c, next, x)
  PROVE  RingSound(next, from, [emits EXCEPT ![c] = x])
<1> SUFFICES ASSUME NEW i, i = emits[c].claimed, NEW s, s = SlotOf(i),
                    next.write = ring.write, next.overrun = ring.overrun,
                    \A t \in Slot \ {s} : next.slot[t] = ring.slot[t],
                    NEW after, after = [emits EXCEPT ![c] = x],
                    \/ /\ x.pc \in {"args", "commit"} /\ x.claimed = i /\ next.slot[s].seq = ring.slot[s].seq
                       /\ s \notin ring.overrun => /\ next.slot[s].api = Mark(i) /\ next.slot[s].thread = Mark(i)
                                                   /\ x.pc = "commit" => next.slot[s].args = Mark(i)
                    \/ /\ x.pc = "idle" /\ next.slot[s].seq = Mark(i)
                       /\ s \notin ring.overrun => /\ next.slot[s].api = Mark(i) /\ next.slot[s].thread = Mark(i)
                                                   /\ next.slot[s].args = Mark(i)
             PROVE  RingSound(next, from, after)
  BY DEF Stored, LaidDown
<1>1. /\ i \in Nat /\ s \in Slot /\ Mark(i) = i + 1 /\ ring.write \in Nat
      /\ \A t \in Slot : ring.slot[t].seq \in Nat
  BY EmitFacts, SlotIn, MappedFacts DEF Mark
<1>2. /\ i < ring.write /\ ring.slot[s].seq # Mark(i)
      /\ \A d \in Callers : emits[d].pc # "idle" /\ emits[d].claimed = i => d = c
      /\ s \notin ring.overrun => from <= i
  BY DEF RingSound, ClaimsSound
<1>3. x.pc = "idle" \/ x.claimed = i
  OBVIOUS
<1>4. after[c] = x /\ \A d \in Callers \ {c} : after[d] = emits[d]
  OBVIOUS
<1>5. SeqSound(next)
  <2>1. SUFFICES ASSUME NEW t \in Slot, next.slot[t].seq # 0
                 PROVE  next.slot[t].seq <= ring.write /\ SlotOf(next.slot[t].seq - 1) = t
    BY DEF SeqSound
  <2>2. CASE next.slot[t].seq = ring.slot[t].seq
    BY <2>1, <2>2 DEF RingSound, SeqSound
  <2>3. CASE t = s /\ next.slot[t].seq = Mark(i)
    <3>1. next.slot[t].seq - 1 = i /\ next.slot[t].seq <= ring.write
      BY <1>1, <1>2, <2>3
    <3>2. QED
      BY <2>3, <3>1
  <2>4. QED
    BY <1>1, <2>2, <2>3
<1>6. OnceAround(next, from) /\ from <= next.write
  BY DEF RingSound, OnceAround
<1>7. ClaimsSound(next, from, after)
  <2>1. SUFFICES ASSUME NEW d \in Callers, after[d].pc # "idle", NEW j, j = after[d].claimed
                 PROVE  /\ j < ring.write /\ next.slot[SlotOf(j)].seq # Mark(j)
                        /\ \A e \in Callers : after[e].pc # "idle" /\ after[e].claimed = j => d = e
                        /\ SlotOf(j) \notin ring.overrun =>
                             /\ from <= j
                             /\ after[d].pc \in {"args", "commit"} =>
                                  next.slot[SlotOf(j)].api = Mark(j) /\ next.slot[SlotOf(j)].thread = Mark(j)
                             /\ after[d].pc = "commit" => next.slot[SlotOf(j)].args = Mark(j)
    BY DEF ClaimsSound
  <2>2. \A e \in Callers : after[e].pc # "idle" => emits[e].pc # "idle" /\ after[e].claimed = emits[e].claimed
    BY <1>3, <1>4
  <2>3. \A e \in Callers : after[e].pc # "idle" /\ after[e].claimed = j => d = e
    BY <2>1, <2>2 DEF RingSound, ClaimsSound
  <2>4. CASE d = c
    <3>1. /\ j = i /\ x.pc # "idle" /\ after[d].pc = x.pc
      BY <1>3, <1>4, <2>1, <2>4
    <3>2. QED
      BY <1>2, <2>3, <3>1
  <2>5. CASE d # c
    <3>1. emits[d].pc # "idle" /\ j = emits[d].claimed /\ after[d].pc = emits[d].pc /\ j \in Nat /\ SlotOf(j) \in Slot
      BY <1>4, <2>1, <2>5, EmitFacts, SlotIn
    <3>2. /\ j < ring.write /\ ring.slot[SlotOf(j)].seq # Mark(j)
          /\ SlotOf(j) \notin ring.overrun =>
               /\ from <= j
               /\ emits[d].pc \in {"args", "commit"} =>
                    ring.slot[SlotOf(j)].api = Mark(j) /\ ring.slot[SlotOf(j)].thread = Mark(j)
               /\ emits[d].pc = "commit" => ring.slot[SlotOf(j)].args = Mark(j)
      BY <3>1 DEF RingSound, ClaimsSound
    <3>3. i # j /\ Mark(i) # Mark(j)
      <4>1. i # j
        BY <1>2, <2>5, <3>1
      <4>2. QED
        BY <1>1, <3>1, <4>1 DEF Mark
    <3>4. CASE SlotOf(j) # s
      BY <2>3, <3>1, <3>2, <3>4
    <3>5. CASE SlotOf(j) = s
      <4>1. next.slot[s].seq # Mark(j)
        BY <3>2, <3>3, <3>5
      <4>2. s \in ring.overrun
        <5>1. SUFFICES ASSUME s \notin ring.overrun
                       PROVE  FALSE
          OBVIOUS
        <5>2. i = j
          BY <1>1, <1>2, <3>1, <3>2, <3>5, <5>1, OneClaim DEF RingSound
        <5>3. QED
          BY <3>3, <5>2
      <4>3. QED
        BY <2>3, <3>2, <3>5, <4>1, <4>2
    <3>6. QED
      BY <3>4, <3>5
  <2>6. QED
    BY <2>4, <2>5
<1>8. OneCall(next, from)
  <2>1. SUFFICES ASSUME NEW t \in Slot \ ring.overrun, next.slot[t].seq > from
                 PROVE  /\ next.slot[t].api = next.slot[t].seq /\ next.slot[t].thread = next.slot[t].seq
                        /\ next.slot[t].args = next.slot[t].seq
    BY DEF OneCall
  <2>2. CASE t # s
    BY <2>1, <2>2 DEF RingSound, OneCall
  <2>3. CASE t = s /\ next.slot[s].seq = Mark(i)
    BY <1>1, <1>2, <2>1, <2>3
  <2>4. CASE t = s /\ next.slot[s].seq = ring.slot[s].seq
    <3>1. ring.slot[s].seq <= from
      BY <2>1, <2>4, ClaimIsAhead
    <3>2. QED
      BY <1>1, <2>1, <2>4, <3>1
  <2>5. QED
    BY <2>2, <2>3, <2>4
<1>9. QED
  BY <1>5, <1>6, <1>7, <1>8 DEF RingSound

\* The cursor goes past slots nobody is at, or that are overrun.
LEMMA CursorKeepsRing ==
  ASSUME NEW ring \in Mapped, NEW from \in Nat, NEW emits \in [Callers -> Emit], RingSound(ring, from, emits),
         NEW to \in Nat, from <= to, to <= ring.write,
         \A c \in Callers : emits[c].pc # "idle" /\ SlotOf(emits[c].claimed) \notin ring.overrun => to <= emits[c].claimed
  PROVE  RingSound(ring, to, emits)
<1>1. ring.write \in Nat /\ \A t \in Slot : ring.slot[t].seq \in Nat
  BY MappedFacts
<1>2. OnceAround(ring, to)
  BY LifeFacts DEF RingSound, OnceAround
<1>3. ClaimsSound(ring, to, emits)
  BY DEF RingSound, ClaimsSound
<1>4. OneCall(ring, to)
  BY <1>1 DEF RingSound, OneCall
<1>5. QED
  BY <1>2, <1>3, <1>4 DEF RingSound

\* Slots are skipped only where producers have lapped the cursor.
LEMMA SkipKeepsRing ==
  ASSUME NEW ring \in Mapped, NEW from \in Nat, NEW emits \in [Callers -> Emit], RingSound(ring, from, emits),
         ring.write > from + SlotCount
  PROVE  RingSound(ring, ring.write - SlotCount, emits)
<1> DEFINE to == ring.write - SlotCount
<1>1. ring.write \in Nat /\ to \in Nat /\ from <= to /\ to <= ring.write
  BY MappedFacts, LifeFacts
<1>2. ASSUME NEW c \in Callers, emits[c].pc # "idle", SlotOf(emits[c].claimed) \notin ring.overrun
      PROVE  to <= emits[c].claimed
  <2> DEFINE i == emits[c].claimed
  <2>1. i \in Nat /\ from <= i
    BY <1>2, EmitFacts DEF RingSound, ClaimsSound
  <2>2. SlotOf(i) \in Slot \ ring.overrun /\ SlotOf(i + SlotCount) = SlotOf(i) /\ i + SlotCount \in Nat
    BY <1>2, <2>1, SlotIn, SlotOfNext, LifeFacts
  <2> HIDE DEF i
  <2>3. i + SlotCount < ring.write => i + SlotCount < from + SlotCount
    BY <2>2 DEF RingSound, OnceAround
  <2>4. to <= i
    BY <1>1, <2>1, <2>3, LifeFacts
  <2>5. QED
    BY <2>4 DEF i
<1> HIDE DEF to
<1>3. RingSound(ring, to, emits)
  BY <1>1, <1>2, CursorKeepsRing
<1>4. QED
  BY <1>3 DEF to
-----------------------------------------------------------------------------
(* The handshake gives a ring, and activates it                            *)

LEMMA FreshSound ==
  ASSUME NEW l \in Life, NEW emits, \A c \in Callers : emits[c].pc = "idle"
  PROVE  /\ FreshRing(l) \in Mapped /\ FreshRing(l).life = l
         /\ RingSound(FreshRing(l), 0, emits)
<1> DEFINE ring == FreshRing(l)
<1>1. /\ ring \in Mapped /\ ring.life = l /\ ring.write = 0 /\ ring.overrun = {}
      /\ \A s \in Slot : ring.slot[s].seq = 0
  BY DEF FreshRing, Mapped, Words
<1> HIDE DEF ring
<1>2. SeqSound(ring) /\ OnceAround(ring, 0) /\ ClaimsSound(ring, 0, emits) /\ OneCall(ring, 0)
  BY <1>1 DEF SeqSound, OnceAround, ClaimsSound, OneCall
<1>3. RingSound(ring, 0, emits)
  BY <1>1, <1>2 DEF RingSound
<1>4. QED
  BY <1>1, <1>3 DEF ring

\* The first answer for an entry: a fresh ring, in a process that was
\* injected, while no drain is under way.
LEMMA AnsweredKeeps ==
  ASSUME RingInv, sensor.pc = "challenge", ledger.view = NoView, NEW v \in View, views[v] = Unmapped,
         ledger' = [ledger EXCEPT !.view = v, !.cursor = 0],
         views' = [views EXCEPT ![v] = FreshRing(host.life)],
         \/ sensor' = [sensor EXCEPT !.pc = "register"] /\ UNCHANGED device
         \/ TryFailed /\ device' = "free",
         UNCHANGED <<host, attempts, apcs, doomed, emitter, drain, called, counted, misled>>
  PROVE  RingInv'
<1>1. RingTyped /\ OfItsTime /\ SensorPlaced /\ ClaimedOnce /\ DataInv
  BY InvParts
<1>2. /\ ledger # NoEntry /\ apcs[host.life] > 0 /\ device = "sensor" /\ drain = NoDrain
      /\ \A c \in Callers : emitter[c].pc = "idle"
  BY <1>1 DEF SensorPlaced
<1>3. ledger \in Entry /\ ledger.life = host.life /\ host.alive /\ host.life \in Life /\ ledger.cursor = 0
  BY <1>1, <1>2, EntryFacts DEF OfItsTime, DataInv, RingsPlaced
<1>4. /\ ledger' \in Entry /\ ledger'.life = host.life /\ ledger'.view = v /\ ledger'.cursor = 0
      /\ ledger'.state = ledger.state /\ ledger' # NoEntry
  <2>1. /\ ledger' \in Entry /\ ledger'.life = host.life /\ ledger'.view = v /\ ledger'.cursor = 0
        /\ ledger'.state = ledger.state
    BY <1>3 DEF Entry
  <2>2. QED
    BY <2>1, NotNoEntry
<1>5. /\ FreshRing(host.life) \in Mapped /\ FreshRing(host.life).life = host.life
      /\ RingSound(FreshRing(host.life), 0, emitter)
  BY <1>2, <1>3, FreshSound
<1>6. /\ views' \in [View -> {Unmapped} \cup Mapped] /\ views'[v] = FreshRing(host.life)
      /\ \A w \in View \ {v} : views'[w] = views[w]
  BY <1>1, <1>5 DEF RingTyped
<1>7. /\ sensor' \in [pc : SensorPc, tries : Nat] /\ device' \in {"free", "sensor"}
      /\ sensor'.pc \in {"register", "start", "idle"} /\ (sensor'.pc = "register" => device' = "sensor")
  <2>1. CASE sensor' = [sensor EXCEPT !.pc = "register"] /\ UNCHANGED device
    BY <1>1, <1>2, <2>1, MovedFacts DEF SensorPc
  <2>2. CASE TryFailed /\ device' = "free"
    BY <1>1, <2>2, FailedFacts
  <2>3. QED
    BY <2>1, <2>2
<1>8. RingTyped'
  BY <1>1, <1>4, <1>6, <1>7 DEF RingTyped
<1>9. OfItsTime'
  <2>1. \A w \in View : views'[w].life <= host.life
    BY <1>1, <1>5, <1>6, HostFacts DEF OfItsTime
  <2>2. QED
    BY <1>1, <1>3, <1>4, <2>1 DEF OfItsTime
<1>10. SensorPlaced'
  <2>1. \A w \in View : views'[w].life # 0 => apcs[views'[w].life] > 0
    BY <1>1, <1>2, <1>5, <1>6 DEF SensorPlaced
  <2>2. ledger'.view # NoView
    BY <1>4, LifeFacts
  <2>3. QED
    BY <1>1, <1>2, <1>4, <1>7, <2>1, <2>2 DEF SensorPlaced
<1>11. ClaimedOnce'
  BY <1>1, <1>2, <1>3, <1>4 DEF ClaimedOnce
<1>12. DataInv'
  <2>1. Reached = 0 /\ Reached' = 0
    BY <1>2, <1>3, <1>4 DEF Reached
  <2>2. RingsPlaced'
    BY <1>2, <1>4, <1>5, <1>6 DEF RingsPlaced
  <2>3. Accounted'
    BY <1>1, <1>2, <1>3, <1>4, <2>1 DEF DataInv, Accounted, Of
  <2>4. LiveSound'
    BY <1>4, <1>5, <1>6, <2>1 DEF LiveSound
  <2>5. DrainSound' /\ PushedSound'
    BY <1>1, <1>2 DEF DataInv, DrainSound, PushedSound
  <2>6. QED
    BY <2>2, <2>3, <2>4, <2>5 DEF DataInv
<1>13. QED
  BY <1>8, <1>9, <1>10, <1>11, <1>12 DEF RingInv, DataInv

LEMMA ChallengeKeeps ==
  ASSUME RingInv, Challenge
  PROVE  RingInv'
<1>1. /\ sensor.pc = "challenge"
      /\ UNCHANGED <<host, attempts, apcs, doomed, emitter, drain, called, counted, misled>>
  BY DEF Challenge
<1>2. CASE TryFailed /\ device' = "free" /\ UNCHANGED <<ledger, views>>
  BY <1>1, <1>2, RefusedKeeps
<1>3. CASE Answered /\ (\/ sensor' = [sensor EXCEPT !.pc = "register"] /\ UNCHANGED device
                        \/ TryFailed /\ device' = "free")
  <2>1. CASE ledger.view # NoView
    <3>1. UNCHANGED <<ledger, views>>
      BY <1>3, <2>1 DEF Answered
    <3>2. QED
      BY <1>1, <1>3, <2>1, <3>1, RefusedKeeps
  <2>2. CASE ledger.view = NoView
    <3>1. PICK v \in View : /\ views[v] = Unmapped
                            /\ ledger' = [ledger EXCEPT !.view = v, !.cursor = 0]
                            /\ views' = [views EXCEPT ![v] = FreshRing(host.life)]
      BY <1>3, <2>2 DEF Answered
    <3>2. QED
      BY <1>1, <1>3, <2>2, <3>1, AnsweredKeeps
  <2>3. QED
    BY <2>1, <2>2
<1>4. QED
  BY <1>2, <1>3 DEF Challenge

LEMMA RegisterKeeps ==
  ASSUME RingInv, Register
  PROVE  RingInv'
<1>1. RingTyped /\ OfItsTime /\ SensorPlaced /\ ClaimedOnce /\ DataInv
  BY InvParts
<1>2. /\ sensor.pc = "register" /\ device' = "free"
      /\ UNCHANGED <<host, attempts, apcs, doomed, emitter, drain, called, counted, misled>>
  BY DEF Register
<1>3. CASE TryFailed /\ UNCHANGED <<ledger, views>>
  <2>1. sensor' \in [pc : SensorPc, tries : Nat] /\ sensor'.pc \in {"start", "idle"}
    BY <1>1, <1>3, FailedFacts
  <2>2. SensorPlaced'
    BY <1>1, <1>2, <1>3, <2>1 DEF SensorPlaced
  <2>3. QED
    BY <1>2, <1>3, <2>1, <2>2, HandKeeps
<1>4. CASE Registered /\ sensor' = [sensor EXCEPT !.pc = "wait"]
  <2>1. /\ ledger # NoEntry /\ ledger.view # NoView /\ drain = NoDrain
        /\ \A c \in Callers : emitter[c].pc = "idle"
    BY <1>1, <1>2 DEF SensorPlaced
  <2>2. ledger \in Entry /\ ledger.view \in View /\ ledger.life \in Life /\ views[ledger.view].life = ledger.life
    BY <1>1, <2>1, EntryFacts DEF DataInv, RingsPlaced
  <2> DEFINE v == ledger.view
             ring == views[v]
             next == [ring EXCEPT !.active = TRUE]
  <2>3. /\ ledger.state = "Injected" /\ ledger' = [ledger EXCEPT !.state = "Registered"]
        /\ views' = [views EXCEPT ![v] = next]
    BY <1>4 DEF Registered
  <2>4. /\ ledger' \in Entry /\ ledger'.life = ledger.life /\ ledger'.view = v /\ ledger'.cursor = ledger.cursor
        /\ ledger'.state = "Registered" /\ ledger' # NoEntry
    <3>1. /\ ledger' \in Entry /\ ledger'.life = ledger.life /\ ledger'.view = v /\ ledger'.cursor = ledger.cursor
          /\ ledger'.state = "Registered"
      BY <2>2, <2>3 DEF Entry, EntryState
    <3>2. QED
      BY <3>1, NotNoEntry
  <2>5. /\ ring \in Mapped /\ next \in Mapped /\ next.life = ring.life /\ next.write = ring.write
        /\ next.overrun = ring.overrun /\ next.slot = ring.slot
    <3>1. ring \in Mapped
      BY <1>1, <2>2, RingFacts, LifeFacts
    <3>2. QED
      BY <3>1 DEF Mapped
  <2>6. /\ views' \in [View -> {Unmapped} \cup Mapped] /\ views'[v] = next
        /\ \A w \in View : views'[w].life = views[w].life
    BY <1>1, <2>2, <2>3, <2>5 DEF RingTyped
  <2>7. sensor' \in [pc : SensorPc, tries : Nat] /\ sensor'.pc = "wait"
    BY <1>1, <1>4, MovedFacts DEF SensorPc
  <2>8. RingTyped'
    BY <1>1, <1>2, <2>4, <2>6, <2>7 DEF RingTyped
  <2>9. OfItsTime'
    BY <1>1, <1>2, <2>1, <2>4, <2>6 DEF OfItsTime
  <2>10. SensorPlaced'
    BY <1>1, <1>2, <2>1, <2>4, <2>6, <2>7 DEF SensorPlaced
  <2>11. ClaimedOnce'
    BY <1>1, <1>2, <2>1, <2>4 DEF ClaimedOnce
  <2>12. DataInv'
    <3>1. Reached' = Reached /\ Reached = ledger.cursor
      BY <1>2, <2>1, <2>4 DEF Reached
    <3>2. RingsPlaced'
      BY <1>1, <1>2, <2>1, <2>2, <2>4, <2>5, <2>6 DEF RingsPlaced
    <3>3. Accounted'
      BY <1>1, <1>2, <2>1, <2>4, <3>1 DEF DataInv, Accounted, Of
    <3>4. LiveSound'
      <4>1. RingSound(ring, Reached, emitter)
        BY <1>1, <2>1 DEF DataInv, LiveSound, Live
      <4> HIDE DEF next, ring
      <4>2. RingSound(next, Reached, emitter)
        BY <2>5, <4>1 DEF RingSound, SeqSound, OnceAround, ClaimsSound, OneCall
      <4>3. QED
        BY <1>2, <2>4, <2>6, <3>1, <4>2 DEF LiveSound
    <3>5. DrainSound' /\ PushedSound'
      BY <1>1, <1>2, <2>1 DEF DataInv, DrainSound, PushedSound
    <3>6. QED
      BY <3>2, <3>3, <3>4, <3>5 DEF DataInv
  <2>13. QED
    BY <2>8, <2>9, <2>10, <2>11, <2>12 DEF RingInv, DataInv
<1>5. QED
  BY <1>3, <1>4 DEF Register
-----------------------------------------------------------------------------
(* emit                                                                    *)

\* The live ring goes from one sound state to the next, and no sequence that
\* the cursor has not reached is lost but where the slot is overrun.
LEMMA EmitKeeps ==
  ASSUME RingInv, sensor.pc = "hooked", NEW v, v = ledger.view, NEW ring, ring = views[v],
         NEW next \in Mapped, next.life = ring.life, ring.write <= next.write, ring.overrun \subseteq next.overrun,
         views' = [views EXCEPT ![v] = next], emitter' \in [Callers -> Emit],
         RingSound(next, Reached, emitter'),
         \A s \in Slot \ next.overrun : next.slot[s].seq = ring.slot[s].seq \/ ring.slot[s].seq <= Reached,
         UNCHANGED <<host, ledger, attempts, apcs, sensor, device, doomed, drain, called, counted, misled>>
  PROVE  RingInv'
<1>1. RingTyped /\ OfItsTime /\ SensorPlaced /\ ClaimedOnce /\ DataInv
  BY InvParts
<1>2. ledger # NoEntry /\ v # NoView
  BY <1>1 DEF SensorPlaced
<1>3. v \in View /\ ledger.life \in Life /\ ring.life = ledger.life
  BY <1>1, <1>2, EntryFacts DEF DataInv, RingsPlaced
<1>4. /\ views' \in [View -> {Unmapped} \cup Mapped] /\ views'[v] = next
      /\ \A w \in View \ {v} : views'[w] = views[w]
      /\ \A w \in View : views'[w].life = views[w].life
  BY <1>1, <1>3 DEF RingTyped
<1>5. RingTyped'
  BY <1>1, <1>4 DEF RingTyped
<1>6. OfItsTime'
  BY <1>1, <1>4 DEF OfItsTime
<1>7. SensorPlaced' /\ ClaimedOnce'
  BY <1>1, <1>4 DEF SensorPlaced, ClaimedOnce
<1>8. DataInv'
  <2>1. Reached' = Reached
    BY DEF Reached
  <2>2. RingsPlaced'
    <3>1. drain # NoDrain => drain.view \in View
      BY <1>1, PassFacts
    <3>2. QED
      BY <1>1, <1>2, <1>3, <1>4, <3>1 DEF DataInv, RingsPlaced
  <2>3. Accounted' /\ PushedSound'
    BY <1>1, <2>1 DEF DataInv, Accounted, Of, PushedSound
  <2>4. LiveSound'
    BY <1>4, <2>1 DEF LiveSound
  <2>5. DrainSound'
    <3>1. CASE drain # NoDrain /\ drain.view = v
      <4> DEFINE s == SlotOf(drain.cursor)
      <4>1. /\ drain.cursor \in Nat /\ drain.end \in Nat /\ s \in Slot
        BY <1>1, <3>1, PassFacts, SlotIn
      <4>2. drain.life = ledger.life /\ Reached = drain.cursor /\ ring # Unmapped
        BY <1>1, <1>3, <3>1, LifeFacts, RingFacts DEF DataInv, RingsPlaced, Reached
      <4>3. /\ drain.pc # "begin" => drain.end <= ring.write
            /\ drain.pc \in {"head", "args"} => drain.cursor < drain.end
            /\ drain.pc \in {"head", "args"} /\ s \notin ring.overrun => ring.slot[s].seq = Mark(drain.cursor)
            /\ drain.pc = "args" /\ s \notin ring.overrun => drain.api = Mark(drain.cursor) /\ drain.thread = Mark(drain.cursor)
        BY <1>1, <3>1, <4>2 DEF DataInv, DrainSound
      <4>4. OneCall(next, drain.cursor)
        BY <4>2 DEF RingSound
      <4>5. drain.pc # "begin" => drain.end <= next.write
        <5>1. ring.write \in Nat /\ next.write \in Nat
          BY <1>1, <1>3, LifeFacts, RingFacts, MappedFacts
        <5>2. QED
          BY <4>1, <4>3, <5>1
      <4>6. drain.pc \in {"head", "args"} /\ s \notin next.overrun => next.slot[s].seq = Mark(drain.cursor)
        <5>1. SUFFICES ASSUME drain.pc \in {"head", "args"}, s \notin next.overrun
                       PROVE  next.slot[s].seq = Mark(drain.cursor)
          OBVIOUS
        <5>2. ring.slot[s].seq = Mark(drain.cursor)
          BY <4>3, <5>1
        <5>3. ~ (ring.slot[s].seq <= Reached)
          BY <4>1, <4>2, <5>2 DEF Mark
        <5>4. QED
          BY <4>1, <5>1, <5>2, <5>3
      <4>7. drain.pc = "args" /\ s \notin next.overrun => drain.api = Mark(drain.cursor) /\ drain.thread = Mark(drain.cursor)
        BY <4>3
      <4>8. QED
        BY <1>4, <3>1, <4>3, <4>4, <4>5, <4>6, <4>7 DEF DrainSound
    <3>2. CASE drain # NoDrain /\ drain.view # v
      <4>1. views'[drain.view] = views[drain.view]
        BY <1>1, <1>4, <3>2, PassFacts
      <4>2. QED
        BY <1>1, <3>2, <4>1 DEF DataInv, DrainSound
    <3>3. CASE drain = NoDrain
      BY <3>3 DEF DrainSound
    <3>4. QED
      BY <3>1, <3>2, <3>3
  <2>6. QED
    BY <2>2, <2>3, <2>4, <2>5 DEF DataInv
<1>9. QED
  BY <1>5, <1>6, <1>7, <1>8 DEF RingInv, DataInv

\* The ring a thread emits into.
LEMMA EmitsLive ==
  ASSUME RingInv, NEW c \in Callers, sensor.pc = "hooked" \/ emitter[c].pc # "idle"
  PROVE  /\ sensor.pc = "hooked" /\ ledger.view \in View /\ Ring \in Mapped /\ Reached \in Nat
         /\ emitter \in [Callers -> Emit] /\ RingSound(Ring, Reached, emitter)
<1>1. RingTyped /\ SensorPlaced /\ DataInv
  BY InvParts
<1>2. sensor.pc = "hooked" /\ ledger # NoEntry /\ ledger.view # NoView
  BY <1>1 DEF SensorPlaced
<1>3. ledger.view \in View /\ ledger.life \in Life /\ views[ledger.view].life = ledger.life
  BY <1>1, <1>2, EntryFacts DEF DataInv, RingsPlaced
<1>4. Ring \in Mapped
  BY <1>1, <1>3, LifeFacts, RingFacts DEF Ring
<1>5. QED
  BY <1>1, <1>2, <1>3, <1>4, ReachedNat DEF DataInv, LiveSound, Live, Ring, RingTyped

ClaimedIn(ring, n, over) == [ring EXCEPT !.write = n, !.overrun = over]

LEMMA ClaimedRing ==
  ASSUME NEW ring \in Mapped, NEW n \in Nat, NEW over \in SUBSET Slot
  PROVE  /\ ClaimedIn(ring, n, over) \in Mapped /\ ClaimedIn(ring, n, over).write = n
         /\ ClaimedIn(ring, n, over).overrun = over
         /\ ClaimedIn(ring, n, over).slot = ring.slot /\ ClaimedIn(ring, n, over).life = ring.life
BY DEF Mapped, ClaimedIn

LEMMA EmitClaimKeeps ==
  ASSUME RingInv, NEW c \in Callers, EmitClaim(c)
  PROVE  RingInv'
<1> SUFFICES ASSUME NEW v, v = ledger.view, NEW ring, ring = views[v], NEW n, n = ring.write
             PROVE  RingInv'
  OBVIOUS
<1>1. /\ sensor.pc = "hooked" /\ emitter[c].pc = "idle"
      /\ emitter' = [emitter EXCEPT ![c] = [pc |-> "head", claimed |-> n]]
      /\ views' = [views EXCEPT ![v].write = @ + 1,
                                ![v].overrun = IF n < Reached + SlotCount THEN @ ELSE @ \cup {SlotOf(n)}]
      /\ UNCHANGED <<host, ledger, attempts, apcs, sensor, device, doomed, drain, called, counted, misled>>
  BY DEF EmitClaim, Detour, Ring
<1>2. /\ v \in View /\ ring \in Mapped /\ Reached \in Nat
      /\ emitter \in [Callers -> Emit] /\ RingSound(ring, Reached, emitter)
  BY <1>1, EmitsLive DEF Ring
<1> DEFINE over == IF n < Reached + SlotCount THEN ring.overrun ELSE ring.overrun \cup {SlotOf(n)}
           next == ClaimedIn(ring, n + 1, over)
<1>3. n \in Nat /\ SlotOf(n) \in Slot
  BY <1>2, SlotIn DEF Mapped
<1>4. over \in SUBSET Slot /\ ring.overrun \subseteq over
  BY <1>2, <1>3 DEF Mapped
<1>5. views \in [View -> {Unmapped} \cup Mapped]
  BY DEF RingInv, RingTyped
<1>6. views' = [views EXCEPT ![v] = next]
  BY <1>1, <1>2, <1>5 DEF Mapped, ClaimedIn
<1> HIDE DEF over
<1>7. /\ next \in Mapped /\ next.write = n + 1 /\ next.overrun = over /\ next.slot = ring.slot /\ next.life = ring.life
  <2>1. n + 1 \in Nat
    BY <1>3
  <2>2. QED
    BY <1>2, <1>4, <2>1, ClaimedRing
<1> HIDE DEF next
<1>8. RingSound(next, Reached, emitter')
  BY <1>1, <1>2, <1>7, ClaimKeepsRing DEF over
<1>9. emitter' \in [Callers -> Emit]
  BY <1>1, <1>2, <1>3 DEF Emit
<1>10. ring.write <= next.write
  BY <1>3, <1>7
<1>11. /\ ring.overrun \subseteq next.overrun
       /\ \A s \in Slot \ next.overrun : next.slot[s].seq = ring.slot[s].seq \/ ring.slot[s].seq <= Reached
  BY <1>4, <1>7
<1>12. QED
  BY <1>1, <1>6, <1>7, <1>8, <1>9, <1>10, <1>11, EmitKeeps

\* One of the stores of an emit: the claim's slot changes, and the thread
\* goes on.
LEMMA StoreKeeps ==
  ASSUME RingInv, NEW c \in Callers, emitter[c].pc # "idle", NEW i, i = emitter[c].claimed,
         NEW v, v = ledger.view, NEW ring, ring = views[v], NEW words \in Words, NEW count \in Nat,
         NEW x \in Emit, emitter' = [emitter EXCEPT ![c] = x], NEW old, old = ring.slot[SlotOf(i)],
         views' = [views EXCEPT ![v] = [ring EXCEPT !.dropped = count, !.slot = [@ EXCEPT ![SlotOf(i)] = words]]],
         LaidDown(i, ring.overrun, old, words, x),
         UNCHANGED <<host, ledger, attempts, apcs, sensor, device, doomed, drain, called, counted, misled>>
  PROVE  RingInv'
<1>1. /\ sensor.pc = "hooked" /\ v \in View /\ ring \in Mapped /\ Reached \in Nat
      /\ emitter \in [Callers -> Emit] /\ RingSound(ring, Reached, emitter)
  BY EmitsLive DEF Ring
<1> DEFINE s == SlotOf(i)
           next == [ring EXCEPT !.dropped = count, !.slot = [@ EXCEPT ![s] = words]]
<1>2. i \in Nat /\ s \in Slot
  BY <1>1, EmitFacts, SlotIn
<1>3. /\ next \in Mapped /\ next.write = ring.write /\ next.overrun = ring.overrun /\ next.life = ring.life
      /\ next.slot[s] = words /\ \A t \in Slot \ {s} : next.slot[t] = ring.slot[t]
  BY <1>1, <1>2 DEF Mapped
<1>4. views' = [views EXCEPT ![v] = next]
  OBVIOUS
<1> HIDE DEF next
<1>5. RingSound(next, Reached, emitter')
  <2>1. Stored(ring, emitter, c, next, x)
    BY <1>3 DEF Stored
  <2>2. RingSound(next, Reached, [emitter EXCEPT ![c] = x])
    BY <1>1, <1>3, <2>1, StoredSound
  <2>3. QED
    BY <2>2
<1>6. emitter' \in [Callers -> Emit]
  BY <1>1
<1>7. \A t \in Slot \ next.overrun : next.slot[t].seq = ring.slot[t].seq \/ ring.slot[t].seq <= Reached
  <2>1. s \notin ring.overrun => ring.slot[s].seq <= Reached
    BY <1>1, ClaimIsAhead
  <2>2. QED
    BY <1>3, <2>1
<1>8. ring.write <= next.write
  BY <1>1, <1>3, MappedFacts
<1>9. ring.overrun \subseteq next.overrun
  BY <1>3
<1>10. QED
  BY <1>1, <1>3, <1>4, <1>5, <1>6, <1>7, <1>8, <1>9, EmitKeeps

\* What the slot of a busy thread has, as far as it is written.
LEMMA AtItsSlot ==
  ASSUME RingInv, NEW c \in Callers, emitter[c].pc # "idle"
  PROVE  LET i == emitter[c].claimed
             words == Ring.slot[SlotOf(i)]
         IN /\ i \in Nat /\ Mark(i) \in Nat /\ SlotOf(i) \in Slot
            /\ words \in Words /\ ledger.view \in View /\ Ring \in Mapped
            /\ SlotOf(i) \notin Ring.overrun =>
                 /\ emitter[c].pc \in {"args", "commit"} => words.api = Mark(i) /\ words.thread = Mark(i)
                 /\ emitter[c].pc = "commit" => words.args = Mark(i)
<1> DEFINE i == emitter[c].claimed
<1>1. /\ ledger.view \in View /\ Ring \in Mapped /\ emitter \in [Callers -> Emit]
      /\ RingSound(Ring, Reached, emitter)
  BY EmitsLive
<1>2. i \in Nat /\ SlotOf(i) \in Slot
  BY <1>1, EmitFacts, SlotIn
<1>3. Mark(i) \in Nat /\ Ring.slot[SlotOf(i)] \in Words
  BY <1>1, <1>2 DEF Mark, Mapped
<1>4. QED
  BY <1>1, <1>2, <1>3 DEF RingSound, ClaimsSound

LEMMA EmitHeadKeeps ==
  ASSUME RingInv, NEW c \in Callers, EmitHead(c)
  PROVE  RingInv'
<1> SUFFICES ASSUME NEW v, v = ledger.view, NEW ring, ring = views[v], NEW i, i = emitter[c].claimed,
                    NEW old, old = ring.slot[SlotOf(i)]
             PROVE  RingInv'
  OBVIOUS
<1> DEFINE count == IF old.seq # 0 /\ i + 1 >= old.seq + SlotCount THEN ring.dropped + 1 ELSE ring.dropped
           words == [old EXCEPT !.api = Mark(i), !.thread = Mark(i)]
           x == [emitter[c] EXCEPT !.pc = "args"]
<1>1. /\ i \in Nat /\ Mark(i) \in Nat /\ SlotOf(i) \in Slot /\ old \in Words
      /\ v \in View /\ ring \in Mapped
  BY AtItsSlot DEF EmitHead, Ring
<1>2. /\ words \in Words /\ words.seq = old.seq /\ words.api = Mark(i) /\ words.thread = Mark(i)
  BY <1>1 DEF Words
<1>3. count \in Nat
  BY <1>1, MappedFacts DEF Mapped
<1>4. emitter \in [Callers -> Emit] /\ views \in [View -> {Unmapped} \cup Mapped]
  BY DEF RingInv, RingTyped
<1>5. x \in Emit /\ x.pc = "args" /\ x.claimed = i /\ emitter' = [emitter EXCEPT ![c] = x]
  BY <1>4 DEF Emit, EmitHead
<1>6. views' = [views EXCEPT ![v] = [ring EXCEPT !.dropped = count, !.slot = [@ EXCEPT ![SlotOf(i)] = words]]]
  BY <1>1, <1>4 DEF EmitHead, Ring, Mapped
<1>7. /\ emitter[c].pc # "idle"
      /\ UNCHANGED <<host, ledger, attempts, apcs, sensor, device, doomed, drain, called, counted, misled>>
  BY DEF EmitHead
<1> HIDE DEF count, words, x
<1>8. LaidDown(i, ring.overrun, old, words, x)
  BY <1>2, <1>5 DEF LaidDown
<1>9. QED
  BY <1>2, <1>3, <1>5, <1>6, <1>7, <1>8, StoreKeeps

LEMMA EmitArgsKeeps ==
  ASSUME RingInv, NEW c \in Callers, EmitArgs(c)
  PROVE  RingInv'
<1> SUFFICES ASSUME NEW v, v = ledger.view, NEW ring, ring = views[v], NEW i, i = emitter[c].claimed,
                    NEW old, old = ring.slot[SlotOf(i)]
             PROVE  RingInv'
  OBVIOUS
<1> DEFINE count == ring.dropped
           words == [old EXCEPT !.args = Mark(i)]
           x == [emitter[c] EXCEPT !.pc = "commit"]
<1>1. /\ i \in Nat /\ Mark(i) \in Nat /\ SlotOf(i) \in Slot /\ old \in Words
      /\ v \in View /\ ring \in Mapped
      /\ SlotOf(i) \notin ring.overrun => old.api = Mark(i) /\ old.thread = Mark(i)
  BY AtItsSlot DEF EmitArgs, Ring
<1>2. /\ words \in Words /\ words.seq = old.seq /\ words.args = Mark(i)
      /\ SlotOf(i) \notin ring.overrun => words.api = Mark(i) /\ words.thread = Mark(i)
  BY <1>1 DEF Words
<1>3. count \in Nat
  BY <1>1 DEF Mapped
<1>4. emitter \in [Callers -> Emit] /\ views \in [View -> {Unmapped} \cup Mapped]
  BY DEF RingInv, RingTyped
<1>5. x \in Emit /\ x.pc = "commit" /\ x.claimed = i /\ emitter' = [emitter EXCEPT ![c] = x]
  BY <1>4 DEF Emit, EmitArgs
<1>6. views' = [views EXCEPT ![v] = [ring EXCEPT !.dropped = count, !.slot = [@ EXCEPT ![SlotOf(i)] = words]]]
  BY <1>1, <1>4 DEF EmitArgs, Ring, Mapped
<1>7. /\ emitter[c].pc # "idle"
      /\ UNCHANGED <<host, ledger, attempts, apcs, sensor, device, doomed, drain, called, counted, misled>>
  BY DEF EmitArgs
<1> HIDE DEF count, words, x
<1>8. LaidDown(i, ring.overrun, old, words, x)
  BY <1>2, <1>5 DEF LaidDown
<1>9. QED
  BY <1>2, <1>3, <1>5, <1>6, <1>7, <1>8, StoreKeeps

LEMMA EmitCommitKeeps ==
  ASSUME RingInv, NEW c \in Callers, EmitCommit(c)
  PROVE  RingInv'
<1> SUFFICES ASSUME NEW v, v = ledger.view, NEW ring, ring = views[v], NEW i, i = emitter[c].claimed,
                    NEW old, old = ring.slot[SlotOf(i)]
             PROVE  RingInv'
  OBVIOUS
<1> DEFINE count == ring.dropped
           words == [old EXCEPT !.seq = Mark(i)]
<1>1. /\ i \in Nat /\ Mark(i) \in Nat /\ SlotOf(i) \in Slot /\ old \in Words
      /\ v \in View /\ ring \in Mapped
      /\ SlotOf(i) \notin ring.overrun => old.api = Mark(i) /\ old.thread = Mark(i) /\ old.args = Mark(i)
  BY AtItsSlot DEF EmitCommit, Ring
<1>2. /\ words \in Words /\ words.seq = Mark(i)
      /\ SlotOf(i) \notin ring.overrun => words.api = Mark(i) /\ words.thread = Mark(i) /\ words.args = Mark(i)
  BY <1>1 DEF Words
<1>3. count \in Nat
  BY <1>1 DEF Mapped
<1>4. emitter \in [Callers -> Emit] /\ views \in [View -> {Unmapped} \cup Mapped]
  BY DEF RingInv, RingTyped
<1>5. NoEmit \in Emit /\ NoEmit.pc = "idle" /\ emitter' = [emitter EXCEPT ![c] = NoEmit]
  BY <1>4 DEF Emit, EmitCommit, NoEmit
<1>6. views' = [views EXCEPT ![v] = [ring EXCEPT !.dropped = count, !.slot = [@ EXCEPT ![SlotOf(i)] = words]]]
  BY <1>1, <1>4 DEF EmitCommit, Ring, Mapped
<1>7. /\ emitter[c].pc # "idle"
      /\ UNCHANGED <<host, ledger, attempts, apcs, sensor, device, doomed, drain, called, counted, misled>>
  BY DEF EmitCommit
<1> HIDE DEF count, words
<1>8. LaidDown(i, ring.overrun, old, words, NoEmit)
  BY <1>2, <1>5 DEF LaidDown
<1>9. QED
  BY <1>2, <1>3, <1>5, <1>6, <1>7, <1>8, StoreKeeps
-----------------------------------------------------------------------------
(* The drain                                                               *)

\* What a step of the drain may change.
Outside == <<host, attempts, apcs, sensor, device, views, doomed, emitter, misled>>

\* A drain of the process that lives has the entry's ring; any other has
\* nothing of it.
LEMMA DrainPlaced ==
  ASSUME RingInv, drain # NoDrain
  PROVE  /\ device = "agent" /\ drain.life <= host.life /\ drain.view \in View /\ drain.life \in Life
         /\ views[drain.view].life \in {0, drain.life}
         /\ ledger # NoEntry =>
              /\ ledger.life = drain.life <=> ledger.view = drain.view
              /\ ledger.life = drain.life => /\ Live /\ views[drain.view].life = drain.life /\ Reached = drain.cursor
                                             /\ drain.pc = "begin" => ledger.cursor = drain.cursor
              /\ ledger.life # drain.life => Reached = ledger.cursor
<1>1. RingTyped /\ OfItsTime /\ SensorPlaced /\ RingsPlaced
  BY DEF RingInv
<1>2. drain.view \in View /\ drain.life \in Life
  BY <1>1, PassFacts
<1>3. device = "agent" /\ drain.life <= host.life /\ views[drain.view].life \in {0, drain.life}
  BY <1>1 DEF OfItsTime, SensorPlaced, RingsPlaced
<1>4. SUFFICES ASSUME ledger # NoEntry
               PROVE  /\ ledger.life = drain.life <=> ledger.view = drain.view
                      /\ ledger.life = drain.life => /\ Live /\ views[drain.view].life = drain.life /\ Reached = drain.cursor
                                                     /\ drain.pc = "begin" => ledger.cursor = drain.cursor
                      /\ ledger.life # drain.life => Reached = ledger.cursor
  BY <1>2, <1>3
<1>5. ledger.life \in Life
  BY <1>1, <1>4, EntryFacts
<1>6. ledger.view # NoView => views[ledger.view].life = ledger.life
  BY <1>1, <1>4 DEF RingsPlaced
<1>7. ledger.life = drain.life => /\ ledger.view = drain.view
                                  /\ drain.pc = "begin" => ledger.cursor = drain.cursor
  BY <1>1, <1>4 DEF RingsPlaced
<1>8. ledger.view = drain.view => ledger.life = drain.life
  BY <1>2, <1>3, <1>5, <1>6, LifeFacts
<1>9. QED
  BY <1>2, <1>4, <1>6, <1>7, <1>8, LifeFacts DEF Live, Reached

\* A step of the drain keeps what is not about data.
LEMMA PassKeeps ==
  ASSUME RingInv, UNCHANGED Outside, UNCHANGED ledger,
         drain' \in {NoDrain} \cup Pass, drain' # NoDrain => device = "agent" /\ drain'.life <= host.life,
         counted' \in [Life -> Nat], \A l \in Life : host.life < l => counted'[l] = 0,
         IsFiniteSet(called'),
         \A r \in called' : r \in called \/ (r.ring \in Life /\ r.index \in Nat /\ r.ring <= host.life),
         DataInv'
  PROVE  RingInv'
<1>1. RingTyped /\ OfItsTime /\ SensorPlaced /\ ClaimedOnce
  BY DEF RingInv
<1>2. RingTyped'
  BY <1>1 DEF RingTyped, Outside
<1>3. OfItsTime'
  BY <1>1 DEF OfItsTime, Outside
<1>4. SensorPlaced' /\ ClaimedOnce'
  BY <1>1 DEF SensorPlaced, ClaimedOnce, Outside
<1>5. QED
  BY <1>2, <1>3, <1>4 DEF RingInv, DataInv

\* The drain ends with the cursor where the entry has it.
LEMMA DropKeeps ==
  ASSUME RingInv, drain # NoDrain, drain' = NoDrain, UNCHANGED Outside, UNCHANGED <<ledger, called, counted>>,
         ledger # NoEntry /\ ledger.life = drain.life => drain.cursor = ledger.cursor
  PROVE  RingInv'
<1>1. RingTyped /\ OfItsTime /\ DataInv
  BY InvParts
<1>2. ledger # NoEntry => Reached' = Reached
  BY DEF Reached
<1>3. RingsPlaced'
  BY <1>1 DEF DataInv, RingsPlaced, Outside
<1>4. Accounted'
  BY <1>1, <1>2 DEF DataInv, Accounted, Of, Outside
<1>5. LiveSound'
  <2>1. SUFFICES ASSUME Live'
                 PROVE  RingSound(views[ledger.view], Reached, emitter)'
    BY DEF LiveSound
  <2>2. RingSound(views[ledger.view], Reached, emitter) /\ Reached' = Reached
    BY <1>1, <1>2, <2>1 DEF DataInv, LiveSound, Live
  <2>3. QED
    BY <2>2 DEF Outside
<1>6. DrainSound' /\ PushedSound'
  BY <1>1 DEF DataInv, DrainSound, PushedSound
<1>7. DataInv'
  BY <1>3, <1>4, <1>5, <1>6 DEF DataInv
<1>8. QED
  BY <1>1, <1>7, PassKeeps DEF RingTyped, OfItsTime

\* A step of the drain touches the ring of the process it drains, or none at
\* all; then that process is gone.
LEMMA TouchFacts ==
  ASSUME RingInv, NEW pc, pc # "idle", Touch(pc)
  PROVE  /\ drain # NoDrain /\ drain.pc = pc /\ UNCHANGED Outside /\ UNCHANGED ledger
         /\ crashed' /\ ledger # NoEntry => ledger.life # drain.life
         /\ ~crashed' => Seen \in Mapped /\ Seen.life = drain.life /\ Seen # Unmapped
<1>1. drain.pc = pc /\ drain # NoDrain
  BY DEF Touch, NoDrain
<1>2. /\ drain.view \in View /\ Seen.life \in {0, drain.life} /\ drain.life \in Life
      /\ ledger # NoEntry /\ ledger.life = drain.life => Seen.life = drain.life
  BY <1>1, DrainPlaced DEF Seen
<1>3. Seen = Unmapped <=> Seen.life = 0
  BY <1>2, RingFacts DEF RingInv, Seen
<1>4. misled' = misled
  BY <1>2 DEF Touch
<1>5. Seen.life # 0 => Seen \in Mapped
  BY <1>2, RingFacts DEF RingInv, Seen
<1>6. crashed' = (Seen = Unmapped)
  BY DEF Touch
<1>7. UNCHANGED Outside /\ UNCHANGED ledger
  BY <1>4 DEF Touch, Outside
<1>8. QED
  BY <1>1, <1>2, <1>3, <1>5, <1>6, <1>7, LifeFacts

\* The ring and the cursor stay, what the drain knows of its slot changes.
LEMMA LookKeeps ==
  ASSUME RingInv, drain # NoDrain, UNCHANGED Outside, UNCHANGED <<ledger, called, counted>>,
         drain' \in Pass, drain'.view = drain.view, drain'.life = drain.life, drain'.cursor = drain.cursor,
         drain'.pc # "begin", DrainSound'
  PROVE  RingInv'
<1>1. RingTyped /\ OfItsTime /\ DataInv
  BY InvParts
<1>2. drain' # NoDrain /\ device = "agent" /\ drain'.life <= host.life
  BY DrainPlaced, NotNoDrain
<1>3. ledger # NoEntry => Reached' = Reached
  BY <1>2 DEF Reached
<1>4. RingsPlaced'
  BY <1>1, <1>2 DEF DataInv, RingsPlaced, Outside
<1>5. Accounted'
  BY <1>1, <1>3 DEF DataInv, Accounted, Of, Outside
<1>6. LiveSound'
  <2>1. SUFFICES ASSUME Live'
                 PROVE  RingSound(views[ledger.view], Reached, emitter)'
    BY DEF LiveSound
  <2>2. RingSound(views[ledger.view], Reached, emitter) /\ Reached' = Reached
    BY <1>1, <1>3, <2>1 DEF DataInv, LiveSound, Live
  <2>3. QED
    BY <2>2 DEF Outside
<1>7. PushedSound'
  BY <1>1 DEF DataInv, PushedSound
<1>8. DataInv'
  BY <1>4, <1>5, <1>6, <1>7 DEF DataInv
<1>9. QED
  BY <1>1, <1>2, <1>8, PassKeeps DEF RingTyped, OfItsTime

LEMMA SnapshotDrainKeeps ==
  ASSUME RingInv, DrainSnapshot
  PROVE  RingInv'
<1>1. RingTyped /\ OfItsTime /\ DataInv
  BY InvParts
<1>2. /\ device = "agent" /\ drain = NoDrain /\ ledger.state = "Registered" /\ ledger.view # NoView
      /\ drain' = [pc |-> "begin", view |-> ledger.view, life |-> ledger.life,
                   cursor |-> ledger.cursor, end |-> 0, taken |-> 0, api |-> 0, thread |-> 0]
      /\ UNCHANGED Outside /\ UNCHANGED <<ledger, called, counted>>
  BY DEF DrainSnapshot, Outside
<1>3. ledger # NoEntry
  BY <1>2 DEF NoEntry
<1>4. /\ ledger.view \in View /\ ledger.life \in Life /\ ledger.cursor \in Nat
      /\ views[ledger.view].life = ledger.life /\ ledger.life = host.life
  BY <1>1, <1>2, <1>3, EntryFacts DEF DataInv, RingsPlaced, OfItsTime
<1>5. /\ drain' \in Pass /\ drain'.pc = "begin" /\ drain'.view = ledger.view /\ drain'.life = ledger.life
      /\ drain'.cursor = ledger.cursor
  BY <1>2, <1>4 DEF Pass
<1>6. drain' # NoDrain /\ Reached' = ledger.cursor /\ Reached = ledger.cursor
  <2>1. drain' # NoDrain
    BY <1>5, NotNoDrain
  <2>2. QED
    BY <1>2, <1>5, <2>1 DEF Reached
<1>7. RingSound(views[ledger.view], ledger.cursor, emitter)
  BY <1>1, <1>2, <1>3, <1>6 DEF DataInv, LiveSound, Live
<1>8. RingsPlaced'
  BY <1>1, <1>2, <1>3, <1>4, <1>5, <1>6 DEF DataInv, RingsPlaced, Outside
<1>9. Accounted' /\ PushedSound'
  BY <1>1, <1>2, <1>6 DEF DataInv, Accounted, Of, PushedSound
<1>10. LiveSound'
  BY <1>2, <1>6, <1>7 DEF LiveSound, Outside
<1>11. DrainSound'
  <2>1. OneCall(views[ledger.view], ledger.cursor)
    BY <1>7 DEF RingSound
  <2>2. QED
    BY <1>2, <1>5, <2>1 DEF DrainSound, Outside
<1>12. DataInv'
  BY <1>8, <1>9, <1>10, <1>11 DEF DataInv
<1>13. drain'.life <= host.life
  BY <1>1, <1>4, <1>5, HostFacts
<1>14. QED
  BY <1>1, <1>2, <1>5, <1>12, <1>13, PassKeeps DEF RingTyped, OfItsTime

LEMMA WriteBackKeeps ==
  ASSUME RingInv, WriteBack
  PROVE  RingInv'
<1>1. RingTyped /\ OfItsTime /\ SensorPlaced /\ ClaimedOnce /\ DataInv
  BY InvParts
<1>2. /\ drain.pc = "back" /\ drain' = NoDrain
      /\ UNCHANGED <<host, attempts, apcs, sensor, device, views, doomed, emitter, called, counted>>
  BY DEF WriteBack
<1>3. drain # NoDrain
  BY <1>2 DEF NoDrain
<1>4. /\ drain.view \in View /\ drain.cursor \in Nat
      /\ ledger # NoEntry =>
           /\ ledger.life = drain.life <=> ledger.view = drain.view
           /\ ledger.life = drain.life => Reached = drain.cursor
  BY <1>1, <1>3, DrainPlaced, PassFacts
<1>5. CASE ledger # NoEntry /\ ledger.view = drain.view
  <2>1. ledger' = [ledger EXCEPT !.cursor = drain.cursor] /\ misled' = misled
    BY <1>4, <1>5 DEF WriteBack
  <2>2. ledger \in Entry
    BY <1>1, <1>5, EntryFacts
  <2>3. /\ ledger' \in Entry /\ ledger'.life = ledger.life /\ ledger'.view = ledger.view /\ ledger'.state = ledger.state
        /\ ledger'.cursor = drain.cursor /\ ledger' # NoEntry
    <3>1. /\ ledger' \in Entry /\ ledger'.life = ledger.life /\ ledger'.view = ledger.view
          /\ ledger'.state = ledger.state /\ ledger'.cursor = drain.cursor
      BY <1>4, <2>1, <2>2 DEF Entry
    <3>2. QED
      BY <3>1, NotNoEntry
  <2>4. Reached = drain.cursor /\ Reached' = drain.cursor
    BY <1>2, <1>4, <1>5, <2>3 DEF Reached
  <2>5. RingTyped'
    BY <1>1, <1>2, <2>1, <2>3 DEF RingTyped
  <2>6. OfItsTime'
    BY <1>1, <1>2, <1>5, <2>1, <2>3 DEF OfItsTime
  <2>7. SensorPlaced' /\ ClaimedOnce'
    BY <1>1, <1>2, <1>5, <2>1, <2>3 DEF SensorPlaced, ClaimedOnce
  <2>8. RingsPlaced'
    <3>1. ledger.view # NoView /\ views[ledger.view].life = ledger.life
      BY <1>1, <1>4, <1>5, LifeFacts DEF DataInv, RingsPlaced
    <3>2. QED
      BY <1>2, <2>3, <3>1 DEF RingsPlaced
  <2>9. Accounted' /\ PushedSound' /\ DrainSound'
    BY <1>1, <1>2, <1>5, <2>3, <2>4 DEF DataInv, Accounted, Of, PushedSound, DrainSound
  <2>10. LiveSound'
    <3>1. RingSound(views[ledger.view], drain.cursor, emitter)
      BY <1>1, <1>4, <1>5, <2>4, LifeFacts DEF DataInv, LiveSound, Live
    <3>2. QED
      BY <1>2, <2>3, <2>4, <3>1 DEF LiveSound
  <2>11. QED
    BY <2>5, <2>6, <2>7, <2>8, <2>9, <2>10 DEF RingInv
<1>6. CASE ~ (ledger # NoEntry /\ ledger.view = drain.view)
  <2>1. UNCHANGED <<ledger, misled>>
    BY <1>6 DEF WriteBack
  <2>2. UNCHANGED Outside
    BY <1>2, <2>1 DEF Outside
  <2>3. ~ (ledger # NoEntry /\ ledger.life = drain.life)
    BY <1>4, <1>6
  <2>4. QED
    BY <1>2, <1>3, <2>1, <2>2, <2>3, DropKeeps
<1>7. QED
  BY <1>5, <1>6

LEMMA DrainSlotKeeps ==
  ASSUME RingInv, DrainSlot
  PROVE  RingInv'
<1>1. /\ drain # NoDrain /\ drain.pc = "slot" /\ UNCHANGED Outside /\ UNCHANGED <<ledger, called, counted>>
      /\ crashed' /\ ledger # NoEntry => ledger.life # drain.life
      /\ ~crashed' => Seen \in Mapped /\ Seen # Unmapped
  BY TouchFacts DEF DrainSlot
<1>2. CASE crashed'
  BY <1>1, <1>2, DropKeeps DEF DrainSlot
<1>3. CASE ~crashed'
  <2>1. drain \in Pass /\ drain.cursor \in Nat
    BY <1>1, PassFacts DEF RingInv
  <2> DEFINE s == SlotOf(drain.cursor)
             go == drain.taken < DrainCap /\ drain.cursor < drain.end /\ Seen.slot[s].seq = Mark(drain.cursor)
  <2>2. drain' = IF go THEN [drain EXCEPT !.pc = "head"] ELSE [drain EXCEPT !.pc = "back"]
    BY <1>3 DEF DrainSlot
  <2> HIDE DEF go
  <2>3. /\ drain' \in Pass /\ drain'.view = drain.view /\ drain'.life = drain.life /\ drain'.cursor = drain.cursor
        /\ drain'.end = drain.end /\ drain'.pc = IF go THEN "head" ELSE "back"
    BY <2>1, <2>2 DEF Pass
  <2>4. drain.end <= Seen.write /\ OneCall(Seen, drain.cursor)
    BY <1>1, <1>3 DEF RingInv, DrainSound, Seen
  <2>5. DrainSound'
    BY <1>1, <2>3, <2>4 DEF DrainSound, Seen, Outside, go
  <2>6. QED
    BY <1>1, <2>3, <2>5, LookKeeps
<1>4. QED
  BY <1>2, <1>3

LEMMA DrainHeadKeeps ==
  ASSUME RingInv, DrainHead
  PROVE  RingInv'
<1>1. /\ drain # NoDrain /\ drain.pc = "head" /\ UNCHANGED Outside /\ UNCHANGED <<ledger, called, counted>>
      /\ crashed' /\ ledger # NoEntry => ledger.life # drain.life
      /\ ~crashed' => Seen \in Mapped /\ Seen # Unmapped
  BY TouchFacts DEF DrainHead
<1>2. CASE crashed'
  BY <1>1, <1>2, DropKeeps DEF DrainHead
<1>3. CASE ~crashed'
  <2> DEFINE s == SlotOf(drain.cursor)
             words == Seen.slot[s]
  <2>1. drain \in Pass /\ drain.cursor \in Nat /\ s \in Slot
    BY <1>1, PassFacts, SlotIn DEF RingInv
  <2>2. words.api \in Nat /\ words.thread \in Nat /\ words.seq \in Nat
    BY <1>1, <1>3, <2>1 DEF Mapped, Words
  <2>3. drain' = [drain EXCEPT !.pc = "args", !.api = words.api, !.thread = words.thread]
    BY <1>3 DEF DrainHead
  <2>4. /\ drain.end <= Seen.write /\ OneCall(Seen, drain.cursor) /\ drain.cursor < drain.end
        /\ s \notin Seen.overrun => words.seq = Mark(drain.cursor)
    BY <1>1, <1>3 DEF RingInv, DrainSound, Seen
  <2>5. s \notin Seen.overrun => words.api = Mark(drain.cursor) /\ words.thread = Mark(drain.cursor)
    BY <2>1, <2>2, <2>4 DEF OneCall, Mark
  <2> HIDE DEF words
  <2>6. /\ drain' \in Pass /\ drain'.view = drain.view /\ drain'.life = drain.life /\ drain'.cursor = drain.cursor
        /\ drain'.end = drain.end /\ drain'.pc = "args" /\ drain'.api = words.api /\ drain'.thread = words.thread
    BY <2>1, <2>2, <2>3 DEF Pass
  <2>7. DrainSound'
    BY <1>1, <2>4, <2>5, <2>6 DEF DrainSound, Seen, Outside, words
  <2>8. QED
    BY <1>1, <2>6, <2>7, LookKeeps
<1>4. QED
  BY <1>2, <1>3

\* The cursor moves on, by as much as is pushed or counted.
LEMMA AdvanceKeeps ==
  ASSUME RingInv, drain # NoDrain, Seen \in Mapped, Seen.life = drain.life, UNCHANGED Outside, UNCHANGED ledger,
         drain' \in Pass, drain'.view = drain.view, drain'.life = drain.life, drain'.pc = "slot",
         drain'.end <= Seen.write, drain.cursor <= drain'.cursor,
         ledger # NoEntry /\ ledger.life = drain.life => RingSound(Seen, drain'.cursor, emitter),
         IsFiniteSet(called'), counted' \in [Life -> Nat],
         \A l \in Life \ {drain.life} : counted'[l] = counted[l] /\ {r \in called' : r.ring = l} = Of(l),
         ledger # NoEntry /\ ledger.life = drain.life =>
           Cardinality({r \in called' : r.ring = drain.life}) + counted'[drain.life]
             = Cardinality(Of(drain.life)) + counted[drain.life] + (drain'.cursor - drain.cursor),
         \A r \in called' : r \in called \/ (/\ r.ring = drain.life /\ r.index = drain.cursor
                                             /\ drain.cursor < drain'.cursor),
         PushedSound'
  PROVE  RingInv'
<1>1. RingTyped /\ OfItsTime /\ DataInv
  BY InvParts
<1>2. /\ device = "agent" /\ drain.life <= host.life /\ drain.view \in View /\ drain.life \in Life
      /\ ledger # NoEntry =>
           /\ ledger.life = drain.life <=> ledger.view = drain.view
           /\ ledger.life = drain.life => /\ Live /\ Reached = drain.cursor
           /\ ledger.life # drain.life => Reached = ledger.cursor
  BY DrainPlaced
<1>3. drain' # NoDrain /\ drain.cursor \in Nat /\ drain'.cursor \in Nat /\ Seen = views[drain.view]
  <2>1. drain' # NoDrain
    BY NotNoDrain
  <2>2. QED
    BY <1>1, <2>1, PassFacts DEF Pass, Seen
<1>4. ledger # NoEntry => Reached' = IF ledger.life = drain.life THEN drain'.cursor ELSE ledger.cursor
  BY <1>3 DEF Reached
<1>5. RingsPlaced'
  BY <1>1, <1>3 DEF DataInv, RingsPlaced, Outside
<1>6. Accounted'
  <2>1. SUFFICES ASSUME ledger # NoEntry, NEW l, l = ledger.life
                 PROVE  /\ Cardinality({r \in called' : r.ring = l}) + counted'[l] = Reached'
                        /\ \A r \in called' : r.ring = l => r.index < Reached'
    BY DEF Accounted, Of
  <2>2. l \in Life
    BY <1>1, <2>1, EntryFacts
  <2>3. /\ Cardinality(Of(l)) + counted[l] = Reached
        /\ \A r \in called : r.ring = l => r.index < Reached
    BY <1>1, <2>1 DEF DataInv, Accounted, Of
  <2>4. CASE l # drain.life
    <3>1. counted'[l] = counted[l] /\ {r \in called' : r.ring = l} = Of(l) /\ Reached' = Reached
      BY <1>2, <1>4, <2>1, <2>2, <2>4
    <3>2. \A r \in called' : r.ring = l => r \in called
      BY <2>4
    <3>3. QED
      BY <2>3, <3>1, <3>2
  <2>5. CASE l = drain.life
    <3>1. Reached = drain.cursor /\ Reached' = drain'.cursor
      BY <1>2, <1>4, <2>1, <2>5
    <3>2. Cardinality({r \in called' : r.ring = l}) + counted'[l] = Reached'
      BY <1>3, <2>1, <2>3, <2>5, <3>1
    <3>3. \A r \in called' : r.ring = l => r.index < Reached'
      <4>1. SUFFICES ASSUME NEW r \in called', r.ring = l
                     PROVE  r.index < drain'.cursor
        BY <3>1
      <4>2. CASE r \in called
        <5>1. r.index \in Nat /\ r.index < drain.cursor
          BY <1>1, <2>3, <3>1, <4>1, <4>2 DEF RingTyped
        <5>2. QED
          BY <1>3, <5>1
      <4>3. QED
        BY <4>2
    <3>4. QED
      BY <3>2, <3>3
  <2>6. QED
    BY <2>4, <2>5
<1>7. LiveSound'
  <2>1. SUFFICES ASSUME Live'
                 PROVE  RingSound(views[ledger.view], Reached, emitter)'
    BY DEF LiveSound
  <2>2. ledger # NoEntry /\ Live
    BY <2>1 DEF Live
  <2>3. CASE ledger.life = drain.life
    <3>1. Reached' = drain'.cursor /\ RingSound(Seen, drain'.cursor, emitter) /\ views[ledger.view] = Seen
      BY <1>2, <1>3, <1>4, <2>2, <2>3
    <3>2. QED
      BY <3>1 DEF Outside
  <2>4. CASE ledger.life # drain.life
    <3>1. Reached' = Reached /\ RingSound(views[ledger.view], Reached, emitter)
      BY <1>1, <1>2, <1>4, <2>2, <2>4 DEF DataInv, LiveSound
    <3>2. QED
      BY <3>1 DEF Outside
  <2>5. QED
    BY <2>3, <2>4
<1>8. DrainSound'
  <2>1. OneCall(Seen, drain.cursor)
    <3>1. Seen # Unmapped
      BY <1>2, LifeFacts DEF Unmapped
    <3>2. QED
      BY <1>1, <1>3, <3>1 DEF DataInv, DrainSound
  <2>2. OneCall(Seen, drain'.cursor)
    <3>1. \A s \in Slot : Seen.slot[s].seq \in Nat
      BY MappedFacts
    <3>2. QED
      BY <1>3, <2>1, <3>1 DEF OneCall
  <2>3. views'[drain'.view] = Seen
    BY <1>3 DEF Outside
  <2>4. QED
    BY <2>2, <2>3 DEF DrainSound
<1>9. DataInv'
  BY <1>5, <1>6, <1>7, <1>8 DEF DataInv
<1>10. \A l \in Life : host.life < l => counted'[l] = 0
  <2>1. SUFFICES ASSUME NEW l \in Life, host.life < l
                 PROVE  counted'[l] = 0
    OBVIOUS
  <2>2. l # drain.life
    BY <1>1, <1>2, <2>1, HostFacts, LifeFacts
  <2>3. QED
    BY <1>1, <2>1, <2>2 DEF OfItsTime
<1>11. \A r \in called' : r \in called \/ (r.ring \in Life /\ r.index \in Nat /\ r.ring <= host.life)
  BY <1>2, <1>3
<1>12. drain' \in {NoDrain} \cup Pass /\ drain'.life <= host.life
  BY <1>2
<1>13. QED
  BY <1>2, <1>9, <1>10, <1>11, <1>12, PassKeeps

LEMMA DrainBeginKeeps ==
  ASSUME RingInv, DrainBegin
  PROVE  RingInv'
<1>1. /\ drain # NoDrain /\ drain.pc = "begin" /\ UNCHANGED Outside /\ UNCHANGED <<ledger, called>>
      /\ crashed' /\ ledger # NoEntry => ledger.life # drain.life
      /\ ~crashed' => Seen \in Mapped /\ Seen.life = drain.life
  BY TouchFacts DEF DrainBegin
<1>2. CASE crashed' \/ ~Seen.active
  <2>1. drain' = NoDrain /\ UNCHANGED counted
    BY <1>2 DEF DrainBegin
  <2>2. ledger # NoEntry /\ ledger.life = drain.life => drain.cursor = ledger.cursor
    BY <1>1, DrainPlaced
  <2>3. QED
    BY <1>1, <2>1, <2>2, DropKeeps
<1>3. CASE ~ (crashed' \/ ~Seen.active)
  <2> DEFINE behind == Seen.write > drain.cursor + SlotCount
             from == IF behind THEN Seen.write - SlotCount ELSE drain.cursor
             more == from - drain.cursor
  <2>1. Seen \in Mapped /\ Seen.life = drain.life /\ Seen.write \in Nat
    BY <1>1, <1>3, MappedFacts
  <2>2. drain \in Pass /\ drain.cursor \in Nat /\ drain.life \in Life
    BY <1>1, PassFacts DEF RingInv
  <2>3. from \in Nat /\ drain.cursor <= from /\ more \in Nat
    BY <2>1, <2>2, LifeFacts
  <2>4. /\ drain' = [drain EXCEPT !.pc = "slot", !.cursor = from, !.end = Seen.write]
        /\ counted' = [counted EXCEPT ![drain.life] = @ + more]
    BY <1>3, <2>1 DEF DrainBegin
  <2>5. ledger # NoEntry /\ ledger.life = drain.life => RingSound(Seen, from, emitter)
    <3>1. SUFFICES ASSUME ledger # NoEntry, ledger.life = drain.life
                   PROVE  RingSound(Seen, from, emitter)
      OBVIOUS
    <3>2. Live /\ Reached = drain.cursor /\ ledger.view = drain.view
      BY <1>1, <3>1, DrainPlaced
    <3>3. RingSound(Seen, drain.cursor, emitter)
      BY <3>2 DEF RingInv, LiveSound, Seen
    <3>4. emitter \in [Callers -> Emit]
      BY DEF RingInv, RingTyped
    <3>5. CASE behind
      BY <2>1, <2>2, <3>3, <3>4, <3>5, SkipKeepsRing
    <3>6. CASE ~behind
      BY <3>3, <3>6
    <3>7. QED
      BY <3>5, <3>6
  <2> HIDE DEF from, more
  <2>6. /\ drain' \in Pass /\ drain'.view = drain.view /\ drain'.life = drain.life /\ drain'.pc = "slot"
        /\ drain'.end = Seen.write /\ drain'.cursor = from
    BY <2>1, <2>2, <2>3, <2>4 DEF Pass
  <2>7. counted \in [Life -> Nat] /\ IsFiniteSet(called)
    BY DEF RingInv, RingTyped
  <2>8. /\ counted' \in [Life -> Nat] /\ counted'[drain.life] = counted[drain.life] + more
        /\ \A l \in Life \ {drain.life} : counted'[l] = counted[l]
    BY <2>2, <2>3, <2>4, <2>7
  <2>9. \A l : {r \in called' : r.ring = l} = Of(l)
    BY <1>1 DEF Of
  <2>10. Cardinality({r \in called' : r.ring = drain.life}) + counted'[drain.life]
           = Cardinality(Of(drain.life)) + counted[drain.life] + (drain'.cursor - drain.cursor)
    <3>1. Cardinality(Of(drain.life)) \in Nat
      <4>1. IsFiniteSet(Of(drain.life))
        BY <2>7, FS_Subset DEF Of
      <4>2. QED
        BY <4>1, FS_CardinalityType
    <3>2. drain'.cursor - drain.cursor = more /\ counted[drain.life] \in Nat
      BY <2>2, <2>6, <2>7 DEF more
    <3>3. Cardinality({r \in called' : r.ring = drain.life}) = Cardinality(Of(drain.life))
      BY <2>9
    <3>4. QED
      BY <2>3, <2>8, <3>1, <3>2, <3>3
  <2>11. PushedSound'
    BY <1>1 DEF RingInv, PushedSound
  <2>12. drain'.end <= Seen.write /\ drain.cursor <= drain'.cursor
    BY <2>1, <2>3, <2>6
  <2>13. ledger # NoEntry /\ ledger.life = drain.life => RingSound(Seen, drain'.cursor, emitter)
    BY <2>5, <2>6
  <2>14. IsFiniteSet(called') /\ \A r \in called' : r \in called
    BY <1>1, <2>7
  <2>15. QED
    BY <1>1, <2>1, <2>6, <2>8, <2>9, <2>10, <2>11, <2>12, <2>13, <2>14, AdvanceKeeps
<1>4. QED
  BY <1>2, <1>3

LEMMA DrainArgsKeeps ==
  ASSUME RingInv, DrainArgs
  PROVE  RingInv'
<1>1. /\ drain # NoDrain /\ drain.pc = "args" /\ UNCHANGED Outside /\ UNCHANGED ledger
      /\ crashed' /\ ledger # NoEntry => ledger.life # drain.life
      /\ ~crashed' => Seen \in Mapped /\ Seen.life = drain.life /\ Seen # Unmapped
  BY TouchFacts DEF DrainArgs
<1>2. CASE crashed'
  BY <1>1, <1>2, DropKeeps DEF DrainArgs
<1>3. CASE ~crashed'
  <2> DEFINE s == SlotOf(drain.cursor)
             words == Seen.slot[s]
             record == BehaviorCall(<<"api", drain.api>>, <<"thread", drain.thread>>, words.args)
  <2>1. Seen \in Mapped /\ Seen.life = drain.life /\ Seen.write \in Nat /\ Seen # Unmapped
    BY <1>1, <1>3, MappedFacts
  <2>2. /\ drain \in Pass /\ drain.cursor \in Nat /\ drain.life \in Life /\ drain.end \in Nat /\ drain.taken \in Nat
        /\ s \in Slot
    BY <1>1, PassFacts, SlotIn DEF RingInv
  <2>3. words.seq \in Nat
    BY <2>1, <2>2, MappedFacts
  <2>4. /\ \/ called' = called \cup {record} /\ counted' = counted
           \/ called' = called /\ counted' = [counted EXCEPT ![drain.life] = @ + 1]
        /\ drain' = [drain EXCEPT !.pc = "slot", !.cursor = @ + 1, !.taken = @ + 1, !.api = 0, !.thread = 0]
    BY <1>3, <2>1 DEF DrainArgs
  <2>5. /\ drain' \in Pass /\ drain'.view = drain.view /\ drain'.life = drain.life /\ drain'.pc = "slot"
        /\ drain'.end = drain.end /\ drain'.cursor = drain.cursor + 1
    <3>1. drain' = [drain EXCEPT !.pc = "slot", !.cursor = drain.cursor + 1, !.taken = drain.taken + 1,
                                 !.api = 0, !.thread = 0]
      BY <2>4
    <3>2. drain.cursor + 1 \in Nat /\ drain.taken + 1 \in Nat
      BY <2>2
    <3>3. QED
      BY <2>2, <3>1, <3>2 DEF Pass
  <2>6. /\ drain.end <= Seen.write /\ drain.cursor < drain.end /\ OneCall(Seen, drain.cursor)
        /\ s \notin Seen.overrun => /\ words.seq = Mark(drain.cursor)
                                    /\ drain.api = Mark(drain.cursor) /\ drain.thread = Mark(drain.cursor)
    BY <1>1, <2>1 DEF RingInv, DrainSound, Seen
  <2>7. /\ record.ring = drain.life /\ record.life = drain.life /\ record.index = drain.cursor
        /\ record.lapped = (s \in Seen.overrun) /\ record.ThreadId[2] = drain.api /\ record.Api[2] = drain.thread
        /\ record.Args = words.args
    BY <2>1 DEF BehaviorCall
  <2> HIDE DEF record
  <2>8. PushedSound'
    <3>1. s \notin Seen.overrun => words.args = Mark(drain.cursor)
      BY <2>2, <2>3, <2>6 DEF OneCall, Mark
    <3>2. /\ record.life = record.ring
          /\ record.lapped \/ (/\ record.ThreadId[2] = Mark(record.index) /\ record.Api[2] = Mark(record.index)
                               /\ record.Args = Mark(record.index))
      BY <2>6, <2>7, <3>1
    <3>3. QED
      BY <2>4, <3>2 DEF RingInv, PushedSound
  <2>9. ledger # NoEntry /\ ledger.life = drain.life => RingSound(Seen, drain.cursor + 1, emitter)
    <3>1. SUFFICES ASSUME ledger # NoEntry, ledger.life = drain.life
                   PROVE  RingSound(Seen, drain.cursor + 1, emitter)
      OBVIOUS
    <3>2. Live /\ Reached = drain.cursor /\ ledger.view = drain.view
      BY <1>1, <3>1, DrainPlaced
    <3>3. RingSound(Seen, drain.cursor, emitter)
      BY <3>2 DEF RingInv, LiveSound, Seen
    <3>4. emitter \in [Callers -> Emit]
      BY DEF RingInv, RingTyped
    <3>5. ASSUME NEW c \in Callers, emitter[c].pc # "idle", SlotOf(emitter[c].claimed) \notin Seen.overrun
          PROVE  drain.cursor + 1 <= emitter[c].claimed
      <4> DEFINE i == emitter[c].claimed
      <4>1. i \in Nat
        BY <3>4, EmitFacts
      <4>2. drain.cursor <= i /\ Seen.slot[SlotOf(i)].seq # Mark(i)
        BY <3>3, <3>5 DEF RingSound, ClaimsSound
      <4>3. i # drain.cursor
        BY <2>6, <3>5, <4>2
      <4>4. QED
        BY <2>2, <4>1, <4>2, <4>3
    <3>6. drain.cursor + 1 \in Nat /\ drain.cursor <= drain.cursor + 1 /\ drain.cursor + 1 <= Seen.write
      BY <2>1, <2>2, <2>6
    <3>7. QED
      BY <2>1, <2>2, <3>3, <3>4, <3>5, <3>6, CursorKeepsRing
  <2>10. counted \in [Life -> Nat] /\ IsFiniteSet(called)
    BY DEF RingInv, RingTyped
  <2>11. IsFiniteSet(called')
    BY <2>4, <2>10, FS_AddElement
  <2>12. \A l \in Life \ {drain.life} : counted'[l] = counted[l] /\ {r \in called' : r.ring = l} = Of(l)
    BY <2>2, <2>4, <2>7, <2>10 DEF Of
  <2>13. ASSUME ledger # NoEntry, ledger.life = drain.life
         PROVE  Cardinality({r \in called' : r.ring = drain.life}) + counted'[drain.life]
                  = Cardinality(Of(drain.life)) + counted[drain.life] + (drain'.cursor - drain.cursor)
    <3>1. IsFiniteSet(Of(drain.life))
      BY <2>10, FS_Subset DEF Of
    <3>2. Cardinality(Of(drain.life)) \in Nat /\ counted[drain.life] \in Nat /\ drain'.cursor - drain.cursor = 1
      BY <2>2, <2>5, <2>10, <3>1, FS_CardinalityType
    <3>3. CASE called' = called \cup {record} /\ counted' = counted
      <4>1. {r \in called' : r.ring = drain.life} = Of(drain.life) \cup {record}
        BY <2>7, <3>3 DEF Of
      <4>2. \A r \in Of(drain.life) : r.index < drain.cursor
        BY <1>1, <2>13, DrainPlaced DEF RingInv, Accounted
      <4>3. record \notin Of(drain.life)
        BY <2>2, <2>7, <4>2
      <4>4. Cardinality(Of(drain.life) \cup {record}) = Cardinality(Of(drain.life)) + 1
        BY <3>1, <4>3, FS_AddElement
      <4>5. Cardinality({r \in called' : r.ring = drain.life}) = Cardinality(Of(drain.life)) + 1
        BY <4>1, <4>4
      <4>6. QED
        BY <3>2, <3>3, <4>5
    <3>4. CASE called' = called /\ counted' = [counted EXCEPT ![drain.life] = @ + 1]
      <4>1. {r \in called' : r.ring = drain.life} = Of(drain.life)
        BY <3>4 DEF Of
      <4>2. counted'[drain.life] = counted[drain.life] + 1
        BY <2>2, <2>10, <3>4
      <4>3. Cardinality({r \in called' : r.ring = drain.life}) = Cardinality(Of(drain.life))
        BY <4>1
      <4>4. QED
        BY <3>2, <4>2, <4>3
    <3>5. QED
      BY <2>4, <3>3, <3>4
  <2>14. \A r \in called' : r \in called \/ (/\ r.ring = drain.life /\ r.index = drain.cursor
                                             /\ drain.cursor < drain'.cursor)
    BY <2>2, <2>4, <2>5, <2>7
  <2>15. drain'.end <= Seen.write /\ drain.cursor <= drain'.cursor
    BY <2>2, <2>5, <2>6
  <2>16. ledger # NoEntry /\ ledger.life = drain.life => RingSound(Seen, drain'.cursor, emitter)
    BY <2>5, <2>9
  <2>17. counted' \in [Life -> Nat]
    BY <2>2, <2>4, <2>10
  <2>18. QED
    BY <1>1, <2>1, <2>5, <2>8, <2>11, <2>12, <2>13, <2>14, <2>15, <2>16, <2>17, AdvanceKeeps
<1>4. QED
  BY <1>2, <1>3
-----------------------------------------------------------------------------
LEMMA RingStarts ==
  ASSUME RingInit
  PROVE  RingInv
<1>1. /\ host = [life |-> 0, alive |-> FALSE] /\ ledger = NoEntry /\ attempts = {} /\ apcs = [l \in Life |-> 0]
      /\ sensor = [pc |-> "absent", tries |-> 0] /\ device = "free"
      /\ views = [v \in View |-> Unmapped] /\ doomed = NoView /\ emitter = [c \in Callers |-> NoEmit]
      /\ drain = NoDrain /\ called = {} /\ counted = [l \in Life |-> 0] /\ misled = {}
  BY DEF RingInit
<1>2. NoEmit \in Emit /\ NoEmit.pc = "idle"
  BY DEF NoEmit, Emit
<1>3. RingTyped
  <2>1. host \in [life : 0 .. Lives, alive : BOOLEAN]
    BY <1>1, LifeFacts
  <2>2. IsFiniteSet(called) /\ \A r \in called : r.ring \in Life /\ r.index \in Nat
    BY <1>1, FS_EmptySet
  <2>3. emitter \in [Callers -> Emit]
    BY <1>1, <1>2
  <2>4. sensor \in [pc : SensorPc, tries : Nat] /\ device \in {"free", "sensor", "agent"}
    BY <1>1 DEF SensorPc
  <2>5. apcs \in [Life -> Nat] /\ counted \in [Life -> Nat] /\ views \in [View -> {Unmapped} \cup Mapped]
    BY <1>1
  <2>6. QED
    BY <1>1, <2>1, <2>2, <2>3, <2>4, <2>5 DEF RingTyped
<1>4. OfItsTime
  BY <1>1 DEF OfItsTime, Unmapped
<1>5. SensorPlaced
  BY <1>1, <1>2 DEF SensorPlaced, Unmapped
<1>6. ClaimedOnce
  BY <1>1 DEF ClaimedOnce
<1>7. RingsPlaced /\ Accounted /\ LiveSound /\ DrainSound /\ PushedSound
  BY <1>1 DEF RingsPlaced, Accounted, LiveSound, Live, DrainSound, PushedSound
<1>8. QED
  BY <1>3, <1>4, <1>5, <1>6, <1>7 DEF RingInv

LEMMA RingSteps ==
  ASSUME RingInv, [RingNext]_ringVars
  PROVE  RingInv'
<1>1. CASE Ledger
  BY <1>1, CreateKeeps, FirstThreadKeeps, ImageKeeps, SnapshotKeeps, FixupKeeps, ExitKeeps, DestroyKeeps DEF Ledger
<1>2. CASE Sensor
  <2>1. CASE ApcRuns \/ OpenDevice \/ Challenge \/ Register \/ WaitActive \/ InstallHooks
    BY <2>1, ApcKeeps, OpenKeeps, ChallengeKeeps, RegisterKeeps, WaitKeeps
  <2>2. ASSUME NEW c \in Callers, EmitClaim(c) \/ EmitHead(c) \/ EmitArgs(c) \/ EmitCommit(c)
        PROVE  RingInv'
    BY <2>2, EmitClaimKeeps, EmitHeadKeeps, EmitArgsKeeps, EmitCommitKeeps
  <2>3. QED
    BY <1>2, <2>1, <2>2 DEF Sensor
<1>3. CASE Drain
  BY <1>3, AgentKeeps, SnapshotDrainKeeps, DrainBeginKeeps, DrainSlotKeeps, DrainHeadKeeps, DrainArgsKeeps,
     WriteBackKeeps DEF Drain
<1>4. CASE UNCHANGED ringVars
  BY <1>4, NothingMoves DEF ringVars
<1>5. QED
  BY <1>1, <1>2, <1>3, <1>4 DEF RingNext

\* The entry, its attempts and APCs, the handshake, the ring and the drain
\* (Injection.cpp, sensor.rs, ring.rs) stay in step, whatever the interleaving
\* of callbacks, handshakes, emits, drains and exits.
THEOREM RingInvariant == RingSpec => []RingInv
<1>1. RingInit => RingInv
  BY RingStarts
<1>2. RingInv /\ [RingNext]_ringVars => RingInv'
  BY RingSteps
<1>3. QED
  BY <1>1, <1>2, PTL DEF RingSpec

\* The drain without a lock (InjectionDrainRings) pushes every call below the
\* cursor exactly once or counts it, and a record is of the process it names and
\* of one call, but for a slot claimed again before it was drained: for rings of
\* any size, any number of threads and any cap of a drain.
THEOREM RingIsExact == RingSpec => []RingExact
<1>1. RingInv => RingExact
  BY DEF RingInv, Accounted, Of, PushedSound, RingExact
<1>2. QED
  BY <1>1, RingInvariant, PTL

\* A process is injected at most once and has a ring only if it was
\* (TryInjectLocked and the gate of the challenge), in whatever order threads,
\* images, attempts and fixups come.
THEOREM InjectedAtMostOnce == RingSpec => []InjectedOnce
<1>1. ASSUME RingInv, NEW l \in Life \ misled
      PROVE  apcs[l] <= 1 /\ ((\E v \in View : views[v].life = l) => apcs[l] = 1)
  <2>1. apcs[l] <= 1 /\ apcs[l] \in Nat /\ l # 0
    BY <1>1, LifeFacts DEF RingInv, ClaimedOnce, RingTyped
  <2>2. \A v \in View : views[v].life = l => apcs[l] > 0
    BY <1>1, <2>1 DEF RingInv, SensorPlaced
  <2>3. QED
    BY <2>1, <2>2
<1>2. RingInv => InjectedOnce
  BY <1>1 DEF InjectedOnce
<1>3. QED
  BY <1>2, RingInvariant, PTL
=============================================================================
