------------------------- MODULE ScopeTrackingProofs -------------------------
(***************************************************************************)
(* The scope follows the target's tree: for any pids and paths, any length *)
(* of the stream, any events the source loses and any namesakes of the     *)
(* target's image.                                                         *)
(*                                                                         *)
(* The tracker lags behind the operating system by the events in flight.   *)
(* The invariant says what it will know after each of them: functions T, O *)
(* and C over the positions of the stream that start at its present state, *)
(* go on event by event, and end at the truth.  As long as the image is    *)
(* not expected a namesake does not enter, and how far the stream is read  *)
(* when the expectation comes is open: there are such functions from every *)
(* position on then.                                                       *)
(***************************************************************************)
EXTENDS ScopeTracking, SequenceTheorems, TLAPS

Tree == {p \in Pid : os[p] = "in"}
Known == {p \in Pid : os[p] \in {"in", "alias"}}
Live == {p \in Pid : recs[p] = "live"}
IsTarget(e) == e.kind = "started" /\ e.name = "target"
Expecting == expected \/ pending

Class == {"free", "in", "alias", "out"}
LaunchState == {"idle", "queued", "resolved", "Token", "SchedTask", "primary", "created",
                "ran", "runFailed", "done", "failed"}
TaskState == [def : {"none", "defined", "again"}, fired : BOOLEAN]
NoTask == [def |-> "none", fired |-> FALSE]

TrackTyped ==
  /\ os \in [Pid -> Class]
  /\ written \subseteq Path /\ released \subseteq Path
  /\ lost \subseteq {"started", "stopped"}
  /\ namesake \in {"none", "late", "early"}
  /\ stream \in Seq(Event)
  /\ {expected, pending, died} \subseteq BOOLEAN
  /\ recs \in [Pid -> {"none", "live", "ended"}]
  /\ observed \subseteq Path /\ closed \subseteq Path
  /\ launch \in LaunchState /\ task \in TaskState

\* The scope, the drops seen and the drops closed, after one more event.
TreeAfter(e, t) ==
  IF e.kind = "started" /\ (e.parent \in t \/ e.name = "target") THEN t \union {e.pid}
  ELSE IF e.kind = "stopped" THEN t \ {e.pid} ELSE t
SeenAfter(e, t, o) ==
  IF e.kind = "written" /\ e.pid \in t /\ e.path \in Matches THEN o \union {e.path} ELSE o
ClosedAfter(e, t, o, c) ==
  IF e.kind = "closed" /\ e.pid \in t /\ e.path \in o THEN c \union {e.path} ELSE c

\* What the events in flight lead to is the truth, as far as none was lost.
Meets(t, o, c) ==
  /\ "stopped" \notin lost => t \subseteq Known /\ (namesake = "none" => t \subseteq Tree)
  /\ "started" \notin lost => Tree \subseteq t
  /\ lost = {} =>
       /\ written \subseteq o /\ released \subseteq c
       /\ namesake = "none" => o = written /\ c = released

\* From the position s of the stream on, with the present state there.
Follows(s, T, O, C) ==
  /\ s \in 0 .. Len(stream)
  /\ T \in [s .. Len(stream) -> SUBSET Pid]
  /\ T[s] = Live /\ O[s] = observed /\ C[s] = closed
  /\ \A i \in s + 1 .. Len(stream) :
       /\ T[i] = TreeAfter(stream[i], T[i - 1])
       /\ O[i] = SeenAfter(stream[i], T[i - 1], O[i - 1])
       /\ C[i] = ClosedAfter(stream[i], T[i - 1], O[i - 1], C[i - 1])
  /\ Meets(T[Len(stream)], O[Len(stream)], C[Len(stream)])

Followed(s) == \E T, O, C : Follows(s, T, O, C)

Pipelined ==
  /\ Followed(0)
  /\ ~Expecting => \A s \in 0 .. Len(stream) : Followed(s)

\* Without an expectation there is nothing to follow.
Quiet ==
  ~Expecting =>
    /\ \A p \in Pid : recs[p] = "none"
    /\ Tree = {} /\ written = {} /\ released = {} /\ observed = {} /\ closed = {}

\* Nothing is launched before the source is attached, and the image is expected
\* before anything can start it.
LaunchInv ==
  /\ trace # "on" =>
       /\ stream = <<>> /\ rundown = {} /\ Tree = {} /\ launch = "idle"
       /\ \A p \in Pid : recs[p] = "none"
  /\ ~attempted => launch = "idle"
  /\ launch \in {"idle", "queued", "resolved", "Token", "primary", "SchedTask"} => task = NoTask
  /\ launch = "created" => task = [def |-> "defined", fired |-> FALSE]
  /\ task.def = "again" => launch \in {"done", "failed"}
  /\ launch \in {"Token", "SchedTask", "primary", "created", "ran", "runFailed", "done"}
       \/ task # NoTask => Expecting

\* The tree alone, after one more event that is not the target's own start.
Kin(e, r) ==
  IF e.kind = "started" /\ e.parent \in r THEN r \union {e.pid}
  ELSE IF e.kind = "stopped" THEN r \ {e.pid} ELSE r

\* One start of the target, at the position k of the stream (0 is behind, and
\* one beyond the last is to come), and the tree R that grows from it.  Unless a
\* namesake came before it, nothing is in the scope until then.
Grows(k, R) ==
  /\ k \in 0 .. Len(stream) + 1 /\ R \in [0 .. Len(stream) -> SUBSET Pid]
  /\ R[0] \subseteq Live
  /\ \A i \in 0 .. Len(stream) : i < k => R[i] = {}
  /\ k \in 1 .. Len(stream) => IsTarget(stream[k]) /\ R[k] = {stream[k].pid} /\ Expecting
  /\ \A i \in 1 .. Len(stream) : i > k => R[i] = Kin(stream[i], R[i - 1])
  /\ \A i, j \in 0 .. Len(stream) : k <= i /\ i <= j /\ R[i] = {} => R[j] = {}
  /\ Tree \subseteq R[Len(stream)]
  /\ Armed <=> k = Len(stream) + 1
  /\ namesake # "early" =>
       /\ k >= 1 => /\ \A p \in Pid : recs[p] = "none"
                   /\ \A i \in 1 .. Len(stream) : i < k => ~IsTarget(stream[i])
       /\ died => k = 0 /\ R[0] = {}

OneStart == "started" \notin lost /\ task.def # "again" => \E k, R : Grows(k, R)

TrackInv == TrackTyped /\ LaunchInv /\ Quiet /\ OneStart /\ Pipelined
-----------------------------------------------------------------------------
(* Events and queues                                                       *)

LEMMA EventKinds ==
  ASSUME NEW e \in Event
  PROVE  /\ e.kind \in {"started", "stopped", "written", "closed"} /\ e.pid \in Pid
         /\ e.kind = "started" => e.parent \in Pid \union {NoPid} /\ e.name \in Name
         /\ e.kind \in {"written", "closed"} => e.path \in Path
  BY DEF Event, Started, Stopped, FileEvent

LEMMA AppendAt ==
  ASSUME NEW S, NEW s \in Seq(S), NEW x \in S
  PROVE  /\ Append(s, x) \in Seq(S) /\ Len(Append(s, x)) = Len(s) + 1
         /\ \A i \in 1 .. Len(s) : Append(s, x)[i] = s[i]
         /\ Append(s, x)[Len(s) + 1] = x
  OBVIOUS

LEMMA TailAt ==
  ASSUME NEW S, NEW s \in Seq(S), s # <<>>
  PROVE  /\ Tail(s) \in Seq(S) /\ Len(Tail(s)) = Len(s) - 1 /\ Len(s) \in Nat /\ Len(s) >= 1
         /\ \A i \in 1 .. Len(s) - 1 : Tail(s)[i] = s[i + 1]
         /\ Head(s) = s[1] /\ s[1] \in S
  OBVIOUS
-----------------------------------------------------------------------------
(* The functions of the invariant along a step                             *)

\* Nothing moves in the stream: the functions stay.
LEMMA StandsStill ==
  ASSUME NEW s, NEW T, NEW O, NEW C, Follows(s, T, O, C), UNCHANGED <<stream, recs, observed, closed>>,
         NEW n, n = Len(stream), Meets(T[n], O[n], C[n])'
  PROVE  Followed(s)'
<1>1. Follows(s, T, O, C)'
  <2>1. Len(stream') = n /\ Live' = Live
    BY DEF Live
  <2>2. QED
    BY <2>1 DEF Follows
<1>2. QED
  BY <1>1 DEF Followed

\* One event more: they are continued by it.
LEMMA GoesOn ==
  ASSUME NEW s, NEW T, NEW O, NEW C, Follows(s, T, O, C), stream \in Seq(Event),
         NEW e \in Event, stream' = Append(stream, e), UNCHANGED <<recs, observed, closed>>,
         NEW n, n = Len(stream),
         NEW t, t = TreeAfter(e, T[n]), NEW o, o = SeenAfter(e, T[n], O[n]),
         NEW c, c = ClosedAfter(e, T[n], O[n], C[n]), Meets(t, o, c)'
  PROVE  Followed(s)'
<1> DEFINE TT == [i \in s .. n + 1 |-> IF i = n + 1 THEN t ELSE T[i]]
           OO == [i \in s .. n + 1 |-> IF i = n + 1 THEN o ELSE O[i]]
           CC == [i \in s .. n + 1 |-> IF i = n + 1 THEN c ELSE C[i]]
<1>1. /\ n \in Nat /\ Len(stream') = n + 1 /\ stream'[n + 1] = e
      /\ \A i \in 1 .. n : stream'[i] = stream[i]
  BY AppendAt
<1>2. /\ s \in 0 .. n /\ T \in [s .. n -> SUBSET Pid]
      /\ T[s] = Live /\ O[s] = observed /\ C[s] = closed
      /\ \A i \in s + 1 .. n :
           /\ T[i] = TreeAfter(stream[i], T[i - 1])
           /\ O[i] = SeenAfter(stream[i], T[i - 1], O[i - 1])
           /\ C[i] = ClosedAfter(stream[i], T[i - 1], O[i - 1], C[i - 1])
  BY DEF Follows
<1>3. t \in SUBSET Pid
  BY <1>1, <1>2, EventKinds DEF TreeAfter
<1>4. TT \in [s .. n + 1 -> SUBSET Pid]
  BY <1>1, <1>2, <1>3
<1>5. TT[s] = Live' /\ OO[s] = observed' /\ CC[s] = closed'
  BY <1>1, <1>2 DEF Live
<1>6. ASSUME NEW i \in s + 1 .. n + 1
      PROVE  /\ TT[i] = TreeAfter(stream'[i], TT[i - 1])
             /\ OO[i] = SeenAfter(stream'[i], TT[i - 1], OO[i - 1])
             /\ CC[i] = ClosedAfter(stream'[i], TT[i - 1], OO[i - 1], CC[i - 1])
  <2>1. TT[i - 1] = T[i - 1] /\ OO[i - 1] = O[i - 1] /\ CC[i - 1] = C[i - 1]
    BY <1>1, <1>2
  <2>2. CASE i = n + 1
    BY <1>1, <1>2, <2>1, <2>2
  <2>3. CASE i \in s + 1 .. n
    <3>1. TT[i] = T[i] /\ OO[i] = O[i] /\ CC[i] = C[i] /\ stream'[i] = stream[i]
      BY <1>1, <1>2, <2>3
    <3> HIDE DEF TT, OO, CC
    <3>2. QED
      BY <1>2, <2>1, <2>3, <3>1
  <2>4. QED
    BY <1>1, <1>2, <2>2, <2>3
<1>7. TT[n + 1] = t /\ OO[n + 1] = o /\ CC[n + 1] = c
  BY <1>1, <1>2
<1> HIDE DEF TT, OO, CC
<1>8. Follows(s, TT, OO, CC)'
  BY <1>1, <1>2, <1>4, <1>5, <1>6, <1>7 DEF Follows
<1>9. QED
  BY <1>8 DEF Followed

\* One event less: what they said of the time after it holds now.
LEMMA CatchesUp ==
  ASSUME NEW T, NEW O, NEW C, stream \in Seq(Event), stream # <<>>, NEW n, n = Len(stream),
         NEW s \in 1 .. n, T \in [s .. n -> SUBSET Pid],
         T[s] = Live', O[s] = observed', C[s] = closed',
         \A i \in s + 1 .. n :
           /\ T[i] = TreeAfter(stream[i], T[i - 1])
           /\ O[i] = SeenAfter(stream[i], T[i - 1], O[i - 1])
           /\ C[i] = ClosedAfter(stream[i], T[i - 1], O[i - 1], C[i - 1]),
         Meets(T[n], O[n], C[n]),
         stream' = Tail(stream), UNCHANGED <<os, written, released, lost, namesake>>
  PROVE  Followed(s - 1)'
<1> DEFINE TT == [i \in s - 1 .. n - 1 |-> T[i + 1]]
           OO == [i \in s - 1 .. n - 1 |-> O[i + 1]]
           CC == [i \in s - 1 .. n - 1 |-> C[i + 1]]
<1>1. /\ n \in Nat /\ n >= 1 /\ Len(stream') = n - 1
      /\ \A i \in 1 .. n - 1 : stream'[i] = stream[i + 1]
  BY TailAt
<1>3. TT \in [s - 1 .. n - 1 -> SUBSET Pid]
  BY <1>1
<1>4. TT[s - 1] = Live' /\ OO[s - 1] = observed' /\ CC[s - 1] = closed'
  <2>1. s - 1 \in s - 1 .. n - 1 /\ (s - 1) + 1 = s
    BY <1>1
  <2>2. TT[s - 1] = T[s] /\ OO[s - 1] = O[s] /\ CC[s - 1] = C[s]
    BY <2>1
  <2> HIDE DEF TT, OO, CC
  <2>3. QED
    BY <2>2
<1>5. ASSUME NEW i \in (s - 1) + 1 .. n - 1
      PROVE  /\ TT[i] = TreeAfter(stream'[i], TT[i - 1])
             /\ OO[i] = SeenAfter(stream'[i], TT[i - 1], OO[i - 1])
             /\ CC[i] = ClosedAfter(stream'[i], TT[i - 1], OO[i - 1], CC[i - 1])
  <2>1. /\ i + 1 \in s + 1 .. n /\ (i + 1) - 1 = i /\ stream'[i] = stream[i + 1]
        /\ i - 1 \in s - 1 .. n - 1 /\ i \in s - 1 .. n - 1 /\ (i - 1) + 1 = i
    BY <1>1
  <2>2. /\ TT[i - 1] = T[i] /\ OO[i - 1] = O[i] /\ CC[i - 1] = C[i]
        /\ TT[i] = T[i + 1] /\ OO[i] = O[i + 1] /\ CC[i] = C[i + 1]
    BY <2>1
  <2> HIDE DEF TT, OO, CC
  <2>3. QED
    BY <2>1, <2>2
<1>6. Meets(TT[n - 1], OO[n - 1], CC[n - 1])'
  <2>1. TT[n - 1] = T[n] /\ OO[n - 1] = O[n] /\ CC[n - 1] = C[n]
    BY <1>1
  <2> HIDE DEF TT, OO, CC
  <2>2. QED
    BY <1>1, <2>1 DEF Meets, Tree, Known
<1> HIDE DEF TT, OO, CC
<1>7. s - 1 \in 0 .. n - 1
  BY <1>1
<1>8. Follows(s - 1, TT, OO, CC)'
  BY <1>1, <1>3, <1>4, <1>5, <1>6, <1>7 DEF Follows
<1>9. QED
  BY <1>8 DEF Followed

\* Without an expectation they may start where the stream ends.
LEMMA StartsHere ==
  ASSUME stream' \in Seq(Event), Quiet', ~Expecting' PROVE Followed(Len(stream))'
<1>1. Len(stream') \in Nat /\ Live' = {}
  BY DEF Quiet, Live
<1> DEFINE Z(n) == [i \in n .. n |-> {}]
<1> SUFFICES ASSUME NEW n \in Nat, n = Len(stream') PROVE Followed(Len(stream))'
  BY <1>1
<1>2. Z(n)[n] = {} /\ Z(n) \in [n .. n -> SUBSET Pid]
  OBVIOUS
<1>3. Meets({}, {}, {})' /\ observed' = {} /\ closed' = {}
  BY DEF Meets, Quiet
<1>4. n + 1 .. n = {} /\ n \in 0 .. n
  OBVIOUS
<1> HIDE DEF Z
<1>5. Follows(Len(stream), Z(n), Z(n), Z(n))'
  BY <1>1, <1>2, <1>3, <1>4 DEF Follows
<1>6. QED
  BY <1>5 DEF Followed
-----------------------------------------------------------------------------
(* What the operating system does and the source reports                   *)

\* The step does to the processes and the files what the event e tells of it.
Tells(e) ==
  /\ \A t \in SUBSET Pid :
       /\ t \subseteq Known => TreeAfter(e, t) \subseteq Known'
       /\ t \subseteq Tree /\ namesake' = "none" /\ trace = "on" => TreeAfter(e, t) \subseteq Tree'
       /\ Tree \subseteq t => Tree' \subseteq TreeAfter(e, t)
  /\ namesake' = "none" => namesake = "none"
  /\ SeenAfter(e, Tree, written) = written'
  /\ ClosedAfter(e, Tree, written, released) = released'
  /\ e.kind = "started" => Tree \subseteq Tree' /\ Known \subseteq Known'
  /\ e.kind = "stopped" => Tree' \subseteq Tree
  /\ trace # "on" => Tree' = {} /\ UNCHANGED <<written, released, namesake>>

\* More in the scope is more drops seen and closed.
LEMMA DropsMonotone ==
  ASSUME NEW e, NEW t, NEW u, t \subseteq u, NEW o, NEW v, o \subseteq v, NEW c, NEW d, c \subseteq d
  PROVE  SeenAfter(e, t, o) \subseteq SeenAfter(e, u, v) /\ ClosedAfter(e, t, o, c) \subseteq ClosedAfter(e, u, v, d)
  BY DEF SeenAfter, ClosedAfter

\* Whether the event is sent or lost, the functions from one position go on.
LEMMA EmitFollows ==
  ASSUME TrackTyped, NEW s, Followed(s), NEW e \in Event, Tells(e), Emit(e), trace = "on",
         UNCHANGED <<recs, observed, closed>>
  PROVE  Followed(s)'
<1>1. PICK T, O, C : Follows(s, T, O, C)
  BY DEF Followed
<1>2. PICK n \in Nat : n = Len(stream)
  BY DEF TrackTyped
<1>3. /\ T[n] \in SUBSET Pid
      /\ "stopped" \notin lost => T[n] \subseteq Known /\ (namesake = "none" => T[n] \subseteq Tree)
      /\ "started" \notin lost => Tree \subseteq T[n]
      /\ lost = {} =>
           /\ written \subseteq O[n] /\ released \subseteq C[n]
           /\ namesake = "none" => O[n] = written /\ C[n] = released
  BY <1>1, <1>2 DEF Follows, Meets
<1>4. CASE stream' = Append(stream, e) /\ UNCHANGED lost
  <2> DEFINE t == TreeAfter(e, T[n])
             o == SeenAfter(e, T[n], O[n])
             c == ClosedAfter(e, T[n], O[n], C[n])
  <2>1. "stopped" \notin lost => t \subseteq Known' /\ (namesake' = "none" => t \subseteq Tree')
    BY <1>3 DEF Tells
  <2>2. "started" \notin lost => Tree' \subseteq t
    BY <1>3 DEF Tells
  <2>3. ASSUME lost = {} PROVE written' \subseteq o /\ released' \subseteq c
    <3>1. Tree \subseteq T[n] /\ written \subseteq O[n] /\ released \subseteq C[n]
      BY <1>3, <2>3
    <3>2. SeenAfter(e, Tree, written) \subseteq o /\ ClosedAfter(e, Tree, written, released) \subseteq c
      BY <3>1, DropsMonotone
    <3>3. QED
      BY <3>2 DEF Tells
  <2>4. lost = {} /\ namesake' = "none" => o = written' /\ c = released'
    <3>1. lost = {} /\ namesake' = "none" => T[n] = Tree /\ O[n] = written /\ C[n] = released
      BY <1>3 DEF Tells
    <3>2. QED
      BY <3>1 DEF Tells
  <2> HIDE DEF t, o, c
  <2>5. Meets(t, o, c)'
    BY <1>4, <2>1, <2>2, <2>3, <2>4 DEF Meets
  <2>6. QED
    BY <1>1, <1>2, <1>4, <2>5, GoesOn DEF TrackTyped, t, o, c
<1>5. CASE UNCHANGED stream /\ lost \subseteq {e.kind} /\ lost' = {e.kind} /\ e.kind \in Lossy
  <2>1. e.kind \in {"started", "stopped"}
    BY <1>5, TrackingAssumption
  <2>2. Meets(T[n], O[n], C[n])'
    <3>1. CASE e.kind = "started"
      BY <1>3, <1>5, <3>1 DEF Meets, Tells
    <3>2. CASE e.kind = "stopped"
      BY <1>3, <1>5, <3>2 DEF Meets, Tells
    <3>3. QED
      BY <2>1, <3>1, <3>2
  <2>3. QED
    BY <1>1, <1>2, <1>5, <2>2, StandsStill
<1>6. QED
  BY <1>4, <1>5 DEF Emit

\* What either leaves behind in the stream.
Sends(e) ==
  /\ stream' \in Seq(Event) /\ lost \subseteq lost' /\ lost' \subseteq {"started", "stopped"}
  /\ \/ stream' = stream /\ (trace = "on" => e.kind \in lost')
     \/ trace = "on" /\ stream' = Append(stream, e)

LEMMA EmitSends ==
  ASSUME TrackTyped, NEW e \in Event, Emit(e), trace = "on" PROVE Sends(e)
<1>1. stream \in Seq(Event) /\ lost \subseteq {"started", "stopped"}
  BY DEF TrackTyped
<1>2. CASE stream' = Append(stream, e) /\ UNCHANGED lost
  BY <1>1, <1>2, AppendAt DEF Sends
<1>3. CASE UNCHANGED stream /\ lost \subseteq {e.kind} /\ lost' = {e.kind} /\ e.kind \in Lossy
  BY <1>1, <1>3, TrackingAssumption DEF Sends
<1>4. QED
  BY <1>2, <1>3 DEF Emit

LEMMA EmitKeeps ==
  ASSUME TrackTyped, Pipelined, Quiet', NEW e \in Event, Tells(e), Emit(e), trace = "on",
         UNCHANGED <<recs, observed, closed>>, Expecting' <=> Expecting
  PROVE  Pipelined'
<1>1. Followed(0)'
  BY EmitFollows DEF Pipelined
<1>2. ASSUME ~Expecting', NEW s \in 0 .. Len(stream') PROVE Followed(s)'
  <2>1. Sends(e) /\ stream \in Seq(Event)
    BY EmitSends DEF TrackTyped
  <2>2. CASE s \in 0 .. Len(stream)
    BY <1>2, <2>2, EmitFollows DEF Pipelined
  <2>3. CASE s \notin 0 .. Len(stream)
    <3>1. s = Len(stream')
      <4>1. stream' = stream \/ Len(stream') = Len(stream) + 1
        BY <2>1, AppendAt DEF Sends
      <4>2. QED
        BY <2>1, <2>3, <4>1
    <3>2. QED
      BY <1>2, <2>1, <3>1, StartsHere DEF Sends
  <2>4. QED
    BY <2>2, <2>3
<1>3. QED
  BY <1>1, <1>2 DEF Pipelined

\* Before the source is attached nothing is reported and nothing is in the scope.
LEMMA UnreportedKeeps ==
  ASSUME TrackTyped, LaunchInv, Pipelined, NEW e \in Event, Tells(e), trace # "on",
         UNCHANGED <<stream, lost, recs, observed, closed>>, Expecting' <=> Expecting
  PROVE  Pipelined'
<1>1. stream = <<>> /\ Tree = {} /\ Live = {}
  BY DEF LaunchInv, Live
<1>2. Tree' = {} /\ UNCHANGED <<written, released, namesake>>
  BY DEF Tells
<1>3. ASSUME NEW s, Followed(s) PROVE Followed(s)'
  <2>1. PICK T, O, C : Follows(s, T, O, C)
    BY <1>3 DEF Followed
  <2>2. s = 0 /\ T[0] = {} /\ Meets(T[0], O[0], C[0]) /\ Len(stream) = 0
    BY <1>1, <2>1 DEF Follows
  <2>3. Meets(T[0], O[0], C[0])'
    BY <1>1, <1>2, <2>2 DEF Meets
  <2>4. QED
    BY <2>1, <2>2, <2>3, StandsStill
<1>4. QED
  BY <1>3 DEF Pipelined

LEMMA ReportKeeps ==
  ASSUME TrackTyped, LaunchInv, Pipelined, Quiet', NEW e \in Event, Tells(e), Report(e),
         UNCHANGED <<tracker, pending>>
  PROVE  Pipelined'
<1>1. UNCHANGED <<recs, observed, closed>> /\ (Expecting' <=> Expecting)
  BY DEF tracker, Expecting
<1>2. CASE trace = "on"
  BY <1>1, <1>2, EmitKeeps DEF Report
<1>3. CASE trace # "on" /\ UNCHANGED <<stream, lost>>
  BY <1>1, <1>3, UnreportedKeeps
<1>4. QED
  BY <1>2, <1>3 DEF Report

LEMMA ReportSends ==
  ASSUME TrackTyped, NEW e \in Event, Report(e) PROVE Sends(e)
  BY EmitSends DEF Report, Sends, TrackTyped
-----------------------------------------------------------------------------
(* The one start along a step                                              *)

\* Nothing is sent and nobody enters the tree.
LEMMA GrowsStill ==
  ASSUME NEW k, NEW R, Grows(k, R), UNCHANGED <<stream, recs, died>>,
         Tree' \subseteq Tree, Expecting => Expecting', Armed' <=> Armed,
         namesake' # "early" => namesake # "early"
  PROVE  Grows(k, R)'
<1>1. Live' = Live
  BY DEF Live
<1>2. QED
  BY <1>1 DEF Grows

\* The launch has failed: the start that was to come does not.
LEMMA GrowsNoMore ==
  ASSUME NEW k, NEW R, Grows(k, R), UNCHANGED <<stream, recs>>, stream \in Seq(Event),
         Tree' \subseteq Tree, Armed, ~Armed'
  PROVE  \E l, S : Grows(l, S)'
<1> SUFFICES ASSUME NEW n \in Nat, n = Len(stream) PROVE \E l, S : Grows(l, S)'
  OBVIOUS
<1> DEFINE S == [i \in 0 .. n |-> {}]
<1>1. k = n + 1 /\ Tree' = {}
  BY DEF Grows
<1>2. S \in [0 .. n -> SUBSET Pid] /\ \A i \in 0 .. n : S[i] = {}
  OBVIOUS
<1> HIDE DEF S
<1>3. ASSUME NEW i \in 1 .. n PROVE S[i] = Kin(stream[i], S[i - 1])
  <2>1. i - 1 \in 0 .. n /\ i \in 0 .. n
    OBVIOUS
  <2>2. S[i] = {} /\ S[i - 1] = {}
    BY <1>2, <2>1
  <2>3. QED
    BY <2>2 DEF Kin
<1>4. Grows(0, S)'
  BY <1>1, <1>2, <1>3 DEF Grows
<1>5. QED
  BY <1>4

\* One event more that is not the target's start.
LEMMA GrowsOn ==
  ASSUME NEW k, NEW R, Grows(k, R), stream \in Seq(Event), NEW e \in Event,
         stream' = Append(stream, e), UNCHANGED <<recs, died>>,
         \A r \in SUBSET Pid : Tree \subseteq r => Tree' \subseteq Kin(e, r),
         Tree = {} => Tree' = {}, Expecting => Expecting', Armed' <=> Armed,
         namesake' # "early" => namesake # "early" /\ ~(Armed /\ IsTarget(e))
  PROVE  \E l, S : Grows(l, S)'
<1> SUFFICES ASSUME NEW n \in Nat, n = Len(stream) PROVE \E l, S : Grows(l, S)'
  OBVIOUS
<1> DEFINE l == IF k = n + 1 THEN n + 2 ELSE k
           x == IF k = n + 1 THEN {} ELSE Kin(e, R[n])
           S == [i \in 0 .. n + 1 |-> IF i = n + 1 THEN x ELSE R[i]]
<1>1. /\ Len(stream') = n + 1 /\ stream'[n + 1] = e
      /\ \A i \in 1 .. n : stream'[i] = stream[i]
  BY AppendAt
<1>2. /\ k \in 0 .. n + 1 /\ R \in [0 .. n -> SUBSET Pid] /\ R[0] \subseteq Live
      /\ \A i \in 0 .. n : i < k => R[i] = {}
      /\ k \in 1 .. n => IsTarget(stream[k]) /\ R[k] = {stream[k].pid} /\ Expecting
      /\ \A i \in 1 .. n : i > k => R[i] = Kin(stream[i], R[i - 1])
      /\ \A i, j \in 0 .. n : k <= i /\ i <= j /\ R[i] = {} => R[j] = {}
      /\ Tree \subseteq R[n] /\ (Armed <=> k = n + 1)
      /\ namesake # "early" =>
           /\ k >= 1 => /\ \A p \in Pid : recs[p] = "none"
                       /\ \A i \in 1 .. n : i < k => ~IsTarget(stream[i])
           /\ died => k = 0 /\ R[0] = {}
  BY DEF Grows
<1>3. x \in SUBSET Pid /\ Live' = Live
  BY <1>2, EventKinds DEF Kin, Live
<1>4. /\ S \in [0 .. n + 1 -> SUBSET Pid] /\ S[n + 1] = x
      /\ \A i \in 0 .. n : S[i] = R[i]
  BY <1>2, <1>3
<1>5. l \in 0 .. n + 2 /\ (l = n + 2 <=> k = n + 1) /\ (l # n + 2 => l = k)
  BY <1>2
<1>6. R[n] = {} /\ k # n + 1 => x = {}
  BY DEF Kin
<1>7. k = n + 1 => x = {} /\ Tree = {} /\ R[n] = {}
  BY <1>2
<1>8. k # n + 1 => x = Kin(e, R[n]) /\ Tree' \subseteq x
  BY <1>2
<1> HIDE DEF l, x, S
<1>10. ASSUME NEW i \in 0 .. n + 1, i < l PROVE S[i] = {}
  BY <1>2, <1>4, <1>5, <1>7, <1>10
<1>11. l \in 1 .. n + 1 => IsTarget(stream'[l]) /\ S[l] = {stream'[l].pid} /\ Expecting'
  BY <1>1, <1>2, <1>4, <1>5
<1>12. ASSUME NEW i \in 1 .. n + 1, i > l PROVE S[i] = Kin(stream'[i], S[i - 1])
  <2>1. l = k /\ k # n + 1
    BY <1>5, <1>12
  <2>2. CASE i = n + 1
    BY <1>1, <1>4, <1>8, <2>1, <2>2
  <2>3. CASE i \in 1 .. n
    <3>1. i - 1 \in 0 .. n /\ i \in 0 .. n
      BY <2>3
    <3>2. S[i] = R[i] /\ S[i - 1] = R[i - 1] /\ stream'[i] = stream[i]
      BY <1>1, <1>4, <2>3, <3>1
    <3>3. R[i] = Kin(stream[i], R[i - 1])
      BY <1>2, <1>12, <2>1, <2>3
    <3>4. QED
      BY <3>2, <3>3
  <2>4. QED
    BY <2>2, <2>3
<1>13. ASSUME NEW i \in 0 .. n + 1, NEW j \in 0 .. n + 1, l <= i, i <= j, S[i] = {} PROVE S[j] = {}
  <2>1. l = k /\ k # n + 1
    BY <1>5, <1>13
  <2>2. CASE j \in 0 .. n
    <3>1. i \in 0 .. n /\ S[i] = R[i] /\ S[j] = R[j]
      BY <1>4, <1>13, <2>2
    <3>2. R[j] = {}
      BY <1>2, <1>13, <2>1, <2>2, <3>1
    <3>3. QED
      BY <3>1, <3>2
  <2>3. CASE j = n + 1 /\ i \in 0 .. n
    <3>1. R[n] = {}
      BY <1>2, <1>4, <1>13, <2>1, <2>3
    <3>2. QED
      BY <1>4, <1>6, <2>1, <2>3, <3>1
  <2>4. QED
    BY <1>13, <2>2, <2>3
<1>14. Tree' \subseteq S[n + 1]
  BY <1>4, <1>7, <1>8
<1>15. namesake' # "early" =>
         /\ l >= 1 => /\ \A p \in Pid : recs'[p] = "none"
                     /\ \A i \in 1 .. n + 1 : i < l => ~IsTarget(stream'[i])
         /\ died' => l = 0 /\ S[0] = {}
  <2> SUFFICES ASSUME namesake' # "early" PROVE
         /\ l >= 1 => /\ \A p \in Pid : recs'[p] = "none"
                     /\ \A i \in 1 .. n + 1 : i < l => ~IsTarget(stream'[i])
         /\ died' => l = 0 /\ S[0] = {}
    OBVIOUS
  <2>1. l >= 1 => k >= 1
    BY <1>2, <1>5
  <2>2. ASSUME NEW i \in 1 .. n + 1, i < l PROVE ~IsTarget(stream'[i])
    <3>1. CASE i = n + 1
      BY <1>1, <1>2, <1>5, <2>2, <3>1
    <3>2. CASE i \in 1 .. n
      BY <1>1, <1>2, <1>5, <2>2, <3>2
    <3>3. QED
      BY <3>1, <3>2
  <2>3. died' => l = 0 /\ S[0] = {}
    BY <1>2, <1>4, <1>5
  <2>4. QED
    BY <1>2, <2>1, <2>2, <2>3
<1>16. Grows(l, S)'
  <2>1. Armed' <=> l = n + 2
    BY <1>2, <1>5
  <2>2. l \in 0 .. Len(stream') + 1 /\ n + 2 = Len(stream') + 1 /\ Len(stream') = n + 1
    BY <1>1, <1>5
  <2>3. S[0] \subseteq Live'
    BY <1>2, <1>3, <1>4
  <2>4. QED
    BY <1>4, <1>10, <1>11, <1>12, <1>13, <1>14, <1>15, <2>1, <2>2, <2>3 DEF Grows
<1>17. QED
  BY <1>16

\* The target's start.
LEMMA GrowsFrom ==
  ASSUME NEW k, NEW R, Grows(k, R), stream \in Seq(Event), NEW e \in Event, IsTarget(e),
         stream' = Append(stream, e), UNCHANGED <<recs, died, namesake>>,
         Tree' \subseteq Tree \union {e.pid}, Expecting', Armed, ~Armed'
  PROVE  \E l, S : Grows(l, S)'
<1> SUFFICES ASSUME NEW n \in Nat, n = Len(stream) PROVE \E l, S : Grows(l, S)'
  OBVIOUS
<1> DEFINE S == [i \in 0 .. n + 1 |-> IF i = n + 1 THEN {e.pid} ELSE R[i]]
<1>1. /\ Len(stream') = n + 1 /\ stream'[n + 1] = e
      /\ \A i \in 1 .. n : stream'[i] = stream[i]
  BY AppendAt
<1>2. /\ k = n + 1 /\ R \in [0 .. n -> SUBSET Pid] /\ R[0] \subseteq Live
      /\ \A i \in 0 .. n : R[i] = {}
      /\ Tree = {}
      /\ namesake # "early" =>
           /\ \A p \in Pid : recs[p] = "none"
           /\ \A i \in 1 .. n : ~IsTarget(stream[i])
           /\ ~died
  BY DEF Grows
<1>3. e.pid \in Pid /\ Live' = Live
  BY EventKinds DEF Live
<1>4. /\ S \in [0 .. n + 1 -> SUBSET Pid] /\ S[n + 1] = {e.pid}
      /\ \A i \in 0 .. n : S[i] = {}
  BY <1>2, <1>3
<1> HIDE DEF S
<1>5. n + 1 \in 0 .. Len(stream') + 1 /\ Len(stream') = n + 1
  BY <1>1
<1>6. Tree' \subseteq S[n + 1]
  BY <1>2, <1>4
<1>7. \A i, j \in 0 .. n + 1 : n + 1 <= i /\ i <= j /\ S[i] = {} => S[j] = {}
  BY <1>4
<1>8. S[0] \subseteq Live'
  BY <1>4
<1>9. /\ \A i \in 0 .. n + 1 : i < n + 1 => S[i] = {}
      /\ IsTarget(stream'[n + 1]) /\ S[n + 1] = {stream'[n + 1].pid}
      /\ \A i \in 1 .. n + 1 : ~(i > n + 1)
  BY <1>1, <1>4
<1>10. namesake # "early" =>
         /\ \A p \in Pid : recs[p] = "none"
         /\ \A i \in 1 .. n + 1 : i < n + 1 => ~IsTarget(stream'[i])
         /\ ~died
  BY <1>1, <1>2
<1>11. Grows(n + 1, S)'
  BY <1>4, <1>5, <1>6, <1>7, <1>8, <1>9, <1>10 DEF Grows
<1>12. QED
  BY <1>11

\* One event less.
LEMMA GrowsAccept ==
  ASSUME NEW k, NEW R, Grows(k, R), stream \in Seq(Event), stream # <<>>, stream' = Tail(stream),
         \A r \in SUBSET Pid : r \subseteq Live => Kin(stream[1], r) \subseteq Live',
         IsTarget(stream[1]) /\ Expecting => stream[1].pid \in Live',
         ~IsTarget(stream[1]) /\ (\A p \in Pid : recs[p] = "none") => recs' = recs,
         died' => died \/ (Live' = {} /\ \E p \in Pid : recs[p] # "none"),
         UNCHANGED <<os, namesake>>, Expecting => Expecting', Armed' <=> Armed
  PROVE  \E l, S : Grows(l, S)'
<1>1. /\ Len(stream) \in Nat /\ Len(stream) >= 1 /\ Len(stream') = Len(stream) - 1
      /\ \A i \in 1 .. Len(stream) - 1 : stream'[i] = stream[i + 1]
  BY TailAt
<1> SUFFICES ASSUME NEW n \in Nat, n = Len(stream) PROVE \E l, S : Grows(l, S)'
  BY <1>1
<1> DEFINE l == IF k = 0 THEN 0 ELSE k - 1
           S == [i \in 0 .. n - 1 |-> R[i + 1]]
<1>2. /\ k \in 0 .. n + 1 /\ R \in [0 .. n -> SUBSET Pid] /\ R[0] \subseteq Live
      /\ \A i \in 0 .. n : i < k => R[i] = {}
      /\ k \in 1 .. n => IsTarget(stream[k]) /\ R[k] = {stream[k].pid} /\ Expecting
      /\ \A i \in 1 .. n : i > k => R[i] = Kin(stream[i], R[i - 1])
      /\ \A i, j \in 0 .. n : k <= i /\ i <= j /\ R[i] = {} => R[j] = {}
      /\ Tree \subseteq R[n] /\ (Armed <=> k = n + 1)
      /\ namesake # "early" =>
           /\ k >= 1 => /\ \A p \in Pid : recs[p] = "none"
                       /\ \A i \in 1 .. n : i < k => ~IsTarget(stream[i])
           /\ died => k = 0 /\ R[0] = {}
  BY DEF Grows
<1>3. /\ n >= 1 /\ Len(stream') = n - 1 /\ 1 \in 1 .. n
      /\ \A i \in 1 .. n - 1 : stream'[i] = stream[i + 1]
  BY <1>1
<1>4. S \in [0 .. n - 1 -> SUBSET Pid] /\ (\A i \in 0 .. n - 1 : S[i] = R[i + 1])
  BY <1>2, <1>3
<1>5. l \in 0 .. n /\ (l = 0 <=> k \in {0, 1}) /\ (k >= 1 => l = k - 1) /\ (l = n <=> k = n + 1)
  BY <1>2, <1>3
<1> HIDE DEF l, S
<1>6. S[0] = R[1] /\ S[n - 1] = R[n]
  <2>1. 0 \in 0 .. n - 1 /\ n - 1 \in 0 .. n - 1 /\ 0 + 1 = 1 /\ (n - 1) + 1 = n
    BY <1>3
  <2>2. QED
    BY <1>4, <2>1
<1>7. S[0] \subseteq Live'
  <2>1. CASE k = 0
    <3>1. R[1] = Kin(stream[1], R[0]) /\ R[0] \in SUBSET Pid
      <4>1. 1 > k /\ 1 - 1 = 0 /\ 0 \in 0 .. n
        BY <1>3, <2>1
      <4>2. QED
        BY <1>2, <1>3, <4>1
    <3>2. QED
      BY <1>2, <1>6, <3>1
  <2>2. CASE k = 1
    BY <1>2, <1>3, <1>6, <2>2
  <2>3. CASE k > 1
    BY <1>2, <1>3, <1>6, <2>3
  <2>4. QED
    BY <1>2, <2>1, <2>2, <2>3
<1>8. ASSUME NEW i \in 0 .. n - 1, i < l PROVE S[i] = {}
  BY <1>2, <1>4, <1>5, <1>8
<1>9. l \in 1 .. n - 1 => IsTarget(stream'[l]) /\ S[l] = {stream'[l].pid} /\ Expecting'
  <2> SUFFICES ASSUME l \in 1 .. n - 1 PROVE IsTarget(stream'[l]) /\ S[l] = {stream'[l].pid} /\ Expecting'
    OBVIOUS
  <2>1. l + 1 = k /\ k \in 1 .. n /\ l \in 0 .. n - 1
    BY <1>2, <1>5
  <2>2. S[l] = R[k] /\ stream'[l] = stream[k]
    BY <1>3, <1>4, <2>1
  <2>3. QED
    BY <1>2, <2>1, <2>2
<1>10. ASSUME NEW i \in 1 .. n - 1, i > l PROVE S[i] = Kin(stream'[i], S[i - 1])
  <2>1. /\ i - 1 \in 0 .. n - 1 /\ i \in 0 .. n - 1 /\ (i - 1) + 1 = i
        /\ i + 1 \in 1 .. n /\ i + 1 > k /\ (i + 1) - 1 = i
    BY <1>2, <1>5, <1>10
  <2>2. S[i] = R[i + 1] /\ S[i - 1] = R[i] /\ stream'[i] = stream[i + 1]
    BY <1>3, <1>4, <2>1
  <2>3. R[i + 1] = Kin(stream[i + 1], R[i])
    BY <1>2, <2>1
  <2>4. QED
    BY <2>2, <2>3
<1>11. ASSUME NEW i \in 0 .. n - 1, NEW j \in 0 .. n - 1, l <= i, i <= j, S[i] = {} PROVE S[j] = {}
  <2>1. i + 1 \in 0 .. n /\ j + 1 \in 0 .. n /\ k <= i + 1 /\ i + 1 <= j + 1
    BY <1>2, <1>5, <1>11
  <2>2. S[i] = R[i + 1] /\ S[j] = R[j + 1]
    BY <1>4
  <2>3. QED
    BY <1>2, <1>11, <2>1, <2>2
<1>12. Tree' \subseteq S[n - 1]
  BY <1>2, <1>6 DEF Tree
<1>13. ASSUME namesake' # "early", l >= 1
       PROVE  /\ \A p \in Pid : recs'[p] = "none"
              /\ \A i \in 1 .. n - 1 : i < l => ~IsTarget(stream'[i])
  <2>1. k > 1
    BY <1>2, <1>5, <1>13
  <2>2. /\ \A p \in Pid : recs[p] = "none"
        /\ \A i \in 1 .. n : i < k => ~IsTarget(stream[i])
    BY <1>2, <1>13, <2>1
  <2>3. recs' = recs
    BY <1>3, <2>1, <2>2
  <2>4. ASSUME NEW i \in 1 .. n - 1, i < l PROVE ~IsTarget(stream'[i])
    <3>1. i + 1 \in 1 .. n /\ i + 1 < k
      BY <1>2, <1>5, <2>1, <2>4
    <3>2. QED
      BY <1>3, <2>2, <3>1
  <2>5. QED
    BY <2>2, <2>3, <2>4
<1>14. ASSUME namesake' # "early", died' PROVE l = 0 /\ S[0] = {}
  <2>1. k = 0
    BY <1>2, <1>14
  <2>2. CASE died
    <3>1. R[0] = {} /\ 0 \in 0 .. n /\ 1 \in 0 .. n
      BY <1>2, <1>3, <1>14, <2>2
    <3>2. R[1] = {}
      BY <1>2, <2>1, <3>1
    <3>3. QED
      BY <1>5, <1>6, <2>1, <3>2
  <2>3. CASE Live' = {}
    BY <1>5, <1>7, <2>1, <2>3
  <2>4. QED
    BY <1>14, <2>2, <2>3
<1>15. Grows(l, S)'
  <2>1. Armed' <=> l = n
    BY <1>2, <1>5
  <2>2. l \in 0 .. Len(stream') + 1 /\ n = Len(stream') + 1 /\ Len(stream') = n - 1
    BY <1>3, <1>5
  <2>3. QED
    BY <1>4, <1>7, <1>8, <1>9, <1>10, <1>11, <1>12, <1>13, <1>14, <2>1, <2>2 DEF Grows
<1>16. QED
  BY <1>15
-----------------------------------------------------------------------------
(* The steps of the operating system                                       *)

\* A report of an act that starts no target.
LEMMA ActKeeps ==
  ASSUME TrackInv, NEW e \in Event, Tells(e), Report(e) \/ (trace = "on" /\ Emit(e)),
         os' \in [Pid -> Class], namesake' \in {"none", "late", "early"},
         UNCHANGED <<trace, tracker, pending, launcher>>, trace # "on" => UNCHANGED rundown,
         \A r \in SUBSET Pid : Tree \subseteq r => Tree' \subseteq Kin(e, r),
         Tree = {} => Tree' = {},
         namesake' # "early" =>
           namesake # "early" /\ ~(Armed /\ IsTarget(e) /\ trace = "on" /\ Tree = {})
  PROVE  TrackInv'
<1>1. TrackTyped /\ LaunchInv /\ Quiet /\ OneStart /\ Pipelined /\ stream \in Seq(Event)
  BY DEF TrackInv, TrackTyped
<1>2. /\ UNCHANGED <<expected, recs, observed, closed, died, attempted, launch, task>>
      /\ (Expecting' <=> Expecting) /\ (Armed' <=> Armed)
  BY DEF tracker, launcher, Expecting, Armed
<1>3. Sends(e)
  BY <1>1, EmitSends, ReportSends
<1>4. written' \subseteq Path /\ released' \subseteq Path
  <2>1. SeenAfter(e, Tree, written) = written' /\ ClosedAfter(e, Tree, written, released) = released'
    BY DEF Tells
  <2>2. QED
    BY <1>1, <2>1, EventKinds DEF SeenAfter, ClosedAfter, TrackTyped
<1>5. Quiet'
  <2>1. Tree = {} => written' = written /\ released' = released
    BY DEF Tells, SeenAfter, ClosedAfter
  <2>2. QED
    BY <1>1, <1>2, <2>1 DEF Quiet
<1>6. Pipelined'
  <2>1. CASE Report(e)
    BY <1>1, <1>5, <2>1, ReportKeeps
  <2>2. CASE trace = "on" /\ Emit(e)
    BY <1>1, <1>2, <1>5, <2>2, EmitKeeps
  <2>3. QED
    BY <2>1, <2>2
<1>7. TrackTyped'
  BY <1>1, <1>2, <1>3, <1>4 DEF TrackTyped, Sends
<1>8. LaunchInv'
  <2>1. trace # "on" => stream' = <<>> /\ Tree' = {} /\ rundown' = {}
    BY <1>1, <1>3 DEF LaunchInv, Sends, Tells
  <2>2. QED
    BY <1>1, <1>2, <2>1 DEF LaunchInv
<1>9. OneStart'
  <2> SUFFICES ASSUME "started" \notin lost', task.def # "again" PROVE \E k, R : Grows(k, R)'
    BY <1>2 DEF OneStart
  <2>1. "started" \notin lost
    BY <1>3 DEF Sends
  <2>2. PICK k, R : Grows(k, R)
    BY <1>1, <2>1 DEF OneStart
  <2>3. Armed => Tree = {}
    BY <1>1, <2>2 DEF Grows
  <2>4. CASE stream' = stream /\ (trace = "on" => e.kind \in lost')
    <3>1. Tree' \subseteq Tree
      <4>1. CASE trace = "on"
        BY <1>3, <2>4, <4>1 DEF Sends, Tells
      <4>2. CASE trace # "on"
        BY <4>2 DEF Tells
      <4>3. QED
        BY <4>1, <4>2
    <3>2. QED
      BY <1>2, <2>2, <2>4, <3>1, GrowsStill
  <2>5. CASE trace = "on" /\ stream' = Append(stream, e)
    BY <1>1, <1>2, <2>2, <2>3, <2>5, GrowsOn
  <2>6. QED
    BY <1>3, <2>4, <2>5 DEF Sends
<1>10. QED
  BY <1>5, <1>6, <1>7, <1>8, <1>9 DEF TrackInv

\* Nothing of the world, the stream and the scope moves.
LEMMA StillKeeps ==
  ASSUME TrackInv, UNCHANGED <<world, stream, recs, observed, closed>>, Expecting => Expecting'
  PROVE  Pipelined'
<1>1. ASSUME NEW s, Followed(s) PROVE Followed(s)'
  <2>1. PICK T, O, C : Follows(s, T, O, C)
    BY <1>1 DEF Followed
  <2>2. PICK n \in Nat : n = Len(stream)
    BY DEF TrackInv, TrackTyped
  <2>3. Meets(T[n], O[n], C[n])'
    BY <2>1, <2>2 DEF Follows, Meets, Tree, Known, world
  <2>4. QED
    BY <2>1, <2>2, <2>3, StandsStill
<1>2. QED
  BY <1>1 DEF TrackInv, Pipelined

LEMMA AttachKeeps == ASSUME TrackInv, Attach PROVE TrackInv'
<1>1. UNCHANGED <<world, stream, tracker, pending, launcher>>
  BY DEF Attach
<1>2. TrackTyped' /\ Quiet' /\ (Expecting' <=> Expecting) /\ (Armed' <=> Armed) /\ Tree' = Tree
  BY <1>1 DEF TrackInv, TrackTyped, Quiet, Expecting, Armed, Tree, world, tracker, launcher
<1>3. LaunchInv'
  BY <1>1, <1>2 DEF TrackInv, Attach, LaunchInv, tracker, launcher
<1>4. Pipelined'
  BY <1>1, <1>2, StillKeeps DEF tracker
<1>5. OneStart'
  <2> SUFFICES ASSUME NEW k, NEW R, Grows(k, R) PROVE Grows(k, R)'
    BY <1>1 DEF TrackInv, OneStart, world, launcher
  <2>1. QED
    BY <1>1, <1>2, GrowsStill DEF world, tracker
<1>6. QED
  BY <1>2, <1>3, <1>4, <1>5 DEF TrackInv

LEMMA ReplayKeeps == ASSUME TrackInv, NEW p \in Pid, Replay(p) PROVE TrackInv'
<1>1. PICK n \in IF os[p] = "alias" THEN Name ELSE Name \ {"target"} :
        Emit([kind |-> "started", pid |-> p, parent |-> NoPid, name |-> n]) /\ Noted(os[p], n)
  BY DEF Replay
<1> DEFINE e == [kind |-> "started", pid |-> p, parent |-> NoPid, name |-> n]
<1>2. /\ e \in Event /\ e.kind = "started" /\ e.parent = NoPid /\ e.pid = p /\ e.name = n
      /\ IsTarget(e) <=> n = "target"
  BY DEF Event, Started, Name, IsTarget
<1>3. UNCHANGED <<os, written, released, trace, tracker, pending, launcher>> /\ Emit(e)
  BY <1>1 DEF Replay
<1> HIDE DEF e
<1>4. trace = "on" /\ os \in [Pid -> Class] /\ namesake \in {"none", "late", "early"}
  BY DEF TrackInv, LaunchInv, TrackTyped, Replay
<1>5. n = "target" => os[p] = "alias"
  OBVIOUS
<1>6. /\ namesake' \in {"none", "late", "early"}
      /\ namesake' = "none" => namesake = "none" /\ n # "target"
      /\ namesake' # "early" => namesake # "early" /\ ~(Armed /\ n = "target")
  BY <1>1, <1>4, <1>5 DEF Noted
<1>7. Tree' = Tree /\ Known' = Known /\ (n = "target" => p \in Known) /\ NoPid \notin Pid
  BY <1>3, <1>5, TrackingAssumption DEF Tree, Known
<1>8. Tells(e)
  BY <1>2, <1>3, <1>4, <1>6, <1>7 DEF Tells, TreeAfter, SeenAfter, ClosedAfter
<1>9. \A r \in SUBSET Pid : Kin(e, r) = r
  BY <1>2, <1>7 DEF Kin
<1>10. QED
  BY <1>2, <1>3, <1>4, <1>6, <1>7, <1>8, <1>9, ActKeeps

LEMMA SpawnKeeps ==
  ASSUME TrackInv, NEW p \in Pid, NEW q \in Pid \union {NoPid}, NEW n \in Name, Spawn(p, q, n)
  PROVE  TrackInv'
<1> DEFINE e == [kind |-> "started", pid |-> p, parent |-> q, name |-> n]
           c == ClassOf(q, n)
<1>1. /\ e \in Event /\ e.kind = "started" /\ e.parent = q /\ e.pid = p /\ e.name = n
      /\ IsTarget(e) <=> n = "target"
  BY DEF Event, Started, Name, IsTarget
<1>2. /\ os[p] = "free" /\ (q # NoPid => os[q] # "free")
      /\ os' = [os EXCEPT ![p] = c] /\ Report(e) /\ Noted(c, n)
      /\ UNCHANGED <<written, released, source, tracker, pending, launcher>>
  BY DEF Spawn
<1> HIDE DEF e
<1>3. /\ os \in [Pid -> Class] /\ namesake \in {"none", "late", "early"}
      /\ trace # "on" => Tree = {}
  BY DEF TrackInv, TrackTyped, LaunchInv
<1>4. /\ c \in Class /\ c # "free"
      /\ c = "in" <=> q \in Tree
      /\ q \in Known => c \in {"in", "alias"}
      /\ n = "target" => c \in {"in", "alias"}
  BY <1>2, <1>3, TrackingAssumption DEF ClassOf, Class, Tree, Known
<1> HIDE DEF c
<1>5. /\ os' \in [Pid -> Class] /\ p \notin Tree /\ p \notin Known
      /\ Tree' = IF q \in Tree THEN Tree \union {p} ELSE Tree
      /\ Known' = IF c \in {"in", "alias"} THEN Known \union {p} ELSE Known
  <2>1. os' \in [Pid -> Class] /\ p \notin Tree /\ p \notin Known
    BY <1>2, <1>3, <1>4 DEF Tree, Known
  <2>2. Tree' = IF q \in Tree THEN Tree \union {p} ELSE Tree
    BY <1>2, <1>3, <1>4 DEF Tree
  <2>3. Known' = IF c \in {"in", "alias"} THEN Known \union {p} ELSE Known
    BY <1>2, <1>3, <1>4 DEF Known
  <2>4. QED
    BY <2>1, <2>2, <2>3
<1>6. /\ namesake' \in {"none", "late", "early"}
      /\ namesake' = "none" => namesake = "none" /\ (trace = "on" /\ n = "target" => q \in Tree)
      /\ namesake' # "early" => namesake # "early" /\ ~(Armed /\ n = "target" /\ trace = "on" /\ Tree = {})
      /\ trace # "on" => namesake' = namesake
  BY <1>2, <1>3, <1>4 DEF Noted
<1>7. Tells(e)
  <2>1. ASSUME NEW t \in SUBSET Pid
        PROVE  /\ t \subseteq Known => TreeAfter(e, t) \subseteq Known'
               /\ t \subseteq Tree /\ namesake' = "none" /\ trace = "on" => TreeAfter(e, t) \subseteq Tree'
               /\ Tree \subseteq t => Tree' \subseteq TreeAfter(e, t)
    <3>1. TreeAfter(e, t) = IF q \in t \/ n = "target" THEN t \union {p} ELSE t
      BY <1>1 DEF TreeAfter
    <3>2. t \subseteq Known => TreeAfter(e, t) \subseteq Known'
      BY <1>4, <1>5, <3>1
    <3>3. t \subseteq Tree /\ namesake' = "none" /\ trace = "on" => TreeAfter(e, t) \subseteq Tree'
      BY <1>5, <1>6, <3>1
    <3>4. Tree \subseteq t => Tree' \subseteq TreeAfter(e, t)
      BY <1>5, <3>1
    <3>5. QED
      BY <3>2, <3>3, <3>4
  <2>2. trace # "on" => Tree' = {}
    BY <1>3, <1>5
  <2>3. QED
    BY <1>1, <1>2, <1>5, <1>6, <2>1, <2>2 DEF Tells, SeenAfter, ClosedAfter
<1>8. \A r \in SUBSET Pid : Tree \subseteq r => Tree' \subseteq Kin(e, r)
  BY <1>1, <1>5 DEF Kin
<1>9. (Tree = {} => Tree' = {}) /\ UNCHANGED <<trace, rundown>>
  BY <1>2, <1>5 DEF source
<1>10. QED
  BY <1>1, <1>2, <1>5, <1>6, <1>7, <1>8, <1>9, ActKeeps

LEMMA WorldKeeps ==
  ASSUME TrackInv,
         \/ \E p \in Pid : Exit(p)
         \/ \E p \in Pid, f \in Path : Write(p, f) \/ Close(p, f)
  PROVE  TrackInv'
<1>1. /\ os \in [Pid -> Class] /\ namesake \in {"none", "late", "early"}
      /\ trace # "on" => Tree = {}
  BY DEF TrackInv, TrackTyped, LaunchInv
<1>2. ASSUME NEW p \in Pid, Exit(p) PROVE TrackInv'
  <2> DEFINE e == [kind |-> "stopped", pid |-> p]
  <2>1. e \in Event /\ ~IsTarget(e) /\ e.kind = "stopped" /\ e.pid = p
    BY DEF Event, Stopped, IsTarget
  <2>2. /\ os' = [os EXCEPT ![p] = "free"] /\ Report(e)
        /\ UNCHANGED <<written, released, namesake, source, tracker, pending, launcher>>
    BY <1>2 DEF Exit
  <2> HIDE DEF e
  <2>3. os' \in [Pid -> Class] /\ Tree' = Tree \ {p} /\ Known' = Known \ {p}
    BY <1>1, <2>2 DEF Tree, Known, Class
  <2>4. Tells(e)
    BY <1>1, <2>1, <2>2, <2>3 DEF Tells, TreeAfter, SeenAfter, ClosedAfter
  <2>5. \A r \in SUBSET Pid : Tree \subseteq r => Tree' \subseteq Kin(e, r)
    BY <2>1, <2>3 DEF Kin
  <2>6. UNCHANGED <<trace, rundown, namesake>>
    BY <2>2 DEF source
  <2>7. QED
    BY <1>1, <2>1, <2>2, <2>3, <2>4, <2>5, <2>6, ActKeeps
<1>3. ASSUME NEW p \in Pid, NEW f \in Path, Write(p, f) PROVE TrackInv'
  <2> DEFINE e == [kind |-> "written", pid |-> p, path |-> f]
  <2>1. e \in Event /\ ~IsTarget(e) /\ e.kind = "written" /\ e.pid = p /\ e.path = f
    BY DEF Event, FileEvent, IsTarget
  <2>2. /\ Report(e) /\ written' = IF p \in Tree /\ f \in Matches THEN written \union {f} ELSE written
        /\ UNCHANGED <<os, released, namesake, source, tracker, pending, launcher>>
    BY <1>3 DEF Write, Tree
  <2> HIDE DEF e
  <2>3. Tree' = Tree /\ Known' = Known /\ UNCHANGED <<trace, rundown, namesake>>
    BY <2>2 DEF Tree, Known, source
  <2>4. Tells(e)
    BY <1>1, <2>1, <2>2, <2>3 DEF Tells, TreeAfter, SeenAfter, ClosedAfter
  <2>5. \A r \in SUBSET Pid : Tree \subseteq r => Tree' \subseteq Kin(e, r)
    BY <2>1, <2>3 DEF Kin
  <2>6. QED
    BY <1>1, <2>1, <2>2, <2>3, <2>4, <2>5, ActKeeps
<1>4. ASSUME NEW p \in Pid, NEW f \in Path, Close(p, f) PROVE TrackInv'
  <2> DEFINE e == [kind |-> "closed", pid |-> p, path |-> f]
  <2>1. e \in Event /\ ~IsTarget(e) /\ e.kind = "closed" /\ e.pid = p /\ e.path = f
    BY DEF Event, FileEvent, IsTarget
  <2>2. /\ Report(e) /\ released' = IF p \in Tree /\ f \in written THEN released \union {f} ELSE released
        /\ UNCHANGED <<os, written, namesake, source, tracker, pending, launcher>>
    BY <1>4 DEF Close, Tree
  <2> HIDE DEF e
  <2>3. Tree' = Tree /\ Known' = Known /\ UNCHANGED <<trace, rundown, namesake>>
    BY <2>2 DEF Tree, Known, source
  <2>4. Tells(e)
    BY <1>1, <2>1, <2>2, <2>3 DEF Tells, TreeAfter, SeenAfter, ClosedAfter
  <2>5. \A r \in SUBSET Pid : Tree \subseteq r => Tree' \subseteq Kin(e, r)
    BY <2>1, <2>3 DEF Kin
  <2>6. QED
    BY <1>1, <2>1, <2>2, <2>3, <2>4, <2>5, ActKeeps
<1>5. QED
  BY <1>2, <1>3, <1>4
-----------------------------------------------------------------------------
(* The tracker and the launcher on the pipeline                            *)

\* One event moves the tracker as the functions of the invariant say, unless it
\* is a namesake's start that is not expected.
LEMMA TrackerStep ==
  ASSUME TrackTyped, NEW e \in Event, HandleSource(e)
  PROVE  /\ recs' \in [Pid -> {"none", "live", "ended"}]
         /\ ~IsTarget(e) \/ expected' => Live' = TreeAfter(e, Live)
         /\ observed' = SeenAfter(e, Live, observed) /\ closed' = ClosedAfter(e, Live, observed, closed)
<1>1. recs \in [Pid -> {"none", "live", "ended"}]
  BY DEF TrackTyped
<1>2. /\ e.kind \in {"started", "stopped", "written", "closed"} /\ e.pid \in Pid
      /\ e.kind = "started" => e.parent \in Pid \union {NoPid} /\ e.name \in Name
  BY EventKinds
<1>3. \A p \in Pid \union {NoPid} : IsScoped(p) <=> p \in Live
  BY TrackingAssumption DEF IsScoped, Live
<1>4. CASE e.kind = "started"
  <2>1. /\ recs' = IF e.parent \in Live \/ (e.name = "target" /\ expected')
                   THEN [recs EXCEPT ![e.pid] = "live"] ELSE recs
        /\ UNCHANGED <<observed, closed>>
    BY <1>2, <1>3, <1>4 DEF HandleSource, ProcessEntered, ProcessExited, DropObserved, DropClosed
  <2>2. /\ recs' \in [Pid -> {"none", "live", "ended"}]
        /\ Live' = IF e.parent \in Live \/ (e.name = "target" /\ expected') THEN Live \union {e.pid} ELSE Live
    BY <1>1, <1>2, <2>1 DEF Live
  <2>3. QED
    BY <1>2, <1>4, <2>1, <2>2 DEF TreeAfter, SeenAfter, ClosedAfter, IsTarget
<1>5. CASE e.kind = "stopped"
  <2>1. /\ recs' = IF e.pid \in Live THEN [recs EXCEPT ![e.pid] = "ended"] ELSE recs
        /\ UNCHANGED <<observed, closed>>
    BY <1>2, <1>3, <1>5 DEF HandleSource, ProcessExited
  <2>2. recs' \in [Pid -> {"none", "live", "ended"}] /\ Live' = Live \ {e.pid}
    BY <1>1, <1>2, <2>1 DEF Live
  <2>3. QED
    BY <1>2, <1>5, <2>1, <2>2 DEF TreeAfter, SeenAfter, ClosedAfter, IsTarget
<1>6. CASE e.kind = "written"
  <2>1. recs' = recs /\ closed' = closed /\ observed' = SeenAfter(e, Live, observed)
    BY <1>2, <1>3, <1>6 DEF HandleSource, DropObserved, SeenAfter
  <2>2. Live' = Live
    BY <2>1 DEF Live
  <2>3. QED
    BY <1>1, <1>6, <2>1, <2>2 DEF TreeAfter, ClosedAfter, IsTarget
<1>7. CASE e.kind = "closed"
  <2>1. recs' = recs /\ observed' = observed /\ closed' = ClosedAfter(e, Live, observed, closed)
    BY <1>2, <1>3, <1>7 DEF HandleSource, DropClosed, ClosedAfter
  <2>2. Live' = Live
    BY <2>1 DEF Live
  <2>3. QED
    BY <1>1, <1>7, <2>1, <2>2 DEF TreeAfter, SeenAfter, IsTarget
<1>8. QED
  BY <1>2, <1>4, <1>5, <1>6, <1>7

\* What it does to died, to a part of the scope, and to one that is empty.
LEMMA DeathStep ==
  ASSUME TrackTyped, NEW e \in Event, HandleSource(e)
  PROVE  /\ died' \in BOOLEAN
         /\ died' => died \/ (Live' = {} /\ \E p \in Pid : recs[p] # "none")
         /\ (~IsTarget(e) \/ ~expected') /\ Live = {} => recs' = recs
         /\ \A r \in SUBSET Pid : r \subseteq Live => Kin(e, r) \subseteq Live'
<1>1. recs \in [Pid -> {"none", "live", "ended"}] /\ died \in BOOLEAN
  BY DEF TrackTyped
<1>2. /\ e.kind \in {"started", "stopped", "written", "closed"} /\ e.pid \in Pid
      /\ e.kind = "started" => e.parent \in Pid \union {NoPid} /\ e.name \in Name
  BY EventKinds
<1>3. \A p \in Pid \union {NoPid} : IsScoped(p) <=> p \in Live
  BY TrackingAssumption DEF IsScoped, Live
<1>4. CASE e.kind = "started"
  <2>1. /\ recs' = IF e.parent \in Live \/ (e.name = "target" /\ expected')
                   THEN [recs EXCEPT ![e.pid] = "live"] ELSE recs
        /\ died' = died
    BY <1>2, <1>3, <1>4 DEF HandleSource, ProcessEntered
  <2>2. Live' = IF e.parent \in Live \/ (e.name = "target" /\ expected') THEN Live \union {e.pid} ELSE Live
    BY <1>1, <1>2, <2>1 DEF Live
  <2>3. \A r \in SUBSET Pid : r \subseteq Live => Kin(e, r) \subseteq Live'
    BY <1>4, <2>2 DEF Kin
  <2>4. (~IsTarget(e) \/ ~expected') /\ Live = {} => recs' = recs
    BY <1>4, <2>1 DEF IsTarget
  <2>5. QED
    BY <1>1, <2>1, <2>3, <2>4
<1>5. CASE e.kind = "stopped"
  <2>1. /\ recs' = IF e.pid \in Live THEN [recs EXCEPT ![e.pid] = "ended"] ELSE recs
        /\ died' = (died \/ (e.pid \in Live /\ ScopeDead(recs')))
    BY <1>2, <1>3, <1>5 DEF HandleSource, ProcessExited
  <2>2. ScopeDead(recs') => Live' = {}
    BY DEF ScopeDead, Live
  <2>3. e.pid \in Live => recs[e.pid] # "none"
    BY DEF Live
  <2>4. Live' = Live \ {e.pid}
    BY <1>1, <1>2, <2>1 DEF Live
  <2>5. \A r \in SUBSET Pid : r \subseteq Live => Kin(e, r) \subseteq Live'
    BY <1>5, <2>4 DEF Kin
  <2>6. QED
    BY <1>1, <1>2, <2>1, <2>2, <2>3, <2>5
<1>6. CASE e.kind \in {"written", "closed"}
  <2>1. recs' = recs /\ died' = died
    BY <1>6 DEF HandleSource, DropObserved, DropClosed
  <2>2. Live' = Live
    BY <2>1 DEF Live
  <2>3. \A r \in SUBSET Pid : Kin(e, r) = r
    BY <1>6 DEF Kin
  <2>4. QED
    BY <1>1, <2>1, <2>2, <2>3
<1>7. QED
  BY <1>2, <1>4, <1>5, <1>6

LEMMA AcceptFollows ==
  ASSUME TrackInv, Accept PROVE Pipelined' /\ Quiet'
<1>1. /\ TrackTyped /\ Quiet /\ Pipelined /\ stream \in Seq(Event) /\ stream # <<>>
      /\ stream' = Tail(stream) /\ UNCHANGED <<os, written, released, lost, namesake>>
      /\ HandleSource(Head(stream)) /\ pending' = FALSE /\ (expected' <=> Expecting)
  BY DEF TrackInv, TrackTyped, Accept, Drain, world, Expecting
<1>2. /\ Len(stream) \in Nat /\ Len(stream) >= 1 /\ Len(stream') = Len(stream) - 1
      /\ Head(stream) = stream[1] /\ stream[1] \in Event /\ (Expecting' <=> Expecting)
  BY <1>1, TailAt DEF Expecting
<1> SUFFICES ASSUME NEW n \in Nat, n = Len(stream) PROVE Pipelined' /\ Quiet'
  BY <1>2
<1>3. /\ ~IsTarget(stream[1]) \/ Expecting => Live' = TreeAfter(stream[1], Live)
      /\ observed' = SeenAfter(stream[1], Live, observed)
      /\ closed' = ClosedAfter(stream[1], Live, observed, closed)
  BY <1>1, <1>2, TrackerStep
<1>4. CASE Expecting
  <2>1. PICK T, O, C : Follows(0, T, O, C)
    BY <1>1 DEF Pipelined, Followed
  <2>2. /\ T \in [0 .. n -> SUBSET Pid] /\ T[0] = Live /\ O[0] = observed /\ C[0] = closed
        /\ \A i \in 1 .. n :
             /\ T[i] = TreeAfter(stream[i], T[i - 1])
             /\ O[i] = SeenAfter(stream[i], T[i - 1], O[i - 1])
             /\ C[i] = ClosedAfter(stream[i], T[i - 1], O[i - 1], C[i - 1])
        /\ Meets(T[n], O[n], C[n])
    BY <2>1 DEF Follows
  <2>3. T[1] = Live' /\ O[1] = observed' /\ C[1] = closed'
    <3>1. 1 \in 1 .. n /\ 1 - 1 = 0
      BY <1>2
    <3>2. QED
      BY <1>3, <1>4, <2>2, <3>1
  <2> DEFINE TT == [i \in 1 .. n |-> T[i]]
  <2>4. TT \in [1 .. n -> SUBSET Pid] /\ (\A i \in 1 .. n : TT[i] = T[i]) /\ 1 \in 1 .. n /\ n \in 1 .. n
    BY <1>2, <2>2
  <2> HIDE DEF TT
  <2>5. ASSUME NEW i \in 1 + 1 .. n
        PROVE  /\ TT[i] = TreeAfter(stream[i], TT[i - 1])
               /\ O[i] = SeenAfter(stream[i], TT[i - 1], O[i - 1])
               /\ C[i] = ClosedAfter(stream[i], TT[i - 1], O[i - 1], C[i - 1])
    <3>1. i \in 1 .. n /\ i - 1 \in 1 .. n
      OBVIOUS
    <3>2. TT[i] = T[i] /\ TT[i - 1] = T[i - 1]
      BY <2>4, <3>1
    <3>3. QED
      BY <2>2, <3>1, <3>2
  <2>6. TT[1] = Live' /\ Meets(TT[n], O[n], C[n])
    BY <2>2, <2>3, <2>4
  <2>7. Followed(1 - 1)'
    BY <1>1, <2>3, <2>4, <2>5, <2>6, CatchesUp
  <2>8. QED
    BY <1>2, <1>4, <2>7 DEF Pipelined, Quiet
<1>5. CASE ~Expecting
  <2>1. Live = {} /\ \A p \in Pid : recs[p] = "none"
    BY <1>1, <1>5 DEF Quiet, Live
  <2>2. UNCHANGED <<recs, observed, closed>>
    <3>1. recs' = recs
      BY <1>1, <1>2, <1>5, <2>1, DeathStep
    <3>2. observed' = observed /\ closed' = closed
      BY <1>3, <2>1 DEF SeenAfter, ClosedAfter
    <3>3. QED
      BY <3>1, <3>2
  <2>3. Live' = Live /\ Tree' = Tree
    BY <1>1, <2>2 DEF Live, Tree
  <2>4. Quiet'
    BY <1>1, <1>2, <1>5, <2>2, <2>3 DEF Quiet
  <2>5. ASSUME NEW s \in 1 .. n PROVE Followed(s - 1)'
    <3>1. PICK T, O, C : Follows(s, T, O, C)
      BY <1>1, <1>5 DEF Pipelined, Followed
    <3>2. /\ T \in [s .. n -> SUBSET Pid] /\ T[s] = Live' /\ O[s] = observed' /\ C[s] = closed'
          /\ \A i \in s + 1 .. n :
               /\ T[i] = TreeAfter(stream[i], T[i - 1])
               /\ O[i] = SeenAfter(stream[i], T[i - 1], O[i - 1])
               /\ C[i] = ClosedAfter(stream[i], T[i - 1], O[i - 1], C[i - 1])
          /\ Meets(T[n], O[n], C[n])
      BY <2>2, <2>3, <3>1 DEF Follows
    <3>3. QED
      BY <1>1, <3>2, CatchesUp
  <2>6. ASSUME NEW s \in 0 .. n - 1 PROVE Followed(s)'
    <3>1. s + 1 \in 1 .. n /\ (s + 1) - 1 = s
      OBVIOUS
    <3>2. Followed((s + 1) - 1)'
      BY <2>5, <3>1
    <3>3. QED
      BY <3>1, <3>2
  <2>7. Len(stream') = n - 1 /\ 0 \in 0 .. n - 1
    BY <1>2
  <2>8. QED
    BY <2>4, <2>6, <2>7 DEF Pipelined
<1>6. QED
  BY <1>4, <1>5

LEMMA AcceptKeeps == ASSUME TrackInv, Accept PROVE TrackInv'
<1>1. TrackTyped /\ LaunchInv /\ Quiet /\ OneStart /\ stream \in Seq(Event) /\ stream # <<>>
  BY DEF TrackInv, TrackTyped, Accept
<1>2. /\ stream' = Tail(stream) /\ stream' \in Seq(Event)
      /\ Head(stream) = stream[1] /\ stream[1] \in Event
  BY <1>1, TailAt DEF Accept
<1>3. /\ expected' = (expected \/ pending) /\ pending' = FALSE
      /\ HandleSource(stream[1]) /\ LauncherPre(stream[1]) /\ UNCHANGED <<world, source>>
  BY <1>2 DEF Accept, Drain
<1>4. (Expecting' <=> Expecting) /\ (expected' <=> Expecting) /\ expected' \in BOOLEAN
  BY <1>1, <1>3 DEF Expecting, TrackTyped
<1>5. /\ recs' \in [Pid -> {"none", "live", "ended"}]
      /\ ~IsTarget(stream[1]) \/ expected' => Live' = TreeAfter(stream[1], Live)
      /\ observed' = SeenAfter(stream[1], Live, observed)
      /\ closed' = ClosedAfter(stream[1], Live, observed, closed)
  BY <1>1, <1>2, <1>3, TrackerStep
<1>6. /\ died' \in BOOLEAN
      /\ died' => died \/ (Live' = {} /\ \E p \in Pid : recs[p] # "none")
      /\ ~IsTarget(stream[1]) /\ Live = {} => recs' = recs
      /\ \A r \in SUBSET Pid : r \subseteq Live => Kin(stream[1], r) \subseteq Live'
  BY <1>1, <1>2, <1>3, DeathStep
<1>7. trace = "on"
  BY <1>1 DEF LaunchInv
<1>8. \/ UNCHANGED <<launch, task>> /\ (attempted => attempted')
      \/ ~attempted /\ attempted' /\ launch' = "queued" /\ UNCHANGED task
  BY <1>3 DEF LauncherPre, launcher
<1>9. TrackTyped'
  <2>1. observed' \subseteq Path /\ closed' \subseteq Path
    BY <1>1, <1>2, <1>5, EventKinds DEF SeenAfter, ClosedAfter, TrackTyped
  <2>2. launch' \in LaunchState /\ task' \in TaskState /\ {expected', pending', died'} \subseteq BOOLEAN
    BY <1>1, <1>3, <1>4, <1>6, <1>8 DEF TrackTyped, LaunchState
  <2>3. QED
    BY <1>1, <1>2, <1>3, <1>5, <2>1, <2>2 DEF TrackTyped, world
<1>10. LaunchInv'
  <2>1. trace' = "on"
    BY <1>3, <1>7 DEF source
  <2>2. CASE UNCHANGED <<launch, task>> /\ (attempted => attempted')
    BY <1>1, <1>4, <2>1, <2>2 DEF LaunchInv
  <2>3. CASE ~attempted /\ attempted' /\ launch' = "queued" /\ UNCHANGED task
    BY <1>1, <1>4, <2>1, <2>3 DEF LaunchInv, NoTask
  <2>4. QED
    BY <1>8, <2>2, <2>3
<1>11. OneStart'
  <2> SUFFICES ASSUME NEW k, NEW R, Grows(k, R) PROVE \E l, S : Grows(l, S)'
    BY <1>1, <1>3, <1>8 DEF OneStart, world
  <2>1. Armed' <=> Armed
    BY <1>1, <1>8 DEF Armed, LaunchInv
  <2>2. IsTarget(stream[1]) /\ Expecting => stream[1].pid \in Live'
    BY <1>4, <1>5 DEF TreeAfter, IsTarget
  <2>3. ~IsTarget(stream[1]) /\ (\A p \in Pid : recs[p] = "none") => recs' = recs
    BY <1>6 DEF Live
  <2>4. UNCHANGED <<os, namesake>>
    BY <1>3 DEF world
  <2>5. QED
    BY <1>1, <1>2, <1>4, <1>6, <2>1, <2>2, <2>3, <2>4, GrowsAccept
<1>12. QED
  BY <1>9, <1>10, <1>11, AcceptFollows DEF TrackInv

LEMMA AcceptOtherKeeps == ASSUME TrackInv, AcceptOther PROVE TrackInv'
<1>1. /\ UNCHANGED <<world, source, stream, recs, observed, closed, died, launcher>>
      /\ expected' = (expected \/ pending) /\ pending' = FALSE
  BY DEF AcceptOther, Drain
<1>2. TrackTyped'
  BY <1>1 DEF TrackInv, TrackTyped, world, launcher
<1>3. (Expecting' <=> Expecting) /\ (Armed' <=> Armed) /\ Tree' = Tree
  BY <1>1 DEF TrackInv, TrackTyped, Expecting, Armed, Tree, world, launcher
<1>4. LaunchInv' /\ Quiet'
  BY <1>1, <1>3 DEF TrackInv, LaunchInv, Quiet, world, source, launcher
<1>5. OneStart'
  <2> SUFFICES ASSUME NEW k, NEW R, Grows(k, R) PROVE Grows(k, R)'
    BY <1>1 DEF TrackInv, OneStart, world, launcher
  <2>1. QED
    BY <1>1, <1>3, GrowsStill DEF world
<1>6. QED
  BY <1>1, <1>2, <1>3, <1>4, <1>5, StillKeeps DEF TrackInv
-----------------------------------------------------------------------------
(* The launch flow                                                         *)

\* The target's own process: expected, and the only start there is.
LEMMA StartKeeps ==
  ASSUME TrackInv, NEW p \in Pid, StartTarget(p), Armed, Expecting, trace = "on",
         launch' \in LaunchState, task' \in TaskState, ~Armed',
         launch # "idle" /\ launch' \notin {"idle", "queued", "resolved", "Token", "primary", "SchedTask", "created"},
         task'.def = task.def /\ (task.def = "again" => launch' \in {"done", "failed"})
  PROVE  TrackInv'
<1> DEFINE e == [kind |-> "started", pid |-> p, parent |-> NoPid, name |-> "target"]
<1>1. e \in Event /\ IsTarget(e) /\ e.kind = "started" /\ e.pid = p /\ e.name = "target"
  BY DEF Event, Started, Name, IsTarget
<1>2. /\ os' = [os EXCEPT ![p] = "in"] /\ Report(e)
      /\ UNCHANGED <<written, released, namesake, source, tracker, pending, attempted>>
  BY DEF StartTarget
<1> HIDE DEF e
<1>3. TrackTyped /\ LaunchInv /\ OneStart /\ Pipelined /\ stream \in Seq(Event) /\ os \in [Pid -> Class]
  BY DEF TrackInv, TrackTyped
<1>4. os' \in [Pid -> Class] /\ Tree' = Tree \union {p} /\ Known' = Known \union {p}
  <2>1. os' \in [Pid -> Class] /\ \A q \in Pid : os'[q] = IF q = p THEN "in" ELSE os[q]
    BY <1>2, <1>3 DEF Class
  <2>2. QED
    BY <2>1 DEF Tree, Known
<1>5. Tells(e)
  BY <1>1, <1>2, <1>4 DEF Tells, TreeAfter, SeenAfter, ClosedAfter
<1>6. Expecting' /\ Quiet'
  BY <1>2 DEF Expecting, Quiet, tracker
<1>7. Pipelined'
  BY <1>1, <1>2, <1>3, <1>5, <1>6, ReportKeeps
<1>8. Sends(e)
  BY <1>1, <1>2, <1>3, ReportSends
<1>9. TrackTyped'
  BY <1>2, <1>3, <1>4, <1>8 DEF TrackTyped, Sends, tracker
<1>10. LaunchInv'
  <2>1. attempted
    BY <1>3 DEF LaunchInv
  <2>2. QED
    BY <1>2, <1>3, <1>6, <2>1 DEF LaunchInv, tracker, source
<1>11. OneStart'
  <2> SUFFICES ASSUME "started" \notin lost', task.def # "again" PROVE \E l, S : Grows(l, S)'
    BY DEF OneStart
  <2>1. "started" \notin lost /\ stream' = Append(stream, e)
    BY <1>1, <1>8 DEF Sends
  <2>2. PICK k, R : Grows(k, R)
    BY <1>3, <2>1 DEF OneStart
  <2>3. UNCHANGED <<recs, died, namesake>> /\ Tree' \subseteq Tree \union {e.pid}
    BY <1>1, <1>2, <1>4 DEF tracker
  <2>4. QED
    BY <1>1, <1>3, <1>6, <2>1, <2>2, <2>3, GrowsFrom
<1>12. QED
  BY <1>6, <1>7, <1>9, <1>10, <1>11 DEF TrackInv

LEMMA LaunchKeeps == ASSUME TrackInv, LaunchFlow \/ TaskFires \/ TaskTriggered PROVE TrackInv'
<1>1. /\ TrackTyped /\ LaunchInv /\ Quiet /\ OneStart /\ task \in TaskState /\ launch \in LaunchState
      /\ task.def \in {"none", "defined", "again"} /\ task.fired \in BOOLEAN
      /\ launch # "idle" => attempted /\ trace = "on"
  BY DEF TrackInv, TrackTyped, TaskState, LaunchInv
\* A step that leaves the processes alone.
<1>2. ASSUME UNCHANGED <<world, source, stream, tracker, attempted>>,
             launch # "idle", launch' \in LaunchState, launch' # "idle", task' \in TaskState,
             pending' \in BOOLEAN, pending => pending',
             launch' \in {"queued", "resolved", "Token", "primary", "SchedTask"} => task' = NoTask,
             launch' = "created" => task' = [def |-> "defined", fired |-> FALSE],
             task'.def = "again" => launch' \in {"done", "failed"},
             launch' \in {"Token", "SchedTask", "primary", "created", "ran", "runFailed", "done"}
               \/ task' # NoTask => Expecting',
             task.def = "again" => task'.def = "again",
             task'.def # "again" /\ Armed' => Armed
      PROVE  TrackInv'
  <2>1. TrackTyped'
    BY <1>1, <1>2 DEF TrackTyped, world, tracker
  <2>2. LaunchInv'
    BY <1>1, <1>2 DEF LaunchInv, Tree, world, source, tracker
  <2>3. (Expecting => Expecting') /\ Tree' = Tree
    BY <1>1, <1>2 DEF Expecting, Tree, world, tracker, TrackTyped
  <2>4. Quiet'
    BY <1>1, <1>2, <2>3 DEF Quiet, world, tracker
  <2>5. OneStart'
    <3> SUFFICES ASSUME task'.def # "again", NEW k, NEW R, Grows(k, R) PROVE \E l, S : Grows(l, S)'
      BY <1>1, <1>2 DEF OneStart, world
    <3>1. CASE Armed' <=> Armed
      BY <1>2, <2>3, <3>1, GrowsStill DEF world, tracker
    <3>2. CASE Armed /\ ~Armed'
      BY <1>1, <1>2, <2>3, <3>2, GrowsNoMore DEF world, tracker, TrackTyped
    <3>3. QED
      BY <1>2, <3>1, <3>2
  <2>6. QED
    BY <1>2, <2>1, <2>2, <2>3, <2>4, <2>5, StillKeeps DEF TrackInv, tracker
<1>3. CASE LaunchResolve
  BY <1>1, <1>2, <1>3 DEF LaunchResolve, FlowStep, Expecting, tracker, LaunchInv, Armed, TrackTyped, LaunchState, NoTask
<1>4. CASE LaunchExpects
  BY <1>1, <1>2, <1>4, TrackingAssumption
     DEF LaunchExpects, FlowStep, Expecting, tracker, LaunchInv, Armed, TrackTyped, LaunchState, NoTask
<1>5. CASE TokenTaken
  BY <1>1, <1>2, <1>5 DEF TokenTaken, FlowStep, Expecting, tracker, LaunchInv, Armed, TrackTyped, LaunchState, NoTask
<1>6. CASE CreateProcessAsUser
  <2>1. launch = "primary" /\ UNCHANGED task /\ task = NoTask /\ Expecting
    BY <1>1, <1>6 DEF CreateProcessAsUser, LaunchInv
  <2>2. task.def = "none" /\ task.fired = FALSE
    BY <2>1 DEF NoTask
  <2>3. ASSUME NEW p \in Pid, StartTarget(p), launch' = "done" PROVE TrackInv'
    BY <1>1, <2>1, <2>2, <2>3, StartKeeps DEF Armed, LaunchState
  <2>4. CASE launch' = "failed" /\ FlowStep /\ UNCHANGED pending
    BY <1>1, <1>2, <2>1, <2>2, <2>4 DEF FlowStep, Expecting, tracker, Armed, TrackTyped, LaunchState
  <2>5. QED
    BY <1>6, <2>3, <2>4 DEF CreateProcessAsUser
<1>7. CASE TaskCreate
  <2>1. launch = "SchedTask" /\ task = NoTask /\ Expecting /\ FlowStep /\ UNCHANGED pending
    BY <1>1, <1>7 DEF TaskCreate, LaunchInv
  <2>2. \/ launch' = "failed" /\ task' \in {NoTask, [def |-> "defined", fired |-> FALSE]}
        \/ launch' = "created" /\ task' = [def |-> "defined", fired |-> FALSE]
    BY <1>7, <2>1 DEF TaskCreate, Schtasks, NoTask
  <2>3. task' \in TaskState /\ task'.def # "again" /\ task'.fired = FALSE /\ task.def # "again"
    <3>1. task' = NoTask \/ task' = [def |-> "defined", fired |-> FALSE]
      BY <2>2
    <3>2. NoTask \in TaskState /\ NoTask.def = "none" /\ NoTask.fired = FALSE
      BY DEF TaskState, NoTask
    <3>3. [def |-> "defined", fired |-> FALSE] \in TaskState
      BY DEF TaskState
    <3>4. CASE task' = NoTask
      BY <2>1, <3>2, <3>4
    <3>5. CASE task' = [def |-> "defined", fired |-> FALSE]
      <4>1. task' \in TaskState
        BY <3>3, <3>5
      <4>2. task'.def = "defined" /\ task'.fired = FALSE
        BY <3>5
      <4>3. QED
        BY <2>1, <3>2, <4>1, <4>2
    <3>6. QED
      BY <3>1, <3>4, <3>5
  <2>4. QED
    BY <1>1, <1>2, <2>1, <2>2, <2>3 DEF FlowStep, Expecting, tracker, Armed, TrackTyped, LaunchState
<1>8. CASE TaskRun
  <2>1. launch = "created" /\ task = [def |-> "defined", fired |-> FALSE] /\ Expecting
        /\ FlowStep /\ UNCHANGED pending
    BY <1>1, <1>8 DEF TaskRun, LaunchInv
  <2>2. launch' \in {"ran", "runFailed"} /\ \E b \in BOOLEAN : task' = [def |-> "defined", fired |-> b]
    BY <1>8, <2>1 DEF TaskRun, Schtasks
  <2>3. task' \in TaskState /\ task'.def # "again" /\ task.def # "again"
    BY <2>1, <2>2 DEF TaskState
  <2>4. QED
    BY <1>1, <1>2, <2>1, <2>2, <2>3 DEF FlowStep, Expecting, tracker, Armed, TrackTyped, LaunchState
<1>9. CASE TaskDelete
  <2>1. launch \in {"ran", "runFailed"} /\ Expecting /\ FlowStep /\ UNCHANGED pending
        /\ launch' \in {"done", "failed"} /\ task.def # "again"
    BY <1>1, <1>9 DEF TaskDelete, LaunchInv
  <2>2. \E d \in {"none", task.def} : task' = [task EXCEPT !.def = d]
    BY <1>9 DEF TaskDelete, Schtasks
  <2>3. task' \in TaskState /\ task'.def \in {"none", task.def} /\ task'.fired = task.fired
    BY <1>1, <2>2 DEF TaskState
  <2>4. QED
    BY <1>1, <1>2, <2>1, <2>3 DEF FlowStep, Expecting, tracker, Armed, TrackTyped, LaunchState
<1>10. CASE TaskFires
  <2>1. /\ task.fired /\ task' = [task EXCEPT !.fired = FALSE] /\ UNCHANGED launch
        /\ launch \in {"ran", "runFailed", "done", "failed"} /\ Expecting
    <3>1. task # NoTask /\ task # [def |-> "defined", fired |-> FALSE] /\ task.fired
      BY <1>10 DEF TaskFires, NoTask
    <3>2. QED
      BY <1>1, <1>10, <3>1 DEF TaskFires, LaunchInv, LaunchState
  <2>2. task' \in TaskState /\ task'.def = task.def /\ task'.fired = FALSE
    BY <1>1, <2>1 DEF TaskState
  <2>3. task.def = "again" => launch \in {"done", "failed"}
    BY <1>1 DEF LaunchInv
  <2>4. Armed /\ ~Armed'
    BY <2>1, <2>2 DEF Armed
  <2>5. ASSUME NEW p \in Pid, StartTarget(p) PROVE TrackInv'
    BY <1>1, <2>1, <2>2, <2>3, <2>4, <2>5, StartKeeps
  <2>6. CASE UNCHANGED <<os, written, released, lost, namesake, source, stream, tracker, pending, attempted>>
    BY <1>1, <1>2, <2>1, <2>2, <2>3, <2>4, <2>6 DEF world, Expecting, tracker, TrackTyped
  <2>7. QED
    BY <1>10, <2>5, <2>6 DEF TaskFires
<1>11. CASE TaskTriggered
  <2>1. /\ launch \in {"done", "failed"} /\ task = [def |-> "defined", fired |-> FALSE]
        /\ task' = [def |-> "again", fired |-> TRUE]
        /\ UNCHANGED <<world, source, stream, tracker, pending, attempted, launch>>
    BY <1>11 DEF TaskTriggered, world
  <2>2. task # NoTask /\ task' \in TaskState /\ task.def # "again" /\ task'.def = "again"
    BY <2>1 DEF NoTask, TaskState
  <2>3. Expecting
    BY <1>1, <2>2 DEF LaunchInv
  <2>4. QED
    BY <1>1, <1>2, <2>1, <2>2, <2>3 DEF Expecting, tracker, TrackTyped
<1>12. QED
  BY <1>3, <1>4, <1>5, <1>6, <1>7, <1>8, <1>9, <1>10, <1>11 DEF LaunchFlow
-----------------------------------------------------------------------------
LEMMA TrackInit == Init => TrackInv
<1> SUFFICES ASSUME Init PROVE TrackInv
  OBVIOUS
<1>1. Tree = {} /\ Live = {} /\ stream = <<>> /\ Len(stream) = 0 /\ \A p \in Pid : recs[p] = "none"
  BY DEF Init, Tree, Live
<1>2. TrackTyped
  <2>1. expected \in BOOLEAN /\ pending \in BOOLEAN /\ died \in BOOLEAN
    BY TrackingAssumption DEF Init
  <2>2. stream \in Seq(Event) /\ task \in TaskState /\ launch \in LaunchState
    BY DEF Init, LaunchState, TaskState
  <2>3. QED
    BY <2>1, <2>2 DEF Init, TrackTyped, Class
<1>3. LaunchInv /\ Quiet
  BY <1>1 DEF Init, LaunchInv, Quiet, NoTask
<1> DEFINE Z == [i \in 0 .. 0 |-> {}]
<1>4. Z \in [0 .. 0 -> SUBSET Pid] /\ Z[0] = {}
  OBVIOUS
<1> HIDE DEF Z
<1>5. OneStart
  <2>1. Armed /\ ~died
    BY DEF Init, Armed
  <2>2. Grows(1, Z)
    BY <1>1, <1>4, <2>1 DEF Grows
  <2>3. QED
    BY <2>2 DEF OneStart
<1>6. Pipelined
  <2>1. Follows(0, Z, Z, Z)
    BY <1>1, <1>4 DEF Init, Follows, Meets
  <2>2. \A s \in 0 .. Len(stream) : s = 0
    BY <1>1
  <2>3. QED
    BY <2>1, <2>2 DEF Pipelined, Followed
<1>7. QED
  BY <1>2, <1>3, <1>5, <1>6 DEF TrackInv

\* The inductive invariant: what the events in flight lead to is the truth.
THEOREM TrackingInvariant == Spec => []TrackInv
<1>1. TrackInv /\ [Next]_vars => TrackInv'
  <2> SUFFICES ASSUME TrackInv, [Next]_vars PROVE TrackInv'
    OBVIOUS
  <2>1. CASE UNCHANGED vars
    <3>1. /\ UNCHANGED <<world, source, stream, tracker, pending, launcher>>
          /\ (Expecting' <=> Expecting) /\ (Armed' <=> Armed) /\ Tree' = Tree
      BY <2>1 DEF vars, world, tracker, launcher, Expecting, Armed, Tree
    <3>2. TrackTyped' /\ LaunchInv' /\ Quiet'
      BY <3>1 DEF world, source, tracker, launcher, TrackInv, TrackTyped, LaunchInv, Quiet
    <3>3. OneStart'
      <4> SUFFICES ASSUME NEW k, NEW R, Grows(k, R) PROVE Grows(k, R)'
        BY <3>1 DEF TrackInv, OneStart, world, launcher
      <4>1. QED
        BY <3>1, GrowsStill DEF world, tracker
    <3>4. QED
      BY <3>1, <3>2, <3>3, StillKeeps DEF TrackInv, tracker
  <2>2. QED
    BY <2>1, AttachKeeps, ReplayKeeps, SpawnKeeps, WorldKeeps, AcceptKeeps, AcceptOtherKeeps,
       LaunchKeeps DEF Next
<1>2. QED
  BY <1>1, TrackInit, PTL DEF Spec

\* An empty stream leaves no gap between the tracker and the world.
LEMMA DrainedMeets == ASSUME TrackInv, stream = <<>> PROVE Meets(Live, observed, closed)
<1>1. PICK T, O, C : Follows(0, T, O, C)
  BY DEF TrackInv, Pipelined, Followed
<1>2. QED
  BY <1>1 DEF Follows

\* Whatever starts are lost, the scope holds nothing but the tree and the
\* namesakes of its image with theirs, and whatever stops are lost, it holds the
\* whole tree: process_entered and is_scoped, for any number of processes.
THEOREM ScopeFollowsTree == Spec => []ScopeIsTree
<1>1. TrackInv => ScopeIsTree
  BY DrainedMeets DEF ScopeIsTree, Drained, Meets, Tree, Known, Live
<1>2. QED
  BY <1>1, TrackingInvariant, PTL

\* ScopeDied is never published while a process of the tree runs or is to come,
\* whatever namesakes come after the target was started.
THEOREM DeathIsTrue == Spec => []NoFalseDeath
<1>1. TrackInv => NoFalseDeath
  <2> SUFFICES ASSUME TrackInv, died, "started" \notin lost, task.def # "again", namesake # "early"
               PROVE  ~TreeAlive
    BY DEF NoFalseDeath
  <2>1. PICK k, R : Grows(k, R)
    BY DEF TrackInv, OneStart
  <2>2. PICK n \in Nat : n = Len(stream)
    BY DEF TrackInv, TrackTyped
  <2>3. k = 0 /\ R[0] = {} /\ Tree \subseteq R[n] /\ 0 \in 0 .. n /\ n \in 0 .. n
    BY <2>1, <2>2 DEF Grows
  <2>4. R[n] = {}
    BY <2>1, <2>2, <2>3 DEF Grows
  <2>5. QED
    BY <2>3, <2>4 DEF TreeAlive, Tree
<1>2. QED
  BY <1>1, TrackingInvariant, PTL

\* With no event lost every drop of the tree is reported, and with no namesake
\* in the scope nothing but the tree's drops is (drop_observed, drop_closed).
THEOREM DropsAreExact == Spec => []DropsExact
<1>1. TrackInv => DropsExact
  BY DrainedMeets DEF DropsExact, Drained, Meets
<1>2. QED
  BY <1>1, TrackingInvariant, PTL
=============================================================================
