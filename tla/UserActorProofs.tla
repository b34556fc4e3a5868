--------------------------- MODULE UserActorProofs ---------------------------
(***************************************************************************)
(* A saved screenshot is only replaced by one of another process, and what *)
(* is uploaded is the frame itself: for any number of processes, pushes    *)
(* and focus changes and any quota and capacity.                           *)
(***************************************************************************)
EXTENDS UserActor, SequencesExt, TLAPS

Number == 0 .. MaxFocus
Shot == Life \X Number

\* A process has one focus source; the number it has reserved is the last one
\* counted, and every number is paid for by a focus change.
FlowInv ==
  /\ life \in Life /\ captured \in Nat /\ focuses \in Number /\ captured <= focuses
  /\ sources \in {0, 1}
  /\ flow \in [Source -> [at : {"idle", "reserve", "capture"}, seq : Nat]] /\ flow[2] = Idle
  /\ actor \in {"dropping", "gone"} => flow[1] = Idle
  /\ flow[1].at = "reserve" => flow[1].seq = captured /\ captured < focuses
  /\ flow[1].at = "capture" => captured = flow[1].seq + 1

PipeTyped ==
  /\ sink \in Seq(Shot) /\ wire \in [Life -> Seq(Shot)] /\ jobs \in Seq(Shot)
  /\ job \in [at : {"idle", "write", "upload"}, frame : Shot \union {NoFile}]
  /\ job.at # "idle" => job.frame \in Shot
  /\ DOMAIN files = Number

\* What the intake has and has not written yet, and what it has written.
Taken == ToSet(jobs) \union (IF job.at = "write" THEN {job.frame} ELSE {})
Written(f) == files[f[2]][1] = f[1]

\* No frame is in two places.
Single ==
  /\ IsInjective(sink) /\ IsInjective(jobs) /\ (job.at = "write" => job.frame \notin ToSet(jobs))
  /\ \A l \in Life : IsInjective(wire[l]) /\ \A f \in ToSet(wire[l]) : f[1] = l
  /\ \A f \in ToSet(sink) : f[1] = life
  /\ \A f \in ToSet(sink) : f \notin ToSet(wire[life]) /\ f \notin Taken /\ ~Written(f)
  /\ \A l \in Life : \A f \in ToSet(wire[l]) : f \notin Taken /\ ~Written(f)
  /\ \A f \in Taken : ~Written(f)

\* The number the next frame gets, and every frame of this process has a smaller one.
NextNumber == IF flow[1].at = "capture" THEN flow[1].seq ELSE captured
Known(f) == f \in ToSet(sink) \/ (\E l \in Life : f \in ToSet(wire[l])) \/ f \in Taken \/ Written(f)
Fresh ==
  \A f \in Shot : Known(f) =>
    f[1] <= life /\ (f[1] = life /\ actor # "gone" => f[2] < NextNumber)

\* What the worker uploads is what it has just written.
OwnFile ==
  /\ job.at = "upload" /\ setup.save => files[NameOf(job.frame)] = job.frame
  /\ UploadedIsOwn

ShotInv == FlowInv /\ PipeTyped /\ Single /\ Fresh /\ OwnFile /\ (actor = "gone" => sink = <<>>)
-----------------------------------------------------------------------------
(* Sequences without repetition                                            *)

LEMMA AppendNew ==
  ASSUME NEW S, NEW s \in Seq(S), NEW x \in S, IsInjective(s), x \notin ToSet(s)
  PROVE  /\ Append(s, x) \in Seq(S) /\ IsInjective(Append(s, x))
         /\ ToSet(Append(s, x)) = ToSet(s) \union {x}
<1> DEFINE t == Append(s, x)
<1>1. /\ t \in Seq(S) /\ Len(t) = Len(s) + 1 /\ DOMAIN t = 1 .. Len(s) + 1
      /\ DOMAIN s = 1 .. Len(s) /\ Len(s) \in Nat
      /\ \A i \in 1 .. Len(s) : t[i] = s[i]
      /\ t[Len(s) + 1] = x
  OBVIOUS
<1> HIDE DEF t
<1>2. IsInjective(t)
  BY <1>1 DEF IsInjective, ToSet
<1>3. ToSet(t) = ToSet(s) \union {x}
  BY <1>1 DEF ToSet
<1>4. QED
  BY <1>1, <1>2, <1>3 DEF t

LEMMA TailRest ==
  ASSUME NEW S, NEW s \in Seq(S), s # <<>>, IsInjective(s)
  PROVE  /\ Tail(s) \in Seq(S) /\ IsInjective(Tail(s))
         /\ ToSet(Tail(s)) = ToSet(s) \ {Head(s)}
         /\ Head(s) \in S /\ Head(s) \in ToSet(s)
<1> DEFINE t == Tail(s)
<1>1. /\ t \in Seq(S) /\ Len(s) \in Nat \ {0} /\ DOMAIN t = 1 .. Len(s) - 1
      /\ DOMAIN s = 1 .. Len(s)
      /\ \A i \in 1 .. Len(s) - 1 : t[i] = s[i + 1]
      /\ Head(s) = s[1] /\ s[1] \in S
  OBVIOUS
<1> HIDE DEF t
<1>2. IsInjective(t)
  <2>1. ASSUME NEW a \in DOMAIN t, NEW b \in DOMAIN t, t[a] = t[b]
        PROVE  a = b
    <3>1. a + 1 \in DOMAIN s /\ b + 1 \in DOMAIN s /\ s[a + 1] = s[b + 1]
      BY <1>1, <2>1
    <3>2. a + 1 = b + 1
      BY <3>1 DEF IsInjective
    <3>3. QED
      BY <1>1, <3>2
  <2>2. QED
    BY <2>1 DEF IsInjective
<1>3. ASSUME NEW y \in ToSet(t)
      PROVE  y \in ToSet(s) /\ y # Head(s)
  <2>1. PICK i \in 1 .. Len(s) - 1 : y = s[i + 1]
    BY <1>1 DEF ToSet
  <2>2. i + 1 \in DOMAIN s /\ 1 \in DOMAIN s /\ i + 1 # 1
    BY <1>1
  <2>3. QED
    BY <1>1, <2>1, <2>2 DEF ToSet, IsInjective
<1>4. ASSUME NEW y \in ToSet(s), y # Head(s)
      PROVE  y \in ToSet(t)
  <2>1. PICK i \in 1 .. Len(s) : y = s[i]
    BY <1>1 DEF ToSet
  <2>2. i - 1 \in DOMAIN t /\ t[i - 1] = y
    BY <1>1, <1>4, <2>1
  <2>3. QED
    BY <2>2 DEF ToSet
<1>5. Head(s) \in ToSet(s)
  BY <1>1 DEF ToSet
<1>6. ToSet(t) = ToSet(s) \ {Head(s)}
  BY <1>3, <1>4
<1>7. QED
  BY <1>1, <1>2, <1>5, <1>6 DEF t

LEMMA NoneLeft ==
  ASSUME NEW S, NEW s \in Seq(S), Len(s) = 0
  PROVE  ToSet(s) = {} /\ IsInjective(s)
<1>1. DOMAIN s = 1 .. Len(s)
  OBVIOUS
<1>2. /\ ToSet(s) = {}
      /\ IsInjective(s)
  BY <1>1 DEF ToSet, IsInjective
<1>3. QED
  BY <1>2

-----------------------------------------------------------------------------
(* Preservation: the source and its numbers                                *)

pipe == <<sink, wire, jobs, job, files>>

\* Nothing moves, and the next number does not go back.
LEMMA PipeStill ==
  ASSUME ShotInv, UNCHANGED <<pipe, life, setup, uploaded>>, actor' = actor, NextNumber' = NextNumber
  PROVE  PipeTyped' /\ Single' /\ Fresh' /\ OwnFile' /\ (actor = "gone" => sink = <<>>)'
<1>1. PipeTyped' /\ Single' /\ OwnFile' /\ (actor = "gone" => sink = <<>>)'
  BY DEF ShotInv, pipe, PipeTyped, Single, OwnFile, Taken, Written, UploadedIsOwn
<1>2. \A f : Known(f)' <=> Known(f)
  BY DEF pipe, Known, Taken, Written
<1>3. Fresh'
  BY <1>2 DEF ShotInv, Fresh
<1>4. QED
  BY <1>1, <1>3

LEMMA ShotInit == ASSUME ActorInit PROVE ShotInv
<1> USE ActorAssumption DEF ActorInit, Life, Number, Source, Idle, NoFile, NoJob
<1>1. FlowInv
  BY DEF FlowInv
<1>2. PipeTyped
  BY DEF PipeTyped, Shot
<1>3. \A l \in Life, n \in Number : ~Written(<<l, n>>)
  BY DEF Written
<1>4. \A f \in Shot : ~Written(f)
  BY <1>3 DEF Shot, Written
<1>5. /\ sink \in Seq(Shot) /\ jobs \in Seq(Shot) /\ Len(sink) = 0 /\ Len(jobs) = 0
      /\ \A l \in Life : wire[l] \in Seq(Shot) /\ Len(wire[l]) = 0
  BY <1>2 DEF PipeTyped
<1>6. /\ ToSet(sink) = {} /\ IsInjective(sink) /\ ToSet(jobs) = {} /\ IsInjective(jobs)
      /\ \A l \in Life : ToSet(wire[l]) = {} /\ IsInjective(wire[l])
  <2> HIDE DEF ActorInit
  <2>1. QED
    BY <1>5, NoneLeft
<1>7. Taken = {}
  BY <1>6 DEF Taken
<1>8. Single
  BY <1>6, <1>7 DEF Single
<1>9. Fresh
  BY <1>4, <1>6, <1>7 DEF Fresh, Known
<1>10. OwnFile
  BY DEF OwnFile, UploadedIsOwn
<1>11. QED
  BY <1>1, <1>2, <1>8, <1>9, <1>10 DEF ShotInv

\* Only focus source 1 exists.
LEMMA FlowStep ==
  ASSUME ShotInv,
         \/ WatcherReceives
         \/ \E s \in Source : FocusChanged(s) \/ Reserve(s)
         \/ RuntimeDrops
  PROVE  ShotInv'
<1> USE ActorAssumption DEF Source, Idle, Number
<1>1. CASE WatcherReceives
  <2>1. FlowInv'
    BY <1>1 DEF WatcherReceives, StartSource, ShotInv, FlowInv
  <2>2. NextNumber' = NextNumber
    BY <1>1 DEF WatcherReceives, NextNumber
  <2>3. QED
    BY <1>1, <2>1, <2>2, PipeStill DEF WatcherReceives, agent, pipe, ShotInv
<1>2. ASSUME NEW s \in Source, FocusChanged(s) PROVE ShotInv'
  <2>1. s = 1
    BY <1>2 DEF FocusChanged, Live, ShotInv, FlowInv
  <2>2. FlowInv'
    BY <1>2, <2>1 DEF FocusChanged, Live, ShotInv, FlowInv
  <2>3. NextNumber' = NextNumber
    BY <1>2, <2>1 DEF FocusChanged, NextNumber, ShotInv, FlowInv
  <2>4. QED
    BY <1>2, <2>2, <2>3, PipeStill DEF FocusChanged, agent, pipe, ShotInv
<1>3. ASSUME NEW s \in Source, Reserve(s) PROVE ShotInv'
  <2>1. s = 1
    BY <1>3 DEF Reserve, ShotInv, FlowInv
  <2>2. FlowInv'
    BY <1>3, <2>1 DEF Reserve, ShotInv, FlowInv
  <2>3. NextNumber' = NextNumber
    BY <1>3, <2>1 DEF Reserve, NextNumber, ShotInv, FlowInv
  <2>4. QED
    BY <1>3, <2>2, <2>3, PipeStill DEF Reserve, agent, pipe, ShotInv
<1>4. CASE RuntimeDrops
  <2>1. FlowInv'
    BY <1>4 DEF RuntimeDrops, ShotInv, FlowInv
  <2>2. PipeTyped' /\ Single' /\ OwnFile'
    BY <1>4 DEF RuntimeDrops, agent, ShotInv, PipeTyped, Single, OwnFile, Taken, Written, UploadedIsOwn
  <2>3. \A f : Known(f)' <=> Known(f)
    BY <1>4 DEF RuntimeDrops, agent, Known, Taken, Written
  <2>4. NextNumber <= NextNumber' /\ NextNumber \in Nat /\ NextNumber' \in Nat
    BY <1>4 DEF RuntimeDrops, NextNumber, ShotInv, FlowInv
  <2>5. ASSUME NEW f \in Shot, Known(f)'
        PROVE  f[1] <= life' /\ (f[1] = life' /\ actor' # "gone" => f[2] < NextNumber')
    <3>1. f[1] <= life /\ (f[1] = life => f[2] < NextNumber) /\ f[2] \in Nat
      BY <1>4, <2>3, <2>5 DEF RuntimeDrops, ShotInv, Fresh, Shot
    <3>2. QED
      BY <1>4, <2>4, <3>1 DEF RuntimeDrops
  <2>6. QED
    BY <1>4, <2>1, <2>2, <2>5 DEF RuntimeDrops, ShotInv, Fresh
<1>5. QED
  BY <1>1, <1>2, <1>3, <1>4
-----------------------------------------------------------------------------
(* Preservation: the frames on their way                                   *)

\* A new frame gets a number no frame of this process has.
LEMMA SendStep ==
  ASSUME ShotInv, NEW s \in Source, CaptureAndSend(s)
  PROVE  ShotInv'
<1> USE ActorAssumption DEF Source, Idle, Number
<1> DEFINE new == <<life, flow[1].seq>>
<1>1. s = 1 /\ flow[1].at = "capture" /\ actor \notin {"dropping", "gone"}
  BY DEF CaptureAndSend, ShotInv, FlowInv
<1>2. FlowInv'
  BY <1>1 DEF CaptureAndSend, ShotInv, FlowInv
<1>3. new \in Shot /\ ~Known(new)
  BY <1>1 DEF ShotInv, FlowInv, Fresh, NextNumber, Shot
<1>4. CASE sink' = Append(sink, new) /\ captured' = captured
  <2> HIDE DEF new
  <2>1. /\ sink' \in Seq(Shot) /\ IsInjective(sink') /\ ToSet(sink') = ToSet(sink) \union {new}
    BY <1>3, <1>4, AppendNew DEF ShotInv, PipeTyped, Single, Known
  <2>2. UNCHANGED <<life, actor, setup, wire, jobs, job, files, uploaded>>
    BY DEF CaptureAndSend, agent
  <2>3. PipeTyped' /\ OwnFile'
    BY <2>1, <2>2 DEF ShotInv, PipeTyped, OwnFile, UploadedIsOwn
  <2>4. Taken' = Taken /\ (\A f : Written(f)' <=> Written(f)) /\ ToSet(jobs)' = ToSet(jobs)
    BY <2>2 DEF Taken, Written
  <2>5. \A l \in Life : wire'[l] = wire[l]
    BY <2>2
  <2>6. new[1] = life
    BY DEF new
  <2>7. Single'
    BY <1>3, <2>1, <2>2, <2>4, <2>5, <2>6 DEF ShotInv, FlowInv, Single, Known
  <2>8. \A f : Known(f)' => Known(f) \/ f = new
    BY <2>1, <2>4, <2>5 DEF Known
  <2>9. NextNumber' = NextNumber + 1 /\ NextNumber = flow[1].seq /\ NextNumber \in Nat /\ life \in Nat
    BY <1>1, <1>4 DEF CaptureAndSend, NextNumber, ShotInv, FlowInv, Life
  <2>10. ASSUME NEW f \in Shot, Known(f)'
         PROVE  f[1] <= life' /\ (f[1] = life' /\ actor' # "gone" => f[2] < NextNumber')
    <3>1. CASE Known(f)
      <4>1. f[1] <= life /\ (f[1] = life => f[2] < NextNumber) /\ f[2] \in Nat
        BY <1>1, <3>1 DEF ShotInv, Fresh, Shot
      <4>2. QED
        BY <2>2, <2>9, <4>1
    <3>2. CASE f = new
      BY <2>2, <2>9, <3>2 DEF new
    <3>3. QED
      BY <2>8, <2>10, <3>1, <3>2
  <2>11. Fresh'
    BY <2>10 DEF Fresh
  <2>12. QED
    BY <1>1, <1>2, <2>2, <2>3, <2>7, <2>11 DEF ShotInv
<1>5. CASE captured' = captured - 1 /\ sink' = sink
  <2>1. NextNumber' = NextNumber
    BY <1>1, <1>5 DEF CaptureAndSend, NextNumber, ShotInv, FlowInv
  <2>2. QED
    BY <1>2, <1>5, <2>1, PipeStill DEF CaptureAndSend, agent, pipe, ShotInv
<1>6. QED
  BY <1>1, <1>4, <1>5 DEF CaptureAndSend

\* What is known after a step that adds no frame was known before it.
LEMMA StillFresh ==
  ASSUME ShotInv, \A f \in Shot : Known(f)' => Known(f),
         UNCHANGED <<life, flow, captured>>, actor' = actor \/ (actor # "gone" /\ actor' # "gone")
  PROVE  Fresh'
<1>1. NextNumber' = NextNumber
  BY DEF NextNumber
<1>2. QED
  BY <1>1 DEF ShotInv, Fresh

LEMMA TransportStep == ASSUME ShotInv, TransportSends PROVE ShotInv'
<1> DEFINE h == Head(sink)
<1>1. /\ UNCHANGED <<life, actor, setup, sources, flow, captured, focuses, jobs, job, files, uploaded>>
      /\ actor = "up"
  BY DEF TransportSends, agent
<1>2. FlowInv'
  BY <1>1 DEF ShotInv, FlowInv
<1>3. /\ sink' \in Seq(Shot) /\ IsInjective(sink') /\ ToSet(sink') = ToSet(sink) \ {h}
      /\ h \in Shot /\ h \in ToSet(sink)
  BY TailRest DEF TransportSends, ShotInv, PipeTyped, Single
<1>4. h[1] = life /\ h \notin ToSet(wire[life]) /\ life \in Life
  BY <1>3 DEF ShotInv, FlowInv, Single
<1>5. /\ wire' \in [Life -> Seq(Shot)]
      /\ \A l \in Life : l # life => wire'[l] = wire[l]
      /\ IsInjective(wire'[life])
      /\ ToSet(wire'[life]) = ToSet(wire[life]) \union {h} \/ wire'[life] = wire[life]
  <2>1. wire \in [Life -> Seq(Shot)] /\ IsInjective(wire[life])
    BY <1>4 DEF ShotInv, PipeTyped, Single
  <2>2. CASE wire' = [wire EXCEPT ![life] = Append(@, h)]
    <3> HIDE DEF h
    <3>1. /\ Append(wire[life], h) \in Seq(Shot) /\ IsInjective(Append(wire[life], h))
          /\ ToSet(Append(wire[life], h)) = ToSet(wire[life]) \union {h}
      BY <1>3, <1>4, <2>1, AppendNew
    <3>2. wire'[life] = Append(wire[life], h)
      BY <1>4, <2>1, <2>2
    <3>3. QED
      BY <1>4, <2>1, <2>2, <3>1, <3>2
  <2>3. QED
    BY <2>1, <2>2 DEF TransportSends
<1> HIDE DEF h
<1>6. PipeTyped' /\ OwnFile'
  BY <1>1, <1>3, <1>5 DEF ShotInv, PipeTyped, OwnFile, UploadedIsOwn
<1>7. Taken' = Taken /\ (\A f : Written(f)' <=> Written(f)) /\ ToSet(jobs)' = ToSet(jobs)
  BY <1>1 DEF Taken, Written
<1>8. h \notin Taken /\ ~Written(h)
  BY <1>3 DEF ShotInv, Single
<1>9. \A l \in Life : IsInjective(wire'[l]) /\ \A f \in ToSet(wire'[l]) : f[1] = l /\ f \notin Taken /\ ~Written(f)
  BY <1>4, <1>5, <1>8 DEF ShotInv, Single
<1>10. \A f \in ToSet(sink') : f[1] = life /\ f \notin ToSet(wire'[life]) /\ f \notin Taken /\ ~Written(f)
  BY <1>3, <1>5 DEF ShotInv, Single
<1>11. Single'
  BY <1>1, <1>3, <1>7, <1>9, <1>10 DEF ShotInv, Single
<1>12. \A f \in Shot : Known(f)' => Known(f)
  BY <1>3, <1>4, <1>5, <1>7 DEF Known
<1>13. Fresh'
  BY <1>1, <1>12, StillFresh
<1>14. QED
  BY <1>1, <1>2, <1>6, <1>11, <1>13 DEF ShotInv

\* The process leaves and ends: what it had queued is gone.
LEMMA LifeStep == ASSUME ShotInv, Leave \/ ProcessEnds PROVE ShotInv'
<1> USE ActorAssumption DEF Source, Idle, Number
<1>1. UNCHANGED <<setup, focuses, wire, jobs, job, files, uploaded>> /\ sink' = <<>>
  BY DEF Leave, ProcessEnds, agent, ShotInv
<1>2. FlowInv'
  BY DEF Leave, ProcessEnds, ShotInv, FlowInv, Life
<1>3. PipeTyped' /\ OwnFile'
  BY <1>1 DEF ShotInv, PipeTyped, OwnFile, UploadedIsOwn
<1>4. Len(sink') = 0 /\ sink' \in Seq(Shot)
  BY <1>1, <1>3 DEF PipeTyped
<1>5. ToSet(sink') = {} /\ IsInjective(sink')
  BY <1>4, NoneLeft
<1>6. Taken' = Taken /\ (\A f : Written(f)' <=> Written(f)) /\ ToSet(jobs)' = ToSet(jobs)
  BY <1>1 DEF Taken, Written
<1>7. \A l \in Life : wire'[l] = wire[l]
  BY <1>1
<1>8. Single'
  BY <1>1, <1>5, <1>6, <1>7 DEF ShotInv, Single
<1>9. \A f \in Shot : Known(f)' => Known(f)
  BY <1>5, <1>6, <1>7 DEF Known
<1>10. CASE Leave
  <2>1. Fresh'
    BY <1>9, <1>10, StillFresh DEF Leave
  <2>2. QED
    BY <1>1, <1>2, <1>3, <1>8, <2>1 DEF ShotInv
<1>11. CASE ProcessEnds
  <2>1. actor' = "gone" /\ life' = life
    BY <1>11 DEF ProcessEnds
  <2>2. \A f \in Shot : Known(f)' => f[1] \in Nat /\ f[1] <= life
    BY <1>9 DEF ShotInv, Fresh, Shot, Life
  <2>3. Fresh'
    BY <2>1, <2>2 DEF Fresh, ShotInv, FlowInv, Life
  <2>4. QED
    BY <1>1, <1>2, <1>3, <1>8, <2>3 DEF ShotInv
<1>12. QED
  BY <1>10, <1>11

\* The next boot: of the frames of earlier ones only their files are left.
LEMMA BootStep == ASSUME ShotInv, Relaunch PROVE ShotInv'
<1> USE ActorAssumption DEF Source, Idle, Number
<1>1. /\ UNCHANGED <<setup, files, uploaded, sink>> /\ life' = life + 1 /\ actor' = "up"
      /\ wire' = [l \in Life |-> <<>>] /\ jobs' = <<>> /\ job' = NoJob
  BY DEF Relaunch
<1>2. FlowInv'
  BY DEF Relaunch, ShotInv, FlowInv, Life
<1>3. sink = <<>>
  BY DEF Relaunch, ShotInv
<1>4. PipeTyped'
  <2>1. job' \in [at : {"idle", "write", "upload"}, frame : Shot \union {NoFile}] /\ job'.at = "idle"
    BY <1>1 DEF NoJob
  <2>2. sink' \in Seq(Shot) /\ wire' \in [Life -> Seq(Shot)] /\ jobs' \in Seq(Shot)
    BY <1>1, <1>3
  <2>3. DOMAIN files' = Number
    BY <1>1 DEF ShotInv, PipeTyped
  <2>4. QED
    BY <2>1, <2>2, <2>3 DEF PipeTyped
<1>5. OwnFile'
  BY <1>1 DEF ShotInv, OwnFile, UploadedIsOwn, NoJob
<1>6. <<>> \in Seq(Shot) /\ Len(<<>>) = 0
  OBVIOUS
<1>7. ToSet(<<>>) = {} /\ IsInjective(<<>>)
  BY <1>6, NoneLeft
<1>8. ToSet(sink') = {} /\ ToSet(jobs') = {} /\ (\A l \in Life : wire'[l] = <<>>) /\ job'.at = "idle"
  BY <1>1, <1>3, <1>7 DEF NoJob
<1>9. Taken' = {} /\ (\A f : Written(f)' <=> Written(f))
  BY <1>1, <1>8 DEF Taken, Written
<1>10. Single'
  BY <1>1, <1>3, <1>7, <1>8, <1>9 DEF Single
<1>11. \A f \in Shot : Known(f)' => Known(f)
  BY <1>7, <1>8, <1>9 DEF Known
<1>12. \A f \in Shot : Known(f)' => f[1] \in Nat /\ f[1] <= life
  BY <1>11 DEF ShotInv, Fresh, Shot, Life
<1>13. Fresh'
  BY <1>1, <1>12 DEF Fresh, ShotInv, FlowInv, Life
<1>14. QED
  BY <1>1, <1>2, <1>4, <1>5, <1>10, <1>13 DEF ShotInv

\* A frame goes from the wire to the queue, or is dropped.
LEMMA IntakeStep == ASSUME ShotInv, NEW k \in Life, IntakeReceives(k) PROVE ShotInv'
<1> DEFINE h == Head(wire[k])
<1>1. UNCHANGED <<life, actor, setup, sources, flow, captured, sink, focuses, job, files, uploaded>>
  BY DEF IntakeReceives, process
<1>2. FlowInv'
  BY <1>1 DEF ShotInv, FlowInv
<1>3. wire \in [Life -> Seq(Shot)] /\ IsInjective(wire[k]) /\ wire[k] # <<>>
  BY DEF IntakeReceives, ShotInv, PipeTyped, Single
<1>4. /\ Tail(wire[k]) \in Seq(Shot) /\ IsInjective(Tail(wire[k]))
      /\ ToSet(Tail(wire[k])) = ToSet(wire[k]) \ {h}
      /\ h \in Shot /\ h \in ToSet(wire[k])
  BY <1>3, TailRest
<1> HIDE DEF h
<1>5. wire' \in [Life -> Seq(Shot)] /\ wire'[k] = Tail(wire[k]) /\ (\A l \in Life : l # k => wire'[l] = wire[l])
  BY <1>3, <1>4 DEF IntakeReceives
<1>6. h[1] = k /\ h \notin Taken /\ ~Written(h)
  BY <1>4 DEF ShotInv, Single
<1>7. h \notin ToSet(jobs)
  BY <1>6 DEF Taken
<1>8. /\ jobs' \in Seq(Shot) /\ IsInjective(jobs')
      /\ ToSet(jobs') = ToSet(jobs) \/ ToSet(jobs') = ToSet(jobs) \union {h}
  <2>1. jobs \in Seq(Shot) /\ IsInjective(jobs)
    BY DEF ShotInv, PipeTyped, Single
  <2>2. jobs' = jobs \/ jobs' = Append(jobs, h)
    BY DEF IntakeReceives, h
  <2>3. CASE jobs' = Append(jobs, h)
    BY <1>4, <1>7, <2>1, <2>3, AppendNew
  <2>4. QED
    BY <2>1, <2>2, <2>3
<1>9. PipeTyped' /\ OwnFile'
  BY <1>1, <1>5, <1>8 DEF ShotInv, PipeTyped, OwnFile, UploadedIsOwn
<1>10. /\ Taken' \subseteq Taken \union {h} /\ (\A f : Written(f)' <=> Written(f))
       /\ job.at = "write" => job.frame \notin ToSet(jobs')
  BY <1>1, <1>6, <1>8 DEF Taken, Written, ShotInv, Single
<1>11. ASSUME NEW l \in Life, NEW f \in ToSet(wire'[l])
       PROVE  f \in ToSet(wire[l]) /\ f # h
  <2>1. CASE l = k
    BY <1>4, <1>5, <2>1
  <2>2. CASE l # k
    <3>1. f \in ToSet(wire[l])
      BY <1>5, <2>2
    <3>2. f[1] = l
      BY <3>1 DEF ShotInv, Single
    <3>3. QED
      BY <1>6, <2>2, <3>1, <3>2
  <2>3. QED
    BY <2>1, <2>2
<1>12. \A l \in Life : IsInjective(wire'[l])
  BY <1>4, <1>5 DEF ShotInv, Single
<1>13. \A f \in ToSet(sink) : f # h
  BY <1>4, <1>6 DEF ShotInv, Single
<1>14. Single'
  <2>1. \A f \in ToSet(sink) : f[1] = life /\ f \notin ToSet(wire'[life]) /\ f \notin Taken' /\ ~Written(f)
    BY <1>10, <1>11, <1>13 DEF ShotInv, Single, FlowInv
  <2>2. \A l \in Life : \A f \in ToSet(wire'[l]) : f[1] = l /\ f \notin Taken' /\ ~Written(f)
    BY <1>10, <1>11 DEF ShotInv, Single
  <2>3. \A f \in Taken' : ~Written(f)
    BY <1>6, <1>10 DEF ShotInv, Single
  <2>4. QED
    BY <1>1, <1>8, <1>10, <1>12, <2>1, <2>2, <2>3 DEF ShotInv, Single
<1>15. \A f \in Shot : Known(f)' => Known(f)
  <2>1. Known(h)
    BY <1>4 DEF Known
  <2>2. ToSet(sink)' = ToSet(sink)
    BY <1>1
  <2>3. QED
    BY <1>10, <1>11, <2>1, <2>2 DEF Known
<1>16. Fresh'
  BY <1>1, <1>15, StillFresh
<1>17. QED
  BY <1>1, <1>2, <1>9, <1>14, <1>16 DEF ShotInv
-----------------------------------------------------------------------------
(* Preservation: the intake's worker                                       *)

\* What the worker does not touch.
LEMMA OutsideStill ==
  ASSUME ShotInv, UNCHANGED <<life, actor, sources, flow, captured, sink, focuses, wire>>
  PROVE  FlowInv' /\ ToSet(sink)' = ToSet(sink) /\ (\A l \in Life : wire'[l] = wire[l])
  BY DEF ShotInv, FlowInv

LEMMA TakeStep == ASSUME ShotInv, WorkerTakes PROVE ShotInv'
<1> DEFINE h == Head(jobs)
<1>1. UNCHANGED <<life, actor, setup, sources, flow, captured, sink, focuses, wire, files, uploaded>>
  BY DEF WorkerTakes, process
<1>2. /\ jobs' \in Seq(Shot) /\ IsInjective(jobs') /\ ToSet(jobs') = ToSet(jobs) \ {h}
      /\ h \in Shot /\ h \in ToSet(jobs)
  BY TailRest DEF WorkerTakes, ShotInv, PipeTyped, Single
<1>3. job = NoJob /\ job' = [at |-> "write", frame |-> h]
  BY DEF WorkerTakes
<1> HIDE DEF h
<1>4. PipeTyped' /\ OwnFile'
  BY <1>1, <1>2, <1>3 DEF ShotInv, PipeTyped, OwnFile, UploadedIsOwn
<1>5. Taken' = Taken
  BY <1>2, <1>3 DEF Taken, NoJob
<1>6. \A f : Written(f)' <=> Written(f)
  BY <1>1 DEF Written
<1>7. Single'
  BY <1>1, <1>2, <1>3, <1>5, <1>6, OutsideStill DEF ShotInv, Single
<1>8. Fresh'
  BY <1>1, <1>5, <1>6, StillFresh DEF Known
<1>9. QED
  BY <1>1, <1>4, <1>7, <1>8, OutsideStill DEF ShotInv

\* The name written to holds the frame or a torn part of it, or is left alone.
LEMMA WriteChanges ==
  ASSUME ShotInv, WriteFile
  PROVE  /\ job.frame \in Shot /\ DOMAIN files' = DOMAIN files
         /\ \A n \in Number : n # job.frame[2] => files'[n] = files[n]
         /\ files' = files \/ files'[job.frame[2]][1] = job.frame[1]
<1>1. job.frame \in Shot /\ DOMAIN files = Number /\ job.frame[2] \in Number
  BY DEF WriteFile, ShotInv, PipeTyped, Shot
<1>2. Torn(job.frame)[1] = job.frame[1]
  BY DEF Torn
<1>3. PICK c : files' = files \/ (files' = [files EXCEPT ![job.frame[2]] = c] /\ c[1] = job.frame[1])
  BY <1>2 DEF WriteFile, NameOf
<1>4. QED
  BY <1>1, <1>3

LEMMA WriteStep == ASSUME ShotInv, WriteFile PROVE ShotInv'
<1> DEFINE h == job.frame
<1>1. /\ UNCHANGED <<life, actor, setup, sources, flow, captured, sink, focuses, wire, jobs, uploaded>>
      /\ job.at = "write"
  BY DEF WriteFile, process
<1>2. job' = NoJob \/ job' = [at |-> "upload", frame |-> h]
  BY DEF WriteFile, Done, Uploads, ShotInv, PipeTyped
<1>3. h \in Shot /\ h \in Taken /\ h \notin ToSet(jobs) /\ Taken = ToSet(jobs) \union {h}
  BY <1>1 DEF ShotInv, PipeTyped, Single, Taken
<1>4. Taken' = ToSet(jobs)
  BY <1>1, <1>2 DEF Taken, NoJob
<1>5. \A f \in Shot : Written(f)' => Written(f) \/ f = h
  <2>1. SUFFICES ASSUME NEW f \in Shot, Written(f)'
                 PROVE  Written(f) \/ f = h
    OBVIOUS
  <2>2. f[2] \in Number /\ f = <<f[1], f[2]>> /\ h = <<h[1], h[2]>>
    BY <1>3 DEF Shot
  <2>3. QED
    BY <2>1, <2>2, WriteChanges DEF Written
<1>6. PipeTyped'
  BY <1>1, <1>2, <1>3, WriteChanges DEF ShotInv, PipeTyped, NoJob
<1>7. OwnFile'
  <2>1. UploadedIsOwn'
    BY <1>1 DEF ShotInv, OwnFile, UploadedIsOwn
  <2>2. job'.at = "upload" /\ setup.save => files'[NameOf(h)] = h
    BY <1>3 DEF WriteFile, Done, NoJob, NameOf, ShotInv, PipeTyped, Shot
  <2>3. job'.at = "upload" => job'.frame = h
    BY <1>2 DEF NoJob
  <2>4. QED
    BY <1>1, <2>1, <2>2, <2>3 DEF OwnFile
<1>8. job'.at # "write"
  BY <1>2 DEF NoJob
<1> HIDE DEF h
<1>9. Single'
  <2>1. \A f \in ToSet(sink) : f \in Shot
    BY DEF ShotInv, PipeTyped, ToSet
  <2>2. \A l \in Life : \A f \in ToSet(wire[l]) : f \in Shot
    BY DEF ShotInv, PipeTyped, ToSet
  <2>3. \A f \in ToSet(jobs) : f \in Shot
    BY DEF ShotInv, PipeTyped, ToSet
  <2>4. \A f \in ToSet(sink) : f \notin ToSet(wire[life]) /\ f \notin Taken' /\ ~Written(f)'
    BY <1>3, <1>4, <1>5, <2>1 DEF ShotInv, Single
  <2>5. \A l \in Life : \A f \in ToSet(wire[l]) : f \notin Taken' /\ ~Written(f)'
    BY <1>3, <1>4, <1>5, <2>2 DEF ShotInv, Single
  <2>6. \A f \in Taken' : ~Written(f)'
    BY <1>3, <1>4, <1>5, <2>3 DEF ShotInv, Single
  <2>7. QED
    BY <1>1, <1>8, <2>4, <2>5, <2>6, OutsideStill DEF ShotInv, Single
<1>10. \A f \in Shot : Known(f)' => Known(f)
  BY <1>1, <1>3, <1>4, <1>5, OutsideStill DEF Known
<1>11. Fresh'
  BY <1>1, <1>10, StillFresh
<1>12. QED
  BY <1>1, <1>6, <1>7, <1>9, <1>11, OutsideStill DEF ShotInv

LEMMA UploadStep == ASSUME ShotInv, Upload PROVE ShotInv'
<1>1. /\ UNCHANGED <<life, actor, setup, sources, flow, captured, sink, focuses, wire, jobs, files>>
      /\ job.at = "upload" /\ job' = NoJob
  BY DEF Upload, Done, process
<1>2. PipeTyped'
  BY <1>1 DEF ShotInv, PipeTyped, NoJob
<1>3. Taken' = Taken /\ (\A f : Written(f)' <=> Written(f))
  BY <1>1 DEF Taken, Written, NoJob
<1>4. Single'
  BY <1>1, <1>3, OutsideStill DEF ShotInv, Single, NoJob
<1>5. Fresh'
  BY <1>1, <1>3, StillFresh DEF Known
<1>6. OwnFile'
  <2>1. UploadedIsOwn'
    BY <1>1 DEF Upload, ShotInv, OwnFile, UploadedIsOwn
  <2>2. QED
    BY <1>1, <2>1 DEF OwnFile, NoJob
<1>7. QED
  BY <1>1, <1>2, <1>4, <1>5, <1>6, OutsideStill DEF ShotInv

LEMMA StopStep == ASSUME ShotInv, IntakeStops PROVE ShotInv'
<1>1. /\ UNCHANGED <<life, actor, setup, sources, flow, captured, sink, focuses, wire, job, files, uploaded>>
      /\ jobs' = <<>>
  BY DEF IntakeStops, process
<1>2. PipeTyped' /\ OwnFile'
  BY <1>1 DEF ShotInv, PipeTyped, OwnFile, UploadedIsOwn
<1>3. Len(jobs') = 0 /\ jobs' \in Seq(Shot)
  BY <1>1, <1>2 DEF PipeTyped
<1>4. ToSet(jobs') = {} /\ IsInjective(jobs')
  BY <1>3, NoneLeft
<1>5. Taken' \subseteq Taken /\ (\A f : Written(f)' <=> Written(f))
  BY <1>1, <1>4 DEF Taken, Written
<1>6. Single'
  BY <1>1, <1>4, <1>5, OutsideStill DEF ShotInv, Single
<1>7. \A f \in Shot : Known(f)' => Known(f)
  BY <1>1, <1>5, OutsideStill DEF Known
<1>8. Fresh'
  BY <1>1, <1>7, StillFresh
<1>9. QED
  BY <1>1, <1>2, <1>6, <1>8, OutsideStill DEF ShotInv
-----------------------------------------------------------------------------
LEMMA ShotNext == ASSUME ShotInv, [ActorNext]_actorVars PROVE ShotInv'
<1>1. CASE \/ Welcome \/ WatcherSubscribes \/ ReactivePress \/ ScriptStep \/ AdapterStops \/ AdapterReturns
           \/ PumpStarts \/ PumpQuits \/ KeyUp \/ UNCHANGED actorVars
  <2>1. UNCHANGED <<pipe, life, actor, setup, uploaded, sources, flow, captured, focuses>>
    BY <1>1 DEF Welcome, WatcherSubscribes, ReactivePress, ScriptStep, AdapterStops, AdapterReturns,
                PumpStarts, PumpQuits, KeyUp, actorVars, process, agent, pipe
  <2>2. FlowInv' /\ NextNumber' = NextNumber
    BY <2>1 DEF ShotInv, FlowInv, NextNumber
  <2>3. QED
    BY <2>1, <2>2, PipeStill DEF ShotInv
<1>2. QED
  BY <1>1, FlowStep, SendStep, TransportStep, LifeStep, BootStep, IntakeStep, TakeStep, WriteStep, UploadStep,
     StopStep DEF ActorNext, Exit

\* ShotInv holds in every reachable state.
THEOREM ShotInvariant == ActorSpec => []ShotInv
<1>1. ShotInv /\ [ActorNext]_actorVars => ShotInv'
  BY ShotNext
<1>2. QED
  BY <1>1, ShotInit, PTL DEF ActorSpec

\* What is reported as uploaded is the frame itself, or a torn staged copy of
\* it, for every run of the intake (screenshot_intake.rs).
THEOREM UploadsAreOwn == ActorSpec => []UploadedIsOwn
<1>1. ShotInv => UploadedIsOwn
  BY DEF ShotInv, OwnFile
<1>2. QED
  BY <1>1, ShotInvariant, PTL

\* A saved screenshot is replaced only by one of another process, for every
\* order of captures, slots given back and restarts (focus_watch.rs).
THEOREM SavedNotReplaced == ActorSpec => SavedKept
<1> DEFINE Kept == \A n \in DOMAIN files : files'[n] # files[n] /\ files[n] # NoFile => files'[n][1] # files[n][1]
<1>1. ASSUME ShotInv, [ActorNext]_actorVars
      PROVE  [Kept]_actorVars
  <2>1. CASE WriteFile
    <3>1. job.frame \in Taken /\ job.frame \in Shot
      BY <1>1, <2>1, WriteChanges DEF WriteFile, Taken
    <3>2. ~Written(job.frame)
      BY <1>1, <3>1 DEF ShotInv, Single
    <3>3. files[job.frame[2]][1] # job.frame[1]
      BY <3>2 DEF Written
    <3>4. DOMAIN files = Number
      BY <1>1 DEF ShotInv, PipeTyped
    <3>5. QED
      BY <1>1, <2>1, <3>3, <3>4, WriteChanges
  <2>2. CASE ~WriteFile
    <3>1. files' = files
      BY <1>1, <2>2 DEF ActorNext, Exit, Welcome, WatcherSubscribes, WatcherReceives, FocusChanged, Reserve,
             CaptureAndSend, TransportSends, ReactivePress, ScriptStep, Leave, AdapterStops, AdapterReturns,
             PumpStarts, PumpQuits, KeyUp, RuntimeDrops, ProcessEnds, Relaunch, IntakeReceives, WorkerTakes,
             Upload, IntakeStops, agent, actorVars
    <3>2. QED
      BY <3>1
  <2>3. QED
    BY <2>1, <2>2
<1>2. QED
  BY <1>1, ShotInvariant, PTL DEF ActorSpec, SavedKept
=============================================================================
