-------------------------- MODULE IpcSessionProofs --------------------------
(***************************************************************************)
(* What the Controller is told of the user actor is true, for any number   *)
(* of other clients, any capacity of the pipe and any size of an image.    *)
(***************************************************************************)
EXTENDS IpcSession, SequenceTheorems, TLAPS

Stage == {"none", "read", "publish", "welcome", "refuse", "reject", "late", "stopped", "close"}
Hello == Frame("HELLO", 1, "ours")
Image == {jpeg \in Jpeg : Wireable(jpeg)}
ShotFrames == {Screenshot(jpeg) : jpeg \in Image}
Sent == {Hello} \union ShotFrames \union Foreign
Said == {"WELCOME", "ERROR", "REJECT"}
InExchange == actor \in {"exchange", "sending"}

Typed ==
  /\ taken \in Client \union {NoClient}
  /\ task \in [Client -> Stage] /\ hands \in [Client -> BOOLEAN]
  /\ srvOpen \in [Client -> BOOLEAN] /\ cliOpen \in [Client -> BOOLEAN]
  /\ up \in [Client -> Seq(Sent)]
  /\ down \in [Client -> Seq(Said)]
  /\ gate \in {NoClient, Actor}
  /\ welcomed \in BOOLEAN /\ lost \in BOOLEAN
  /\ sink \in Seq(Image)

\* A serve task owns its pipe, the accept loop the one it has not handed over;
\* only the nonce leads past the handshake.
Owned ==
  \A k \in Client :
    /\ task[k] # "none" => srvOpen[k] /\ taken # k
    /\ taken = k => srvOpen[k]
    /\ ~srvOpen[k] => up[k] = <<>>
    /\ task[k] = "none" => ~hands[k]
    /\ task[k] \in {"publish", "welcome", "stopped"} => hands[k]
    /\ task[k] \in {"late", "refuse"} => ~hands[k]
    /\ k \in Other => ~hands[k] /\ up[k] \in Seq(Foreign)

\* The user actor says HELLO once per connection and first, then images its sink
\* has let through.
Greeted ==
  /\ ~hands[Actor] /\ up[Actor] # <<>> =>
       Head(up[Actor]) = Hello /\ Tail(up[Actor]) \in Seq(ShotFrames)
  /\ hands[Actor] => up[Actor] \in Seq(ShotFrames)
  /\ cliOpen[Actor] <=> InExchange \/ actor = "hello"
  /\ ~cliOpen[Actor] => down[Actor] = <<>>
  /\ actor = "hello" => ~hands[Actor] /\ up[Actor] = <<>>
  /\ InExchange /\ srvOpen[Actor] => hands[Actor] \/ up[Actor] # <<>>
  /\ launch \in {"idle", "queued"} => actor = "off"
  /\ actor = "sending" => shot \in Image

\* A WELCOME, on its way or read, comes after user_actor.started, and
\* user_actor.stopped before the task lets go of the connection.
Told ==
  /\ task[Actor] # "reject"
  /\ down[Actor] \in Seq({"ERROR", "WELCOME"})
  /\ srvOpen[Actor] /\ ~(hands[Actor] /\ task[Actor] # "publish") =>
       down[Actor] \in Seq({"ERROR"}) /\ ~(welcomed /\ InExchange)
  /\ ~lost =>
       /\ hands[Actor] /\ task[Actor] \in {"read", "welcome", "stopped"} => evidence = "started"
       /\ task[Actor] = "close" \/ ~hands[Actor] => evidence # "started"

IpcInv == Typed /\ Owned /\ Greeted /\ Told
-----------------------------------------------------------------------------
(* What a queue of frames does                                             *)

LEMMA Queued ==
  ASSUME NEW S, NEW s \in Seq(S), NEW x \in S
  PROVE  /\ Append(s, x) \in Seq(S) /\ Append(s, x) # <<>>
         /\ s = <<>> => Head(Append(s, x)) = x /\ Tail(Append(s, x)) = <<>>
         /\ s # <<>> => Head(Append(s, x)) = Head(s) /\ Tail(Append(s, x)) = Append(Tail(s), x)
  OBVIOUS

LEMMA Dequeued ==
  ASSUME NEW S, NEW s \in Seq(S), s # <<>>
  PROVE  Tail(s) \in Seq(S) /\ Head(s) \in S
  OBVIOUS

LEMMA NoFrames ==
  ASSUME NEW S PROVE <<>> \in Seq(S)
  OBVIOUS

\* The clients, one of which is the user actor.
LEMMA Clients ==
  /\ Actor \in Client /\ Other \subseteq Client /\ Actor \notin Other /\ NoClient \notin Client
  /\ \A k \in Client : k # Actor => k \in Other
  BY IpcAssumption DEF Client

\* A frame of the server arrives in its client's queue only.
LEMMA Arrives ==
  ASSUME Typed, Told, NEW k \in Client, NEW m \in Said, ServerSends(k, m)
  PROVE  /\ down' \in [Client -> Seq(Said)] /\ cliOpen[k]
         /\ k # Actor => down'[Actor] = down[Actor]
         /\ m # "REJECT" => down'[Actor] \in Seq({"ERROR", "WELCOME"})
         /\ m = "ERROR" /\ down[Actor] \in Seq({"ERROR"}) => down'[Actor] \in Seq({"ERROR"})
<1>1. down' = [down EXCEPT ![k] = Append(down[k], m)] /\ cliOpen[k]
  BY DEF ServerSends
<1>2. down \in [Client -> Seq(Said)]
  BY DEF Typed
<1>3. Append(down[k], m) \in Seq(Said)
  BY <1>2, Queued
<1>4. down' \in [Client -> Seq(Said)]
  BY <1>1, <1>2, <1>3
<1>5. ASSUME NEW S, down[Actor] \in Seq(S), m \in S PROVE down'[Actor] \in Seq(S)
  BY <1>1, <1>2, <1>5, Queued, Clients
<1>6. down[Actor] \in Seq({"ERROR", "WELCOME"})
  BY DEF Told
<1>7. QED
  BY <1>1, <1>2, <1>4, <1>5, <1>6, Clients DEF Said

\* And a frame of a client in its server's.
LEMMA Leaves ==
  ASSUME Typed, NEW k \in Client, NEW f \in Sent, ClientSends(k, f)
  PROVE  /\ up' \in [Client -> Seq(Sent)] /\ srvOpen[k]
         /\ up'[k] = Append(up[k], f) /\ \A j \in Client \ {k} : up'[j] = up[j]
<1>1. up' = [up EXCEPT ![k] = Append(up[k], f)] /\ srvOpen[k]
  BY DEF ClientSends
<1>2. up \in [Client -> Seq(Sent)]
  BY DEF Typed
<1>3. Append(up[k], f) \in Seq(Sent)
  BY <1>2, Queued
<1>4. QED
  BY <1>1, <1>2, <1>3
-----------------------------------------------------------------------------
(* The steps of the accept loop, of the supervisor and of stop()           *)

LEMMA AcceptKeeps == ASSUME IpcInv, Accept PROVE IpcInv'
<1> USE Clients, NoFrames DEF IpcInv, server, tasks, pipes, supervisor, client, wire, shots, InExchange, ServerEndCloses
<1>1. CASE AcceptSpawns
  <2> USE <1>1 DEF AcceptSpawns
  <2>1. Typed'
    BY DEF Typed, Stage
  <2>2. Owned'
    BY DEF Typed, Owned
  <2>3. Greeted' /\ Told'
    BY DEF Typed, Owned, Greeted, Told
  <2>4. QED
    BY <2>1, <2>2, <2>3
<1>2. ASSUME NEW k \in Client, taken = k, ServerEndCloses(k), taken' = NoClient,
             UNCHANGED <<tasks, cliOpen, down, supervisor, client, wire>>
      PROVE  IpcInv'
  <2>1. Typed'
    BY <1>2 DEF Typed
  <2>2. Owned'
    BY <1>2 DEF Typed, Owned
  <2>3. Greeted' /\ Told'
    BY <1>2 DEF Typed, Owned, Greeted, Told
  <2>4. QED
    BY <2>1, <2>2, <2>3
<1>3. taken # NoClient => taken \in Client
  BY DEF Typed
<1>4. CASE AcceptSurplus \/ AcceptFails
  <2>1. /\ taken # NoClient /\ ServerEndCloses(taken) /\ taken' = NoClient
        /\ UNCHANGED <<tasks, cliOpen, down, supervisor, client, wire>>
    BY <1>4 DEF AcceptSurplus, AcceptFails
  <2>2. QED
    BY <1>2, <1>3, <2>1
<1>5. CASE AcceptResumes
  BY <1>5 DEF AcceptResumes, Typed, Owned, Greeted, Told
<1>6. CASE AcceptEnds
  <2>1. CASE taken = NoClient
    <3>1. UNCHANGED <<taken, srvOpen, up, tasks, cliOpen, down, supervisor, client, wire>>
      BY <1>6, <2>1 DEF AcceptEnds
    <3>2. QED
      BY <3>1 DEF Typed, Owned, Greeted, Told
  <2>2. CASE taken # NoClient
    <3>1. ServerEndCloses(taken) /\ taken' = NoClient /\ UNCHANGED <<tasks, cliOpen, down, supervisor, client, wire>>
      BY <1>6, <2>2 DEF AcceptEnds
    <3>2. QED
      BY <1>2, <1>3, <2>2, <3>1
  <2>3. QED
    BY <2>1, <2>2
<1>7. QED
  BY <1>1, <1>4, <1>5, <1>6 DEF Accept

LEMMA SupervisorKeeps ==
  ASSUME IpcInv, Stop \/ PermitFreed \/ SupervisorPre \/ LaunchCreates \/ LaunchArms \/ LaunchFails
  PROVE  IpcInv'
<1> USE DEF IpcInv, Typed, Owned, Greeted, Told, server, tasks, pipes, supervisor, client, wire, shots, InExchange
<1>1. CASE Stop \/ PermitFreed
  BY <1>1 DEF Stop, PermitFreed
<1>2. CASE SupervisorPre \/ LaunchArms \/ LaunchFails
  BY <1>2 DEF SupervisorPre, LaunchArms, LaunchFails
<1>3. CASE LaunchCreates
  BY <1>3 DEF LaunchCreates
<1>4. QED
  BY <1>1, <1>2, <1>3
-----------------------------------------------------------------------------
(* The steps of a serve task                                               *)

\* A frame is taken: the user actor's HELLO is verified, its images are read,
\* and nobody else gets past the handshake.
LEMMA ServeFrameKeeps == ASSUME IpcInv, NEW k \in Client, ServeFrame(k) PROVE IpcInv'
<1> DEFINE f == Head(up[k])
<1> USE Clients DEF IpcInv, server, tasks, supervisor, client, wire, shots, InExchange
<1>1. /\ task[k] = "read" /\ up[k] # <<>>
      /\ task' = [task EXCEPT ![k] = Judged(k, f)]
      /\ hands' = [hands EXCEPT ![k] = @ \/ task'[k] = "publish"]
      /\ up' = [up EXCEPT ![k] = Tail(@)]
      /\ UNCHANGED <<server, srvOpen, cliOpen, down, supervisor, client, wire>>
  BY DEF ServeFrame
<1>2. /\ task \in [Client -> Stage] /\ hands \in [Client -> BOOLEAN] /\ up \in [Client -> Seq(Sent)]
      /\ srvOpen[k] /\ taken # k /\ Tail(up[k]) \in Seq(Sent) /\ f \in Sent
  BY <1>1, Dequeued DEF Typed, Owned
<1>3. CASE k \in Other
  <2>1. ~hands[k] /\ f \in Foreign /\ Tail(up[k]) \in Seq(Foreign)
    BY <1>1, <1>3, Dequeued DEF Owned
  <2>2. f.body # "ours"
    BY <2>1, IpcAssumption
  <2>3. Judged(k, f) \in {"reject", "refuse"}
    BY <2>1, <2>2 DEF Judged, Verified
  <2> HIDE DEF f
  <2>4. /\ task' = [task EXCEPT ![k] = Judged(k, f)] /\ task'[k] \in {"reject", "refuse"}
        /\ hands' = hands /\ up'[k] \in Seq(Foreign) /\ up' \in [Client -> Seq(Sent)]
    BY <1>1, <1>2, <2>1, <2>3
  <2>5. task'[Actor] = task[Actor] /\ up'[Actor] = up[Actor]
    BY <1>1, <1>2, <1>3
  <2>6. Typed'
    BY <1>1, <1>2, <2>3, <2>4 DEF Typed, Stage
  <2>7. Owned'
    BY <1>1, <1>2, <2>1, <2>3, <2>4 DEF Owned
  <2>8. Greeted' /\ Told'
    BY <1>1, <2>4, <2>5 DEF Greeted, Told
  <2>9. QED
    BY <2>6, <2>7, <2>8
<1>4. CASE k = Actor /\ ~hands[k]
  <2>1. f = Hello /\ Tail(up[k]) \in Seq(ShotFrames)
    BY <1>1, <1>4 DEF Greeted
  <2>2. f.type = "HELLO" /\ f.body = "ours" /\ gate \in {NoClient, k}
    BY <1>4, <2>1 DEF Hello, Frame, Typed
  <2>3. Judged(k, f) = "publish"
    BY <2>2 DEF Judged, Verified
  <2> HIDE DEF f
  <2>4. /\ task' = [task EXCEPT ![k] = "publish"] /\ hands' = [hands EXCEPT ![k] = TRUE]
        /\ up'[k] \in Seq(ShotFrames) /\ up' \in [Client -> Seq(Sent)]
    BY <1>1, <1>2, <2>1, <2>3
  <2>5. Typed'
    BY <1>1, <1>2, <2>4 DEF Typed, Stage
  <2>6. Owned'
    BY <1>1, <1>2, <1>4, <2>4 DEF Owned
  <2>7. Greeted'
    BY <1>1, <1>2, <1>4, <2>4 DEF Greeted
  <2>8. Told'
    BY <1>1, <1>2, <1>4, <2>4 DEF Told
  <2>9. QED
    BY <2>5, <2>6, <2>7, <2>8
<1>5. CASE k = Actor /\ hands[k]
  <2>1. f \in ShotFrames /\ Tail(up[k]) \in Seq(ShotFrames)
    BY <1>1, <1>5, Dequeued DEF Greeted
  <2>2. f.type = "SCREENSHOT"
    BY <2>1 DEF ShotFrames, Screenshot, Frame
  <2>3. Judged(k, f) = "read"
    BY <1>5, <2>2 DEF Judged
  <2> HIDE DEF f
  <2>4. /\ task' = task /\ hands' = hands
        /\ up'[k] \in Seq(ShotFrames) /\ up' \in [Client -> Seq(Sent)]
    BY <1>1, <1>2, <2>1, <2>3
  <2>5. Typed'
    BY <1>1, <1>2, <2>4 DEF Typed
  <2>6. Owned'
    BY <1>1, <1>2, <1>5, <2>4 DEF Owned
  <2>7. Greeted' /\ Told'
    BY <1>1, <1>5, <2>4 DEF Greeted, Told
  <2>8. QED
    BY <2>5, <2>6, <2>7
<1>6. QED
  BY <1>2, <1>3, <1>4, <1>5 DEF Typed

\* An answer: an error, or the configuration.
LEMMA ServeAnswerKeeps ==
  ASSUME IpcInv, NEW k \in Client, ServeRefuses(k) \/ ServeErrorEnds(k) \/ ServeWelcome(k)
  PROVE  IpcInv'
<1> USE Clients DEF IpcInv, server, tasks, pipes, supervisor, client, wire, shots, InExchange
<1>1. ASSUME NEW m \in Said, NEW next \in Stage,
             ServerSends(k, m) \/ (~cliOpen[k] /\ UNCHANGED down) \/ (k # Actor /\ UNCHANGED down)
               \/ (~hands[k] /\ UNCHANGED down),
             task[k] \in {"refuse", "reject", "late", "welcome"},
             m = "REJECT" => k # Actor,
             m = "WELCOME" => hands[k],
             IF hands[k] THEN next \in {"read", "stopped"} ELSE next \in {"read", "close"},
             task' = [task EXCEPT ![k] = next],
             UNCHANGED <<server, hands, srvOpen, cliOpen, up, supervisor, client, wire>>
      PROVE  IpcInv'
  <2>1. /\ down' \in [Client -> Seq(Said)]
        /\ k # Actor => down'[Actor] = down[Actor]
        /\ down'[Actor] \in Seq({"ERROR", "WELCOME"})
        /\ ~(k = Actor /\ m = "WELCOME") /\ down[Actor] \in Seq({"ERROR"}) => down'[Actor] \in Seq({"ERROR"})
        /\ ~cliOpen[Actor] => down'[Actor] = down[Actor]
    BY <1>1, Arrives DEF Typed, Told, Said
  <2>2. Typed'
    BY <1>1, <2>1 DEF Typed
  <2>3. Owned'
    BY <1>1 DEF Typed, Owned, Stage
  <2>4. Greeted'
    BY <1>1, <2>1 DEF Greeted
  <2>5. task[Actor] # "reject" /\ task'[Actor] # "reject" /\ hands[Actor] \in BOOLEAN
    BY <1>1 DEF Typed, Told
  <2>6. CASE k # Actor
    <3>1. Told'
      BY <1>1, <2>1, <2>6 DEF Typed, Told
    <3>2. QED
      BY <2>2, <2>3, <2>4, <3>1
  <2>7. CASE k = Actor
    <3>1. hands[Actor] <=> task[Actor] = "welcome"
      BY <1>1, <2>5, <2>7 DEF Owned
    <3>2. Told'
      BY <1>1, <2>1, <2>5, <2>7, <3>1 DEF Typed, Told
    <3>3. QED
      BY <2>2, <2>3, <2>4, <3>2
  <2>8. QED
    BY <2>2, <2>3, <2>4, <2>6, <2>7
<1>2. CASE ServeRefuses(k)
  <2>1. ~hands[k]
    BY <1>2 DEF ServeRefuses, Owned
  <2>2. QED
    BY <1>1, <1>2, <2>1 DEF ServeRefuses, Said, Stage
<1>3. CASE ServeErrorEnds(k)
  <2>1. task[Actor] # "reject"
    BY DEF Told
  <2> DEFINE m == IF task[k] = "reject" THEN "REJECT" ELSE "ERROR"
             next == IF hands[k] THEN "stopped" ELSE "close"
  <2>2. /\ m \in Said /\ next \in Stage /\ m # "WELCOME"
        /\ IF hands[k] THEN next \in {"read", "stopped"} ELSE next \in {"read", "close"}
        /\ m = "REJECT" => k # Actor
    BY <2>1 DEF Said, Stage
  <2>3. /\ ServerSends(k, m) \/ (~cliOpen[k] /\ UNCHANGED down)
        /\ task[k] \in {"refuse", "reject", "late", "welcome"}
        /\ task' = [task EXCEPT ![k] = next]
        /\ UNCHANGED <<server, hands, srvOpen, cliOpen, up, supervisor, client, wire>>
    BY <1>3 DEF ServeErrorEnds
  <2> HIDE DEF m, next
  <2>4. QED
    BY <1>1, <2>2, <2>3
<1>4. CASE ServeWelcome(k)
  <2>1. hands[k]
    BY <1>4 DEF ServeWelcome, Owned
  <2>2. QED
    BY <1>1, <1>4, <2>1 DEF ServeWelcome, EndServe, Said, Stage
<1>5. QED
  BY <1>2, <1>3, <1>4

\* The steps that report, end or give up.
LEMMA ServeEndKeeps ==
  ASSUME IpcInv, NEW k \in Client,
         ServeReadEnds(k) \/ ServeTimeout(k) \/ ServeStarted(k) \/ ServeStopped(k) \/ ServeCloses(k)
  PROVE  IpcInv'
<1> USE Clients, NoFrames
    DEF IpcInv, server, tasks, pipes, supervisor, client, wire, shots, InExchange, Stage,
        ServerEndCloses, EndServe, Reports
<1>1. CASE ServeReadEnds(k)
  <2> USE <1>1 DEF ServeReadEnds
  <2>1. Typed'
    BY DEF Typed
  <2>2. Owned'
    BY DEF Typed, Owned
  <2>3. Greeted'
    BY DEF Typed, Owned, Greeted
  <2>4. Told'
    BY DEF Typed, Owned, Greeted, Told
  <2>5. QED
    BY <2>1, <2>2, <2>3, <2>4
<1>2. CASE ServeTimeout(k)
  <2> USE <1>2 DEF ServeTimeout
  <2>1. Typed'
    BY DEF Typed
  <2>2. Owned'
    BY DEF Typed, Owned
  <2>3. Greeted'
    BY DEF Typed, Owned, Greeted
  <2>4. Told'
    BY DEF Typed, Owned, Greeted, Told
  <2>5. QED
    BY <2>1, <2>2, <2>3, <2>4
<1>3. CASE ServeStarted(k)
  <2> USE <1>3 DEF ServeStarted
  <2>1. Typed'
    BY DEF Typed
  <2>2. Owned'
    BY DEF Typed, Owned
  <2>3. Greeted'
    BY DEF Typed, Owned, Greeted
  <2>4. Told'
    BY DEF Typed, Owned, Greeted, Told
  <2>5. QED
    BY <2>1, <2>2, <2>3, <2>4
<1>4. CASE ServeStopped(k)
  <2> USE <1>4 DEF ServeStopped
  <2>1. Typed'
    BY DEF Typed
  <2>2. Owned'
    BY DEF Typed, Owned
  <2>3. Greeted'
    BY DEF Typed, Owned, Greeted
  <2>4. Told'
    BY DEF Typed, Owned, Greeted, Told
  <2>5. QED
    BY <2>1, <2>2, <2>3, <2>4
<1>5. CASE ServeCloses(k)
  <2> USE <1>5 DEF ServeCloses
  <2>1. Typed'
    BY DEF Typed
  <2>2. Owned'
    BY DEF Typed, Owned
  <2>3. Greeted'
    BY DEF Typed, Owned, Greeted
  <2>4. Told'
    BY DEF Typed, Owned, Greeted, Told
  <2>5. QED
    BY <2>1, <2>2, <2>3, <2>4
<1>6. QED
  BY <1>1, <1>2, <1>3, <1>4, <1>5
-----------------------------------------------------------------------------
(* The steps of the user actor and of the other clients                    *)

\* The exchange is left: nothing on the way to the client stays, and the server
\* goes on with what it has.
LEMMA LeavingKeeps ==
  ASSUME IpcInv, NEW next \in {"failed", "lost", "ended"}, LeaveExchange(next), actor # "off",
         UNCHANGED <<server, tasks, supervisor, wire>>, sink' \in Seq(Image), welcomed' \in BOOLEAN
  PROVE  IpcInv'
<1> USE Clients, NoFrames
    DEF IpcInv, server, tasks, supervisor, wire, InExchange, LeaveExchange, ClientEndCloses
<1>1. /\ cliOpen' = [cliOpen EXCEPT ![Actor] = FALSE] /\ down' = [down EXCEPT ![Actor] = <<>>]
      /\ actor' = next /\ UNCHANGED <<srvOpen, up>>
  OBVIOUS
<1>2. Typed'
  <2>1. cliOpen' \in [Client -> BOOLEAN] /\ down' \in [Client -> Seq(Said)]
    <3>1. <<>> \in Seq(Said)
      OBVIOUS
    <3>2. QED
      BY <1>1, <3>1 DEF Typed
  <2>2. QED
    BY <1>1, <2>1 DEF Typed
<1>3. Owned'
  BY <1>1 DEF Owned
<1>4. Greeted'
  BY <1>1 DEF Typed, Greeted
<1>5. Told'
  BY <1>1 DEF Typed, Told
<1>6. QED
  BY <1>2, <1>3, <1>4, <1>5

\* Its HELLO finds an empty queue and comes first; an image comes after it.
LEMMA ActorSendsKeeps == ASSUME IpcInv, ClientHello \/ ClientShotWritten PROVE IpcInv'
<1> USE Clients, NoFrames
    DEF IpcInv, server, tasks, pipes, supervisor, client, wire, shots, InExchange,
        LeaveExchange, ClientEndCloses
<1>1. CASE ClientHello /\ ClientSends(Actor, Hello) /\ actor' = "exchange"
  <2>1. /\ actor = "hello" /\ welcomed' = FALSE
        /\ UNCHANGED <<server, tasks, supervisor, shots, wire, srvOpen, cliOpen, down>>
    BY <1>1 DEF ClientHello
  <2>2. /\ up' \in [Client -> Seq(Sent)] /\ srvOpen[Actor] /\ up'[Actor] = Append(up[Actor], Hello)
        /\ \A j \in Client \ {Actor} : up'[j] = up[j]
    BY <1>1, Leaves DEF Sent
  <2>3. up'[Actor] # <<>> /\ Head(up'[Actor]) = Hello /\ Tail(up'[Actor]) \in Seq(ShotFrames)
    <3>1. up[Actor] = <<>> /\ Hello \in Sent /\ <<>> \in Seq(Sent)
      BY <2>1 DEF Greeted, Sent
    <3>2. QED
      BY <2>2, <3>1, Queued
  <2>4. Typed'
    BY <2>1, <2>2 DEF Typed
  <2>5. Owned'
    BY <2>1, <2>2 DEF Owned
  <2>6. Greeted' /\ Told'
    BY <1>1, <2>1, <2>2, <2>3 DEF Greeted, Told
  <2>7. QED
    BY <2>4, <2>5, <2>6
<1>2. CASE ClientShotWritten /\ ClientSends(Actor, Screenshot(shot)) /\ actor' = "exchange"
  <2>1. /\ actor = "sending" /\ UNCHANGED <<server, tasks, supervisor, welcomed, sink, wire, srvOpen, cliOpen, down>>
    BY <1>2 DEF ClientShotWritten
  <2>2. Screenshot(shot) \in ShotFrames
    BY <2>1 DEF Greeted, ShotFrames
  <2>3. /\ up' \in [Client -> Seq(Sent)] /\ srvOpen[Actor] /\ up'[Actor] = Append(up[Actor], Screenshot(shot))
        /\ \A j \in Client \ {Actor} : up'[j] = up[j]
    BY <1>2, <2>2, Leaves DEF Sent
  <2>4. hands[Actor] => up'[Actor] \in Seq(ShotFrames)
    BY <2>2, <2>3, Queued DEF Greeted
  <2>5. up'[Actor] # <<>>
    BY <2>2, <2>3, Queued DEF Typed, Sent
  <2>6. ~hands[Actor] => Head(up'[Actor]) = Hello /\ Tail(up'[Actor]) \in Seq(ShotFrames)
    <3>1. SUFFICES ASSUME ~hands[Actor] PROVE Head(up'[Actor]) = Hello /\ Tail(up'[Actor]) \in Seq(ShotFrames)
      OBVIOUS
    <3>2. up[Actor] # <<>> /\ Head(up[Actor]) = Hello /\ Tail(up[Actor]) \in Seq(ShotFrames)
      BY <2>1, <2>3, <3>1 DEF Greeted
    <3>3. Screenshot(shot) \in Sent /\ up[Actor] \in Seq(Sent)
      BY <2>2 DEF Sent, Typed
    <3>4. Head(up'[Actor]) = Head(up[Actor]) /\ Tail(up'[Actor]) = Append(Tail(up[Actor]), Screenshot(shot))
      BY <2>3, <3>2, <3>3, Queued
    <3>5. Append(Tail(up[Actor]), Screenshot(shot)) \in Seq(ShotFrames)
      BY <2>2, <3>2, Queued
    <3>6. QED
      BY <3>2, <3>4, <3>5
  <2>7. Typed'
    BY <2>1, <2>3 DEF Typed
  <2>8. Owned'
    BY <2>1, <2>3 DEF Owned
  <2>9. Greeted' /\ Told'
    BY <1>2, <2>1, <2>3, <2>4, <2>5, <2>6 DEF Greeted, Told
  <2>10. QED
    BY <2>7, <2>8, <2>9
<1>3. ASSUME NEW next \in {"failed", "lost"}, LeaveExchange(next), actor \in {"hello", "sending"},
             UNCHANGED <<server, tasks, supervisor, sink, wire>>, welcomed' \in BOOLEAN
      PROVE  IpcInv'
  <2>1. sink' \in Seq(Image)
    BY <1>3 DEF Typed
  <2>2. QED
    BY <1>3, <2>1, LeavingKeeps
<1>4. QED
  <2>1. welcomed \in BOOLEAN
    BY DEF Typed
  <2>2. CASE ClientHello
    BY <1>1, <1>3, <2>2 DEF ClientHello, Hello
  <2>3. CASE ClientShotWritten
    BY <1>2, <1>3, <2>1, <2>3 DEF ClientShotWritten
  <2>4. QED
    BY <2>2, <2>3

\* What it reads tells it whether it is welcome.
LEMMA ActorReadsKeeps == ASSUME IpcInv, ClientFrame \/ ClientEof PROVE IpcInv'
<1> USE Clients, NoFrames
    DEF IpcInv, server, tasks, pipes, supervisor, client, wire, shots, InExchange,
        LeaveExchange, ClientEndCloses
<1>1. CASE ClientEof \/ (ClientFrame /\ LeaveExchange("failed") /\ UNCHANGED welcomed)
  <2>1. /\ LeaveExchange("lost") \/ LeaveExchange("failed")
        /\ UNCHANGED <<server, tasks, supervisor, welcomed, shots, wire>>
    BY <1>1 DEF ClientEof, ClientFrame
  <2>2. actor = "exchange" /\ welcomed \in BOOLEAN /\ sink \in Seq(Image)
    BY <1>1 DEF ClientEof, ClientFrame, Typed
  <2>3. QED
    BY <2>1, <2>2, LeavingKeeps
<1>2. CASE ClientFrame /\ ~(LeaveExchange("failed") /\ UNCHANGED welcomed)
  <2>1. /\ actor = "exchange" /\ down[Actor] # <<>>
        /\ Head(down[Actor]) = "WELCOME" \/ welcomed
        /\ welcomed' = (welcomed \/ Head(down[Actor]) = "WELCOME")
        /\ down' = [down EXCEPT ![Actor] = Tail(down[Actor])]
        /\ UNCHANGED <<actor, srvOpen, cliOpen, up, server, tasks, supervisor, shots, wire>>
    BY <1>2 DEF ClientFrame
  <2>2. /\ down[Actor] \in Seq(Said) /\ down[Actor] \in Seq({"ERROR", "WELCOME"})
        /\ down \in [Client -> Seq(Said)]
    BY DEF Typed, Told
  <2>3. ASSUME NEW S, down[Actor] \in Seq(S) PROVE down'[Actor] \in Seq(S) /\ Head(down[Actor]) \in S
    BY <2>1, <2>2, <2>3, Dequeued
  <2>4. Typed'
    BY <2>1, <2>2, <2>3 DEF Typed
  <2>5. Owned' /\ Greeted'
    BY <2>1 DEF Owned, Greeted
  <2>6. down'[Actor] \in Seq({"ERROR", "WELCOME"})
    BY <2>2, <2>3
  <2>7. srvOpen[Actor] /\ ~(hands[Actor] /\ task[Actor] # "publish") => FALSE
    BY <2>1, <2>3 DEF Told
  <2>8. Told'
    BY <2>1, <2>6, <2>7 DEF Told
  <2>9. QED
    BY <2>4, <2>5, <2>8
<1>3. QED
  BY <1>1, <1>2

LEMMA ActorRunKeeps ==
  ASSUME IpcInv, \/ ClientConnectStep \/ ClientShot \/ ClientReconnects \/ ActorEnds
                 \/ \E jpeg \in Jpeg : Capture(jpeg)
  PROVE  IpcInv'
<1> USE Clients, NoFrames
    DEF IpcInv, server, tasks, pipes, supervisor, client, wire, shots, InExchange,
        LeaveExchange, ClientEndCloses, Opens
<1>1. CASE ClientConnects
  <2> USE <1>1 DEF ClientConnects
  <2>1. Typed'
    BY Dequeued DEF Typed
  <2>2. Owned'
    BY DEF Typed, Owned
  <2>3. Greeted'
    BY Dequeued DEF Typed, Owned, Greeted
  <2>4. Told'
    BY DEF Typed, Owned, Greeted, Told
  <2>5. QED
    BY <2>1, <2>2, <2>3, <2>4
<1>2. CASE ClientGivesUp
  <2> USE <1>2 DEF ClientGivesUp
  <2>1. Typed'
    BY Dequeued DEF Typed
  <2>2. Owned'
    BY DEF Typed, Owned
  <2>3. Greeted'
    BY Dequeued DEF Typed, Owned, Greeted
  <2>4. Told'
    BY DEF Typed, Owned, Greeted, Told
  <2>5. QED
    BY <2>1, <2>2, <2>3, <2>4
<1>3. CASE ClientShot
  <2> USE <1>3 DEF ClientShot
  <2>1. Typed'
    BY Dequeued DEF Typed
  <2>2. Owned'
    BY DEF Typed, Owned
  <2>3. Greeted'
    BY Dequeued DEF Typed, Owned, Greeted
  <2>4. Told'
    BY DEF Typed, Owned, Greeted, Told
  <2>5. QED
    BY <2>1, <2>2, <2>3, <2>4
<1>4. CASE ClientReconnects
  <2> USE <1>4 DEF ClientReconnects
  <2>1. Typed'
    BY Dequeued DEF Typed
  <2>2. Owned'
    BY DEF Typed, Owned
  <2>3. Greeted'
    BY Dequeued DEF Typed, Owned, Greeted
  <2>4. Told'
    BY DEF Typed, Owned, Greeted, Told
  <2>5. QED
    BY <2>1, <2>2, <2>3, <2>4
<1>5. CASE ActorEnds
  <2> USE <1>5 DEF ActorEnds
  <2>1. Typed'
    BY Dequeued DEF Typed
  <2>2. Owned'
    BY DEF Typed, Owned
  <2>3. Greeted'
    BY Dequeued DEF Typed, Owned, Greeted
  <2>4. Told'
    BY DEF Typed, Owned, Greeted, Told
  <2>5. QED
    BY <2>1, <2>2, <2>3, <2>4
<1>6. ASSUME NEW jpeg \in Jpeg, Capture(jpeg) PROVE IpcInv'
  <2>1. jpeg \in Image /\ sink' = Append(sink, jpeg)
        /\ UNCHANGED <<server, tasks, pipes, supervisor, actor, welcomed, shot, wire>>
    BY <1>6 DEF Capture, Image
  <2>2. sink' \in Seq(Image)
    BY <2>1, Queued DEF Typed
  <2>3. QED
    BY <2>1, <2>2 DEF Typed, Owned, Greeted, Told
<1>7. QED
  BY <1>1, <1>2, <1>3, <1>4, <1>5, <1>6 DEF ClientConnectStep

\* Another client sends what it can make without the nonce.
LEMMA OtherKeeps ==
  ASSUME IpcInv, NEW k \in Other, OtherConnects(k) \/ OtherSends(k) \/ OtherReads(k) \/ OtherCloses(k)
  PROVE  IpcInv'
<1> USE Clients, NoFrames
    DEF IpcInv, server, tasks, pipes, supervisor, client, wire, shots, InExchange,
        ClientEndCloses, Opens
<1>1. CASE OtherConnects(k)
  <2> USE <1>1 DEF OtherConnects
  <2>1. Typed'
    BY Dequeued DEF Typed
  <2>2. Owned'
    BY DEF Typed, Owned
  <2>3. Greeted' /\ Told'
    BY DEF Typed, Owned, Greeted, Told
  <2>4. QED
    BY <2>1, <2>2, <2>3
<1>2. CASE OtherReads(k)
  <2> USE <1>2 DEF OtherReads
  <2>1. Typed'
    BY Dequeued DEF Typed
  <2>2. Owned'
    BY DEF Typed, Owned
  <2>3. Greeted' /\ Told'
    BY DEF Typed, Owned, Greeted, Told
  <2>4. QED
    BY <2>1, <2>2, <2>3
<1>3. CASE OtherCloses(k)
  <2> USE <1>3 DEF OtherCloses
  <2>1. Typed'
    BY Dequeued DEF Typed
  <2>2. Owned'
    BY DEF Typed, Owned
  <2>3. Greeted' /\ Told'
    BY DEF Typed, Owned, Greeted, Told
  <2>4. QED
    BY <2>1, <2>2, <2>3
<1>4. CASE OtherSends(k)
  <2>1. PICK f \in Foreign : ClientSends(k, f)
    BY <1>4 DEF OtherSends
  <2>2. UNCHANGED <<server, tasks, srvOpen, cliOpen, down, supervisor, client, wire>>
    BY <1>4 DEF OtherSends
  <2>3. /\ up' \in [Client -> Seq(Sent)] /\ srvOpen[k] /\ up'[k] = Append(up[k], f)
        /\ \A j \in Client \ {k} : up'[j] = up[j]
    BY <2>1, Leaves DEF Sent
  <2>4. up'[k] \in Seq(Foreign) /\ up'[Actor] = up[Actor]
    BY <2>3, Queued DEF Owned
  <2>5. Typed'
    BY <2>2, <2>3 DEF Typed
  <2>6. Owned'
    BY <2>2, <2>3, <2>4 DEF Owned
  <2>7. Greeted' /\ Told'
    BY <2>2, <2>4 DEF Greeted, Told
  <2>8. QED
    BY <2>5, <2>6, <2>7
<1>5. QED
  BY <1>1, <1>2, <1>3, <1>4
-----------------------------------------------------------------------------
LEMMA IpcInit == Init => IpcInv
<1> SUFFICES ASSUME Init PROVE IpcInv
  OBVIOUS
<1> USE Clients, NoFrames DEF Init
<1>1. Typed
  BY DEF Typed, Stage
<1>2. Owned
  BY DEF Owned
<1>3. Greeted /\ Told
  BY DEF Greeted, Told, InExchange
<1>4. QED
  BY <1>1, <1>2, <1>3 DEF IpcInv

LEMMA IpcStep == IpcInv /\ [Next]_vars => IpcInv'
<1> SUFFICES ASSUME IpcInv, [Next]_vars PROVE IpcInv'
  OBVIOUS
<1>1. CASE Accept \/ Stop \/ PermitFreed \/ SupervisorPre \/ LaunchCreates \/ LaunchArms \/ LaunchFails
  BY <1>1, AcceptKeeps, SupervisorKeeps
<1>2. CASE \E k \in Client : Serve(k) \/ ServeTimeout(k)
  BY <1>2, ServeFrameKeeps, ServeAnswerKeeps, ServeEndKeeps DEF Serve
<1>3. CASE ClientRun \/ ActorEnds \/ \E jpeg \in Jpeg : Capture(jpeg)
  BY <1>3, ActorSendsKeeps, ActorReadsKeeps, ActorRunKeeps DEF ClientRun
<1>4. CASE \E k \in Other : OtherConnects(k) \/ OtherSends(k) \/ OtherReads(k) \/ OtherCloses(k)
  BY <1>4, OtherKeeps
<1>5. CASE UNCHANGED vars
  BY <1>5 DEF vars, server, tasks, pipes, supervisor, client, wire, shots, IpcInv,
              Typed, Owned, Greeted, Told, InExchange
<1>6. QED
  BY <1>1, <1>2, <1>3, <1>4, <1>5 DEF Next

\* What the user actor sends is readable: HELLO under the smaller cap, an image
\* that its sink let through under the larger one.
LEMMA ActorReadable ==
  ASSUME IpcInv, up[Actor] # <<>> PROVE Readable(Actor, Head(up[Actor]))
<1> DEFINE f == Head(up[Actor])
<1>1. /\ PreMax \in Nat /\ PreMax >= 1 /\ MaxPayload \in Nat /\ MaxPayload >= PreMax
      /\ SeqLen \in Nat /\ Jpeg \subseteq Nat
  BY IpcAssumption
<1>2. CASE ~hands[Actor]
  <2>1. f = Hello
    BY <1>2 DEF IpcInv, Greeted
  <2>2. f.type = "HELLO" /\ f.len = 1 /\ f.flags = 0 /\ f.body = "ours"
    BY <2>1 DEF Hello, Frame
  <2>3. QED
    BY <1>1, <1>2, <2>2 DEF Readable, FromBytes, PayloadCap, Sensible, Known
<1>3. CASE hands[Actor]
  <2>1. f \in ShotFrames
    BY <1>3, Dequeued DEF IpcInv, Greeted
  <2>2. PICK jpeg \in Image : f = Screenshot(jpeg)
    BY <2>1 DEF ShotFrames
  <2>3. /\ f.type = "SCREENSHOT" /\ f.len = SeqLen + jpeg /\ f.flags = 0
        /\ jpeg \in Nat /\ SeqLen + jpeg <= MaxPayload
    BY <1>1, <2>2 DEF Screenshot, Frame, Image, Wireable
  <2> HIDE DEF f
  <2>4. QED
    BY <1>1, <1>3, <2>3 DEF f, Readable, FromBytes, PayloadCap, Sensible, Known, DecodeScreenshot
<1>4. QED
  BY <1>2, <1>3

\* The gate never turns the user actor away, its frames never break its
\* connection, and the Controller's evidence of it is true as long as reports
\* get through: for any clients, any capacities and any images.
THEOREM IpcEvidence == Spec => []EvidenceTrue
<1>1. IpcInv => EvidenceTrue
  <2> SUFFICES ASSUME IpcInv PROVE EvidenceTrue
    OBVIOUS
  <2>1. task[Actor] # "reject" /\ \A i \in DOMAIN down[Actor] : down[Actor][i] # "REJECT"
    <3>1. down[Actor] \in Seq({"ERROR", "WELCOME"}) /\ task[Actor] # "reject"
      BY DEF IpcInv, Told
    <3>2. \A i \in DOMAIN down[Actor] : down[Actor][i] \in {"ERROR", "WELCOME"}
      BY <3>1
    <3>3. QED
      BY <3>1, <3>2
  <2>2. task[Actor] \in Stage
    BY Clients DEF IpcInv, Typed
  <2>3. QED
    BY <2>1, <2>2, ActorReadable, Clients DEF EvidenceTrue, IpcInv, Told, Owned, InExchange, Stage
<1>2. QED
  BY <1>1, IpcInit, IpcStep, PTL DEF Spec
=============================================================================
