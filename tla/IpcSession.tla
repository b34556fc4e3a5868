----------------------------- MODULE IpcSession -----------------------------
(***************************************************************************)
(* The pipe between the agent and the user actor: the accept loop and the  *)
(* serve tasks of ipc_server.rs, the run loop of ipc_client.rs, and the    *)
(* launch job of user_actor_supervisor.rs that arms the pid gate.  The     *)
(* actor runs under the console user's token, or as SYSTEM when a          *)
(* scheduled task launches it; the pipe's security descriptor is made once,*)
(* when the server is attached, and names the console user of that moment. *)
(*                                                                         *)
(* A client has at most one connection open, so a connection is named by   *)
(* its client: the user actor, or another process that opens the pipe and  *)
(* does not hold the nonce.  A frame that is not complete is not there.  A *)
(* frame to the server has the fields of its header and, as `body', what   *)
(* the decoder makes of a HELLO: "ours", "foreign" (a nonce or a protocol  *)
(* that does not match) or "garbage".  What the agent sends always decodes *)
(* and is named by what it says.                                           *)
(*                                                                         *)
(* The pipe (external) holds Buffer frames each way; a write to a full     *)
(* pipe waits, a write to a closed one fails, and what was written before  *)
(* the server closed can still be read.                                    *)
(***************************************************************************)
EXTENDS Naturals, Sequences, FiniteSets

CONSTANTS
  Actor,      \* the user actor
  Other,      \* the other clients
  NoClient,   \* nobody is connected to the listening instance
  Cap,        \* MAX_CONCURRENT_CLIENTS
  Buffer,     \* frames a pipe holds in one direction
  SinkCap,    \* SINK_CHANNEL_CAPACITY
  PreMax,     \* PRE_HANDSHAKE_MAX_PAYLOAD
  MaxPayload, \* MAX_PAYLOAD_LEN
  SeqLen,     \* SCREENSHOT_SEQ_LEN
  Jpeg,       \* sizes of the images that are captured
  Foreign     \* frames the other clients send

Client == Other \union {Actor}

ASSUME IpcAssumption ==
  /\ Actor \notin Other /\ NoClient \notin Client
  /\ {Cap, Buffer, SinkCap, PreMax} \subseteq Nat \ {0} /\ Jpeg \subseteq Nat
  /\ SeqLen \in Nat /\ MaxPayload \in Nat /\ MaxPayload >= PreMax
  /\ \A f \in Foreign : f.body # "ours"

VARIABLES
  accept,     \* the accept loop: "listen", "backoff", "ended" or "broken"
  taken,      \* the client that opened the listening instance
  releasing,  \* serve tasks that have closed the pipe and not freed the permit
  cancelled,  \* the token of stop()
  task,       \* the serve task of a connection
  hands,      \* its `handshaked`
  srvOpen,    \* the server's end of the connection
  cliOpen,    \* the client's end
  up, down,   \* frames to the server, frames to the client
  dacl,       \* the accounts that may open the pipe
  mechanism,  \* the launch mechanism: "Token" or "SchedTask"
  launch,     \* the launch: "idle", "queued", "created", "done"
  gate,       \* expected_client_pid, NoClient for 0
  actor,      \* the run loop of the user actor
  welcomed,   \* the `handshaked` of its exchange
  sink,       \* sizes of the screenshots queued in its sink
  shot,       \* the size of the one it is writing
  evidence,   \* the last user_actor report: "none", "started", "stopped"
  lost        \* a report did not reach the broker

server == <<accept, taken, releasing, cancelled>>
tasks == <<task, hands>>
pipes == <<srvOpen, cliOpen, up, down>>
supervisor == <<dacl, mechanism, launch, gate>>
shots == <<sink, shot>>
client == <<actor, welcomed, shots>>
wire == <<evidence, lost>>
vars == <<server, tasks, pipes, supervisor, client, wire>>

\* console_user_sid: the console user's account when somebody is logged on as the
\* server is attached and it can be resolved; SYSTEM and Administrators always.
PipeSddl == {{"SYSTEM"}, {"SYSTEM", "user"}}

Account == IF mechanism = "Token" THEN "user" ELSE "SYSTEM"

\* PipeSecurity::from_sddl and create_pipe_instance: a listening instance, or
\* an error that ends run() for good.
Instance == {"listen", "broken"}

Init ==
  /\ accept \in Instance /\ taken = NoClient /\ releasing = 0 /\ cancelled = FALSE
  /\ task = [k \in Client |-> "none"] /\ hands = [k \in Client |-> FALSE]
  /\ srvOpen = [k \in Client |-> FALSE] /\ cliOpen = [k \in Client |-> FALSE]
  /\ up = [k \in Client |-> <<>>] /\ down = [k \in Client |-> <<>>]
  /\ dacl \in PipeSddl /\ mechanism \in {"Token", "SchedTask"}
  /\ launch = "idle" /\ gate = NoClient
  /\ actor = "off" /\ welcomed = FALSE /\ sink = <<>> /\ shot = 0
  /\ evidence = "none" /\ lost = FALSE

-----------------------------------------------------------------------------
(* The pipe *)

\* A client opens the listening instance: a new connection, both ends open.
Opens(k) ==
  /\ accept = "listen" /\ taken = NoClient
  /\ ~srvOpen[k] /\ ~cliOpen[k]
  /\ taken' = k
  /\ srvOpen' = [srvOpen EXCEPT ![k] = TRUE]
  /\ cliOpen' = [cliOpen EXCEPT ![k] = TRUE]
  /\ up' = [up EXCEPT ![k] = <<>>]
  /\ down' = [down EXCEPT ![k] = <<>>]

\* An end is closed: what was on its way to it is gone.
ServerEndCloses(k) ==
  /\ srvOpen' = [srvOpen EXCEPT ![k] = FALSE]
  /\ up' = [up EXCEPT ![k] = <<>>]

ClientEndCloses(k) ==
  /\ cliOpen' = [cliOpen EXCEPT ![k] = FALSE]
  /\ down' = [down EXCEPT ![k] = <<>>]

ClientSends(k, frame) ==
  /\ srvOpen[k] /\ Len(up[k]) < Buffer
  /\ up' = [up EXCEPT ![k] = Append(@, frame)]

ServerSends(k, frame) ==
  /\ cliOpen[k] /\ Len(down[k]) < Buffer
  /\ down' = [down EXCEPT ![k] = Append(@, frame)]

-----------------------------------------------------------------------------
(* Frames *)

Known == {"HELLO", "WELCOME", "GET_CONFIG", "SCREENSHOT", "ERROR"}

Frame(type, len, body) == [type |-> type, len |-> len, flags |-> 0, body |-> body]

\* encode_screenshot: the sequence number, then the image.
Screenshot(jpeg) == Frame("SCREENSHOT", SeqLen + jpeg, "none")

FromBytes(f) == f.len <= MaxPayload /\ f.type \in Known /\ f.flags = 0

\* read_frame_or_disconnect: the cap is the smaller one until the handshake.
PayloadCap(k) == IF hands[k] THEN MaxPayload ELSE PreMax

DecodeScreenshot(f) == f.len >= SeqLen

\* What a frame says makes sense to the loop; WELCOME is not for the server.
Sensible(k, f) ==
  CASE f.type = "HELLO"      -> f.body # "garbage"
    [] f.type = "SCREENSHOT" -> hands[k] => DecodeScreenshot(f)
    [] f.type = "WELCOME"    -> ~hands[k]
    [] OTHER                 -> TRUE

Readable(k, f) == FromBytes(f) /\ f.len <= PayloadCap(k) /\ Sensible(k, f)

-----------------------------------------------------------------------------
(* The accept loop *)

Permits == Cap - releasing - Cardinality({k \in Client : task[k] # "none"})

\* The loop goes round: the token is read before the next instance is made.
Rearm == accept' \in IF cancelled THEN {"ended"} ELSE Instance

\* connect() returned and a permit is left: the task owns the connection.
AcceptSpawns ==
  /\ taken # NoClient /\ ~cancelled /\ Permits > 0
  /\ task' = [task EXCEPT ![taken] = "read"]
  /\ taken' = NoClient
  /\ Rearm
  /\ UNCHANGED <<releasing, cancelled, hands, pipes, supervisor, client, wire>>

\* The cap is reached: the connection is dropped at once.
AcceptSurplus ==
  /\ taken # NoClient /\ ~cancelled /\ Permits = 0
  /\ ServerEndCloses(taken)
  /\ taken' = NoClient
  /\ Rearm
  /\ UNCHANGED <<releasing, cancelled, tasks, cliOpen, down, supervisor,
                 client, wire>>

\* connect() fails when the client has left again: back off and rebuild.
AcceptFails ==
  /\ taken # NoClient /\ ~cancelled /\ ~cliOpen[taken]
  /\ ServerEndCloses(taken)
  /\ taken' = NoClient
  /\ accept' = "backoff"
  /\ UNCHANGED <<releasing, cancelled, tasks, cliOpen, down, supervisor,
                 client, wire>>

AcceptResumes ==
  /\ accept = "backoff"
  /\ Rearm
  /\ UNCHANGED <<taken, releasing, cancelled, tasks, pipes, supervisor, client, wire>>

\* The select is biased: a cancelled token wins, and the instance is dropped
\* whether a client has opened it or not.
AcceptEnds ==
  /\ cancelled /\ accept = "listen"
  /\ accept' = "ended"
  /\ taken' = NoClient
  /\ IF taken = NoClient THEN UNCHANGED <<srvOpen, up>> ELSE ServerEndCloses(taken)
  /\ UNCHANGED <<releasing, cancelled, tasks, cliOpen, down, supervisor,
                 client, wire>>

Accept == AcceptSpawns \/ AcceptSurplus \/ AcceptFails \/ AcceptResumes \/ AcceptEnds

Stop ==
  /\ ~cancelled
  /\ cancelled' = TRUE
  /\ UNCHANGED <<accept, taken, releasing, tasks, pipes, supervisor, client, wire>>

-----------------------------------------------------------------------------
(* A serve task *)

\* Faulty variant: a connection that ends without an error is not reported.
EndUnreported(k) ==
  /\ task' = [task EXCEPT ![k] = "close"]
  /\ UNCHANGED pipes

\* serve_loop returns: an established connection owes user_actor.stopped.
EndServe(k) ==
  /\ task' = [task EXCEPT ![k] = IF hands[k] THEN "stopped" ELSE "close"]
  /\ UNCHANGED pipes

ClientIsSystem(k) == k = Actor /\ Account = "SYSTEM"

\* The nonce matches, and the gate is not armed, or it is this client, or the
\* client runs as SYSTEM.
Verified(k, f) == f.body = "ours" /\ (gate \in {NoClient, k} \/ ClientIsSystem(k))

\* What a frame leads to: the next state of the task.
Judged(k, f) ==
  CASE f.type = "HELLO"      -> IF Verified(k, f) THEN "publish" ELSE "reject"
    [] ~hands[k] /\ f.type # "HELLO" -> "refuse"
    [] hands[k] /\ f.type = "GET_CONFIG" -> "welcome"
    [] hands[k] /\ f.type \in {"SCREENSHOT", "ERROR"} -> "read"

ServeFrame(k) ==
  /\ task[k] = "read" /\ ~cancelled /\ up[k] # <<>> /\ Readable(k, Head(up[k]))
  /\ task' = [task EXCEPT ![k] = Judged(k, Head(up[k]))]
  /\ hands' = [hands EXCEPT ![k] = @ \/ task'[k] = "publish"]
  /\ up' = [up EXCEPT ![k] = Tail(@)]
  /\ UNCHANGED <<server, srvOpen, cliOpen, down, supervisor, client, wire>>

\* Faulty variant: the reads of an established connection do not select on
\* the token.
ReadEndsUncancelled(k) ==
  /\ task[k] = "read"
  /\ \/ cancelled /\ ~hands[k]
     \/ up[k] = <<>> /\ ~cliOpen[k]
     \/ up[k] # <<>> /\ ~Readable(k, Head(up[k]))
  /\ EndServe(k)
  /\ UNCHANGED <<server, hands, supervisor, client, wire>>

\* The client is gone, the token is cancelled or the frame is refused.
ServeReadEnds(k) ==
  /\ task[k] = "read"
  /\ \/ cancelled
     \/ up[k] = <<>> /\ ~cliOpen[k]
     \/ up[k] # <<>> /\ ~Readable(k, Head(up[k]))
  /\ EndServe(k)
  /\ UNCHANGED <<server, hands, supervisor, client, wire>>

\* Faulty variant: the deadline is applied to the verified connections.
TimeoutInverted(k) ==
  /\ task[k] = "read" /\ hands[k] /\ ~cancelled
  /\ task' = [task EXCEPT ![k] = "late"]
  /\ UNCHANGED <<server, hands, pipes, supervisor, client, wire>>

\* The handshake deadline passes while a frame is read.  A frame may be in
\* the pipe and not yet read by the runtime.
ServeTimeout(k) ==
  /\ task[k] = "read" /\ ~hands[k] /\ ~cancelled
  /\ task' = [task EXCEPT ![k] = "late"]
  /\ UNCHANGED <<server, hands, pipes, supervisor, client, wire>>

\* "handshake required" and on: a failed write is met again by the next
\* read, a write that waits past the deadline drops the client.
ServeRefuses(k) ==
  /\ task[k] = "refuse"
  /\ \/ /\ ServerSends(k, "ERROR")
        /\ task' = [task EXCEPT ![k] = "read"]
     \/ /\ ~cliOpen[k] /\ UNCHANGED down
        /\ task' = [task EXCEPT ![k] = "read"]
     \/ /\ cliOpen[k] /\ Len(down[k]) = Buffer /\ UNCHANGED down
        /\ task' = [task EXCEPT ![k] = "close"]
  /\ UNCHANGED <<server, hands, srvOpen, cliOpen, up, supervisor, client, wire>>

\* "handshake rejected" and "handshake timeout" are sent and end the task.
\* These writes have no deadline.
ServeErrorEnds(k) ==
  /\ task[k] \in {"reject", "late"}
  /\ \/ ServerSends(k, IF task[k] = "reject" THEN "REJECT" ELSE "ERROR")
     \/ ~cliOpen[k] /\ UNCHANGED down
  /\ task' = [task EXCEPT ![k] = IF hands[k] THEN "stopped" ELSE "close"]
  /\ UNCHANGED <<server, hands, srvOpen, cliOpen, up, supervisor, client, wire>>

\* A report reaches the broker or is lost.
Reports(what) ==
  \/ evidence' = what /\ UNCHANGED lost
  \/ lost' = TRUE /\ UNCHANGED evidence

\* user_actor.started is published before WELCOME is sent.
ServeStarted(k) ==
  /\ task[k] = "publish"
  /\ Reports("started")
  /\ task' = [task EXCEPT ![k] = "welcome"]
  /\ UNCHANGED <<server, hands, pipes, supervisor, client>>

\* Faulty variant: the config is not pushed.
NoWelcome(k) ==
  /\ task[k] = "welcome"
  /\ task' = [task EXCEPT ![k] = "read"]
  /\ UNCHANGED <<server, hands, pipes, supervisor, client, wire>>

ServeWelcome(k) ==
  /\ task[k] = "welcome"
  /\ \/ /\ ServerSends(k, "WELCOME")
        /\ task' = [task EXCEPT ![k] = "read"]
        /\ UNCHANGED <<srvOpen, cliOpen, up>>
     \/ ~cliOpen[k] /\ EndServe(k)
  /\ UNCHANGED <<server, hands, supervisor, client, wire>>

ServeStopped(k) ==
  /\ task[k] = "stopped"
  /\ Reports("stopped")
  /\ task' = [task EXCEPT ![k] = "close"]
  /\ UNCHANGED <<server, hands, pipes, supervisor, client>>

\* The task returns: the pipe is dropped, then the permit.
ServeCloses(k) ==
  /\ task[k] = "close"
  /\ task' = [task EXCEPT ![k] = "none"]
  /\ hands' = [hands EXCEPT ![k] = FALSE]
  /\ ServerEndCloses(k)
  /\ releasing' = releasing + 1
  /\ UNCHANGED <<accept, taken, cancelled, cliOpen, down, supervisor, client, wire>>

PermitFreed ==
  /\ releasing > 0
  /\ releasing' = releasing - 1
  /\ UNCHANGED <<accept, taken, cancelled, tasks, pipes, supervisor, client, wire>>

Serve(k) ==
  \/ ServeFrame(k) \/ ServeReadEnds(k) \/ ServeRefuses(k) \/ ServeErrorEnds(k)
  \/ ServeStarted(k) \/ ServeWelcome(k) \/ ServeStopped(k) \/ ServeCloses(k)

-----------------------------------------------------------------------------
(* The supervisor: one launch per boot *)

\* The first marker submits the job; a full or stopped queue loses it.
SupervisorPre ==
  /\ launch = "idle"
  /\ launch' \in {"queued", "done"}
  /\ UNCHANGED <<server, tasks, pipes, dacl, mechanism, gate, client, wire>>

LaunchCreates ==
  /\ launch = "queued"
  /\ launch' = "created"
  /\ actor' = "connect"
  /\ UNCHANGED <<server, tasks, pipes, dacl, mechanism, gate, welcomed, shots, wire>>

\* The pid is stored after the process runs; the scheduled task reports none.
LaunchArms ==
  /\ launch = "created"
  /\ launch' = "done"
  /\ gate' = IF mechanism = "Token" THEN Actor ELSE NoClient
  /\ UNCHANGED <<server, tasks, pipes, dacl, mechanism, client, wire>>

\* The launcher fails, or stop() abandons the job.
LaunchFails ==
  /\ launch = "queued"
  /\ launch' = "done"
  /\ UNCHANGED <<server, tasks, pipes, dacl, mechanism, gate, client, wire>>

-----------------------------------------------------------------------------
(* The run loop of the user actor *)

ClientConnects ==
  /\ actor = "connect" /\ Account \in dacl
  /\ Opens(Actor)
  /\ actor' = "hello"
  /\ UNCHANGED <<accept, releasing, cancelled, tasks, supervisor, welcomed, shots, wire>>

\* The pipe is absent or busy and the connect deadline is over, or the open is
\* refused, which is not tried again.
ClientGivesUp ==
  /\ actor = "connect"
  /\ accept # "listen" \/ taken # NoClient \/ Account \notin dacl
  /\ actor' = "failed"
  /\ UNCHANGED <<server, tasks, pipes, supervisor, welcomed, shots, wire>>

ClientConnectStep == ClientConnects \/ ClientGivesUp

\* The client's end closes when the exchange is left.
LeaveExchange(next) ==
  /\ actor' = next
  /\ ClientEndCloses(Actor)
  /\ UNCHANGED <<srvOpen, up>>

\* send_hello: an I/O error is not a loss but the end of run().
ClientHello ==
  /\ actor = "hello"
  /\ \/ /\ ClientSends(Actor, Frame("HELLO", 1, "ours"))
        /\ actor' = "exchange"
        /\ UNCHANGED <<srvOpen, cliOpen, down>>
     \/ ~srvOpen[Actor] /\ LeaveExchange("failed")
  /\ welcomed' = FALSE
  /\ UNCHANGED <<server, tasks, supervisor, shots, wire>>

\* A frame of the agent: before WELCOME an error is a rejection.
ClientFrame ==
  /\ actor = "exchange" /\ down[Actor] # <<>>
  /\ \/ /\ Head(down[Actor]) = "WELCOME" \/ welcomed
        /\ welcomed' = (welcomed \/ Head(down[Actor]) = "WELCOME")
        /\ down' = [down EXCEPT ![Actor] = Tail(@)]
        /\ UNCHANGED <<actor, srvOpen, cliOpen, up>>
     \/ /\ Head(down[Actor]) # "WELCOME" /\ ~welcomed
        /\ LeaveExchange("failed")
        /\ UNCHANGED welcomed
  /\ UNCHANGED <<server, tasks, supervisor, shots, wire>>

\* End of file after what the agent wrote: reconnect after a delay.
ClientEof ==
  /\ actor = "exchange" /\ down[Actor] = <<>> /\ ~srvOpen[Actor]
  /\ LeaveExchange("lost")
  /\ UNCHANGED <<server, tasks, supervisor, welcomed, shots, wire>>

\* A queued screenshot is taken; the loop then waits in the write.
ClientShot ==
  /\ actor = "exchange" /\ sink # <<>> /\ down[Actor] = <<>>
  /\ shot' = Head(sink) /\ sink' = Tail(sink)
  /\ actor' = "sending"
  /\ UNCHANGED <<server, tasks, pipes, supervisor, welcomed, wire>>

ClientShotWritten ==
  /\ actor = "sending"
  /\ \/ /\ ClientSends(Actor, Screenshot(shot))
        /\ actor' = "exchange"
        /\ UNCHANGED <<srvOpen, cliOpen, down>>
     \/ ~srvOpen[Actor] /\ LeaveExchange("lost")
  /\ shot' = 0
  /\ UNCHANGED <<server, tasks, supervisor, welcomed, sink, wire>>

ClientReconnects ==
  /\ actor = "lost"
  /\ actor' = "connect"
  /\ UNCHANGED <<server, tasks, pipes, supervisor, welcomed, shots, wire>>

\* The sink refuses an image whose frame the peer would refuse.
Wireable(jpeg) == SeqLen + jpeg <= MaxPayload

\* It takes any other unless its queue is full.
Capture(jpeg) ==
  /\ actor \notin {"off", "failed", "ended"}
  /\ Wireable(jpeg) /\ Len(sink) < SinkCap
  /\ sink' = Append(sink, jpeg)
  /\ UNCHANGED <<server, tasks, pipes, supervisor, actor, welcomed, shot, wire>>

\* The user actor is stopped or killed.
ActorEnds ==
  /\ actor \notin {"off", "failed", "ended"}
  /\ LeaveExchange("ended")
  /\ sink' = <<>> /\ shot' = 0
  /\ UNCHANGED <<server, tasks, supervisor, welcomed, wire>>

ClientRun ==
  \/ ClientConnectStep \/ ClientHello \/ ClientFrame \/ ClientEof
  \/ ClientShot \/ ClientShotWritten \/ ClientReconnects

-----------------------------------------------------------------------------
(* Other clients *)

OtherConnects(k) ==
  /\ task[k] = "none"
  /\ Opens(k)
  /\ UNCHANGED <<accept, releasing, cancelled, tasks, supervisor, client, wire>>

OtherSends(k) ==
  /\ cliOpen[k]
  /\ \E f \in Foreign : ClientSends(k, f)
  /\ UNCHANGED <<server, tasks, srvOpen, cliOpen, down, supervisor, client, wire>>

OtherReads(k) ==
  /\ cliOpen[k] /\ down[k] # <<>>
  /\ down' = [down EXCEPT ![k] = Tail(@)]
  /\ UNCHANGED <<server, tasks, srvOpen, cliOpen, up, supervisor, client, wire>>

OtherCloses(k) ==
  /\ cliOpen[k]
  /\ ClientEndCloses(k)
  /\ UNCHANGED <<server, tasks, srvOpen, up, supervisor, client, wire>>

-----------------------------------------------------------------------------
Next ==
  \/ Accept \/ Stop \/ PermitFreed
  \/ \E k \in Client : Serve(k) \/ ServeTimeout(k)
  \/ SupervisorPre \/ LaunchCreates \/ LaunchArms \/ LaunchFails
  \/ ClientRun \/ ActorEnds \/ \E jpeg \in Jpeg : Capture(jpeg)
  \/ \E k \in Other :
       OtherConnects(k) \/ OtherSends(k) \/ OtherReads(k) \/ OtherCloses(k)

Spec == Init /\ [][Next]_vars

\* The tasks of both processes run, and the handshake timer is met by one of the
\* reads that wait.  Nothing is assumed of the other clients: they need not read
\* what they are sent.
FairSpec ==
  /\ Spec
  /\ WF_vars(Accept) /\ WF_vars(PermitFreed)
  /\ \A k \in Client : WF_vars(Serve(k)) /\ SF_vars(ServeTimeout(k))
  /\ WF_vars(ClientConnectStep) /\ WF_vars(ClientHello)
  /\ WF_vars(ClientFrame \/ ClientEof) /\ WF_vars(ClientShotWritten)
  /\ WF_vars(ClientReconnects)

-----------------------------------------------------------------------------
(* Properties *)

\* The user actor holds the nonce and is the process of the gate: its HELLO
\* is never rejected, whether it comes before the launch job has armed the
\* gate or after (launch_job, serve_loop), and no frame of it breaks the
\* connection: what its sink lets through is within the caps of the server
\* (IpcScreenshotSink::send, read_frame_or_disconnect).  And the Controller learns of it
\* from evidence only (publish_user_actor_started, publish_user_actor_stopped):
\* while reports get through, the last one tells the truth.  An actor that has
\* its WELCOME on an open connection is reported started, whatever earlier
\* connection of it is still winding down, and an actor nobody serves is not.
EvidenceTrue ==
  /\ task[Actor] # "reject"
  /\ task[Actor] = "read" /\ up[Actor] # <<>> => Readable(Actor, Head(up[Actor]))
  /\ \A i \in DOMAIN down[Actor] : down[Actor][i] # "REJECT"
  /\ ~lost =>
       /\ welcomed /\ actor \in {"exchange", "sending"} /\ srvOpen[Actor]
            => evidence = "started" \/ task[Actor] = "close"
       /\ ~hands[Actor] => evidence # "started"

\* A serve task waits in the write of its last ERROR, which has no deadline and
\* does not select on the token, and the client does not read.
Unread(k) == task[k] \in {"late", "reject"} /\ cliOpen[k] /\ Len(down[k]) = Buffer

\* The server stays reachable: a client that does not complete the handshake
\* loses its connection and its permit, also when it keeps sending frames
\* (HANDSHAKE_TIMEOUT), unless it is another than the user actor and leaves the
\* last ERROR unread for good; and the accept loop is always back at a listening
\* instance, whoever is served, dropped, stuck or gone before it was accepted,
\* unless none can be made (IpcServerAdapter::run).
SquattersEvicted ==
  /\ \A k \in Client :
       task[k] = "read" /\ ~hands[k] ~>
         task[k] = "none" \/ hands[k] \/ (k \in Other /\ []Unread(k))
  /\ []<>((accept = "listen" /\ taken = NoClient) \/ accept = "broken" \/ cancelled)

\* The user actor never hangs between the launch and its config, also when the
\* pipe was made before its user logged on or its permits are all held: it is
\* welcomed, or its run loop ends, or it asks again.
ActorAnswered ==
  actor \in {"connect", "hello", "exchange"} /\ ~welcomed
    ~> welcomed \/ actor \in {"lost", "failed", "ended"}

\* stop() ends the accept loop and every serve task, established or not, except
\* that of another client that leaves the last ERROR unread for good.
StopEndsAll ==
  /\ cancelled ~> accept \in {"ended", "broken"}
  /\ \A k \in Client : cancelled ~> task[k] = "none" \/ (k \in Other /\ []Unread(k))

\* "any pre-handshake squatter is evicted by HANDSHAKE_TIMEOUT" (the doc of
\* IpcServerAdapter::run): a client that has not completed the handshake loses
\* its permit, whatever it does.
EvictedByTimeout ==
  \A k \in Other : task[k] = "read" /\ ~hands[k] ~> task[k] = "none"
=============================================================================
