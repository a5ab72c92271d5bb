----------------------------- MODULE ClientServer -----------------------------
(***************************************************************************)
(* ClientServer, the HTTPS server of the API (API3a).  One thread accepts       *)
(* connections and queues them; workers take them off the queue, read one        *)
(* request each, call the handler, answer and close.  The sockets do not block,    *)
(* but a worker repeats a read or a write until it gets on, so a client that       *)
(* sends half a request, or does not read its answer, keeps its worker for as      *)
(* long as it stays.                                                        *)
(*                                                                         *)
(* The handler is one step that returns; SessionControl says what it does.  A      *)
(* worker's wait ends by notify_one, notify_all or its 200 ms timeout: a step of    *)
(* the wait stands for any of them.  TLS and HTTP are abstracted to how much of     *)
(* a request has arrived.  A start that fails to open its socket is left out.       *)
(***************************************************************************)
EXTENDS Naturals, Sequences, SequencesExt, FiniteSets

CONSTANTS
  Clients,       \* connections that clients make
  Mute,          \* those that owe nothing: they may neither send, read nor leave
  Threads,       \* workers_
  QueueLimit     \* what client_queue_ holds, 64 in the code

NoClient == "nobody"

ASSUME ClientAssumption ==
  Mute \subseteq Clients /\ IsFiniteSet(Clients) /\ NoClient \notin Clients
ASSUME ThreadAssumption == IsFiniteSet(Threads)
ASSUME QueueLimitAssumption == QueueLimit \in Nat \ {0}

VARIABLES
  server,        \* what main has done: not started, started, how far stop has come
  listener,      \* accept_loop_: where it is, and the connection in its hands
  waitLine,      \* client_queue_
  thread,        \* worker_loop_: where each is, and the connection it serves
  link,          \* where a connection is
  client         \* a client: sends its request, awaits the answer, does not read, gone

loopVars == <<listener, waitLine, thread, link>>
serverVars == <<server, loopVars, client>>

Up == server = "up"                                     \* running_
Listening == server \in {"up", "closing"}               \* the listening socket is open

ListenerStates == [at : {"none", "top", "polling", "accepting", "pushing", "ended"},
                   conn : Clients \cup {NoClient}]
ThreadStates == [at : {"none", "top", "waiting", "reading", "handling", "writing", "ended"},
                 conn : Clients \cup {NoClient}]

ServerTypeOK ==
  /\ server \in {"new", "up", "closing", "joining", "draining", "stopped"}
  /\ listener \in ListenerStates
  /\ waitLine \in Seq(Clients) /\ Len(waitLine) <= QueueLimit
  /\ thread \in [Threads -> ThreadStates]
  /\ link \in [Clients -> {"absent", "backlog", "accepted", "queued", "serving", "closed"}]
  /\ client \in [Clients -> {"sending", "awaiting", "deaf", "gone"}]

ServerInit ==
  /\ server = "new"
  /\ listener = [at |-> "none", conn |-> NoClient]
  /\ waitLine = <<>>
  /\ thread = [t \in Threads |-> [at |-> "none", conn |-> NoClient]]
  /\ link = [c \in Clients |-> "absent"]
  /\ client = [c \in Clients |-> "sending"]

-----------------------------------------------------------------------------
(* main: start and stop.                                                     *)

StartServer ==
  /\ server = "new"
  /\ server' = "up"
  /\ listener' = [listener EXCEPT !.at = "top"]
  /\ thread' = [t \in Threads |-> [thread[t] EXCEPT !.at = "top"]]
  /\ UNCHANGED <<waitLine, link, client>>

StopServer ==
  /\ server = "up"
  /\ server' = "closing"
  /\ UNCHANGED <<loopVars, client>>

\* The kernel resets what was not yet accepted.
CloseListener ==
  /\ server = "closing"
  /\ server' = "joining"
  /\ link' = [c \in Clients |-> IF link[c] = "backlog" THEN "closed" ELSE link[c]]
  /\ UNCHANGED <<listener, waitLine, thread, client>>

JoinListener ==
  /\ server = "joining" /\ listener.at = "ended"
  /\ server' = "draining"
  /\ UNCHANGED <<loopVars, client>>

\* Faulty: the workers are left to end by themselves.
JoinNobody ==
  /\ server = "draining"
  /\ server' = "stopped"
  /\ UNCHANGED <<loopVars, client>>

\* Joins every worker and frees ssl_ctx_.  What is still queued stays open for ever.
JoinThreads ==
  /\ server = "draining" /\ \A t \in Threads : thread[t].at = "ended"
  /\ server' = "stopped"
  /\ UNCHANGED <<loopVars, client>>

-----------------------------------------------------------------------------
(* accept_loop_                                                             *)

ListenerAt(from, to) == listener.at = from /\ listener' = [listener EXCEPT !.at = to]
Backlog == {c \in Clients : link[c] = "backlog"}

ListenerTop ==
  /\ ListenerAt("top", IF Up THEN "polling" ELSE "ended")
  /\ UNCHANGED <<server, waitLine, thread, link, client>>

\* close: nothing is kept of a closed connection.
Closed(c) ==
  /\ link' = [link EXCEPT ![c] = "closed"]
  /\ client' = [client EXCEPT ![c] = "gone"]

PollNothing ==
  /\ Backlog = {}
  /\ ListenerAt("polling", "top")
  /\ UNCHANGED <<server, waitLine, thread, link, client>>

PollReady ==
  /\ Backlog # {}
  /\ ListenerAt("polling", "accepting")
  /\ UNCHANGED <<server, waitLine, thread, link, client>>

\* Faulty: the accept is tried again.
AcceptFailsRetrying ==
  /\ Backlog = {}
  /\ ListenerAt("accepting", "accepting")
  /\ UNCHANGED <<server, waitLine, thread, link, client>>

\* accept4 on a socket that stop has closed in the meantime.
AcceptFails ==
  /\ Backlog = {}
  /\ ListenerAt("accepting", "top")
  /\ UNCHANGED <<server, waitLine, thread, link, client>>

AcceptClient(c) ==
  /\ listener.at = "accepting" /\ link[c] = "backlog"
  /\ listener' = [at |-> "pushing", conn |-> c]
  /\ link' = [link EXCEPT ![c] = "accepted"]
  /\ UNCHANGED <<server, waitLine, thread, client>>

Refuse ==
  /\ listener.at = "pushing" /\ Len(waitLine) >= QueueLimit
  /\ Closed(listener.conn)
  /\ listener' = [at |-> "top", conn |-> NoClient]
  /\ UNCHANGED <<server, waitLine, thread>>

PushClient ==
  /\ listener.at = "pushing" /\ Len(waitLine) < QueueLimit
  /\ waitLine' = Append(waitLine, listener.conn)
  /\ link' = [link EXCEPT ![listener.conn] = "queued"]
  /\ listener' = [at |-> "top", conn |-> NoClient]
  /\ UNCHANGED <<server, thread, client>>

-----------------------------------------------------------------------------
(* worker_loop_ and handle_client_                                           *)

ThreadAt(t, from, to) == thread[t].at = from /\ thread' = [thread EXCEPT ![t].at = to]

ThreadTop(t) ==
  /\ ThreadAt(t, "top", IF Up THEN "waiting" ELSE "ended")
  /\ UNCHANGED <<server, listener, waitLine, link, client>>

WaitEnds(t) ==
  /\ waitLine = <<>>
  /\ ThreadAt(t, "waiting", IF Up THEN "top" ELSE "ended")
  /\ UNCHANGED <<server, listener, waitLine, link, client>>

\* Faulty: the front of the queue is looked at and not popped.
TakeFront(t) ==
  /\ thread[t].at = "waiting" /\ waitLine # <<>>
  /\ thread' = [thread EXCEPT ![t] = [at |-> "reading", conn |-> Head(waitLine)]]
  /\ link' = [link EXCEPT ![Head(waitLine)] = "serving"]
  /\ UNCHANGED <<server, listener, waitLine, client>>

\* A worker that waited when stop was called still takes a connection.
TakeClient(t) ==
  /\ thread[t].at = "waiting" /\ waitLine # <<>>
  /\ thread' = [thread EXCEPT ![t] = [at |-> "reading", conn |-> Head(waitLine)]]
  /\ waitLine' = Tail(waitLine)
  /\ link' = [link EXCEPT ![Head(waitLine)] = "serving"]
  /\ UNCHANGED <<server, listener, client>>

\* A body cut short by a client that has gone is routed like a whole one.
ReadRequest(t) ==
  /\ ThreadAt(t, "reading", "handling")
  /\ client[thread[t].conn] # "sending"
  /\ UNCHANGED <<server, listener, waitLine, link, client>>

\* The end of handle_client_
Done(t) ==
  /\ thread' = [thread EXCEPT ![t] = [at |-> "top", conn |-> NoClient]]
  /\ Closed(thread[t].conn)

\* Faulty: the worker's loop is left.
ReadNothingEnding(t) ==
  /\ thread[t].at = "reading" /\ client[thread[t].conn] = "gone"
  /\ thread' = [thread EXCEPT ![t] = [at |-> "ended", conn |-> NoClient]]
  /\ Closed(thread[t].conn)
  /\ UNCHANGED <<server, listener, waitLine>>

\* The handshake fails, or the client is gone before its headers are whole.
ReadNothing(t) ==
  /\ thread[t].at = "reading" /\ client[thread[t].conn] = "gone"
  /\ Done(t)
  /\ UNCHANGED <<server, listener, waitLine>>

Route(t) ==
  /\ ThreadAt(t, "handling", "writing")
  /\ UNCHANGED <<server, listener, waitLine, link, client>>

\* The write goes through, or fails because the client has gone.
Answer(t) ==
  /\ thread[t].at = "writing" /\ client[thread[t].conn] # "deaf"
  /\ Done(t)
  /\ UNCHANGED <<server, listener, waitLine>>

-----------------------------------------------------------------------------
(* The clients.                                                             *)

Connect(c) ==
  /\ Listening /\ link[c] = "absent"
  /\ link' = [link EXCEPT ![c] = "backlog"]
  /\ UNCHANGED <<server, listener, waitLine, thread, client>>

Connected(c) == link[c] \notin {"absent", "closed"}

Send(c) ==
  /\ Connected(c) /\ client[c] = "sending"
  /\ client' = [client EXCEPT ![c] = "awaiting"]
  /\ UNCHANGED <<server, loopVars>>

\* A client that breaks the protocol is as good as gone.
HangUp(c) ==
  /\ Connected(c) /\ client[c] # "gone"
  /\ client' = [client EXCEPT ![c] = "gone"]
  /\ UNCHANGED <<server, loopVars>>

\* Only a mute client stops reading.
TurnDeaf(c) ==
  /\ c \in Mute /\ Connected(c) /\ client[c] = "awaiting"
  /\ client' = [client EXCEPT ![c] = "deaf"]
  /\ UNCHANGED <<server, loopVars>>

-----------------------------------------------------------------------------
MainSteps == StartServer \/ StopServer \/ CloseListener \/ JoinListener \/ JoinThreads
ListenerThread ==
  \/ ListenerTop \/ PollNothing \/ PollReady \/ AcceptFails \/ Refuse \/ PushClient
  \/ \E c \in Clients : AcceptClient(c)
WorkerThread(t) ==
  \/ ThreadTop(t) \/ WaitEnds(t) \/ TakeClient(t)
  \/ ReadRequest(t) \/ ReadNothing(t) \/ Route(t) \/ Answer(t)
ClientSteps(c) == Connect(c) \/ Send(c) \/ HangUp(c) \/ TurnDeaf(c)

ServerNext ==
  \/ MainSteps \/ ListenerThread
  \/ \E t \in Threads : WorkerThread(t)
  \/ \E c \in Clients : ClientSteps(c)

(* Threads are scheduled, main goes on once it has begun to stop, and a client     *)
(* that is not mute sends the rest of its request or leaves.                    *)
ServerFairness ==
  /\ WF_serverVars(CloseListener \/ JoinListener \/ JoinThreads)
  /\ WF_serverVars(ListenerThread)
  /\ \A t \in Threads : WF_serverVars(WorkerThread(t))
  /\ \A c \in Clients \ Mute : WF_serverVars(Send(c))

ServerSpec == ServerInit /\ [][ServerNext]_serverVars /\ ServerFairness

-----------------------------------------------------------------------------
(* Properties.                                                             *)

Holders(c) == {t \in Threads : thread[t].conn = c}

(* Every accepted connection is in one place: in the acceptor's hands, once in the   *)
(* queue, or with one worker; so handle_client_ runs once for it, and each file     *)
(* descriptor is closed by one thread and no longer used when it is closed.       *)
HeldOnce ==
  /\ IsInjective(waitLine)
  /\ \A c \in Clients :
       /\ link[c] = "accepted" <=> listener.conn = c
       /\ link[c] = "queued" <=> c \in ToSet(waitLine)
       /\ link[c] = "serving" <=> Holders(c) # {}
       /\ \A t, u \in Holders(c) : t = u

(* stop frees the TLS context and returns only when no thread can use it, and no      *)
(* handler runs after it: main goes on to destroy what the handlers refer to.       *)
NoneServedAfterStop ==
  server = "stopped" =>
    /\ listener.at = "ended"
    /\ \A t \in Threads : thread[t].at = "ended"
    /\ \A c \in Clients : link[c] \notin {"backlog", "accepted", "serving"}

(* As long as fewer clients than workers are mute, every connection that was queued    *)
(* is served and closed, the others notwithstanding, unless the server is stopped.      *)
EveryoneServed ==
  \A c \in Clients \ Mute : link[c] = "queued" ~> (link[c] = "closed" \/ ~Up)

(* stop returns, unless a mute client keeps a worker.                            *)
ServerStopReturns ==
  server = "closing" ~> \/ server = "stopped"
                        \/ \E c \in Mute : link[c] = "serving"
=============================================================================
