------------------------------- MODULE WSSServer -------------------------------
(***************************************************************************)
(* The life of a client connection of WSSServer.  The accept thread lists a     *)
(* ClientConn in clients_ and detaches a thread for it; that thread reads the     *)
(* client's messages and, when the connection ends, takes the ClientConn out of   *)
(* clients_ and deletes it.  Broadcasts, from whichever thread, hold             *)
(* clients_mutex_ while they write to every subscribed client, one after          *)
(* another, on blocking sockets.  stop deletes what is still listed and does not *)
(* wait for the detached threads.                                            *)
(*                                                                         *)
(* Topics are changed without a lock while broadcasts read them, which is         *)
(* undefined: the broadcast may see them subscribed or not, or Core may fail      *)
(* (broken).  Using or deleting a ClientConn that is deleted is undefined too.     *)
(* The flag alive is written without a lock as well; a broadcast sees its old or    *)
(* its new value.  What OpenSSL does when one thread reads and another writes with  *)
(* the same SSL object is left out, and so is the start of the server.             *)
(***************************************************************************)
CONSTANT Conns    \* connections that clients make

VARIABLES
  main,       \* WSSServer::stop: not called, or how far it has come
  acceptor,   \* accept_loop_: where it is, and with which connection
  clients,    \* clients_
  life,       \* the ClientConn of a connection: new, allocated, freed
  alive,      \* ClientConn: alive
  topics,     \* ClientConn: whether topics holds the topic of the broadcasts
  loop,       \* client_loop_ of a connection
  peer,       \* the client: absent, connected, connected and not reading, gone
  casting,    \* a broadcast holds clients_mutex_
  todo,       \* the clients it has yet to visit
  sent,       \* history: the clients this broadcast was written to
  steady,     \* history: those subscribed and connected ever since it began
  broken      \* the undefined behaviour that has happened

connVars == <<clients, life, alive, topics, loop>>
castVars == <<casting, todo, sent>>
vars == <<main, acceptor, connVars, peer, castVars, steady, broken>>

Running == main = "up"                              \* running_
NoConn == "none"
Causes == {"topics", "use", "delete"}

TypeOK ==
  /\ main \in {"up", "closing", "joined", "stopped"}
  /\ acceptor \in [at : {"top", "accept", "handshake", "list", "spawn", "ended"},
                   conn : Conns \cup {NoConn}]
  /\ clients \subseteq Conns
  /\ life \in [Conns -> {"new", "allocated", "freed"}]
  /\ alive \in [Conns -> BOOLEAN] /\ topics \in [Conns -> BOOLEAN]
  /\ loop \in [Conns -> {"none", "lookup", "top", "polling", "changing", "leaving",
                         "erasing", "freeing", "gone"}]
  /\ peer \in [Conns -> {"absent", "open", "stalled", "closed"}]
  /\ casting \in BOOLEAN /\ todo \subseteq clients /\ (todo # {} => casting)
  /\ sent \subseteq Conns /\ steady \subseteq Conns
  /\ broken \subseteq Causes

Init ==
  /\ main = "up" /\ acceptor = [at |-> "top", conn |-> NoConn]
  /\ clients = {} /\ life = [c \in Conns |-> "new"]
  /\ alive = [c \in Conns |-> TRUE] /\ topics = [c \in Conns |-> FALSE]
  /\ loop = [c \in Conns |-> "none"] /\ peer = [c \in Conns |-> "absent"]
  /\ casting = FALSE /\ todo = {} /\ sent = {} /\ steady = {}
  /\ broken = {}

\* Using the ClientConn of c, here and in the same step by whoever has a pointer.
Touch(c) == broken' = IF life[c] = "freed" THEN broken \cup {"use"} ELSE broken

-----------------------------------------------------------------------------
(* The accept thread, with one connection at a time.                          *)

AcceptTop ==
  /\ acceptor.at = "top"
  /\ acceptor' = [acceptor EXCEPT !.at = IF Running THEN "accept" ELSE "ended"]
  /\ UNCHANGED <<main, connVars, peer, castVars, broken>>

\* accept4 returns EAGAIN, or EBADF when stop has closed the listening socket.
AcceptNone ==
  /\ acceptor.at = "accept"
  /\ acceptor' = [acceptor EXCEPT !.at = "top"]
  /\ UNCHANGED <<main, connVars, peer, castVars, broken>>

\* A connection is still accepted when stop has only just cleared running_.
Accept(c) ==
  /\ acceptor.at = "accept" /\ peer[c] = "absent"
  /\ peer' = [peer EXCEPT ![c] = "open"]
  /\ acceptor' = [at |-> "handshake", conn |-> c]
  /\ UNCHANGED <<main, connVars, castVars, broken>>

\* do_handshake_ reads from a blocking socket until the client has sent its request.
HandshakeDone ==
  /\ acceptor.at = "handshake" /\ peer[acceptor.conn] = "open"
  /\ acceptor' = [acceptor EXCEPT !.at = "list"]
  /\ UNCHANGED <<main, connVars, peer, castVars, broken>>

HandshakeFails ==
  /\ acceptor.at = "handshake" /\ peer[acceptor.conn] # "stalled"
  /\ peer' = [peer EXCEPT ![acceptor.conn] = "closed"]
  /\ acceptor' = [at |-> "top", conn |-> NoConn]
  /\ UNCHANGED <<main, connVars, castVars, broken>>

List ==
  /\ acceptor.at = "list" /\ ~casting
  /\ clients' = clients \cup {acceptor.conn}
  /\ life' = [life EXCEPT ![acceptor.conn] = "allocated"]
  /\ acceptor' = [acceptor EXCEPT !.at = "spawn"]
  /\ UNCHANGED <<main, alive, topics, loop, peer, castVars, broken>>

Spawn ==
  /\ acceptor.at = "spawn"
  /\ loop' = [loop EXCEPT ![acceptor.conn] = "lookup"]
  /\ acceptor' = [at |-> "top", conn |-> NoConn]
  /\ UNCHANGED <<main, clients, life, alive, topics, peer, castVars, broken>>

-----------------------------------------------------------------------------
(* The thread of a connection.                                               *)

Step(c, from, to) == loop[c] = from /\ loop' = [loop EXCEPT ![c] = to]

Lookup(c) ==
  /\ ~casting
  /\ Step(c, "lookup", IF c \in clients THEN "top" ELSE "gone")
  /\ UNCHANGED <<main, acceptor, clients, life, alive, topics, peer, castVars, broken>>

\* while (running_ && conn->alive): alive is read only while running_.
LoopTop(c) ==
  /\ Step(c, "top", IF Running /\ alive[c] THEN "polling" ELSE "leaving")
  /\ IF Running THEN Touch(c) ELSE UNCHANGED broken
  /\ UNCHANGED <<main, acceptor, clients, life, alive, topics, peer, castVars>>

\* The poll times out, or finds a message that changes no topic.  Of what a client
\* sent before it went, nothing is left: its poll reports the hangup.
PollAgain(c) ==
  /\ peer[c] # "closed"
  /\ Step(c, "polling", "top")
  /\ UNCHANGED <<main, acceptor, clients, life, alive, topics, peer, castVars, broken>>

\* A subscribe or unsubscribe message: begins to change topics, and is done.
ChangeBegin(c) ==
  /\ peer[c] \in {"open", "stalled"}
  /\ Step(c, "polling", "changing")
  /\ Touch(c)
  /\ UNCHANGED <<main, acceptor, clients, life, alive, topics, peer, castVars>>

ChangeEnd(c, subscribed) ==
  /\ Step(c, "changing", "top")
  /\ topics' = [topics EXCEPT ![c] = subscribed]
  /\ Touch(c)
  /\ UNCHANGED <<main, acceptor, clients, life, alive, peer, castVars>>

\* Faulty: the thread returns at once when the client has gone.
HangupReturning(c) ==
  /\ peer[c] = "closed"
  /\ Step(c, "polling", "gone")
  /\ UNCHANGED <<main, acceptor, clients, life, alive, topics, peer, castVars, broken>>

\* recv_ws_text_ fails.
Hangup(c) ==
  /\ peer[c] = "closed"
  /\ Step(c, "polling", "leaving")
  /\ UNCHANGED <<main, acceptor, clients, life, alive, topics, peer, castVars, broken>>

\* A message without a payload, a ping too, ends the connection.
EmptyMessage(c) ==
  /\ peer[c] = "open"
  /\ Step(c, "polling", "leaving")
  /\ UNCHANGED <<main, acceptor, clients, life, alive, topics, peer, castVars, broken>>

Leave(c) ==
  /\ Step(c, "leaving", "erasing")
  /\ alive' = [alive EXCEPT ![c] = FALSE]
  /\ Touch(c)
  /\ UNCHANGED <<main, acceptor, clients, life, topics, peer, castVars>>

\* Faulty: clients_ is changed without clients_mutex_.
EraseUnlocked(c) ==
  /\ Step(c, "erasing", "freeing")
  /\ clients' = clients \ {c}
  /\ UNCHANGED <<main, acceptor, life, alive, topics, peer, castVars, broken>>

\* Faulty: alive = FALSE is taken for enough.
EraseNothing(c) ==
  /\ ~casting
  /\ Step(c, "erasing", "freeing")
  /\ UNCHANGED <<main, acceptor, clients, life, alive, topics, peer, castVars, broken>>

Erase(c) ==
  /\ ~casting
  /\ Step(c, "erasing", "freeing")
  /\ clients' = clients \ {c}
  /\ UNCHANGED <<main, acceptor, life, alive, topics, peer, castVars, broken>>

\* SSL_shutdown, SSL_free, close and delete
Free(c) ==
  /\ Step(c, "freeing", "gone")
  /\ life' = [life EXCEPT ![c] = "freed"]
  /\ peer' = [peer EXCEPT ![c] = "closed"]
  /\ broken' = IF life[c] = "freed" THEN broken \cup {"delete"} ELSE broken
  /\ UNCHANGED <<main, acceptor, clients, alive, topics, castVars>>

-----------------------------------------------------------------------------
(* Broadcasts, from the dealer, encoder and completion threads.                  *)

CastBegin ==
  /\ ~casting
  /\ casting' = TRUE
  /\ todo' = clients
  /\ UNCHANGED <<main, acceptor, connVars, peer, sent, broken>>

\* What a broadcast may take topics for.
SeenSubscribed(c) == IF loop[c] = "changing" THEN BOOLEAN ELSE {topics[c]}

\* Faulty: a client that is leaving ends the whole broadcast.
AfterVisitBreaking(c) == IF alive[c] THEN todo \ {c} ELSE {}

AfterVisit(c) == todo \ {c}

Skip(c) ==
  /\ c \in todo
  /\ ~alive[c] \/ FALSE \in SeenSubscribed(c)
  /\ todo' = AfterVisit(c)
  /\ Touch(c)
  /\ UNCHANGED <<main, acceptor, connVars, peer, casting, sent>>

\* The write blocks while the client does not read, and fails when it has gone.
Write(c) ==
  /\ c \in todo
  /\ alive[c] /\ TRUE \in SeenSubscribed(c) /\ peer[c] # "stalled"
  /\ todo' = AfterVisit(c)
  /\ sent' = sent \cup {c}
  /\ Touch(c)
  /\ UNCHANGED <<main, acceptor, connVars, peer, casting>>

Race(c) ==
  /\ c \in todo /\ alive[c] /\ loop[c] = "changing"
  /\ broken' = broken \cup {"topics"}
  /\ UNCHANGED <<main, acceptor, connVars, peer, castVars>>

CastEnd ==
  /\ casting /\ todo = {}
  /\ casting' = FALSE
  /\ sent' = {}
  /\ UNCHANGED <<main, acceptor, connVars, peer, todo, broken>>

-----------------------------------------------------------------------------
(* stop                                                                    *)

StopRequest ==
  /\ main = "up"
  /\ main' = "closing"
  /\ UNCHANGED <<acceptor, connVars, peer, castVars, broken>>

StopJoin ==
  /\ main = "closing" /\ acceptor.at = "ended"
  /\ main' = "joined"
  /\ UNCHANGED <<acceptor, connVars, peer, castVars, broken>>

StopFree ==
  /\ main = "joined" /\ ~casting
  /\ main' = "stopped"
  /\ life' = [c \in Conns |-> IF c \in clients THEN "freed" ELSE life[c]]
  /\ peer' = [c \in Conns |-> IF c \in clients THEN "closed" ELSE peer[c]]
  /\ broken' = IF \E c \in clients : life[c] = "freed" THEN broken \cup {"delete"} ELSE broken
  /\ clients' = {}
  /\ UNCHANGED <<acceptor, alive, topics, loop, castVars>>

-----------------------------------------------------------------------------
(* The clients.                                                             *)

Stall(c) ==
  /\ peer[c] = "open"
  /\ peer' = [peer EXCEPT ![c] = "stalled"]
  /\ UNCHANGED <<main, acceptor, connVars, castVars, broken>>

Resume(c) ==
  /\ peer[c] = "stalled"
  /\ peer' = [peer EXCEPT ![c] = "open"]
  /\ UNCHANGED <<main, acceptor, connVars, castVars, broken>>

Close(c) ==
  /\ peer[c] \in {"open", "stalled"}
  /\ peer' = [peer EXCEPT ![c] = "closed"]
  /\ UNCHANGED <<main, acceptor, connVars, castVars, broken>>

-----------------------------------------------------------------------------
AcceptThread ==
  \/ AcceptTop \/ AcceptNone \/ HandshakeDone \/ HandshakeFails \/ List \/ Spawn
  \/ \E c \in Conns : Accept(c)

ClientThread(c) ==
  \/ Lookup(c) \/ LoopTop(c) \/ PollAgain(c) \/ ChangeBegin(c)
  \/ \E subscribed \in BOOLEAN : ChangeEnd(c, subscribed)
  \/ Hangup(c) \/ EmptyMessage(c) \/ Leave(c) \/ Erase(c) \/ Free(c)

Visit == \E c \in Conns : Skip(c) \/ Write(c) \/ Race(c)
Broadcasts == CastBegin \/ Visit \/ CastEnd
Main == StopRequest \/ StopJoin \/ StopFree
Clients == \E c \in Conns : Stall(c) \/ Resume(c) \/ Close(c)

\* The client reads, is subscribed, and has no message under way that changes that.
Staying(c) == /\ topics[c] /\ peer[c] = "open" /\ c \in clients
              /\ loop[c] \in {"top", "polling"}

\* The history of steady.  Nothing is said of what follows undefined behaviour.
Tracked ==
  /\ broken = {}
  /\ steady' = IF casting' THEN {c \in IF casting THEN steady ELSE Conns : Staying(c)'}
                           ELSE {}

Next ==
  /\ AcceptThread \/ Broadcasts \/ Main \/ Clients \/ \E c \in Conns : ClientThread(c)
  /\ Tracked

(* Threads are scheduled; one that waits for clients_mutex_ gets it, since           *)
(* broadcasts come a camera frame apart; a broadcast that has begun goes on, and so   *)
(* does a stop.  Clients owe nothing: one that stops reading is stalled.           *)
Fairly(A) == A /\ Tracked
Fairness ==
  /\ WF_vars(Fairly(AcceptThread)) /\ SF_vars(Fairly(List))
  /\ WF_vars(Fairly(Visit \/ CastEnd))
  /\ WF_vars(Fairly(StopJoin)) /\ SF_vars(Fairly(StopFree))
  /\ \A c \in Conns : /\ WF_vars(Fairly(ClientThread(c)))
                      /\ SF_vars(Fairly(Lookup(c) \/ Erase(c)))

Spec == Init /\ [][Next]_vars /\ Fairness

-----------------------------------------------------------------------------
(* Properties.                                                             *)

(* Until stop has deleted connections, a ClientConn is used only while it exists    *)
(* and deleted once, whatever broadcasts, client threads and the acceptor do.        *)
UsedWhileItExists == broken \cap {"use", "delete"} # {} => main = "stopped"

(* A client that stays subscribed and connected during a broadcast is sent it,       *)
(* whoever else comes, goes or leaves meanwhile.                                *)
NoneMissed == casting /\ broken = {} => steady \subseteq todo \cup sent

(* Unless a client stalls or undefined behaviour intervenes, a broadcast and a stop  *)
(* return, and the connection of a client that has gone is deleted.                *)
Hindered == broken # {} \/ \E c \in Conns : peer[c] = "stalled"
ServerGoesOn ==
  /\ casting ~> (~casting \/ Hindered)
  /\ main = "closing" ~> (main = "stopped" \/ Hindered)
  /\ \A c \in Conns : life[c] = "allocated" /\ peer[c] = "closed"
                        ~> (life[c] = "freed" \/ Hindered)
=============================================================================
