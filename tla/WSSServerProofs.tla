---------------------------- MODULE WSSServerProofs ----------------------------
(***************************************************************************)
(* Proofs about WSSServer for any number of connections: its types, that a      *)
(* ClientConn is used only while it exists until stop deletes what is listed,    *)
(* and that a broadcast reaches the clients that stay.                          *)
(***************************************************************************)
EXTENDS WSSServer, TLAPS

(* The connection that the accept thread has in its hands is nobody else's, and it  *)
(* ends before stop deletes connections.                                       *)
AcceptorsConn ==
  /\ acceptor.at \in {"handshake", "list", "spawn"} =>
       /\ acceptor.conn \in Conns
       /\ loop[acceptor.conn] = "none" /\ peer[acceptor.conn] # "absent"
       /\ life[acceptor.conn] = (IF acceptor.at = "spawn" THEN "allocated" ELSE "new")
       /\ acceptor.at = "spawn" => acceptor.conn \in clients
  /\ main \in {"joined", "stopped"} => acceptor.at = "ended"

(* Until stop has deleted connections, what is listed exists, a thread's connection *)
(* is listed until the thread takes it out, and from then on is the thread's.       *)
Owned ==
  \A c \in Conns :
    /\ peer[c] = "absent" => life[c] = "new"
    /\ life[c] = "new" => loop[c] = "none"
    /\ c \in clients => life[c] = "allocated" /\ loop[c] \notin {"freeing", "gone"}
    /\ ~alive[c] => loop[c] \in {"erasing", "freeing", "gone"}
    /\ main # "stopped" =>
         /\ loop[c] \in {"lookup", "top", "polling", "changing", "leaving", "erasing"} =>
              c \in clients
         /\ loop[c] = "freeing" => life[c] = "allocated"

CInv == TypeOK /\ AcceptorsConn /\ Owned /\ UsedWhileItExists

-----------------------------------------------------------------------------
(* The steps.                                                               *)

LEMMA Initially == Init => CInv
  <1> SUFFICES ASSUME Init PROVE CInv
    OBVIOUS
  <1>1. TypeOK
    <2>1. acceptor \in [at : {"top", "accept", "handshake", "list", "spawn", "ended"},
                        conn : Conns \cup {NoConn}]
      BY DEF Init
    <2>2. QED
      BY <2>1 DEF Init, TypeOK
  <1>2. AcceptorsConn /\ Owned /\ UsedWhileItExists
    BY DEF Init, AcceptorsConn, Owned, UsedWhileItExists
  <1>3. QED
    BY <1>1, <1>2 DEF CInv

LEMMA StutterKeeps == CInv /\ UNCHANGED vars => CInv'
  BY DEF CInv, TypeOK, AcceptorsConn, Owned, UsedWhileItExists, vars, connVars, castVars

LEMMA AcceptKeeps == CInv /\ AcceptThread /\ Tracked => CInv'
  <1> SUFFICES ASSUME CInv, AcceptThread, Tracked PROVE CInv'
    OBVIOUS
  <1> USE DEF connVars, castVars, CInv, TypeOK, AcceptorsConn, Owned, UsedWhileItExists
  <1>0. steady' \subseteq Conns /\ broken = {}
    BY DEF Tracked
  <1>1. CASE AcceptTop
    BY <1>0, <1>1 DEF AcceptTop, Running
  <1>2. CASE AcceptNone
    BY <1>0, <1>2 DEF AcceptNone
  <1>3. CASE HandshakeDone
    BY <1>0, <1>3 DEF HandshakeDone
  <1>4. CASE HandshakeFails
    BY <1>0, <1>4 DEF HandshakeFails
  <1>5. CASE List
    BY <1>0, <1>5 DEF List
  <1>6. CASE Spawn
    BY <1>0, <1>6 DEF Spawn
  <1>7. ASSUME NEW c \in Conns, Accept(c) PROVE CInv'
    BY <1>0, <1>7 DEF Accept
  <1>8. QED
    BY <1>1, <1>2, <1>3, <1>4, <1>5, <1>6, <1>7 DEF AcceptThread

LEMMA ThreadKeeps ==
  ASSUME NEW c \in Conns, CInv, ClientThread(c), Tracked
  PROVE  CInv'
  <1> USE DEF connVars, castVars, CInv, TypeOK, AcceptorsConn, Owned, UsedWhileItExists, Step
  <1>0. steady' \subseteq Conns /\ broken = {}
    BY DEF Tracked
  <1>1. CASE Lookup(c)
    BY <1>0, <1>1 DEF Lookup
  <1>2. CASE LoopTop(c)
    BY <1>0, <1>2 DEF LoopTop, Touch, Running, Causes
  <1>3. CASE PollAgain(c)
    BY <1>0, <1>3 DEF PollAgain
  <1>4. CASE ChangeBegin(c)
    BY <1>0, <1>4 DEF ChangeBegin, Touch, Causes
  <1>5. ASSUME NEW subscribed \in BOOLEAN, ChangeEnd(c, subscribed) PROVE CInv'
    BY <1>0, <1>5 DEF ChangeEnd, Touch, Causes
  <1>6. CASE Hangup(c) \/ EmptyMessage(c)
    BY <1>0, <1>6 DEF Hangup, EmptyMessage
  <1>7. CASE Leave(c)
    BY <1>0, <1>7 DEF Leave, Touch, Causes
  <1>8. CASE Erase(c)
    BY <1>0, <1>8 DEF Erase
  <1>9. CASE Free(c)
    BY <1>0, <1>9 DEF Free, Causes
  <1>10. QED
    BY <1>1, <1>2, <1>3, <1>4, <1>5, <1>6, <1>7, <1>8, <1>9 DEF ClientThread

LEMMA BroadcastKeeps == CInv /\ Broadcasts /\ Tracked => CInv'
  <1> SUFFICES ASSUME CInv, Broadcasts, Tracked PROVE CInv'
    OBVIOUS
  <1> USE DEF connVars, castVars, CInv, TypeOK, AcceptorsConn, Owned, UsedWhileItExists
  <1>0. steady' \subseteq Conns /\ broken = {}
    BY DEF Tracked
  <1>1. CASE CastBegin
    BY <1>0, <1>1 DEF CastBegin
  <1>2. ASSUME NEW c \in Conns, Skip(c) PROVE CInv'
    BY <1>0, <1>2 DEF Skip, AfterVisit, Touch, Causes
  <1>3. ASSUME NEW c \in Conns, Write(c) PROVE CInv'
    BY <1>0, <1>3 DEF Write, AfterVisit, Touch, Causes
  <1>4. ASSUME NEW c \in Conns, Race(c) PROVE CInv'
    BY <1>0, <1>4 DEF Race, Causes
  <1>5. CASE CastEnd
    BY <1>0, <1>5 DEF CastEnd
  <1>6. QED
    BY <1>1, <1>2, <1>3, <1>4, <1>5 DEF Broadcasts, Visit

LEMMA OthersKeep == CInv /\ (Main \/ Clients) /\ Tracked => CInv'
  <1> SUFFICES ASSUME CInv, Main \/ Clients, Tracked PROVE CInv'
    OBVIOUS
  <1> USE DEF connVars, castVars, CInv, TypeOK, AcceptorsConn, Owned, UsedWhileItExists
  <1>0. steady' \subseteq Conns /\ broken = {}
    BY DEF Tracked
  <1>1. CASE StopRequest
    BY <1>0, <1>1 DEF StopRequest
  <1>2. CASE StopJoin
    BY <1>0, <1>2 DEF StopJoin
  <1>3. CASE StopFree
    BY <1>0, <1>3 DEF StopFree, Causes
  <1>4. ASSUME NEW c \in Conns, Stall(c) PROVE CInv'
    BY <1>0, <1>4 DEF Stall
  <1>5. ASSUME NEW c \in Conns, Close(c) PROVE CInv'
    BY <1>0, <1>5 DEF Close
  <1>6. ASSUME NEW c \in Conns, Resume(c) PROVE CInv'
    BY <1>0, <1>6 DEF Resume
  <1>7. QED
    BY <1>1, <1>2, <1>3, <1>4, <1>5, <1>6 DEF Main, Clients

-----------------------------------------------------------------------------
(* The parts of CInv, for any number of connections: on every step a listed          *)
(* connection exists and a thread that uses one has it listed.                    *)
THEOREM ClientsInductive == Spec => []CInv
  <1>1. CInv /\ [Next]_vars => CInv'
    BY StutterKeeps, AcceptKeeps, ThreadKeeps, BroadcastKeeps, OthersKeep DEF Next
  <1>2. QED
    BY Initially, <1>1, PTL DEF Spec

(* The variables of accept_loop_, client_loop_, the broadcasts and stop keep their    *)
(* types; what a broadcast has yet to visit is listed in clients_.                  *)
THEOREM ClientsTypeCorrect == Spec => []TypeOK
  <1>1. CInv => TypeOK
    BY DEF CInv
  <1>2. QED
    BY ClientsInductive, <1>1, PTL

(* Until stop has deleted what is listed in clients_, a ClientConn is used by its     *)
(* thread and by broadcasts only while it exists, and client_loop_ deletes it once.   *)
THEOREM UsedOnlyWhileItExists == Spec => []UsedWhileItExists
  <1>1. CInv => UsedWhileItExists
    BY DEF CInv
  <1>2. QED
    BY ClientsInductive, <1>1, PTL

-----------------------------------------------------------------------------
(* A client that a broadcast skips was not staying, so none that stays is missed.      *)
LEMMA VisitReaches ==
  ASSUME CInv, NoneMissed, Visit, Tracked
  PROVE  NoneMissed'
  <1>0. broken = {} /\ casting /\ casting' /\ steady' = {c \in steady : Staying(c)'}
    <2>1. PICK c \in Conns : Skip(c) \/ Write(c) \/ Race(c)
      BY DEF Visit
    <2>2. c \in todo /\ casting' = casting
      BY <2>1 DEF Skip, Write, Race, castVars
    <2>3. casting
      BY <2>2 DEF CInv, TypeOK
    <2>4. QED
      BY <2>2, <2>3 DEF Tracked, CInv, TypeOK
  <1>1. ASSUME NEW c \in Conns, Skip(c) PROVE NoneMissed'
    <2>1. c \notin steady'
      <3> SUFFICES ASSUME Staying(c)' PROVE FALSE
        BY <1>0
      <3>1. Staying(c)
        BY <1>1 DEF Skip, Staying, connVars
      <3>2. alive[c] /\ SeenSubscribed(c) = {TRUE}
        BY <3>1 DEF CInv, TypeOK, Owned, Staying, SeenSubscribed
      <3>3. QED
        BY <1>1, <3>2 DEF Skip
    <2>2. todo' = todo \ {c} /\ sent' = sent
      BY <1>1 DEF Skip, AfterVisit
    <2>3. QED
      BY <1>0, <2>1, <2>2 DEF NoneMissed
  <1>2. ASSUME NEW c \in Conns, Write(c) PROVE NoneMissed'
    BY <1>0, <1>2 DEF Write, AfterVisit, NoneMissed
  <1>3. ASSUME NEW c \in Conns, Race(c) PROVE NoneMissed'
    BY <1>0, <1>3 DEF Race, castVars, NoneMissed
  <1>4. QED
    BY <1>1, <1>2, <1>3 DEF Visit

(* Nobody else touches the broadcast: it holds clients_mutex_.                        *)
LEMMA OthersReach ==
  ASSUME CInv, NoneMissed, UNCHANGED castVars, Tracked
  PROVE  NoneMissed'
  BY DEF NoneMissed, castVars, Tracked

LEMMA CastReaches ==
  ASSUME CInv, NoneMissed, CastBegin \/ CastEnd, Tracked
  PROVE  NoneMissed'
  <1>1. CASE CastBegin
    BY <1>1 DEF CastBegin, NoneMissed, Tracked, Staying, connVars
  <1>2. CASE CastEnd
    BY <1>2 DEF CastEnd, NoneMissed
  <1>3. QED
    BY <1>1, <1>2

LEMMA OnlyBroadcastsCast ==
  ASSUME AcceptThread \/ Main \/ Clients \/ \E c \in Conns : ClientThread(c)
  PROVE  UNCHANGED castVars
  <1>1. CASE AcceptThread
    BY <1>1 DEF AcceptThread, AcceptTop, AcceptNone, Accept, HandshakeDone, HandshakeFails,
                List, Spawn
  <1>2. CASE Main \/ Clients
    BY <1>2 DEF Main, Clients, StopRequest, StopJoin, StopFree, Stall, Resume, Close
  <1>3. ASSUME NEW c \in Conns, ClientThread(c) PROVE UNCHANGED castVars
    BY <1>3 DEF ClientThread, Lookup, LoopTop, PollAgain, ChangeBegin, ChangeEnd, Hangup,
                EmptyMessage, Leave, Erase, Free
  <1>4. QED
    BY <1>1, <1>2, <1>3

(* A client that stays subscribed and connected during a broadcast is written to,        *)
(* however many connections come and go meanwhile.                                 *)
THEOREM CastReachesAll == Spec => []NoneMissed
  <1>1. Init => NoneMissed
    BY DEF Init, NoneMissed
  <1>2. CInv /\ NoneMissed /\ [Next]_vars => NoneMissed'
    <2>1. CASE UNCHANGED vars
      BY <2>1 DEF NoneMissed, vars, castVars
    <2>2. CASE Next
      BY <2>2, VisitReaches, OthersReach, CastReaches, OnlyBroadcastsCast
         DEF Next, Broadcasts
    <2>3. QED
      BY <2>1, <2>2
  <1>3. QED
    BY ClientsInductive, <1>1, <1>2, PTL DEF Spec

=============================================================================
