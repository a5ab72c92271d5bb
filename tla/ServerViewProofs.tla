--------------------------- MODULE ServerViewProofs ---------------------------
(***************************************************************************)
(* Proofs about ClientServer and LiveView, the two ends of the threads that serve        *)
(* clients.  Of the server, for any number of clients and workers and every queue        *)
(* length: its types, that a connection is in one place, and that no worker serves      *)
(* after stop.  Of the live view, for every queue length, interval and number of         *)
(* pictures: its types, the pace of the pictures, and that it implements LossyFifo.      *)
(***************************************************************************)
EXTENDS ClientServer, LiveView, SequenceTheorems, TLAPS

-----------------------------------------------------------------------------
(* ClientServer: the inductive invariant.                                     *)

Busy == {"reading", "handling", "writing"}

(* A thread has a connection exactly while it uses one.                          *)
ConnWhileUsed ==
  /\ listener.conn # NoClient <=> listener.at = "pushing"
  /\ \A t \in Threads : thread[t].conn # NoClient <=> thread[t].at \in Busy

(* How far start and stop have come bounds where the threads are, and nothing new    *)
(* arrives once the socket is closed.                                         *)
Phases ==
  /\ server \in {"draining", "stopped"} => listener.at = "ended"
  /\ server = "stopped" => \A t \in Threads : thread[t].at = "ended"
  /\ server \in {"joining", "draining", "stopped"} => Backlog = {}
  /\ server = "new" => listener.at = "none" /\ \A t \in Threads : thread[t].at = "none"

CInv == ServerTypeOK /\ ConnWhileUsed /\ Phases /\ HeldOnce

-----------------------------------------------------------------------------
(* The two ends of the queue.                                                *)

LEMMA PushedLine ==
  ASSUME ServerTypeOK, IsInjective(waitLine), NEW c \in Clients, c \notin ToSet(waitLine)
  PROVE  /\ Append(waitLine, c) \in Seq(Clients)
         /\ Len(Append(waitLine, c)) = Len(waitLine) + 1 /\ Len(waitLine) \in Nat
         /\ IsInjective(Append(waitLine, c))
         /\ ToSet(Append(waitLine, c)) = ToSet(waitLine) \cup {c}
  <1> DEFINE line == Append(waitLine, c)
  <1>1. /\ waitLine \in Seq(Clients) /\ Len(waitLine) \in Nat
        /\ DOMAIN waitLine = 1..Len(waitLine)
    BY LenProperties DEF ServerTypeOK
  <1>2. /\ line \in Seq(Clients) /\ Len(line) = Len(waitLine) + 1
        /\ \A i \in 1..Len(waitLine) : line[i] = waitLine[i]
        /\ line[Len(waitLine) + 1] = c
    BY <1>1, AppendProperties
  <1>3. DOMAIN line = 1..(Len(waitLine) + 1)
    BY <1>2, LenProperties
  <1> HIDE DEF line
  <1>4. IsInjective(line)
    BY <1>1, <1>2, <1>3 DEF IsInjective, ToSet
  <1>5. ToSet(line) = ToSet(waitLine) \cup {c}
    BY <1>1, <1>2, <1>3 DEF ToSet
  <1>6. QED
    BY <1>1, <1>2, <1>4, <1>5 DEF line

LEMMA TakenLine ==
  ASSUME ServerTypeOK, IsInjective(waitLine), waitLine # << >>
  PROVE  /\ Head(waitLine) \in Clients /\ Head(waitLine) \in ToSet(waitLine)
         /\ Tail(waitLine) \in Seq(Clients) /\ Len(Tail(waitLine)) <= QueueLimit
         /\ IsInjective(Tail(waitLine))
         /\ ToSet(Tail(waitLine)) = ToSet(waitLine) \ {Head(waitLine)}
  <1> DEFINE line == Tail(waitLine)
  <1>1. /\ waitLine \in Seq(Clients) /\ Len(waitLine) \in Nat
        /\ DOMAIN waitLine = 1..Len(waitLine) /\ Len(waitLine) <= QueueLimit
        /\ Len(waitLine) >= 1
    BY LenProperties, EmptySeq DEF ServerTypeOK
  <1>2. /\ line \in Seq(Clients) /\ Len(line) = Len(waitLine) - 1
        /\ \A i \in 1..Len(line) : line[i] = waitLine[i + 1]
        /\ Head(waitLine) = waitLine[1] /\ Head(waitLine) \in Clients
    BY <1>1, HeadTailProperties
  <1>3. DOMAIN line = 1..(Len(waitLine) - 1)
    BY <1>2, LenProperties
  <1> HIDE DEF line
  <1>4. \A i \in DOMAIN line : i + 1 \in DOMAIN waitLine /\ line[i] = waitLine[i + 1]
    BY <1>1, <1>2, <1>3
  <1>5. IsInjective(line)
    <2>1. SUFFICES ASSUME NEW i \in DOMAIN line, NEW j \in DOMAIN line, line[i] = line[j]
                   PROVE  i = j
      BY DEF IsInjective
    <2>2. waitLine[i + 1] = waitLine[j + 1] /\ i + 1 \in DOMAIN waitLine
          /\ j + 1 \in DOMAIN waitLine
      BY <1>4, <2>1
    <2>3. i + 1 = j + 1
      BY <2>2 DEF IsInjective
    <2>4. QED
      BY <1>1, <1>3, <2>3
  <1>6. ToSet(line) = ToSet(waitLine) \ {Head(waitLine)}
    <2>1. ASSUME NEW x \in ToSet(line)
          PROVE  x \in ToSet(waitLine) /\ x # Head(waitLine)
      <3>1. PICK i \in DOMAIN line : x = line[i]
        BY DEF ToSet
      <3>2. x = waitLine[i + 1] /\ i + 1 \in DOMAIN waitLine /\ i \in 1..(Len(waitLine) - 1)
        BY <1>3, <1>4, <3>1
      <3>3. x # waitLine[1]
        BY <1>1, <3>2 DEF IsInjective
      <3>4. QED
        BY <1>2, <3>2, <3>3 DEF ToSet
    <2>2. ASSUME NEW x \in ToSet(waitLine), x # Head(waitLine)
          PROVE  x \in ToSet(line)
      <3>1. PICK i \in DOMAIN waitLine : x = waitLine[i]
        BY DEF ToSet
      <3>2. i # 1 /\ i \in 1..Len(waitLine)
        BY <1>1, <1>2, <2>2, <3>1
      <3>3. i - 1 \in 1..(Len(waitLine) - 1) /\ (i - 1) + 1 = i
        BY <1>1, <3>2
      <3>4. i - 1 \in DOMAIN line /\ line[i - 1] = x
        BY <1>3, <1>4, <3>1, <3>3
      <3>5. QED
        BY <3>4 DEF ToSet
    <2>3. QED
      BY <2>1, <2>2
  <1>7. Head(waitLine) \in ToSet(waitLine)
    BY <1>1, <1>2 DEF ToSet
  <1>8. Len(line) <= QueueLimit
    BY <1>1, <1>2, QueueLimitAssumption
  <1>9. QED
    BY <1>2, <1>5, <1>6, <1>7, <1>8 DEF line

-----------------------------------------------------------------------------
(* The steps.                                                               *)

LEMMA Initially == ServerInit => CInv
  <1> SUFFICES ASSUME ServerInit PROVE CInv
    OBVIOUS
  <1>1. waitLine = << >> /\ waitLine \in Seq(Clients) /\ Len(waitLine) = 0 /\ DOMAIN waitLine = {}
    BY EmptySeq DEF ServerInit
  <1>2. ServerTypeOK
    BY <1>1, QueueLimitAssumption
    DEF ServerInit, ServerTypeOK, ListenerStates, ThreadStates
  <1>3. HeldOnce
    BY <1>1, ClientAssumption DEF ServerInit, HeldOnce, Holders, ToSet, IsInjective
  <1>4. ConnWhileUsed /\ Phases
    BY DEF ServerInit, ConnWhileUsed, Phases, Busy
  <1>5. QED
    BY <1>2, <1>3, <1>4 DEF CInv

(* A step that leaves connections with who has them.                            *)
LEMMA UnmovedKeeps ==
  ASSUME HeldOnce, waitLine' = waitLine, listener'.conn = listener.conn,
         \A t \in Threads : thread'[t].conn = thread[t].conn,
         \A c \in Clients, place \in {"accepted", "queued", "serving"} :
           link'[c] = place <=> link[c] = place
  PROVE  HeldOnce'
  <1>1. \A c \in Clients : Holders(c)' = Holders(c)
    BY DEF Holders
  <1>2. \A c \in Clients :
          /\ link'[c] = "accepted" <=> link[c] = "accepted"
          /\ link'[c] = "queued" <=> link[c] = "queued"
          /\ link'[c] = "serving" <=> link[c] = "serving"
    OBVIOUS
  <1>3. QED
    BY <1>1, <1>2 DEF HeldOnce

LEMMA MainKeeps == CInv /\ MainSteps => CInv'
  <1> SUFFICES ASSUME CInv, MainSteps PROVE CInv'
    OBVIOUS
  <1> USE DEF CInv, ServerTypeOK, ListenerStates, ThreadStates, loopVars
  <1>1. CASE StartServer
    <2>1. \A t \in Threads : thread'[t].conn = thread[t].conn /\ thread'[t].at = "top"
      BY <1>1 DEF StartServer
    <2>2. ServerTypeOK'
      BY <1>1 DEF StartServer
    <2>3. HeldOnce'
      BY <1>1, <2>1, UnmovedKeeps DEF StartServer
    <2>4. ConnWhileUsed' /\ Phases'
      BY <1>1, <2>1 DEF StartServer, ConnWhileUsed, Phases, Busy
    <2>5. QED
      BY <2>2, <2>3, <2>4
  <1>2. CASE CloseListener
    <2>1. \A c \in Clients : link'[c] = IF link[c] = "backlog" THEN "closed" ELSE link[c]
      BY <1>2 DEF CloseListener
    <2>2. HeldOnce'
      BY <1>2, <2>1, UnmovedKeeps DEF CloseListener
    <2>3. ServerTypeOK' /\ ConnWhileUsed' /\ Phases'
      BY <1>2, <2>1 DEF CloseListener, ConnWhileUsed, Phases, Backlog
    <2>4. QED
      BY <2>2, <2>3
  <1>3. CASE StopServer \/ JoinListener \/ JoinThreads
    <2>1. HeldOnce'
      BY <1>3, UnmovedKeeps DEF StopServer, JoinListener, JoinThreads
    <2>2. ServerTypeOK' /\ ConnWhileUsed' /\ Phases'
      BY <1>3 DEF StopServer, JoinListener, JoinThreads, ConnWhileUsed, Phases, Backlog
    <2>3. QED
      BY <2>1, <2>2
  <1>4. QED
    BY <1>1, <1>2, <1>3 DEF MainSteps

LEMMA ListenerKeeps == CInv /\ ListenerThread => CInv'
  <1> SUFFICES ASSUME CInv, ListenerThread PROVE CInv'
    OBVIOUS
  <1> USE DEF CInv, ServerTypeOK, ListenerStates, ThreadStates
  <1>1. CASE ListenerTop \/ PollNothing \/ PollReady \/ AcceptFails
    <2>1. /\ listener'.conn = listener.conn /\ listener.at # "pushing" /\ listener'.at # "pushing"
          /\ listener' \in ListenerStates
          /\ listener.at \in {"top", "polling", "accepting"}
          /\ UNCHANGED <<server, waitLine, thread, link, client>>
      BY <1>1 DEF ListenerTop, PollNothing, PollReady, AcceptFails, ListenerAt
    <2>2. HeldOnce'
      BY <2>1, UnmovedKeeps
    <2>3. ServerTypeOK' /\ ConnWhileUsed' /\ Phases'
      BY <2>1 DEF ConnWhileUsed, Phases, Backlog
    <2>4. QED
      BY <2>2, <2>3
  <1>2. ASSUME NEW c \in Clients, AcceptClient(c) PROVE CInv'
    <2>1. /\ listener' = [at |-> "pushing", conn |-> c] /\ listener.at = "accepting"
          /\ link' = [link EXCEPT ![c] = "accepted"] /\ link[c] = "backlog"
          /\ UNCHANGED <<server, waitLine, thread, client>>
      BY <1>2 DEF AcceptClient
    <2>2. listener.conn = NoClient
      BY <2>1 DEF ConnWhileUsed
    <2>3. HeldOnce'
      BY <2>1, <2>2, ClientAssumption DEF HeldOnce, Holders
    <2>4. ServerTypeOK' /\ ConnWhileUsed' /\ Phases'
      BY <2>1, ClientAssumption DEF ConnWhileUsed, Phases, Backlog
    <2>5. QED
      BY <2>3, <2>4
  <1>3. CASE Refuse
    <2> DEFINE c == listener.conn
    <2>1. /\ listener' = [at |-> "top", conn |-> NoClient] /\ listener.at = "pushing"
          /\ link' = [link EXCEPT ![c] = "closed"] /\ client' = [client EXCEPT ![c] = "gone"]
          /\ UNCHANGED <<server, waitLine, thread>>
      BY <1>3 DEF Refuse, Closed
    <2>2. c \in Clients /\ link[c] = "accepted"
      BY <2>1 DEF ConnWhileUsed, HeldOnce
    <2>3. HeldOnce'
      BY <2>1, <2>2, ClientAssumption DEF HeldOnce, Holders
    <2>4. ServerTypeOK' /\ ConnWhileUsed' /\ Phases'
      BY <2>1, <2>2 DEF ConnWhileUsed, Phases, Backlog
    <2>5. QED
      BY <2>3, <2>4
  <1>4. CASE PushClient
    <2> DEFINE c == listener.conn
    <2>1. /\ listener' = [at |-> "top", conn |-> NoClient] /\ listener.at = "pushing"
          /\ link' = [link EXCEPT ![c] = "queued"] /\ waitLine' = Append(waitLine, c)
          /\ Len(waitLine) < QueueLimit
          /\ UNCHANGED <<server, thread, client>>
      BY <1>4 DEF PushClient
    <2>2. c \in Clients /\ link[c] = "accepted" /\ c \notin ToSet(waitLine)
      BY <2>1 DEF ConnWhileUsed, HeldOnce
    <2>3. /\ waitLine' \in Seq(Clients) /\ Len(waitLine') <= QueueLimit
          /\ IsInjective(waitLine') /\ ToSet(waitLine') = ToSet(waitLine) \cup {c}
      BY <2>1, <2>2, PushedLine, QueueLimitAssumption DEF HeldOnce
    <2>4. HeldOnce'
      <3>1. \A d \in Clients : Holders(d)' = Holders(d)
        BY <2>1 DEF Holders
      <3>2. \A d \in Clients : link'[d] = IF d = c THEN "queued" ELSE link[d]
        BY <2>1, <2>2
      <3>3. listener'.conn = NoClient
        BY <2>1
      <3>4. QED
        BY <2>2, <2>3, <3>1, <3>2, <3>3, ClientAssumption DEF HeldOnce
    <2>5. ServerTypeOK' /\ ConnWhileUsed' /\ Phases'
      BY <2>1, <2>2, <2>3 DEF ConnWhileUsed, Phases, Backlog
    <2>6. QED
      BY <2>4, <2>5
  <1>5. QED
    BY <1>1, <1>2, <1>3, <1>4 DEF ListenerThread

(* A worker that is done closes its connection, which is nobody's then.              *)
LEMMA DoneKeeps ==
  ASSUME CInv, NEW t \in Threads, thread[t].at \in Busy, Done(t),
         UNCHANGED <<server, listener, waitLine>>
  PROVE  CInv'
  <1> USE DEF CInv, ServerTypeOK, ListenerStates, ThreadStates
  <1> DEFINE c == thread[t].conn
  <1>1. /\ thread' = [thread EXCEPT ![t] = [at |-> "top", conn |-> NoClient]]
        /\ link' = [link EXCEPT ![c] = "closed"] /\ client' = [client EXCEPT ![c] = "gone"]
    BY DEF Done, Closed
  <1>2. c \in Clients
    BY DEF ConnWhileUsed
  <1>3. link[c] = "serving" /\ Holders(c) = {t}
    BY <1>2 DEF HeldOnce, Holders
  <1>4. HeldOnce'
    <2>1. \A u \in Threads : thread'[u].conn = IF u = t THEN NoClient ELSE thread[u].conn
      BY <1>1
    <2>2. \A d \in Clients : Holders(d)' = IF d = c THEN {} ELSE Holders(d)
      <3> HIDE DEF CInv, ServerTypeOK, c
      <3>1. SUFFICES ASSUME NEW d \in Clients
                     PROVE  Holders(d)' = IF d = c THEN {} ELSE Holders(d)
        OBVIOUS
      <3>2. Holders(d)' = {u \in Threads : thread'[u].conn = d}
        BY DEF Holders
      <3>3. d # NoClient
        BY <3>1, ClientAssumption
      <3>4. CASE d = c
        <4>1. \A u \in Threads : thread[u].conn = c => u = t
          BY <1>3 DEF Holders
        <4>2. QED
          BY <2>1, <3>2, <3>3, <3>4, <4>1
      <3>5. CASE d # c
        <4>1. thread[t].conn = c
          BY DEF c
        <4>2. \A u \in Threads : thread'[u].conn = d <=> thread[u].conn = d
          BY <2>1, <3>3, <3>5, <4>1
        <4>3. QED
          BY <3>2, <3>5, <4>2 DEF Holders
      <3>6. QED
        BY <3>4, <3>5
    <2>3. \A d \in Clients : link'[d] = IF d = c THEN "closed" ELSE link[d]
      BY <1>1, <1>2
    <2>4. QED
      BY <1>2, <1>3, <2>2, <2>3 DEF HeldOnce
  <1>5. ServerTypeOK'
    BY <1>1, <1>2
  <1>6. ConnWhileUsed' /\ Phases'
    BY <1>1, <1>2 DEF ConnWhileUsed, Phases, Backlog, Busy
  <1>7. QED
    BY <1>4, <1>5, <1>6

LEMMA WorkerKeeps ==
  ASSUME CInv, NEW t \in Threads, WorkerThread(t)
  PROVE  CInv'
  <1> USE DEF CInv, ServerTypeOK, ListenerStates, ThreadStates
  <1>1. ASSUME NEW to \in {"top", "waiting", "ended"}, thread[t].at \in {"top", "waiting"},
               thread' = [thread EXCEPT ![t].at = to],
               UNCHANGED <<server, listener, waitLine, link, client>>
        PROVE  CInv'
    <2>1. \A u \in Threads : thread'[u].conn = thread[u].conn
      BY <1>1
    <2>2. HeldOnce'
      BY <1>1, <2>1, UnmovedKeeps
    <2>3. ServerTypeOK' /\ ConnWhileUsed' /\ Phases'
      BY <1>1 DEF ConnWhileUsed, Phases, Backlog, Busy
    <2>4. QED
      BY <2>2, <2>3
  <1>2. ASSUME NEW to \in Busy, thread[t].at \in Busy,
               thread' = [thread EXCEPT ![t].at = to],
               UNCHANGED <<server, listener, waitLine, link, client>>
        PROVE  CInv'
    <2>1. \A u \in Threads : thread'[u].conn = thread[u].conn
      BY <1>2
    <2>2. HeldOnce'
      BY <1>2, <2>1, UnmovedKeeps
    <2>3. ServerTypeOK' /\ ConnWhileUsed' /\ Phases'
      BY <1>2 DEF ConnWhileUsed, Phases, Backlog, Busy
    <2>4. QED
      BY <2>2, <2>3
  <1>3. CASE ThreadTop(t) \/ WaitEnds(t)
    BY <1>1, <1>3 DEF ThreadTop, WaitEnds, ThreadAt
  <1>4. CASE ReadRequest(t) \/ Route(t)
    BY <1>2, <1>4 DEF ReadRequest, Route, ThreadAt, Busy
  <1>5. CASE ReadNothing(t) \/ Answer(t)
    BY <1>5, DoneKeeps DEF ReadNothing, Answer, Busy
  <1>6. CASE TakeClient(t)
    <2> DEFINE c == Head(waitLine)
    <2>1. /\ thread' = [thread EXCEPT ![t] = [at |-> "reading", conn |-> c]]
          /\ waitLine' = Tail(waitLine) /\ waitLine # << >> /\ thread[t].at = "waiting"
          /\ link' = [link EXCEPT ![c] = "serving"]
          /\ UNCHANGED <<server, listener, client>>
      BY <1>6 DEF TakeClient
    <2>2. /\ c \in Clients /\ c \in ToSet(waitLine)
          /\ waitLine' \in Seq(Clients) /\ Len(waitLine') <= QueueLimit
          /\ IsInjective(waitLine') /\ ToSet(waitLine') = ToSet(waitLine) \ {c}
      BY <2>1, TakenLine DEF HeldOnce
    <2>3. /\ link[c] = "queued" /\ Holders(c) = {} /\ listener.conn # c
          /\ thread[t].conn = NoClient
      BY <2>1, <2>2 DEF HeldOnce, ConnWhileUsed, Busy
    <2>4. HeldOnce'
      <3>1. \A u \in Threads : thread'[u].conn = IF u = t THEN c ELSE thread[u].conn
        BY <2>1
      <3>2. \A d \in Clients : Holders(d)' = IF d = c THEN {t} ELSE Holders(d)
        BY <2>2, <2>3, <3>1, ClientAssumption DEF Holders
      <3>3. \A d \in Clients : link'[d] = IF d = c THEN "serving" ELSE link[d]
        BY <2>1, <2>2
      <3>4. IsInjective(waitLine') /\ listener'.conn = listener.conn
        BY <2>1, <2>2
      <3>5. ASSUME NEW d \in Clients
            PROVE  /\ link'[d] = "accepted" <=> listener'.conn = d
                   /\ link'[d] = "queued" <=> d \in ToSet(waitLine')
                   /\ link'[d] = "serving" <=> Holders(d)' # {}
                   /\ \A u, v \in Holders(d)' : u = v
        <4>1. CASE d = c
          BY <2>2, <2>3, <3>2, <3>3, <3>4, <4>1
        <4>2. CASE d # c
          BY <2>2, <3>2, <3>3, <3>4, <4>2 DEF HeldOnce
        <4>3. QED
          BY <4>1, <4>2
      <3>6. QED
        BY <3>4, <3>5 DEF HeldOnce
    <2>5. ServerTypeOK'
      BY <2>1, <2>2
    <2>6. ConnWhileUsed' /\ Phases'
      BY <2>1, <2>2, ClientAssumption DEF ConnWhileUsed, Phases, Backlog, Busy
    <2>7. QED
      BY <2>4, <2>5, <2>6
  <1>7. QED
    BY <1>3, <1>4, <1>5, <1>6 DEF WorkerThread

LEMMA ClientKeeps ==
  ASSUME CInv, NEW c \in Clients, ClientSteps(c)
  PROVE  CInv'
  <1> USE DEF CInv, ServerTypeOK, ListenerStates, ThreadStates, loopVars
  <1>1. CASE Connect(c)
    <2>1. /\ server \in {"up", "closing"} /\ link[c] = "absent"
          /\ link' = [link EXCEPT ![c] = "backlog"]
          /\ UNCHANGED <<server, listener, waitLine, thread, client>>
      BY <1>1 DEF Connect, Listening
    <2>2. \A d \in Clients : link'[d] = IF d = c THEN "backlog" ELSE link[d]
      BY <2>1
    <2>3. HeldOnce'
      BY <2>1, <2>2, UnmovedKeeps
    <2>4. ServerTypeOK' /\ ConnWhileUsed' /\ Phases'
      BY <2>1 DEF ConnWhileUsed, Phases, Backlog
    <2>5. QED
      BY <2>3, <2>4
  <1>2. CASE Send(c) \/ HangUp(c) \/ TurnDeaf(c)
    <2>1. /\ UNCHANGED <<server, listener, waitLine, thread, link>>
          /\ client' \in [Clients -> {"sending", "awaiting", "deaf", "gone"}]
      BY <1>2 DEF Send, HangUp, TurnDeaf
    <2>2. HeldOnce'
      BY <2>1, UnmovedKeeps
    <2>3. ServerTypeOK' /\ ConnWhileUsed' /\ Phases'
      BY <2>1 DEF ConnWhileUsed, Phases, Backlog
    <2>4. QED
      BY <2>2, <2>3
  <1>3. QED
    BY <1>1, <1>2 DEF ClientSteps

LEMMA CInvStep == CInv /\ [ServerNext]_serverVars => CInv'
  <1> SUFFICES ASSUME CInv, [ServerNext]_serverVars PROVE CInv'
    OBVIOUS
  <1>1. CASE UNCHANGED serverVars
    <2>1. UNCHANGED <<server, listener, waitLine, thread, link, client>>
      BY <1>1 DEF serverVars, loopVars
    <2>2. HeldOnce'
      BY <2>1, UnmovedKeeps DEF CInv
    <2>3. ServerTypeOK' /\ ConnWhileUsed' /\ Phases'
      BY <2>1 DEF CInv, ServerTypeOK, ConnWhileUsed, Phases, Backlog
    <2>4. QED
      BY <2>2, <2>3 DEF CInv
  <1>2. QED
    BY <1>1, MainKeeps, ListenerKeeps, WorkerKeeps, ClientKeeps DEF ServerNext

(* What the ended threads do not hold is neither accepted nor served.                *)
LEMMA StoppedServesNone == CInv => NoneServedAfterStop
  <1> SUFFICES ASSUME CInv, server = "stopped"
               PROVE  /\ listener.at = "ended"
                      /\ \A t \in Threads : thread[t].at = "ended"
                      /\ \A c \in Clients : link[c] \notin {"backlog", "accepted", "serving"}
    BY DEF NoneServedAfterStop
  <1>1. /\ listener.at = "ended" /\ \A t \in Threads : thread[t].at = "ended"
        /\ Backlog = {}
    BY DEF CInv, Phases
  <1>2. listener.conn = NoClient /\ \A t \in Threads : thread[t].conn = NoClient
    BY <1>1 DEF CInv, ConnWhileUsed, Busy
  <1>3. ASSUME NEW c \in Clients PROVE link[c] \notin {"backlog", "accepted", "serving"}
    <2>1. listener.conn # c /\ Holders(c) = {}
      BY <1>2, ClientAssumption DEF Holders
    <2>2. link[c] # "accepted" /\ link[c] # "serving"
      BY <2>1 DEF CInv, HeldOnce
    <2>3. link[c] # "backlog"
      BY <1>1 DEF Backlog
    <2>4. QED
      BY <2>2, <2>3
  <1>4. QED
    BY <1>1, <1>3

LEMMA CInvAlways == ServerSpec => []CInv
  BY Initially, CInvStep, PTL DEF ServerSpec

-----------------------------------------------------------------------------
(* Every variable of the server keeps its type, and client_queue_ stays within its     *)
(* bound.                                                                  *)
THEOREM ServerTypeCorrect == ServerSpec => []ServerTypeOK
  <1>1. CInv => ServerTypeOK
    BY DEF CInv
  <1>2. QED
    BY <1>1, CInvAlways, PTL

(* For any number of workers: a connection is in one place, so no two workers serve     *)
(* it and its descriptor is closed once.                                       *)
THEOREM ConnectionsHeldOnce == ServerSpec => []HeldOnce
  <1>1. CInv => HeldOnce
    BY DEF CInv
  <1>2. QED
    BY <1>1, CInvAlways, PTL

(* For any number of workers: when stop returns no thread of the server is left and no    *)
(* handler runs any more.                                                    *)
THEOREM StopLeavesNoHandler == ServerSpec => []NoneServedAfterStop
  BY StoppedServesNone, CInvAlways, PTL

-----------------------------------------------------------------------------
(* LiveView: the inductive invariant.                                         *)

InHand == encoder \in {"encoding", "calling"}

(* The queue holds the pictures offered last, in their order: the first of them     *)
(* has the number after Gone.                                                *)
Gone == offered - Len(requests)
RequestsRecent == \A i \in 1..Len(requests) : requests[i] = Gone + i

(* Every picture between a and b was dropped when the queue had filled up.       *)
DroppedBetween(a, b) == \A m \in Nat : a < m /\ m < b => m + MaxQueued <= offered

(* What is not queued any more is through, in the encoder's hands, or was dropped.  *)
GoneAccounted ==
  IF InHand
    THEN /\ ended < picture /\ picture <= Gone
         /\ DroppedBetween(ended, picture)
         /\ DroppedBetween(picture, Gone + 1)
    ELSE /\ ended <= Gone
         /\ DroppedBetween(ended, Gone + 1)

(* Before main has started the encoder there is no thread of it.               *)
NotBegun == viewer = "new" => encoder = "none"

(* last_live_ts is not older than the last picture that was let through.          *)
Paced == shownAt.now <= lastLive

QInv == ViewTypeOK /\ NotBegun /\ RequestsRecent /\ GoneAccounted

-----------------------------------------------------------------------------
(* What the two ends of the queue do to it.                                   *)

LEMMA EnqueuedQueue ==
  ASSUME ViewTypeOK, NEW n \in 1..MaxLive
  PROVE  /\ Enqueued(n) \in Seq(1..MaxLive)
         /\ Len(Enqueued(n)) <= MaxQueued
         /\ Len(Enqueued(n)) = IF Len(requests) >= MaxQueued THEN Len(requests)
                                                            ELSE Len(requests) + 1
         /\ Enqueued(n)[Len(Enqueued(n))] = n
         /\ \A i \in 1..(Len(Enqueued(n)) - 1) :
              Enqueued(n)[i] = IF Len(requests) >= MaxQueued THEN requests[i + 1]
                                                           ELSE requests[i]
  <1>1. requests \in Seq(1..MaxLive) /\ Len(requests) \in Nat /\ Len(requests) <= MaxQueued
    BY LenProperties DEF ViewTypeOK
  <1>2. CASE Len(requests) >= MaxQueued
    <2>1. requests # << >>
      BY <1>1, <1>2, MaxQueuedAssumption, EmptySeq
    <2>2. /\ Tail(requests) \in Seq(1..MaxLive) /\ Len(Tail(requests)) = Len(requests) - 1
          /\ \A i \in 1..Len(Tail(requests)) : Tail(requests)[i] = requests[i + 1]
      BY <1>1, <2>1, HeadTailProperties
    <2>3. Enqueued(n) = Append(Tail(requests), n)
      BY <1>2 DEF Enqueued
    <2>4. QED
      BY <1>1, <1>2, <2>2, <2>3, AppendProperties, MaxQueuedAssumption
  <1>3. CASE ~(Len(requests) >= MaxQueued)
    <2>1. Enqueued(n) = Append(requests, n)
      BY <1>3 DEF Enqueued
    <2>2. QED
      BY <1>1, <1>3, <2>1, AppendProperties, MaxQueuedAssumption
  <1>4. QED
    BY <1>2, <1>3

LEMMA TakenRequests ==
  ASSUME ViewTypeOK, requests # << >>
  PROVE  /\ Head(requests) \in 1..MaxLive /\ Head(requests) = requests[1]
         /\ Tail(requests) \in Seq(1..MaxLive)
         /\ Len(Tail(requests)) = Len(requests) - 1
         /\ Len(requests) \in Nat /\ Len(requests) >= 1
         /\ \A i \in 1..Len(Tail(requests)) : Tail(requests)[i] = requests[i + 1]
  <1> DEFINE Numbers == 1..MaxLive
  <1>1. requests \in Seq(Numbers) /\ Len(requests) \in Nat
    BY LenProperties DEF ViewTypeOK
  <1> HIDE DEF Numbers
  <1>2. /\ Head(requests) \in Numbers /\ Tail(requests) \in Seq(Numbers)
        /\ Head(requests) = requests[1] /\ Len(Tail(requests)) = Len(requests) - 1
        /\ \A i \in 1..Len(Tail(requests)) : Tail(requests)[i] = requests[i + 1]
    BY <1>1, HeadTailProperties
  <1>3. Len(requests) >= 1
    BY <1>1, EmptySeq
  <1>4. QED
    BY <1>1, <1>2, <1>3 DEF Numbers

(* Whatever a frame offers keeps the types.                                   *)
LEMMA OfferTyped ==
  ASSUME ViewTypeOK, Offer
  PROVE  /\ requests' \in Seq(1..MaxLive) /\ Len(requests') <= MaxQueued
         /\ offered' \in 0..MaxLive
         /\ shownAt' \in [before : 0..clock, now : 0..clock, frames : 0..2]
  <1> USE LiveAssumption DEF ViewTypeOK
  <1>1. CASE encoding
    <2>1. /\ offered + 1 \in 1..MaxLive /\ offered' = offered + 1
          /\ requests' = Enqueued(offered + 1) /\ shownAt' = Shown(clock)
      BY <1>1 DEF Offer
    <2>2. requests' \in Seq(1..MaxLive) /\ Len(requests') <= MaxQueued
      BY <2>1, EnqueuedQueue
    <2>3. shownAt' \in [before : 0..clock, now : 0..clock, frames : 0..2]
      BY <2>1 DEF Shown
    <2>4. QED
      BY <2>1, <2>2, <2>3
  <1>2. CASE ~encoding
    BY <1>2 DEF Offer
  <1>3. QED
    BY <1>1, <1>2

LEMMA ViewTypeStep == ViewTypeOK /\ [ViewNext]_viewVars => ViewTypeOK'
  <1> SUFFICES ASSUME ViewTypeOK, [ViewNext]_viewVars PROVE ViewTypeOK'
    OBVIOUS
  <1> USE MaxQueuedAssumption, LiveAssumption
  <1> USE DEF ViewTypeOK, encoderVars, callbackVars, worldVars
  <1>1. CASE UNCHANGED viewVars
    BY <1>1 DEF viewVars
  <1>2. CASE ClockTick
    <2>1. clock' = clock + 1 /\ clock' \in 0..MaxClock
      BY <1>2 DEF ClockTick
    <2>2. 0..clock \subseteq 0..clock'
      BY <2>1
    <2>3. QED
      BY <1>2, <2>1, <2>2 DEF ClockTick
  <1>21. CASE SubscriberStalls \/ SubscriberReads
    BY <1>21 DEF SubscriberStalls, SubscriberReads
  <1>3. CASE FirstFrame
    BY <1>3 DEF FirstFrame
  <1>4. ASSUME NEW raw \in BOOLEAN, LiveFrame(raw) PROVE ViewTypeOK'
    <2>1. CASE raw
      BY <1>4, <2>1, OfferTyped DEF LiveFrame, LetThrough
    <2>2. CASE ~raw
      BY <1>4, <2>2 DEF LiveFrame, LetThrough
    <2>3. QED
      BY <2>1, <2>2
  <1>5. CASE EncoderTop \/ EncoderIdle \/ EncodeFails \/ Encode \/ CallBack
    BY <1>5 DEF EncoderTop, EncoderIdle, EncodeFails, Encode, CallBack
  <1>6. CASE TakeRequest
    <2>1. Tail(requests) \in Seq(1..MaxLive) /\ Len(Tail(requests)) <= MaxQueued
      BY <1>6, TakenRequests DEF TakeRequest
    <2>2. Head(requests) \in 0..MaxLive
      BY <1>6, TakenRequests DEF TakeRequest
    <2>3. QED
      BY <1>6, <2>1, <2>2 DEF TakeRequest
  <1>7. CASE ViewMain
    BY <1>7 DEF ViewMain, StartEncoder, Unsubscribe, StopEncoder, JoinEncoder
  <1>8. QED
    BY <1>1, <1>2, <1>21, <1>3, <1>4, <1>5, <1>6, <1>7
    DEF ViewNext, World, EncoderThread, Subscriber

LEMMA InitView == ViewInit => QInv /\ Paced
  <1> SUFFICES ASSUME ViewInit PROVE QInv /\ Paced
    OBVIOUS
  <1>1. requests = << >> /\ Len(requests) = 0 /\ requests \in Seq(1..MaxLive)
    BY EmptySeq DEF ViewInit
  <1>2. ViewTypeOK
    <2>1. requests \in Seq(1..MaxLive) /\ Len(requests) <= MaxQueued
      BY <1>1, MaxQueuedAssumption
    <2>2. shownAt \in [before : 0..clock, now : 0..clock, frames : 0..2]
      BY DEF ViewInit
    <2>3. /\ picture \in 0..MaxLive /\ ended \in 0..MaxLive /\ offered \in 0..MaxLive
          /\ clock \in 0..MaxClock /\ lastLive \in 0..clock
      BY LiveAssumption DEF ViewInit
    <2>4. /\ viewer \in {"new", "up", "unsubscribed", "stopping", "stopped"}
          /\ encoder \in {"none", "top", "waiting", "encoding", "calling"}
          /\ encoding \in BOOLEAN /\ looked \in BOOLEAN /\ stalled \in BOOLEAN
      BY DEF ViewInit
    <2>5. QED
      BY <2>1, <2>2, <2>3, <2>4 DEF ViewTypeOK
  <1>3. RequestsRecent
    BY <1>1 DEF RequestsRecent
  <1>4. GoneAccounted
    BY <1>1, MaxQueuedAssumption DEF ViewInit, GoneAccounted, DroppedBetween, Gone, InHand
  <1>5. QED
    BY <1>2, <1>3, <1>4 DEF QInv, ViewInit, NotBegun, Paced

LEMMA PacedStep ==
  ViewTypeOK /\ Paced /\ LivePaced /\ [ViewNext]_viewVars => Paced' /\ LivePaced'
  <1> SUFFICES ASSUME ViewTypeOK, Paced, LivePaced, [ViewNext]_viewVars
               PROVE  Paced' /\ LivePaced'
    OBVIOUS
  <1>1. /\ shownAt \in [before : 0..clock, now : 0..clock, frames : 0..2]
        /\ clock \in Nat /\ lastLive \in 0..clock /\ LiveInterval \in Nat
    BY LiveAssumption DEF ViewTypeOK
  <1>2. ASSUME UNCHANGED <<lastLive, shownAt>> PROVE Paced' /\ LivePaced'
    BY <1>2 DEF Paced, LivePaced
  <1>3. ASSUME NEW raw \in BOOLEAN, LiveFrame(raw) PROVE Paced' /\ LivePaced'
    <2>1. /\ lastLive' = clock /\ clock - lastLive >= LiveInterval
          /\ shownAt' = shownAt \/ shownAt' = Shown(clock)
      BY <1>3 DEF LiveFrame, LetThrough, Offer
    <2>2. CASE shownAt' = shownAt
      BY <1>1, <2>1, <2>2 DEF Paced, LivePaced
    <2>3. CASE shownAt' = Shown(clock)
      BY <1>1, <2>1, <2>3 DEF Paced, LivePaced, Shown
    <2>4. QED
      BY <2>1, <2>2, <2>3
  <1>4. CASE FirstFrame
    BY <1>1, <1>4 DEF FirstFrame, Paced, LivePaced
  <1>5. CASE World
    BY <1>2, <1>5 DEF World, ClockTick, SubscriberStalls, SubscriberReads, callbackVars
  <1>6. CASE EncoderThread \/ ViewMain
    BY <1>2, <1>6 DEF EncoderThread, EncoderTop, EncoderIdle, TakeRequest, EncodeFails, Encode,
       CallBack, ViewMain, StartEncoder, Unsubscribe, StopEncoder, JoinEncoder, callbackVars
  <1>7. CASE UNCHANGED viewVars
    BY <1>2, <1>7 DEF viewVars, callbackVars
  <1>8. QED
    BY <1>3, <1>4, <1>5, <1>6, <1>7 DEF ViewNext, Subscriber

-----------------------------------------------------------------------------
(* The refinement, step by step.                                              *)

LEMMA GoneIsNat == QInv => /\ Gone \in Nat /\ Len(requests) \in Nat /\ offered \in Nat
                           /\ picture \in Nat /\ ended \in Nat /\ Len(requests) <= MaxQueued
  <1> SUFFICES ASSUME QInv PROVE /\ Gone \in Nat /\ Len(requests) \in Nat /\ offered \in Nat
                                 /\ picture \in Nat /\ ended \in Nat
                                 /\ Len(requests) <= MaxQueued
    OBVIOUS
  <1>1. /\ Len(requests) \in Nat /\ offered \in Nat /\ picture \in Nat /\ ended \in Nat
        /\ Len(requests) <= MaxQueued
    BY LenProperties, LiveAssumption DEF QInv, ViewTypeOK
  <1>2. Gone \in Int
    BY <1>1 DEF Gone
  <1>3. QED
    BY <1>1, <1>2 DEF QInv, GoneAccounted

(* An enqueue moves the front of the queue only when it drops the oldest request.  *)
LEMMA OfferKeeps ==
  ASSUME QInv, Offer, UNCHANGED <<encoder, picture, ended>>
  PROVE  /\ RequestsRecent' /\ GoneAccounted'
         /\ ViewFifo!Offer \/ UNCHANGED <<offered, ended>>
  <1> USE MaxQueuedAssumption
  <1>1. CASE ~encoding
    <2>1. UNCHANGED <<offered, requests, encoder, picture, ended>>
      BY <1>1 DEF Offer
    <2>2. QED
      BY <2>1 DEF QInv, RequestsRecent, GoneAccounted, DroppedBetween, Gone, InHand
  <1>2. CASE encoding
    <2>1. /\ requests' = Enqueued(offered + 1) /\ offered' = offered + 1
          /\ UNCHANGED <<encoder, picture, ended>>
      BY <1>2 DEF Offer
    <2>2. offered + 1 \in 1..MaxLive
      BY <1>2, LiveAssumption DEF Offer, QInv, ViewTypeOK
    <2>3. /\ Len(requests') = IF Len(requests) >= MaxQueued THEN Len(requests)
                                                           ELSE Len(requests) + 1
          /\ requests'[Len(requests')] = offered + 1
          /\ \A i \in 1..(Len(requests') - 1) :
               requests'[i] = IF Len(requests) >= MaxQueued THEN requests[i + 1] ELSE requests[i]
      BY <2>1, <2>2, EnqueuedQueue DEF QInv
    <2>4. /\ Len(requests) \in Nat /\ Len(requests) <= MaxQueued /\ offered \in Nat
          /\ picture \in Nat /\ ended \in Nat /\ Gone \in Nat /\ MaxQueued \in Nat
      BY GoneIsNat
    <2>5. /\ Len(requests') \in Nat /\ offered' = offered + 1
          /\ Gone' = offered' - Len(requests') /\ Gone = offered - Len(requests)
      BY <2>1, <2>3, <2>4 DEF Gone
    <2>6. RequestsRecent'
      <3>1. ASSUME NEW i \in 1..Len(requests') PROVE requests'[i] = Gone' + i
        <4>1. CASE i = Len(requests')
          BY <4>1, <2>3, <2>4, <2>5
        <4>2. CASE i # Len(requests') /\ Len(requests) >= MaxQueued
          <5>1. i \in 1..(Len(requests') - 1) /\ i + 1 \in 1..Len(requests)
            BY <4>2, <2>3, <2>4
          <5>2. requests'[i] = Gone + (i + 1)
            BY <4>2, <5>1, <2>3 DEF QInv, RequestsRecent
          <5>3. QED
            BY <4>2, <5>2, <2>3, <2>4, <2>5
        <4>3. CASE i # Len(requests') /\ ~(Len(requests) >= MaxQueued)
          <5>1. i \in 1..(Len(requests') - 1) /\ i \in 1..Len(requests)
            BY <4>3, <2>3, <2>4
          <5>2. requests'[i] = Gone + i
            BY <4>3, <5>1, <2>3 DEF QInv, RequestsRecent
          <5>3. QED
            BY <4>3, <5>2, <2>3, <2>4, <2>5
        <4>4. QED
          BY <4>1, <4>2, <4>3
      <3>2. QED
        BY <3>1 DEF RequestsRecent
    <2>7. \/ Gone' = Gone
          \/ Gone' = Gone + 1 /\ Gone + 1 + MaxQueued <= offered'
      <3>1. CASE Len(requests) >= MaxQueued
        <4>1. Len(requests) = MaxQueued /\ Len(requests') = MaxQueued
          BY <3>1, <2>3, <2>4
        <4>2. QED
          BY <4>1, <2>4, <2>5
      <3>2. CASE ~(Len(requests) >= MaxQueued)
        <4>1. Len(requests') = Len(requests) + 1
          BY <3>2, <2>3
        <4>2. Gone' = Gone
          BY <4>1, <2>4, <2>5
        <4>3. QED
          BY <4>2
      <3>3. QED
        BY <3>1, <3>2
    <2>8. GoneAccounted'
      <3>1. GoneAccounted /\ UNCHANGED <<encoder, picture, ended>>
        BY <2>1 DEF QInv
      <3>2. \A p, q \in Nat :
              DroppedBetween(p, q) =>
                \A m \in Nat : p < m /\ m < q => m + MaxQueued <= offered'
        BY <2>4, <2>5 DEF DroppedBetween
      <3>3. \A p \in Nat :
              DroppedBetween(p, Gone + 1) =>
                \A m \in Nat : p < m /\ m < Gone' + 1 => m + MaxQueued <= offered'
        <4>1. SUFFICES ASSUME NEW p \in Nat, DroppedBetween(p, Gone + 1), NEW m \in Nat,
                              p < m, m < Gone' + 1
                       PROVE  m + MaxQueued <= offered'
          OBVIOUS
        <4>2. CASE m < Gone + 1
          BY <2>4, <2>5, <4>1, <4>2 DEF DroppedBetween
        <4>3. CASE ~(m < Gone + 1)
          <5>1. m = Gone + 1 /\ Gone + 1 + MaxQueued <= offered'
            BY <2>4, <2>7, <4>1, <4>3
          <5>2. QED
            BY <5>1
        <4>4. QED
          BY <4>2, <4>3
      <3>4. CASE InHand
        <4>1. /\ ended < picture /\ picture <= Gone
              /\ DroppedBetween(ended, picture) /\ DroppedBetween(picture, Gone + 1)
          BY <3>1, <3>4 DEF GoneAccounted
        <4>2. InHand' /\ ended' < picture' /\ picture' <= Gone'
          BY <2>4, <2>7, <3>1, <3>4, <4>1 DEF InHand
        <4>3. DroppedBetween(ended, picture)' /\ DroppedBetween(picture, Gone + 1)'
          BY <2>4, <3>1, <3>2, <3>3, <4>1 DEF DroppedBetween
        <4>4. QED
          BY <4>2, <4>3 DEF GoneAccounted
      <3>5. CASE ~InHand
        <4>1. ended <= Gone /\ DroppedBetween(ended, Gone + 1)
          BY <3>1, <3>5 DEF GoneAccounted
        <4>2. ~InHand' /\ ended' <= Gone'
          BY <2>4, <2>7, <3>1, <3>5, <4>1 DEF InHand
        <4>3. DroppedBetween(ended, Gone + 1)'
          BY <2>4, <3>1, <3>3, <4>1 DEF DroppedBetween
        <4>4. QED
          BY <4>2, <4>3 DEF GoneAccounted
      <3>6. QED
        BY <3>4, <3>5
    <2>9. QED
      BY <2>1, <2>6, <2>8 DEF ViewFifo!Offer
  <1>3. QED
    BY <1>1, <1>2

LEMMA TakeKeeps ==
  ASSUME QInv, TakeRequest
  PROVE  RequestsRecent' /\ GoneAccounted'
  <1>1. /\ picture' = requests[1] /\ requests' = Tail(requests)
        /\ Len(requests') = Len(requests) - 1 /\ Len(requests) >= 1
        /\ \A i \in 1..Len(requests') : requests'[i] = requests[i + 1]
        /\ InHand' /\ ~InHand /\ UNCHANGED <<offered, ended>>
    BY TakenRequests DEF QInv, TakeRequest, InHand, callbackVars
  <1>2. offered \in Nat /\ ended \in Nat /\ Len(requests) \in Nat /\ Gone \in Nat
    BY GoneIsNat
  <1>3. Gone' = Gone + 1
    <2>1. Gone' = offered' - Len(requests') /\ Gone = offered - Len(requests)
      BY DEF Gone
    <2>2. Len(requests') = Len(requests) - 1 /\ offered' = offered
      BY <1>1
    <2>3. QED
      BY <2>1, <2>2, <1>2
  <1>4. RequestsRecent'
    <2>1. ASSUME NEW i \in 1..Len(requests') PROVE requests'[i] = Gone' + i
      <3>1. i + 1 \in 1..Len(requests)
        BY <1>1, <1>2
      <3>2. requests'[i] = Gone + (i + 1)
        BY <1>1, <3>1 DEF QInv, RequestsRecent
      <3>3. QED
        BY <1>2, <1>3, <3>2
    <2>2. QED
      BY <2>1 DEF RequestsRecent
  <1>5. picture' = Gone + 1
    BY <1>1, <1>2 DEF QInv, RequestsRecent
  <1>6. ended <= Gone /\ DroppedBetween(ended, Gone + 1)
    BY <1>1 DEF QInv, GoneAccounted
  <1>7. ended' < picture' /\ picture' <= Gone'
    BY <1>1, <1>2, <1>3, <1>5, <1>6
  <1>8. /\ \A m \in Nat : ended' < m /\ m < picture' => m + MaxQueued <= offered'
        /\ \A m \in Nat : picture' < m /\ m < Gone' + 1 => m + MaxQueued <= offered'
    BY <1>1, <1>2, <1>3, <1>5, <1>6 DEF DroppedBetween
  <1>9. GoneAccounted'
    BY <1>1, <1>7, <1>8 DEF GoneAccounted, DroppedBetween
  <1>10. QED
    BY <1>4, <1>9

(* The picture that is through is a later one, and those between were dropped.     *)
LEMMA ThroughKeeps ==
  ASSUME QInv, EncodeFails \/ CallBack
  PROVE  RequestsRecent' /\ GoneAccounted' /\ ViewFifo!Serve
  <1>1. InHand /\ ~InHand' /\ ended' = picture /\ UNCHANGED <<requests, offered>>
    BY DEF EncodeFails, CallBack, InHand, callbackVars
  <1>2. /\ offered \in Nat /\ ended \in Nat /\ picture \in Nat /\ Len(requests) \in Nat
        /\ ended < picture /\ picture <= Gone
        /\ DroppedBetween(ended, picture) /\ DroppedBetween(picture, Gone + 1)
    BY <1>1, GoneIsNat DEF QInv, GoneAccounted
  <1>3. RequestsRecent'
    BY <1>1 DEF QInv, RequestsRecent, Gone
  <1>4. GoneAccounted'
    BY <1>1, <1>2 DEF GoneAccounted, DroppedBetween, Gone
  <1>5. picture \in (ended + 1)..offered
    BY <1>2 DEF Gone
  <1>6. \A m \in (ended + 1)..(picture - 1) : m + MaxQueued <= offered
    BY <1>2 DEF DroppedBetween
  <1>7. ViewFifo!Serve
    BY <1>1, <1>5, <1>6 DEF ViewFifo!Serve
  <1>8. QED
    BY <1>3, <1>4, <1>7

LEMMA QInvStep == QInv /\ [ViewNext]_viewVars => QInv' /\ [ViewFifo!Next]_(ViewFifo!vars)
  <1> SUFFICES ASSUME QInv, [ViewNext]_viewVars
               PROVE  QInv' /\ [ViewFifo!Next]_(ViewFifo!vars)
    OBVIOUS
  <1>1. ViewTypeOK' /\ NotBegun'
    <2>1. ViewTypeOK'
      BY ViewTypeStep DEF QInv
    <2>2. viewer' = "new" => viewer = "new" /\ encoder' = encoder
      BY DEF QInv, NotBegun, ViewNext, EncoderThread, Subscriber, ViewMain, viewVars,
             encoderVars, World, ClockTick, SubscriberStalls, SubscriberReads, LiveFrame, FirstFrame, StartEncoder, Unsubscribe,
             StopEncoder, JoinEncoder, EncoderTop, EncoderIdle, TakeRequest, EncodeFails,
             Encode, CallBack
    <2>3. QED
      BY <2>1, <2>2 DEF QInv, NotBegun
  <1>2. ASSUME NEW raw \in BOOLEAN, LiveFrame(raw)
        PROVE  QInv' /\ [ViewFifo!Next]_(ViewFifo!vars)
    <2>1. UNCHANGED <<encoder, picture, ended>>
      BY <1>2 DEF LiveFrame
    <2>2. CASE raw
      BY <1>1, <1>2, <2>1, <2>2, OfferKeeps
      DEF LiveFrame, LetThrough, QInv, ViewFifo!Next, ViewFifo!vars
    <2>3. CASE ~raw
      BY <1>1, <1>2, <2>1, <2>3 DEF LiveFrame, LetThrough, QInv, RequestsRecent, GoneAccounted,
         DroppedBetween, Gone, InHand, ViewFifo!vars
    <2>4. QED
      BY <2>2, <2>3
  <1>3. CASE TakeRequest
    BY <1>1, <1>3, TakeKeeps DEF QInv, TakeRequest, ViewFifo!vars, callbackVars
  <1>4. CASE EncodeFails \/ CallBack
    BY <1>1, <1>4, ThroughKeeps DEF QInv, ViewFifo!Next
  <1>5. ASSUME UNCHANGED <<requests, offered, picture, ended>>, InHand' = InHand
        PROVE  QInv' /\ [ViewFifo!Next]_(ViewFifo!vars)
    BY <1>1, <1>5 DEF QInv, RequestsRecent, GoneAccounted, DroppedBetween, Gone, ViewFifo!vars
  <1>6. CASE EncoderTop \/ EncoderIdle \/ Encode
    BY <1>5, <1>6 DEF EncoderTop, EncoderIdle, Encode, InHand, callbackVars
  <1>7. CASE FirstFrame \/ World
    BY <1>5, <1>7 DEF FirstFrame, World, ClockTick, SubscriberStalls, SubscriberReads,
       encoderVars, callbackVars, InHand
  <1>8. CASE StartEncoder
    BY <1>5, <1>8 DEF StartEncoder, callbackVars, InHand, QInv, NotBegun
  <1>9. CASE Unsubscribe \/ StopEncoder \/ JoinEncoder
    BY <1>5, <1>9 DEF Unsubscribe, StopEncoder, JoinEncoder, encoderVars, callbackVars, InHand
  <1>10. CASE UNCHANGED viewVars
    BY <1>5, <1>10 DEF viewVars, encoderVars, callbackVars, InHand
  <1>11. QED
    BY <1>2, <1>3, <1>4, <1>6, <1>7, <1>8, <1>9, <1>10
    DEF ViewNext, EncoderThread, Subscriber, ViewMain

-----------------------------------------------------------------------------
(* Every variable of the live view keeps its type, and queue_ of ImageEncoder stays    *)
(* within MAX_QUEUE.                                                         *)
THEOREM ViewTypeCorrect == ViewSpec => []ViewTypeOK
  <1>1. ViewInit => ViewTypeOK
    BY InitView DEF QInv
  <1>2. QED
    BY <1>1, ViewTypeStep, PTL DEF ViewSpec

(* For every interval, two frames that reach the encoder are that far apart: no frame   *)
(* that is let through finds an older time stamp than the one before left.          *)
THEOREM LiveViewPaced == ViewSpec => []LivePaced
  <1>1. ViewInit => ViewTypeOK /\ Paced /\ LivePaced
    BY InitView DEF QInv, ViewInit, LivePaced
  <1>2. ViewTypeOK /\ Paced /\ LivePaced /\ [ViewNext]_viewVars
          => ViewTypeOK' /\ Paced' /\ LivePaced'
    BY ViewTypeStep, PacedStep
  <1>3. QED
    BY <1>1, <1>2, PTL DEF ViewSpec

(* For every MAX_QUEUE of at least one, pictures leave the encoder in the order they     *)
(* were let through, at most once, and one is passed over only when MAX_QUEUE later      *)
(* ones came before its turn.                                                 *)
THEOREM LiveViewIsLossyFifo == ViewSpec => ViewImplementsLossyFifo
  <1>1. ViewInit => QInv /\ ViewFifo!Init
    BY InitView DEF ViewInit, ViewFifo!Init
  <1>2. QInv /\ [ViewNext]_viewVars => QInv' /\ [ViewFifo!Next]_(ViewFifo!vars)
    BY QInvStep
  <1>3. QED
    BY <1>1, <1>2, PTL DEF ViewSpec, ViewImplementsLossyFifo, ViewFifo!Spec
=============================================================================
