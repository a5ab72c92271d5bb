---------------------------- MODULE FramePathProofs ----------------------------
(***************************************************************************)
(* Proofs about FramePath for every capacity, interval and number of sessions:  *)
(* its types, how many frames of earlier sessions a session uses, the pace of    *)
(* an installation, and the order of frames.                                  *)
(***************************************************************************)
EXTENDS FramePath, TLAPS

(* There is a capture thread only between a start and the join of its stop, and   *)
(* it has a frame in its hands from the dequeue to the end of the pass.          *)
Threads ==
  /\ api \in {"none", "starting", "joined"} => thread = "none"
  /\ hand # NoFrame <=> thread \in {"deciding", "sending"}

(* The number of the newest frame the loop has dequeued.                       *)
Past == IF hand = NoFrame THEN used.n ELSE hand.n

(* Frames lie in the order in which they were received from the frame used last,  *)
(* over the one in hand and the queue, to the subscriber's.                     *)
Ordered ==
  /\ FramesInOrder
  /\ Past <= received
  /\ \A i \in 1..Len(queue) : Past < queue[i].n /\ queue[i].n <= received
  /\ \A i, j \in 1..Len(queue) : i < j => queue[i].n < queue[j].n
  /\ frame # NoFrame => /\ Past < frame.n /\ frame.n = received
                        /\ \A i \in 1..Len(queue) : queue[i].n < frame.n

(* last_ai_send is when the pace began, but for an installation pair that has     *)
(* been accepted and not yet sent.                                           *)
Paced ==
  /\ paceFrom <= now
  /\ thread \in {"top", "waiting", "deciding"} => lastSend = paceFrom
  /\ thread = "sending" => IF paced THEN lastSend - paceFrom >= Interval
                                    ELSE lastSend = paceFrom
  /\ InstallationPaced

(* The frames of earlier sessions that this session has used or may still use:    *)
(* the first k of the queue, the one in hand, and the subscriber's.  A frame that *)
(* the subscriber has kept from an earlier session is still its newest.          *)
Old(f) == IF f # NoFrame /\ f.session < session THEN 1 ELSE 0
OldFrames ==
  /\ frame.session <= session /\ hand.session <= session
  /\ \A i \in 1..Len(queue) :
       /\ queue[i].session <= session
       /\ frame # NoFrame => queue[i].session <= frame.session
  /\ \E k \in 0..Len(queue) :
       /\ \A i \in (k + 1)..Len(queue) : queue[i].session = session
       /\ stale + k + Old(hand) + Old(frame) <= Cap + 1

FInv == TypeOK /\ Threads /\ Ordered /\ Paced /\ OldFrames

-----------------------------------------------------------------------------
(* What Take leaves in the queue, and what Enqueue adds to it.                 *)
LEMMA TailOf ==
  ASSUME NEW S, NEW q \in Seq(S), q # <<>>
  PROVE  /\ Head(q) \in S /\ Head(q) = q[1] /\ Tail(q) \in Seq(S)
         /\ Len(Tail(q)) = Len(q) - 1 /\ Len(q) \in Nat \ {0}
         /\ \A i \in 1..(Len(q) - 1) : Tail(q)[i] = q[i + 1]
  OBVIOUS

LEMMA AppendOf ==
  ASSUME NEW S, NEW q \in Seq(S), NEW x \in S
  PROVE  /\ Append(q, x) \in Seq(S) /\ Len(Append(q, x)) = Len(q) + 1
         /\ \A i \in 1..Len(q) : Append(q, x)[i] = q[i]
         /\ Append(q, x)[Len(q) + 1] = x /\ Len(q) \in Nat
  OBVIOUS

LEMMA FramesTyped ==
  ASSUME NEW f \in Frames
  PROVE  /\ f.n \in Nat /\ f.n <= MaxFrames /\ f.session \in Nat
         /\ Old(f) \in 0..1 /\ f.n > 0 => f # NoFrame
  BY BoundsAssumption DEF Frames, NoFrame, Old

LEMMA Initially == Init => FInv
  <1> SUFFICES ASSUME Init PROVE FInv
    OBVIOUS
  <1>1. TypeOK
    <2>1. NoFrame \in Frames
      BY BoundsAssumption DEF Frames, NoFrame
    <2>2. NotUsed \in Uses
      BY BoundsAssumption DEF Uses, NotUsed, Fates
    <2>3. queue \in Seq(Frames) /\ Len(queue) <= Cap
      BY CapAssumption DEF Init
    <2>4. paused \in BOOLEAN /\ running \in BOOLEAN /\ paced \in BOOLEAN
      BY DEF Init
    <2>5. QED
      BY <2>1, <2>2, <2>3, <2>4, BoundsAssumption DEF Init, TypeOK, SubTasks
  <1>2. Threads /\ Ordered /\ Paced
    BY DEF Init, Threads, Ordered, FramesInOrder, Past, Paced, InstallationPaced, NoFrame, NotUsed
  <1>3. OldFrames
    <2>1. queue = <<>> /\ Len(queue) = 0
      BY DEF Init
    <2>2. frame = NoFrame /\ hand = NoFrame /\ session = 0 /\ stale = 0
      BY DEF Init
    <2>3. 0 \in 0..Len(queue) /\ stale + 0 + Old(hand) + Old(frame) <= Cap + 1
      BY <2>1, <2>2, CapAssumption DEF Old
    <2>4. QED
      BY <2>1, <2>2, <2>3 DEF OldFrames, NoFrame
  <1>4. QED
    BY <1>1, <1>2, <1>3 DEF FInv

-----------------------------------------------------------------------------
(* The subscriber's steps.                                                  *)
LEMMA ReceiveStep == FInv /\ Receive => FInv'
  <1> SUFFICES ASSUME FInv, Receive PROVE FInv'
    OBVIOUS
  <1> USE DEF FInv, Receive, flags, loopVars, history, apiVars
  <1>1. TypeOK'
    BY BoundsAssumption DEF TypeOK, Frames, NoFrame
  <1>2. Threads' /\ Paced'
    BY DEF Threads, Paced, InstallationPaced
  <1>3. used.n \in Nat /\ hand.n \in Nat
    BY BoundsAssumption DEF TypeOK, Uses, Frames
  <1>4. Past' = Past /\ Past \in Nat
    BY <1>3 DEF Past
  <1>5. \A i \in 1..Len(queue) : queue[i] \in Frames
    BY DEF TypeOK
  <1>6. Ordered'
    BY <1>4, <1>5, FramesTyped, BoundsAssumption
    DEF Ordered, FramesInOrder, TypeOK, NoFrame
  <1>7. OldFrames'
    <2>1. Old(frame)' = 0 /\ Old(frame) = 0 /\ Old(hand)' = Old(hand)
      BY BoundsAssumption DEF Old, TypeOK, NoFrame
    <2>2. frame'.session <= session
      BY BoundsAssumption DEF TypeOK, NoFrame
    <2>3. \A i \in 1..Len(queue) : frame' # NoFrame => queue[i].session <= frame'.session
      BY DEF OldFrames, NoFrame
    <2>4. QED
      BY <2>1, <2>2, <2>3 DEF OldFrames
  <1>8. QED
    BY <1>1, <1>2, <1>6, <1>7

LEMMA EnqueueStep == FInv /\ Enqueue => FInv'
  <1> SUFFICES ASSUME FInv, Enqueue PROVE FInv'
    OBVIOUS
  <1> USE DEF FInv, Enqueue, flags, loopVars, history, apiVars
  <1>0. frame \in Frames /\ queue \in Seq(Frames) /\ Len(queue) <= Cap /\ Len(queue) \in Nat
    BY DEF TypeOK
  <1>01. used.n \in Nat /\ hand.n \in Nat /\ received \in Nat /\ session \in Nat /\ stale \in Nat
    BY BoundsAssumption DEF TypeOK, Uses, Frames
  <1>02. Past' = Past /\ Past \in Nat
    BY <1>01 DEF Past
  <1>03. \A i \in 1..Len(queue) : queue[i] \in Frames
    BY <1>0
  <1>04. frame.n \in Nat /\ frame.session \in Nat /\ Old(frame) \in 0..1 /\ Old(hand) \in 0..1
    BY <1>0, FramesTyped DEF Old
  <1>05. Old(frame)' = 0 /\ Old(hand)' = Old(hand)
    BY DEF Old
  <1>1. CASE Len(queue) >= Cap
    <2>1. queue' = queue
      BY <1>1 DEF Queued
    <2>2. TypeOK'
      BY <2>1, BoundsAssumption DEF TypeOK, Frames, NoFrame
    <2>3. Threads' /\ Paced'
      BY DEF Threads, Paced, InstallationPaced
    <2>4. Ordered'
      BY <2>1, <1>02 DEF Ordered, FramesInOrder
    <2>5. OldFrames'
      <3>1. PICK k \in 0..Len(queue) :
              /\ \A i \in (k + 1)..Len(queue) : queue[i].session = session
              /\ stale + k + Old(hand) + Old(frame) <= Cap + 1
        BY DEF OldFrames
      <3>2. stale + k + Old(hand) + 0 <= Cap + 1
        BY <3>1, <1>0, <1>01, <1>04, CapAssumption
      <3>3. frame'.session <= session
        BY <1>01 DEF NoFrame
      <3>4. QED
        BY <2>1, <3>1, <3>2, <3>3, <1>05 DEF OldFrames
    <2>6. QED
      BY <2>2, <2>3, <2>4, <2>5
  <1>2. CASE ~(Len(queue) >= Cap)
    <2>1. queue' = Append(queue, frame)
      BY <1>2 DEF Queued
    <2>2. /\ queue' \in Seq(Frames) /\ Len(queue') = Len(queue) + 1
          /\ \A i \in 1..Len(queue) : queue'[i] = queue[i]
          /\ queue'[Len(queue) + 1] = frame
      BY <2>1, <1>0, AppendOf
    <2>3. TypeOK'
      <3>1. Len(queue') <= Cap
        BY <1>2, <2>2, <1>0, CapAssumption
      <3>2. QED
        BY <2>2, <3>1, BoundsAssumption DEF TypeOK, Frames, NoFrame
    <2>4. Threads' /\ Paced'
      BY DEF Threads, Paced, InstallationPaced
    <2>5. Ordered'
      <3>1. \A i \in 1..Len(queue') : i \in 1..Len(queue) \/ i = Len(queue) + 1
        BY <2>2, <1>0
      <3>2. \A i \in 1..Len(queue') : Past < queue'[i].n /\ queue'[i].n <= received
        BY <3>1, <2>2, <1>01 DEF Ordered
      <3>3. \A i, j \in 1..Len(queue') : i < j => queue'[i].n < queue'[j].n
        <4> TAKE i, j \in 1..Len(queue')
        <4> HAVE i < j
        <4>1. i \in 1..Len(queue)
          BY <2>2, <1>0
        <4>2. QED
          BY <4>1, <3>1, <2>2 DEF Ordered
      <3>4. QED
        BY <3>2, <3>3, <1>02 DEF Ordered, FramesInOrder
    <2>6. OldFrames'
      <3>1. PICK k \in 0..Len(queue) :
              /\ \A i \in (k + 1)..Len(queue) : queue[i].session = session
              /\ stale + k + Old(hand) + Old(frame) <= Cap + 1
        BY DEF OldFrames
      <3>2. \A i \in 1..Len(queue') : queue'[i].session <= session
        BY <2>2, <1>0 DEF OldFrames
      <3>3. frame'.session <= session /\ frame' = NoFrame
        BY <1>01 DEF NoFrame
      <3>4. CASE frame.session < session
        <4>1. Old(frame) = 1
          BY <3>4 DEF Old
        <4>2. k = Len(queue)
          <5>1. SUFFICES ASSUME k # Len(queue) PROVE FALSE
            OBVIOUS
          <5>2. Len(queue) \in (k + 1)..Len(queue) /\ Len(queue) \in 1..Len(queue)
            BY <5>1, <1>0
          <5>3. queue[Len(queue)].session = session /\ queue[Len(queue)].session <= frame.session
            BY <5>2, <3>1 DEF OldFrames
          <5>4. QED
            BY <5>3, <3>4, <1>01, <1>04
        <4> DEFINE m == Len(queue) + 1
        <4>3. m \in 0..Len(queue') /\ stale + m + Old(hand) + 0 <= Cap + 1
          BY <4>1, <4>2, <3>1, <2>2, <1>0, <1>01, <1>04, CapAssumption
        <4>4. \A i \in (m + 1)..Len(queue') : queue'[i].session = session
          BY <2>2, <1>0
        <4>5. QED
          BY <4>3, <4>4, <3>2, <3>3, <1>05 DEF OldFrames
      <3>5. CASE ~(frame.session < session)
        <4>1. frame.session = session /\ Old(frame) = 0
          BY <3>5, <1>01, <1>04 DEF OldFrames, Old
        <4>2. \A i \in (k + 1)..Len(queue') : queue'[i].session = session
          BY <4>1, <3>1, <2>2, <1>0
        <4>3. k \in 0..Len(queue') /\ stale + k + Old(hand) + 0 <= Cap + 1
          BY <4>1, <3>1, <2>2, <1>0
        <4>4. QED
          BY <4>2, <4>3, <3>2, <3>3, <1>05 DEF OldFrames
      <3>6. QED
        BY <3>4, <3>5
    <2>7. QED
      BY <2>3, <2>4, <2>5, <2>6
  <1>3. QED
    BY <1>1, <1>2

-----------------------------------------------------------------------------
(* The capture thread's steps.                                              *)

(* Steps that leave the queue and every frame where they are.                  *)
LEMMA NothingMoves ==
  ASSUME FInv, UNCHANGED <<received, frame, queue, hand, used, session, stale>>
  PROVE  Ordered' /\ OldFrames'
  <1>1. Past' = Past
    BY DEF Past
  <1>2. Ordered'
    BY <1>1 DEF FInv, Ordered, FramesInOrder
  <1>3. Old(frame)' = Old(frame) /\ Old(hand)' = Old(hand)
    BY DEF Old
  <1>4. OldFrames'
    BY <1>3 DEF FInv, OldFrames
  <1>5. QED
    BY <1>2, <1>4

LEMMA LoopSteps == FInv /\ (LoopBegin \/ LoopTop \/ WaitTimeout \/ Accept) => FInv'
  <1> SUFFICES ASSUME FInv, LoopBegin \/ LoopTop \/ WaitTimeout \/ Accept PROVE FInv'
    OBVIOUS
  <1> USE DEF FInv, subscriberVars, flags, history, apiVars
  <1>1. Ordered' /\ OldFrames'
    BY NothingMoves DEF LoopBegin, LoopTop, WaitTimeout, Accept, KeepPace
  <1>2. CASE LoopBegin
    BY <1>1, <1>2, BoundsAssumption
    DEF LoopBegin, TypeOK, Threads, Paced, InstallationPaced
  <1>3. CASE LoopTop
    BY <1>1, <1>3, BoundsAssumption
    DEF LoopTop, TypeOK, Threads, Paced, InstallationPaced
  <1>4. CASE WaitTimeout
    BY <1>1, <1>4 DEF WaitTimeout, TypeOK, Threads, Paced, InstallationPaced
  <1>5. CASE Accept
    <2>1. TypeOK' /\ Threads'
      BY <1>5, BoundsAssumption DEF Accept, KeepPace, TypeOK, Threads
    <2>2. now \in Nat /\ lastSend \in Nat /\ lastSend = paceFrom
      BY <1>5, BoundsAssumption DEF Accept, TypeOK, Paced
    <2>3. subTask = "Installation" => now - paceFrom >= Interval
      BY <1>5, <2>2, IntervalAssumption DEF Accept, TooSoon
    <2>4. Paced'
      BY <1>5, <2>2, <2>3 DEF Accept, KeepPace, Paced, InstallationPaced
    <2>5. QED
      BY <1>1, <2>1, <2>4
  <1>6. QED
    BY <1>2, <1>3, <1>4, <1>5

LEMMA TakeStep == FInv /\ Take => FInv'
  <1> SUFFICES ASSUME FInv, Take PROVE FInv'
    OBVIOUS
  <1> USE DEF FInv, Take, subscriberVars, flags, history, apiVars
  <1>1. queue \in Seq(Frames) /\ queue # <<>> /\ queue' = Tail(queue) /\ hand' = Head(queue)
    BY DEF TypeOK, Rest
  <1>2. /\ hand' \in Frames /\ hand' = queue[1] /\ queue' \in Seq(Frames)
        /\ Len(queue') = Len(queue) - 1 /\ Len(queue) \in Nat \ {0}
        /\ \A i \in 1..Len(queue') : queue'[i] = queue[i + 1]
    BY <1>1, TailOf
  <1>3. used.n \in Nat /\ received \in Nat /\ session \in Nat /\ stale \in Nat
    BY BoundsAssumption DEF TypeOK, Uses
  <1>4. hand = NoFrame /\ Past = used.n
    BY DEF Threads, Past
  <1>5. used.n < hand'.n /\ hand'.n <= received /\ hand' # NoFrame /\ Past' = hand'.n
    BY <1>2, <1>3, <1>4 DEF Ordered, Past, NoFrame
  <1>6. TypeOK'
    BY <1>2, CapAssumption DEF TypeOK
  <1>7. Threads' /\ Paced'
    BY <1>5 DEF Threads, Paced, InstallationPaced
  <1>8. Ordered'
    <2>1. FramesInOrder' /\ Past' <= received'
      BY <1>5 DEF FramesInOrder
    <2>2. \A i \in 1..Len(queue') : i + 1 \in 1..Len(queue) /\ 1 \in 1..Len(queue)
      BY <1>2
    <2>3. \A i \in 1..Len(queue') : Past' < queue'[i].n /\ queue'[i].n <= received
      <3> TAKE i \in 1..Len(queue')
      <3>1. /\ i + 1 \in 1..Len(queue) /\ 1 \in 1..Len(queue) /\ 1 < i + 1
            /\ queue'[i] = queue[i + 1]
        BY <2>2, <1>2
      <3>2. queue[1].n < queue[i + 1].n /\ queue[i + 1].n <= received
        BY <3>1 DEF Ordered
      <3>3. QED
        BY <1>2, <1>5, <3>1, <3>2
    <2>4. \A i, j \in 1..Len(queue') : i < j => queue'[i].n < queue'[j].n
      <3> TAKE i, j \in 1..Len(queue')
      <3> HAVE i < j
      <3>1. i + 1 < j + 1 /\ i + 1 \in 1..Len(queue) /\ j + 1 \in 1..Len(queue)
        BY <2>2
      <3>2. queue[i + 1].n < queue[j + 1].n
        BY <3>1 DEF Ordered
      <3>3. QED
        BY <3>2, <1>2
    <2>5. frame # NoFrame => /\ Past' < frame.n /\ frame.n = received
                             /\ \A i \in 1..Len(queue') : queue'[i].n < frame.n
      BY <2>2, <1>2, <1>5 DEF Ordered
    <2>6. QED
      BY <2>1, <2>3, <2>4, <2>5 DEF Ordered
  <1>9. OldFrames'
    <2>1. PICK k \in 0..Len(queue) :
            /\ \A i \in (k + 1)..Len(queue) : queue[i].session = session
            /\ stale + k + Old(hand) + Old(frame) <= Cap + 1
      BY DEF OldFrames
    <2>2. Old(hand) = 0 /\ Old(frame)' = Old(frame) /\ Old(frame) \in 0..1 /\ Old(hand)' \in 0..1
      BY <1>4 DEF Old
    <2>3. \A i \in 1..Len(queue') : i + 1 \in 1..Len(queue)
      BY <1>2
    <2>4. /\ hand'.session <= session
          /\ \A i \in 1..Len(queue') :
               /\ queue'[i].session <= session
               /\ frame # NoFrame => queue'[i].session <= frame.session
      <3>1. \A i \in 1..Len(queue) :
              /\ queue[i].session <= session
              /\ frame # NoFrame => queue[i].session <= frame.session
        BY DEF OldFrames
      <3>2. hand' = queue[1] /\ 1 \in 1..Len(queue)
        BY <1>2
      <3> HIDE DEF FInv, Take
      <3>3. hand'.session <= session
        BY <3>1, <3>2
      <3>4. ASSUME NEW i \in 1..Len(queue')
            PROVE  /\ queue'[i].session <= session
                   /\ frame # NoFrame => queue'[i].session <= frame.session
        <4>1. queue'[i] = queue[i + 1] /\ i + 1 \in 1..Len(queue)
          BY <1>2, <2>3
        <4>2. QED
          BY <3>1, <4>1
      <3>5. QED
        BY <3>3, <3>4
    <2>5. CASE k = 0
      <3>1. hand'.session = session
        BY <2>1, <2>5, <1>2
      <3>2. Old(hand)' = 0
        BY <3>1, <1>3 DEF Old
      <3>3. \A i \in (k + 1)..Len(queue') : queue'[i].session = session
        BY <2>1, <2>5, <1>2
      <3>4. k \in 0..Len(queue') /\ stale + k + Old(hand)' + Old(frame)' <= Cap + 1
        BY <2>1, <2>2, <2>5, <3>2, <1>2
      <3>5. QED
        BY <2>4, <3>3, <3>4 DEF OldFrames
    <2>6. CASE k # 0
      <3> DEFINE m == k - 1
      <3>1. \A i \in (m + 1)..Len(queue') : queue'[i].session = session
        BY <2>1, <2>6, <1>2
      <3>2. m \in 0..Len(queue') /\ stale + m + Old(hand)' + Old(frame)' <= Cap + 1
        BY <2>1, <2>2, <2>6, <1>2, <1>3, CapAssumption
      <3>3. QED
        BY <2>4, <3>1, <3>2 DEF OldFrames
    <2>7. QED
      BY <2>5, <2>6
  <1>10. QED
    BY <1>6, <1>7, <1>8, <1>9

(* Using the frame in hand counts it if it is old, and keeps the order.          *)
LEMMA Using ==
  ASSUME FInv, thread \in {"deciding", "sending"},
         NEW fate \in Fates, NEW at \in 0..MaxTime, NEW from \in 0..MaxTime,
         Use(fate, at, from), UNCHANGED <<received, frame, queue, session>>
  PROVE  /\ Ordered' /\ OldFrames' /\ hand' = NoFrame /\ hand' \in Frames
         /\ used' \in Uses /\ stale' \in Nat
  <1> USE DEF FInv, Use
  <1>1. hand # NoFrame /\ hand \in Frames /\ hand' = NoFrame /\ stale \in Nat
    BY DEF Threads, TypeOK
  <1>2. used' \in Uses /\ hand' \in Frames
    BY <1>1, BoundsAssumption DEF Uses, Frames, NoFrame
  <1>3. used'.n = hand.n /\ Past' = hand.n /\ Past = hand.n
    BY <1>1 DEF Past
  <1>4. Ordered'
    BY <1>1, <1>3 DEF Ordered, FramesInOrder
  <1>5. stale' = stale + Old(hand) /\ Old(hand)' = 0 /\ Old(frame)' = Old(frame)
    BY <1>1 DEF Old
  <1>6. Old(hand) \in 0..1 /\ Old(frame) \in 0..1
    BY DEF Old
  <1>7. OldFrames'
    <2>1. PICK k \in 0..Len(queue) :
            /\ \A i \in (k + 1)..Len(queue) : queue[i].session = session
            /\ stale + k + Old(hand) + Old(frame) <= Cap + 1
      BY DEF OldFrames
    <2>2. Len(queue) \in Nat /\ session \in Nat
      BY BoundsAssumption DEF TypeOK
    <2>3. stale' + k + Old(hand)' + Old(frame)' <= Cap + 1
      BY <2>1, <2>2, <1>1, <1>5, <1>6, CapAssumption
    <2>4. hand'.session <= session
      BY <1>1, <2>2 DEF NoFrame
    <2>5. QED
      BY <2>1, <2>3, <2>4 DEF OldFrames
  <1>8. QED
    BY <1>1, <1>2, <1>4, <1>5, <1>6, <1>7

LEMMA UseSteps == FInv /\ (Drop \/ Discard \/ Send) => FInv'
  <1> SUFFICES ASSUME FInv, Drop \/ Discard \/ Send PROVE FInv'
    OBVIOUS
  <1> USE DEF FInv, subscriberVars, flags, apiVars
  <1>0. /\ now \in 0..MaxTime /\ now \in Nat /\ lastSend \in 0..MaxTime /\ lastSend \in Nat
        /\ paceFrom \in 0..MaxTime /\ paceFrom \in Nat /\ 0 \in 0..MaxTime
    BY BoundsAssumption DEF TypeOK
  <1>1. CASE Drop
    <2>1. /\ Ordered' /\ OldFrames' /\ hand' = NoFrame /\ hand' \in Frames
          /\ used' \in Uses /\ stale' \in Nat
      BY <1>1, <1>0, Using DEF Drop, Fates
    <2>2. TypeOK' /\ Threads'
      BY <1>1, <2>1 DEF Drop, Use, TypeOK, Threads
    <2>3. Paced'
      BY <1>1 DEF Drop, Use, Paced, InstallationPaced
    <2>4. QED
      BY <2>1, <2>2, <2>3
  <1>2. CASE Discard
    <2>1. /\ Ordered' /\ OldFrames' /\ hand' = NoFrame /\ hand' \in Frames
          /\ used' \in Uses /\ stale' \in Nat
      BY <1>2, <1>0, Using DEF Discard, Fates
    <2>2. TypeOK' /\ Threads'
      BY <1>2, <2>1 DEF Discard, Use, TypeOK, Threads
    <2>3. now - paceFrom < Interval
      BY <1>2 DEF Discard, TooSoon, Paced
    <2>4. Paced'
      BY <1>2, <2>3 DEF Discard, Use, Paced, InstallationPaced
    <2>5. QED
      BY <2>1, <2>2, <2>4
  <1>3. CASE Send /\ paced
    <2>1. /\ Ordered' /\ OldFrames' /\ hand' = NoFrame /\ hand' \in Frames
          /\ used' \in Uses /\ stale' \in Nat
      BY <1>3, <1>0, Using DEF Send, Fates
    <2>2. TypeOK' /\ Threads'
      BY <1>0, <1>3, <2>1 DEF Send, Use, TypeOK, Threads
    <2>3. Paced'
      BY <1>0, <1>3 DEF Send, Use, Paced, InstallationPaced, TypeOK
    <2>4. QED
      BY <2>1, <2>2, <2>3
  <1>4. CASE Send /\ ~paced
    <2>1. /\ Ordered' /\ OldFrames' /\ hand' = NoFrame /\ hand' \in Frames
          /\ used' \in Uses /\ stale' \in Nat
      BY <1>4, <1>0, Using DEF Send, Fates
    <2>2. TypeOK' /\ Threads'
      BY <1>4, <2>1 DEF Send, Use, TypeOK, Threads
    <2>3. Paced'
      BY <1>4 DEF Send, Use, Paced, InstallationPaced
    <2>4. QED
      BY <2>1, <2>2, <2>3
  <1>5. QED
    BY <1>1, <1>2, <1>3, <1>4

-----------------------------------------------------------------------------
(* The steps of the API and the clock.                                        *)

\* A new session: whatever is queued or held may be old, and nothing is used yet.
LEMMA StartUnpauseStep == FInv /\ StartUnpause => FInv'
  <1> SUFFICES ASSUME FInv, StartUnpause PROVE FInv'
    OBVIOUS
  <1> USE DEF FInv, StartUnpause, subscriberVars
  <1>1. TypeOK' /\ Threads' /\ Paced'
    <2>1. session' \in 0..MaxSessions /\ stale' \in Nat
      BY BoundsAssumption DEF TypeOK
    <2>2. TypeOK'
      BY <2>1 DEF TypeOK
    <2>3. Threads'
      BY DEF Threads
    <2>4. Paced'
      BY DEF Paced, InstallationPaced
    <2>5. QED
      BY <2>2, <2>3, <2>4
  <1>2. Ordered'
    BY DEF Ordered, FramesInOrder, Past
  <1>3. Len(queue) \in Nat /\ Len(queue) <= Cap /\ session \in Nat /\ queue \in Seq(Frames)
    BY BoundsAssumption DEF TypeOK
  <1>4. hand = NoFrame /\ Old(hand)' = 0 /\ Old(frame)' \in 0..1
    BY DEF Threads, Old
  <1>5. Len(queue) \in 0..Len(queue) /\ stale' + Len(queue) + Old(hand)' + Old(frame)' <= Cap + 1
    BY <1>3, <1>4, CapAssumption
  <1>6. \A i \in (Len(queue) + 1)..Len(queue) : queue[i].session = session'
    BY <1>3
  <1>7. frame \in Frames /\ hand \in Frames /\ \A i \in 1..Len(queue) : queue[i] \in Frames
    BY <1>3 DEF TypeOK
  <1>71. frame.session \in Nat /\ \A i \in 1..Len(queue) : queue[i].session \in Nat
    BY <1>7, FramesTyped
  <1>8. /\ frame.session <= session' /\ hand.session <= session'
        /\ \A i \in 1..Len(queue) :
             /\ queue[i].session <= session'
             /\ frame # NoFrame => queue[i].session <= frame.session
    BY <1>3, <1>4, <1>71 DEF OldFrames, NoFrame
  <1>9. OldFrames'
    BY <1>5, <1>6, <1>8 DEF OldFrames
  <1>10. QED
    BY <1>1, <1>2, <1>9

LEMMA ApiSteps ==
  ASSUME FInv,
         \/ Tick \/ StartRun \/ StopHalt \/ StopJoin \/ StopPause
         \/ \E value \in BOOLEAN : SetPaused(value)
         \/ \E value \in SetTasks : SetSubTask(value)
  PROVE  FInv'
  <1> USE DEF FInv, subscriberVars, flags, loopVars, history, apiVars
  <1>1. Ordered' /\ OldFrames'
    BY NothingMoves
    DEF Tick, StartRun, StopHalt, StopJoin, StopPause, SetPaused, SetSubTask
  <1>2. CASE Tick
    BY <1>1, <1>2, BoundsAssumption DEF Tick, TypeOK, Threads, Paced, InstallationPaced
  <1>3. CASE StartRun
    BY <1>1, <1>3 DEF StartRun, TypeOK, SubTasks, Threads, Paced, InstallationPaced
  <1>4. CASE StopHalt
    BY <1>1, <1>4 DEF StopHalt, TypeOK, Threads, Paced, InstallationPaced
  <1>41. CASE StopJoin
    BY <1>1, <1>41 DEF StopJoin, TypeOK, SubTasks, Threads, Paced, InstallationPaced
  <1>42. CASE StopPause
    BY <1>1, <1>42 DEF StopPause, TypeOK, Threads, Paced, InstallationPaced
  <1>5. ASSUME NEW value \in BOOLEAN, SetPaused(value) PROVE FInv'
    BY <1>1, <1>5 DEF SetPaused, TypeOK, Threads, Paced, InstallationPaced
  <1>6. ASSUME NEW value \in SetTasks, SetSubTask(value) PROVE FInv'
    BY <1>1, <1>6 DEF SetSubTask, TypeOK, SubTasks, Threads, Paced, InstallationPaced
  <1>7. QED
    BY <1>2, <1>3, <1>4, <1>41, <1>42, <1>5, <1>6

-----------------------------------------------------------------------------
(* Frames, queue, thread and pace keep FInv whatever the threads, the API and the *)
(* clock do.                                                               *)
THEOREM FrameInductive == Spec => []FInv
  <1>1. ASSUME FInv, [Next]_vars PROVE FInv'
    <2>1. CASE Subscribers
      BY <1>1, <2>1, ReceiveStep, EnqueueStep DEF Subscribers
    <2>2. CASE Capture
      BY <1>1, <2>2, LoopSteps, TakeStep, UseSteps DEF Capture
    <2>3. CASE Tick \/ Api
      BY <1>1, <2>3, StartUnpauseStep, ApiSteps DEF Api
    <2>4. CASE UNCHANGED vars
      <3>1. Ordered' /\ OldFrames'
        BY <1>1, <2>4, NothingMoves DEF vars, subscriberVars, loopVars, history, apiVars
      <3>2. QED
        BY <1>1, <2>4, <3>1
        DEF vars, subscriberVars, loopVars, history, apiVars, flags, FInv, TypeOK, Threads,
            Paced, InstallationPaced
    <2>5. QED
      BY <1>1, <2>1, <2>2, <2>3, <2>4 DEF Next
  <1>2. QED
    BY <1>1, Initially, PTL DEF Spec

(* The variables of the frame path keep their types, and the queue its capacity.   *)
THEOREM FrameTypeCorrect == Spec => []TypeOK
  <1>1. FInv => TypeOK
    BY DEF FInv
  <1>2. QED
    BY <1>1, FrameInductive, PTL

(* Whatever the interleaving of frames, pauses, starts and stops, a session uses no *)
(* more frames of earlier sessions than the queue holds and one.                  *)
THEOREM StaleBounded == Spec => []StaleFramesBounded
  <1>1. FInv => StaleFramesBounded
    <2> SUFFICES ASSUME FInv PROVE StaleFramesBounded
      OBVIOUS
    <2>1. PICK k \in 0..Len(queue) : stale + k + Old(hand) + Old(frame) <= Cap + 1
      BY DEF FInv, OldFrames
    <2>2. /\ stale \in Nat /\ k \in Nat
          /\ Old(hand) \in 0..1 /\ Old(frame) \in 0..1
      BY DEF FInv, TypeOK, Old
    <2>3. QED
      BY <2>1, <2>2, CapAssumption DEF StaleFramesBounded
  <1>2. QED
    BY <1>1, FrameInductive, PTL

(* An installation keeps its interval in both directions, however often a client    *)
(* changes the sub-task.                                                     *)
THEOREM PaceKept == Spec => []InstallationPaced
  <1>1. FInv => InstallationPaced
    BY DEF FInv, Paced
  <1>2. QED
    BY <1>1, FrameInductive, PTL

(* Frames are used in the order the camera sent them, and none twice.             *)
THEOREM OrderKept == Spec => []FramesInOrder
  <1>1. FInv => FramesInOrder
    BY DEF FInv, Ordered
  <1>2. QED
    BY <1>1, FrameInductive, PTL
=============================================================================
