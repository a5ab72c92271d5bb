------------------------- MODULE DatabaseWriterProofs -------------------------
(***************************************************************************)
(* Proofs about DatabaseWriter for every queue capacity, and any number of   *)
(* replies: its types, and that it implements LossyFifo.                     *)
(***************************************************************************)
EXTENDS DatabaseWriter, SequenceTheorems, TLAPS

(* The queue holds the requests pushed last, in their order: the first of     *)
(* them has the number after Gone.                                          *)
Gone == pushed - Len(queue)
QueueIsRecent == \A i \in 1..Len(queue) : queue[i].n = Gone + i

(* Every request between a and b was dropped when the queue had filled up.    *)
DroppedBetween(a, b) == \A m \in Nat : a < m /\ m < b => m + MaxQueue <= pushed

(* What is not queued any more has been written, is being written, or was     *)
(* dropped.                                                                *)
GoneAccounted ==
  IF writer = "saving"
    THEN /\ last < hand.n /\ hand.n <= Gone
         /\ DroppedBetween(last, hand.n)
         /\ DroppedBetween(hand.n, Gone + 1)
    ELSE /\ last <= Gone
         /\ DroppedBetween(last, Gone + 1)

(* Before main has started the writer there is no writer thread.              *)
Started == main = "new" => writer = "none"

QInv == TypeOK /\ Started /\ QueueIsRecent /\ GoneAccounted

-----------------------------------------------------------------------------
LEMMA FileTyped ==
  ASSUME NEW name \in FileNames, NEW idx \in 0..MaxReplies, NEW content \in Contents
  PROVE  File(name, idx, content) \in FilesToSave
  BY DEF File, FilesToSave

LEMMA PairTyped ==
  ASSUME NEW left \in FileNames, NEW right \in FileNames,
         NEW idx \in 0..MaxReplies, NEW content \in Contents, NEW images
  PROVE  /\ Both(left, right, idx, content) \in Seq(FilesToSave)
         /\ PerImage(left, right, idx, images) \in Seq(FilesToSave)
  <1>1. /\ File(left, idx, content) \in FilesToSave /\ File(right, idx, content) \in FilesToSave
        /\ File(left, idx, "image") \in FilesToSave /\ File(right, idx, "image") \in FilesToSave
    BY FileTyped DEF Contents
  <1>2. Both(left, right, idx, content) \in Seq(FilesToSave)
    BY <1>1 DEF Both
  <1>3. /\ <<File(left, idx, "image")>> \in Seq(FilesToSave)
        /\ <<File(right, idx, "image")>> \in Seq(FilesToSave)
        /\ << >> \in Seq(FilesToSave)
    BY <1>1
  <1>4. PerImage(left, right, idx, images) \in Seq(FilesToSave)
    BY <1>3, ConcatProperties DEF PerImage
  <1>5. QED
    BY <1>2, <1>4

LEMMA BatchTyped ==
  ASSUME NEW idx \in 0..MaxReplies, NEW images, NEW result \in Results
  PROVE  PreprocessFiles(idx, images) \o PostprocessFiles(idx, images, result)
           \in Seq(FilesToSave)
  <1>1. \A a, b \in Seq(FilesToSave) : a \o b \in Seq(FilesToSave)
    BY ConcatProperties
  <1>2. /\ << >> \in Seq(FilesToSave)
        /\ <<File("Stereo", idx, "result")>> \in Seq(FilesToSave)
    BY FileTyped DEF FileNames, Contents
  <1>3. /\ PerImage("L", "R", idx, images) \in Seq(FilesToSave)
        /\ Both("AI_L", "AI_R", idx, "detections") \in Seq(FilesToSave)
        /\ Both("AI_L", "AI_R", idx, "transaction_id") \in Seq(FilesToSave)
        /\ PerImage("AL", "AR", idx, images) \in Seq(FilesToSave)
        /\ PerImage("AL2", "AR2", idx, images) \in Seq(FilesToSave)
    BY PairTyped DEF FileNames, Contents
  <1>4. PreprocessFiles(idx, images) \in Seq(FilesToSave)
    BY <1>1, <1>2, <1>3 DEF PreprocessFiles
  <1>5. InspectionFiles(idx, images) \in Seq(FilesToSave)
    BY <1>1, <1>2, <1>3 DEF InspectionFiles
  <1>6. AITestFiles(idx, images) \in Seq(FilesToSave)
    BY <1>1, <1>2, <1>3 DEF AITestFiles
  <1>7. PostprocessFiles(idx, images, result) \in Seq(FilesToSave)
    BY <1>2, <1>5, <1>6 DEF PostprocessFiles, Results
  <1>8. QED
    BY <1>1, <1>4, <1>7

-----------------------------------------------------------------------------
(* What the two ends of the queue do to it.                                  *)

LEMMA PushedQueue ==
  ASSUME TypeOK, NEW req \in Requests
  PROVE  /\ Pushed(req) \in Seq(Requests)
         /\ Len(Pushed(req)) <= MaxQueue
         /\ Len(Pushed(req)) = IF Len(queue) >= MaxQueue THEN Len(queue) ELSE Len(queue) + 1
         /\ Pushed(req)[Len(Pushed(req))] = req
         /\ \A i \in 1..(Len(Pushed(req)) - 1) :
              Pushed(req)[i] = IF Len(queue) >= MaxQueue THEN queue[i + 1] ELSE queue[i]
  <1>1. queue \in Seq(Requests) /\ Len(queue) \in Nat /\ Len(queue) <= MaxQueue
    BY LenProperties DEF TypeOK
  <1>2. CASE Len(queue) >= MaxQueue
    <2>1. queue # << >>
      BY <1>1, <1>2, QueueAssumption, EmptySeq
    <2>2. /\ Tail(queue) \in Seq(Requests) /\ Len(Tail(queue)) = Len(queue) - 1
          /\ \A i \in 1..Len(Tail(queue)) : Tail(queue)[i] = queue[i + 1]
      BY <1>1, <2>1, HeadTailProperties
    <2>3. Pushed(req) = Append(Tail(queue), req)
      BY <1>2 DEF Pushed
    <2>4. QED
      BY <1>1, <1>2, <2>2, <2>3, AppendProperties, QueueAssumption
  <1>3. CASE ~(Len(queue) >= MaxQueue)
    <2>1. Pushed(req) = Append(queue, req)
      BY <1>3 DEF Pushed
    <2>2. QED
      BY <1>1, <1>3, <2>1, AppendProperties, QueueAssumption
  <1>4. QED
    BY <1>2, <1>3

LEMMA TakenQueue ==
  ASSUME TypeOK, queue # << >>
  PROVE  /\ Head(queue) \in Requests /\ Head(queue) = queue[1]
         /\ Tail(queue) \in Seq(Requests)
         /\ Len(Tail(queue)) = Len(queue) - 1 /\ Len(queue) \in Nat /\ Len(queue) >= 1
         /\ \A i \in 1..Len(Tail(queue)) : Tail(queue)[i] = queue[i + 1]
  <1>1. queue \in Seq(Requests) /\ Len(queue) \in Nat
    BY LenProperties DEF TypeOK
  <1>2. QED
    BY <1>1, HeadTailProperties, EmptySeq

LEMMA TypeStep == TypeOK /\ [Next]_vars => TypeOK'
  <1> SUFFICES ASSUME TypeOK, [Next]_vars PROVE TypeOK'
    OBVIOUS
  <1> USE QueueAssumption, RepliesAssumption
  <1> USE DEF TypeOK, queueVars, writerVars, dealerVars
  <1>1. CASE UNCHANGED vars
    BY <1>1 DEF vars
  <1>2. ASSUME NEW images \in Matches, NEW result \in Results, Reply(images, result)
        PROVE  TypeOK'
    <2>1. /\ replies' = replies + 1 /\ replies < MaxReplies
          /\ UNCHANGED <<main, running, queueVars, writerVars>>
      BY <1>2 DEF Reply
    <2>2. batch' \in Seq(FilesToSave)
      <3>1. (IF images # {} THEN replies ELSE 0) \in 0..MaxReplies
        OBVIOUS
      <3>2. QED
        BY <1>2, <3>1, BatchTyped DEF Reply
    <2>3. replies' \in 0..MaxReplies
      BY <2>1
    <2>4. QED
      BY <2>1, <2>2, <2>3
  <1>3. CASE Enqueue
    <2>1. Head(batch) \in FilesToSave /\ Tail(batch) \in Seq(FilesToSave)
      BY <1>3, HeadTailProperties DEF Enqueue
    <2>2. [n |-> pushed + 1, what |-> Head(batch)] \in Requests
      BY <2>1 DEF Requests
    <2>3. /\ queue' \in Seq(Requests) /\ Len(queue') <= MaxQueue
      BY <1>3, <2>2, PushedQueue DEF Enqueue
    <2>4. pushed' \in Nat
      BY <1>3 DEF Enqueue
    <2>5. QED
      BY <1>3, <2>1, <2>3, <2>4 DEF Enqueue
  <1>4. CASE WriterTop
    BY <1>4 DEF WriterTop
  <1>5. CASE WriterTimeout
    BY <1>5 DEF WriterTimeout
  <1>6. CASE WriterTake
    BY <1>6, TakenQueue DEF WriterTake
  <1>7. CASE WriterSave
    BY <1>7 DEF WriterSave, Requests
  <1>8. CASE Main
    BY <1>8 DEF Main, Start, DealerStop, StopRequest, StopFinish
  <1>9. QED
    BY <1>1, <1>2, <1>3, <1>4, <1>5, <1>6, <1>7, <1>8 DEF Next, Dealer, Writer

LEMMA GoneIsNat == TypeOK /\ QueueIsRecent /\ GoneAccounted => Gone \in Nat
  <1> SUFFICES ASSUME TypeOK, QueueIsRecent, GoneAccounted PROVE Gone \in Nat
    OBVIOUS
  <1>1. Len(queue) \in Nat /\ pushed \in Nat /\ hand.n \in Nat /\ last \in Nat
    BY LenProperties DEF TypeOK, Requests
  <1>2. Gone \in Int
    BY <1>1 DEF Gone
  <1>3. QED
    BY <1>1, <1>2 DEF GoneAccounted

LEMMA InitQInv == Init => QInv
  <1> SUFFICES ASSUME Init PROVE QInv
    OBVIOUS
  <1>1. queue = << >> /\ Len(queue) = 0 /\ queue \in Seq(Requests) /\ batch \in Seq(FilesToSave)
    BY EmptySeq DEF Init
  <1>2. hand \in Requests
    BY RepliesAssumption
    DEF Init, NoRequest, File, Requests, FilesToSave, FileNames, Contents
  <1>3. TypeOK
    <2>1. /\ queue \in Seq(Requests) /\ Len(queue) <= MaxQueue
          /\ batch \in Seq(FilesToSave)
      BY <1>1, QueueAssumption
    <2>2. replies \in 0..MaxReplies /\ pushed \in Nat /\ last \in Nat /\ disk \in SUBSET Requests
      BY RepliesAssumption DEF Init
    <2>3. /\ main \in {"new", "up", "dealer_stopped", "stopping", "stopped"}
          /\ writer \in {"none", "top", "waiting", "saving"} /\ running \in BOOLEAN
      BY DEF Init
    <2>4. QED
      BY <1>2, <2>1, <2>2, <2>3 DEF TypeOK
  <1>4. QueueIsRecent
    BY <1>1 DEF QueueIsRecent
  <1>5. GoneAccounted
    BY <1>1, QueueAssumption DEF Init, GoneAccounted, DroppedBetween, Gone
  <1>6. QED
    BY <1>3, <1>4, <1>5 DEF QInv, Init, Started

(* A push moves the front of the queue only when it drops the oldest request.  *)
LEMMA EnqueueKeeps ==
  ASSUME QInv, Enqueue
  PROVE  /\ QueueIsRecent' /\ GoneAccounted'
         /\ pushed' \in {pushed, pushed + 1} /\ UNCHANGED last
  <1> USE QueueAssumption
  <1> DEFINE req == [n |-> pushed + 1, what |-> Head(batch)]
  <1>1. CASE ~running
    <2>1. UNCHANGED <<queue, pushed, writer, hand, last>>
      BY <1>1 DEF Enqueue, queueVars, writerVars
    <2>2. QED
      BY <2>1 DEF QInv, QueueIsRecent, GoneAccounted, DroppedBetween, Gone
  <1>2. CASE running
    <2>1. queue' = Pushed(req) /\ pushed' = pushed + 1 /\ UNCHANGED <<writer, hand, last>>
      BY <1>2 DEF Enqueue, writerVars
    <2>2. req \in Requests
      BY HeadTailProperties DEF QInv, Enqueue, TypeOK, Requests
    <2>3. /\ Len(queue') = IF Len(queue) >= MaxQueue THEN Len(queue) ELSE Len(queue) + 1
          /\ queue'[Len(queue')] = req
          /\ \A i \in 1..(Len(queue') - 1) :
               queue'[i] = IF Len(queue) >= MaxQueue THEN queue[i + 1] ELSE queue[i]
      BY <2>1, <2>2, PushedQueue DEF QInv
    <2>4. /\ Len(queue) \in Nat /\ Len(queue) <= MaxQueue /\ pushed \in Nat
          /\ hand.n \in Nat /\ last \in Nat
      BY LenProperties DEF QInv, TypeOK, Requests
    <2>0. /\ Len(queue') = IF Len(queue) >= MaxQueue THEN Len(queue) ELSE Len(queue) + 1
          /\ Len(queue') \in Nat /\ pushed' = pushed + 1 /\ Gone \in Int
          /\ Gone' = pushed' - Len(queue') /\ Gone = pushed - Len(queue)
      BY <2>1, <2>3, <2>4 DEF Gone
    <2>5. QueueIsRecent'
      <3>1. ASSUME NEW i \in 1..Len(queue') PROVE queue'[i].n = Gone' + i
        <4>1. CASE i = Len(queue')
          BY <4>1, <2>0, <2>3, <2>4
        <4>2. CASE i # Len(queue') /\ Len(queue) >= MaxQueue
          <5>1. i \in 1..(Len(queue') - 1) /\ i + 1 \in 1..Len(queue)
            BY <4>2, <2>3, <2>4
          <5>2. queue'[i].n = Gone + (i + 1)
            BY <4>2, <5>1, <2>3 DEF QInv, QueueIsRecent
          <5>3. QED
            BY <4>2, <5>2, <2>0, <2>4
        <4>3. CASE i # Len(queue') /\ ~(Len(queue) >= MaxQueue)
          <5>1. i \in 1..(Len(queue') - 1) /\ i \in 1..Len(queue)
            BY <4>3, <2>3, <2>4
          <5>2. queue'[i].n = Gone + i
            BY <4>3, <5>1, <2>3 DEF QInv, QueueIsRecent
          <5>3. QED
            BY <4>3, <5>2, <2>0, <2>4
        <4>4. QED
          BY <4>1, <4>2, <4>3
      <3>2. QED
        BY <3>1 DEF QueueIsRecent
    <2>6. \/ Gone' = Gone
          \/ Gone' = Gone + 1 /\ Gone + 1 + MaxQueue <= pushed'
      <3>1. CASE Len(queue) >= MaxQueue
        <4>1. Len(queue) = MaxQueue /\ Len(queue') = MaxQueue
          BY <3>1, <2>0, <2>4
        <4>2. QED
          BY <4>1, <2>0, <2>4
      <3>2. CASE ~(Len(queue) >= MaxQueue)
        <4>1. Len(queue') = Len(queue) + 1
          BY <3>2, <2>0
        <4>2. Gone' = pushed' - Len(queue') /\ Gone = pushed - Len(queue) /\ pushed' = pushed + 1
          BY <2>0
        <4>3. Gone' = Gone
          BY <4>1, <4>2, <2>4
        <4>4. QED
          BY <4>3
      <3>3. QED
        BY <3>1, <3>2
    <2>7. Gone \in Nat
      BY <2>4, GoneIsNat DEF QInv
    <2>8. GoneAccounted'
      <3>1. GoneAccounted /\ UNCHANGED <<writer, hand, last>>
        BY <2>1 DEF QInv
      <3>0. pushed \in Nat /\ pushed' = pushed + 1 /\ MaxQueue \in Nat
        BY <2>0, <2>4
      <3>2. \A p, q \in Nat :
              DroppedBetween(p, q) =>
                \A m \in Nat : p < m /\ m < q => m + MaxQueue <= pushed'
        BY <3>0 DEF DroppedBetween
      <3>3. \A p \in Nat :
              DroppedBetween(p, Gone + 1) =>
                \A m \in Nat : p < m /\ m < Gone' + 1 => m + MaxQueue <= pushed'
        <4>1. SUFFICES ASSUME NEW p \in Nat, DroppedBetween(p, Gone + 1), NEW m \in Nat,
                              p < m, m < Gone' + 1
                       PROVE  m + MaxQueue <= pushed'
          OBVIOUS
        <4>2. CASE m < Gone + 1
          BY <3>0, <4>1, <4>2 DEF DroppedBetween
        <4>3. CASE ~(m < Gone + 1)
          <5>1. m = Gone + 1 /\ Gone + 1 + MaxQueue <= pushed'
            BY <2>6, <2>7, <4>1, <4>3
          <5>2. QED
            BY <5>1
        <4>4. QED
          BY <4>2, <4>3
      <3>4. CASE writer = "saving"
        <4>1. /\ last < hand.n /\ hand.n <= Gone
              /\ DroppedBetween(last, hand.n) /\ DroppedBetween(hand.n, Gone + 1)
          BY <3>1, <3>4 DEF GoneAccounted
        <4>2. writer' = "saving" /\ last' < hand'.n /\ hand'.n <= Gone'
          BY <2>4, <2>6, <2>7, <3>1, <3>4, <4>1
        <4>3. DroppedBetween(last, hand.n)' /\ DroppedBetween(hand.n, Gone + 1)'
          BY <2>4, <3>1, <3>2, <3>3, <4>1 DEF DroppedBetween
        <4>4. QED
          BY <4>2, <4>3 DEF GoneAccounted
      <3>5. CASE writer # "saving"
        <4>1. last <= Gone /\ DroppedBetween(last, Gone + 1)
          BY <3>1, <3>5 DEF GoneAccounted
        <4>2. writer' # "saving" /\ last' <= Gone'
          BY <2>4, <2>6, <2>7, <3>1, <3>5, <4>1
        <4>3. DroppedBetween(last, Gone + 1)'
          BY <2>4, <3>1, <3>3, <4>1 DEF DroppedBetween
        <4>4. QED
          BY <4>2, <4>3 DEF GoneAccounted
      <3>6. QED
        BY <3>4, <3>5
    <2>9. QED
      BY <2>1, <2>5, <2>8
  <1>3. QED
    BY <1>1, <1>2 DEF QInv, TypeOK

LEMMA TakeKeeps ==
  ASSUME QInv, WriterTake
  PROVE  QueueIsRecent' /\ GoneAccounted'
  <1>1. /\ hand' = queue[1] /\ queue' = Tail(queue) /\ Len(queue') = Len(queue) - 1
        /\ Len(queue) \in Nat /\ Len(queue) >= 1
        /\ \A i \in 1..Len(queue') : queue'[i] = queue[i + 1]
        /\ writer' = "saving" /\ writer = "waiting" /\ UNCHANGED <<pushed, last>>
    BY TakenQueue DEF QInv, WriterTake
  <1>2. pushed \in Nat /\ last \in Nat
    BY DEF QInv, TypeOK
  <1>3. /\ Gone' = Gone + 1 /\ Gone \in Int
        /\ Gone = pushed - Len(queue)
    <2>1. Len(queue') = Len(queue) - 1 /\ Len(queue) \in Nat /\ pushed' = pushed
      BY <1>1
    <2>2. Gone' = pushed' - Len(queue') /\ Gone = pushed - Len(queue)
      BY DEF Gone
    <2>3. QED
      BY <2>1, <2>2, <1>2
  <1>4. QueueIsRecent'
    <2>1. ASSUME NEW i \in 1..Len(queue') PROVE queue'[i].n = Gone' + i
      <3>1. i + 1 \in 1..Len(queue)
        BY <1>1
      <3>2. queue'[i].n = Gone + (i + 1)
        BY <1>1, <3>1 DEF QInv, QueueIsRecent
      <3>3. QED
        BY <1>2, <1>3, <3>2
    <2>2. QED
      BY <2>1 DEF QueueIsRecent
  <1>5. hand'.n = Gone + 1
    BY <1>1 DEF QInv, QueueIsRecent
  <1>6. GoneAccounted'
    <2>1. /\ writer' = "saving" /\ writer = "waiting" /\ pushed' = pushed /\ last' = last
          /\ Len(queue) >= 1 /\ Len(queue) \in Nat
      BY <1>1
    <2>2. last <= Gone /\ DroppedBetween(last, Gone + 1)
      BY <2>1 DEF QInv, GoneAccounted
    <2>3. last' < hand'.n /\ hand'.n <= Gone'
      BY <2>1, <2>2, <1>2, <1>3, <1>5
    <2>4. /\ \A m \in Nat : last' < m /\ m < hand'.n => m + MaxQueue <= pushed'
          /\ \A m \in Nat : hand'.n < m /\ m < Gone' + 1 => m + MaxQueue <= pushed'
      BY <2>1, <2>2, <1>2, <1>3, <1>5 DEF DroppedBetween
    <2>5. QED
      BY <2>1, <2>3, <2>4 DEF GoneAccounted, DroppedBetween
  <1>7. QED
    BY <1>4, <1>6

(* The number written is above the last one, and those between were dropped.   *)
LEMMA SaveKeeps ==
  ASSUME QInv, WriterSave
  PROVE  /\ QueueIsRecent' /\ GoneAccounted'
         /\ Fifo!Serve
  <1>1. /\ writer = "saving" /\ writer' = "top" /\ last' = hand.n
        /\ UNCHANGED <<queue, pushed>>
    BY DEF WriterSave, queueVars
  <1>2. /\ pushed \in Nat /\ last \in Nat /\ hand.n \in Nat /\ Len(queue) \in Nat
        /\ last < hand.n /\ hand.n <= Gone
        /\ DroppedBetween(last, hand.n) /\ DroppedBetween(hand.n, Gone + 1)
    BY <1>1, LenProperties DEF QInv, TypeOK, Requests, GoneAccounted
  <1>3. QueueIsRecent'
    BY <1>1 DEF QInv, QueueIsRecent, Gone
  <1>4. GoneAccounted'
    BY <1>1, <1>2 DEF GoneAccounted, DroppedBetween, Gone
  <1>5. hand.n \in (last + 1)..pushed
    BY <1>2 DEF Gone
  <1>6. \A m \in (last + 1)..(hand.n - 1) : m + MaxQueue <= pushed
    BY <1>2 DEF DroppedBetween
  <1>7. Fifo!Serve
    BY <1>1, <1>5, <1>6 DEF Fifo!Serve
  <1>8. QED
    BY <1>3, <1>4, <1>7

LEMMA QInvStep == QInv /\ [Next]_vars => QInv' /\ [Fifo!Next]_(Fifo!vars)
  <1> SUFFICES ASSUME QInv, [Next]_vars
               PROVE  QInv' /\ [Fifo!Next]_(Fifo!vars)
    OBVIOUS
  <1>1. TypeOK' /\ Started'
    <2>1. TypeOK'
      BY TypeStep DEF QInv
    <2>2. main' = "new" => main = "new" /\ writer' = writer
      BY DEF QInv, Started, Next, Dealer, Writer, Main, vars, Reply, Enqueue, Start,
             DealerStop, StopRequest, StopFinish, WriterTop, WriterTimeout, WriterTake,
             WriterSave, writerVars
    <2>3. QED
      BY <2>1, <2>2 DEF QInv, Started
  <1>2. CASE Enqueue
    BY <1>1, <1>2, EnqueueKeeps DEF QInv, Fifo!Next, Fifo!Offer, Fifo!vars
  <1>3. CASE WriterTake
    BY <1>1, <1>3, TakeKeeps DEF QInv, WriterTake, Fifo!vars
  <1>4. CASE WriterSave
    BY <1>1, <1>4, SaveKeeps DEF QInv, Fifo!Next
  <1>5. ASSUME UNCHANGED <<queueVars, hand, last>>, writer # "saving", writer' # "saving"
        PROVE  QInv' /\ [Fifo!Next]_(Fifo!vars)
    BY <1>1, <1>5 DEF QInv, QueueIsRecent, GoneAccounted, DroppedBetween, Gone, queueVars,
                      Fifo!vars
  <1>6. ASSUME UNCHANGED <<queueVars, writer, hand, last>>
        PROVE  QInv' /\ [Fifo!Next]_(Fifo!vars)
    BY <1>1, <1>6 DEF QInv, QueueIsRecent, GoneAccounted, DroppedBetween, Gone, queueVars,
                      Fifo!vars
  <1>7. CASE WriterTop
    BY <1>5, <1>7 DEF WriterTop
  <1>8. CASE WriterTimeout
    BY <1>5, <1>8 DEF WriterTimeout
  <1>9. ASSUME NEW images \in Matches, NEW result \in Results, Reply(images, result)
        PROVE  QInv' /\ [Fifo!Next]_(Fifo!vars)
    BY <1>6, <1>9 DEF Reply, writerVars
  <1>10. CASE Start
    <2>1. writer = "none"
      BY <1>10 DEF QInv, Started, Start
    <2>2. QED
      BY <1>5, <1>10, <2>1 DEF Start
  <1>11. CASE DealerStop \/ StopRequest \/ StopFinish
    BY <1>6, <1>11 DEF DealerStop, StopRequest, StopFinish, writerVars
  <1>12. CASE UNCHANGED vars
    BY <1>6, <1>12 DEF vars, writerVars
  <1>13. QED
    BY <1>2, <1>3, <1>4, <1>7, <1>8, <1>9, <1>10, <1>11, <1>12
    DEF Next, Dealer, Writer, Main

-----------------------------------------------------------------------------
(* Every variable of the writer keeps its type, and queue_ stays within         *)
(* max_queue_.                                                             *)
THEOREM WriterTypeCorrect == Spec => []TypeOK
  <1>1. Init => TypeOK
    BY InitQInv DEF QInv
  <1>2. TypeOK /\ [Next]_vars => TypeOK'
    BY TypeStep
  <1>3. QED
    BY <1>1, <1>2, PTL DEF Spec

(* For every max_queue_ of at least one, the writer thread writes requests in   *)
(* the order they were queued, at most once, and passes over one only when     *)
(* max_queue_ later ones were queued before its turn.                        *)
THEOREM WriterIsLossyFifo == Spec => ImplementsLossyFifo
  <1>1. Init => QInv /\ Fifo!Init
    BY InitQInv DEF Init, Fifo!Init
  <1>2. QInv /\ [Next]_vars => QInv' /\ [Fifo!Next]_(Fifo!vars)
    BY QInvStep
  <1>3. QED
    BY <1>1, <1>2, PTL DEF Spec, ImplementsLossyFifo, Fifo!Spec
=============================================================================
