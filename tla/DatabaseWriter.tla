---------------------------- MODULE DatabaseWriter ----------------------------
(***************************************************************************)
(* DatabaseWriter: the dealer thread queues the files of every result, a      *)
(* writer thread takes them off the queue and writes them.  A full queue drops *)
(* its oldest request.  The dealer thread queues a result's files in the      *)
(* order of on_ai_result_ and the result callback; main stops it before it    *)
(* stops the writer.  Requests are numbered as they are pushed.              *)
(***************************************************************************)
EXTENDS Integers, Sequences, FiniteSets

CONSTANTS
  MaxQueue,    \* max_queue_: database.spsc_capacity, 200 in the code
  Matches,     \* the images a reply may find: none, the left one, or both
  MaxReplies   \* bound: replies handled

ASSUME QueueAssumption == MaxQueue \in Nat \ {0}
ASSUME RepliesAssumption == MaxReplies \in Nat
ASSUME MatchAssumption == Matches \subseteq {{}, {"L"}, {"L", "R"}}

VARIABLES
  main,      \* what main has done: nothing, started both threads, stopped them
  running,   \* running_
  queue,     \* queue_
  pushed,    \* history: the number of requests pushed
  writer,    \* writer_loop_: none, at its top, in its wait, or in process_request_
  hand,      \* the request in process_request_, or written last
  last,      \* history: the number of the request written last
  disk,      \* the newest content of every file of the record
  replies,   \* replies handled so far
  batch      \* what the dealer thread has yet to queue of the present reply

queueVars  == <<queue, pushed>>
writerVars == <<writer, hand, last, disk>>
dealerVars == <<replies, batch>>
vars == <<main, running, queueVars, writerVars, dealerVars>>

FileNames == {"L", "R", "AI_L", "AI_R", "Stereo", "AL", "AR", "AL2", "AR2"}
Contents == {"image", "detections", "transaction_id", "result"}
File(name, idx, content) == [file |-> name, idx |-> idx, content |-> content]
FilesToSave == [file : FileNames, idx : 0..MaxReplies, content : Contents]
Requests == [n : Nat, what : FilesToSave]
NoRequest == [n |-> 0, what |-> File("Stereo", 0, "result")]

TypeOK ==
  /\ main \in {"new", "up", "dealer_stopped", "stopping", "stopped"}
  /\ running \in BOOLEAN
  /\ queue \in Seq(Requests) /\ Len(queue) <= MaxQueue
  /\ pushed \in Nat
  /\ writer \in {"none", "top", "waiting", "saving"}
  /\ hand \in Requests
  /\ last \in Nat
  /\ disk \in SUBSET Requests
  /\ replies \in 0..MaxReplies
  /\ batch \in Seq(FilesToSave)

Init ==
  /\ main = "new" /\ running = FALSE
  /\ queue = <<>> /\ pushed = 0
  /\ writer = "none" /\ hand = NoRequest /\ last = 0 /\ disk = {}
  /\ replies = 0 /\ batch = <<>>

-----------------------------------------------------------------------------
(* The dealer thread: the files a reply queues, in their order.              *)

Both(left, right, idx, content) == <<File(left, idx, content), File(right, idx, content)>>

\* One picture for each image there is
PerImage(left, right, idx, images) ==
  (IF "L" \in images THEN <<File(left, idx, "image")>> ELSE <<>>)
  \o (IF "R" \in images THEN <<File(right, idx, "image")>> ELSE <<>>)

\* on_ai_result_: the images that were found, and the detections in any case.
PreprocessFiles(idx, images) ==
  PerImage("L", "R", idx, images) \o Both("AI_L", "AI_R", idx, "detections")

InspectionFiles(idx, images) ==
  <<File("Stereo", idx, "result")>>
  \o Both("AI_L", "AI_R", idx, "transaction_id") \o PerImage("AL", "AR", idx, images)

AITestFiles(idx, images) ==
  <<File("Stereo", idx, "result")>>
  \o PerImage("AL", "AR", idx, images) \o PerImage("AL2", "AR2", idx, images)

\* The callback runs process, process_ai_test, or returns before it saves anything.
Results == {"inspection", "ai_test", "skipped"}
PostprocessFiles(idx, images, result) ==
  CASE result = "inspection" -> InspectionFiles(idx, images)
    [] result = "ai_test"    -> AITestFiles(idx, images)
    [] OTHER                 -> <<>>

\* A reply that found no pending pair has index 0.
Reply(images, result) ==
  /\ main = "up" /\ batch = <<>>
  /\ replies < MaxReplies
  /\ replies' = replies + 1
  /\ LET idx == IF images # {} THEN replies ELSE 0
     IN  batch' = PreprocessFiles(idx, images) \o PostprocessFiles(idx, images, result)
  /\ UNCHANGED <<main, running, queueVars, writerVars>>

\* Faulty: the request that does not fit is the one that is dropped.
PushedUnlessFull(req) == IF Len(queue) >= MaxQueue THEN queue ELSE Append(queue, req)

\* Faulty: the queue is found full one request too late.
PushedLate(req) ==
  Append(IF Len(queue) > MaxQueue THEN Tail(queue) ELSE queue, req)

Pushed(req) ==
  Append(IF Len(queue) >= MaxQueue THEN Tail(queue) ELSE queue, req)

\* enqueue_image, enqueue_ai_result and enqueue_stereo_result
Enqueue ==
  /\ batch # <<>>
  /\ batch' = Tail(batch)
  /\ IF running
       THEN /\ queue' = Pushed([n |-> pushed + 1, what |-> Head(batch)])
            /\ pushed' = pushed + 1
       ELSE UNCHANGED queueVars
  /\ UNCHANGED <<main, running, writerVars, replies>>

-----------------------------------------------------------------------------
(* The writer thread.                                                       *)

\* Faulty: the thread ends when it finds nothing to write.
WriterTopImpatient ==
  /\ writer = "top"
  /\ writer' = IF running /\ (last = 0 \/ queue # <<>>) THEN "waiting" ELSE "none"
  /\ UNCHANGED <<main, running, queueVars, hand, last, disk, dealerVars>>

WriterTop ==
  /\ writer = "top"
  /\ writer' = IF running THEN "waiting" ELSE "none"
  /\ UNCHANGED <<main, running, queueVars, hand, last, disk, dealerVars>>

\* The wait ends with nothing queued, at its 200 ms timeout or on stop.
WriterTimeout ==
  /\ writer = "waiting" /\ queue = <<>>
  /\ writer' = IF running THEN "top" ELSE "none"
  /\ UNCHANGED <<main, running, queueVars, hand, last, disk, dealerVars>>

WriterTake ==
  /\ writer = "waiting" /\ queue # <<>>
  /\ hand' = Head(queue)
  /\ queue' = Tail(queue)
  /\ writer' = "saving"
  /\ UNCHANGED <<main, running, pushed, last, disk, dealerVars>>

SameFile(d, e) == d.what.file = e.what.file /\ d.what.idx = e.what.idx

\* process_request_: the file is written anew, whatever it held.
WriterSave ==
  /\ writer = "saving"
  /\ disk' = {d \in disk : ~SameFile(d, hand)} \cup {hand}
  /\ last' = hand.n
  /\ writer' = "top"
  /\ UNCHANGED <<main, running, queueVars, hand, dealerVars>>

-----------------------------------------------------------------------------
(* main: start the writer, then the dealer; at shutdown stop and join them in  *)
(* the opposite order.                                                     *)

Start ==
  /\ main = "new"
  /\ main' = "up"
  /\ running' = TRUE
  /\ writer' = "top"
  /\ UNCHANGED <<queueVars, hand, last, disk, dealerVars>>

\* DetectionDealer::stop joins the thread that queues the files.
DealerStop ==
  /\ main = "up" /\ batch = <<>>
  /\ main' = "dealer_stopped"
  /\ UNCHANGED <<running, queueVars, writerVars, dealerVars>>

StopRequest ==
  /\ main = "dealer_stopped"
  /\ main' = "stopping"
  /\ running' = FALSE
  /\ UNCHANGED <<queueVars, writerVars, dealerVars>>

StopFinish ==
  /\ main = "stopping" /\ writer = "none"
  /\ main' = "stopped"
  /\ UNCHANGED <<running, queueVars, writerVars, dealerVars>>

-----------------------------------------------------------------------------
Dealer == Enqueue \/ \E images \in Matches, result \in Results : Reply(images, result)
Writer == WriterTop \/ WriterTimeout \/ WriterTake \/ WriterSave
Main == Start \/ DealerStop \/ StopRequest \/ StopFinish

Next == Dealer \/ Writer \/ Main

(* The writer thread is always scheduled, and main once it has begun to stop. *)
Fairness == WF_vars(Writer) /\ WF_vars(StopRequest \/ StopFinish)

Spec == Init /\ [][Next]_vars /\ Fairness

-----------------------------------------------------------------------------
(* Properties.                                                             *)

(* The writer is a queue that loses only its oldest requests: what is written  *)
(* is written in the order it was queued, once, and a request is passed over    *)
(* only when max_queue_ later ones were pushed before its turn.               *)
Fifo == INSTANCE LossyFifo WITH Capacity <- MaxQueue, offered <- pushed, last <- last
ImplementsLossyFifo == Fifo!Spec

MaxRequests == MaxReplies * 9
InWork(n) ==
  \/ \E i \in 1..Len(queue) : queue[i].n = n
  \/ writer = "saving" /\ hand.n = n

(* No request waits for ever, however busy the dealer thread is: it is written *)
(* or dropped, or main has stopped the writer; and then the join returns.      *)
EveryRequestSettled ==
  /\ \A n \in 1..MaxRequests : InWork(n) ~> (~InWork(n) \/ main = "stopped")
  /\ main = "stopping" ~> main = "stopped"

(* The detections that on_ai_result_ saves as a pair's AI result are still in   *)
(* its AI files when all that the reply queued has been written.              *)
DetectionsKept ==
  batch = <<>> /\ queue = <<>> /\ writer # "saving" =>
    \A d \in disk : d.what.file \in {"AI_L", "AI_R"} => d.what.content = "detections"
=============================================================================
