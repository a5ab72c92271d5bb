------------------------------- MODULE FramePath -------------------------------
(***************************************************************************)
(* How camera frames become pairs: a subscriber thread puts the frames of the   *)
(* image channel into the inspection queue of DataBuffer, inspection_loop_ of   *)
(* PreprocessModule takes them out, and a full queue refuses the newest frame.  *)
(* Nothing empties the queue when a session ends, so what is in it is taken by  *)
(* the next one.  While the sub-task is Installation the loop sends at most     *)
(* one pair in an interval and discards the frames between.                     *)
(*                                                                         *)
(* The working distance (latest_depth_, which reading does not consume) decides *)
(* nothing here and is left out.  What becomes of a pair that is sent is         *)
(* modelled in PendingRequests; starts and stops overlap in SessionControl, here *)
(* they come one at a time.                                                 *)
(***************************************************************************)
EXTENDS Naturals, Sequences, FiniteSets

CONSTANTS
  Cap,          \* inspection_capacity_: preprocess.spsc_capacity, 100 in the code
  Interval,     \* min_interval_ms of an installation: 1000 ms in the code
  MaxFrames,    \* bound: image frames received
  SetTasks,     \* the sub-tasks a client sets with SetSubTask
  MaxSessions,  \* bound: inspections started
  MaxTime       \* bound: ticks of the clock

ASSUME CapAssumption == Cap \in Nat
ASSUME IntervalAssumption == Interval \in Nat
ASSUME TasksAssumption == SetTasks \subseteq {"Installation", "GapInspection", "Marking"}
ASSUME BoundsAssumption ==
  MaxFrames \in Nat /\ MaxSessions \in Nat /\ MaxTime \in Nat

VARIABLES
  now,        \* steady_clock
  received,   \* history: the number of image frames received
  frame,      \* the frame that the subscriber's callback is about to queue
  queue,      \* inspection_queue_
  paused,     \* g_processing_paused
  running,    \* running_
  subTask,    \* sub_task_
  thread,     \* inspection_loop_: none, or where it is
  hand,       \* the frame in the loop's hands
  lastSend,   \* last_ai_send, 0 while there is no loop
  paced,      \* the sub-task the loop read for that frame was Installation
  api,        \* the API call in progress
  session,    \* history: the number of sessions started
  used,       \* history: what the loop did with the frame it had in hand last
  paceFrom,   \* history: when the loop began or its last installation pair was taken
  stale       \* history: the frames of earlier sessions used in this one

subscriberVars == <<received, frame>>
history == <<used, paceFrom, stale>>
loopVars == <<thread, hand, lastSend, paced, history>>
apiVars  == <<api, session>>
flags    == <<paused, running, subTask>>
vars == <<now, subscriberVars, queue, flags, loopVars, apiVars>>

SubTasks == {"None", "Installation"} \cup SetTasks
\* A frame is its number and the session it was received in.
Frames == [n : 0..MaxFrames, session : 0..MaxSessions]
NoFrame == [n |-> 0, session |-> 0]

Fates == {"none", "empty", "discarded", "installation", "inspection"}
Uses == [n : 0..MaxFrames, fate : Fates, at : 0..MaxTime, from : 0..MaxTime]
NotUsed == [n |-> 0, fate |-> "none", at |-> 0, from |-> 0]

TypeOK ==
  /\ now \in 0..MaxTime
  /\ received \in 0..MaxFrames
  /\ frame \in Frames
  /\ queue \in Seq(Frames) /\ Len(queue) <= Cap
  /\ paused \in BOOLEAN /\ running \in BOOLEAN /\ subTask \in SubTasks
  /\ thread \in {"none", "new", "top", "waiting", "deciding", "sending"}
  /\ hand \in Frames /\ lastSend \in 0..now /\ paced \in BOOLEAN
  /\ api \in {"none", "starting", "inspecting", "joining", "joined"}
  /\ session \in 0..MaxSessions
  /\ used \in Uses /\ paceFrom \in 0..MaxTime /\ stale \in Nat

Init ==
  /\ now = 0
  /\ received = 0 /\ frame = NoFrame
  /\ queue = <<>>
  /\ paused = TRUE /\ running = FALSE /\ subTask = "None"
  /\ thread = "none" /\ hand = NoFrame /\ lastSend = 0 /\ paced = FALSE
  /\ used = NotUsed /\ paceFrom = 0 /\ stale = 0
  /\ api = "none" /\ session = 0

Tick ==
  /\ now < MaxTime
  /\ now' = now + 1
  /\ UNCHANGED <<subscriberVars, queue, flags, loopVars, apiVars>>

-----------------------------------------------------------------------------
(* The subscriber's callback for an image.  The shipped configurations have one   *)
(* image channel, so one thread queues frames.  The live image is left out.      *)

\* put, put_stereo, and the test of the pause flag
Receive ==
  /\ frame = NoFrame /\ received < MaxFrames
  /\ received' = received + 1
  /\ frame' = IF paused THEN NoFrame ELSE [n |-> received + 1, session |-> session]
  /\ UNCHANGED <<now, queue, flags, loopVars, apiVars>>

\* Faulty: the queue takes one frame more than its capacity.
QueuedOffByOne == IF Len(queue) > Cap THEN queue ELSE Append(queue, frame)

\* enqueue_inspection refuses a frame when the queue is full.
Queued == IF Len(queue) >= Cap THEN queue ELSE Append(queue, frame)

Enqueue ==
  /\ frame # NoFrame
  /\ queue' = Queued
  /\ frame' = NoFrame
  /\ UNCHANGED <<now, received, flags, loopVars, apiVars>>

-----------------------------------------------------------------------------
(* The capture thread.                                                      *)

LoopBegin ==
  /\ thread = "new"
  /\ lastSend' = now
  /\ paceFrom' = now
  /\ thread' = "top"
  /\ UNCHANGED <<now, subscriberVars, queue, flags, hand, paced, used, stale, apiVars>>

LoopTop ==
  /\ thread = "top"
  /\ IF running
       THEN thread' = "waiting" /\ UNCHANGED lastSend
       ELSE thread' = "none" /\ lastSend' = 0
  /\ UNCHANGED <<now, subscriberVars, queue, flags, hand, paced, history, apiVars>>

\* Faulty: the thread ends when no frame comes for 200 ms.
WaitTimeoutEnding ==
  /\ thread = "waiting" /\ queue = <<>>
  /\ thread' = "none"
  /\ UNCHANGED <<now, subscriberVars, queue, flags, hand, lastSend, paced, history,
                 apiVars>>

WaitTimeout ==
  /\ thread = "waiting" /\ queue = <<>>
  /\ thread' = "top"
  /\ UNCHANGED <<now, subscriberVars, queue, flags, hand, lastSend, paced, history,
                 apiVars>>

\* Faulty: dequeue_inspection leaves the frame in the queue once a stop is under way.
RestKeeping == IF running THEN Tail(queue) ELSE queue

Rest == Tail(queue)

\* dequeue_inspection
Take ==
  /\ thread = "waiting" /\ queue # <<>>
  /\ hand' = Head(queue)
  /\ queue' = Rest
  /\ thread' = "deciding"
  /\ UNCHANGED <<now, subscriberVars, flags, lastSend, paced, history, apiVars>>

\* The loop is done with the frame in its hands.
Use(fate, at, from) ==
  /\ used' = [n |-> hand.n, fate |-> fate, at |-> at, from |-> from]
  /\ stale' = IF hand.session < session THEN stale + 1 ELSE stale
  /\ thread' = "top" /\ hand' = NoFrame /\ paced' = FALSE

\* A frame without data is dropped.
Drop ==
  /\ thread = "deciding"
  /\ Use("empty", 0, 0)
  /\ UNCHANGED <<now, subscriberVars, queue, flags, lastSend, paceFrom, apiVars>>

TooSoon == subTask = "Installation" /\ now - lastSend < Interval

\* During an installation, a frame that comes too soon is discarded.
Discard ==
  /\ thread = "deciding" /\ TooSoon
  /\ Use("discarded", now, paceFrom)
  /\ UNCHANGED <<now, subscriberVars, queue, flags, lastSend, paceFrom, apiVars>>

\* Faulty: the clock is set to when the next pair will be due.
KeepPaceAhead ==
  /\ paced' = (subTask = "Installation")
  /\ lastSend' = IF subTask = "Installation" THEN now + Interval ELSE lastSend

\* Faulty: the clock of the installation does not start again with a pair.
KeepPaceUnreset ==
  /\ paced' = (subTask = "Installation")
  /\ UNCHANGED lastSend

KeepPace ==
  /\ paced' = (subTask = "Installation")
  /\ lastSend' = IF subTask = "Installation" THEN now ELSE lastSend

Accept ==
  /\ thread = "deciding" /\ ~TooSoon
  /\ KeepPace
  /\ thread' = "sending"
  /\ UNCHANGED <<now, subscriberVars, queue, flags, hand, history, apiVars>>

\* process_pair_
Send ==
  /\ thread = "sending"
  /\ IF paced THEN Use("installation", lastSend, paceFrom) /\ paceFrom' = lastSend
              ELSE Use("inspection", 0, 0) /\ UNCHANGED paceFrom
  /\ UNCHANGED <<now, subscriberVars, queue, flags, lastSend, apiVars>>

-----------------------------------------------------------------------------
(* The API: StartInspection, StopInspection, and calls that other workers run    *)
(* meanwhile.                                                              *)

StartUnpause ==
  /\ api = "none" /\ session < MaxSessions
  /\ api' = "starting"
  /\ session' = session + 1
  /\ paused' = FALSE
  /\ stale' = 0
  /\ UNCHANGED <<now, subscriberVars, queue, running, subTask, thread, hand, lastSend, paced,
                 used, paceFrom>>

StartRun ==
  /\ api = "starting" /\ thread = "none"
  /\ api' = "inspecting"
  /\ subTask' = "Installation"
  /\ running' = TRUE
  /\ thread' = "new"
  /\ UNCHANGED <<now, subscriberVars, queue, paused, hand, lastSend, paced, history,
                 session>>

StopHalt ==
  /\ api = "inspecting"
  /\ api' = "joining"
  /\ running' = FALSE
  /\ UNCHANGED <<now, subscriberVars, queue, paused, subTask, loopVars, session>>

StopJoin ==
  /\ api = "joining" /\ thread = "none"
  /\ api' = "joined"
  /\ subTask' = "None"
  /\ UNCHANGED <<now, subscriberVars, queue, paused, running, loopVars, session>>

StopPause ==
  /\ api = "joined"
  /\ api' = "none"
  /\ paused' = TRUE
  /\ UNCHANGED <<now, subscriberVars, queue, running, subTask, loopVars, session>>

\* SetParameter processing_paused
SetPaused(value) ==
  /\ paused' = value
  /\ UNCHANGED <<now, subscriberVars, queue, running, subTask, loopVars, apiVars>>

SetSubTask(value) ==
  /\ subTask' = value
  /\ UNCHANGED <<now, subscriberVars, queue, paused, running, loopVars, apiVars>>

-----------------------------------------------------------------------------
Subscribers == Receive \/ Enqueue

Capture == LoopBegin \/ LoopTop \/ WaitTimeout \/ Take \/ Drop \/ Discard \/ Accept \/ Send

Api ==
  \/ StartUnpause \/ StartRun \/ StopHalt \/ StopJoin \/ StopPause
  \/ \E value \in BOOLEAN : SetPaused(value)
  \/ \E value \in SetTasks : SetSubTask(value)

Next == Tick \/ Subscribers \/ Capture \/ Api

(* The capture thread is always scheduled: its wait times out after 200 ms.       *)
Fairness == WF_vars(Capture)

Spec == Init /\ [][Next]_vars /\ Fairness

-----------------------------------------------------------------------------
(* Properties.                                                             *)

(* Frames of earlier sessions do reach a session, since the queue survives, but    *)
(* no more than the queue holds and the one the subscriber had in its hands.       *)
StaleFramesBounded == stale <= Cap + 1

(* Within a session, installation pairs are an interval apart and the first comes   *)
(* an interval after the loop began, however often the sub-task changes; and a      *)
(* frame is discarded only when an interval has not yet passed.                  *)
InstallationPaced ==
  /\ used.fate = "installation" => used.at - used.from >= Interval
  /\ used.fate = "discarded" => used.at - used.from < Interval

(* Over all sessions, the loop takes frames in the order in which the camera sent    *)
(* them, and none twice: the one in its hands is newer than any it has used.        *)
FramesInOrder == hand # NoFrame => hand.n > used.n

Waiting(n) == \E i \in 1..Len(queue) : queue[i].n = n

(* A frame in the queue is taken out of it unless the inspection is stopped.        *)
FramesLeave ==
  \A n \in 1..MaxFrames : Waiting(n) /\ running ~> ~Waiting(n) \/ ~running
=============================================================================
