------------------------------- MODULE LiveView -------------------------------
(***************************************************************************)
(* The live image: the subscriber's callback lets one frame of the left camera   *)
(* through in an interval, and ImageEncoder compresses it in a thread of its own    *)
(* and broadcasts it.  The encoder holds a few requests and drops its oldest when    *)
(* another comes.                                                            *)
(*                                                                         *)
(* A frame is raw, whole rows of 1920 BGRA pixels, or something else; the crop of     *)
(* a stacked pair and the header are left out.  A request is the number of its         *)
(* enqueue call.  The wait of encode_loop_ ends by a notification or its 200 ms       *)
(* timeout.  The broadcast, modelled in WSSServer, sends on blocking sockets under one  *)
(* mutex: while a subscriber does not read, the encoder's callback does not return.    *)
(***************************************************************************)
EXTENDS Naturals, Sequences

CONSTANTS
  MaxQueued,      \* MAX_QUEUE, 5 in the code
  LiveInterval,   \* 200 ms in the code
  MaxLive,        \* bound: requests queued
  MaxClock        \* bound: ticks of the clock

ASSUME MaxQueuedAssumption == MaxQueued \in Nat \ {0}
ASSUME LiveAssumption == LiveInterval \in Nat /\ MaxLive \in Nat /\ MaxClock \in Nat

VARIABLES
  viewer,      \* what main has done: nothing, started the encoder, how far it is stopped
  encoding,    \* running_ of ImageEncoder
  requests,    \* queue_
  encoder,     \* encode_loop_: where it is
  picture,     \* the request in its hands
  ended,       \* history: the request it has been through with last
  offered,     \* history: the number of requests queued
  clock,       \* steady_clock
  lastLive,    \* last_live_ts, set when the callback first comes to it
  looked,      \* whether it has come to it
  shownAt,     \* history: when the callback let the last two frames through
  stalled      \* whether a subscriber of the push server does not read

encoderVars == <<requests, encoder, picture, ended>>
callbackVars == <<offered, lastLive, looked, shownAt>>
worldVars == <<clock, stalled>>
viewVars == <<viewer, encoding, encoderVars, callbackVars, worldVars>>

ViewTypeOK ==
  /\ viewer \in {"new", "up", "unsubscribed", "stopping", "stopped"}
  /\ encoding \in BOOLEAN
  /\ requests \in Seq(1..MaxLive) /\ Len(requests) <= MaxQueued
  /\ encoder \in {"none", "top", "waiting", "encoding", "calling"}
  /\ picture \in 0..MaxLive /\ ended \in 0..MaxLive /\ offered \in 0..MaxLive
  /\ clock \in 0..MaxClock /\ lastLive \in 0..clock /\ looked \in BOOLEAN
  /\ shownAt \in [before : 0..clock, now : 0..clock, frames : 0..2]
  /\ stalled \in BOOLEAN

ViewInit ==
  /\ viewer = "new" /\ encoding = FALSE
  /\ requests = <<>> /\ encoder = "none" /\ picture = 0 /\ ended = 0
  /\ offered = 0 /\ clock = 0 /\ lastLive = 0 /\ looked = FALSE
  /\ shownAt = [before |-> 0, now |-> 0, frames |-> 0]
  /\ stalled = FALSE

ClockTick ==
  /\ viewer # "new" /\ clock < MaxClock
  /\ clock' = clock + 1
  /\ UNCHANGED <<viewer, encoding, encoderVars, callbackVars, stalled>>

\* A subscriber stops reading; and it reads on, or leaves.
SubscriberStalls ==
  /\ viewer # "new" /\ ~stalled
  /\ stalled' = TRUE
  /\ UNCHANGED <<viewer, encoding, encoderVars, callbackVars, clock>>

SubscriberReads ==
  /\ stalled
  /\ stalled' = FALSE
  /\ UNCHANGED <<viewer, encoding, encoderVars, callbackVars, clock>>

-----------------------------------------------------------------------------
(* The subscriber's callback.                                                *)

Shown(at) == [before |-> shownAt.now, now |-> at,
              frames |-> IF shownAt.frames = 0 THEN 1 ELSE 2]

\* Faulty: the request that does not fit is the one that is dropped.
EnqueuedUnlessFull(n) == IF Len(requests) >= MaxQueued THEN requests ELSE Append(requests, n)

\* ImageEncoder::enqueue
Enqueued(n) ==
  Append(IF Len(requests) >= MaxQueued THEN Tail(requests) ELSE requests, n)

Offer ==
  IF encoding
    THEN /\ offered < MaxLive
         /\ offered' = offered + 1
         /\ requests' = Enqueued(offered + 1)
         /\ shownAt' = Shown(clock)
    ELSE UNCHANGED <<offered, requests, shownAt>>

\* Faulty: last_live_ts is set only once, when the callback first comes to it.
LetThroughOnce(raw) ==
  /\ clock - lastLive >= LiveInterval
  /\ IF raw THEN Offer ELSE UNCHANGED <<offered, requests, shownAt>>
  /\ UNCHANGED lastLive

\* A frame that is not raw uses up the interval without being shown.
LetThrough(raw) ==
  /\ clock - lastLive >= LiveInterval
  /\ lastLive' = clock
  /\ IF raw THEN Offer ELSE UNCHANGED <<offered, requests, shownAt>>

LiveFrame(raw) ==
  /\ viewer = "up" /\ looked
  /\ LetThrough(raw)
  /\ UNCHANGED <<viewer, encoding, encoder, picture, ended, looked, worldVars>>

\* The static variable is initialised now, so the first frame is never shown.
FirstFrame ==
  /\ viewer = "up" /\ ~looked
  /\ looked' = TRUE
  /\ lastLive' = clock
  /\ UNCHANGED <<viewer, encoding, encoderVars, offered, shownAt, worldVars>>

-----------------------------------------------------------------------------
(* encode_loop_                                                             *)

EncoderTop ==
  /\ encoder = "top"
  /\ encoder' = IF encoding THEN "waiting" ELSE "none"
  /\ UNCHANGED <<viewer, encoding, requests, picture, ended, callbackVars, worldVars>>

EncoderIdle ==
  /\ encoder = "waiting" /\ requests = <<>>
  /\ encoder' = IF encoding THEN "top" ELSE "none"
  /\ UNCHANGED <<viewer, encoding, requests, picture, ended, callbackVars, worldVars>>

\* Faulty: the newest request is taken.
TakeNewest ==
  /\ encoder = "waiting" /\ requests # <<>>
  /\ picture' = requests[Len(requests)]
  /\ requests' = SubSeq(requests, 1, Len(requests) - 1)
  /\ encoder' = "encoding"
  /\ UNCHANGED <<viewer, encoding, ended, callbackVars, worldVars>>

TakeRequest ==
  /\ encoder = "waiting" /\ requests # <<>>
  /\ picture' = Head(requests)
  /\ requests' = Tail(requests)
  /\ encoder' = "encoding"
  /\ UNCHANGED <<viewer, encoding, ended, callbackVars, worldVars>>

\* Faulty: a picture that cannot be compressed ends the loop.
EncodeFailsEnding ==
  /\ encoder = "encoding"
  /\ encoder' = "none"
  /\ ended' = picture
  /\ UNCHANGED <<viewer, encoding, requests, picture, callbackVars, worldVars>>

\* tjCompress2 fails: the picture is skipped.
EncodeFails ==
  /\ encoder = "encoding"
  /\ encoder' = "top"
  /\ ended' = picture
  /\ UNCHANGED <<viewer, encoding, requests, picture, callbackVars, worldVars>>

Encode ==
  /\ encoder = "encoding"
  /\ encoder' = "calling"
  /\ UNCHANGED <<viewer, encoding, requests, picture, ended, callbackVars, worldVars>>

\* callback_: broadcast_binary, which returns when every subscriber has read
CallBack ==
  /\ encoder = "calling" /\ ~stalled
  /\ encoder' = "top"
  /\ ended' = picture
  /\ UNCHANGED <<viewer, encoding, requests, picture, callbackVars, worldVars>>

-----------------------------------------------------------------------------
(* main: start; at shutdown the subscriber first, then the encoder.           *)

StartEncoder ==
  /\ viewer = "new"
  /\ viewer' = "up"
  /\ encoding' = TRUE
  /\ encoder' = "top"
  /\ UNCHANGED <<requests, picture, ended, callbackVars, worldVars>>

\* DataSubscriber::stop joins the thread that runs the callback.
Unsubscribe ==
  /\ viewer = "up"
  /\ viewer' = "unsubscribed"
  /\ UNCHANGED <<encoding, encoderVars, callbackVars, worldVars>>

StopEncoder ==
  /\ viewer = "unsubscribed"
  /\ viewer' = "stopping"
  /\ encoding' = FALSE
  /\ UNCHANGED <<encoderVars, callbackVars, worldVars>>

JoinEncoder ==
  /\ viewer = "stopping" /\ encoder = "none"
  /\ viewer' = "stopped"
  /\ UNCHANGED <<encoding, encoderVars, callbackVars, worldVars>>

-----------------------------------------------------------------------------
EncoderThread == EncoderTop \/ EncoderIdle \/ TakeRequest \/ EncodeFails \/ Encode \/ CallBack
ViewMain == StartEncoder \/ Unsubscribe \/ StopEncoder \/ JoinEncoder
Subscriber == FirstFrame \/ \E raw \in BOOLEAN : LiveFrame(raw)

World == ClockTick \/ SubscriberStalls \/ SubscriberReads

ViewNext == World \/ EncoderThread \/ ViewMain \/ Subscriber

(* The encoder thread is scheduled, and main goes on once it has begun to shut down.   *)
(* A stalled subscriber owes nothing: it may never read again.                    *)
ViewFairness == WF_viewVars(EncoderThread) /\ WF_viewVars(StopEncoder \/ JoinEncoder)

ViewSpec == ViewInit /\ [][ViewNext]_viewVars /\ ViewFairness

-----------------------------------------------------------------------------
(* Properties.                                                             *)

(* The viewer sees frames in the order they were taken, each once, and misses one     *)
(* that was let through only when it is damaged or MAX_QUEUE later ones came.        *)
ViewFifo == INSTANCE LossyFifo WITH Capacity <- MaxQueued, last <- ended
ViewImplementsLossyFifo == ViewFifo!Spec

(* Frames that reach the encoder are an interval apart, whatever else comes between.   *)
LivePaced == shownAt.frames = 2 => shownAt.now - shownAt.before >= LiveInterval

InEncoder(n) ==
  \/ \E i \in 1..Len(requests) : requests[i] = n
  \/ encoder \in {"encoding", "calling"} /\ picture = n

(* Once no subscriber stalls any more, no request stays with the encoder for ever, and  *)
(* its stop returns.                                                         *)
EveryFrameSettled ==
  /\ \A n \in 1..MaxLive : InEncoder(n) ~> (~InEncoder(n) \/ viewer = "stopped" \/ stalled)
  /\ viewer = "stopping" ~> (viewer = "stopped" \/ stalled)
=============================================================================
