# A verification of ECIDS Core in TLA+

ECIDS Core inspects escalators: a stereo camera sends image pairs, an AI service
(AIVD) detects steps and cleats in them, Core measures gaps, publishes the results and
files everything under a record on disk. Core is one C++ process with about a dozen
threads. This directory holds models of its parts, the TLC runs that check them on
small instances, and theorems about them that TLAPS proves for every instance.
File names below are relative to the repository's root.

## 1. The system

### Parts, state, operations

| part | state | operations | threads that run them |
|---|---|---|---|
| `PreprocessModule` | `running_`, `thread_`, `ai_test_mode_`, `active_record_path_`, `sub_task_`, `pair_index_`, `pending_` | start/stop of an inspection and of an AI test, `set_sub_task`, the two capture loops, `process_pair_`, `process_pair_file_`, `on_ai_result_`, `clear_pending` | API workers, the capture thread, the dealer thread |
| `DetectionDealer` (API2a) | two ZeroMQ sockets, `running_` | send a request, poll replies, notice a reconnect | capture thread, dealer thread |
| `DatabaseWriter` | `queue_`, `max_queue_`, `running_` | enqueue an image, an AI result or a stereo result; the writer loop; start, stop | dealer thread, writer thread, main |
| `RecordManager` | `active_record_`, the files of a record | create records, save files | API workers, writer, dealer, capture |
| API handlers (`main.cpp`) | `g_processing_paused`, the installation averages | StartInspection, StopInspection, StartAITest, StopAITest, SetMode, SetSubTask, parameters, history | four API workers, one detached thread for every AI test |
| `TaskManager`, `ModeController`, `StatusTracker` | the task, the mode, `task_active_` and other flags | set, get | API workers, completion threads |
| `ClientServer` (API3a) | a queue of at most 64 connections, four workers | accept, route, stop | acceptor, workers |
| `DataSubscriber` (API1), `DataBuffer` | half pairs by frame id, an inspection queue of 100, the newest depth frame, the time of the last live image | push, dequeue | one subscriber thread a channel, capture thread |
| `ImageEncoder` | a queue of 5 pictures to show, `running_` | enqueue, loop, start, stop | subscriber thread, encoder thread, main |
| `PostprocessModule` | the same-gap checker's previous gap | `process`, `process_ai_test` and the algorithms they call | dealer thread |
| `WSSServer` (API3c), `DataPublisher` (API3b) | client connections and their topics; one socket | broadcast, client loop, stop | one thread a client, dealer, encoder, API workers |
| `HouseKeeper` | `running_`, its condition variable, the years on disk | check, remove, stop | its own thread |
| GetHistory, GetRecord, GetImage (`main.cpp`) | none of their own: the records on disk | list, count, read | API workers |
| `StereoCameraClient`, `AIAdminClient`, `ConfigManager`, `Logger`, `ImagePackager`, `DatabaseManager`, `scripts/start.sh` | none that outlives a call, or set once | requests to other services, configuration, logs | several |

### How they interact

    camera -> DataSubscriber -> DataBuffer -> capture thread --request--> AIVD
                          \-> ImageEncoder -> WSSServer        |             |
                                                          pending_ <-reply- dealer thread
    clients -> ClientServer workers -> start/stop         |                  |
                          \-> status, task, mode, record  v                  v
                                                  DatabaseWriter <- files - PostprocessModule
                                                          v
                                                        disk

A request carries a transaction id. The images stay in `pending_` under that id until
the reply comes; `on_ai_result_` then queues the images and detections for the writer
and hands both to the result callback, which runs `PostprocessModule` and queues more
files. The API's workers start and stop the capture thread while all that goes on, and
write status flags, task, mode and active record one by one, without a common lock.

### What is hard about it, and what makes each part correct

* *Pairing of requests and replies.* Requests are lost, replies are late, repeated or
  unknown, AIVD may answer before `pending_` holds the entry, it may reconnect, the wall
  clock that makes the ids may be set back, and a session change empties `pending_` and
  starts the numbering again. The path of the record is read anew for every file of a reply, without a lock, while
  stops and starts change it. Correct means: no images used twice, memory bounded, no pair's files over
  another's of its record, as little as can be under another record, and a result has the images it was computed from.
* *Sessions.* Four workers and the completion threads of AI tests interleave step by
  step through starts and stops; a start may fail half-way, a capture thread may throw. Correct means: what Core says about itself agrees with
  what it does, calls return, Core does not terminate, tasks end.
* *Filing.* The writer may be slower than its producers. Correct means: what is lost is
  what was oldest, the rest is written in order, nothing waits for ever, and a file
  keeps what its producer meant it to hold.
* *Frames.* The queue between the subscriber and the capture thread survives sessions, and
  an installation paces the pairs by one clock. Correct means: frames stay in order, few frames of
  an earlier session get into the next, the interval is kept, and no frame stays in the queue.
* *Connections of the push server.* Detached threads delete their connections while broadcasts go
  through the list and stop deletes what is left. Correct means: a connection is used only while it
  exists, no client that stays is passed over, nobody waits for ever.
* *The API's server.* Workers repeat reads and writes on sockets of clients that may be silent, the
  queue is bounded, and stop pulls the socket, the TLS context and the handlers' objects from under them. Correct
  means: each connection is served by one worker once, no client waits for ever because of the
  others, stop returns, and nothing runs after it.
* *The live image.* One thread paces and queues, another compresses what it can. Correct means: the
  interval is kept, what is shown is in order, what is lost is what was oldest, nothing stays in the queue.
* *The store.* Handlers create records, the writer fills them, HouseKeeper removes whole years and the workers
  read, all at once and without a lock; files with one index are written over. Correct means: only years in excess
  lose what was saved, the store comes back under its limit, a reader is told what was saved and nothing half-written,
  and Core survives but for causes that can be named.
* *Measuring.* A reply's detections go through extractor, same-gap checker, classifier, a random fit and a
  localizer. Correct means: what is skipped is like what was analysed last, an edge does not depend on the
  samples drawn, and a line starts at a cleat of its own side.

`PROJECT.json` lists every one of these hazards at its line with the properties that
would catch it.

## 2. The modules

| module | what it is |
|---|---|
| `PendingRequests` | the transaction pipeline of `PreprocessModule` with the link to AIVD |
| `PendingRequestsProofs` | theorems about it |
| `LossyFifo` | the abstract specification of a queue that drops its oldest entries |
| `DatabaseWriter` | the writer, its producer and its life between start and stop; refines `LossyFifo` |
| `DatabaseWriterProofs` | its types, and the refinement, for every capacity |
| `SessionControl` | starts, stops, SetMode and AI test completion, step by step |
| `SessionControlProofs` | its types, when Core terminates, and what its status tells, for any number of workers and sessions |
| `FramePath` | the subscriber's callback, the inspection queue of `DataBuffer`, and the inspection loop |
| `FramePathProofs` | theorems about it |
| `WSSServer` | the push server: accepting, client threads, broadcasts, stop |
| `WSSServerProofs` | theorems about it |
| `ClientServer` | the HTTPS server: acceptor, queue, workers, clients, start and stop |
| `LiveView` | the live image: the callback's pace, `ImageEncoder`, main's stops; refines `LossyFifo` |
| `ServerViewProofs` | theorems about `ClientServer` and about `LiveView`, with its refinement |
| `RecordStore` | the records on disk with all that use them: handlers, writer, `HouseKeeper`, readers |
| `RecordStoreProofs` | theorems about it |
| `GapPipeline` | from detections to gap lines, and the memory of the same-gap checker |
| `GapPipelineProofs` | theorems about it, for any replies, thresholds and random draws |
| `MC...` | the same modules as they are model-checked; some put two modules side by side (section 3) |

### PendingRequests

Three threads and an environment. The *capture thread* (`thread`, `cur`) takes two
steps for a pair: `BeginPair` numbers the pair, takes a transaction id and sends the
request (and, in File mode, saves the pair's images); `StorePair` puts the entry into
`pending_`. Between the two the reply may already be there, which is why they are two
steps. `LoopExit` is the end of either loop. The *dealer thread* takes an entry under the mutex
(`TakeOwn`, `TakeOldest` with its 30-second rule, or `TakeNothing`) and files it after the unlock as the code does: it tests
`active_record_path_` (`TestRecord`), reads `ai_test_mode_` (`ChooseFolder`), reads the path again for each of L, R, AI_L
and AI_R (`FileNext`), and calls the result callback (`Deliver`). `PathRead` is what such a read may give: the path as it is or,
while another thread clears or assigns it, also a path of no record. The dealer thread
also runs `Reconnect`. The *API thread* runs starts (`StartClear`, `StartRecord`, which assigns the path, `StartRun`), stops
(`StopRequest`, `StopFinish`, with the join between them) and `SetSubTask`; its calls are
one at a time here, since `SessionControl` has their overlaps. The *environment* ticks the
clock, sets the wall clock back, loses requests and replies, invents replies.

Data: a pair's images are its number, a record is the number of its session, a
transaction id is the wall-clock time. `Timestamp::now_string` resolves a millisecond and
a pair takes longer than that to encode, so a tick separates two pairs (`cur.at < now`);
string order of the ids is time order. `delivered`, `saved`, `filed` and `disturbed` are history:
what was handed on, what was saved by the capture thread and filed by the dealer thread (with whether the path had changed since the
filing began, `interrupted`), and whether anything has happened that may break the
pairing (an early, late or unknown reply, a reconnect, an overfull `pending_`, a clock set back).

### LossyFifo and DatabaseWriter

`LossyFifo` promises a producer that requests are served at most once and in
order, and that one is passed over only when `Capacity` later ones have been offered.
`DatabaseWriter` has the queue, the writer's loop (`WriterTop`, `WriterTimeout`,
`WriterTake`, `WriterSave`), the dealer thread that queues all files of a reply in the
order of `on_ai_result_` and `PostprocessModule` (`Reply`, `Enqueue`), and main's start and
stops. `Matches` is which images a reply may find; the detections of both cameras are queued whatever it finds.
Requests are numbered as they are pushed; the refinement maps `offered` to the number
pushed and `last` to the number written last. `disk` keeps the newest content of every
file, contents being told apart only by who made them.

### SessionControl

Every handler is a program counter in `pc`; each of its steps touches one shared
object, as the code does: check, mode, task, status, record, pause flag, camera, join,
run, spawn for a start; halt, join, and the same in the other direction for a stop. `StartRecordFails` is a
`create_directories` that throws: the handler answers an error and leaves mode, task and status as they are (`failed` notes it
until a stop). `CaptureThrows` is an exception out of a capture loop, for a test path that is no readable
directory or an image that cannot be saved: there is no `try`, so Core terminates (`threw`).
The completion thread of an AI test goes by the number of its session: `AITestEnds` puts it to
sleep, `CompletionWakes` lets it do what StopAITest does. `thread_` is a flag
(`joinable`), who waits in its join (`joining`), and the capture thread's `loop`. A
second join of a thread somebody already joins throws, which a start answers with an error and a
stop does not catch; assigning to a `std::thread` that holds a thread terminates Core.
`tangled` is history: two calls overlapped, and no call that ran alone has stopped
everything since.

### FramePath

The *subscriber thread* receives an image (`Receive`), which tests `g_processing_paused`, and queues it in a
later step (`Enqueue`, `Queued`): a start or a stop may come between. The *capture thread* is
`inspection_loop_`: `LoopBegin`, `LoopTop`, then `WaitTimeout` or `Take`, then `Drop` (a frame
without data), `Discard` (too soon for an installation) or `Accept` with `KeepPace`, and `Send`. The
sub-task is read once for each frame, as in the code. The *API* starts and stops one inspection after another and, at
any moment, sets the pause flag or the sub-task. A frame is its number and the session it
was received in; `used`, `paceFrom` and `stale` are history. The depth frame is left out: it decides only a
reported distance. `PendingRequests` begins where `Send` ends; the two share no state but
the session's flags.

### WSSServer

The *accept thread* handles one connection at a time from `Accept` to `Spawn`. Each *client thread* goes through
`Lookup`, the loop (`LoopTop`, `PollAgain`, `ChangeBegin` and `ChangeEnd`, `Hangup`, `EmptyMessage`), `Leave`, `Erase` and
`Free`. A *broadcast* is `CastBegin`, a visit (`Skip` or `Write`) for each listed client, and `CastEnd`; `casting` is
`clients_mutex_`, which only broadcasts hold over several steps. *stop* is `StopRequest`, `StopJoin`, `StopFree`. *Clients*
stall, resume and close. `broken` names undefined behaviour that has happened: topics read while they
change, a `ClientConn` used or deleted after its deletion; the model says nothing of what
follows. `steady` and `sent` are history of the broadcast in progress.

### ClientServer

The *acceptor* (`listener`) is `accept_loop_`: `ListenerTop`, `PollNothing` or `PollReady`, `AcceptClient` or `AcceptFails`
(stop has closed the socket in between), then `PushClient` or, with a full queue, `Refuse`. Each *worker* (`thread`)
waits (`WaitEnds`), takes a connection (`TakeClient`), reads it (`ReadRequest`, or `ReadNothing` when the client is gone
or breaks the protocol), calls the handler (`Route`) and answers (`Answer`). The sockets do not block and the code
repeats `SSL_read` and `SSL_write`, so a worker stays in `reading` or `writing` until the client has done something. *main*
is `StartServer`, `StopServer`, `CloseListener`, `JoinListener`, `JoinThreads`. A *client* connects, sends the
rest of its request, stops reading or leaves; one in `Mute` may do nothing at all. `link` says where a connection is and
`client` what its other end does. A handler is one step here; `SessionControl` has its steps.

### LiveView

The *callback* of the subscriber (`FirstFrame`, then `LiveFrame` with `LetThrough` and `Offer`), the *encoder thread*
(`EncoderTop`, `EncoderIdle`, `TakeRequest`, `Encode` or `EncodeFails`, `CallBack`) and *main* (`StartEncoder`; at shutdown
`Unsubscribe`, which joins the callback's thread, `StopEncoder`, `JoinEncoder`). The static `last_live_ts` is
initialised when the callback first comes to it, which is why the first frame is never shown, and a frame that is not raw uses up the
interval. The encoder's callback is a broadcast on blocking sockets: it does not return while a subscriber has stopped reading
(`stalled`, `SubscriberStalls`, `SubscriberReads`). A picture is its number; `ended` and `shownAt` are history. The refinement maps `Capacity` to
`MAX_QUEUE` and `last` to the picture the encoder has been through with last, shown or skipped. The callback runs in
one thread: the shipped configurations name one channel of images each, and every channel has its own thread.

### RecordStore

The disk is three sets: `folders`, `files` (opened) and `whole` (written to their end). *Handlers* create a record of
the current year (`CreateRecord`, or `CreateFails` part way) and close it. The *dealer thread* tests its copy of the path once
(`TestCopy`) and reads it again for each file it queues (`QueueFile`, until `QueueEnds`), so that a file may be queued for the
record before, for the next, or under an empty path (`NoFile`). There are two copies, the manager's `active_record_` and
`PreprocessModule`'s `active_record_path_`; they differ only after a stop of an AI test, which clears the first alone (`left`). Files
of the sub-task Marking are filed under `inspection`, so nothing is queued for `marking`. The *writer* takes a file
(`TakeFile`, which creates what is missing of the path; `TakeAstray` for an empty path; or `EnsureThrows` when `create_directories`
cannot, or a parent goes while it does), opens it (`OpenFile`, which empties a file that was there; or `OpenFails`: the folder is
gone and, since the stream is not tested, so is the file) and writes it. *HouseKeeper*
waits, measures, lists the years, and removes the oldest while the size is too large; `remove_all` is two steps
(`RemoveFiles`, `RemoveFolders`), and what has come in between stays. *Readers* are GetHistory (`HistoryBegin`, `ListFolders`,
`CountFolder`, `HistoryEnd`) and GetRecord (`RecordBegin`, then for each folder its names, `RecordNames`, and its files one by one,
`RecordRead`, then `RecordEnd`). `crashed` says whose thread an
exception has left: the writer loop and the iteration of GetHistory have no `try`. `excess`, `removed`, `stored` and a reader's `opened`
are history. The queue of the writer is only what waits (`toSave`); `DatabaseWriter` has its losses.

### GapPipeline

A pure pipeline with one piece of memory, `previous`. `InspectGap`, `InspectOther` and `TestImage` are `process` (in and out of
the sub-task gap inspection) and `process_ai_test`; `Publish` is the result callback that ends a reply. The
operators are the classes they call: `With`, `TaskOf`, `Gaps`... the extractor; `Median`, `Low`, `High`, `Classified` the
classifier; `FitLine`, `Inlier`, `RansacFits` the edge fitter; `StepsTo`, `LinesOf`, `InImage`, `GapLines` the localizer and the
margin filter; `Similar`, `SameGap`, `Remembered` the same-gap checker. Coordinates are small integers and a line is
`y * dx = dy * x + k` in lowest terms, so that TLC compares without rounding; a comparison with a square root is squared
(`AtLeast`). `RansacFits` is the set of fits that some sequence of random pairs can give. The code's lists of detections are
sets of places in the reply (of which only the first gap's matters: `FirstGap`), and its lists of gap lines are sets, since nothing depends on
their order; sums run over the functions from such places to coordinates, and the median is the least value that more than
`n div 2` of them do not exceed, which is `values[n / 2]` of the sorted values. So the module needs no recursion of its own and can be
reasoned about.

## 3. The runs

| run | instance | shows |
|---|---|---|
| `pending_sessions` | 2 sessions of either kind, 2 pairs, File mode, sub-task changes, capacity 0 | indices, sessions and records stay apart but for one pair a record whose filing a stop or start interrupts; undisturbed results have their own images; a stop returns |
| `pending_link` | 1 session, 3 pairs, every disturbance once, Binary mode | images are used once, `pending_` is bounded, an exact match is right |
| `pending_mismatch` | 2 sessions, nothing lost or early | *violation* of `ResultsCarryOwnImages` (finding 1) |
| `record_store` | 2 years, a limit of 1 file, 3 files of one index, 1 reader | only years in excess lose what was saved; an exception has one of the named causes; readers are told what was saved; HouseKeeper works |
| `server_writer` | `ClientServer`: 2 workers, a queue of 1, 3 clients of whom 1 owes nothing; `DatabaseWriter`: a queue of 2, one reply of 2 to 9 requests | connections are served once and in the end, stop returns and leaves nothing running; the writer implements `LossyFifo` and settles every request |
| `writer_detections` | both cameras, a queue of 10 that loses nothing | *violation* of `DetectionsKept` (finding 2) |
| `session_calls` | 2 workers, 2 sessions, their completion threads; `GapPipeline`: every sequence of 260 replies | state agrees and Core lives on unless calls overlapped (or its capture thread throws); what is skipped, fitted and drawn |
| `session_progress` | 1 worker, 3 sessions; `LiveView`: a queue of 2, 4 pictures, an interval of 1 tick, a subscriber that stalls and reads on | calls return, AI tests are completed; the live image keeps order and pace, and leaves the queue |
| `session_conflict` | 2 workers | *violation* of `OneStartAtATime` (finding 3) |
| `session_completion` | 1 worker, 2 sessions | *violation* of `CompletionEndsItsOwnTest` (finding 4) |
| `frame_queue` | a queue of 2, 4 frames, 2 sessions, an interval of 1 tick | order, age and pace of frames; the queue is emptied while an inspection runs |
| `wss_clients` | 2 connections, any number of broadcasts | connections are used only while they exist until a stop; nobody that stays is missed; the server goes on unless a client stalls |

**Side by side.** `session_calls` (`SessionControl` and `GapPipeline`), `session_progress` (`SessionControl` and `LiveView`) and
`server_writer` (`ClientServer` and `DatabaseWriter`) check two modules that share no variable: the next-state relation of the `MC` module
is a step of one while the other is still in its initial state. The behaviours are those of either module
alone (the other's fair actions are not enabled in its initial state: nothing has been started), so a property holds of the run exactly when it holds of its
module; the product of the two state spaces is never built. The theorems are about the modules, not about these relations.

**Bounds.** `Cap` and `StaleAge` are 200 and 30 s in the code and 0 to 2 in the runs, so
that an overfull `pending_` and a stale entry happen with two or three pairs. Two pairs are enough to
mistake one for the other and three to shift a whole sequence; two sessions to
mistake sessions, and a reply of the first may be filed while the second starts. `pending_link` checks invariants that do not speak of files, so its `VIEW` leaves out where files
were put, which decides no step. The theorems of section 5 hold for all values. A writer's queue of two overflows with the first
reply, which queues two to nine files. Two workers are the least that overlap and every pair of calls overlaps
among them; more workers bring no new pair, only the three-way overlaps that a reader
of `StatusAgrees` would ask about last. Four frames fill a queue of two with one in hand and one
in the subscriber's, the most that can be left over from a session. Two
connections are the least of which one can leave while a broadcast is at the other. One worker more than mute clients is what `EveryoneServed` needs, and a queue of one
is full with one client behind two. One file is the limit of the store, so that two years with a file each are already too
much, a third file can come while a year is removed, and each `removed` year can be filled again; with one index every file of a folder
is one that may be written over. The replies of `GapPipeline` have
up to five cleats a side, the least with a median that leaves two on either side; their edges in every
combination of two heights, in distinct columns or sharing them; and gaps that drift by less and by more than
`NearGap`. Deadlock is not checked because the counters bound the
behaviours (pairs, frames, ticks, sessions, replies), because undefined behaviour ends those of
`WSSServer`, and because Core may terminate or shut down. Symmetry is
used only for the workers of `session_calls`, which checks no liveness.

**Fairness.** `PendingRequests`: the capture thread finishes a pair it has sent and leaves its loop
when it may (its waits time out after 200 ms), and an API call goes on; AIVD, clients and
the clock owe nothing. `DatabaseWriter`: the writer thread is scheduled (its wait times
out after 200 ms), and main goes on once it has begun to stop. `SessionControl`: every
handler and completion thread goes on (the HTTP calls to the camera time out), completion threads wake
after their 120 s, and the capture thread ends when it may; clients owe nothing. `FramePath`: the capture
thread is scheduled. `WSSServer`: its threads are scheduled, a broadcast in progress goes on, and a
thread that waits for `clients_mutex_` gets it in the end (strong fairness: broadcasts come a camera frame apart, so the
mutex is free most of the time). `ClientServer`: its threads are scheduled and
main goes on once it has begun to stop; a client that is not mute sends its request or leaves, which is all that
`EveryoneServed` asks of the outside, and the handler returns (`CallsReturn` says of which calls that is
true). `LiveView`: the encoder thread is scheduled and main goes on; its callback can return only while no subscriber stalls, and a
stalled one owes nothing, so `EveryFrameSettled` speaks of what holds when none stalls.
`RecordStore`: the thread of HouseKeeper is scheduled and its wait of 60 s ends; writer and readers owe nothing.
`GapPipeline` has no liveness.
In `WSSServer` clients owe nothing: one that stops reading is stalled, and `ServerGoesOn` says what
holds without such a client, since with one the code really waits, inside the mutex.

**Mutants.** Each property of a passing run comes with a faulty variant of an operation,
defined next to it and marked `Faulty`, under which TLC finds the property violated.

## 4. Findings

1. *A late reply takes another pair's images* (`PreprocessModule.cpp:416`). A reply whose id is not
   pending takes the oldest entry. A reply AIVD still owed when a session was stopped is
   therefore filed and annotated with images of the next session, and every later
   reply may be shifted by one. `MatchedUnlessDisturbed` says when this cannot happen.
2. *Detections are overwritten* (`PostprocessModule.cpp:428`). `process` queues `AI_L` and `AI_R`
   with only the transaction id after `on_ai_result_` has queued the same files with the
   detections, and the writer keeps the order.
3. *Two starts at once* (`main.cpp:843`). The task-active check and the assignment are
   steps of different handlers without a lock; the consequences reach from a status that does not agree with
   the capture thread to `std::terminate`.
4. *A completion ends another session* (`main.cpp:645`). The completion callback also runs for a
   test that a client stopped, and 120 s later stops whatever runs by then.

## 5. What is proved

All theorems are for every value of the constants, under the `ASSUME`s next to the constants: bounds
and capacities are natural numbers, the queue holds at least one request (with
`database.spsc_capacity` 0 the code pops an empty queue), the mode and the sub-tasks are
the code's, replies number `Nat`.

**PendingRequestsProofs.** None of the properties is inductive. `IInv` adds:
`Shape` (which combinations of thread, call and clock there are; in particular nothing is pending between
`StartClear` and `StartRun`, since the thread that could add an entry has been joined); `HeldOnce` (a
pair's images are in one place: pending, the handler, delivered, or with the capture
thread); `SessionsKept` (an image in the handler is of the session it was taken
in); `FiledKept` (what was filed is as the two properties say, under no later record than the session's; and while the handler
holds a pair of an earlier session, no other pair has strayed into the current record. There is one handler, and a start finds nothing
pending, so each record has one such pair at most); `PlacesUnique` (record and index determine the pair over everything that is pending, held,
delivered, filed or saved, and the current session has used only indices below `pair_index_`);
`IdsUnique` (while the clock has not been set back, ids only grow, so a request and an
entry with one id are of one pair); and `RequestsHaveEntries` (undisturbed, a request that is still
out has its entry). `Inductive` proves `Spec => []IInv`, and from it follow
`TypeCorrect`, `AtMostOnce`, `Bounded`, `OfCurrentSession`, `OwnRecord`, `OneStray`,
`ExactOwn` and `Matched`.

**DatabaseWriterProofs.** `QInv` adds to the types that the queue holds exactly the requests
pushed last, in order, and that every number that is gone from it was written, is being written, or
was dropped when `MaxQueue` later ones had been pushed. `WriterTypeCorrect` and
`WriterIsLossyFifo` follow: the initial state maps to the initial state, `Enqueue` to
`Offer` or a stutter, `WriterSave` to `Serve`, everything else to a stutter.

**SessionControlProofs.** `SInv` adds: `StartsCounted` (the starts that passed the check are those
with a record and those still on the way to one, so records stay within their bound); `OneHolder` (a session is
with the handler that starts it, with the capture thread, or with its completion thread, never
with two, so the thread that ends never overwrites a call in progress); `JoinerKnown` (`joining` is
who waits); and `OneCall` (unless calls overlapped, at most one is in progress, and one that has
joined finds no thread). `SessionTypeCorrect` and `CoreLives` follow, the latter with the one cause that is no call's: an exception
out of the capture thread. Each action is
classified once (`Begins`, `GoesOn`, `Records`, `Ends`, `Throws`), and the parts of `SInv` are proved over the classes.
`AInv` adds what `StatusAgrees` needs, which speaks only of the moments without a call in progress: how far the one call in progress has
come. `Shaped` says which calls are at which step, `SetUp` what a start has set up at each of its steps, `TakenDown` what a stop or a
completion has taken down (whatever overlapping calls or a failed start left behind before it, which is why a lone stop repairs it), and `LoopHeld`
that a capture thread that exists is joinable. At the last step of a call, `SoFar` becomes `Agrees`, and with that `StatusTold`
follows. The property speaks of Core as long as no client sets `processing_paused` or commands the camera itself (`main.cpp:792`,
`main.cpp:939`).

**FramePathProofs.** `FInv` adds: `Threads` (there is a capture thread only between a start and its join, and a frame
in hand from the dequeue to the end of the pass); `Ordered` (used, in hand, queue, subscriber's: the
numbers grow along that line); `Paced` (`last_ai_send` is when the pace began, but for a pair accepted and not yet sent);
`OldFrames` (frames of earlier sessions are the first of the queue, and with those used and those in hand and at the
subscriber's they are at most `Cap + 1`). `FrameTypeCorrect`, `StaleBounded`, `PaceKept` and `OrderKept` follow.

**WSSServerProofs.** `CInv` adds: `AcceptorsConn` (the connection in the accept thread's hands is nobody else's until
it is listed, and the accept thread has ended before stop deletes) and `Owned` (what is listed exists; a client thread's connection is listed until
the thread takes it out, and from then on is the thread's alone). `ClientsTypeCorrect` and `UsedOnlyWhileItExists` follow;
`CastReachesAll` adds that only broadcasts change what is to be visited, and that a client they skip was not staying.

**ServerViewProofs.** Of `ClientServer`: `CInv` adds to `HeldOnce`: `ConnWhileUsed` (a thread has a connection exactly while it uses one) and
`Phases` (how far start and stop have come bounds where the threads are, and nothing arrives once the socket is closed).
`ServerTypeCorrect`, `ConnectionsHeldOnce` and `StopLeavesNoHandler` follow, for any number of clients and
workers and every queue length.

Of `LiveView`: `QInv` says, as for the writer, that the queue holds the pictures offered last in their order
(`RequestsRecent`) and that what is gone from it is through, in hand, or was dropped when `MaxQueued` later ones had come
(`GoneAccounted`); `Paced` that `last_live_ts` is not older than the last picture let through. `ViewTypeCorrect`, `LiveViewPaced` and
`LiveViewIsLossyFifo` follow: `LiveFrame` maps to `Offer` or a stutter, `EncodeFails` and `CallBack` to `Serve`.

**RecordStoreProofs.** `KeeperInv`: in the middle of a pass the size HouseKeeper goes by is never more than the files that were saved and
stand (`Standing`, those being written over included), since only HouseKeeper removes; so the year it picks was in excess, and a year is in
`excess` and `removed` before its files go. `FolderInv`: a record's own directory is there as long as a sub-folder of it is, and what a
reader has found is there unless its year was removed. `KeptInv`: what a record was created with is there while it is active or
files wait for it, unless its year was removed; so `create_directories` throws out of the writer only for one of the causes
`CrashCauses` names. `NamesInv`: what was whole when GetRecord began is told, was opened again, or is whole and still to be read
(`ToBeRead`), unless its year was removed. `StoreTypeCorrect`, `OnlyExcessGoes`, `CrashesExplained` and `SavedIsTold` follow,
`OnlyExcessGoes` from the cardinality of finite sets and the least element of a set of naturals.

**GapPipelineProofs.** `SkipsOnlyTheAnalysedGap` is inductive with `ComparedWithAnalysed`: between replies the gap that the
checker remembers is that of the last result that was analysed, and while such a result waits to be published it is that
result's. `MedianIsMiddle` says that the model's median is the element the code reads from the sorted values; `UpLinesStartHigher` needs of it
only that it is an integer, so that a cleat below it and one not below it differ. `EdgesFound` is about least squares over any number of points, and is proved from nothing but the
definition of a sum as a fold:

- A set of naturals that holds 0 and the successor of each of its members holds all (`EveryNatural`, from the least element of a
  set); so a set of subsets of a finite set holds all of them if it holds the empty one and every one that it holds without
  its next element (`EverySubset`). That is induction with a set where the library has a predicate.
- The table of sums that `SumFunction` chooses exists (`TableExists`), and sums are linear (`SumLinear`) and positive where a term is
  (`SumPositive`).
- `n` times the denominator of the fit is the sum of the squares of `n * x - X` (`Spread`), so it vanishes exactly when all `x`
  are equal: an edge is found if and only if two points have different `x` (`FitFound`).
- `Reduced` leaves a line without a common divisor (`LowestTerms`), and the shortest whole vector along a line measures all
  the others (`Shortest`), so lines along one another have the same lowest terms (`SameLowest`) and the fit of
  points on a line is that line (`FitCollinear`).
- Both points of a pair are inliers of the line through them (`ThroughFits`; `edge_inlier_threshold` is positive), so what RANSAC fits in the
  end has two different `x` if the points had, and is on a line if they were (`RansacFrom`, `RansacFitsWell`).

`GapTypeCorrect` adds that the fits are never upright and that a gap line has at most `MaxSteps` steps. The assumptions are that a reply is a
sequence of detections with whole coordinates, that `InlierDistance` and `MaxSteps` are positive, and exact arithmetic.

Every invariant the runs check, every action property and both refinements are theorems. Only model-checked are the liveness
properties (`StopReturns`, `EveryRequestSettled`,
`CallsReturn`, `CompletionFollows`, `FramesLeave`, `ServerGoesOn`, `EveryoneServed`, `ServerStopReturns`, `EveryFrameSettled`,
`KeeperWorks`), which depend on fairness and `ENABLED`, outside the prover's reach. `RECURSIVE` operators are outside its reach too; no module
here needs them.

## 6. What is left

Worth doing next:

1. The installation averages, which a start resets while results are added to them without a lock (`main.cpp:863`). (That
   `process` and `on_ai_result_` read the record's path once for each file is modelled.)
2. Shutdown as a whole: main stops `preprocess` before the server whose workers can start it again
   (`main.cpp:988`). The stop of each part is modelled with the part.
3. The camera's health check, which re-arms the camera from a thread of its own.
4. The pairing of file names in `ai_test_loop_`.

Not modelled, and why: disparity, distance, region and annotation (image data in floating point; they decide nothing
but reported numbers); the rounding of floating point in the edge fitter and the localizer, which are modelled in exact
arithmetic; detections that are not upright boxes; parts of `EdgeFitter` and `DetectionExtractor` that are called nowhere
(`fit_up_edge` and its siblings, `estimate_missing_points`, `determine_task`); HTTP, TLS and ZeroMQ framing, logging, configuration
(I/O without state of its own; the configuration is not validated, so `database.spsc_capacity` 0 and
`preprocess.installation_fps` 0 are outside the assumptions); the depth frame, which is not consumed and
decides only a reported distance; messages that wait inside OpenSSL while `WSSServer` polls the socket; `ImagePackager`
and `start_installation` (called nowhere); record names that collide within a second (one session a second is outside the
handlers' use); writes that fail on a full disk, and in `RecordStore` the
images that `process_pair_` saves itself in File mode (`PendingRequests` has them); the counts and averages of GetHistory, and GetImage, which reads one file as it is. Nothing is read back from disk
when Core starts, so a crash has no recovery to model: what it leaves half-written is what `RecordTold` says is not told.
