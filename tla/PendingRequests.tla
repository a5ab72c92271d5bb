--------------------------- MODULE PendingRequests ---------------------------
(***************************************************************************)
(* The transaction pipeline of PreprocessModule: the capture thread sends   *)
(* each image pair to the AI service (AIVD) under a transaction id and       *)
(* keeps the pair's images in pending_, and the dealer thread matches every  *)
(* reply with a pending pair, files images and detections under the active    *)
(* record, one file after the other, and hands them to the result callback.   *)
(*                                                                         *)
(* Three threads step here: the capture thread (inspection_loop_ or          *)
(* ai_test_loop_), the dealer thread (poll_loop_, which runs on_ai_result_   *)
(* and the reconnect callback), and the API thread that starts and stops      *)
(* sessions.  API calls are taken one at a time; SessionControl models       *)
(* what four API workers do to each other.  AIVD and the wall clock are the   *)
(* environment.                                                             *)
(***************************************************************************)
EXTENDS Integers, Sequences, FiniteSets

CONSTANTS
  Cap,            \* pending_ is emptied when it holds more than Cap entries (200 in the code)
  StaleAge,       \* an unmatched reply drops an entry older than this (30 s in the code)
  AiMode,         \* "Binary" or "File": how process_pair_ sends images
  EarlyReplies,   \* whether AIVD may answer before process_pair_ has stored the entry
  SubTasks,       \* the sub-tasks a client may choose
  MaxPairs,       \* bound: image pairs captured
  MaxTime,        \* bound: clock ticks
  MaxSessions,    \* bound: inspections and AI tests started
  MaxUnknown,     \* bound: replies whose transaction id Core never sent
  MaxReconnects,  \* bound: AIVD reconnect notifications
  MaxStepBacks    \* bound: times the wall clock is set back by one tick

ASSUME BoundsAssumption ==
  /\ Cap \in Nat /\ StaleAge \in Nat
  /\ MaxPairs \in Nat /\ MaxTime \in Nat /\ MaxSessions \in Nat
  /\ MaxUnknown \in Nat /\ MaxReconnects \in Nat /\ MaxStepBacks \in Nat

ASSUME ModeAssumption == AiMode \in {"Binary", "File"} /\ EarlyReplies \in BOOLEAN

ASSUME SubTaskAssumption ==
  SubTasks \subseteq {"Installation", "GapInspection", "Marking"}

NoPair == 0       \* image pairs are numbered from 1 in the order they are captured
NoRecord == 0     \* an empty active_record_path_, and the paths of no record that files
                  \* are put under with it; session s files under record s
NoTxn == -1       \* a transaction id that no request carries

Kinds == {"inspection", "ai_test"}
SubTaskNames == {"None", "Installation", "GapInspection", "Marking"}

VARIABLES
  now,          \* the steady clock
  wall,         \* the wall clock that Timestamp::now_string formats
  running,      \* running_
  thread,       \* the capture thread: none, in its loop, or between send and store
  cur,          \* the pair the capture thread works on, or did last
  aiTest,       \* ai_test_mode_: also which loop the thread runs
  api,          \* the API call in progress, between its steps
  session,      \* the number of sessions started; also names the last record
  activeRecord, \* active_record_path_
  pairIndex,    \* pair_index_
  subTask,      \* sub_task_
  pairs,        \* the number of pairs captured so far
  pending,      \* pending_: a set of entries, one per transaction id
  link,         \* requests AIVD or the sockets still hold
  handler,      \* what on_ai_result_ took out of pending_, until it is delivered
  filing,       \* where on_ai_result_ is in filing it: at, folder; history: interrupted
  filed,        \* history: where on_ai_result_ had the writer put a pair's files
  delivered,    \* history: what the result callback was given
  saved,        \* history: image files process_pair_ wrote in File mode
  unknown, reconnects, stepBacks,  \* how often the environment did so
  disturbed     \* history: something broke the pairing of requests and entries

clockVars   == <<now, wall, stepBacks>>
captureVars == <<thread, cur, pairs, saved>>
apiVars     == <<running, aiTest, api, session, activeRecord>>
filingVars  == <<filing, filed>>
dealerVars  == <<handler, filingVars, delivered, unknown, reconnects>>
vars == <<clockVars, captureVars, apiVars, pairIndex, subTask, pending, link,
          dealerVars, disturbed>>

Idle == [op |-> "idle", kind |-> "inspection"]
NoReply == [busy |-> FALSE, answered |-> NoPair, img |-> NoPair, idx |-> 0,
            sub |-> "None", from |-> NoRecord, exact |-> FALSE]
\* on_ai_result_ begins at its test of the record path.
NoFiling == [at |-> "test", folder |-> "top", interrupted |-> FALSE]

Entries == [txn : Nat, pid : 1..MaxPairs, session : 1..MaxSessions, idx : Nat,
            sub : SubTaskNames, born : Nat]
Replies == [busy : BOOLEAN, answered : 0..MaxPairs, img : 0..MaxPairs, idx : Nat,
            sub : SubTaskNames, from : 0..MaxSessions, exact : BOOLEAN]
Folders == {"installation", "inspection", "marking", "top"}
FileKinds == {"L", "R", "AI_L", "AI_R"}
Filings == [at : {"test", "folder", "callback"} \cup FileKinds, folder : Folders,
            interrupted : BOOLEAN]
FiledPlaces == [rec : 0..MaxSessions, folder : Folders, idx : Nat, pid : 0..MaxPairs,
                from : 0..MaxSessions, interrupted : BOOLEAN]
ImageFiles == [rec : 0..MaxSessions, folder : Folders, idx : Nat, pid : 1..MaxPairs]

TypeOK ==
  /\ now \in 0..MaxTime /\ wall \in 0..MaxTime
  /\ running \in BOOLEAN /\ aiTest \in BOOLEAN
  /\ thread \in {"none", "loop", "sent"}
  /\ cur \in [txn : Nat \cup {NoTxn}, pid : 0..MaxPairs, idx : Nat, at : Nat \cup {-1}]
  /\ api \in [op : {"idle", "starting", "recorded", "stopping"}, kind : Kinds]
  /\ session \in 0..MaxSessions /\ activeRecord \in 0..MaxSessions
  /\ pairIndex \in Nat /\ subTask \in SubTaskNames
  /\ pairs \in 0..MaxPairs
  /\ pending \in SUBSET Entries
  /\ link \in SUBSET [txn : Nat, pid : 1..MaxPairs]
  /\ handler \in Replies
  /\ filing \in Filings /\ filed \in SUBSET FiledPlaces
  /\ delivered \in Seq(Replies)
  /\ saved \in SUBSET ImageFiles
  /\ unknown \in 0..MaxUnknown /\ reconnects \in 0..MaxReconnects
  /\ stepBacks \in 0..MaxStepBacks
  /\ disturbed \in BOOLEAN

Init ==
  /\ now = 0 /\ wall = 0 /\ stepBacks = 0
  /\ running = FALSE /\ thread = "none" /\ aiTest = FALSE
  /\ cur = [txn |-> NoTxn, pid |-> NoPair, idx |-> 0, at |-> -1]
  /\ api = Idle /\ session = 0 /\ activeRecord = NoRecord
  /\ pairIndex = 0 /\ subTask = "None" /\ pairs = 0
  /\ pending = {} /\ link = {}
  /\ handler = NoReply /\ filing = NoFiling /\ filed = {}
  /\ delivered = <<>> /\ saved = {}
  /\ unknown = 0 /\ reconnects = 0
  /\ disturbed = FALSE

-----------------------------------------------------------------------------
(* The clocks.  created_at is read from the steady clock, transaction ids    *)
(* from the wall clock, which may be set back (NTP, end of daylight saving). *)

Tick ==
  /\ now < MaxTime
  /\ now' = now + 1
  /\ wall' = wall + 1
  /\ UNCHANGED <<stepBacks, captureVars, apiVars, pairIndex, subTask, pending, link,
                 dealerVars, disturbed>>

StepBack ==
  /\ stepBacks < MaxStepBacks /\ wall > 0
  /\ wall' = wall - 1
  /\ stepBacks' = stepBacks + 1
  /\ disturbed' = TRUE
  /\ UNCHANGED <<now, captureVars, apiVars, pairIndex, subTask, pending, link, dealerVars>>

-----------------------------------------------------------------------------
(* The API thread: start_inspection and start_ai_test.  The handlers refuse a  *)
(* start while a task is active, that is until a stop has cleared running_;    *)
(* the join at the top lets it go on only when the capture thread has ended.  *)

\* Faulty: clear_pending is left to the reconnect callback.
StartWithoutClear(kind) ==
  /\ api = Idle
  /\ ~running /\ thread = "none"
  /\ session < MaxSessions
  /\ api' = [op |-> "starting", kind |-> kind]
  /\ UNCHANGED <<clockVars, captureVars, running, aiTest, session, activeRecord,
                 pairIndex, subTask, pending, link, dealerVars, disturbed>>

StartClear(kind) ==
  /\ api = Idle
  /\ ~running /\ thread = "none"
  /\ session < MaxSessions
  /\ pending' = {}
  /\ disturbed' = (disturbed \/ link # {})
  /\ api' = [op |-> "starting", kind |-> kind]
  /\ UNCHANGED <<clockVars, captureVars, running, aiTest, session, activeRecord,
                 pairIndex, subTask, link, dealerVars>>

\* The path changes: history notes whether on_ai_result_ is between its reads of it.
NoteChange == filing' = [filing EXCEPT !.interrupted = handler.busy]

StartRecord ==
  /\ api.op = "starting"
  /\ session' = session + 1
  /\ activeRecord' = session + 1
  /\ NoteChange
  /\ api' = [api EXCEPT !.op = "recorded"]
  /\ UNCHANGED <<clockVars, captureVars, running, aiTest, pairIndex, subTask, pending, link,
                 handler, filed, delivered, unknown, reconnects, disturbed>>

StartRun ==
  /\ api.op = "recorded"
  /\ aiTest' = (api.kind = "ai_test")
  /\ pairIndex' = 0
  /\ subTask' = IF api.kind = "inspection" THEN "Installation" ELSE subTask
  /\ running' = TRUE
  /\ thread' = "loop"
  /\ api' = Idle
  /\ UNCHANGED <<clockVars, cur, pairs, saved, session, activeRecord, pending, link,
                 dealerVars, disturbed>>

(* stop_inspection and stop_ai_test: clear running_, join the thread, and     *)
(* only the first of them forgets the record and the sub-task.               *)

StopRequest(kind) ==
  /\ api = Idle
  /\ running' = FALSE
  /\ api' = [op |-> "stopping", kind |-> kind]
  /\ UNCHANGED <<clockVars, captureVars, aiTest, session, activeRecord, pairIndex,
                 subTask, pending, link, dealerVars, disturbed>>

StopFinish ==
  /\ api.op = "stopping"
  /\ thread = "none"
  /\ IF api.kind = "inspection"
       THEN activeRecord' = NoRecord /\ subTask' = "None" /\ NoteChange /\ UNCHANGED aiTest
       ELSE aiTest' = FALSE /\ UNCHANGED <<activeRecord, subTask, filing>>
  /\ api' = Idle
  /\ UNCHANGED <<clockVars, captureVars, running, session, pairIndex, pending, link,
                 handler, filed, delivered, unknown, reconnects, disturbed>>

\* Faulty: image numbers begin again with each sub-task.
SetSubTaskResettingIndex(sub) ==
  /\ api = Idle
  /\ subTask' = sub
  /\ pairIndex' = 0
  /\ UNCHANGED <<clockVars, captureVars, apiVars, pending, link, dealerVars, disturbed>>

SetSubTask(sub) ==
  /\ api = Idle
  /\ subTask' = sub
  /\ UNCHANGED <<clockVars, captureVars, apiVars, pairIndex, pending, link, dealerVars,
                 disturbed>>

-----------------------------------------------------------------------------
(* The capture thread.  A pair's images are encoded between two pairs'        *)
(* timestamps, which takes longer than the millisecond the ids resolve.       *)

CurrentSubfolder ==
  CASE subTask = "Installation" -> "installation"
    [] subTask = "Marking"      -> "marking"
    [] OTHER                    -> "inspection"

\* Faulty: an id that resolves less than the pairs' distance in time.
CoarseTxnId == wall \div 2

TxnId == wall

BeginPair ==
  /\ thread = "loop" /\ running
  /\ pairs < MaxPairs
  /\ cur.at < now
  /\ pairs' = pairs + 1
  /\ pairIndex' = pairIndex + 1
  /\ cur' = [txn |-> TxnId, pid |-> pairs + 1, idx |-> pairIndex, at |-> now]
  /\ saved' = IF AiMode = "File" /\ ~aiTest /\ activeRecord # NoRecord
                THEN saved \cup {[rec |-> activeRecord, folder |-> CurrentSubfolder,
                                  idx |-> pairIndex, pid |-> pairs + 1]}
                ELSE saved
  /\ link' = IF AiMode = "Binary" \/ aiTest \/ activeRecord # NoRecord
               THEN link \cup {[txn |-> TxnId, pid |-> pairs + 1]}
               ELSE link
  /\ thread' = "sent"
  /\ UNCHANGED <<clockVars, apiVars, subTask, pending, dealerVars, disturbed>>

\* Faulty: the size is compared as if the new entry were already in.
OverfullOffByOne == ~aiTest /\ Cardinality(pending) > Cap + 1

Overfull == ~aiTest /\ Cardinality(pending) > Cap

\* Faulty: the index counter is read back instead of the pair's own index.
NewEntryOffByOne ==
  [txn |-> cur.txn, pid |-> cur.pid, session |-> session, idx |-> cur.idx - 1,
   sub |-> IF aiTest THEN "None" ELSE subTask, born |-> now]

NewEntry == [txn |-> cur.txn, pid |-> cur.pid, session |-> session, idx |-> cur.idx,
             sub |-> IF aiTest THEN "None" ELSE subTask, born |-> now]

StorePair ==
  /\ thread = "sent"
  /\ LET kept == IF Overfull THEN {} ELSE pending
     IN  pending' = {e \in kept : e.txn # cur.txn} \cup {NewEntry}
  /\ disturbed' = (disturbed \/ Overfull)
  /\ thread' = "loop"
  /\ UNCHANGED <<clockVars, cur, pairs, saved, apiVars, pairIndex, subTask, link,
                 dealerVars>>

\* Faulty: the inspection loop does not look at running_.
ExitWhenDone ==
  /\ thread = "loop"
  /\ aiTest
  /\ thread' = "none"
  /\ UNCHANGED <<clockVars, cur, pairs, saved, apiVars, pairIndex, subTask, pending, link,
                 dealerVars, disturbed>>

\* Both loops end when running_ is cleared; the AI test also when its files are done.
LoopExit ==
  /\ thread = "loop"
  /\ ~running \/ aiTest
  /\ thread' = "none"
  /\ UNCHANGED <<clockVars, cur, pairs, saved, apiVars, pairIndex, subTask, pending, link,
                 dealerVars, disturbed>>

-----------------------------------------------------------------------------
(* The dealer thread.  on_ai_result_ takes an entry under pending_mutex_.      *)
(* Without it, it tests active_record_path_, reads ai_test_mode_, and reads    *)
(* the path again for each of the four files it queues.                      *)

Own(txn) == {e \in pending : e.txn = txn}
Oldest == {e \in pending : \A f \in pending : e.txn <= f.txn}
Stale(e) == now - e.born > StaleAge

Taken(e, answered, exact) ==
  [busy |-> TRUE, answered |-> answered, img |-> e.pid, idx |-> e.idx, sub |-> e.sub,
   from |-> e.session, exact |-> exact]

\* Faulty: the matched entry is copied but not erased.
TakeOwnKeeping(txn, answered) ==
  \E e \in Own(txn) :
    /\ handler' = Taken(e, answered, TRUE)
    /\ UNCHANGED pending

TakeOwn(txn, answered) ==
  \E e \in Own(txn) :
    /\ pending' = pending \ {e}
    /\ handler' = Taken(e, answered, TRUE)

TakeOldest(txn, answered) ==
  /\ Own(txn) = {}
  /\ \E e \in Oldest :
       /\ pending' = pending \ {e}
       /\ handler' = IF Stale(e) THEN NoReply ELSE Taken(e, answered, FALSE)

TakeNothing(answered) ==
  /\ pending = {}
  /\ handler' = [NoReply EXCEPT !.busy = TRUE, !.answered = answered]
  /\ UNCHANGED pending

\* Faulty: replies are taken to come in the order of the requests.
TakeInOrder(txn, answered) ==
  /\ ~handler.busy
  /\ \/ \E e \in Oldest : /\ pending' = pending \ {e}
                           /\ handler' = Taken(e, answered, e.txn = txn)
     \/ TakeNothing(answered)

TakePending(txn, answered) ==
  /\ ~handler.busy
  /\ \/ TakeOwn(txn, answered)
     \/ TakeOldest(txn, answered)
     \/ TakeNothing(answered)

Early(r) == thread = "sent" /\ cur.pid = r.pid

Reply(r) ==
  /\ Early(r) => EarlyReplies
  /\ TakePending(r.txn, r.pid)
  /\ link' = link \ {r}
  /\ disturbed' = (disturbed \/ Early(r))
  /\ UNCHANGED <<clockVars, captureVars, apiVars, pairIndex, subTask, filingVars, delivered,
                 unknown, reconnects>>

\* The SUB socket takes every topic, whatever its dealer id or transaction id.
UnknownReply ==
  /\ unknown < MaxUnknown
  /\ TakePending(NoTxn, NoPair)
  /\ unknown' = unknown + 1
  /\ disturbed' = TRUE
  /\ UNCHANGED <<clockVars, captureVars, apiVars, pairIndex, subTask, link, filingVars,
                 delivered, reconnects>>

\* A request dropped at the PUB socket's high-water mark, or one AIVD never answers.
LoseRequest(r) ==
  /\ link' = link \ {r}
  /\ UNCHANGED <<clockVars, captureVars, apiVars, pairIndex, subTask, pending, dealerVars,
                 disturbed>>

ResultFolder(sub) ==
  IF aiTest THEN "top" ELSE IF sub = "Installation" THEN "installation" ELSE "inspection"

FilingStep(from) ==
  /\ handler.busy /\ filing.at = from
  /\ UNCHANGED <<clockVars, captureVars, apiVars, pairIndex, subTask, pending, link, handler,
                 delivered, unknown, reconnects, disturbed>>

TestRecord ==
  /\ FilingStep("test")
  /\ filing' = [filing EXCEPT !.at = IF activeRecord = NoRecord THEN "callback" ELSE "folder"]
  /\ UNCHANGED filed

ChooseFolder ==
  /\ FilingStep("folder")
  /\ filing' = [filing EXCEPT !.at = "L", !.folder = ResultFolder(handler.sub)]
  /\ UNCHANGED filed

\* The path is being cleared or assigned in another thread.  A copy made meanwhile may be
\* neither the old nor the new one, but a path of no record.
PathChanging == \/ api.op = "starting"
                \/ api.op = "stopping" /\ api.kind = "inspection" /\ thread = "none"
PathRead == {activeRecord} \cup (IF PathChanging THEN {NoRecord} ELSE {})

\* An image is queued when there is one, the detections always.
Queues(kind) == kind \in {"L", "R"} => handler.img # NoPair
Following == [L |-> "R", R |-> "AI_L", AI_L |-> "AI_R", AI_R |-> "callback"]

FileUnder(rec) ==
  [rec |-> rec, folder |-> filing.folder, idx |-> handler.idx, pid |-> handler.img,
   from |-> handler.from, interrupted |-> filing.interrupted \/ PathChanging]

FileNext(kind) ==
  /\ FilingStep(kind)
  /\ filing' = [filing EXCEPT !.at = Following[kind]]
  /\ IF Queues(kind) THEN \E rec \in PathRead : filed' = filed \cup {FileUnder(rec)}
                     ELSE UNCHANGED filed

\* The result callback gets the images whether they were filed or not.
Deliver ==
  /\ handler.busy /\ filing.at = "callback"
  /\ delivered' = Append(delivered, handler)
  /\ handler' = NoReply /\ filing' = NoFiling
  /\ UNCHANGED <<clockVars, captureVars, apiVars, pairIndex, subTask, pending, link, filed,
                 unknown, reconnects, disturbed>>

Reconnect ==
  /\ reconnects < MaxReconnects
  /\ ~handler.busy
  /\ pending' = {}
  /\ reconnects' = reconnects + 1
  /\ disturbed' = TRUE
  /\ UNCHANGED <<clockVars, captureVars, apiVars, pairIndex, subTask, link, handler,
                 filingVars, delivered, unknown>>

-----------------------------------------------------------------------------
Clock == Tick \/ StepBack
Api == \/ \E kind \in Kinds : StartClear(kind) \/ StopRequest(kind)
       \/ StartRecord \/ StartRun
       \/ StopFinish
       \/ \E sub \in SubTasks : SetSubTask(sub)
Capture == BeginPair \/ StorePair \/ LoopExit
Dealer == \/ \E r \in link : Reply(r)
          \/ UnknownReply
          \/ TestRecord \/ ChooseFolder \/ Deliver
          \/ \E kind \in FileKinds : FileNext(kind)
          \/ Reconnect
Loss == \E r \in link : LoseRequest(r)

Next == Clock \/ Api \/ Capture \/ Dealer \/ Loss

(* The capture thread and the API call in progress keep being scheduled:      *)
(* nothing between their steps waits except for the steps modelled.           *)
Fairness == /\ WF_vars(StorePair \/ LoopExit)
            /\ WF_vars(StartRecord \/ StartRun \/ StopFinish)

Spec == Init /\ [][Next]_vars /\ Fairness

-----------------------------------------------------------------------------
(* Properties.                                                             *)

Images(i) == delivered[i].img

(* The images of one pair are delivered at most once, whatever AIVD loses,    *)
(* delays or invents: on_ai_result_ erases the entry it uses.                *)
AtMostOncePerPair ==
  \A i, j \in 1..Len(delivered) :
    Images(i) = Images(j) /\ Images(i) # NoPair => i = j

(* During an inspection pending_ never holds more than Cap + 1 entries, even  *)
(* when AIVD answers nothing: process_pair_ empties it first.                *)
PendingBounded == ~aiTest /\ thread # "none" => Cardinality(pending) <= Cap + 1

(* Every pending entry belongs to the session last started: no entry survives *)
(* the start of the next one, when pair_index_ begins again at 0.            *)
PendingOfCurrentSession == \A e \in pending : e.session = session

(* A pair's images and detections are filed under the record of the session     *)
(* that captured them, unless the path changes while on_ai_result_ is at it;   *)
(* and then under a later record or the path of none, never an earlier one.   *)
FiledUnderOwnRecord ==
  \A f \in filed : f.pid # NoPair =>
    /\ f.rec = f.from \/ f.interrupted
    /\ f.rec = NoRecord \/ f.rec >= f.from

(* No two pairs of a record share a file: those that process_pair_ saves and     *)
(* those that on_ai_result_ queues agree on who has which folder and index,     *)
(* over sub-task changes, stops and starts.  What strays into a record that is  *)
(* not its own may overwrite a file of the same index, but it is one pair at    *)
(* most for each record.                                                   *)
Stray(f) == f.pid # NoPair /\ f.rec \notin {NoRecord, f.from}
OwnFiles ==
  saved \cup {[rec |-> f.rec, folder |-> f.folder, idx |-> f.idx, pid |-> f.pid] :
                f \in {g \in filed : g.pid # NoPair /\ g.rec = g.from}}
OverwrittenByOneStray ==
  /\ \A v, w \in OwnFiles :
       v.rec = w.rec /\ v.folder = w.folder /\ v.idx = w.idx => v.pid = w.pid
  /\ \A f, g \in filed : Stray(f) /\ Stray(g) /\ f.rec = g.rec => f.pid = g.pid

(* As long as the wall clock is not set back, a reply that finds its own      *)
(* transaction id finds its own images: ids are not reused over sessions.     *)
ExactMatchIsOwn ==
  stepBacks = 0 =>
    \A i \in 1..Len(delivered) :
      delivered[i].exact => Images(i) = delivered[i].answered

(* A result that carries images carries those its request was made for.      *)
ResultsCarryOwnImages ==
  \A i \in 1..Len(delivered) : Images(i) \in {NoPair, delivered[i].answered}

(* Losing requests or replies never gives a result another pair's images, nor  *)
(* none: it takes a reply before its entry is stored or after its session, an  *)
(* unknown reply, a reconnect, an overfull pending_, or a clock set back.      *)
MatchedUnlessDisturbed ==
  ~disturbed =>
    \A i \in 1..Len(delivered) : Images(i) = delivered[i].answered

(* stop_inspection and stop_ai_test return: the join they wait in ends.       *)
StopReturns == (api.op = "stopping") ~> (api.op = "idle")
=============================================================================
