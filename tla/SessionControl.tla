---------------------------- MODULE SessionControl ----------------------------
(***************************************************************************)
(* What the API workers and the detached completion threads of AI tests do to *)
(* each other.  Every handler is a sequence of steps on state that is shared   *)
(* and, at most, locked one step at a time: the status, the mode, the task,    *)
(* the active record, the pause flag, the camera, and the capture thread of    *)
(* PreprocessModule, whose std::thread object is joined and assigned by        *)
(* whichever handler comes along.                                           *)
(*                                                                         *)
(* A call that is refused (another task is active) changes nothing and is no   *)
(* action here.  Replies, requests and files are modelled in PendingRequests   *)
(* and DatabaseWriter.                                                      *)
(***************************************************************************)
EXTENDS Naturals, FiniteSets

CONSTANTS
  Workers,      \* the threads of ClientServer that run handlers
  SetModes,     \* the modes a client may set with SetMode
  MaxSessions   \* bound: calls that start a session

ASSUME SessionsAssumption == MaxSessions \in Nat
ASSUME WorkersAssumption == Workers \cap (0..MaxSessions) = {}
ASSUME ModesAssumption == SetModes \subseteq {"Inspection", "AITest"}

NoSession == 0
Sessions == 1..MaxSessions
Nobody == 0
\* The completion thread of an AI test goes by the number of its session.
Procs == Workers \cup Sessions

VARIABLES
  active,     \* StatusTracker: task_active_
  mode,       \* ModeController: mode_
  task,       \* TaskManager: type_
  record,     \* RecordManager: active_record_, by the session it was made for
  paused,     \* g_processing_paused
  capturing,  \* whether the stereo camera was told to capture
  running,    \* PreprocessModule: running_
  source,     \* PreprocessModule: active_record_path_
  joinable,   \* whether thread_ holds a thread
  joining,    \* who waits in thread_.join()
  loop,       \* the capture thread's loop and session
  pc,         \* where every handler and completion thread is
  started,    \* the number of starts that passed the check
  records,    \* the number of records created
  crashed,    \* std::terminate was called
  tangled,    \* history: calls overlapped, and no lone stop has followed
  failed,     \* history: a start could not create its record, and no stop has followed
  threw       \* history: an exception has left the capture thread

statusVars  == <<active, mode, task, record, paused, capturing>>
threadVars  == <<running, source, joinable, joining, loop>>
historyVars == <<started, records, tangled, failed, threw>>
vars == <<statusVars, threadVars, pc, historyVars, crashed>>

Starts == {"StartInspection", "StartAITest"}
Stops == {"StopInspection", "StopAITest", "Completion"}
Kind(call) == CASE call \in {"StartInspection", "StopInspection"} -> "Inspection"
                [] OTHER -> "AITest"
Tasks == {"None", "Inspection", "AITest"}
Steps == {"idle", "sleeping", "mode", "task", "activate", "record", "unpause", "arm",
          "join", "joining", "run", "spawn", "clear", "reset", "deactivate", "forget",
          "unmode", "pause", "disarm"}
Idle == [call |-> "none", at |-> "idle", rec |-> NoSession]
NoLoop == [kind |-> "None", session |-> NoSession]

TypeOK ==
  /\ active \in BOOLEAN /\ mode \in Tasks /\ task \in Tasks
  /\ record \in 0..MaxSessions /\ paused \in BOOLEAN /\ capturing \in BOOLEAN
  /\ running \in BOOLEAN /\ source \in 0..MaxSessions
  /\ joinable \in BOOLEAN /\ joining \in Procs \cup {Nobody}
  /\ joining # Nobody => joinable
  /\ loop \in [kind : Tasks, session : 0..MaxSessions]
  /\ pc \in [Procs -> [call : Starts \cup Stops \cup {"none", "SetMode"}, at : Steps,
                       rec : 0..MaxSessions]]
  /\ started \in 0..MaxSessions /\ records \in 0..started
  /\ crashed \in BOOLEAN /\ tangled \in BOOLEAN /\ failed \in BOOLEAN /\ threw \in BOOLEAN

Init ==
  /\ active = FALSE /\ mode = "None" /\ task = "None" /\ record = NoSession
  /\ paused = TRUE /\ capturing = FALSE
  /\ running = FALSE /\ source = NoSession
  /\ joinable = FALSE /\ joining = Nobody /\ loop = NoLoop
  /\ pc = [p \in Procs |-> Idle]
  /\ started = 0 /\ records = 0
  /\ crashed = FALSE /\ tangled = FALSE /\ failed = FALSE /\ threw = FALSE

InFlight(p) == pc[p].at \notin {"idle", "sleeping"}
Alone(p) == \A q \in Procs \ {p} : ~InFlight(q)

At(p, step) == pc[p].at = step
Go(p, step) == pc' = [pc EXCEPT ![p].at = step]
Enter(p, call, step) ==
  pc' = [pc EXCEPT ![p] = [call |-> call, at |-> step, rec |-> NoSession]]
Return(p) == pc' = [pc EXCEPT ![p] = Idle]

-----------------------------------------------------------------------------
(* StartInspection and StartAITest.                                         *)

StartCheck(w, call) ==
  /\ At(w, "idle") /\ ~active
  /\ started < MaxSessions
  /\ Enter(w, call, "mode")
  /\ started' = started + 1
  /\ tangled' = (tangled \/ ~Alone(w))
  /\ UNCHANGED <<statusVars, threadVars, records, failed, threw, crashed>>

StartMode(w) ==
  /\ At(w, "mode") /\ pc[w].call \in Starts
  /\ mode' = Kind(pc[w].call)
  /\ Go(w, "task")
  /\ UNCHANGED <<active, task, record, paused, capturing, threadVars, historyVars, crashed>>

StartTask(w) ==
  /\ At(w, "task")
  /\ task' = Kind(pc[w].call)
  /\ Go(w, "activate")
  /\ UNCHANGED <<active, mode, record, paused, capturing, threadVars, historyVars, crashed>>

StartActivate(w) ==
  /\ At(w, "activate")
  /\ active' = TRUE
  /\ Go(w, "record")
  /\ UNCHANGED <<mode, task, record, paused, capturing, threadVars, historyVars, crashed>>

StartRecord(w) ==
  /\ At(w, "record")
  /\ records' = records + 1
  /\ record' = records + 1
  /\ pc' = [pc EXCEPT ![w].rec = records + 1,
                      ![w].at = IF pc[w].call = "StartInspection" THEN "unpause" ELSE "join"]
  /\ UNCHANGED <<active, mode, task, paused, capturing, threadVars, started, tangled, failed,
                 threw, crashed>>

\* create_directories throws; the handler answers an error and undoes nothing.
StartRecordFails(w) ==
  /\ At(w, "record")
  /\ Return(w)
  /\ failed' = TRUE
  /\ UNCHANGED <<statusVars, threadVars, started, records, tangled, threw, crashed>>

StartUnpause(w) ==
  /\ At(w, "unpause")
  /\ paused' = FALSE
  /\ Go(w, "arm")
  /\ UNCHANGED <<active, mode, task, record, capturing, threadVars, historyVars, crashed>>

\* Init, Connect and StartCapture are HTTP calls to the camera's service.
StartArm(w) ==
  /\ At(w, "arm")
  /\ capturing' = TRUE
  /\ Go(w, "join")
  /\ UNCHANGED <<active, mode, task, record, paused, threadVars, historyVars, crashed>>

\* start_inspection and start_ai_test, after their join.
StartRun(w) ==
  /\ At(w, "run")
  /\ source' = pc[w].rec
  /\ running' = TRUE
  /\ Go(w, "spawn")
  /\ UNCHANGED <<statusVars, joinable, joining, loop, historyVars, crashed>>

\* Assigning to a std::thread that holds a thread calls std::terminate.
StartSpawn(w) ==
  /\ At(w, "spawn")
  /\ Return(w)
  /\ IF joinable
       THEN crashed' = TRUE /\ UNCHANGED <<joinable, loop>>
       ELSE /\ joinable' = TRUE
            /\ loop' = [kind |-> Kind(pc[w].call), session |-> pc[w].rec]
            /\ UNCHANGED crashed
  /\ UNCHANGED <<statusVars, running, source, joining, historyVars>>

-----------------------------------------------------------------------------
(* thread_.join(), in every start and stop.  Of two that join at once the      *)
(* second throws: a start's handler catches it and answers an error, a stop's   *)
(* does not, nor does a completion thread.                                  *)

AfterJoin(call) == CASE call \in Starts -> "run"
                     [] call = "StopInspection" -> "clear"
                     [] OTHER -> "reset"

\* Faulty: a thread whose loop has ended by itself is taken to need no join.
JoinNothingEnded(p) ==
  /\ At(p, "join") /\ (~joinable \/ loop = NoLoop)
  /\ Go(p, AfterJoin(pc[p].call))
  /\ UNCHANGED <<statusVars, threadVars, historyVars, crashed>>

JoinNothing(p) ==
  /\ At(p, "join") /\ ~joinable
  /\ Go(p, AfterJoin(pc[p].call))
  /\ UNCHANGED <<statusVars, threadVars, historyVars, crashed>>

JoinBegin(p) ==
  /\ At(p, "join") /\ joinable /\ joining = Nobody
  /\ joining' = p
  /\ Go(p, "joining")
  /\ UNCHANGED <<statusVars, running, source, joinable, loop, historyVars, crashed>>

JoinThrows(p) ==
  /\ At(p, "join") /\ joinable /\ joining # Nobody
  /\ Return(p)
  /\ crashed' = (pc[p].call \in Stops)
  /\ UNCHANGED <<statusVars, threadVars, historyVars>>

\* Faulty: who waited is not forgotten.
JoinEndKeeping(p) ==
  /\ At(p, "joining") /\ loop = NoLoop
  /\ joinable' = FALSE
  /\ Go(p, AfterJoin(pc[p].call))
  /\ UNCHANGED <<statusVars, running, source, joining, loop, historyVars, crashed>>

JoinEnd(p) ==
  /\ At(p, "joining") /\ loop = NoLoop
  /\ joinable' = FALSE
  /\ joining' = Nobody
  /\ Go(p, AfterJoin(pc[p].call))
  /\ UNCHANGED <<statusVars, running, source, loop, historyVars, crashed>>

Join(p) == JoinNothing(p) \/ JoinBegin(p) \/ JoinThrows(p) \/ JoinEnd(p)

-----------------------------------------------------------------------------
(* StopInspection, StopAITest, and the completion thread, which does what      *)
(* StopAITest does.                                                        *)

\* Faulty: running_ is left to the capture thread.
HaltNothing(p) == UNCHANGED running

Halt(p) == running' = FALSE

StopHalt(p, call) ==
  /\ Halt(p)
  /\ Enter(p, call, "join")
  /\ tangled' = ~Alone(p) /\ failed' = FALSE
  /\ UNCHANGED <<statusVars, source, joinable, joining, loop, started, records, threw, crashed>>

StopCall(w, call) == At(w, "idle") /\ StopHalt(w, call)

\* 120 s after the AI test's loop ended.
CompletionWakes(s) == At(s, "sleeping") /\ StopHalt(s, "Completion")

StopClear(p) ==
  /\ At(p, "clear")
  /\ source' = NoSession
  /\ Go(p, "reset")
  /\ UNCHANGED <<statusVars, running, joinable, joining, loop, historyVars, crashed>>

StopReset(p) ==
  /\ At(p, "reset")
  /\ task' = "None"
  /\ Go(p, "deactivate")
  /\ UNCHANGED <<active, mode, record, paused, capturing, threadVars, historyVars, crashed>>

\* Faulty: the task stays active.
StopDeactivateNot(p) ==
  /\ At(p, "deactivate")
  /\ Go(p, "forget")
  /\ UNCHANGED <<statusVars, threadVars, historyVars, crashed>>

StopDeactivate(p) ==
  /\ At(p, "deactivate")
  /\ active' = FALSE
  /\ Go(p, "forget")
  /\ UNCHANGED <<mode, task, record, paused, capturing, threadVars, historyVars, crashed>>

StopForget(p) ==
  /\ At(p, "forget")
  /\ record' = NoSession
  /\ Go(p, "unmode")
  /\ UNCHANGED <<active, mode, task, paused, capturing, threadVars, historyVars, crashed>>

StopMode(p) ==
  /\ At(p, "unmode")
  /\ mode' = "None"
  /\ IF pc[p].call = "StopInspection" THEN Go(p, "pause") ELSE Return(p)
  /\ UNCHANGED <<active, task, record, paused, capturing, threadVars, historyVars, crashed>>

StopPause(p) ==
  /\ At(p, "pause")
  /\ paused' = TRUE
  /\ Go(p, "disarm")
  /\ UNCHANGED <<active, mode, task, record, capturing, threadVars, historyVars, crashed>>

StopDisarm(p) ==
  /\ At(p, "disarm")
  /\ capturing' = FALSE
  /\ Return(p)
  /\ UNCHANGED <<active, mode, task, record, paused, threadVars, historyVars, crashed>>

-----------------------------------------------------------------------------
(* SetMode, and the capture thread.                                         *)

SetModeCheck(w) ==
  /\ At(w, "idle") /\ ~active
  /\ Enter(w, "SetMode", "mode")
  /\ tangled' = (tangled \/ ~Alone(w))
  /\ UNCHANGED <<statusVars, threadVars, started, records, failed, threw, crashed>>

SetMode(w, m) ==
  /\ At(w, "mode") /\ pc[w].call = "SetMode"
  /\ mode' = m
  /\ Return(w)
  /\ UNCHANGED <<active, task, record, paused, capturing, threadVars, historyVars, crashed>>

InspectionEnds ==
  /\ loop.kind = "Inspection" /\ ~running
  /\ loop' = NoLoop
  /\ UNCHANGED <<statusVars, running, source, joinable, joining, pc, historyVars, crashed>>

\* Its files are done or running_ is cleared: either way the completion thread starts.
AITestEnds ==
  /\ loop.kind = "AITest"
  /\ Enter(loop.session, "Completion", "sleeping")
  /\ loop' = NoLoop
  /\ UNCHANGED <<statusVars, running, source, joinable, joining, historyVars, crashed>>

\* The test data path does not exist: nothing is reported.
AITestMissing ==
  /\ loop.kind = "AITest"
  /\ loop' = NoLoop
  /\ UNCHANGED <<statusVars, running, source, joinable, joining, pc, historyVars, crashed>>

\* Of an AI test, the test data path is no directory that can be read; of an inspection,
\* an image cannot be saved in File mode.  There is no try around the loops.
CaptureThrows ==
  /\ ~crashed /\ loop # NoLoop
  /\ crashed' = TRUE /\ threw' = TRUE
  /\ UNCHANGED <<statusVars, threadVars, pc, started, records, tangled, failed>>

-----------------------------------------------------------------------------
StartStep(w) == StartMode(w) \/ StartTask(w) \/ StartActivate(w) \/ StartRecord(w)
                \/ StartRecordFails(w) \/ StartUnpause(w) \/ StartArm(w) \/ StartRun(w) \/ StartSpawn(w)
StopStep(p) == StopClear(p) \/ StopReset(p) \/ StopDeactivate(p) \/ StopForget(p)
               \/ StopMode(p) \/ StopPause(p) \/ StopDisarm(p)
Step(p) == /\ ~crashed
           /\ \/ StartStep(p) \/ Join(p) \/ StopStep(p)
              \/ \E m \in SetModes : SetMode(p, m)
CaptureEnds == ~crashed /\ (InspectionEnds \/ AITestEnds \/ AITestMissing)
Wake(s) == ~crashed /\ CompletionWakes(s)
Call(w) == /\ ~crashed
           /\ \/ \E call \in Starts : StartCheck(w, call)
              \/ \E call \in {"StopInspection", "StopAITest"} : StopCall(w, call)
              \/ SetModes # {} /\ SetModeCheck(w)

Next == \/ \E w \in Workers : Call(w)
        \/ \E p \in Procs : Step(p)
        \/ \E s \in Sessions : Wake(s)
        \/ CaptureEnds \/ CaptureThrows

(* Every handler and completion thread goes on by itself, and the capture       *)
(* thread ends when it may: the camera's service answers or times out.         *)
Fairness == /\ \A p \in Procs : WF_vars(Step(p))
            /\ \A s \in Sessions : WF_vars(Wake(s))
            /\ WF_vars(CaptureEnds)

Spec == Init /\ [][Next]_vars /\ Fairness

-----------------------------------------------------------------------------
(* Properties.                                                             *)

Quiet == \A p \in Procs : ~InFlight(p)

(* Unless calls overlapped, what Core says of itself agrees with what it does   *)
(* whenever no call is in progress: the status, the mode, the task, the record  *)
(* and the capture thread are of one session.  A start that could not create    *)
(* its record leaves a task active that nothing runs for, until a stop.  A lone  *)
(* stop repairs that, and whatever overlapping calls left behind.  (Clients that *)
(* set processing_paused or command the camera themselves are not in this       *)
(* module.)                                                               *)
StatusAgrees ==
  Quiet /\ ~tangled /\ ~crashed =>
    /\ active <=> task # "None"
    /\ active <=> record # NoSession \/ failed
    /\ failed => record = NoSession /\ mode = task /\ loop = NoLoop
    /\ loop # NoLoop => /\ active /\ task = loop.kind /\ mode = loop.kind
                        /\ record = loop.session /\ source = loop.session /\ running
    /\ loop.kind = "Inspection" => ~paused /\ capturing

(* Core never terminates because of calls that did not overlap: stops and        *)
(* starts join the thread of the session before, however that one ended, unless   *)
(* by an exception of its own.                                             *)
TerminatesOnlyTangled == crashed => tangled \/ threw

(* Every call returns unless calls overlapped or Core terminated: no start or     *)
(* stop waits for ever for a capture thread that nobody told to end.            *)
CallsReturn == \A p \in Procs : InFlight(p) ~> (~InFlight(p) \/ tangled \/ crashed)

(* An AI test whose loop has ended is completed in the end: the status does not  *)
(* say for ever that a task is active, unless the test data did not exist.      *)
CompletionFollows ==
  \A s \in Sessions : At(s, "sleeping") ~> (~active \/ tangled \/ crashed)

(* Only one task is being started at a time.                                 *)
OneStartAtATime ==
  \A p, q \in Procs :
    InFlight(p) /\ pc[p].call \in Starts /\ InFlight(q) /\ pc[q].call \in Starts => p = q

(* The completion thread ends the AI test that it was started for, no other     *)
(* session.                                                               *)
CompletionEndsItsOwnTest ==
  [][\A s \in Sessions : CompletionWakes(s) => loop = NoLoop \/ loop.session = s]_vars
=============================================================================
