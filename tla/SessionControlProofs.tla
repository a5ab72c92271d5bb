------------------------- MODULE SessionControlProofs -------------------------
(***************************************************************************)
(* Proofs about SessionControl for every number of workers and sessions: its  *)
(* types, that Core terminates only when calls overlapped or its capture thread *)
(* throws, and that its status tells what it does unless they overlapped.     *)
(***************************************************************************)
EXTENDS SessionControl, FiniteSetTheorems, TLAPS

(* Starts that have passed the check and not yet created their record; of the    *)
(* others, some could not create theirs.                                     *)
Unrecorded(c) == \/ c.at \in {"task", "activate", "record"}
                 \/ c.at = "mode" /\ c.call \in Starts
Pre == {p \in Procs : Unrecorded(pc[p])}
StartsCounted == IsFiniteSet(Pre) /\ records + Cardinality(Pre) <= started

(* A session is with one holder: the handler that starts it, the capture thread, *)
(* or the completion thread that goes by its number.                          *)
OneHolder ==
  /\ \A p \in Procs :
       pc[p].rec # NoSession => pc[p].rec <= records /\ pc[p].rec # loop.session
  /\ loop.session <= records
  /\ \A p, q \in Procs : pc[p].rec # NoSession /\ pc[p].rec = pc[q].rec => p = q
  /\ \A s \in Sessions :
       ~At(s, "idle") => /\ s <= records /\ s # loop.session
                         /\ \A p \in Procs : pc[p].rec # s

(* thread_.join() is waited in by the one that began it.                      *)
JoinerKnown == \A p \in Procs : At(p, "joining") <=> joining = p

(* Undisturbed, a single call goes on, and a start that has joined finds no thread. *)
OneCall ==
  ~tangled => /\ \A p, q \in Procs : InFlight(p) /\ InFlight(q) => p = q
              /\ \A p \in Procs : pc[p].at \in {"run", "spawn"} => ~joinable

SInv == /\ TypeOK /\ StartsCounted /\ OneHolder /\ JoinerKnown /\ OneCall
        /\ TerminatesOnlyTangled

-----------------------------------------------------------------------------
(* How a step moves the program counters: a call begins, goes on, or creates    *)
(* its record or fails to; the capture thread ends, and may leave a completion   *)
(* thread, or throws.                                                       *)

Calls == [call : Starts \cup Stops \cup {"none", "SetMode"}, at : Steps,
          rec : 0..MaxSessions]

Begins(p, c) ==
  /\ ~InFlight(p) /\ pc' = [pc EXCEPT ![p] = c]
  /\ c.rec = NoSession /\ c.at \in {"mode", "join"}
  /\ p \in Sessions => At(p, "sleeping")
  /\ started' = IF Unrecorded(c) THEN started + 1 ELSE started
  /\ tangled' \in {~Alone(p), tangled \/ ~Alone(p)}
  /\ UNCHANGED <<joinable, joining, loop, records, threw, crashed>>

Joins(p, c) ==
  \/ joining' = joining /\ ~At(p, "joining") /\ c.at # "joining"
  \/ joining = Nobody /\ joining' = p /\ c.at = "joining"
  \/ joining' = Nobody /\ At(p, "joining") /\ c.at # "joining"

GoesOn(p, c) ==
  /\ InFlight(p) /\ pc' = [pc EXCEPT ![p] = c]
  /\ c.at # "sleeping" /\ c.rec \in {NoSession, pc[p].rec}
  /\ Unrecorded(c) <=> Unrecorded(pc[p])
  /\ loop' = loop \/ (loop'.session = pc[p].rec /\ c = Idle)
  /\ Joins(p, c)
  /\ c.at \in {"run", "spawn"} => ~joinable' \/ (At(p, "run") /\ UNCHANGED joinable)
  /\ crashed' => (At(p, "join") /\ joining # Nobody) \/ (At(p, "spawn") /\ joinable)
  /\ UNCHANGED <<started, records, tangled, threw>>

Records(p) ==
  /\ At(p, "record")
  /\ \E step \in {"unpause", "join"} :
       pc' = [pc EXCEPT ![p] = [call |-> pc[p].call, at |-> step, rec |-> records + 1]]
  /\ records' = records + 1
  /\ UNCHANGED <<joinable, joining, loop, started, tangled, threw, crashed>>

Fails(p) ==
  /\ At(p, "record")
  /\ pc' = [pc EXCEPT ![p] = Idle]
  /\ UNCHANGED <<joinable, joining, loop, started, records, tangled, threw, crashed>>

Throws == UNCHANGED <<joinable, joining, loop, pc, started, records, tangled>> /\ threw'

Ends ==
  /\ \/ UNCHANGED pc
     \/ pc' = [pc EXCEPT ![loop.session] =
                 [call |-> "Completion", at |-> "sleeping", rec |-> NoSession]]
  /\ loop' = NoLoop
  /\ UNCHANGED <<joinable, joining, historyVars, crashed>>

(* The steps of a start after its check.                                     *)
LEMMA StartSteps ==
  ASSUME SInv, ~crashed, NEW p \in Procs, StartStep(p)
  PROVE  TypeOK' /\ (Records(p) \/ Fails(p) \/ \E c \in Calls : GoesOn(p, c))
  <1> USE DEF statusVars, threadVars, historyVars, At
  <1>00. TypeOK
    BY DEF SInv
  <1>0. pc[p] \in Calls
    BY <1>00 DEF TypeOK, Calls
  <1>1. CASE StartMode(p)
    <2> DEFINE c == [pc[p] EXCEPT !.at = "task"]
    <2>1. c \in Calls
      BY <1>0, SessionsAssumption DEF Calls, Steps, Idle, NoSession
    <2>2. TypeOK'
      <3>1. pc' \in [Procs -> Calls]
        BY <1>00, <1>1, <2>1 DEF StartMode, TypeOK, Calls, Go, Return
      <3>2. QED
        BY <1>00, <1>0, <1>1, <3>1 DEF StartMode, TypeOK, Calls, Kind, Tasks
    <2>3. GoesOn(p, c)
      BY <1>1, <1>0 DEF StartMode, GoesOn, Joins, InFlight, Unrecorded, Go, Return, Idle,
         Starts, Stops, Calls, NoSession, Nobody
    <2>4. QED
      BY <2>1, <2>2, <2>3
  <1>2. CASE StartTask(p)
    <2> DEFINE c == [pc[p] EXCEPT !.at = "activate"]
    <2>1. c \in Calls
      BY <1>0, SessionsAssumption DEF Calls, Steps, Idle, NoSession
    <2>2. TypeOK'
      <3>1. pc' \in [Procs -> Calls]
        BY <1>00, <1>2, <2>1 DEF StartTask, TypeOK, Calls, Go, Return
      <3>2. QED
        BY <1>00, <1>0, <1>2, <3>1 DEF StartTask, TypeOK, Calls, Kind, Tasks
    <2>3. GoesOn(p, c)
      BY <1>2, <1>0 DEF StartTask, GoesOn, Joins, InFlight, Unrecorded, Go, Return, Idle,
         Starts, Stops, Calls, NoSession, Nobody
    <2>4. QED
      BY <2>1, <2>2, <2>3
  <1>3. CASE StartActivate(p)
    <2> DEFINE c == [pc[p] EXCEPT !.at = "record"]
    <2>1. c \in Calls
      BY <1>0, SessionsAssumption DEF Calls, Steps, Idle, NoSession
    <2>2. TypeOK'
      <3>1. pc' \in [Procs -> Calls]
        BY <1>00, <1>3, <2>1 DEF StartActivate, TypeOK, Calls, Go, Return
      <3>2. QED
        BY <1>00, <1>0, <1>3, <3>1 DEF StartActivate, TypeOK, Calls
    <2>3. GoesOn(p, c)
      BY <1>3, <1>0 DEF StartActivate, GoesOn, Joins, InFlight, Unrecorded, Go, Return, Idle,
         Starts, Stops, Calls, NoSession, Nobody
    <2>4. QED
      BY <2>1, <2>2, <2>3
  <1>4. CASE StartRecord(p)
    <2>1. records + 1 \in 1..started
      <3>1. p \in Pre
        BY <1>4 DEF StartRecord, Pre, Unrecorded
      <3>2. Cardinality(Pre) \in Nat /\ Cardinality(Pre) # 0
        BY <3>1, FS_CardinalityType, FS_EmptySet DEF SInv, StartsCounted
      <3>3. QED
        BY <1>00, <3>2, SessionsAssumption DEF SInv, StartsCounted, TypeOK
    <2>2. TypeOK'
      <3>1. pc' \in [Procs -> Calls]
        BY <1>00, <1>0, <1>4, <2>1, SessionsAssumption DEF StartRecord, TypeOK, Calls, Steps
      <3>2. QED
        BY <1>00, <1>4, <2>1, <3>1, SessionsAssumption DEF StartRecord, TypeOK, Calls
    <2> DEFINE step == IF pc[p].call = "StartInspection" THEN "unpause" ELSE "join"
    <2>3. pc' = [pc EXCEPT ![p] = [call |-> pc[p].call, at |-> step, rec |-> records + 1]]
      BY <1>00, <1>4, <1>0 DEF StartRecord, Calls, TypeOK
    <2>4. Records(p)
      BY <1>4, <2>3 DEF StartRecord, Records
    <2>5. QED
      BY <2>2, <2>4
  <1>41. CASE StartRecordFails(p)
    <2>1. Idle \in Calls
      BY SessionsAssumption DEF Calls, Steps, Idle, NoSession
    <2>2. TypeOK'
      BY <1>00, <1>41, <2>1 DEF StartRecordFails, Return, TypeOK, Calls
    <2>3. Fails(p)
      BY <1>41 DEF StartRecordFails, Return, Fails
    <2>4. QED
      BY <2>2, <2>3
  <1>5. CASE StartUnpause(p)
    <2> DEFINE c == [pc[p] EXCEPT !.at = "arm"]
    <2>1. c \in Calls
      BY <1>0, SessionsAssumption DEF Calls, Steps, Idle, NoSession
    <2>2. TypeOK'
      <3>1. pc' \in [Procs -> Calls]
        BY <1>00, <1>5, <2>1 DEF StartUnpause, TypeOK, Calls, Go, Return
      <3>2. QED
        BY <1>00, <1>0, <1>5, <3>1 DEF StartUnpause, TypeOK, Calls
    <2>3. GoesOn(p, c)
      BY <1>5, <1>0 DEF StartUnpause, GoesOn, Joins, InFlight, Unrecorded, Go, Return, Idle,
         Starts, Stops, Calls, NoSession, Nobody
    <2>4. QED
      BY <2>1, <2>2, <2>3
  <1>6. CASE StartArm(p)
    <2> DEFINE c == [pc[p] EXCEPT !.at = "join"]
    <2>1. c \in Calls
      BY <1>0, SessionsAssumption DEF Calls, Steps, Idle, NoSession
    <2>2. TypeOK'
      <3>1. pc' \in [Procs -> Calls]
        BY <1>00, <1>6, <2>1 DEF StartArm, TypeOK, Calls, Go, Return
      <3>2. QED
        BY <1>00, <1>0, <1>6, <3>1 DEF StartArm, TypeOK, Calls
    <2>3. GoesOn(p, c)
      BY <1>6, <1>0 DEF StartArm, GoesOn, Joins, InFlight, Unrecorded, Go, Return, Idle,
         Starts, Stops, Calls, NoSession, Nobody
    <2>4. QED
      BY <2>1, <2>2, <2>3
  <1>7. CASE StartRun(p)
    <2> DEFINE c == [pc[p] EXCEPT !.at = "spawn"]
    <2>1. c \in Calls
      BY <1>0, SessionsAssumption DEF Calls, Steps, Idle, NoSession
    <2>2. TypeOK'
      <3>1. pc' \in [Procs -> Calls]
        BY <1>00, <1>7, <2>1 DEF StartRun, TypeOK, Calls, Go, Return
      <3>2. QED
        BY <1>00, <1>0, <1>7, <3>1 DEF StartRun, TypeOK, Calls
    <2>3. GoesOn(p, c)
      BY <1>7, <1>0 DEF StartRun, GoesOn, Joins, InFlight, Unrecorded, Go, Return, Idle,
         Starts, Stops, Calls, NoSession, Nobody
    <2>4. QED
      BY <2>1, <2>2, <2>3
  <1>8. CASE StartSpawn(p)
    <2> DEFINE c == Idle
    <2>1. c \in Calls
      BY <1>0, SessionsAssumption DEF Calls, Steps, Idle, NoSession
    <2>2. TypeOK'
      <3>1. [kind |-> Kind(pc[p].call), session |-> pc[p].rec]
              \in [kind : Tasks, session : 0..MaxSessions]
        BY <1>0 DEF Calls, Kind, Tasks
      <3>2. /\ pc' \in [Procs -> Calls] /\ joinable' \in BOOLEAN /\ crashed' \in BOOLEAN
            /\ loop' \in [kind : Tasks, session : 0..MaxSessions]
            /\ joining' # Nobody => joinable'
        BY <1>00, <1>8, <2>1, <3>1 DEF StartSpawn, TypeOK, Return, Calls
      <3>3. QED
        BY <1>00, <1>8, <3>2 DEF StartSpawn, TypeOK, Calls
    <2>3. GoesOn(p, c)
      BY <1>8, <1>0 DEF StartSpawn, GoesOn, Joins, InFlight, Unrecorded, Go, Return, Idle,
         Starts, Stops, Calls, NoSession, Nobody
    <2>4. QED
      BY <2>1, <2>2, <2>3
  <1>9. QED
    BY <1>1, <1>2, <1>3, <1>4, <1>41, <1>5, <1>6, <1>7, <1>8 DEF StartStep

(* The join of a start or a stop.                                            *)
LEMMA JoinSteps ==
  ASSUME SInv, ~crashed, NEW p \in Procs, Join(p)
  PROVE  TypeOK' /\ \E c \in Calls : GoesOn(p, c)
  <1> USE DEF statusVars, threadVars, historyVars, At
  <1>00. TypeOK
    BY DEF SInv
  <1>0. pc[p] \in Calls
    BY <1>00 DEF TypeOK, Calls
  <1>01. AfterJoin(pc[p].call) \in {"run", "clear", "reset"}
    BY DEF AfterJoin
  <1>02. At(p, "joining") <=> joining = p
    BY DEF SInv, JoinerKnown
  <1>03. p # Nobody
    BY WorkersAssumption, SessionsAssumption DEF Procs, Sessions, Nobody
  <1>1. CASE JoinNothing(p)
    <2> DEFINE c == [pc[p] EXCEPT !.at = AfterJoin(pc[p].call)]
    <2>1. c \in Calls
      BY <1>0, <1>01, SessionsAssumption DEF Calls, Steps, Idle, NoSession
    <2>2. TypeOK'
      <3>1. pc' \in [Procs -> Calls]
        BY <1>00, <1>1, <2>1 DEF JoinNothing, TypeOK, Calls, Go, Return
      <3>2. QED
        BY <1>00, <1>0, <1>1, <3>1 DEF JoinNothing, TypeOK, Calls, Nobody
    <2>3. GoesOn(p, c)
      BY <1>1, <1>0, <1>01, <1>02, <1>03 DEF JoinNothing, GoesOn, Joins, InFlight, Unrecorded, Go, Return, Idle,
         Starts, Stops, Calls, NoSession, Nobody
    <2>4. QED
      BY <2>1, <2>2, <2>3
  <1>2. CASE JoinBegin(p)
    <2> DEFINE c == [pc[p] EXCEPT !.at = "joining"]
    <2>1. c \in Calls
      BY <1>0, <1>01, SessionsAssumption DEF Calls, Steps, Idle, NoSession
    <2>2. TypeOK'
      <3>1. pc' \in [Procs -> Calls]
        BY <1>00, <1>2, <2>1 DEF JoinBegin, TypeOK, Calls, Go, Return
      <3>2. QED
        BY <1>00, <1>0, <1>2, <3>1 DEF JoinBegin, TypeOK, Calls, Nobody
    <2>3. GoesOn(p, c)
      BY <1>2, <1>0, <1>01, <1>02, <1>03 DEF JoinBegin, GoesOn, Joins, InFlight, Unrecorded, Go, Return, Idle,
         Starts, Stops, Calls, NoSession, Nobody
    <2>4. QED
      BY <2>1, <2>2, <2>3
  <1>3. CASE JoinThrows(p)
    <2> DEFINE c == Idle
    <2>1. c \in Calls
      BY <1>0, <1>01, SessionsAssumption DEF Calls, Steps, Idle, NoSession
    <2>2. TypeOK'
      <3>1. pc' \in [Procs -> Calls]
        BY <1>00, <1>3, <2>1 DEF JoinThrows, TypeOK, Calls, Go, Return
      <3>2. QED
        BY <1>00, <1>0, <1>3, <3>1 DEF JoinThrows, TypeOK, Calls, Nobody
    <2>3. GoesOn(p, c)
      BY <1>3, <1>0, <1>01, <1>02, <1>03 DEF JoinThrows, GoesOn, Joins, InFlight, Unrecorded, Go, Return, Idle,
         Starts, Stops, Calls, NoSession, Nobody
    <2>4. QED
      BY <2>1, <2>2, <2>3
  <1>4. CASE JoinEnd(p)
    <2> DEFINE c == [pc[p] EXCEPT !.at = AfterJoin(pc[p].call)]
    <2>1. c \in Calls
      BY <1>0, <1>01, SessionsAssumption DEF Calls, Steps, Idle, NoSession
    <2>2. TypeOK'
      <3>1. pc' \in [Procs -> Calls]
        BY <1>00, <1>4, <2>1 DEF JoinEnd, TypeOK, Calls, Go, Return
      <3>2. QED
        BY <1>00, <1>0, <1>4, <3>1 DEF JoinEnd, TypeOK, Calls, Nobody
    <2>3. GoesOn(p, c)
      BY <1>4, <1>0, <1>01, <1>02, <1>03 DEF JoinEnd, GoesOn, Joins, InFlight, Unrecorded, Go, Return, Idle,
         Starts, Stops, Calls, NoSession, Nobody
    <2>4. QED
      BY <2>1, <2>2, <2>3
  <1>9. QED
    BY <1>1, <1>2, <1>3, <1>4 DEF Join

(* The steps of a stop or a completion after its join.                       *)
LEMMA StopSteps ==
  ASSUME SInv, ~crashed, NEW p \in Procs, StopStep(p)
  PROVE  TypeOK' /\ \E c \in Calls : GoesOn(p, c)
  <1> USE DEF statusVars, threadVars, historyVars, At
  <1>00. TypeOK
    BY DEF SInv
  <1>0. pc[p] \in Calls
    BY <1>00 DEF TypeOK, Calls
  <1>1. CASE StopClear(p)
    <2> DEFINE c == [pc[p] EXCEPT !.at = "reset"]
    <2>1. c \in Calls
      BY <1>0, SessionsAssumption DEF Calls, Steps, Idle, NoSession
    <2>2. TypeOK'
      <3>1. pc' \in [Procs -> Calls]
        BY <1>00, <1>1, <2>1 DEF StopClear, TypeOK, Calls, Go, Return
      <3>2. QED
        BY <1>00, <1>0, <1>1, <3>1, SessionsAssumption DEF StopClear, TypeOK, Calls, NoSession
    <2>3. GoesOn(p, c)
      BY <1>1, <1>0 DEF StopClear, GoesOn, Joins, InFlight, Unrecorded, Go, Return, Idle,
         Starts, Stops, Calls, NoSession, Nobody
    <2>4. QED
      BY <2>1, <2>2, <2>3
  <1>2. CASE StopReset(p)
    <2> DEFINE c == [pc[p] EXCEPT !.at = "deactivate"]
    <2>1. c \in Calls
      BY <1>0, SessionsAssumption DEF Calls, Steps, Idle, NoSession
    <2>2. TypeOK'
      <3>1. pc' \in [Procs -> Calls]
        BY <1>00, <1>2, <2>1 DEF StopReset, TypeOK, Calls, Go, Return
      <3>2. QED
        BY <1>00, <1>0, <1>2, <3>1 DEF StopReset, TypeOK, Calls, Kind, Tasks
    <2>3. GoesOn(p, c)
      BY <1>2, <1>0 DEF StopReset, GoesOn, Joins, InFlight, Unrecorded, Go, Return, Idle,
         Starts, Stops, Calls, NoSession, Nobody
    <2>4. QED
      BY <2>1, <2>2, <2>3
  <1>3. CASE StopDeactivate(p)
    <2> DEFINE c == [pc[p] EXCEPT !.at = "forget"]
    <2>1. c \in Calls
      BY <1>0, SessionsAssumption DEF Calls, Steps, Idle, NoSession
    <2>2. TypeOK'
      <3>1. pc' \in [Procs -> Calls]
        BY <1>00, <1>3, <2>1 DEF StopDeactivate, TypeOK, Calls, Go, Return
      <3>2. QED
        BY <1>00, <1>0, <1>3, <3>1 DEF StopDeactivate, TypeOK, Calls
    <2>3. GoesOn(p, c)
      BY <1>3, <1>0 DEF StopDeactivate, GoesOn, Joins, InFlight, Unrecorded, Go, Return, Idle,
         Starts, Stops, Calls, NoSession, Nobody
    <2>4. QED
      BY <2>1, <2>2, <2>3
  <1>4. CASE StopForget(p)
    <2> DEFINE c == [pc[p] EXCEPT !.at = "unmode"]
    <2>1. c \in Calls
      BY <1>0, SessionsAssumption DEF Calls, Steps, Idle, NoSession
    <2>2. TypeOK'
      <3>1. pc' \in [Procs -> Calls]
        BY <1>00, <1>4, <2>1 DEF StopForget, TypeOK, Calls, Go, Return
      <3>2. QED
        BY <1>00, <1>0, <1>4, <3>1, SessionsAssumption DEF StopForget, TypeOK, Calls, NoSession
    <2>3. GoesOn(p, c)
      BY <1>4, <1>0 DEF StopForget, GoesOn, Joins, InFlight, Unrecorded, Go, Return, Idle,
         Starts, Stops, Calls, NoSession, Nobody
    <2>4. QED
      BY <2>1, <2>2, <2>3
  <1>5. CASE StopMode(p)
    <2> DEFINE c == IF pc[p].call = "StopInspection" THEN [pc[p] EXCEPT !.at = "pause"]
                     ELSE Idle
    <2>1. c \in Calls
      BY <1>0, SessionsAssumption DEF Calls, Steps, Idle, NoSession
    <2>2. TypeOK'
      <3>1. pc' \in [Procs -> Calls]
        BY <1>00, <1>5, <2>1 DEF StopMode, TypeOK, Calls, Go, Return
      <3>2. QED
        BY <1>00, <1>0, <1>5, <3>1 DEF StopMode, TypeOK, Calls, Kind, Tasks
    <2>3. GoesOn(p, c)
      BY <1>5, <1>0 DEF StopMode, GoesOn, Joins, InFlight, Unrecorded, Go, Return, Idle,
         Starts, Stops, Calls, NoSession, Nobody
    <2>4. QED
      BY <2>1, <2>2, <2>3
  <1>6. CASE StopPause(p)
    <2> DEFINE c == [pc[p] EXCEPT !.at = "disarm"]
    <2>1. c \in Calls
      BY <1>0, SessionsAssumption DEF Calls, Steps, Idle, NoSession
    <2>2. TypeOK'
      <3>1. pc' \in [Procs -> Calls]
        BY <1>00, <1>6, <2>1 DEF StopPause, TypeOK, Calls, Go, Return
      <3>2. QED
        BY <1>00, <1>0, <1>6, <3>1 DEF StopPause, TypeOK, Calls
    <2>3. GoesOn(p, c)
      BY <1>6, <1>0 DEF StopPause, GoesOn, Joins, InFlight, Unrecorded, Go, Return, Idle,
         Starts, Stops, Calls, NoSession, Nobody
    <2>4. QED
      BY <2>1, <2>2, <2>3
  <1>7. CASE StopDisarm(p)
    <2> DEFINE c == Idle
    <2>1. c \in Calls
      BY <1>0, SessionsAssumption DEF Calls, Steps, Idle, NoSession
    <2>2. TypeOK'
      <3>1. pc' \in [Procs -> Calls]
        BY <1>00, <1>7, <2>1 DEF StopDisarm, TypeOK, Calls, Go, Return
      <3>2. QED
        BY <1>00, <1>0, <1>7, <3>1 DEF StopDisarm, TypeOK, Calls
    <2>3. GoesOn(p, c)
      BY <1>7, <1>0 DEF StopDisarm, GoesOn, Joins, InFlight, Unrecorded, Go, Return, Idle,
         Starts, Stops, Calls, NoSession, Nobody
    <2>4. QED
      BY <2>1, <2>2, <2>3
  <1>9. QED
    BY <1>1, <1>2, <1>3, <1>4, <1>5, <1>6, <1>7 DEF StopStep

(* The end of SetMode.                                                      *)
LEMMA SetModeStep ==
  ASSUME SInv, ~crashed, NEW p \in Procs, NEW m \in SetModes, SetMode(p, m)
  PROVE  TypeOK' /\ \E c \in Calls : GoesOn(p, c)
  <1> USE DEF SInv, threadVars, historyVars, At
  <1>1. Idle \in Calls
    BY SessionsAssumption DEF Calls, Steps, Idle, NoSession
  <1>2. TypeOK'
    BY <1>1, ModesAssumption DEF SetMode, TypeOK, Calls, Tasks, Return
  <1>3. GoesOn(p, Idle)
    BY DEF SetMode, GoesOn, Joins, InFlight, Unrecorded, Return, Idle, Starts, NoSession
  <1>4. QED
    BY <1>1, <1>2, <1>3

(* The first step of a call: a worker that is idle, or a completion that wakes.  *)
LEMMA FirstSteps ==
  ASSUME SInv, NEW p \in Procs,
         \/ p \in Workers /\ Call(p)
         \/ p \in Sessions /\ Wake(p)
  PROVE  TypeOK' /\ \E c \in Calls : Begins(p, c)
  <1> USE DEF SInv, statusVars, threadVars, historyVars, At
  <1> DEFINE Entry(call, step) == [call |-> call, at |-> step, rec |-> NoSession]
  <1>0. p \in Workers => p \notin Sessions
    BY WorkersAssumption, SessionsAssumption DEF Sessions
  <1>1. ASSUME NEW call \in Starts \cup Stops \cup {"SetMode"}, NEW step \in {"mode", "join"}
        PROVE  Entry(call, step) \in Calls
    BY SessionsAssumption DEF Calls, Steps, NoSession
  <1>2. ASSUME p \in Workers, NEW call \in Starts, StartCheck(p, call)
        PROVE  TypeOK' /\ Begins(p, Entry(call, "mode"))
    <2>1. started + 1 \in 0..MaxSessions /\ records \in 0..started + 1
      BY <1>2, SessionsAssumption DEF TypeOK, StartCheck
    <2>2. pc' = [pc EXCEPT ![p] = Entry(call, "mode")]
      BY <1>2 DEF StartCheck, Enter
    <2>3. TypeOK'
      BY <1>1, <1>2, <2>1, <2>2 DEF TypeOK, StartCheck, Calls
    <2>4. Begins(p, Entry(call, "mode"))
      BY <1>0, <1>2, <2>2 DEF StartCheck, Begins, InFlight, Unrecorded
    <2>5. QED
      BY <2>3, <2>4
  <1>3. ASSUME NEW call \in Stops, ~InFlight(p), p \in Sessions => At(p, "sleeping"),
               StopHalt(p, call)
        PROVE  TypeOK' /\ Begins(p, Entry(call, "join"))
    <2>2. pc' = [pc EXCEPT ![p] = Entry(call, "join")]
      BY <1>3 DEF StopHalt, Enter
    <2>3. TypeOK'
      BY <1>1, <1>3, <2>2 DEF TypeOK, StopHalt, Halt, Calls
    <2>4. Begins(p, Entry(call, "join"))
      BY <1>3, <2>2 DEF StopHalt, Begins, Unrecorded
    <2>5. QED
      BY <2>3, <2>4
  <1>4. ASSUME p \in Workers, SetModeCheck(p)
        PROVE  TypeOK' /\ Begins(p, Entry("SetMode", "mode"))
    <2>2. pc' = [pc EXCEPT ![p] = Entry("SetMode", "mode")]
      BY <1>4 DEF SetModeCheck, Enter
    <2>3. TypeOK'
      BY <1>1, <1>4, <2>2 DEF TypeOK, SetModeCheck, Calls
    <2>4. Begins(p, Entry("SetMode", "mode"))
      BY <1>0, <1>4, <2>2 DEF SetModeCheck, Begins, InFlight, Unrecorded, Starts
    <2>5. QED
      BY <2>3, <2>4
  <1>5. CASE p \in Workers /\ Call(p)
    <2>1. CASE \E call \in Starts : StartCheck(p, call)
      BY <1>1, <1>2, <1>5, <2>1
    <2>2. CASE \E call \in {"StopInspection", "StopAITest"} : StopCall(p, call)
      <3>1. ~InFlight(p) /\ \E call \in Stops : StopHalt(p, call)
        BY <2>2 DEF StopCall, InFlight, Stops
      <3>2. QED
        BY <1>0, <1>1, <1>3, <1>5, <3>1
    <2>3. CASE SetModeCheck(p)
      BY <1>1, <1>4, <1>5, <2>3
    <2>4. QED
      BY <1>5, <2>1, <2>2, <2>3 DEF Call
  <1>6. CASE p \in Sessions /\ Wake(p)
    <2>1. ~InFlight(p) /\ At(p, "sleeping") /\ StopHalt(p, "Completion")
      BY <1>6 DEF Wake, CompletionWakes, InFlight
    <2>2. QED
      BY <1>1, <1>3, <2>1 DEF Stops
  <1>7. QED
    BY <1>5, <1>6

(* The end of the capture thread.                                            *)
LEMMA EndSteps ==
  ASSUME SInv, CaptureEnds
  PROVE  TypeOK' /\ Ends
  <1> USE DEF SInv, statusVars, threadVars, historyVars, At
  <1>0. NoLoop \in [kind : Tasks, session : 0..MaxSessions]
    BY SessionsAssumption DEF NoLoop, Tasks, NoSession
  <1>1. CASE InspectionEnds
    BY <1>0, <1>1 DEF InspectionEnds, TypeOK, Ends
  <1>2. CASE AITestMissing
    BY <1>0, <1>2 DEF AITestMissing, TypeOK, Ends
  <1>3. CASE AITestEnds
    <2>1. pc' = [pc EXCEPT ![loop.session] =
                  [call |-> "Completion", at |-> "sleeping", rec |-> NoSession]]
      BY <1>3 DEF AITestEnds, Enter
    <2>2. [call |-> "Completion", at |-> "sleeping", rec |-> NoSession] \in Calls
      BY SessionsAssumption DEF Calls, Stops, Steps, NoSession
    <2>3. TypeOK'
      BY <1>0, <1>3, <2>1, <2>2 DEF AITestEnds, TypeOK, Calls
    <2>4. QED
      BY <1>3, <2>1, <2>3 DEF AITestEnds, Ends
  <1>4. QED
    BY <1>1, <1>2, <1>3 DEF CaptureEnds

(* Every step is one of these, and none is taken after Core has terminated.    *)
LEMMA Moves ==
  ASSUME SInv, Next
  PROVE  /\ TypeOK' /\ ~crashed
         /\ \/ \E p \in Procs, c \in Calls : Begins(p, c)
            \/ \E p \in Procs, c \in Calls : GoesOn(p, c)
            \/ \E p \in Procs : Records(p) \/ Fails(p)
            \/ Ends \/ Throws
  <1>1. ASSUME NEW w \in Workers, Call(w)
        PROVE  TypeOK' /\ ~crashed /\ \E p \in Procs, c \in Calls : Begins(p, c)
    <2>1. w \in Procs /\ ~crashed
      BY <1>1 DEF Procs, Call
    <2>2. QED
      BY <1>1, <2>1, FirstSteps
  <1>2. ASSUME NEW s \in Sessions, Wake(s)
        PROVE  TypeOK' /\ ~crashed /\ \E p \in Procs, c \in Calls : Begins(p, c)
    <2>1. s \in Procs /\ ~crashed
      BY <1>2 DEF Procs, Wake
    <2>2. QED
      BY <1>2, <2>1, FirstSteps
  <1>3. ASSUME NEW p \in Procs, Step(p)
        PROVE  /\ TypeOK' /\ ~crashed
               /\ Records(p) \/ Fails(p) \/ \E c \in Calls : GoesOn(p, c)
    <2>1. ~crashed
      BY <1>3 DEF Step
    <2>2. CASE StartStep(p)
      BY <2>1, <2>2, StartSteps
    <2>3. CASE Join(p)
      BY <2>1, <2>3, JoinSteps
    <2>4. CASE StopStep(p)
      BY <2>1, <2>4, StopSteps
    <2>5. CASE \E m \in SetModes : SetMode(p, m)
      BY <2>1, <2>5, SetModeStep
    <2>6. QED
      BY <1>3, <2>1, <2>2, <2>3, <2>4, <2>5 DEF Step
  <1>4. ASSUME CaptureEnds
        PROVE  TypeOK' /\ ~crashed /\ Ends
    BY <1>4, EndSteps DEF CaptureEnds
  <1>5. ASSUME CaptureThrows
        PROVE  TypeOK' /\ ~crashed /\ Throws
    BY <1>5 DEF CaptureThrows, Throws, SInv, TypeOK, statusVars, threadVars
  <1>6. QED
    BY <1>1, <1>2, <1>3, <1>4, <1>5 DEF Next

(* When the capture thread ends, no call that is going on is touched.          *)
LEMMA EndsTouchesIdle ==
  ASSUME SInv, Ends
  PROVE  \A p \in Procs : \/ pc'[p] = pc[p]
                          \/ /\ p = loop.session /\ p \in Sessions
                             /\ At(p, "idle") /\ pc'[p].at = "sleeping"
                             /\ pc'[p].rec = NoSession
  <1>1. \A p \in Procs : p = loop.session => p \in Sessions
    BY WorkersAssumption DEF SInv, TypeOK, Procs
  <1>2. \A p \in Sessions : p = loop.session => At(p, "idle")
    BY DEF SInv, OneHolder
  <1>3. QED
    BY <1>1, <1>2 DEF SInv, TypeOK, Ends

LEMMA CountedStep ==
  ASSUME SInv, Next
  PROVE  StartsCounted'
  <1> USE DEF SInv
  <1>0. pc \in [Procs -> Calls]
    BY DEF TypeOK, Calls
  <1>1. ASSUME NEW p \in Procs, NEW c \in Calls, Begins(p, c)
        PROVE  StartsCounted'
    <2>1. p \notin Pre
      BY <1>1 DEF Begins, Pre, InFlight, Unrecorded
    <2>2. CASE Unrecorded(c)
      <3>1. Pre' = Pre \cup {p}
        BY <1>0, <1>1, <2>2 DEF Begins, Pre
      <3>2. IsFiniteSet(Pre') /\ Cardinality(Pre') = Cardinality(Pre) + 1
        BY <2>1, <3>1, FS_AddElement DEF StartsCounted
      <3>3. Cardinality(Pre) \in Nat
        BY FS_CardinalityType DEF StartsCounted
      <3>4. QED
        BY <1>1, <2>2, <3>2, <3>3, SessionsAssumption DEF Begins, StartsCounted, TypeOK
    <2>3. CASE ~Unrecorded(c)
      <3>1. Pre' = Pre
        BY <1>0, <1>1, <2>1, <2>3 DEF Begins, Pre
      <3>2. QED
        BY <1>1, <2>3, <3>1 DEF Begins, StartsCounted
    <2>4. QED
      BY <2>2, <2>3
  <1>2. ASSUME NEW p \in Procs, NEW c \in Calls, GoesOn(p, c)
        PROVE  StartsCounted'
    <2>1. Pre' = Pre
      BY <1>0, <1>2 DEF GoesOn, Pre
    <2>2. QED
      BY <1>2, <2>1 DEF GoesOn, StartsCounted
  <1>3. ASSUME NEW p \in Procs, Records(p)
        PROVE  StartsCounted'
    <2>1. p \in Pre
      BY <1>3 DEF Records, Pre, Unrecorded, At
    <2>2. Pre' = Pre \ {p}
      BY <1>0, <1>3 DEF Records, Pre, Unrecorded
    <2>3. IsFiniteSet(Pre') /\ Cardinality(Pre') = Cardinality(Pre) - 1
      BY <2>1, <2>2, FS_RemoveElement DEF StartsCounted
    <2>4. Cardinality(Pre) \in Nat
      BY FS_CardinalityType DEF StartsCounted
    <2>5. QED
      BY <1>3, <2>3, <2>4, SessionsAssumption DEF Records, StartsCounted, TypeOK
  <1>31. ASSUME NEW p \in Procs, Fails(p)
         PROVE  StartsCounted'
    <2>1. p \in Pre
      BY <1>31 DEF Fails, Pre, Unrecorded, At
    <2>2. Pre' = Pre \ {p}
      BY <1>0, <1>31 DEF Fails, Pre, Unrecorded, Idle
    <2>3. IsFiniteSet(Pre') /\ Cardinality(Pre') = Cardinality(Pre) - 1
      BY <2>1, <2>2, FS_RemoveElement DEF StartsCounted
    <2>4. Cardinality(Pre) \in Nat
      BY FS_CardinalityType DEF StartsCounted
    <2>5. QED
      BY <1>31, <2>3, <2>4, SessionsAssumption DEF Fails, StartsCounted, TypeOK
  <1>32. ASSUME Throws
         PROVE  StartsCounted'
    BY <1>32 DEF Throws, StartsCounted, Pre
  <1>4. ASSUME Ends
        PROVE  StartsCounted'
    <2>1. Pre' = Pre
      BY <1>0, <1>4, EndsTouchesIdle DEF Pre, Unrecorded, At
    <2>2. QED
      BY <1>4, <2>1 DEF Ends, StartsCounted, historyVars
  <1>5. QED
    BY <1>1, <1>2, <1>3, <1>31, <1>32, <1>4, Moves

LEMMA HolderStep ==
  ASSUME SInv, Next
  PROVE  OneHolder'
  <1> USE DEF SInv
  <1>0. /\ pc \in [Procs -> Calls] /\ pc' \in [Procs -> Calls] /\ records \in Nat
        /\ loop.session \in Nat /\ Sessions \subseteq Procs
    BY Moves, SessionsAssumption DEF TypeOK, Calls, Procs
  <1>1. ASSUME NEW p \in Procs, NEW c \in Calls, Begins(p, c)
        PROVE  OneHolder'
    <2>1. \A s \in Sessions : pc'[s].at # "idle" => pc[s].at # "idle"
      BY <1>0, <1>1 DEF Begins, At
    <2>2. \A q \in Procs : pc'[q].rec \in {NoSession, pc[q].rec}
      BY <1>0, <1>1 DEF Begins
    <2>3. records' = records /\ loop' = loop
      BY <1>1 DEF Begins
    <2>4. QED
      BY <1>0, <2>1, <2>2, <2>3, SessionsAssumption DEF OneHolder, At, Sessions, NoSession
  <1>2. ASSUME NEW p \in Procs, NEW c \in Calls, GoesOn(p, c)
        PROVE  OneHolder'
    <2>1. loop' = loop \/ (loop'.session = pc[p].rec /\ c.rec = NoSession)
      BY <1>2 DEF GoesOn, Idle
    <2>2. \A s \in Sessions : pc'[s].at # "idle" => pc[s].at # "idle"
      BY <1>0, <1>2 DEF GoesOn, InFlight
    <2>3. \A q \in Procs : pc'[q].rec \in {NoSession, pc[q].rec}
      BY <1>0, <1>2 DEF GoesOn
    <2>4. pc'[p].rec = c.rec /\ records' = records
      BY <1>0, <1>2 DEF GoesOn
    <2>5. CASE loop' = loop
      BY <1>0, <2>2, <2>3, <2>4, <2>5, SessionsAssumption
      DEF OneHolder, At, Sessions, NoSession
    <2>6. CASE loop'.session = pc[p].rec /\ c.rec = NoSession
      <3>1. loop'.session <= records
        BY <1>0, <2>6 DEF OneHolder, NoSession
      <3>2. \A q \in Procs : pc'[q].rec # NoSession => pc'[q].rec # loop'.session
        BY <1>0, <2>3, <2>4, <2>6 DEF OneHolder, NoSession
      <3>3. \A s \in Sessions : pc'[s].at # "idle" => s # loop'.session
        BY <1>0, <2>2, <2>6 DEF OneHolder, At
      <3>4. \A s \in Sessions : pc'[s].at # "idle" =>
              s <= records /\ \A q \in Procs : pc'[q].rec # s
        BY <1>0, <2>2, <2>3, SessionsAssumption DEF OneHolder, At, Sessions, NoSession
      <3>5. QED
        BY <1>0, <2>3, <2>4, <3>1, <3>2, <3>3, <3>4 DEF OneHolder, At, NoSession
    <2>7. QED
      BY <2>1, <2>5, <2>6
  <1>3. ASSUME NEW p \in Procs, Records(p)
        PROVE  OneHolder'
    <2>1. /\ records' = records + 1 /\ loop' = loop
          /\ pc'[p].rec = records + 1
          /\ \A q \in Procs \ {p} : pc'[q] = pc[q]
      BY <1>0, <1>3 DEF Records
    <2>2. pc[p].at # "idle"
      BY <1>3 DEF Records, At
    <2>3. \A q \in Procs : pc[q].rec \in Nat
      BY <1>0, SessionsAssumption DEF Calls
    <2>4. \A q \in Procs : pc'[q].rec # NoSession =>
            pc'[q].rec <= records + 1 /\ pc'[q].rec # loop.session
      BY <1>0, <2>1, <2>3 DEF OneHolder
    <2>5. \A q, r \in Procs : pc'[q].rec # NoSession /\ pc'[q].rec = pc'[r].rec => q = r
      BY <1>0, <2>1, <2>3 DEF OneHolder, NoSession
    <2>6. \A s \in Sessions : pc'[s].at # "idle" => s <= records /\ s # loop.session
      BY <1>0, <2>1, <2>2 DEF OneHolder, At
    <2>7. \A s \in Sessions : pc'[s].at # "idle" => \A q \in Procs : pc'[q].rec # s
      BY <1>0, <2>1, <2>2, <2>6, SessionsAssumption DEF OneHolder, At, Sessions
    <2>8. QED
      BY <1>0, <2>1, <2>4, <2>5, <2>6, <2>7, SessionsAssumption DEF OneHolder, At, Sessions
  <1>31. ASSUME NEW p \in Procs, Fails(p)
         PROVE  OneHolder'
    <2>1. \A s \in Sessions : pc'[s].at # "idle" => pc[s].at # "idle"
      BY <1>0, <1>31 DEF Fails, At, Idle
    <2>2. \A q \in Procs : pc'[q].rec \in {NoSession, pc[q].rec}
      BY <1>0, <1>31 DEF Fails, Idle
    <2>3. records' = records /\ loop' = loop
      BY <1>31 DEF Fails
    <2>4. QED
      BY <1>0, <2>1, <2>2, <2>3, SessionsAssumption DEF OneHolder, At, Sessions, NoSession
  <1>32. ASSUME Throws
         PROVE  OneHolder'
    BY <1>32 DEF Throws, OneHolder, At
  <1>4. ASSUME Ends
        PROVE  OneHolder'
    <2>1. loop'.session = NoSession /\ records' = records
      BY <1>4 DEF Ends, NoLoop, historyVars
    <2>2. \A q \in Procs : pc'[q].rec \in {NoSession, pc[q].rec}
      BY <1>4, EndsTouchesIdle
    <2>3. \A s \in Sessions : pc'[s].at # "idle" => s <= records /\ \A q \in Procs : pc[q].rec # s
      BY <1>0, <1>4, EndsTouchesIdle DEF OneHolder, At, Sessions, NoSession
    <2>4. QED
      BY <1>0, <2>1, <2>2, <2>3, SessionsAssumption DEF OneHolder, At, Sessions, NoSession
  <1>5. QED
    BY <1>1, <1>2, <1>3, <1>31, <1>32, <1>4, Moves

LEMMA JoinerStep ==
  ASSUME SInv, Next
  PROVE  JoinerKnown'
  <1> USE DEF SInv
  <1>0. /\ pc \in [Procs -> Calls]
        /\ Nobody \notin Procs
    BY WorkersAssumption, SessionsAssumption DEF TypeOK, Calls, Procs, Sessions, Nobody
  <1>1. ASSUME NEW p \in Procs, NEW c \in Calls, Begins(p, c)
        PROVE  JoinerKnown'
    BY <1>0, <1>1 DEF Begins, JoinerKnown, At, InFlight
  <1>2. ASSUME NEW p \in Procs, NEW c \in Calls, GoesOn(p, c)
        PROVE  JoinerKnown'
    BY <1>0, <1>2 DEF GoesOn, Joins, JoinerKnown, At
  <1>3. ASSUME NEW p \in Procs, Records(p)
        PROVE  JoinerKnown'
    BY <1>0, <1>3 DEF Records, JoinerKnown, At
  <1>31. ASSUME NEW p \in Procs, Fails(p)
         PROVE  JoinerKnown'
    BY <1>0, <1>31 DEF Fails, Idle, JoinerKnown, At
  <1>32. ASSUME Throws
         PROVE  JoinerKnown'
    BY <1>32 DEF Throws, JoinerKnown, At
  <1>4. ASSUME Ends
        PROVE  JoinerKnown'
    BY <1>0, <1>4, EndsTouchesIdle DEF Ends, JoinerKnown, At
  <1>5. QED
    BY <1>1, <1>2, <1>3, <1>31, <1>32, <1>4, Moves

LEMMA OneCallStep ==
  ASSUME SInv, Next
  PROVE  OneCall' /\ TerminatesOnlyTangled'
  <1> USE DEF SInv
  <1>0. pc \in [Procs -> Calls] /\ ~crashed
    BY Moves DEF TypeOK, Calls
  <1>1. ASSUME NEW p \in Procs, NEW c \in Calls, Begins(p, c)
        PROVE  OneCall' /\ TerminatesOnlyTangled'
    <2>1. ~tangled' => \A q \in Procs \ {p} : ~InFlight(q)
      BY <1>1 DEF Begins, Alone
    <2>2. pc'[p] = c /\ \A q \in Procs \ {p} : pc'[q] = pc[q]
      BY <1>0, <1>1 DEF Begins
    <2>3. QED
      BY <1>0, <1>1, <2>1, <2>2 DEF Begins, OneCall, TerminatesOnlyTangled, InFlight
  <1>2. ASSUME NEW p \in Procs, NEW c \in Calls, GoesOn(p, c)
        PROVE  OneCall' /\ TerminatesOnlyTangled'
    <2>1. pc'[p] = c /\ \A q \in Procs \ {p} : pc'[q] = pc[q]
      BY <1>0, <1>2 DEF GoesOn
    <2>2. InFlight(p) /\ tangled' = tangled
      BY <1>2 DEF GoesOn
    <2>3. CASE tangled
      BY <2>2, <2>3 DEF OneCall, TerminatesOnlyTangled
    <2>4. CASE ~tangled
      <3>1. \A q \in Procs \ {p} : ~InFlight(q)
        BY <2>2, <2>4 DEF OneCall
      <3>2. \A q \in Procs \ {p} : pc[q].at \in {"idle", "sleeping"}
        BY <3>1 DEF InFlight
      <3>3. \A q, r \in Procs : InFlight(q)' /\ InFlight(r)' => q = r
        BY <2>1, <3>2 DEF InFlight
      <3>4. c.at \in {"run", "spawn"} => ~joinable'
        BY <1>2, <2>4 DEF GoesOn, OneCall, At
      <3>5. ~(At(p, "join") /\ joining # Nobody)
        BY <3>2 DEF JoinerKnown, At, TypeOK
      <3>6. ~(At(p, "spawn") /\ joinable)
        BY <2>4 DEF OneCall, At
      <3>7. ~crashed'
        BY <1>2, <3>5, <3>6 DEF GoesOn
      <3>8. QED
        BY <2>1, <3>2, <3>3, <3>4, <3>7 DEF OneCall, TerminatesOnlyTangled
    <2>5. QED
      BY <2>3, <2>4
  <1>3. ASSUME NEW p \in Procs, Records(p)
        PROVE  OneCall' /\ TerminatesOnlyTangled'
    <2>1. InFlight(p) /\ tangled' = tangled /\ joinable' = joinable /\ crashed' = crashed
      BY <1>3 DEF Records, InFlight, At
    <2>2. pc'[p].at \in {"unpause", "join"} /\ \A q \in Procs \ {p} : pc'[q] = pc[q]
      BY <1>0, <1>3 DEF Records
    <2>3. QED
      BY <1>0, <2>1, <2>2 DEF OneCall, TerminatesOnlyTangled, InFlight
  <1>31. ASSUME NEW p \in Procs, Fails(p)
         PROVE  OneCall' /\ TerminatesOnlyTangled'
    <2>1. pc'[p] = Idle /\ \A q \in Procs \ {p} : pc'[q] = pc[q]
      BY <1>0, <1>31 DEF Fails
    <2>2. QED
      BY <1>0, <1>31, <2>1 DEF Fails, OneCall, TerminatesOnlyTangled, InFlight, Idle
  <1>32. ASSUME Throws
         PROVE  OneCall' /\ TerminatesOnlyTangled'
    BY <1>32 DEF Throws, OneCall, TerminatesOnlyTangled, InFlight
  <1>4. ASSUME Ends
        PROVE  OneCall' /\ TerminatesOnlyTangled'
    <2>1. tangled' = tangled /\ joinable' = joinable /\ crashed' = crashed /\ threw' = threw
      BY <1>4 DEF Ends, historyVars
    <2>2. \A q \in Procs : pc'[q] = pc[q] \/ pc'[q].at = "sleeping"
      BY <1>4, EndsTouchesIdle
    <2>3. QED
      BY <1>0, <2>1, <2>2 DEF OneCall, TerminatesOnlyTangled, InFlight
  <1>5. QED
    BY <1>1, <1>2, <1>3, <1>31, <1>32, <1>4, Moves

-----------------------------------------------------------------------------
LEMMA InitSInv == Init => SInv
  <1> SUFFICES ASSUME Init PROVE SInv
    OBVIOUS
  <1>0. Idle \in Calls /\ \A p \in Procs : pc[p] = Idle
    BY SessionsAssumption DEF Init, Idle, Calls, Steps, NoSession
  <1>1. TypeOK
    <2>1. pc \in [Procs -> Calls]
      BY <1>0 DEF Init
    <2>2. NoLoop \in [kind : Tasks, session : 0..MaxSessions]
      BY SessionsAssumption DEF NoLoop, Tasks, NoSession
    <2>3. 0 \in 0..MaxSessions /\ records \in 0..started /\ started \in 0..MaxSessions
      BY SessionsAssumption DEF Init
    <2>4. active \in BOOLEAN /\ paused \in BOOLEAN /\ capturing \in BOOLEAN
          /\ running \in BOOLEAN /\ joinable \in BOOLEAN /\ crashed \in BOOLEAN
          /\ tangled \in BOOLEAN /\ failed \in BOOLEAN /\ threw \in BOOLEAN
      BY DEF Init
    <2>5. QED
      BY <2>1, <2>2, <2>3, <2>4 DEF Init, TypeOK, Calls, Tasks, NoSession, Nobody
  <1>2. Pre = {}
    BY <1>0 DEF Pre, Unrecorded, Idle
  <1>3. StartsCounted
    BY <1>2, FS_EmptySet DEF StartsCounted, Init
  <1>4. OneHolder
    BY <1>0, SessionsAssumption DEF Init, OneHolder, Idle, NoLoop, NoSession, At, Procs
  <1>5. JoinerKnown
    BY <1>0, WorkersAssumption, SessionsAssumption
    DEF Init, JoinerKnown, Idle, At, Procs, Sessions, Nobody
  <1>6. OneCall /\ TerminatesOnlyTangled
    BY <1>0 DEF Init, OneCall, TerminatesOnlyTangled, InFlight, Idle
  <1>7. QED
    BY <1>1, <1>3, <1>4, <1>5, <1>6 DEF SInv

LEMMA SInvStep == SInv /\ [Next]_vars => SInv'
  <1> SUFFICES ASSUME SInv, [Next]_vars PROVE SInv'
    OBVIOUS
  <1>1. CASE Next
    BY <1>1, Moves, CountedStep, HolderStep, JoinerStep, OneCallStep DEF SInv
  <1>2. CASE UNCHANGED vars
    BY <1>2
    DEF vars, statusVars, threadVars, historyVars, SInv, TypeOK, StartsCounted, Pre,
        OneHolder, JoinerKnown, OneCall, TerminatesOnlyTangled, At, InFlight
  <1>3. QED
    BY <1>1, <1>2

(* Every reachable state satisfies the inductive invariant.                  *)
THEOREM SessionInductive == Spec => []SInv
  <1>1. Init => SInv
    BY InitSInv
  <1>2. SInv /\ [Next]_vars => SInv'
    BY SInvStep
  <1>3. QED
    BY <1>1, <1>2, PTL DEF Spec

-----------------------------------------------------------------------------
(* The status, the threads and the program counters of the handlers keep their   *)
(* types; in particular every session that is counted is within its bound.      *)
THEOREM SessionTypeCorrect == Spec => []TypeOK
  <1>1. SInv => TypeOK
    BY DEF SInv
  <1>2. QED
    BY <1>1, SessionInductive, PTL

(* For any number of workers and sessions, Core terminates only when calls       *)
(* overlapped or the capture thread threw: alone, a handler never assigns to a    *)
(* thread that is held, however the session before it ended, a start that failed  *)
(* included, and never joins one that is being joined.                        *)
THEOREM CoreLives == Spec => []TerminatesOnlyTangled
  <1>1. SInv => TerminatesOnlyTangled
    BY DEF SInv
  <1>2. QED
    BY <1>1, SessionInductive, PTL

-----------------------------------------------------------------------------
(* That Core's account of itself agrees with what it does needs to know how far   *)
(* a single call has come, whatever overlapping calls left behind before it.     *)

(* Which calls are at which step, and whether their record is made.              *)
Shaped(c) ==
  /\ c.at \in {"task", "activate", "record", "run", "spawn"} => c.call \in Starts
  /\ c.at \in {"unpause", "arm"} => c.call = "StartInspection"
  /\ c.at \in {"clear", "pause", "disarm"} => c.call = "StopInspection"
  /\ c.at \in {"reset", "deactivate", "forget", "unmode"} => c.call \in Stops
  /\ c.at = "mode" => c.call \in Starts \cup {"SetMode"}
  /\ c.at \in {"join", "joining"} => c.call \in Starts \cup Stops
  /\ c.call \in Starts /\ c.at \notin {"mode", "task", "activate", "record"} => c.rec # NoSession

(* No session is going on; the mode may be any that a client has set.             *)
NoneGoesOn == ~active /\ ~failed /\ task = "None" /\ record = NoSession /\ loop = NoLoop

(* What a start has set up so far.                                            *)
SetUp(c) ==
  /\ loop = NoLoop /\ ~failed
  /\ c.at \in {"mode", "task"} => NoneGoesOn
  /\ c.at = "activate" => ~active /\ record = NoSession
  /\ c.at = "record" => active /\ record = NoSession
  /\ c.at # "mode" => mode = Kind(c.call)
  /\ c.at \notin {"mode", "task"} => task = Kind(c.call)
  /\ c.at \notin {"mode", "task", "activate", "record"} => active /\ record = c.rec
  /\ c.call = "StartInspection" =>
       /\ c.at \in {"arm", "join", "joining", "run", "spawn"} => ~paused
       /\ c.at \in {"join", "joining", "run", "spawn"} => capturing
  /\ c.at = "spawn" => running /\ source = c.rec

(* What a stop or a completion has taken down so far.                           *)
TakenDown(c) ==
  /\ ~failed
  /\ c.at \notin {"join", "joining"} => loop = NoLoop
  /\ c.at \in {"deactivate", "forget", "unmode", "pause", "disarm"} => task = "None"
  /\ c.at \in {"forget", "unmode", "pause", "disarm"} => ~active
  /\ c.at \in {"unmode", "pause", "disarm"} => record = NoSession

SoFar(c) ==
  /\ c.call \in Starts => SetUp(c)
  /\ c.call \in Stops => TakenDown(c)
  /\ c.call = "SetMode" => NoneGoesOn

Agrees ==
  /\ active <=> task # "None"
  /\ active <=> record # NoSession \/ failed
  /\ failed => record = NoSession /\ mode = task /\ loop = NoLoop
  /\ loop # NoLoop => /\ active /\ task = loop.kind /\ mode = loop.kind
                      /\ record = loop.session /\ source = loop.session /\ running
  /\ loop.kind = "Inspection" => ~paused /\ capturing

AllShaped == \A p \in Procs : Shaped(pc[p])
LoopHeld == loop # NoLoop => joinable
Accounted ==
  ~tangled => /\ \A p \in Procs : InFlight(p) => SoFar(pc[p])
              /\ Quiet => Agrees

AInv == AllShaped /\ LoopHeld /\ Accounted

(* A start on its way.                                                       *)
LEMMA StartAccounted ==
  ASSUME SInv, AInv, NEW p \in Procs, StartStep(p)
  PROVE  /\ Shaped(pc[p])' /\ LoopHeld'
         /\ ~tangled => IF InFlight(p)' THEN SoFar(pc[p])' ELSE Agrees'
  <1> USE DEF statusVars, threadVars, historyVars, At
  <1>0. pc[p] \in Calls /\ pc \in [Procs -> Calls] /\ Shaped(pc[p]) /\ LoopHeld
    BY DEF SInv, TypeOK, Calls, AInv, AllShaped
  <1>00. records \in Nat /\ Idle \in Calls
    BY SessionsAssumption DEF SInv, TypeOK, Idle, Calls, Steps, NoSession
  <1>01. InFlight(p) /\ (~tangled => SoFar(pc[p]))
    BY DEF AInv, Accounted, InFlight, StartStep, StartMode, StartTask, StartActivate,
       StartRecord, StartRecordFails, StartUnpause, StartArm, StartRun, StartSpawn
  <1>02. ~tangled /\ At(p, "spawn") => ~joinable
    BY DEF SInv, OneCall
  <1>1. CASE StartMode(p)
    BY <1>0, <1>00, <1>01, <1>02, <1>1
    DEF StartMode, Go, Return, Idle, Calls, Shaped, LoopHeld, SoFar, SetUp, NoneGoesOn, Agrees, InFlight,
        Starts, Stops, Kind, NoSession, NoLoop
  <1>2. CASE StartTask(p)
    BY <1>0, <1>00, <1>01, <1>02, <1>2
    DEF StartTask, Go, Return, Idle, Calls, Shaped, LoopHeld, SoFar, SetUp, NoneGoesOn, Agrees, InFlight,
        Starts, Stops, Kind, NoSession, NoLoop
  <1>3. CASE StartActivate(p)
    BY <1>0, <1>00, <1>01, <1>02, <1>3
    DEF StartActivate, Go, Return, Idle, Calls, Shaped, LoopHeld, SoFar, SetUp, NoneGoesOn, Agrees, InFlight,
        Starts, Stops, Kind, NoSession, NoLoop
  <1>4. CASE StartRecord(p)
    BY <1>0, <1>00, <1>01, <1>02, <1>4
    DEF StartRecord, Go, Return, Idle, Calls, Shaped, LoopHeld, SoFar, SetUp, NoneGoesOn, Agrees, InFlight,
        Starts, Stops, Kind, NoSession, NoLoop
  <1>41. CASE StartRecordFails(p)
    BY <1>0, <1>00, <1>01, <1>02, <1>41
    DEF StartRecordFails, Go, Return, Idle, Calls, Shaped, LoopHeld, SoFar, SetUp, NoneGoesOn, Agrees, InFlight,
        Starts, Stops, Kind, NoSession, NoLoop
  <1>5. CASE StartUnpause(p)
    BY <1>0, <1>00, <1>01, <1>02, <1>5
    DEF StartUnpause, Go, Return, Idle, Calls, Shaped, LoopHeld, SoFar, SetUp, NoneGoesOn, Agrees, InFlight,
        Starts, Stops, Kind, NoSession, NoLoop
  <1>6. CASE StartArm(p)
    BY <1>0, <1>00, <1>01, <1>02, <1>6
    DEF StartArm, Go, Return, Idle, Calls, Shaped, LoopHeld, SoFar, SetUp, NoneGoesOn, Agrees, InFlight,
        Starts, Stops, Kind, NoSession, NoLoop
  <1>7. CASE StartRun(p)
    BY <1>0, <1>00, <1>01, <1>02, <1>7
    DEF StartRun, Go, Return, Idle, Calls, Shaped, LoopHeld, SoFar, SetUp, NoneGoesOn, Agrees, InFlight,
        Starts, Stops, Kind, NoSession, NoLoop
  <1>8. CASE StartSpawn(p)
    BY <1>0, <1>00, <1>01, <1>02, <1>8
    DEF StartSpawn, Go, Return, Idle, Calls, Shaped, LoopHeld, SoFar, SetUp, NoneGoesOn, Agrees, InFlight,
        Starts, Stops, Kind, NoSession, NoLoop
  <1>9. QED
    BY <1>1, <1>2, <1>3, <1>4, <1>41, <1>5, <1>6, <1>7, <1>8 DEF StartStep

(* A join of a start or a stop.                                              *)
LEMMA JoinAccounted ==
  ASSUME SInv, AInv, NEW p \in Procs, Join(p)
  PROVE  /\ Shaped(pc[p])' /\ LoopHeld'
         /\ ~tangled => IF InFlight(p)' THEN SoFar(pc[p])' ELSE Agrees'
  <1> USE DEF statusVars, threadVars, historyVars, At
  <1>0. pc[p] \in Calls /\ pc \in [Procs -> Calls] /\ Shaped(pc[p]) /\ LoopHeld
    BY DEF SInv, TypeOK, Calls, AInv, AllShaped
  <1>01. InFlight(p) /\ (~tangled => SoFar(pc[p]))
    BY DEF AInv, Accounted, InFlight, Join, JoinNothing, JoinBegin, JoinThrows, JoinEnd
  <1>02. ~tangled => ~(At(p, "join") /\ joining # Nobody)
    BY DEF SInv, OneCall, JoinerKnown, TypeOK, InFlight
  <1>1. CASE JoinNothing(p)
    BY <1>0, <1>01, <1>02, <1>1
    DEF JoinNothing, AfterJoin, Go, Return, Idle, Calls, Shaped, LoopHeld, SoFar, SetUp, TakenDown, NoneGoesOn,
        Agrees, InFlight, Starts, Stops, Kind, NoSession, NoLoop
  <1>2. CASE JoinBegin(p)
    BY <1>0, <1>01, <1>02, <1>2
    DEF JoinBegin, AfterJoin, Go, Return, Idle, Calls, Shaped, LoopHeld, SoFar, SetUp, TakenDown, NoneGoesOn,
        Agrees, InFlight, Starts, Stops, Kind, NoSession, NoLoop
  <1>3. CASE JoinThrows(p)
    BY <1>0, <1>01, <1>02, <1>3
    DEF JoinThrows, AfterJoin, Go, Return, Idle, Calls, Shaped, LoopHeld, SoFar, SetUp, TakenDown, NoneGoesOn,
        Agrees, InFlight, Starts, Stops, Kind, NoSession, NoLoop
  <1>4. CASE JoinEnd(p)
    BY <1>0, <1>01, <1>02, <1>4
    DEF JoinEnd, AfterJoin, Go, Return, Idle, Calls, Shaped, LoopHeld, SoFar, SetUp, TakenDown, NoneGoesOn,
        Agrees, InFlight, Starts, Stops, Kind, NoSession, NoLoop
  <1>9. QED
    BY <1>1, <1>2, <1>3, <1>4 DEF Join

(* A stop or a completion after its join.                                      *)
LEMMA StopAccounted ==
  ASSUME SInv, AInv, NEW p \in Procs, StopStep(p)
  PROVE  /\ Shaped(pc[p])' /\ LoopHeld'
         /\ ~tangled => IF InFlight(p)' THEN SoFar(pc[p])' ELSE Agrees'
  <1> USE DEF statusVars, threadVars, historyVars, At
  <1>0. pc[p] \in Calls /\ pc \in [Procs -> Calls] /\ Shaped(pc[p]) /\ LoopHeld
    BY DEF SInv, TypeOK, Calls, AInv, AllShaped
  <1>01. InFlight(p) /\ (~tangled => SoFar(pc[p]))
    BY DEF AInv, Accounted, InFlight, StopStep, StopClear, StopReset, StopDeactivate, StopForget,
       StopMode, StopPause, StopDisarm
  <1>1. CASE StopClear(p)
    BY <1>0, <1>01, <1>1
    DEF StopClear, Go, Return, Idle, Calls, Shaped, LoopHeld, SoFar, SetUp, TakenDown, NoneGoesOn,
        Agrees, InFlight, Starts, Stops, NoSession, NoLoop
  <1>2. CASE StopReset(p)
    BY <1>0, <1>01, <1>2
    DEF StopReset, Go, Return, Idle, Calls, Shaped, LoopHeld, SoFar, SetUp, TakenDown, NoneGoesOn,
        Agrees, InFlight, Starts, Stops, NoSession, NoLoop
  <1>3. CASE StopDeactivate(p)
    BY <1>0, <1>01, <1>3
    DEF StopDeactivate, Go, Return, Idle, Calls, Shaped, LoopHeld, SoFar, SetUp, TakenDown, NoneGoesOn,
        Agrees, InFlight, Starts, Stops, NoSession, NoLoop
  <1>4. CASE StopForget(p)
    BY <1>0, <1>01, <1>4
    DEF StopForget, Go, Return, Idle, Calls, Shaped, LoopHeld, SoFar, SetUp, TakenDown, NoneGoesOn,
        Agrees, InFlight, Starts, Stops, NoSession, NoLoop
  <1>5. CASE StopMode(p)
    BY <1>0, <1>01, <1>5
    DEF StopMode, Go, Return, Idle, Calls, Shaped, LoopHeld, SoFar, SetUp, TakenDown, NoneGoesOn,
        Agrees, InFlight, Starts, Stops, NoSession, NoLoop
  <1>6. CASE StopPause(p)
    BY <1>0, <1>01, <1>6
    DEF StopPause, Go, Return, Idle, Calls, Shaped, LoopHeld, SoFar, SetUp, TakenDown, NoneGoesOn,
        Agrees, InFlight, Starts, Stops, NoSession, NoLoop
  <1>7. CASE StopDisarm(p)
    BY <1>0, <1>01, <1>7
    DEF StopDisarm, Go, Return, Idle, Calls, Shaped, LoopHeld, SoFar, SetUp, TakenDown, NoneGoesOn,
        Agrees, InFlight, Starts, Stops, NoSession, NoLoop
  <1>9. QED
    BY <1>1, <1>2, <1>3, <1>4, <1>5, <1>6, <1>7 DEF StopStep

LEMMA SetModeAccounted ==
  ASSUME SInv, AInv, NEW p \in Procs, NEW m \in SetModes, SetMode(p, m)
  PROVE  /\ Shaped(pc[p])' /\ LoopHeld'
         /\ ~tangled => IF InFlight(p)' THEN SoFar(pc[p])' ELSE Agrees'
  <1>0. pc[p] \in Calls /\ pc \in [Procs -> Calls] /\ LoopHeld
    BY DEF SInv, TypeOK, Calls, AInv
  <1>1. InFlight(p) /\ (~tangled => SoFar(pc[p]))
    BY DEF AInv, Accounted, InFlight, SetMode, At
  <1>2. QED
    BY <1>0, <1>1
    DEF SetMode, Return, Idle, Calls, Shaped, LoopHeld, SoFar, NoneGoesOn, Agrees, InFlight, At,
        Starts, Stops, NoSession, NoLoop, threadVars, historyVars

(* The first step of a call.                                                  *)
LEMMA FirstAccounted ==
  ASSUME SInv, AInv, NEW p \in Procs,
         \/ p \in Workers /\ Call(p)
         \/ p \in Sessions /\ Wake(p)
  PROVE  /\ Shaped(pc[p])' /\ LoopHeld' /\ InFlight(p)'
         /\ ~tangled' => SoFar(pc[p])'
  <1> USE DEF statusVars, threadVars, historyVars, At
  <1>0. pc[p] \in Calls /\ pc \in [Procs -> Calls] /\ LoopHeld
    BY DEF SInv, TypeOK, Calls, AInv
  <1>1. ASSUME ~tangled, Alone(p), ~InFlight(p), ~active
        PROVE  NoneGoesOn
    BY <1>1 DEF AInv, Accounted, Alone, Quiet, Agrees, NoneGoesOn
  <1>2. ASSUME NEW call \in Starts, StartCheck(p, call)
        PROVE  /\ Shaped(pc[p])' /\ LoopHeld' /\ InFlight(p)'
               /\ ~tangled' => SoFar(pc[p])'
    <2>1. ~tangled' => NoneGoesOn
      BY <1>1, <1>2 DEF StartCheck, InFlight
    <2>2. QED
      BY <1>0, <1>2, <2>1
      DEF StartCheck, Enter, Calls, Shaped, LoopHeld, SoFar, SetUp, NoneGoesOn, InFlight, Starts, Stops
  <1>3. ASSUME NEW call \in Stops, StopHalt(p, call)
        PROVE  /\ Shaped(pc[p])' /\ LoopHeld' /\ InFlight(p)'
               /\ ~tangled' => SoFar(pc[p])'
    BY <1>0, <1>3
    DEF StopHalt, Enter, Calls, Shaped, LoopHeld, SoFar, TakenDown, InFlight, Starts, Stops
  <1>4. ASSUME SetModeCheck(p)
        PROVE  /\ Shaped(pc[p])' /\ LoopHeld' /\ InFlight(p)'
               /\ ~tangled' => SoFar(pc[p])'
    <2>1. ~tangled' => NoneGoesOn
      BY <1>1, <1>4 DEF SetModeCheck, InFlight
    <2>2. QED
      BY <1>0, <1>4, <2>1
      DEF SetModeCheck, Enter, Calls, Shaped, LoopHeld, SoFar, NoneGoesOn, InFlight, Starts, Stops
  <1>5. \/ \E call \in Starts : StartCheck(p, call)
        \/ \E call \in Stops : StopHalt(p, call)
        \/ SetModeCheck(p)
    BY DEF Call, Wake, StopCall, CompletionWakes, Stops
  <1>6. QED
    BY <1>2, <1>3, <1>4, <1>5

(* What one handler's step shows of it shows the whole: no other is in progress     *)
(* unless calls overlapped.                                                    *)
LEMMA OthersAccounted ==
  ASSUME SInv, SInv', AInv, NEW p \in Procs, NEW c, pc' = [pc EXCEPT ![p] = c],
         Shaped(pc[p])', LoopHeld',
         ~tangled' => IF InFlight(p)' THEN SoFar(pc[p])' ELSE Agrees' /\ ~tangled /\ InFlight(p)
  PROVE  AInv'
  <1>0. pc \in [Procs -> Calls]
    BY DEF SInv, TypeOK, Calls
  <1>1. \A q \in Procs \ {p} : pc'[q] = pc[q]
    BY <1>0
  <1>2. AllShaped'
    BY <1>0, <1>1 DEF AInv, AllShaped, Shaped
  <1>3. ASSUME ~tangled' PROVE \A q \in Procs : InFlight(q)' => SoFar(pc[q])'
    <2>1. SUFFICES ASSUME NEW q \in Procs, InFlight(q)' PROVE SoFar(pc[q])'
      OBVIOUS
    <2>2. CASE InFlight(p)'
      BY <1>3, <2>1, <2>2 DEF SInv, OneCall
    <2>3. CASE ~InFlight(p)'
      BY <1>1, <1>3, <2>1, <2>3 DEF SInv, OneCall, InFlight
    <2>4. QED
      BY <2>2, <2>3
  <1>4. ASSUME ~tangled', Quiet' PROVE Agrees'
    BY <1>4 DEF Quiet
  <1>5. QED
    BY <1>2, <1>3, <1>4 DEF AInv, Accounted

(* The end of the capture thread.                                               *)
LEMMA EndAccounted ==
  ASSUME SInv, AInv, CaptureEnds
  PROVE  AInv'
  <1>0. Ends /\ pc \in [Procs -> Calls]
    BY EndSteps DEF SInv, TypeOK, Calls
  <1>1. AllShaped'
    <2>1. SUFFICES ASSUME NEW q \in Procs PROVE Shaped(pc[q])'
      BY DEF AllShaped
    <2>2. CASE pc'[q] = pc[q]
      BY <2>2 DEF AInv, AllShaped, Shaped
    <2>3. CASE pc' = [pc EXCEPT ![loop.session] =
                 [call |-> "Completion", at |-> "sleeping", rec |-> NoSession]] /\ pc'[q] # pc[q]
      BY <1>0, <2>3 DEF Shaped, Starts
    <2>4. QED
      BY <1>0, <2>2, <2>3 DEF Ends
  <1>2. LoopHeld'
    BY <1>0 DEF Ends, LoopHeld
  <1>3. loop # NoLoop
    BY DEF CaptureEnds, InspectionEnds, AITestEnds, AITestMissing, NoLoop
  <1>4. UNCHANGED <<statusVars, running, source, historyVars>>
    BY DEF CaptureEnds, InspectionEnds, AITestEnds, AITestMissing
  <1>5. \A q \in Procs : pc'[q] = pc[q] \/ (~InFlight(q) /\ ~InFlight(q)')
    BY <1>0, EndsTouchesIdle DEF InFlight, At
  <1>6. ASSUME ~tangled', NEW q \in Procs, InFlight(q)' PROVE SoFar(pc[q])'
    <2>1. pc'[q] = pc[q] /\ InFlight(q)
      BY <1>5, <1>6 DEF InFlight
    <2>2. ~tangled /\ SoFar(pc[q])
      BY <1>4, <1>6, <2>1 DEF AInv, Accounted, historyVars
    <2>3. pc[q].call \notin Starts \cup {"SetMode"}
      BY <1>3, <2>2 DEF SoFar, SetUp, NoneGoesOn
    <2>4. loop' = NoLoop
      BY <1>0 DEF Ends
    <2>5. QED
      BY <1>4, <2>1, <2>2, <2>3, <2>4 DEF SoFar, TakenDown, statusVars, historyVars
  <1>7. ASSUME ~tangled', Quiet' PROVE Agrees'
    <2>1. Quiet /\ ~tangled
      BY <1>4, <1>5, <1>7 DEF Quiet, InFlight, historyVars
    <2>2. QED
      BY <1>0, <1>4, <2>1 DEF AInv, Accounted, Agrees, Ends, NoLoop, statusVars, historyVars
  <1>8. QED
    BY <1>1, <1>2, <1>6, <1>7 DEF AInv, Accounted

LEMMA AccountedStep ==
  ASSUME SInv, SInv', AInv, Next
  PROVE  AInv'
  <1>1. ASSUME NEW p \in Procs,
               \/ p \in Workers /\ Call(p)
               \/ p \in Sessions /\ Wake(p)
        PROVE  AInv'
    <2>1. \E c \in Calls : pc' = [pc EXCEPT ![p] = c]
      BY <1>1, FirstSteps DEF Begins
    <2>2. QED
      BY <1>1, <2>1, FirstAccounted, OthersAccounted
  <1>2. ASSUME NEW p \in Procs, Step(p)
        PROVE  AInv'
    <2>0. ~crashed
      BY <1>2 DEF Step
    <2>1. Records(p) \/ Fails(p) \/ \E c \in Calls : GoesOn(p, c)
      BY <1>2, <2>0, StartSteps, JoinSteps, StopSteps, SetModeStep DEF Step
    <2>2. /\ \E c : pc' = [pc EXCEPT ![p] = c]
          /\ tangled' = tangled /\ InFlight(p)
      BY <2>1 DEF Records, Fails, GoesOn, InFlight, At
    <2>3. /\ Shaped(pc[p])' /\ LoopHeld'
          /\ ~tangled => IF InFlight(p)' THEN SoFar(pc[p])' ELSE Agrees'
      BY <1>2, StartAccounted, JoinAccounted, StopAccounted, SetModeAccounted DEF Step
    <2>4. QED
      BY <2>2, <2>3, OthersAccounted
  <1>3. CASE CaptureEnds
    BY <1>3, EndAccounted
  <1>4. CASE CaptureThrows
    BY <1>4
    DEF CaptureThrows, statusVars, threadVars, AInv, AllShaped, Shaped, LoopHeld, Accounted,
        InFlight, SoFar, SetUp, TakenDown, NoneGoesOn, Quiet, Agrees
  <1>5. QED
    BY <1>1, <1>2, <1>3, <1>4 DEF Next, Procs

(* For any number of workers and sessions: unless calls overlapped, the status, the   *)
(* mode, the task, the record and the capture thread are of one session whenever no  *)
(* call is in progress, but for a start that failed, which leaves its task active      *)
(* with no record and no thread; and a lone stop repairs that, and what overlapping    *)
(* calls left behind.                                                          *)
THEOREM StatusTold == Spec => []StatusAgrees
  <1>1. Init => AInv
    <2>1. SUFFICES ASSUME Init PROVE AInv
      OBVIOUS
    <2>2. \A p \in Procs : pc[p] = Idle
      BY <2>1 DEF Init
    <2>3. AllShaped
      BY <2>2 DEF AllShaped, Shaped, Idle, Starts
    <2>4. \A p \in Procs : ~InFlight(p)
      BY <2>2 DEF InFlight, Idle
    <2>5. LoopHeld /\ Agrees
      BY <2>1 DEF Init, LoopHeld, Agrees, NoLoop
    <2>6. QED
      BY <2>3, <2>4, <2>5 DEF AInv, Accounted
  <1>2. SInv /\ SInv' /\ AInv /\ [Next]_vars => AInv'
    <2>1. ASSUME UNCHANGED vars, AInv PROVE AInv'
      BY <2>1
      DEF vars, statusVars, threadVars, historyVars, AInv, AllShaped, Shaped, LoopHeld, Accounted,
          InFlight, SoFar, SetUp, TakenDown, NoneGoesOn, Quiet, Agrees
    <2>2. QED
      BY <2>1, AccountedStep
  <1>3. AInv => StatusAgrees
    BY DEF AInv, Accounted, StatusAgrees, Agrees
  <1>4. QED
    BY <1>1, <1>2, <1>3, SessionInductive, PTL DEF Spec
=============================================================================
