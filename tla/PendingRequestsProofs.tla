------------------------ MODULE PendingRequestsProofs ------------------------
(***************************************************************************)
(* Proofs about PendingRequests for every value of its constants: the       *)
(* inductive strengthenings first, then the theorems.                       *)
(***************************************************************************)
EXTENDS PendingRequests, FiniteSetTheorems, SequenceTheorems, TLAPS

(* Where the clocks and the API call in progress may be.                     *)
Shape ==
  /\ wall <= now
  /\ stepBacks = 0 => wall = now
  /\ api.op \in {"starting", "recorded"} => ~running /\ thread = "none" /\ pending = {}
  /\ api.op = "starting" => session < MaxSessions
  /\ api.op = "recorded" => session >= 1
  /\ thread # "none" => session >= 1
  /\ thread = "sent" => cur.pid >= 1 /\ cur.txn >= 0
  /\ cur.pid <= pairs
  /\ activeRecord \in {NoRecord, session}
  /\ running => api.op # "stopping"
  /\ ~handler.busy => handler = NoReply /\ filing = NoFiling
  /\ IsFiniteSet(pending)

(* Who holds the images of a pair: nobody else does.                         *)
HeldOnce ==
  /\ \A e, f \in pending : e.pid = f.pid => e = f
  /\ \A e \in pending : e.pid <= pairs /\ e.pid # handler.img
  /\ thread = "sent" => /\ \A e \in pending : e.pid # cur.pid
                        /\ handler.img # cur.pid
                        /\ \A i \in 1..Len(delivered) : Images(i) # cur.pid
  /\ handler.img <= pairs
  /\ \A i \in 1..Len(delivered) :
       /\ Images(i) <= pairs
       /\ \A e \in pending : Images(i) # e.pid
       /\ handler.img # NoPair => Images(i) # handler.img
  /\ AtMostOncePerPair

(* Sessions of what is pending and in the handler.  Unless the path has changed *)
(* since it was tested, it is the one of the session whose images are filed.   *)
SessionsKept ==
  /\ PendingOfCurrentSession
  /\ handler.from <= session
  /\ handler.img # NoPair /\ ~filing.interrupted => handler.from = session
  /\ filing.at \notin {"test", "callback"} /\ ~filing.interrupted =>
       activeRecord = session /\ session >= 1

(* What was filed: in order, no later than the session, and at most one pair in *)
(* a record that is not its own, the one that is still being filed if any is.  *)
FiledKept ==
  /\ FiledUnderOwnRecord
  /\ \A f \in filed : f.rec <= session
  /\ \A f, g \in filed : Stray(f) /\ Stray(g) /\ f.rec = g.rec => f.pid = g.pid
  /\ handler.img # NoPair /\ handler.from < session =>
       \A f \in filed : Stray(f) /\ f.rec = session => f.pid = handler.img

(* The record, index and pair of every image that exists somewhere.          *)
Place(s, i, p) == [rec |-> s, idx |-> i, pid |-> p]
Places ==
  {Place(e.session, e.idx, e.pid) : e \in pending}
  \cup (IF thread = "sent" THEN {Place(session, cur.idx, cur.pid)} ELSE {})
  \cup (IF handler.img # NoPair THEN {Place(handler.from, handler.idx, handler.img)} ELSE {})
  \cup {Place(f.from, f.idx, f.pid) : f \in {g \in filed : g.pid # NoPair}}
  \cup {Place(s.rec, s.idx, s.pid) : s \in saved}

PlacesUnique ==
  /\ \A p \in Places : p.rec <= session /\ (p.rec = session => p.idx < pairIndex)
  /\ api.op = "recorded" => \A p \in Places : p.rec < session
  /\ \A p, q \in Places : p.rec = q.rec /\ p.idx = q.idx => p.pid = q.pid

(* While the wall clock has not been set back, ids grow with the pairs.       *)
IdsUnique ==
  stepBacks = 0 =>
    /\ cur.txn = cur.at /\ cur.at <= now
    /\ \A r \in link : r.txn <= cur.txn /\ (r.txn = cur.txn => r.pid = cur.pid)
    /\ \A e \in pending : e.txn <= cur.txn /\ (e.txn = cur.txn => e.pid = cur.pid)
    /\ \A r, q \in link : r.txn = q.txn => r.pid = q.pid
    /\ \A r \in link, e \in pending : r.txn = e.txn => r.pid = e.pid
    /\ handler.exact => handler.img = handler.answered
    /\ ExactMatchIsOwn

(* Undisturbed, every request still out has its entry, stored or about to be. *)
RequestsHaveEntries ==
  ~disturbed =>
    /\ stepBacks = 0
    /\ \A r \in link : \/ \E e \in pending : e.txn = r.txn /\ e.pid = r.pid
                       \/ thread = "sent" /\ cur.txn = r.txn /\ cur.pid = r.pid
    /\ handler.busy => handler.img = handler.answered
    /\ MatchedUnlessDisturbed

IInv == /\ TypeOK /\ Shape /\ HeldOnce /\ SessionsKept /\ FiledKept /\ PlacesUnique
        /\ IdsUnique /\ RequestsHaveEntries /\ PendingBounded

-----------------------------------------------------------------------------
(* The initial states.                                                     *)

LEMMA InitShape == Init => TypeOK /\ Shape
  <1> SUFFICES ASSUME Init PROVE TypeOK /\ Shape
    OBVIOUS
  <1>1. TypeOK
    <2>1. NoReply \in Replies
      BY BoundsAssumption DEF NoReply, Replies, NoPair, NoRecord, SubTaskNames
    <2>2. delivered \in Seq(Replies)
      BY EmptySeq DEF Init
    <2>3. cur \in [txn : Nat \cup {NoTxn}, pid : 0..MaxPairs, idx : Nat, at : Nat \cup {-1}]
      BY BoundsAssumption DEF Init, NoTxn, NoPair
    <2>4. api \in [op : {"idle", "starting", "recorded", "stopping"}, kind : Kinds]
      BY DEF Init, Idle, Kinds
    <2>5. /\ pending \in SUBSET Entries /\ saved \in SUBSET ImageFiles
          /\ link \in SUBSET [txn : Nat, pid : 1..MaxPairs]
      BY DEF Init
    <2>6. handler \in Replies
      BY <2>1 DEF Init
    <2>7. /\ now \in 0..MaxTime /\ wall \in 0..MaxTime
          /\ session \in 0..MaxSessions /\ activeRecord \in 0..MaxSessions
          /\ pairs \in 0..MaxPairs /\ pairIndex \in Nat
          /\ unknown \in 0..MaxUnknown /\ reconnects \in 0..MaxReconnects
          /\ stepBacks \in 0..MaxStepBacks
      BY BoundsAssumption DEF Init, NoRecord
    <2>8. /\ thread \in {"none", "loop", "sent"} /\ subTask \in SubTaskNames
          /\ running \in BOOLEAN /\ aiTest \in BOOLEAN /\ disturbed \in BOOLEAN
      BY DEF Init, SubTaskNames
    <2>9. filing \in Filings /\ filed \in SUBSET FiledPlaces
      BY DEF Init, NoFiling, Filings, Folders
    <2>10. QED
      BY <2>2, <2>3, <2>4, <2>5, <2>6, <2>7, <2>8, <2>9 DEF TypeOK
  <1>2. IsFiniteSet(pending)
    BY FS_EmptySet DEF Init
  <1>3. Shape
    BY <1>2 DEF Init, Shape, Idle, NoPair, NoRecord
  <1>4. QED
    BY <1>1, <1>3

(* What on_ai_result_ can do to pending_: take the reply's own entry, take or  *)
(* drop the oldest one, or find the map empty.                               *)
LEMMA TakeCases ==
  ASSUME NEW txn, NEW answered, TakePending(txn, answered)
  PROVE  \/ \E e \in pending : /\ e.txn = txn
                               /\ pending' = pending \ {e}
                               /\ handler' = Taken(e, answered, TRUE)
         \/ \E e \in pending : /\ e.txn # txn
                               /\ pending' = pending \ {e}
                               /\ handler' \in {NoReply, Taken(e, answered, FALSE)}
         \/ /\ pending = {} /\ pending' = {}
            /\ handler' = [NoReply EXCEPT !.busy = TRUE, !.answered = answered]
  <1>1. CASE TakeOwn(txn, answered)
    BY <1>1 DEF TakeOwn, Own
  <1>2. CASE TakeOldest(txn, answered)
    BY <1>2 DEF TakeOldest, Own, Oldest
  <1>3. CASE TakeNothing(answered)
    BY <1>3 DEF TakeNothing
  <1>4. QED
    BY <1>1, <1>2, <1>3 DEF TakePending

LEMMA TakeTypes ==
  ASSUME TypeOK, Shape,
         NEW txn, NEW answered \in 0..MaxPairs, TakePending(txn, answered)
  PROVE  /\ pending' \subseteq pending /\ IsFiniteSet(pending')
         /\ handler' \in Replies
         /\ ~handler'.busy => handler' = NoReply
  <1>1. NoReply \in Replies
    BY BoundsAssumption DEF NoReply, Replies, NoPair, NoRecord, SubTaskNames
  <1>2. ASSUME NEW e \in pending, NEW b \in BOOLEAN
        PROVE  Taken(e, answered, b) \in Replies /\ Taken(e, answered, b).busy
    <2>1. e \in Entries
      BY <1>2 DEF TypeOK
    <2>2. /\ e.pid \in 0..MaxPairs /\ e.idx \in Nat /\ e.sub \in SubTaskNames
          /\ e.session \in 0..MaxSessions
      BY <2>1, BoundsAssumption DEF Entries
    <2>3. QED
      BY <1>2, <2>2 DEF Taken, Replies
  <1>3. CASE \E e \in pending : /\ e.txn = txn
                                /\ pending' = pending \ {e}
                                /\ handler' = Taken(e, answered, TRUE)
    BY <1>2, <1>3, FS_Subset DEF Shape
  <1>4. CASE \E e \in pending : /\ e.txn # txn
                                /\ pending' = pending \ {e}
                                /\ handler' \in {NoReply, Taken(e, answered, FALSE)}
    <2>1. PICK e \in pending : /\ pending' = pending \ {e}
                               /\ handler' \in {NoReply, Taken(e, answered, FALSE)}
      BY <1>4
    <2>2. IsFiniteSet(pending')
      BY <2>1, FS_Subset DEF Shape
    <2>3. QED
      BY <1>1, <1>2, <2>1, <2>2
  <1>5. CASE /\ pending = {} /\ pending' = {}
             /\ handler' = [NoReply EXCEPT !.busy = TRUE, !.answered = answered]
    <2>1. handler' \in Replies /\ handler'.busy
      BY <1>1, <1>5, BoundsAssumption DEF NoReply, Replies, TypeOK
    <2>2. QED
      BY <1>5, <2>1, FS_EmptySet
  <1>6. QED
    BY <1>3, <1>4, <1>5, TakeCases

LEMMA StoreTypes ==
  ASSUME TypeOK, Shape, StorePair
  PROVE  pending' \in SUBSET Entries /\ IsFiniteSet(pending')
  <1>1. NewEntry \in Entries
    BY BoundsAssumption DEF NewEntry, Entries, StorePair, TypeOK, Shape, SubTaskNames, NoTxn
  <1>2. PICK kept \in SUBSET pending :
          pending' = {e \in kept : e.txn # cur.txn} \cup {NewEntry}
    BY DEF StorePair
  <1>3. {e \in kept : e.txn # cur.txn} \subseteq pending
    OBVIOUS
  <1>4. IsFiniteSet({e \in kept : e.txn # cur.txn})
    BY <1>3, FS_Subset DEF Shape
  <1>5. IsFiniteSet(pending')
    BY <1>2, <1>4, FS_AddElement
  <1>6. QED
    BY <1>1, <1>2, <1>3, <1>5 DEF TypeOK

(* A change of the path is noted only while on_ai_result_ is at its work.      *)
LEMMA Noted ==
  ASSUME TypeOK, Shape, NoteChange
  PROVE  /\ filing' \in Filings
         /\ handler.busy => filing'.interrupted
         /\ ~handler.busy => filing' = filing /\ filing' = NoFiling
  <1>1. handler.busy \in BOOLEAN /\ filing \in Filings
    BY DEF TypeOK, Replies
  <1>2. CASE handler.busy = TRUE
    <2>1. filing' = [filing EXCEPT !.interrupted = TRUE]
      BY <1>2 DEF NoteChange
    <2>2. QED
      BY <1>1, <1>2, <2>1 DEF Filings
  <1>3. CASE handler.busy = FALSE
    <2>1. filing' = [filing EXCEPT !.interrupted = FALSE] /\ filing = NoFiling
      BY <1>3 DEF NoteChange, Shape
    <2>2. filing' = NoFiling
      BY <2>1 DEF NoFiling
    <2>3. QED
      BY <1>1, <1>3, <2>1, <2>2
  <1>4. QED
    BY <1>1, <1>2, <1>3

LEMMA RecordTypes ==
  ASSUME TypeOK, Shape, StartRecord
  PROVE  TypeOK' /\ Shape'
  <1>1. filing' \in Filings /\ (~handler.busy => filing' = NoFiling)
    BY Noted DEF StartRecord
  <1>2. /\ session \in 0..MaxSessions /\ session < MaxSessions
        /\ session' = session + 1 /\ activeRecord' = session + 1
        /\ ~running /\ thread = "none" /\ pending = {}
    BY DEF StartRecord, TypeOK, Shape
  <1>3. /\ session' \in 0..MaxSessions /\ activeRecord' \in 0..MaxSessions
        /\ session' >= 1 /\ activeRecord' = session'
    BY <1>2, BoundsAssumption
  <1>4. /\ api' \in [op : {"idle", "starting", "recorded", "stopping"}, kind : Kinds]
        /\ api'.op = "recorded"
    BY DEF StartRecord, TypeOK
  <1>5. UNCHANGED <<now, wall, stepBacks, thread, cur, pairs, saved, running, aiTest, pairIndex,
                    subTask, pending, link, handler, filed, delivered, unknown, reconnects,
                    disturbed>>
    BY DEF StartRecord, clockVars, captureVars
  <1>6. TypeOK'
    BY <1>1, <1>3, <1>4, <1>5 DEF TypeOK
  <1>7. Shape'
    BY <1>1, <1>2, <1>3, <1>4, <1>5 DEF Shape
  <1>8. QED
    BY <1>6, <1>7

(* What a step of the filing changes.                                         *)
LEMMA FilingTypes ==
  ASSUME TypeOK, Shape, NEW from, FilingStep(from),
         filing' \in Filings, filed' \in SUBSET FiledPlaces
  PROVE  TypeOK' /\ Shape'
  <1>1. handler.busy
    BY DEF FilingStep
  <1>2. UNCHANGED <<now, wall, stepBacks, thread, cur, pairs, saved, running, aiTest, api,
                    session, activeRecord, pairIndex, subTask, pending, link, handler,
                    delivered, unknown, reconnects, disturbed>>
    BY DEF FilingStep, clockVars, captureVars, apiVars
  <1>3. TypeOK'
    BY <1>2 DEF TypeOK
  <1>4. Shape'
    BY <1>1, <1>2 DEF Shape
  <1>5. QED
    BY <1>3, <1>4

LEMMA TestTypes ==
  ASSUME TypeOK, Shape, TestRecord
  PROVE  TypeOK' /\ Shape'
  <1>1. filing \in Filings /\ filed' \in SUBSET FiledPlaces
    BY DEF TypeOK, TestRecord
  <1>2. filing' \in Filings
    BY <1>1 DEF TestRecord, Filings
  <1>3. QED
    BY <1>1, <1>2, FilingTypes DEF TestRecord

LEMMA FolderTypes ==
  ASSUME TypeOK, Shape, ChooseFolder
  PROVE  TypeOK' /\ Shape'
  <1>1. filing \in Filings /\ filed' \in SUBSET FiledPlaces
    BY DEF TypeOK, ChooseFolder
  <1>2. ResultFolder(handler.sub) \in Folders
    BY DEF ResultFolder, Folders
  <1>3. filing' \in Filings
    BY <1>1, <1>2 DEF ChooseFolder, Filings, FileKinds
  <1>4. QED
    BY <1>1, <1>3, FilingTypes DEF ChooseFolder

LEMMA FileTypes ==
  ASSUME TypeOK, Shape, NEW kind \in FileKinds, FileNext(kind)
  PROVE  TypeOK' /\ Shape'
  <1>1. filing \in Filings /\ handler \in Replies /\ activeRecord \in 0..MaxSessions
    BY DEF TypeOK
  <1>2. Following[kind] \in {"test", "folder", "callback"} \cup FileKinds
    BY DEF FileKinds, Following
  <1>3. filing' \in Filings
    BY <1>1, <1>2 DEF FileNext, Filings
  <1>4. PathRead \subseteq 0..MaxSessions
    BY <1>1, BoundsAssumption DEF PathRead, NoRecord
  <1>5. PathChanging \in BOOLEAN
    BY DEF PathChanging
  <1>6. \A rec \in 0..MaxSessions : FileUnder(rec) \in FiledPlaces
    <2>1. /\ filing.folder \in Folders /\ (filing.interrupted \/ PathChanging) \in BOOLEAN
          /\ handler.idx \in Nat /\ handler.img \in 0..MaxPairs /\ handler.from \in 0..MaxSessions
      BY <1>1, <1>5 DEF Filings, Replies
    <2>2. QED
      BY <2>1 DEF FileUnder, FiledPlaces
  <1>7. filed' = filed \/ \E rec \in PathRead : filed' = filed \cup {FileUnder(rec)}
    BY DEF FileNext
  <1>8. filed \in SUBSET FiledPlaces
    BY DEF TypeOK
  <1>9. filed' \in SUBSET FiledPlaces
    BY <1>4, <1>6, <1>7, <1>8
  <1>10. QED
    BY <1>3, <1>9, FilingTypes DEF FileNext

(* Types and shape are inductive together.                                  *)
LEMMA ShapeStep == TypeOK /\ Shape /\ [Next]_vars => TypeOK' /\ Shape'
  <1> SUFFICES ASSUME TypeOK, Shape, [Next]_vars
               PROVE  TypeOK' /\ Shape'
    OBVIOUS
  <1> USE BoundsAssumption, ModeAssumption, SubTaskAssumption
      DEF NoPair, NoRecord, NoTxn
  <1> USE DEF TypeOK, Shape, clockVars, captureVars, apiVars, dealerVars, filingVars
  <1>1. CASE Tick
    BY <1>1 DEF Tick
  <1>2. CASE StepBack
    BY <1>2 DEF StepBack
  <1>3. ASSUME NEW kind \in Kinds, StartClear(kind)
        PROVE  TypeOK' /\ Shape'
    <2>1. IsFiniteSet(pending')
      BY <1>3, FS_EmptySet DEF StartClear
    <2>2. QED
      BY <1>3, <2>1 DEF StartClear, Idle
  <1>4. CASE StartRun
    BY <1>4 DEF StartRun, Idle, Kinds, SubTaskNames
  <1>4a. CASE StartRecord
    <2>1. TypeOK /\ Shape
      OBVIOUS
    <2> HIDE DEF TypeOK, Shape
    <2>2. QED
      BY <1>4a, <2>1, RecordTypes
  <1>5. ASSUME NEW kind \in Kinds, StopRequest(kind)
        PROVE  TypeOK' /\ Shape'
    BY <1>5 DEF StopRequest, Idle
  <1>6. CASE StopFinish
    <2>1. /\ activeRecord' \in {activeRecord, NoRecord}
          /\ subTask' \in SubTaskNames /\ aiTest' \in BOOLEAN
      BY <1>6 DEF StopFinish, SubTaskNames
    <2>2. filing' \in Filings /\ (~handler.busy => filing' = NoFiling)
      <3>1. TypeOK /\ Shape
        OBVIOUS
      <3>2. filing' = filing \/ NoteChange
        BY <1>6 DEF StopFinish
      <3>3. filing \in Filings /\ (~handler.busy => filing = NoFiling)
        OBVIOUS
      <3> HIDE DEF TypeOK, Shape
      <3>4. QED
        BY <3>1, <3>2, <3>3, Noted
    <2>3. QED
      BY <1>6, <2>1, <2>2 DEF StopFinish, Idle, Kinds
  <1>7. ASSUME NEW sub \in SubTasks, SetSubTask(sub)
        PROVE  TypeOK' /\ Shape'
    BY <1>7 DEF SetSubTask, SubTaskNames
  <1>8. CASE BeginPair
    <2>1. CurrentSubfolder \in Folders
      BY DEF CurrentSubfolder, Folders
    <2>2. saved' \in SUBSET ImageFiles
      BY <1>8, <2>1 DEF BeginPair, ImageFiles
    <2>3. link' \in SUBSET [txn : Nat, pid : 1..MaxPairs]
      BY <1>8 DEF BeginPair, TxnId
    <2>4. cur' \in [txn : Nat \cup {NoTxn}, pid : 0..MaxPairs, idx : Nat, at : Nat \cup {-1}]
      BY <1>8 DEF BeginPair, TxnId
    <2>5. TypeOK'
      BY <1>8, <2>2, <2>3, <2>4 DEF BeginPair
    <2>6. Shape'
      BY <1>8 DEF BeginPair, TxnId
    <2>7. QED
      BY <2>5, <2>6
  <1>9. CASE StorePair
    <2>1. pending' \in SUBSET Entries /\ IsFiniteSet(pending')
      BY <1>9, StoreTypes
    <2>2. QED
      BY <1>9, <2>1 DEF StorePair
  <1>10. CASE LoopExit
    BY <1>10 DEF LoopExit
  <1>11. ASSUME NEW r \in link, Reply(r)
         PROVE  TypeOK' /\ Shape'
    <2>1. /\ pending' \subseteq pending /\ IsFiniteSet(pending')
          /\ handler' \in Replies
          /\ ~handler'.busy => handler' = NoReply
      BY <1>11, TakeTypes DEF Reply
    <2>2. filing' = filing /\ filing = NoFiling /\ filed' = filed
      BY <1>11 DEF Reply, TakePending, filingVars
    <2>3. QED
      BY <1>11, <2>1, <2>2 DEF Reply, Early
  <1>12. CASE UnknownReply
    <2>1. /\ pending' \subseteq pending /\ IsFiniteSet(pending')
          /\ handler' \in Replies
          /\ ~handler'.busy => handler' = NoReply
      BY <1>12, TakeTypes DEF UnknownReply
    <2>2. filing' = filing /\ filing = NoFiling /\ filed' = filed
      BY <1>12 DEF UnknownReply, TakePending, filingVars
    <2>3. QED
      BY <1>12, <2>1, <2>2 DEF UnknownReply
  <1>13. CASE Deliver
    <2>1. delivered' \in Seq(Replies)
      BY <1>13 DEF Deliver
    <2>2. NoReply \in Replies /\ NoFiling \in Filings
      BY DEF NoReply, Replies, SubTaskNames, NoFiling, Filings, Folders
    <2>3. QED
      BY <1>13, <2>1, <2>2 DEF Deliver
  <1>13a. CASE TestRecord
    <2>1. TypeOK /\ Shape
      OBVIOUS
    <2> HIDE DEF TypeOK, Shape
    <2>2. QED
      BY <1>13a, <2>1, TestTypes
  <1>13b. CASE ChooseFolder
    <2>1. TypeOK /\ Shape
      OBVIOUS
    <2> HIDE DEF TypeOK, Shape
    <2>2. QED
      BY <1>13b, <2>1, FolderTypes
  <1>13c. ASSUME NEW kind \in FileKinds, FileNext(kind)
          PROVE  TypeOK' /\ Shape'
    <2>1. TypeOK /\ Shape
      OBVIOUS
    <2> HIDE DEF TypeOK, Shape
    <2>2. QED
      BY <1>13c, <2>1, FileTypes
  <1>14. CASE Reconnect
    BY <1>14, FS_EmptySet DEF Reconnect
  <1>15. ASSUME NEW r \in link, LoseRequest(r)
         PROVE  TypeOK' /\ Shape'
    BY <1>15 DEF LoseRequest
  <1>16. CASE UNCHANGED vars
    BY <1>16 DEF vars
  <1>17. QED
    BY <1>1, <1>2, <1>3, <1>4, <1>4a, <1>5, <1>6, <1>7, <1>8, <1>9, <1>10, <1>11, <1>12,
       <1>13, <1>13a, <1>13b, <1>13c, <1>14, <1>15, <1>16 DEF Next, Clock, Api, Capture, Dealer, Loss

-----------------------------------------------------------------------------
(* What Deliver appends.                                                   *)
LEMMA DeliverAppends ==
  ASSUME TypeOK, Deliver
  PROVE  /\ Len(delivered) \in Nat /\ Len(delivered') = Len(delivered) + 1
         /\ \A i \in 1..Len(delivered) : delivered'[i] = delivered[i]
         /\ delivered'[Len(delivered')] = handler
  <1>1. delivered \in Seq(Replies) /\ handler \in Replies
        /\ delivered' = Append(delivered, handler)
    BY DEF TypeOK, Deliver
  <1>2. /\ Len(delivered') = Len(delivered) + 1
        /\ \A i \in 1..Len(delivered) : delivered'[i] = delivered[i]
        /\ delivered'[Len(delivered) + 1] = handler
    BY <1>1, AppendProperties
  <1>3. QED
    BY <1>1, <1>2, LenProperties

(* The numbers that TypeOK promises.                                        *)
LEMMA Ranges ==
  ASSUME TypeOK
  PROVE  /\ pairs \in Nat /\ cur.pid \in Nat /\ handler.img \in 0..MaxPairs
         /\ session \in Nat /\ pairIndex \in Nat /\ handler.from \in Nat
         /\ \A e \in pending : /\ e.pid \in Nat /\ e.pid # NoPair /\ e.txn \in Nat
                              /\ e.session \in Nat /\ e.idx \in Nat
         /\ \A r \in link : r.txn \in Nat /\ r.pid \in Nat /\ r.pid # NoPair
         /\ \A i \in 1..Len(delivered) : delivered[i] \in Replies /\ Images(i) \in Nat
         /\ Len(delivered) \in Nat
  <1> USE BoundsAssumption DEF TypeOK, NoPair
  <1>1. \A e \in pending : /\ e.pid \in Nat /\ e.pid # NoPair /\ e.txn \in Nat
                         /\ e.session \in Nat /\ e.idx \in Nat
    BY DEF Entries
  <1>2. \A i \in 1..Len(delivered) : delivered[i] \in Replies
    BY ElementOfSeq
  <1>3. \A i \in 1..Len(delivered) : Images(i) \in Nat
    <2>1. \A x \in Replies : x.img \in Nat
      BY DEF Replies
    <2> HIDE DEF TypeOK
    <2>2. QED
      BY <1>2, <2>1 DEF Images
  <1>4. handler.img \in 0..MaxPairs /\ handler.from \in Nat
    BY DEF Replies
  <1>5. QED
    BY <1>1, <1>2, <1>3, <1>4, LenProperties

LEMMA ClockRanges ==
  ASSUME TypeOK
  PROVE  /\ cur.txn \in Int /\ cur.at \in Int
         /\ now \in Nat /\ wall \in Nat /\ stepBacks \in Nat
  BY BoundsAssumption DEF TypeOK, NoTxn

(* What the handler holds after taking: the entry it took, or no images.      *)
LEMMA TakenReply ==
  ASSUME TypeOK, Shape, NEW txn, NEW answered, TakePending(txn, answered)
  PROVE  /\ pending' \subseteq pending
         /\ handler.img = NoPair
         /\ \/ handler'.img = NoPair /\ ~handler'.exact
            \/ \E e \in pending :
                 /\ pending' = pending \ {e}
                 /\ handler'.img = e.pid /\ handler'.idx = e.idx
                 /\ handler'.from = e.session
                 /\ handler'.answered = answered
                 /\ handler'.exact => e.txn = txn
  <1>1. handler.img = NoPair
    BY DEF TakePending, Shape, NoReply
  <1>2. CASE \E e \in pending : /\ e.txn = txn
                                /\ pending' = pending \ {e}
                                /\ handler' = Taken(e, answered, TRUE)
    BY <1>1, <1>2 DEF Taken
  <1>3. CASE \E e \in pending : /\ e.txn # txn
                                /\ pending' = pending \ {e}
                                /\ handler' \in {NoReply, Taken(e, answered, FALSE)}
    BY <1>1, <1>3 DEF Taken, NoReply
  <1>4. CASE /\ pending = {} /\ pending' = {}
             /\ handler' = [NoReply EXCEPT !.busy = TRUE, !.answered = answered]
    BY <1>1, <1>4 DEF NoReply
  <1>5. QED
    BY <1>2, <1>3, <1>4, TakeCases

(* Taking an entry moves its images to the handler and leaves no copy.        *)
LEMMA TakeHeldOnce ==
  ASSUME TypeOK, Shape, HeldOnce,
         NEW txn, NEW answered, TakePending(txn, answered),
         UNCHANGED <<thread, cur, pairs, delivered>>
  PROVE  HeldOnce'
  <1> USE DEF HeldOnce, AtMostOncePerPair, Images
  <1>1. handler.img = NoPair
    BY DEF TakePending, Shape, NoReply
  <1>2. ASSUME NEW e \in pending, NEW b, pending' = pending \ {e},
               handler' \in {NoReply, Taken(e, answered, b)}
        PROVE  HeldOnce'
    <2>1. handler'.img \in {NoPair, e.pid}
      BY <1>2 DEF NoReply, Taken
    <2>2. QED
      BY <1>1, <1>2, <2>1, Ranges DEF NoPair
  <1>3. CASE /\ pending = {} /\ pending' = {}
             /\ handler' = [NoReply EXCEPT !.busy = TRUE, !.answered = answered]
    <2>1. handler'.img = NoPair
      BY <1>3 DEF NoReply
    <2>2. QED
      BY <1>1, <1>3, <2>1, Ranges DEF NoPair
  <1>4. CASE \E e \in pending : /\ e.txn = txn
                                /\ pending' = pending \ {e}
                                /\ handler' = Taken(e, answered, TRUE)
    BY <1>2, <1>4
  <1>5. CASE \E e \in pending : /\ e.txn # txn
                                /\ pending' = pending \ {e}
                                /\ handler' \in {NoReply, Taken(e, answered, FALSE)}
    BY <1>2, <1>5
  <1>6. QED
    BY <1>3, <1>4, <1>5, TakeCases

LEMMA HeldOnceStep ==
  TypeOK /\ TypeOK' /\ Shape /\ HeldOnce /\ [Next]_vars => HeldOnce'
  <1> SUFFICES ASSUME TypeOK, TypeOK', Shape, HeldOnce, [Next]_vars
               PROVE  HeldOnce'
    OBVIOUS
  <1> USE DEF HeldOnce, AtMostOncePerPair, Images
  <1>1. CASE UNCHANGED <<pending, handler, delivered, thread, cur, pairs>>
    BY <1>1
  <1>2. CASE pending' = {} /\ UNCHANGED <<handler, delivered, thread, cur, pairs>>
    BY <1>2
  <1>3. CASE StartRun \/ LoopExit
    BY <1>3 DEF StartRun, LoopExit, dealerVars
  <1>4. CASE BeginPair
    <2>1. cur'.pid = pairs + 1 /\ pairs' = pairs + 1 /\ pairs \in Nat
      BY <1>4 DEF BeginPair, TypeOK
    <2>2. QED
      BY <1>4, <2>1, Ranges, BoundsAssumption DEF BeginPair, dealerVars
  <1>5. CASE StorePair
    <2>1. PICK kept \in SUBSET pending :
            pending' = {e \in kept : e.txn # cur.txn} \cup {NewEntry}
      BY <1>5 DEF StorePair
    <2>2. NewEntry.pid = cur.pid
      BY DEF NewEntry
    <2>3. UNCHANGED <<handler, delivered, cur, pairs>> /\ thread = "sent" /\ thread' = "loop"
      BY <1>5 DEF StorePair, dealerVars
    <2>4. QED
      BY <2>1, <2>2, <2>3 DEF Shape
  <1>6. CASE Deliver
    <2>1. handler' = NoReply /\ UNCHANGED <<pending, thread, cur, pairs>>
      BY <1>6 DEF Deliver, captureVars
    <2>2. delivered'[Len(delivered')].img = handler.img
      BY <1>6, DeliverAppends
    <2>3. handler'.img = NoPair
      BY <2>1 DEF NoReply
    <2>4. /\ Len(delivered) \in Nat /\ Len(delivered') = Len(delivered) + 1
          /\ \A i \in 1..Len(delivered') :
               delivered'[i].img =
                 IF i <= Len(delivered) THEN delivered[i].img ELSE handler.img
      BY <1>6, <2>2, DeliverAppends
    <2>5. \A i \in 1..Len(delivered') :
            /\ delivered'[i].img <= pairs'
            /\ \A e \in pending' : delivered'[i].img # e.pid
            /\ thread' = "sent" => delivered'[i].img # cur'.pid
      BY <2>1, <2>4
    <2>6. AtMostOncePerPair'
      BY <2>4, Ranges DEF NoPair
    <2>7. QED
      BY <2>1, <2>3, <2>5, <2>6, Ranges DEF NoPair, Shape
  <1>7. ASSUME NEW r \in link, Reply(r)
        PROVE  HeldOnce'
    BY <1>7, TakeHeldOnce DEF Reply, captureVars
  <1>8. CASE UnknownReply
    BY <1>8, TakeHeldOnce DEF UnknownReply, captureVars
  <1>9. QED
    BY <1>1, <1>2, <1>3, <1>4, <1>5, <1>6, <1>7, <1>8
    DEF Next, Clock, Api, Capture, Dealer, Loss, vars, Tick, StepBack, StartClear,
        StopRequest, StopFinish, SetSubTask, Reconnect, LoseRequest, StartRecord,
        TestRecord, ChooseFolder, FileNext, FilingStep, captureVars, dealerVars

-----------------------------------------------------------------------------
LEMMA SessionsKeptStep ==
  TypeOK /\ TypeOK' /\ Shape /\ SessionsKept /\ [Next]_vars => SessionsKept'
  <1> SUFFICES ASSUME TypeOK, TypeOK', Shape, SessionsKept, [Next]_vars
               PROVE  SessionsKept'
    OBVIOUS
  <1> USE DEF SessionsKept, PendingOfCurrentSession
  <1>1. CASE /\ pending' \in {pending, {}}
             /\ UNCHANGED <<handler, filing, session, activeRecord>>
    BY <1>1
  <1>2. CASE StartRecord
    <2>1. /\ session' = session + 1 /\ session \in Nat /\ handler.from \in Nat
          /\ pending' = {} /\ handler' = handler /\ activeRecord' = session'
      BY <1>2, Ranges DEF StartRecord, Shape
    <2>2. (handler.busy /\ filing'.interrupted) \/ (~handler.busy /\ filing' = filing)
      BY <1>2, Noted DEF StartRecord
    <2>3. CASE ~handler.busy /\ filing' = filing
      BY <2>1, <2>3 DEF Shape, NoReply, NoFiling
    <2>4. CASE handler.busy /\ filing'.interrupted
      BY <2>1, <2>4
    <2>5. QED
      BY <2>2, <2>3, <2>4
  <1>3. CASE StopFinish
    <2>1. /\ pending' = pending /\ UNCHANGED <<session, handler>>
          /\ \/ UNCHANGED <<activeRecord, filing>>
             \/ handler.busy /\ filing'.interrupted
             \/ ~handler.busy /\ filing' = filing
      BY <1>3, Noted DEF StopFinish
    <2>2. QED
      BY <2>1 DEF Shape, NoReply, NoFiling
  <1>4. CASE StorePair
    BY <1>4 DEF StorePair, dealerVars, filingVars, apiVars, NewEntry
  <1>5. CASE Deliver
    BY <1>5, Ranges DEF Deliver, apiVars, NoReply, NoFiling, NoPair, NoRecord
  <1>6. ASSUME NEW txn, NEW answered, TakePending(txn, answered),
               UNCHANGED <<filing, session, activeRecord>>
        PROVE  SessionsKept'
    <2>1. pending' \subseteq pending /\ filing = NoFiling
      BY <1>6, TakeCases DEF TakePending, Shape
    <2>2. handler'.from \in {NoRecord, session} /\ (handler'.img # NoPair => handler'.from = session)
      <3>1. \A e \in pending : e.session = session
        OBVIOUS
      <3>2. ASSUME NEW e \in pending, NEW b
            PROVE  Taken(e, answered, b).from = session
        BY <3>1 DEF Taken
      <3>3. NoReply.from = NoRecord /\ NoReply.img = NoPair
        BY DEF NoReply
      <3>4. [NoReply EXCEPT !.busy = TRUE, !.answered = answered].from = NoRecord
            /\ [NoReply EXCEPT !.busy = TRUE, !.answered = answered].img = NoPair
        BY DEF NoReply
      <3>5. CASE \E e \in pending, b \in BOOLEAN : handler' = Taken(e, answered, b)
        BY <3>2, <3>5
      <3>6. CASE handler' \in {NoReply, [NoReply EXCEPT !.busy = TRUE, !.answered = answered]}
        BY <3>3, <3>4, <3>6
      <3>7. \/ \E e \in pending, b \in BOOLEAN : handler' = Taken(e, answered, b)
            \/ handler' \in {NoReply, [NoReply EXCEPT !.busy = TRUE, !.answered = answered]}
        <4> HIDE DEF SessionsKept, PendingOfCurrentSession
        <4>1. QED
          BY <1>6, TakeCases
      <3>8. QED
        BY <3>5, <3>6, <3>7
    <2>3. QED
      BY <1>6, <2>1, <2>2, Ranges DEF NoFiling, NoRecord
  <1>7. ASSUME NEW r \in link, Reply(r)
        PROVE  SessionsKept'
    BY <1>6, <1>7 DEF Reply, apiVars, filingVars
  <1>8. CASE UnknownReply
    BY <1>6, <1>8 DEF UnknownReply, apiVars, filingVars
  <1>9. CASE TestRecord
    BY <1>9, Ranges DEF TestRecord, FilingStep, apiVars, Shape, TypeOK, Filings, NoRecord
  <1>10. CASE ChooseFolder
    BY <1>10 DEF ChooseFolder, FilingStep, apiVars, TypeOK, Filings
  <1>11. ASSUME NEW kind \in FileKinds, FileNext(kind)
         PROVE  SessionsKept'
    BY <1>11 DEF FileNext, FilingStep, FileKinds, apiVars, TypeOK, Filings
  <1>12. QED
    BY <1>1, <1>2, <1>3, <1>4, <1>5, <1>7, <1>8, <1>9, <1>10, <1>11
    DEF Next, Clock, Api, Capture, Dealer, Loss, vars, Tick, StepBack, StartClear, StartRun,
        StopRequest, SetSubTask, Reconnect, LoseRequest, BeginPair, LoopExit,
        apiVars, dealerVars, filingVars

(* What FileNext adds: unless the path changes, a file under the record of the  *)
(* handler's session; if it does, one under the path now or under none.        *)
LEMMA FileUnderKept ==
  ASSUME TypeOK, Shape, SessionsKept,
         NEW kind \in FileKinds, FilingStep(kind), NEW rec \in PathRead,
         NEW g, g = FileUnder(rec)
  PROVE  /\ g.pid = handler.img /\ g.from = handler.from /\ g.idx = handler.idx
         /\ g.rec \in {NoRecord, session}
         /\ g.pid # NoPair /\ ~g.interrupted => g.rec = g.from
  <1>1. rec \in {NoRecord, session}
    BY DEF PathRead, Shape
  <1>2. filing.at \notin {"test", "callback"} /\ filing.interrupted \in BOOLEAN
    BY DEF FilingStep, FileKinds, TypeOK, Filings
  <1>3. ~PathChanging => rec = activeRecord
    BY DEF PathRead
  <1>4. QED
    BY <1>1, <1>2, <1>3 DEF FileUnder, SessionsKept

LEMMA FiledKeptStep ==
  TypeOK /\ TypeOK' /\ Shape /\ SessionsKept /\ FiledKept /\ [Next]_vars => FiledKept'
  <1> SUFFICES ASSUME TypeOK, TypeOK', Shape, SessionsKept, FiledKept, [Next]_vars
               PROVE  FiledKept'
    OBVIOUS
  <1>0. /\ session \in Nat /\ handler.from \in Nat
        /\ \A f \in filed : f.rec \in Nat /\ f.from \in Nat
    <2>1. \A f \in FiledPlaces : f.rec \in Nat /\ f.from \in Nat
      BY BoundsAssumption DEF FiledPlaces
    <2>2. filed \subseteq FiledPlaces
      BY DEF TypeOK
    <2>3. QED
      BY <2>1, <2>2, Ranges
  <1>1. CASE UNCHANGED <<filed, handler, session>>
    BY <1>1 DEF FiledKept, FiledUnderOwnRecord, Stray
  <1>2. CASE StartRecord
    <2>1. session' = session + 1 /\ UNCHANGED <<filed, handler>>
      BY <1>2 DEF StartRecord
    <2>2. QED
      BY <1>0, <2>1 DEF FiledKept, FiledUnderOwnRecord, Stray
  <1>3. ASSUME handler'.img # NoPair => handler'.from = session,
               UNCHANGED <<filed, session>>
        PROVE  FiledKept'
    BY <1>0, <1>3 DEF FiledKept, FiledUnderOwnRecord, Stray
  <1>4. CASE Deliver
    BY <1>3, <1>4 DEF Deliver, NoReply, apiVars
  <1>5. ASSUME NEW txn, NEW answered, TakePending(txn, answered),
               UNCHANGED <<filed, session>>
        PROVE  FiledKept'
    <2>1. handler'.img # NoPair => handler'.from = session
      BY <1>5, TakenReply DEF SessionsKept, PendingOfCurrentSession
    <2>2. QED
      BY <1>3, <1>5, <2>1
  <1>6. ASSUME NEW r \in link, Reply(r)
        PROVE  FiledKept'
    BY <1>5, <1>6 DEF Reply, apiVars, filingVars
  <1>7. CASE UnknownReply
    BY <1>5, <1>7 DEF UnknownReply, apiVars, filingVars
  <1>8. ASSUME NEW kind \in FileKinds, FileNext(kind)
        PROVE  FiledKept'
    <2>1. UNCHANGED <<handler, session>> /\ FilingStep(kind)
      BY <1>8 DEF FileNext, FilingStep, apiVars
    <2>2. CASE filed' = filed
      BY <1>1, <2>1, <2>2
    <2>3. ASSUME NEW rec \in PathRead, filed' = filed \cup {FileUnder(rec)}
          PROVE  FiledKept'
      <3>1. PICK g : g = FileUnder(rec) /\ filed' = filed \cup {g}
        BY <2>3
      <3>2. /\ g.pid = handler.img /\ g.from = handler.from
            /\ g.rec \in {NoRecord, session}
            /\ g.pid # NoPair /\ ~g.interrupted => g.rec = g.from
        BY <2>1, <3>1, FileUnderKept
      <3>3. handler.from <= session
        BY DEF SessionsKept
      <3>4. FiledUnderOwnRecord' /\ \A f \in filed' : f.rec <= session
        BY <1>0, <3>1, <3>2, <3>3 DEF FiledKept, FiledUnderOwnRecord, NoRecord
      <3>5. Stray(g) => handler.img # NoPair /\ handler.from < session /\ g.rec = session
        BY <1>0, <3>2, <3>3 DEF Stray
      <3>6. \A e, f \in filed' : Stray(e) /\ Stray(f) /\ e.rec = f.rec => e.pid = f.pid
        BY <3>1, <3>2, <3>5 DEF FiledKept
      <3>7. handler.img # NoPair /\ handler.from < session =>
              \A f \in filed' : Stray(f) /\ f.rec = session => f.pid = handler.img
        BY <3>1, <3>2 DEF FiledKept
      <3>8. QED
        BY <2>1, <3>4, <3>6, <3>7 DEF FiledKept, Stray
    <2>4. QED
      BY <1>8, <2>2, <2>3 DEF FileNext
  <1>9. QED
    BY <1>1, <1>2, <1>4, <1>6, <1>7, <1>8
    DEF Next, Clock, Api, Capture, Dealer, Loss, vars, Tick, StepBack, StartClear, StartRun,
        StopRequest, StopFinish, SetSubTask, Reconnect, LoseRequest, BeginPair, StorePair,
        LoopExit, TestRecord, ChooseFolder, FilingStep, apiVars, dealerVars, filingVars

LEMMA IdsUniqueStep ==
  TypeOK /\ TypeOK' /\ Shape /\ IdsUnique /\ [Next]_vars => IdsUnique'
  <1> SUFFICES ASSUME TypeOK, TypeOK', Shape, IdsUnique, [Next]_vars, stepBacks' = 0
               PROVE  IdsUnique'
    BY DEF IdsUnique
  <1> USE DEF IdsUnique, ExactMatchIsOwn, Images
  <1>0. stepBacks = 0 /\ wall = now
    <2>1. stepBacks' \in {stepBacks, stepBacks + 1}
      BY DEF Next, Clock, Api, Capture, Dealer, Loss, vars, Tick, StepBack, StartClear,
          StartRun, StopRequest, StopFinish, SetSubTask, Reconnect, LoseRequest, BeginPair,
          StorePair, LoopExit, Reply, UnknownReply, Deliver, StartRecord, TestRecord,
          ChooseFolder, FileNext, FilingStep, clockVars
    <2>2. QED
      BY <2>1, Ranges, ClockRanges DEF Shape
  <1>1. CASE UNCHANGED <<pending, handler, delivered, link, cur>> /\ now' >= now
    <2>1. now' \in Nat
      BY BoundsAssumption DEF TypeOK
    <2>2. QED
      BY <1>0, <1>1, <2>1, Ranges, ClockRanges
  <1>2. CASE /\ pending' \subseteq pending /\ link' \subseteq link
             /\ UNCHANGED <<handler, delivered, cur, now>>
    BY <1>0, <1>2
  <1>3. CASE BeginPair
    <2>1. /\ cur'.txn = now /\ cur'.at = now /\ cur.at < now
          /\ UNCHANGED <<pending, handler, delivered, now>>
      BY <1>0, <1>3 DEF BeginPair, TxnId, dealerVars, clockVars
    <2>2. \A r \in link' : r \in link \/ (r.txn = now /\ r.pid = cur'.pid)
      BY <1>0, <1>3 DEF BeginPair, TxnId
    <2>4. /\ \A r \in link : r.txn < now
          /\ \A e \in pending : e.txn < now
      BY <1>0, <2>1, Ranges, ClockRanges
    <2>5. stepBacks' = 0 /\ now \in Nat
      BY ClockRanges
    <2>6. /\ \A r \in link' : r.txn <= now /\ (r.txn = now => r.pid = cur'.pid)
          /\ \A e \in pending : e.txn <= now /\ e.txn # now
      BY <2>2, <2>4, <2>5, Ranges
    <2>7. /\ \A r, q \in link' : r.txn = q.txn => r.pid = q.pid
          /\ \A r \in link', e \in pending : r.txn = e.txn => r.pid = e.pid
      BY <1>0, <2>2, <2>4, <2>5, Ranges
    <2>8. QED
      BY <1>0, <2>1, <2>5, <2>6, <2>7
  <1>4. CASE StorePair
    <2>1. \A e \in pending' : e \in pending \/ (e.txn = cur.txn /\ e.pid = cur.pid)
      BY <1>4 DEF StorePair, NewEntry
    <2>2. UNCHANGED <<link, handler, delivered, cur, now>>
      BY <1>4 DEF StorePair, dealerVars, clockVars
    <2>3. QED
      BY <1>0, <2>1, <2>2, Ranges, ClockRanges
  <1>5. CASE Deliver
    <2>1. handler' = NoReply /\ UNCHANGED <<pending, link, cur, now>>
      BY <1>5 DEF Deliver, captureVars, clockVars
    <2>2. ~handler'.exact
      BY <2>1 DEF NoReply
    <2>3. ExactMatchIsOwn'
      BY <1>0, <1>5, DeliverAppends
    <2>4. QED
      BY <1>0, <2>1, <2>2, <2>3
  <1>6. ASSUME NEW txn, NEW answered, TakePending(txn, answered),
               \A e \in pending : e.txn = txn => e.pid = answered,
               UNCHANGED <<delivered, cur, now>>, link' \subseteq link
        PROVE  IdsUnique'
    <2>1. pending' \subseteq pending
      BY <1>6, TakeCases
    <2>2. handler'.exact => handler'.img = handler'.answered
      BY <1>6, TakenReply
    <2>3. QED
      BY <1>0, <1>6, <2>1, <2>2
  <1>7. ASSUME NEW r \in link, Reply(r)
        PROVE  IdsUnique'
    <2>1. \A e \in pending : e.txn = r.txn => e.pid = r.pid
      BY <1>0
    <2>2. QED
      BY <1>6, <1>7, <2>1 DEF Reply, captureVars, clockVars
  <1>8. CASE UnknownReply
    <2>1. \A e \in pending : e.txn # NoTxn
      BY Ranges, ClockRanges DEF NoTxn
    <2>2. QED
      BY <1>6, <1>8, <2>1 DEF UnknownReply, captureVars, clockVars
  <1>9. QED
    BY <1>0, <1>1, <1>2, <1>3, <1>4, <1>5, <1>7, <1>8, Ranges, ClockRanges
    DEF Next, Clock, Api, Capture, Dealer, Loss, vars, Tick, StepBack, StartClear, StartRun,
        StopRequest, StopFinish, SetSubTask, Reconnect, LoseRequest, LoopExit, StartRecord,
        TestRecord, ChooseFolder, FileNext, FilingStep, captureVars, clockVars, dealerVars

LEMMA RequestsHaveEntriesStep ==
  /\ TypeOK /\ TypeOK' /\ Shape /\ HeldOnce /\ IdsUnique
  /\ RequestsHaveEntries /\ [Next]_vars
  => RequestsHaveEntries'
  <1> SUFFICES ASSUME TypeOK, TypeOK', Shape, HeldOnce, IdsUnique, RequestsHaveEntries,
                      [Next]_vars, ~disturbed'
               PROVE  RequestsHaveEntries'
    BY DEF RequestsHaveEntries
  <1> USE DEF RequestsHaveEntries, MatchedUnlessDisturbed, Images
  <1>a. ~disturbed /\ stepBacks' = stepBacks
    <2>1. CASE StepBack
      BY <2>1 DEF StepBack
    <2>2. CASE Clock /\ ~StepBack
      BY <2>2 DEF Clock, Tick
    <2>3. ASSUME NEW kind \in Kinds, StartClear(kind)
          PROVE  ~disturbed /\ stepBacks' = stepBacks
      BY <2>3, Zenon DEF StartClear, clockVars
    <2>4. ASSUME NEW kind \in Kinds, StopRequest(kind)
          PROVE  ~disturbed /\ stepBacks' = stepBacks
      BY <2>4 DEF StopRequest, clockVars
    <2>5. ASSUME NEW sub \in SubTasks, SetSubTask(sub)
          PROVE  ~disturbed /\ stepBacks' = stepBacks
      BY <2>5 DEF SetSubTask, clockVars
    <2>6. CASE StartRun \/ StopFinish \/ BeginPair \/ LoopExit \/ Deliver \/ Loss
      BY <2>6 DEF StartRun, StopFinish, BeginPair, LoopExit, Deliver, Loss, LoseRequest,
                  clockVars
    <2>7. CASE StorePair
      BY <2>7, Zenon DEF StorePair, clockVars
    <2>8. ASSUME NEW r \in link, Reply(r)
          PROVE  ~disturbed /\ stepBacks' = stepBacks
      BY <2>8, Zenon DEF Reply, clockVars
    <2>8a. CASE StartRecord \/ TestRecord \/ ChooseFolder \/ \E kind \in FileKinds : FileNext(kind)
      BY <2>8a DEF StartRecord, TestRecord, ChooseFolder, FileNext, FilingStep, clockVars
    <2>9. CASE UnknownReply \/ Reconnect
      BY <2>9 DEF UnknownReply, Reconnect
    <2>10. CASE UNCHANGED vars
      BY <2>10 DEF vars, clockVars
    <2>11. QED
      BY <2>1, <2>2, <2>3, <2>4, <2>5, <2>6, <2>7, <2>8, <2>8a, <2>9, <2>10
      DEF Next, Api, Capture, Dealer
  <1>0. ~disturbed /\ stepBacks = 0 /\ stepBacks' = 0
    BY <1>a
  <1>1. CASE /\ UNCHANGED <<pending, handler, delivered, cur>> /\ link' \subseteq link
             /\ thread = "sent" => thread' = "sent"
    BY <1>0, <1>1
  <1>2. ASSUME NEW kind \in Kinds, StartClear(kind)
        PROVE  RequestsHaveEntries'
    BY <1>0, <1>2 DEF StartClear, dealerVars, captureVars
  <1>3. CASE BeginPair
    <2>1. \A r \in link' : r \in link \/ (r.txn = cur'.txn /\ r.pid = cur'.pid)
      BY <1>3 DEF BeginPair
    <2>2. /\ UNCHANGED <<pending, handler, delivered>>
          /\ thread = "loop" /\ thread' = "sent"
      BY <1>3 DEF BeginPair, dealerVars
    <2>3. QED
      BY <1>0, <2>1, <2>2
  <1>4. CASE StorePair
    <2>1. ~Overfull
      BY <1>4 DEF StorePair
    <2>2. \A e \in pending : e.txn # cur.txn
      BY <1>0, <1>4 DEF StorePair, IdsUnique, HeldOnce
    <2>3. pending' = pending \cup {NewEntry}
      BY <1>4, <2>1, <2>2 DEF StorePair
    <2>4. NewEntry.txn = cur.txn /\ NewEntry.pid = cur.pid
      BY DEF NewEntry
    <2>5. UNCHANGED <<link, handler, delivered, cur>>
      BY <1>4 DEF StorePair, dealerVars
    <2>6. QED
      BY <1>0, <2>3, <2>4, <2>5
  <1>5. ASSUME NEW r \in link, Reply(r)
        PROVE  RequestsHaveEntries'
    <2>1. /\ TakePending(r.txn, r.pid) /\ link' = link \ {r}
          /\ UNCHANGED <<delivered, cur, thread>>
          /\ ~(thread = "sent" /\ cur.pid = r.pid)
      BY <1>5 DEF Reply, Early, captureVars
    <2>2. PICK e \in pending : e.txn = r.txn
      BY <1>0, <2>1
    <2>3. PICK f \in pending : /\ f.txn = r.txn /\ pending' = pending \ {f}
                               /\ handler' = Taken(f, r.pid, TRUE)
      BY <2>1, <2>2 DEF TakePending, TakeOwn, TakeOldest, TakeNothing, Own
    <2>4. f.pid = r.pid /\ handler'.img = handler'.answered
      BY <1>0, <2>3 DEF IdsUnique, Taken
    <2>5. ASSUME NEW q \in link', \E e2 \in pending : e2.txn = q.txn /\ e2.pid = q.pid
          PROVE  \E e2 \in pending' : e2.txn = q.txn /\ e2.pid = q.pid
      <3>1. q \in link /\ q # r
        BY <2>1
      <3>2. q.txn = r.txn => q.pid = r.pid
        BY <1>0, <3>1 DEF IdsUnique
      <3>3. q.txn # r.txn
        <4>1. /\ q = [txn |-> q.txn, pid |-> q.pid]
              /\ r = [txn |-> r.txn, pid |-> r.pid]
          BY <3>1 DEF TypeOK
        <4>2. QED
          BY <3>1, <3>2, <4>1
      <3>4. QED
        BY <2>3, <2>5, <3>3
    <2>6. QED
      BY <1>0, <2>1, <2>4, <2>5
  <1>6. CASE Deliver
    <2>1. /\ handler' = NoReply /\ UNCHANGED <<pending, link, cur, thread>>
          /\ handler.img = handler.answered
      BY <1>0, <1>6 DEF Deliver, captureVars
    <2>2. ~handler'.busy
      BY <2>1 DEF NoReply
    <2>3. MatchedUnlessDisturbed'
      BY <1>0, <1>6, <2>1, DeliverAppends
    <2>4. QED
      BY <1>0, <2>1, <2>2, <2>3
  <1>7. CASE LoopExit \/ StartRun
    BY <1>0, <1>7 DEF LoopExit, StartRun, dealerVars, Shape
  <1>8. QED
    BY <1>1, <1>2, <1>3, <1>4, <1>5, <1>6, <1>7
    DEF Next, Clock, Api, Capture, Dealer, Loss, vars, Tick, StepBack,
        StopRequest, StopFinish, SetSubTask, Reconnect, LoseRequest, UnknownReply, StartRecord,
        TestRecord, ChooseFolder, FileNext, FilingStep, captureVars, dealerVars

-----------------------------------------------------------------------------
(* pending_ grows by at most one entry a step, from at most Cap.              *)
LEMMA BoundedStep ==
  TypeOK /\ Shape /\ PendingBounded /\ [Next]_vars => PendingBounded'
  <1> SUFFICES ASSUME TypeOK, Shape, PendingBounded, [Next]_vars
               PROVE  PendingBounded'
    OBVIOUS
  <1> USE DEF PendingBounded
  <1>1. CASE /\ pending' \subseteq pending /\ aiTest' = aiTest
             /\ thread' # "none" => thread # "none"
    <2>1. /\ Cardinality(pending') <= Cardinality(pending)
          /\ Cardinality(pending') \in Nat /\ Cardinality(pending) \in Nat
      BY <1>1, FS_Subset, FS_CardinalityType DEF Shape
    <2>2. QED
      BY <1>1, <2>1, BoundsAssumption
  <1>2. CASE StartRun
    BY <1>2, FS_EmptySet, BoundsAssumption DEF StartRun, Shape
  <1>3. CASE StopFinish
    BY <1>3 DEF StopFinish, captureVars
  <1>4. CASE StorePair
    <2>1. DEFINE kept == IF Overfull THEN {} ELSE pending
                 rest == {e \in kept : e.txn # cur.txn}
    <2>2. pending' = rest \cup {NewEntry} /\ aiTest' = aiTest
      BY <1>4 DEF StorePair, apiVars
    <2>3. ASSUME ~aiTest PROVE Cardinality(pending') <= Cap + 1
      <3>1. IsFiniteSet(kept) /\ Cardinality(kept) <= Cap /\ Cardinality(kept) \in Nat
        BY <2>3, FS_EmptySet, FS_CardinalityType, BoundsAssumption DEF Overfull, Shape
      <3>2. rest \subseteq kept
        OBVIOUS
      <3> HIDE DEF kept, rest
      <3>3. /\ IsFiniteSet(rest) /\ Cardinality(rest) <= Cardinality(kept)
            /\ Cardinality(rest) \in Nat
        BY <3>1, <3>2, FS_Subset, FS_CardinalityType
      <3>4. Cardinality(pending') <= Cardinality(rest) + 1
        BY <2>2, <3>3, FS_AddElement
      <3>5. Cardinality(pending') \in Nat
        BY <2>2, <3>3, FS_AddElement, FS_CardinalityType
      <3>6. QED
        BY <3>1, <3>3, <3>4, <3>5, BoundsAssumption
    <2>4. QED
      BY <2>2, <2>3
  <1>5. ASSUME NEW txn, NEW answered, TakePending(txn, answered),
               UNCHANGED <<aiTest, thread>>
        PROVE  PendingBounded'
    BY <1>1, <1>5, TakeCases
  <1>6. ASSUME NEW r \in link, Reply(r)
        PROVE  PendingBounded'
    BY <1>5, <1>6 DEF Reply, captureVars, apiVars
  <1>7. CASE UnknownReply
    BY <1>5, <1>7 DEF UnknownReply, captureVars, apiVars
  <1>8. QED
    BY <1>1, <1>2, <1>3, <1>4, <1>6, <1>7
    DEF Next, Clock, Api, Capture, Dealer, Loss, vars, Tick, StepBack, StartClear,
        StopRequest, SetSubTask, Reconnect, LoseRequest, BeginPair, LoopExit, Deliver,
        StartRecord, TestRecord, ChooseFolder, FileNext, FilingStep, captureVars, apiVars

-----------------------------------------------------------------------------
LEMMA PlacesTyped ==
  ASSUME TypeOK
  PROVE  \A p \in Places : p.rec \in Nat /\ p.idx \in Nat
  <1>1. handler.idx \in Nat /\ handler.from \in Nat /\ cur.idx \in Nat /\ session \in Nat
    BY BoundsAssumption DEF TypeOK, Replies
  <1>2. \A s \in saved : s.rec \in Nat /\ s.idx \in Nat
    BY BoundsAssumption DEF TypeOK, ImageFiles
  <1>3. \A f \in filed : f.from \in Nat /\ f.idx \in Nat
    BY BoundsAssumption DEF TypeOK, FiledPlaces
  <1>4. QED
    BY <1>1, <1>2, <1>3, Ranges DEF Places, Place

(* Images that only change hands keep their places unique.                    *)
LEMMA PlacesMove ==
  ASSUME PlacesUnique, Places' \subseteq Places,
         UNCHANGED <<session, pairIndex>>,
         api'.op = "recorded" => api.op = "recorded"
  PROVE  PlacesUnique'
  BY DEF PlacesUnique

LEMMA PlacesTake ==
  ASSUME TypeOK, Shape, NEW txn, NEW answered, TakePending(txn, answered),
         UNCHANGED <<thread, cur, session, filed, saved>>
  PROVE  Places' \subseteq Places
  <1> USE DEF Places, Place, Images
  <1>1. \A e \in pending' : e \in pending
    BY TakenReply
  <1>2. handler'.img # NoPair =>
          \E e \in pending : /\ handler'.img = e.pid /\ handler'.idx = e.idx
                            /\ handler'.from = e.session
    BY TakenReply
  <1>3. QED
    BY <1>1, <1>2

LEMMA PlacesUniqueStep ==
  TypeOK /\ TypeOK' /\ Shape /\ SessionsKept /\ PlacesUnique /\ [Next]_vars => PlacesUnique'
  <1> SUFFICES ASSUME TypeOK, TypeOK', Shape, SessionsKept, PlacesUnique, [Next]_vars
               PROVE  PlacesUnique'
    OBVIOUS
  <1> USE DEF Place
  <1>1. CASE /\ pending' \in {pending, {}} /\ (api'.op = "recorded" => api.op = "recorded")
             /\ UNCHANGED <<handler, filed, saved, thread, cur, session, pairIndex>>
    <2>1. Places' \subseteq Places
      BY <1>1 DEF Places
    <2>2. QED
      BY <1>1, <2>1, PlacesMove
  <1>2. CASE LoopExit
    <2>1. Places' \subseteq Places
      BY <1>2 DEF LoopExit, Places, dealerVars, filingVars, apiVars
    <2>2. QED
      BY <1>2, <2>1, PlacesMove DEF LoopExit, apiVars
  <1>3. CASE StartRecord
    <2>1. Places' \subseteq Places
      BY <1>3 DEF StartRecord, Places, captureVars, Shape
    <2>2. session' = session + 1
      BY <1>3 DEF StartRecord
    <2>3. \A p \in Places' : p.rec <= session /\ p.rec \in Nat
      BY <2>1, PlacesTyped DEF PlacesUnique
    <2>4. QED
      BY <2>1, <2>2, <2>3, Ranges DEF PlacesUnique
  <1>4. CASE StartRun
    <2>1. Places' \subseteq Places /\ session' = session /\ api.op = "recorded" /\ api' = Idle
      BY <1>4 DEF StartRun, Places, dealerVars, filingVars
    <2>2. \A p \in Places' : p.rec < session /\ p.rec \in Nat
      BY <2>1, PlacesTyped DEF PlacesUnique
    <2>3. QED
      BY <2>1, <2>2, Ranges DEF PlacesUnique, Idle
  <1>5. CASE BeginPair
    <2>1. DEFINE new == Place(session, pairIndex, pairs + 1)
    <2>2. /\ cur'.pid = pairs + 1 /\ cur'.idx = pairIndex /\ pairIndex' = pairIndex + 1
          /\ UNCHANGED <<session, pending, handler, filed, api>>
      BY <1>5 DEF BeginPair, apiVars, dealerVars, filingVars
    <2>3. \A s \in saved' : s \in saved \/ Place(s.rec, s.idx, s.pid) = new
      BY <1>5 DEF BeginPair, Shape
    <2>4. Places' \subseteq Places \cup {new}
      BY <2>2, <2>3 DEF Places
    <2>5. \A p \in Places' : p.rec <= session /\ (p.rec = session => p.idx < pairIndex + 1)
      BY <2>4, PlacesTyped, Ranges DEF PlacesUnique
    <2>6. \A p, q \in Places' : p.rec = q.rec /\ p.idx = q.idx => p.pid = q.pid
      BY <2>4, PlacesTyped, Ranges DEF PlacesUnique
    <2>7. api'.op # "recorded"
      BY <1>5, <2>2 DEF BeginPair, Shape
    <2>8. QED
      BY <2>2, <2>5, <2>6, <2>7 DEF PlacesUnique
  <1>6. CASE StorePair
    <2>1. \A e \in pending' : e \in pending \/ e = NewEntry
      BY <1>6 DEF StorePair
    <2>2. Place(NewEntry.session, NewEntry.idx, NewEntry.pid) = Place(session, cur.idx, cur.pid)
      BY DEF NewEntry
    <2>3. /\ thread = "sent" /\ thread' = "loop"
          /\ UNCHANGED <<session, pairIndex, cur, handler, filed, saved, api>>
      BY <1>6 DEF StorePair, apiVars, dealerVars, filingVars
    <2>4. Places' \subseteq Places
      BY <2>1, <2>2, <2>3 DEF Places
    <2>5. QED
      BY <2>3, <2>4, PlacesMove
  <1>7. CASE Deliver
    <2>1. /\ handler'.img = NoPair
          /\ UNCHANGED <<pending, thread, cur, saved, filed, session, pairIndex, api>>
      BY <1>7 DEF Deliver, captureVars, apiVars, NoReply
    <2>2. Places' \subseteq Places
      BY <2>1 DEF Places
    <2>3. QED
      BY <2>1, <2>2, PlacesMove
  <1>8. ASSUME NEW r \in link, Reply(r)
        PROVE  PlacesUnique'
    BY <1>8, PlacesTake, PlacesMove DEF Reply, captureVars, apiVars, filingVars
  <1>9. CASE UnknownReply
    BY <1>9, PlacesTake, PlacesMove DEF UnknownReply, captureVars, apiVars, filingVars
  <1>10. ASSUME NEW kind \in FileKinds, FileNext(kind)
         PROVE  PlacesUnique'
    <2>1. FilingStep(kind)
          /\ UNCHANGED <<pending, handler, thread, cur, saved, session, pairIndex, api>>
      BY <1>10 DEF FileNext, FilingStep, captureVars, apiVars
    <2>2. \A g \in filed' : \/ g \in filed
                            \/ /\ g.pid = handler.img /\ g.from = handler.from
                               /\ g.idx = handler.idx
      BY <1>10, <2>1, FileUnderKept DEF FileNext
    <2>3. Places' \subseteq Places
      BY <2>1, <2>2 DEF Places
    <2>4. QED
      BY <2>1, <2>3, PlacesMove
  <1>11. QED
    BY <1>1, <1>2, <1>3, <1>4, <1>5, <1>6, <1>7, <1>8, <1>9, <1>10
    DEF Next, Clock, Api, Capture, Dealer, Loss, vars, Tick, StepBack, StartClear,
        StopRequest, StopFinish, SetSubTask, Reconnect, LoseRequest, TestRecord,
        ChooseFolder, FilingStep, captureVars, dealerVars, filingVars, apiVars, Idle

LEMMA PlacesGiveFiles ==
  ASSUME FiledKept, PlacesUnique
  PROVE  OverwrittenByOneStray
  <1>1. \A w \in OwnFiles : Place(w.rec, w.idx, w.pid) \in Places
    <2> TAKE w \in OwnFiles
    <2>1. CASE w \in saved
      BY <2>1 DEF Places
    <2>2. ASSUME NEW f \in filed, f.pid # NoPair, f.rec = f.from,
                 w = [rec |-> f.rec, folder |-> f.folder, idx |-> f.idx, pid |-> f.pid]
          PROVE  Place(w.rec, w.idx, w.pid) \in Places
      <3>1. w.rec = f.from /\ w.idx = f.idx /\ w.pid = f.pid
        BY <2>2
      <3>2. Place(f.from, f.idx, f.pid) \in Places
        BY <2>2 DEF Places
      <3>3. QED
        BY <3>1, <3>2
    <2>3. QED
      BY <2>1, <2>2 DEF OwnFiles
  <1>2. \A v, w \in OwnFiles :
          v.rec = w.rec /\ v.folder = w.folder /\ v.idx = w.idx => v.pid = w.pid
    <2> TAKE v, w \in OwnFiles
    <2>1. Place(v.rec, v.idx, v.pid) \in Places /\ Place(w.rec, w.idx, w.pid) \in Places
      BY <1>1
    <2>2. QED
      BY <2>1 DEF PlacesUnique, Place
  <1>3. QED
    BY <1>2 DEF FiledKept, OverwrittenByOneStray

-----------------------------------------------------------------------------
(* The invariant holds at the start and every step keeps it.                 *)

LEMMA InitOthers == Init => IInv
  <1> SUFFICES ASSUME Init PROVE IInv
    OBVIOUS
  <1>1. TypeOK /\ Shape
    BY InitShape
  <1>2. Len(delivered) = 0 /\ pending = {} /\ thread = "none" /\ saved = {} /\ link = {}
        /\ handler = NoReply /\ filing = NoFiling /\ filed = {} /\ session = 0
    BY EmptySeq DEF Init
  <1>3. HeldOnce
    BY <1>2, <1>1 DEF HeldOnce, AtMostOncePerPair, Init, NoReply, NoPair
  <1>4. SessionsKept
    BY <1>2 DEF SessionsKept, PendingOfCurrentSession, NoReply, NoFiling, NoRecord, NoPair
  <1>4a. FiledKept
    BY <1>2 DEF FiledKept, FiledUnderOwnRecord, NoReply
  <1>5. Places = {}
    BY <1>2 DEF Places, NoReply
  <1>6. PlacesUnique
    BY <1>5 DEF PlacesUnique
  <1>7. IdsUnique
    BY <1>2 DEF IdsUnique, ExactMatchIsOwn, Init, NoReply, NoTxn
  <1>8. RequestsHaveEntries
    BY <1>2 DEF RequestsHaveEntries, MatchedUnlessDisturbed, Init, NoReply
  <1>9. PendingBounded
    BY <1>2 DEF PendingBounded
  <1>10. QED
    BY <1>1, <1>3, <1>4, <1>4a, <1>6, <1>7, <1>8, <1>9 DEF IInv

LEMMA InvariantStep == IInv /\ [Next]_vars => IInv'
  <1> SUFFICES ASSUME IInv, [Next]_vars PROVE IInv'
    OBVIOUS
  <1>1. TypeOK' /\ Shape'
    BY ShapeStep DEF IInv
  <1>2. HeldOnce'
    BY HeldOnceStep, <1>1 DEF IInv
  <1>3. SessionsKept'
    BY SessionsKeptStep, <1>1 DEF IInv
  <1>3a. FiledKept'
    BY FiledKeptStep, <1>1 DEF IInv
  <1>4. PlacesUnique'
    BY PlacesUniqueStep, <1>1 DEF IInv
  <1>5. IdsUnique'
    BY IdsUniqueStep, <1>1 DEF IInv
  <1>6. RequestsHaveEntries'
    BY RequestsHaveEntriesStep, <1>1 DEF IInv
  <1>7. PendingBounded'
    BY BoundedStep, <1>1 DEF IInv
  <1>8. QED
    BY <1>1, <1>2, <1>3, <1>3a, <1>4, <1>5, <1>6, <1>7 DEF IInv

(* Every reachable state satisfies the inductive invariant.                  *)
THEOREM Inductive == Spec => []IInv
  <1>1. Init => IInv
    BY InitOthers
  <1>2. IInv /\ [Next]_vars => IInv'
    BY InvariantStep
  <1>3. QED
    BY <1>1, <1>2, PTL DEF Spec

-----------------------------------------------------------------------------
(* The theorems.                                                           *)

(* Every variable of the transaction pipeline keeps its type.                *)
THEOREM TypeCorrect == Spec => []TypeOK
  <1>1. IInv => TypeOK
    BY DEF IInv
  <1>2. QED
    BY <1>1, Inductive, PTL

(* However many pairs are captured, and whatever AIVD loses, delays, repeats   *)
(* ids of or invents, on_ai_result_ delivers no pair's images twice.          *)
THEOREM AtMostOnce == Spec => []AtMostOncePerPair
  <1>1. IInv => AtMostOncePerPair
    BY DEF IInv, HeldOnce
  <1>2. QED
    BY <1>1, Inductive, PTL

(* For every capacity, process_pair_ keeps pending_ within one entry of it.   *)
THEOREM Bounded == Spec => []PendingBounded
  <1>1. IInv => PendingBounded
    BY DEF IInv
  <1>2. QED
    BY <1>1, Inductive, PTL

(* clear_pending at the top of both starts leaves no entry of an earlier       *)
(* session behind: the capture thread that could add one has been joined.     *)
THEOREM OfCurrentSession == Spec => []PendingOfCurrentSession
  <1>1. IInv => PendingOfCurrentSession
    BY DEF IInv, SessionsKept
  <1>2. QED
    BY <1>1, Inductive, PTL

(* Each of the four files of a reply goes under the record of the session that  *)
(* captured its pair, though on_ai_result_ reads the path again for each; only  *)
(* when the path changed between its test and that read does one go astray,     *)
(* under no record or a later one.                                          *)
THEOREM OwnRecord == Spec => []FiledUnderOwnRecord
  <1>1. IInv => FiledUnderOwnRecord
    BY DEF IInv, FiledKept
  <1>2. QED
    BY <1>1, Inductive, PTL

(* The pairs of a record never share a file among themselves, process_pair_ and  *)
(* on_ai_result_ together; one pair of an earlier session at most strays in.    *)
THEOREM OneStray == Spec => []OverwrittenByOneStray
  <1>1. IInv => OverwrittenByOneStray
    BY PlacesGiveFiles DEF IInv
  <1>2. QED
    BY <1>1, Inductive, PTL

(* While the wall clock only goes forward, the entry on_ai_result_ finds under  *)
(* a reply's transaction id is the one that request was made for.             *)
THEOREM ExactOwn == Spec => []ExactMatchIsOwn
  <1> USE DEF IInv
  <1>1. IInv => ExactMatchIsOwn
    BY DEF IdsUnique, ExactMatchIsOwn
  <1>2. QED
    BY <1>1, Inductive, PTL

(* Without one of the disturbances the code cannot see, every result carries    *)
(* the images of its own request, whatever requests and replies are lost.      *)
THEOREM Matched == Spec => []MatchedUnlessDisturbed
  <1>1. IInv => MatchedUnlessDisturbed
    BY DEF IInv, RequestsHaveEntries, MatchedUnlessDisturbed
  <1>2. QED
    BY <1>1, Inductive, PTL
=============================================================================
