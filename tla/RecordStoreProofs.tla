--------------------------- MODULE RecordStoreProofs ---------------------------
(***************************************************************************)
(* Proofs about RecordStore for any years, sub-folders, sizes and readers: its      *)
(* types, that only a year in excess loses what was saved, what ends Core, and what    *)
(* GetRecord tells of a record.                                                         *)
(***************************************************************************)
EXTENDS RecordStore, FiniteSetTheorems, SequenceTheorems, WellFoundedInduction, TLAPS

Destroying == {"removing", "clearing"}

(* A pass never believes the store to be larger than it is, and removes a year only    *)
(* after it has been found to be in excess.                                    *)
KeeperInv ==
  /\ IsFiniteSet(Standing)
  /\ keeper \in {"listing", "cleaning"} => size <= Cardinality(Standing)
  /\ keeper \in Destroying => victim \in excess \cap removed

(* A record's own directory is there as long as any of its sub-folders, and what a      *)
(* reader has found is there, unless the year has been removed.                   *)
FolderInv ==
  /\ \A d \in folders : Folder(d.rec, "") \in folders
  /\ \A r \in Readers :
       /\ reader[r].at = "listed" /\ reader[r].rec.year \notin removed =>
            Folder(reader[r].rec, "") \in folders
       /\ reader[r].at = "folders" /\ reader[r].rec.year \notin removed =>
            \A sub \in reader[r].subs : Folder(reader[r].rec, sub) \in folders

(* What a record was created with is there while files are queued for it or may be,      *)
(* unless its year has been removed.                                          *)
Kept(rec) == rec # NoneActive /\ rec.year \notin removed => Created(rec) \subseteq folders
KeptInv ==
  /\ Kept(active) /\ Kept(left)
  /\ \A i \in 1..Len(toSave) : Kept(toSave[i].in.rec)

(* What was saved when GetRecord was called is told, or was opened again, or is whole      *)
(* and still to be read, unless the year has been removed.                        *)
ToBeRead(r, f) ==
  /\ f.in.rec = reader[r].rec
  /\ \/ f \in reader[r].told \cup reader[r].opened
     \/ f \in whole /\ (f \in reader[r].names \/ f.in.sub \in reader[r].subs)
NamesInv ==
  \A r \in Readers :
    /\ reader[r].told \subseteq stored
    /\ reader[r].at = "names" /\ reader[r].rec.year \notin removed =>
         \A f \in reader[r].before : ToBeRead(r, f)

SInv == StoreTypeOK /\ KeeperInv

ReaderStates ==
  [at : {"idle", "listed", "folders", "names"},
   rec : Records \cup {NoneActive},
   subs : SUBSET FolderNames, before : SUBSET Files,
   names : SUBSET Files, told : SUBSET Files, opened : SUBSET Files]

-----------------------------------------------------------------------------
LEMMA Smallest ==
  ASSUME NEW S \in SUBSET Nat, S # {}
  PROVE  \E x \in S : \A y \in S : x <= y
  <1>1. IsWellFoundedOn(OpToRel(<, Nat), Nat)
    BY NatLessThanWellFounded
  <1>2. PICK x \in S : \A y \in S : ~(<<y, x>> \in OpToRel(<, Nat))
    BY <1>1, WFMin
  <1>3. \A y \in S : x <= y
    <2>1. SUFFICES ASSUME NEW y \in S PROVE x <= y
      OBVIOUS
    <2>2. x \in Nat /\ y \in Nat /\ ~(y < x)
      BY <1>2 DEF OpToRel
    <2>3. QED
      BY <2>2
  <1>4. QED
    BY <1>3

LEMMA OldestIsSmallest ==
  ASSUME StoreTypeOK, yearDirs # {}
  PROVE  OldestYear \in yearDirs /\ \A y \in yearDirs : OldestYear <= y
  <1>1. yearDirs \in SUBSET Nat
    <2>1. yearDirs \subseteq Years
      BY DEF StoreTypeOK
    <2>2. Years \subseteq Nat
      BY YearAssumption DEF Years
    <2>3. QED
      BY <2>1, <2>2
  <1>2. \E x \in yearDirs : \A y \in yearDirs : x <= y
    BY <1>1, Smallest
  <1>3. QED
    BY <1>2 DEF OldestYear

-----------------------------------------------------------------------------
(* Types.                                                                  *)

LEMMA RecordTyped ==
  ASSUME NEW rec \in Records, NEW sub \in FolderNames
  PROVE  Folder(rec, sub) \in RecordFolders
  BY DEF Folder, RecordFolders

LEMMA OneMore ==
  ASSUME NEW n \in 0..MaxSaves, n < MaxSaves
  PROVE  n + 1 \in 1..MaxSaves /\ n + 1 \in 0..MaxSaves
  BY SizeAssumption

LEMMA CreatedTyped ==
  ASSUME NEW rec \in Records
  PROVE  Created(rec) \subseteq RecordFolders
  <1>1. \A sub \in {""} \cup SubFolders : Folder(rec, sub) \in RecordFolders
    BY RecordTyped DEF FolderNames
  <1>2. QED
    BY <1>1 DEF Created

LEMMA ThisRecord ==
  ASSUME StoreTypeOK, NEW kind \in RecordKinds
  PROVE  [year |-> year, kind |-> kind] \in Records
  BY DEF StoreTypeOK, Records

LEMMA HandlersTyped == StoreTypeOK /\ Handlers => StoreTypeOK'
  <1> SUFFICES ASSUME StoreTypeOK, Handlers PROVE StoreTypeOK'
    OBVIOUS
  <1>1. CASE NewYear
    <2>1. year' \in Years
      <3>1. year \in Years
        BY DEF StoreTypeOK
      <3>2. QED
        BY <1>1, <3>1, YearAssumption DEF NewYear, Years
    <2>2. QED
      BY <1>1, <2>1 DEF NewYear, StoreTypeOK, Standing, diskVars, passVars, pathVars
  <1>2. CASE CloseRecord
    BY <1>2 DEF CloseRecord, PathChange, StoreTypeOK, Standing, passVars
  <1>3. ASSUME NEW kind \in RecordKinds, CreateRecord(kind) PROVE StoreTypeOK'
    <2>1. [year |-> year, kind |-> kind] \in Records
      BY ThisRecord
    <2>2. /\ active' = [year |-> year, kind |-> kind] /\ folders' = folders \cup Created(active')
          /\ PathChange /\ left' = left
      BY <1>3 DEF CreateRecord
    <2>3. Created(active') \subseteq RecordFolders
      BY <2>1, <2>2, CreatedTyped
    <2>4. QED
      BY <2>1, <2>2, <2>3 DEF PathChange, StoreTypeOK, Standing, passVars
  <1>4. ASSUME NEW kind \in RecordKinds, CreateFails(kind) PROVE StoreTypeOK'
    <2>1. Created([year |-> year, kind |-> kind]) \subseteq RecordFolders
      BY ThisRecord, CreatedTyped
    <2>2. folders' \subseteq RecordFolders /\ PathChange /\ UNCHANGED <<active, left>>
      BY <1>4, <2>1 DEF CreateFails, StoreTypeOK
    <2>3. QED
      BY <2>2 DEF PathChange, StoreTypeOK, Standing, passVars
  <1>5. QED
    BY <1>1, <1>2, <1>3, <1>4 DEF Handlers

LEMMA QueueingTyped == StoreTypeOK /\ Queueing => StoreTypeOK'
  <1> SUFFICES ASSUME StoreTypeOK, Queueing PROVE StoreTypeOK'
    OBVIOUS
  <1>1. ASSUME NEW copy \in {"path", "active"}, TestCopy(copy) PROVE StoreTypeOK'
    BY <1>1 DEF TestCopy, QueueStep, StoreTypeOK, Standing, diskVars, passVars
  <1>2. ASSUME NEW sub \in FiledFolders, NEW n \in Numbers, QueueFile(sub, n)
        PROVE  StoreTypeOK'
    <2>1. FileOf(Copy(tested), sub, n) \in Files \cup {NoFile}
      <3>1. Copy(tested) \in Records \cup {NoneActive}
        BY DEF Copy, StoreTypeOK
      <3>2. sub \in FolderNames
        BY FolderAssumption DEF FolderNames
      <3>3. Copy(tested) \in Records => Folder(Copy(tested), sub) \in RecordFolders
        BY <3>2, RecordTyped
      <3>4. QED
        BY <3>1, <3>3 DEF FileOf, Files
    <2>2. toSave' \in Seq(Files \cup {NoFile})
      <3>1. toSave \in Seq(Files \cup {NoFile})
        BY DEF StoreTypeOK
      <3>2. toSave' = Append(toSave, FileOf(Copy(tested), sub, n))
        BY <1>2 DEF QueueFile
      <3>3. QED
        BY <2>1, <3>1, <3>2, AppendProperties
    <2>3. queued' \in 0..MaxSaves
      BY <1>2, OneMore DEF QueueFile, StoreTypeOK
    <2>4. QueueStep /\ UNCHANGED tested
      BY <1>2 DEF QueueFile
    <2>5. QED
      BY <2>2, <2>3, <2>4 DEF QueueStep, StoreTypeOK, Standing, diskVars, passVars
  <1>3. CASE QueueEnds
    BY <1>3 DEF QueueEnds, QueueStep, StoreTypeOK, Standing, diskVars, passVars
  <1>4. QED
    BY <1>1, <1>2, <1>3 DEF Queueing

LEMMA HeadFile ==
  ASSUME StoreTypeOK, toSave # << >>
  PROVE  /\ Head(toSave) \in Files \cup {NoFile} /\ Tail(toSave) \in Seq(Files \cup {NoFile})
         /\ Head(toSave) # NoFile =>
              Head(toSave).in.rec \in Records /\ Head(toSave).in.sub \in FolderNames
  <1>1. Head(toSave) \in Files \cup {NoFile} /\ Tail(toSave) \in Seq(Files \cup {NoFile})
    <2>1. toSave \in Seq(Files \cup {NoFile})
      BY DEF StoreTypeOK
    <2>2. QED
      BY <2>1, HeadTailProperties
  <1>2. QED
    BY <1>1 DEF Files, RecordFolders

LEMMA NoFileNowhere == ASSUME StoreTypeOK PROVE NoFile.in \notin folders
  <1>1. NoYear \notin Years
    BY YearAssumption DEF NoYear, Years
  <1>2. NoFile.in \notin RecordFolders
    BY <1>1 DEF NoFile, Folder, NoneActive, RecordFolders, Records
  <1>3. QED
    BY <1>2 DEF StoreTypeOK

LEMMA OpenedTyped ==
  ASSUME StoreTypeOK, NEW f \in Files
  PROVE  Opened(f) \in [Readers -> ReaderStates]
  <1>1. SUFFICES ASSUME NEW r \in Readers PROVE Opened(f)[r] \in ReaderStates
    BY DEF Opened
  <1>2. reader[r] \in ReaderStates
    BY DEF StoreTypeOK, ReaderStates
  <1>3. [reader[r] EXCEPT !.opened = reader[r].opened \cup {f}] \in ReaderStates
    BY <1>2 DEF ReaderStates
  <1>4. [reader[r] EXCEPT !.opened = reader[r].opened] \in ReaderStates
    BY <1>2 DEF ReaderStates
  <1>5. QED
    BY <1>3, <1>4 DEF Opened

LEMMA SaverTyped == StoreTypeOK /\ Saver => StoreTypeOK'
  <1> SUFFICES ASSUME StoreTypeOK, Saver PROVE StoreTypeOK'
    OBVIOUS
  <1>1. CASE TakeFile
    <2>1. /\ Head(toSave) \in Files /\ Tail(toSave) \in Seq(Files \cup {NoFile})
          /\ Ensured(Head(toSave).in.rec, Head(toSave).in.sub) \subseteq RecordFolders
      BY <1>1, HeadFile, RecordTyped DEF TakeFile, Ensured, StoreTypeOK, FolderNames
    <2>2. QED
      BY <1>1, <2>1 DEF TakeFile, StoreTypeOK, Standing, passVars, pathVars
  <1>2. CASE TakeAstray
    BY <1>2, HeadFile DEF TakeAstray, StoreTypeOK, Standing, diskVars, passVars, pathVars
  <1>3. CASE EnsureThrows
    BY <1>3, HeadFile DEF EnsureThrows, StoreTypeOK, Standing, diskVars, passVars, pathVars
  <1>4. CASE OpenFile
    <2>1. saver.file \in Files
      BY <1>4, NoFileNowhere DEF OpenFile, StoreTypeOK
    <2>2. reader' \in [Readers -> ReaderStates]
      BY <1>4, <2>1, OpenedTyped DEF OpenFile
    <2>3. /\ saver' = [saver EXCEPT !.at = "writing"] /\ files' = files \cup {saver.file}
          /\ whole' = whole \ {saver.file}
          /\ UNCHANGED <<clientVars, folders, stored, keeping, keeper, passVars, crashed>>
      BY <1>4 DEF OpenFile, SaverAt
    <2>4. saver' \in [at : {"idle", "opening", "writing"}, file : Files \cup {NoFile}]
      BY <2>3 DEF StoreTypeOK
    <2>5. files' \subseteq Files /\ whole' \subseteq Standing'
      BY <2>1, <2>3 DEF StoreTypeOK, Standing
    <2>6. QED
      BY <2>2, <2>3, <2>4, <2>5 DEF StoreTypeOK, ReaderStates, clientVars, pathVars, passVars
  <1>5. CASE OpenFails
    BY <1>5 DEF OpenFails, StoreTypeOK, Standing, clientVars, diskVars, passVars, pathVars
  <1>6. CASE WriteFile
    <2>1. /\ whole' \subseteq Standing' /\ stored' \subseteq Files
      BY <1>6 DEF WriteFile, StoreTypeOK, Standing
    <2>2. QED
      BY <1>6, <2>1 DEF WriteFile, StoreTypeOK, clientVars, passVars, pathVars
  <1>7. QED
    BY <1>1, <1>2, <1>3, <1>4, <1>5, <1>6 DEF Saver

LEMMA WholeSize ==
  ASSUME SInv
  PROVE  /\ IsFiniteSet(Standing) /\ Cardinality(Standing) \in Nat
         /\ Size \in Nat /\ Size <= Cardinality(Standing)
  <1>1. IsFiniteSet(Standing) /\ whole \in SUBSET Standing
    BY DEF SInv, KeeperInv, StoreTypeOK
  <1>2. IsFiniteSet(whole) /\ Cardinality(whole) <= Cardinality(Standing)
    BY <1>1, FS_Subset
  <1>3. QED
    BY <1>1, <1>2, FS_CardinalityType DEF Size

LEMMA KeeperTyped ==
  ASSUME SInv, Keeper
  PROVE  StoreTypeOK'
  <1>0. Size \in Nat /\ 0 \in Nat
    BY WholeSize
  <1> USE DEF SInv, StoreTypeOK, Standing, clientVars, diskVars, passVars, pathVars, KeeperStep
  <1>1. CASE KeeperWakes
    BY <1>1 DEF KeeperWakes
  <1>2. CASE Measure
    BY <1>0, <1>2 DEF Measure, AfterMeasure
  <1>3. CASE ListYears
    <2>1. {rec.year : rec \in Recorded} \subseteq Years
      <3>1. \A d \in folders : d.rec \in Records
        BY DEF RecordFolders
      <3>2. \A rec \in Recorded : rec.year \in Years
        BY <3>1 DEF Recorded, Records
      <3>3. QED
        BY <3>2
    <2>2. QED
      BY <1>3, <2>1 DEF ListYears
  <1>4. CASE NextVictim
    <2>1. OldestYear \in Years
      <3>1. yearDirs # {}
        BY <1>4 DEF NextVictim
      <3> HIDE DEF SInv, StoreTypeOK, Standing, KeeperStep
      <3>2. OldestYear \in yearDirs /\ yearDirs \subseteq Years
        BY <3>1, OldestIsSmallest DEF SInv, StoreTypeOK
      <3>3. QED
        BY <3>2
    <2>2. QED
      BY <1>4, <2>1 DEF NextVictim
  <1>5. CASE PassEnds
    BY <1>0, <1>5 DEF PassEnds
  <1>6. CASE RemoveFiles
    BY <1>6 DEF RemoveFiles
  <1>7. CASE RemoveFolders
    BY <1>0, <1>7 DEF RemoveFolders
  <1>8. QED
    BY <1>1, <1>2, <1>3, <1>4, <1>5, <1>6, <1>7 DEF Keeper

LEMMA NotReadingTyped == NotReading \in ReaderStates
  BY DEF NotReading, ReaderStates

LEMMA ReaderTyped ==
  ASSUME StoreTypeOK, NEW r \in Readers, Reader(r)
  PROVE  StoreTypeOK'
  <1> USE DEF ReaderStep
  <1>0. ASSUME NEW next \in ReaderStates, reader' = [reader EXCEPT ![r] = next],
               UNCHANGED <<clientVars, saver, diskVars, keeping, keeper, passVars, crashed>>
        PROVE  StoreTypeOK'
    <2>1. reader' \in [Readers -> ReaderStates]
      BY <1>0 DEF StoreTypeOK, ReaderStates
    <2>2. QED
      BY <1>0, <2>1 DEF StoreTypeOK, Standing, ReaderStates, clientVars, pathVars, diskVars,
                        passVars
  <1>1. reader[r] \in ReaderStates
    BY DEF StoreTypeOK, ReaderStates
  <1>2. ASSUME NEW rec \in Records, HistoryBegin(r, rec) PROVE StoreTypeOK'
    <2>1. [NotReading EXCEPT !.at = "listed", !.rec = rec] \in ReaderStates
      BY NotReadingTyped DEF ReaderStates
    <2>2. QED
      BY <1>0, <1>2, <2>1 DEF HistoryBegin
  <1>3. ASSUME NEW rec \in Records, RecordBegin(r, rec) PROVE StoreTypeOK'
    <2>1. [NotReading EXCEPT !.at = "names", !.rec = rec, !.subs = ReadFolders,
                             !.before = {f \in whole : f.in.rec = rec}] \in ReaderStates
      <3>1. {f \in whole : f.in.rec = rec} \subseteq Files
        BY DEF StoreTypeOK, Standing
      <3>2. QED
        BY <3>1, NotReadingTyped DEF ReaderStates, ReadFolders
    <2>2. QED
      BY <1>0, <1>3, <2>1 DEF RecordBegin
  <1>4. CASE ListFolders(r)
    <2>1. StereoDirs(reader[r].rec) \subseteq FolderNames
      BY DEF StereoDirs, StereoFolders, FolderNames
    <2>2. [reader[r] EXCEPT !.at = "folders", !.subs = StereoDirs(reader[r].rec)]
            \in ReaderStates
      BY <1>1, <2>1 DEF ReaderStates
    <2>3. QED
      BY <1>0, <1>4, <2>2 DEF ListFolders
  <1>5. CASE CountFolder(r)
    <2>1. UNCHANGED <<clientVars, saver, diskVars, keeping, keeper, passVars>>
      BY <1>5 DEF CountFolder
    <2>2. PICK sub \in reader[r].subs :
            \/ /\ reader' = [reader EXCEPT ![r] = [reader[r] EXCEPT !.subs = @ \ {sub}]]
               /\ UNCHANGED crashed
            \/ crashed' = "reader" /\ UNCHANGED reader
      BY <1>5 DEF CountFolder
    <2>3. [reader[r] EXCEPT !.subs = @ \ {sub}] \in ReaderStates
      BY <1>1 DEF ReaderStates
    <2>4. CASE reader' = [reader EXCEPT ![r] = [reader[r] EXCEPT !.subs = @ \ {sub}]]
               /\ UNCHANGED crashed
      BY <1>0, <2>1, <2>3, <2>4
    <2>5. CASE crashed' = "reader" /\ UNCHANGED reader
      BY <2>1, <2>5 DEF StoreTypeOK, Standing, clientVars, pathVars, diskVars, passVars
    <2>6. QED
      BY <2>2, <2>4, <2>5
  <1>6. CASE HistoryEnd(r) \/ RecordEnd(r)
    BY <1>0, <1>6, NotReadingTyped DEF HistoryEnd, RecordEnd
  <1>7. CASE RecordNames(r)
    <2>1. PICK sub \in reader[r].subs :
            reader' = [reader EXCEPT ![r] =
                         [reader[r] EXCEPT !.subs = @ \ {sub},
                            !.names = {f \in files : f.in = Folder(reader[r].rec, sub)}]]
      BY <1>7 DEF RecordNames
    <2>2. {f \in files : f.in = Folder(reader[r].rec, sub)} \subseteq Files
      BY DEF StoreTypeOK
    <2>3. [reader[r] EXCEPT !.subs = @ \ {sub},
             !.names = {f \in files : f.in = Folder(reader[r].rec, sub)}] \in ReaderStates
      BY <1>1, <2>2 DEF ReaderStates
    <2>4. QED
      BY <1>0, <1>7, <2>1, <2>3 DEF RecordNames
  <1>8. CASE RecordRead(r)
    <2>1. PICK f \in reader[r].names :
            reader' = [reader EXCEPT ![r] =
                         [reader[r] EXCEPT !.names = @ \ {f}, !.told = @ \cup ({f} \cap whole)]]
      BY <1>8 DEF RecordRead
    <2>2. [reader[r] EXCEPT !.names = @ \ {f}, !.told = @ \cup ({f} \cap whole)]
            \in ReaderStates
      BY <1>1 DEF ReaderStates
    <2>3. QED
      BY <1>0, <1>8, <2>1, <2>2 DEF RecordRead
  <1>9. QED
    BY <1>2, <1>3, <1>4, <1>5, <1>6, <1>7, <1>8 DEF Reader

LEMMA MainTyped ==
  StoreTypeOK /\ (StartKeeper \/ StopKeeper \/ JoinKeeper) => StoreTypeOK'
  BY DEF StoreTypeOK, Standing, StartKeeper, StopKeeper, JoinKeeper, clientVars, diskVars,
         passVars, pathVars

LEMMA StoreTypeStep == SInv /\ [StoreNext]_storeVars => StoreTypeOK'
  <1> SUFFICES ASSUME SInv, [StoreNext]_storeVars PROVE StoreTypeOK'
    OBVIOUS
  <1>1. CASE UNCHANGED storeVars
    BY <1>1 DEF SInv, StoreTypeOK, Standing, storeVars, clientVars, diskVars, passVars, pathVars
  <1>2. QED
    BY <1>1, HandlersTyped, QueueingTyped, SaverTyped, KeeperTyped, ReaderTyped, MainTyped
    DEF StoreNext, SInv

-----------------------------------------------------------------------------
(* What HouseKeeper removes.                                                *)

(* The year that is chosen is the oldest, so all that stands is of it and of later      *)
(* ones, or a year below has been filled again.                                   *)
LEMMA VictimInExcess ==
  ASSUME SInv, NextVictim
  PROVE  victim' \in excess' \cap removed'
  <1>0. StoreTypeOK /\ KeeperInv
    BY DEF SInv
  <1>1. /\ keeper = "cleaning" /\ size > MaxSize /\ yearDirs # {} /\ victim' = OldestYear
        /\ removed' = removed \cup {OldestYear}
    BY DEF NextVictim, KeeperStep
  <1>2. Cardinality(Standing) > MaxSize
    <2>1. size <= Cardinality(Standing) /\ Cardinality(Standing) \in Nat
      BY <1>0, <1>1, WholeSize DEF KeeperInv
    <2>2. size \in Nat
      BY <1>0 DEF StoreTypeOK
    <2>3. QED
      BY <1>1, <2>1, <2>2, SizeAssumption
  <1>3. Refilled(OldestYear) \/ From(OldestYear) = Standing
    <2>1. SUFFICES ASSUME ~Refilled(OldestYear), NEW f \in Standing
                   PROVE  f.in.rec.year >= OldestYear
      BY DEF From
    <2>2. f.in.rec.year \in Nat /\ OldestYear \in Nat
      <3>1. f \in Files /\ yearDirs \subseteq Years
        BY <1>0 DEF StoreTypeOK, Standing
      <3>2. f.in.rec.year \in Years
        BY <3>1 DEF Files, RecordFolders, Records
      <3>3. OldestYear \in Years
        BY <1>0, <1>1, <3>1, OldestIsSmallest
      <3>4. QED
        BY <3>2, <3>3, YearAssumption DEF Years
    <2>3. CASE f.in.rec.year \in yearDirs
      BY <1>0, <1>1, <2>2, <2>3, OldestIsSmallest
    <2>4. CASE f.in.rec.year \notin yearDirs
      BY <2>1, <2>2, <2>4 DEF Refilled
    <2>5. QED
      BY <2>3, <2>4
  <1>4. excess' = excess \cup {OldestYear}
    BY <1>2, <1>3 DEF NextVictim
  <1>5. QED
    BY <1>1, <1>4

LEMMA ReaderFrame ==
  ASSUME NEW r \in Readers, Reader(r)
  PROVE  /\ UNCHANGED <<active, left, toSave, saver, folders, files, whole, stored, keeper>>
         /\ UNCHANGED <<passVars, removed>>
  BY DEF Reader, HistoryBegin, RecordBegin, ListFolders, CountFolder, HistoryEnd, RecordNames,
         RecordRead, RecordEnd, clientVars, pathVars, diskVars, passVars

LEMMA QueueFrame ==
  ASSUME Queueing
  PROVE  /\ UNCHANGED <<active, left, saver, folders, files, whole, stored, keeper, reader, crashed>>
         /\ UNCHANGED <<passVars, removed>>
  BY DEF Queueing, TestCopy, QueueFile, QueueEnds, QueueStep, diskVars, passVars

LEMMA HandlerFrame ==
  ASSUME Handlers
  PROVE  /\ UNCHANGED <<toSave, saver, files, whole, stored, keeper, reader, crashed>>
         /\ UNCHANGED <<passVars, removed>>
  BY DEF Handlers, NewYear, CloseRecord, CreateRecord, CreateFails, PathChange, diskVars, passVars

LEMMA MainFrame ==
  ASSUME StartKeeper \/ StopKeeper \/ JoinKeeper
  PROVE  /\ UNCHANGED <<active, left, toSave, saver, folders, files, whole, stored, reader, crashed>>
         /\ UNCHANGED <<passVars, removed>>
  BY DEF StartKeeper, StopKeeper, JoinKeeper, clientVars, pathVars, diskVars, passVars

LEMMA SaverFrame ==
  ASSUME Saver
  PROVE  UNCHANGED <<active, left, keeper, passVars, removed>>
  BY DEF Saver, TakeFile, TakeAstray, EnsureThrows, OpenFile, OpenFails, WriteFile, clientVars,
         pathVars, passVars

LEMMA KeeperFrame ==
  ASSUME Keeper
  PROVE  UNCHANGED <<active, left, toSave, saver, stored, reader, crashed>>
  BY DEF Keeper, KeeperWakes, Measure, ListYears, NextVictim, PassEnds, RemoveFiles,
         RemoveFolders, clientVars, pathVars, diskVars

(* The writer opens one file again, or ends one, and nothing else is disturbed by it.     *)
LEMMA SaverFiles ==
  ASSUME SInv, Saver
  PROVE  \/ OpenFile \/ WriteFile
         \/ UNCHANGED <<files, whole, stored, reader>> /\ saver.at # "writing"
  BY DEF Saver, TakeFile, TakeAstray, EnsureThrows, OpenFails, diskVars

LEMMA KeeperInvStep ==
  ASSUME SInv, [StoreNext]_storeVars
  PROVE  /\ KeeperInv'
         /\ excess \subseteq excess' /\ removed \subseteq removed'
         /\ stored \subseteq stored'
  <1>0. StoreTypeOK /\ KeeperInv /\ size \in Nat
    BY DEF SInv, StoreTypeOK
  <1>1. ASSUME UNCHANGED <<keeper, passVars>>, stored \subseteq stored',
               Standing' = Standing \/ Standing' = Standing \cup {saver.file}
        PROVE  /\ KeeperInv'
               /\ excess \subseteq excess' /\ removed \subseteq removed'
               /\ stored \subseteq stored'
    <2>1. IsFiniteSet(Standing')
      BY <1>0, <1>1, FS_AddElement DEF KeeperInv
    <2>2. Standing \in SUBSET Standing'
      BY <1>1
    <2>3. Cardinality(Standing) <= Cardinality(Standing')
      BY <2>1, <2>2, FS_Subset
    <2>4. Cardinality(Standing) \in Nat /\ Cardinality(Standing') \in Nat
      BY <1>0, <2>1, FS_CardinalityType DEF KeeperInv
    <2>5. size <= Cardinality(Standing) => size <= Cardinality(Standing')
      BY <1>0, <2>3, <2>4
    <2>6. UNCHANGED <<keeper, size, victim, excess, removed>>
      BY <1>1 DEF passVars
    <2>7. QED
      BY <1>0, <1>1, <2>1, <2>5, <2>6 DEF KeeperInv
  <1>2. ASSUME UNCHANGED <<files, stored, keeper, passVars>>
        PROVE  /\ KeeperInv'
               /\ excess \subseteq excess' /\ removed \subseteq removed'
               /\ stored \subseteq stored'
    BY <1>1, <1>2 DEF Standing
  <1>3. CASE UNCHANGED storeVars
    BY <1>2, <1>3 DEF storeVars, diskVars
  <1>4. CASE Handlers
    BY <1>2, <1>4, HandlerFrame
  <1>5. CASE Queueing
    BY <1>2, <1>5, QueueFrame
  <1>6. CASE Saver
    <2>1. UNCHANGED <<keeper, passVars>>
      BY <1>6, SaverFrame
    <2>2. CASE OpenFile
      <3>1. /\ files' = files \cup {saver.file} /\ stored' = stored
        BY <2>2 DEF OpenFile
      <3>2. QED
        BY <1>1, <2>1, <3>1 DEF Standing
    <2>3. CASE WriteFile
      <3>1. /\ files' = files
            /\ \/ stored' = stored
               \/ saver.file \in files /\ stored' = stored \cup {saver.file}
        BY <2>3 DEF WriteFile
      <3>2. QED
        BY <1>1, <2>1, <3>1 DEF Standing
    <2>4. QED
      BY <1>2, <1>6, <2>1, <2>2, <2>3, SaverFiles
  <1>7. CASE Keeper
    <2> USE DEF diskVars, passVars, KeeperStep
    <2>1. CASE KeeperWakes \/ ListYears \/ PassEnds
      <3>1. /\ keeper' \notin Destroying
            /\ keeper' \in {"listing", "cleaning"} => keeper = "listing" /\ size' = size
            /\ UNCHANGED <<files, stored, excess, removed>>
        BY <2>1 DEF KeeperWakes, ListYears, PassEnds, Destroying
      <3>2. QED
        BY <1>0, <3>1 DEF KeeperInv, Standing
    <2>2. CASE Measure
      <3>1. /\ keeper' \in {"waiting", "listing"} /\ size' \in {0, Size}
            /\ UNCHANGED <<files, stored, excess, removed>>
        BY <2>2 DEF Measure, AfterMeasure
      <3>2. size' <= Cardinality(Standing)
        BY <3>1, WholeSize
      <3>3. QED
        BY <1>0, <3>1, <3>2 DEF KeeperInv, Standing, Destroying
    <2>3. CASE NextVictim
      <3>1. /\ keeper' = "removing" /\ UNCHANGED <<files, stored>>
            /\ excess \subseteq excess' /\ removed \subseteq removed'
        BY <2>3 DEF NextVictim
      <3>2. victim' \in excess' \cap removed'
        BY <2>3, VictimInExcess
      <3>3. QED
        BY <1>0, <3>1, <3>2 DEF KeeperInv, Standing
    <2>4. CASE RemoveFiles
      <3>1. /\ keeper = "removing" /\ keeper' = "clearing"
            /\ files' = files \ FilesOf(victim) /\ UNCHANGED <<stored, victim, excess, removed>>
        BY <2>4 DEF RemoveFiles
      <3>2. Standing' \subseteq Standing /\ victim \in excess \cap removed
        BY <1>0, <3>1 DEF Standing, KeeperInv, Destroying
      <3>3. IsFiniteSet(Standing')
        BY <1>0, <3>2, FS_Subset DEF KeeperInv
      <3>4. QED
        BY <3>1, <3>2, <3>3 DEF KeeperInv
    <2>5. CASE RemoveFolders
      <3>1. /\ keeper' = "cleaning" /\ size' = Size
            /\ UNCHANGED <<files, stored, excess, removed>>
        BY <2>5 DEF RemoveFolders
      <3>2. QED
        BY <1>0, <3>1, WholeSize DEF KeeperInv, Standing, Destroying
    <2>6. QED
      BY <1>7, <2>1, <2>2, <2>3, <2>4, <2>5 DEF Keeper
  <1>8. CASE StartKeeper
    <2>1. keeper' = "waiting" /\ UNCHANGED <<files, stored, passVars>>
      BY <1>8 DEF StartKeeper, diskVars
    <2>2. QED
      BY <1>0, <2>1 DEF KeeperInv, Standing, Destroying, passVars
  <1>9. CASE StopKeeper \/ JoinKeeper
    BY <1>2, <1>9 DEF StopKeeper, JoinKeeper, diskVars
  <1>10. ASSUME NEW r \in Readers, Reader(r)
         PROVE  /\ KeeperInv'
                /\ excess \subseteq excess' /\ removed \subseteq removed'
                /\ stored \subseteq stored'
    BY <1>2, <1>10, ReaderFrame
  <1>11. QED
    BY <1>3, <1>4, <1>5, <1>6, <1>7, <1>8, <1>9, <1>10 DEF StoreNext

LEMMA SInvStep == SInv /\ [StoreNext]_storeVars => SInv'
  BY StoreTypeStep, KeeperInvStep DEF SInv

(* What is no longer whole was removed with its year, or is open.                      *)
LEMMA WholeStep ==
  ASSUME SInv, [StoreNext]_storeVars
  PROVE  /\ \/ OpenFile
            \/ \A f \in whole \ whole' : f.in.rec.year \in excess \cap removed
         /\ stored' \subseteq stored \cup whole'
  <1>1. ASSUME UNCHANGED <<whole, stored>>
        PROVE  /\ \A f \in whole \ whole' : f.in.rec.year \in excess \cap removed
               /\ stored' \subseteq stored \cup whole'
    BY <1>1
  <1>2. CASE UNCHANGED storeVars
    BY <1>1, <1>2 DEF storeVars, diskVars
  <1>3. CASE Handlers \/ Queueing \/ StartKeeper \/ StopKeeper \/ JoinKeeper
    BY <1>1, <1>3, HandlerFrame, QueueFrame, MainFrame
  <1>4. CASE Saver
    <2>1. WriteFile => whole \subseteq whole' /\ stored' \subseteq stored \cup whole'
      BY DEF WriteFile
    <2>2. OpenFile => stored' = stored
      BY DEF OpenFile
    <2>3. QED
      BY <1>1, <1>4, <2>1, <2>2, SaverFiles
  <1>5. CASE Keeper
    <2>1. CASE RemoveFiles
      <3>1. /\ keeper = "removing" /\ whole' = whole \ FilesOf(victim) /\ stored' = stored
        BY <2>1 DEF RemoveFiles, KeeperStep
      <3>2. victim \in excess \cap removed
        BY <3>1 DEF SInv, KeeperInv, Destroying
      <3>3. \A f \in whole \ whole' : f.in.rec.year = victim
        BY <3>1 DEF FilesOf
      <3>4. QED
        BY <3>1, <3>2, <3>3
    <2>2. CASE ~RemoveFiles
      BY <1>1, <1>5, <2>2 DEF Keeper, KeeperWakes, Measure, ListYears, NextVictim, PassEnds,
         RemoveFolders, diskVars
    <2>3. QED
      BY <2>1, <2>2
  <1>6. ASSUME NEW r \in Readers, Reader(r) PROVE UNCHANGED <<whole, stored>>
    BY <1>6, ReaderFrame
  <1>7. QED
    BY <1>1, <1>2, <1>3, <1>4, <1>5, <1>6 DEF StoreNext

(* The file in the writer's hands stays there, while its year stays.                     *)
LEMMA WritingStep ==
  ASSUME SInv, [StoreNext]_storeVars, saver.at = "writing", saver.file \in files
  PROVE  \/ saver' = saver /\ saver.file \in files'
         \/ saver.file \in whole'
         \/ saver.file.in.rec.year \in excess
  <1>1. CASE UNCHANGED storeVars
    BY <1>1 DEF storeVars, diskVars
  <1>2. CASE Handlers \/ Queueing \/ StartKeeper \/ StopKeeper \/ JoinKeeper
    BY <1>2, HandlerFrame, QueueFrame, MainFrame
  <1>3. CASE Saver
    BY <1>3 DEF Saver, TakeFile, TakeAstray, EnsureThrows, OpenFile, OpenFails, WriteFile, SaverAt
  <1>4. CASE Keeper
    <2>1. saver' = saver
      BY <1>4, KeeperFrame
    <2>2. CASE RemoveFiles
      <3>1. /\ keeper = "removing" /\ files' = files \ FilesOf(victim)
        BY <2>2 DEF RemoveFiles, KeeperStep
      <3>2. victim \in excess
        BY <3>1 DEF SInv, KeeperInv, Destroying
      <3>3. QED
        BY <2>1, <3>1, <3>2 DEF FilesOf
    <2>3. CASE ~RemoveFiles
      BY <1>4, <2>1, <2>3 DEF Keeper, KeeperWakes, Measure, ListYears, NextVictim, PassEnds,
         RemoveFolders, diskVars
    <2>4. QED
      BY <2>2, <2>3
  <1>5. ASSUME NEW r \in Readers, Reader(r) PROVE UNCHANGED <<saver, files>>
    BY <1>5, ReaderFrame
  <1>6. QED
    BY <1>1, <1>2, <1>3, <1>4, <1>5 DEF StoreNext

LEMMA SavedStep ==
  SInv /\ SavedUnlessExcess /\ [StoreNext]_storeVars => SavedUnlessExcess'
  <1> SUFFICES ASSUME SInv, SavedUnlessExcess, [StoreNext]_storeVars,
                      NEW f \in stored' \ whole', f.in.rec.year \notin excess'
               PROVE  f \in files' /\ saver' = [at |-> "writing", file |-> f]
    BY DEF SavedUnlessExcess
  <1>1. f \in stored /\ f.in.rec.year \notin excess
    BY KeeperInvStep, WholeStep
  <1>2. saver \in [at : {"idle", "opening", "writing"}, file : Files \cup {NoFile}]
    BY DEF SInv, StoreTypeOK
  <1>3. CASE f \in whole
    <2>1. OpenFile
      BY <1>1, <1>3, WholeStep
    <2>2. /\ f = saver.file /\ files' = files \cup {saver.file}
          /\ saver' = [saver EXCEPT !.at = "writing"]
      BY <1>3, <2>1 DEF OpenFile, SaverAt
    <2>3. QED
      BY <1>2, <2>2
  <1>4. CASE f \notin whole
    <2>1. f \in files /\ saver = [at |-> "writing", file |-> f]
      BY <1>1, <1>4 DEF SavedUnlessExcess
    <2>2. saver.at = "writing" /\ saver.file = f
      BY <2>1
    <2>3. QED
      BY <1>1, <2>1, <2>2, WritingStep
  <1>5. QED
    BY <1>3, <1>4

-----------------------------------------------------------------------------
(* What a reader or the writer may find gone.                                    *)

FoldersKept ==
  /\ \A d \in folders' : Folder(d.rec, "") \in folders'
  /\ \A d \in folders \ folders' : d.rec.year \in removed

LEMMA FolderFields == \A rec, sub : Folder(rec, sub).rec = rec /\ Folder(rec, sub).sub = sub
  BY DEF Folder

LEMMA CreatedFields ==
  ASSUME NEW rec
  PROVE  Folder(rec, "") \in Created(rec) /\ \A d \in Created(rec) : d.rec = rec
  <1>1. Folder(rec, "") \in Created(rec)
    BY DEF Created
  <1>2. \A d \in Created(rec) : \E sub : d = Folder(rec, sub)
    BY DEF Created
  <1>3. QED
    BY <1>1, <1>2, FolderFields

(* Directories go only with their year, and a record's own directory last.            *)
LEMMA FoldersStep ==
  ASSUME SInv, FolderInv, [StoreNext]_storeVars
  PROVE  FoldersKept
  <1>0. \A d \in folders : Folder(d.rec, "") \in folders
    BY DEF FolderInv
  <1>1. ASSUME UNCHANGED folders PROVE FoldersKept
    BY <1>0, <1>1 DEF FoldersKept
  <1>2. ASSUME NEW kind \in RecordKinds, CreateRecord(kind) \/ CreateFails(kind)
        PROVE  FoldersKept
    <2> DEFINE rec == [year |-> year, kind |-> kind]
    <2>1. \E part \in SUBSET Created(rec) :
            Folder(rec, "") \in part /\ folders' = folders \cup part
      <3>1. Folder(rec, "") \in Created(rec)
        BY CreatedFields
      <3>2. QED
        BY <1>2, <3>1 DEF CreateRecord, CreateFails
    <2>2. \A d \in Created(rec) : d.rec = rec
      BY CreatedFields
    <2> HIDE DEF rec
    <2>3. QED
      BY <1>0, <2>1, <2>2 DEF FoldersKept
  <1>3. CASE TakeFile
    <2> DEFINE f == Head(toSave)
    <2>1. folders' = folders \cup {Folder(f.in.rec, f.in.sub), Folder(f.in.rec, "")}
      BY <1>3 DEF TakeFile, Ensured
    <2>2. /\ Folder(f.in.rec, f.in.sub).rec = f.in.rec
          /\ Folder(f.in.rec, "").rec = f.in.rec
      BY FolderFields
    <2> HIDE DEF f
    <2>3. QED
      BY <1>0, <2>1, <2>2 DEF FoldersKept
  <1>4. CASE RemoveFolders
    <2>1. /\ keeper = "clearing"
          /\ folders' = {d \in folders : d.rec.year = victim => Stays(d)}
      BY <1>4 DEF RemoveFolders, KeeperStep
    <2>2. victim \in removed
      BY <2>1 DEF SInv, KeeperInv, Destroying
    <2>3. ASSUME NEW d \in folders' PROVE Folder(d.rec, "") \in folders'
      <3>1. d \in folders /\ (d.rec.year = victim => Stays(d))
        BY <2>1
      <3>2. /\ Folder(d.rec, "") \in folders
            /\ Folder(d.rec, "").rec = d.rec /\ Folder(d.rec, "").sub = ""
        BY <1>0, <3>1, FolderFields
      <3>3. Stays(d) => Stays(Folder(d.rec, ""))
        BY <3>2 DEF Stays
      <3>4. QED
        BY <2>1, <3>1, <3>2, <3>3
    <2>4. QED
      BY <2>1, <2>2, <2>3 DEF FoldersKept
  <1>5. CASE UNCHANGED storeVars
    BY <1>1, <1>5 DEF storeVars, diskVars
  <1>6. CASE Handlers
    BY <1>1, <1>2, <1>6 DEF Handlers, NewYear, CloseRecord, PathChange, diskVars
  <1>7. CASE Saver
    BY <1>1, <1>3, <1>7 DEF Saver, TakeAstray, EnsureThrows, OpenFile, OpenFails, WriteFile,
                            diskVars
  <1>8. CASE Keeper
    BY <1>1, <1>4, <1>8 DEF Keeper, KeeperWakes, Measure, ListYears, NextVictim, PassEnds,
                            RemoveFiles, diskVars
  <1>9. CASE Queueing \/ StartKeeper \/ StopKeeper \/ JoinKeeper
    BY <1>1, <1>9, QueueFrame, MainFrame
  <1>10. ASSUME NEW r \in Readers, Reader(r) PROVE UNCHANGED folders
    BY <1>10, ReaderFrame
  <1>11. QED
    BY <1>1, <1>5, <1>6, <1>7, <1>8, <1>9, <1>10 DEF StoreNext

(* Only readers move readers on; the writer tells them of the file that it opens.         *)
Undisturbed ==
  \A r \in Readers :
    /\ reader'[r].at = reader[r].at /\ reader'[r].rec = reader[r].rec
    /\ reader'[r].subs = reader[r].subs /\ reader'[r].names = reader[r].names
    /\ reader'[r].before = reader[r].before /\ reader'[r].told = reader[r].told
    /\ reader[r].opened \subseteq reader'[r].opened

LEMMA OthersFrame ==
  ASSUME SInv, [StoreNext]_storeVars, ~(\E r \in Readers : Reader(r))
  PROVE  Undisturbed
  <1>1. ASSUME UNCHANGED reader PROVE Undisturbed
    BY <1>1 DEF Undisturbed
  <1>2. CASE UNCHANGED storeVars
    BY <1>1, <1>2 DEF storeVars
  <1>3. CASE OpenFile
    <2>1. SUFFICES ASSUME NEW r \in Readers
                   PROVE  /\ reader'[r].at = reader[r].at /\ reader'[r].rec = reader[r].rec
                          /\ reader'[r].subs = reader[r].subs
                          /\ reader'[r].names = reader[r].names
                          /\ reader'[r].before = reader[r].before
                          /\ reader'[r].told = reader[r].told
                          /\ reader[r].opened \subseteq reader'[r].opened
      BY DEF Undisturbed
    <2>2. reader[r] \in ReaderStates
      BY DEF SInv, StoreTypeOK, ReaderStates
    <2>3. \E more : reader'[r] = [reader[r] EXCEPT !.opened = more]
                    /\ reader[r].opened \subseteq more
      BY <1>3 DEF OpenFile, Opened
    <2>4. QED
      BY <2>2, <2>3 DEF ReaderStates
  <1>4. CASE Saver /\ ~OpenFile
    BY <1>1, <1>4 DEF Saver, TakeFile, TakeAstray, EnsureThrows, OpenFails, WriteFile
  <1>5. CASE Handlers \/ Queueing \/ Keeper \/ StartKeeper \/ StopKeeper \/ JoinKeeper
    BY <1>1, <1>5, HandlerFrame, QueueFrame, KeeperFrame, MainFrame
  <1>6. QED
    BY <1>2, <1>3, <1>4, <1>5 DEF StoreNext

(* What becomes of the readers when one of them moves on.                             *)
LEMMA OneReader ==
  ASSUME SInv, NEW r \in Readers, Reader(r)
  PROVE  \A q \in Readers \ {r} : reader'[q] = reader[q]
  <1>1. reader \in [Readers -> ReaderStates]
    BY DEF SInv, StoreTypeOK, ReaderStates
  <1>2. (\E next : reader' = [reader EXCEPT ![r] = next]) \/ UNCHANGED reader
    BY DEF Reader, HistoryBegin, RecordBegin, ListFolders, CountFolder, HistoryEnd, RecordNames,
           RecordRead, RecordEnd, ReaderStep
  <1>3. QED
    BY <1>1, <1>2

FoundFor(state) ==
  /\ state.at = "listed" /\ state.rec.year \notin removed =>
       Folder(state.rec, "") \in folders
  /\ state.at = "folders" /\ state.rec.year \notin removed =>
       \A sub \in state.subs : Folder(state.rec, sub) \in folders

LEMMA FolderInvStep ==
  ASSUME SInv, FolderInv, [StoreNext]_storeVars
  PROVE  FolderInv'
  <1>1. FoldersKept /\ removed \subseteq removed'
    BY FoldersStep, KeeperInvStep
  <1>2. ASSUME Undisturbed PROVE FolderInv'
    <2>1. ASSUME NEW rec, NEW sub, rec.year \notin removed', Folder(rec, sub) \in folders
          PROVE  Folder(rec, sub) \in folders'
      BY <1>1, <2>1, FolderFields DEF FoldersKept
    <2>2. QED
      BY <1>1, <1>2, <2>1 DEF FolderInv, FoldersKept, Undisturbed
  <1>3. ASSUME NEW r \in Readers, Reader(r) PROVE FolderInv'
    <2>0. UNCHANGED <<folders, removed>>
      BY <1>3, ReaderFrame
    <2>1. reader[r] \in ReaderStates /\ FoundFor(reader[r])
      BY DEF SInv, StoreTypeOK, ReaderStates, FolderInv, FoundFor
    <2>2. FoundFor(reader'[r])
      <3>0. reader \in [Readers -> ReaderStates]
        BY DEF SInv, StoreTypeOK, ReaderStates
      <3>1. ASSUME NEW rec \in Records, HistoryBegin(r, rec) PROVE FoundFor(reader'[r])
        <4>1. PICK d \in folders : d.rec = rec
          BY <3>1 DEF HistoryBegin, Recorded
        <4>2. Folder(rec, "") \in folders
          BY <4>1 DEF FolderInv
        <4>3. reader'[r].at = "listed" /\ reader'[r].rec = rec
          BY <3>0, <3>1 DEF HistoryBegin, ReaderStep, NotReading
        <4>4. QED
          BY <4>2, <4>3 DEF FoundFor
      <3>2. CASE ListFolders(r)
        <4>1. /\ reader[r].at = "listed" /\ reader'[r].at = "folders"
              /\ reader'[r].rec = reader[r].rec
              /\ reader'[r].subs = StereoDirs(reader[r].rec)
          BY <2>1, <3>0, <3>2 DEF ListFolders, ReaderStep, ReaderStates
        <4>2. reader[r].rec.year \notin removed =>
                \A sub \in StereoDirs(reader[r].rec) : Folder(reader[r].rec, sub) \in folders
          <5>1. ASSUME NEW sub \in StereoDirs(reader[r].rec), reader[r].rec.year \notin removed
                PROVE  Folder(reader[r].rec, sub) \in folders
            <6>1. CASE reader[r].rec.kind = "Inspection"
              BY <5>1, <6>1 DEF StereoDirs
            <6>2. CASE reader[r].rec.kind # "Inspection"
              <7>1. sub = ""
                BY <5>1, <6>2 DEF StereoDirs, StereoFolders
              <7>2. QED
                BY <2>1, <4>1, <5>1, <7>1 DEF FoundFor
            <6>3. QED
              BY <6>1, <6>2
          <5>2. QED
            BY <5>1
        <4>3. QED
          BY <4>1, <4>2 DEF FoundFor
      <3>3. CASE CountFolder(r)
        <4>1. \/ UNCHANGED reader
              \/ /\ reader[r].at = "folders"
                 /\ \E sub \in reader[r].subs :
                      reader' = [reader EXCEPT ![r] = [reader[r] EXCEPT !.subs = @ \ {sub}]]
          BY <3>3 DEF CountFolder, ReaderStep
        <4>2. /\ reader'[r].at = reader[r].at /\ reader'[r].rec = reader[r].rec
              /\ reader'[r].subs \subseteq reader[r].subs
          BY <2>1, <3>0, <4>1 DEF ReaderStates
        <4>3. QED
          BY <2>1, <4>2 DEF FoundFor
      <3>4. ASSUME reader'[r].at \in {"idle", "names"} PROVE FoundFor(reader'[r])
        BY <3>4 DEF FoundFor
      <3>5. ASSUME NEW rec \in Records, RecordBegin(r, rec) PROVE reader'[r].at = "names"
        BY <3>0, <3>5 DEF RecordBegin, ReaderStep, NotReading
      <3>6. CASE HistoryEnd(r) \/ RecordEnd(r)
        <4>1. reader'[r].at = "idle"
          BY <3>0, <3>6 DEF HistoryEnd, RecordEnd, ReaderStep, NotReading
        <4>2. QED
          BY <3>4, <4>1
      <3>7. CASE RecordNames(r) \/ RecordRead(r)
        <4>1. reader[r].at = "names" /\ \E names, subs, told :
                reader' = [reader EXCEPT ![r] = [reader[r] EXCEPT !.names = names]]
                \/ reader' = [reader EXCEPT ![r] = [reader[r] EXCEPT !.names = names,
                                                                      !.told = told]]
                \/ reader' = [reader EXCEPT ![r] = [reader[r] EXCEPT !.subs = subs,
                                                                      !.names = names]]
          BY <3>7 DEF RecordNames, RecordRead, ReaderStep
        <4>2. reader'[r].at = "names"
          BY <2>1, <3>0, <4>1 DEF ReaderStates
        <4>3. QED
          BY <3>4, <4>2
      <3>8. QED
        BY <1>3, <3>1, <3>2, <3>3, <3>4, <3>5, <3>6, <3>7 DEF Reader
    <2>3. \A q \in Readers : FoundFor(reader'[q])
      <3>1. \A q \in Readers : FoundFor(reader[q])
        BY DEF FolderInv, FoundFor
      <3>2. QED
        BY <1>3, <2>2, <3>1, OneReader
    <2>4. QED
      BY <2>0, <2>3 DEF FolderInv, FoundFor
  <1>4. QED
    BY <1>2, <1>3, OthersFrame

(* What a record was created with stays until its year is removed.                        *)
LEMMA KeptStep ==
  ASSUME SInv, FolderInv, KeptInv, [StoreNext]_storeVars
  PROVE  KeptInv'
  <1>1. FoldersKept /\ removed \subseteq removed'
    BY FoldersStep, KeeperInvStep
  <1>2. ASSUME NEW rec, Kept(rec)
        PROVE  rec # NoneActive /\ rec.year \notin removed' => Created(rec) \subseteq folders'
    <2>1. \A d \in Created(rec) : d.rec = rec
      BY CreatedFields
    <2>2. QED
      BY <1>1, <1>2, <2>1 DEF Kept, FoldersKept
  <1>3. toSave \in Seq(Files \cup {NoFile})
    BY DEF SInv, StoreTypeOK
  <1>4. ASSUME \A i \in 1..Len(toSave') : \/ Kept(toSave'[i].in.rec)
                                          \/ toSave'[i].in.rec = NoneActive,
               Kept(left')
               \/ left' = NoneActive,
               Kept(active') \/ active' = NoneActive
        PROVE  KeptInv'
    BY <1>2, <1>4 DEF KeptInv, Kept
  <1>5. Kept(active) /\ Kept(left) /\ \A i \in 1..Len(toSave) : Kept(toSave[i].in.rec)
    BY DEF KeptInv
  <1>6. CASE UNCHANGED <<active, left, toSave>>
    BY <1>4, <1>5, <1>6
  <1>7. CASE Handlers
    <2>1. UNCHANGED toSave /\ removed' = removed
      BY <1>7, HandlerFrame
    <2>2. ASSUME NEW kind \in RecordKinds, CreateRecord(kind) PROVE KeptInv'
      <3>1. left' = left /\ Created(active') \subseteq folders'
        BY <2>2 DEF CreateRecord
      <3>2. active' # NoneActive /\ active'.year \notin removed' =>
              Created(active') \subseteq folders'
        BY <3>1
      <3>3. QED
        BY <1>2, <1>5, <2>1, <3>1, <3>2 DEF KeptInv, Kept
    <2>3. CASE CloseRecord
      <3>1. active' = NoneActive /\ left' \in {NoneActive, active}
        BY <2>3 DEF CloseRecord
      <3>2. QED
        BY <1>4, <1>5, <2>1, <3>1
    <2>4. CASE NewYear
      BY <1>6, <2>1, <2>4 DEF NewYear, pathVars
    <2>5. ASSUME NEW kind \in RecordKinds, CreateFails(kind) PROVE KeptInv'
      BY <1>6, <2>1, <2>5 DEF CreateFails
    <2>6. QED
      BY <1>7, <2>2, <2>3, <2>4, <2>5 DEF Handlers
  <1>8. CASE Queueing
    <2>1. UNCHANGED <<active, left>>
      BY <1>8, QueueFrame
    <2>2. ASSUME NEW sub \in FiledFolders, NEW n \in Numbers, QueueFile(sub, n) PROVE KeptInv'
      <3> DEFINE f == FileOf(Copy(tested), sub, n)
      <3>1. toSave' = Append(toSave, f)
        BY <2>2 DEF QueueFile
      <3>2. f \in Files \cup {NoFile} /\ (f.in.rec = NoneActive \/ Kept(f.in.rec))
        <4>1. Copy(tested) \in Records \cup {NoneActive} /\ Copy(tested) \in {active, left}
          BY DEF Copy, SInv, StoreTypeOK
        <4>2. Copy(tested) \in Records => f \in Files /\ f.in.rec = Copy(tested)
          <5>1. Copy(tested) \in Records => Copy(tested) # NoneActive
            <6>1. NoYear \notin Years
              BY YearAssumption DEF NoYear, Years
            <6>2. QED
              BY <6>1 DEF NoneActive, Records
          <5>2. sub \in FolderNames
            BY FolderAssumption DEF FolderNames
          <5>3. Copy(tested) \in Records => Folder(Copy(tested), sub) \in RecordFolders
            BY <5>2, RecordTyped
          <5>4. QED
            BY <5>1, <5>3, FolderFields DEF FileOf, Files
        <4>3. Copy(tested) = NoneActive => f = NoFile
          BY DEF FileOf
        <4>4. NoFile.in.rec = NoneActive
          BY FolderFields DEF NoFile
        <4>5. QED
          BY <1>5, <4>1, <4>2, <4>3, <4>4
      <3> HIDE DEF f
      <3>3. ASSUME NEW i \in 1..Len(toSave')
            PROVE  Kept(toSave'[i].in.rec) \/ toSave'[i].in.rec = NoneActive
        <4>1. Len(toSave') = Len(toSave) + 1
          BY <1>3, <3>1, <3>2, AppendProperties
        <4>2. CASE i \in 1..Len(toSave)
          <5>1. toSave'[i] = toSave[i]
            BY <1>3, <3>1, <3>2, <4>2, AppendProperties
          <5>2. QED
            BY <1>5, <4>2, <5>1
        <4>3. CASE i = Len(toSave) + 1
          <5>1. toSave'[i] = f
            BY <1>3, <3>1, <3>2, <4>3, AppendProperties
          <5>2. QED
            BY <3>2, <5>1
        <4>4. Len(toSave) \in Nat
          BY <1>3, LenProperties
        <4>5. QED
          BY <4>1, <4>2, <4>3, <4>4
      <3>4. QED
        BY <1>4, <1>5, <2>1, <3>3
    <2>3. ASSUME NEW copy \in {"path", "active"}, TestCopy(copy) PROVE KeptInv'
      BY <1>6, <2>1, <2>3 DEF TestCopy
    <2>4. CASE QueueEnds
      BY <1>6, <2>1, <2>4 DEF QueueEnds
    <2>5. QED
      BY <1>8, <2>2, <2>3, <2>4 DEF Queueing
  <1>9. CASE Saver
    <2>1. UNCHANGED <<active, left>>
      BY <1>9, SaverFrame
    <2>2. UNCHANGED toSave \/ (toSave # << >> /\ toSave' = Tail(toSave))
      BY <1>9 DEF Saver, TakeFile, TakeAstray, EnsureThrows, OpenFile, OpenFails, WriteFile,
                  clientVars
    <2>3. CASE toSave # << >> /\ toSave' = Tail(toSave)
      <3>1. ASSUME NEW i \in 1..Len(toSave')
            PROVE  Kept(toSave'[i].in.rec)
        <4>1. Len(toSave') = Len(toSave) - 1 /\ Len(toSave) \in Nat /\ Len(toSave) >= 1
          BY <1>3, <2>3, HeadTailProperties, EmptySeq, LenProperties
        <4>2. i + 1 \in 1..Len(toSave) /\ i \in 1..Len(Tail(toSave))
          BY <2>3, <4>1
        <4>3. toSave'[i] = toSave[i + 1]
          BY <1>3, <2>3, <4>2, HeadTailProperties
        <4>4. QED
          BY <1>5, <4>2, <4>3
      <3>2. QED
        BY <1>4, <1>5, <2>1, <3>1
    <2>4. QED
      BY <1>6, <2>1, <2>2, <2>3
  <1>10. CASE Keeper \/ StartKeeper \/ StopKeeper \/ JoinKeeper \/ UNCHANGED storeVars
    BY <1>6, <1>10, KeeperFrame, MainFrame DEF storeVars, clientVars, pathVars
  <1>11. ASSUME NEW r \in Readers, Reader(r) PROVE KeptInv'
    BY <1>6, <1>11, ReaderFrame
  <1>12. QED
    BY <1>7, <1>8, <1>9, <1>10, <1>11 DEF StoreNext

LEMMA CrashStep ==
  ASSUME SInv, FolderInv, KeptInv, CrashCauses, [StoreNext]_storeVars
  PROVE  CrashCauses'
  <1>0. removed \subseteq removed'
    BY KeeperInvStep
  <1>1. CASE UNCHANGED storeVars
    BY <1>1 DEF CrashCauses, storeVars, passVars
  <1>2. CASE StoreNext
    <2>0. crashed = "no"
      BY <1>2 DEF StoreNext
    <2>1. CASE EnsureThrows
      <3> DEFINE f == Head(toSave)
      <3>1. /\ toSave # << >> /\ (f.in \notin folders \/ Removing(f.in.rec.year))
            /\ crashed' = "saver" /\ saver'.file = f /\ removed' = removed
        BY <2>1 DEF EnsureThrows, passVars
      <3>2. CASE Removing(f.in.rec.year)
        <4>1. keeper \in Destroying /\ victim = f.in.rec.year
          BY <3>2 DEF Removing, Destroying
        <4>2. f.in.rec.year \in removed
          BY <4>1 DEF SInv, KeeperInv
        <4> HIDE DEF f
        <4>3. QED
          BY <3>1, <4>2 DEF CrashCauses
      <3>3. CASE f.in \notin folders /\ f # NoFile /\ f.in.rec.year \notin removed
        <4>1. f.in.rec \in Records
          BY <3>1, <3>3, HeadFile DEF SInv
        <4>2. f.in.rec # NoneActive
          <5>1. NoYear \notin Years
            BY YearAssumption DEF NoYear, Years
          <5>2. QED
            BY <4>1, <5>1 DEF NoneActive, Records
        <4>3. Kept(f.in.rec)
          <5>1. toSave \in Seq(Files \cup {NoFile})
            BY DEF SInv, StoreTypeOK
          <5>2. 1 \in 1..Len(toSave) /\ f = toSave[1]
            BY <3>1, <5>1, HeadTailProperties, EmptySeq, LenProperties
          <5>3. QED
            BY <5>2 DEF KeptInv
        <4>4. f.in \notin Created(f.in.rec)
          BY <3>3, <4>2, <4>3 DEF Kept
        <4> HIDE DEF f
        <4>5. QED
          BY <3>1, <4>4 DEF CrashCauses
      <3>4. CASE f = NoFile \/ f.in.rec.year \in removed
        <4> HIDE DEF f
        <4>1. QED
          BY <3>1, <3>4 DEF CrashCauses
      <3>5. QED
        BY <3>1, <3>2, <3>3, <3>4
    <2>2. ASSUME NEW r \in Readers, CountFolder(r), ~UNCHANGED crashed
          PROVE  CrashCauses'
      <3>1. PICK sub \in reader[r].subs :
              /\ Folder(reader[r].rec, sub) \notin folders
              /\ reader[r].at = "folders" /\ crashed' = "reader"
              /\ reader' = reader
        BY <2>2 DEF CountFolder
      <3>2. removed' = removed
        BY <2>2 DEF CountFolder, passVars
      <3>3. reader[r].rec.year \in removed
        BY <3>1 DEF FolderInv
      <3>4. QED
        BY <3>1, <3>2, <3>3 DEF CrashCauses
    <2>3. ASSUME UNCHANGED crashed PROVE CrashCauses'
      BY <2>0, <2>3 DEF CrashCauses
    <2>4. CASE Handlers \/ Queueing \/ Keeper \/ StartKeeper \/ StopKeeper \/ JoinKeeper
      BY <2>3, <2>4, HandlerFrame, QueueFrame, KeeperFrame, MainFrame
    <2>5. CASE Saver
      BY <2>1, <2>3, <2>5 DEF Saver, TakeFile, TakeAstray, OpenFile, OpenFails, WriteFile
    <2>6. ASSUME NEW r \in Readers, Reader(r) PROVE CrashCauses'
      BY <2>2, <2>3, <2>6 DEF Reader, HistoryBegin, RecordBegin, ListFolders, HistoryEnd,
         RecordNames, RecordRead, RecordEnd
    <2>7. QED
      BY <1>2, <2>4, <2>5, <2>6 DEF StoreNext
  <1>3. QED
    BY <1>1, <1>2

-----------------------------------------------------------------------------
(* What GetRecord tells.                                                     *)

Telling(state) ==
  /\ state.told \subseteq stored
  /\ state.at = "names" /\ state.rec.year \notin removed =>
       \A f \in state.before :
         /\ f.in.rec = state.rec
         /\ \/ f \in state.told \cup state.opened
            \/ f \in whole /\ (f \in state.names \/ f.in.sub \in state.subs)

LEMMA OpenIsNoted ==
  ASSUME SInv, OpenFile, NEW r \in Readers, reader[r].at = "names"
  PROVE  saver.file \in reader'[r].opened
  <1>1. reader[r] \in ReaderStates
    BY DEF SInv, StoreTypeOK, ReaderStates
  <1>2. reader'[r] = [reader[r] EXCEPT !.opened = reader[r].opened \cup {saver.file}]
    BY DEF OpenFile, Opened
  <1>3. QED
    BY <1>1, <1>2 DEF ReaderStates

LEMMA NamesStep ==
  ASSUME SInv, NamesInv, [StoreNext]_storeVars
  PROVE  NamesInv'
  <1>1. /\ removed \subseteq removed' /\ stored \subseteq stored'
        /\ OpenFile \/ \A f \in whole \ whole' : f.in.rec.year \in removed
    BY KeeperInvStep, WholeStep
  <1>2. ASSUME Undisturbed PROVE NamesInv'
    <2>1. SUFFICES ASSUME NEW r \in Readers, reader[r].at = "names",
                          reader[r].rec.year \notin removed', NEW f \in reader[r].before
                   PROVE  /\ f.in.rec = reader[r].rec
                          /\ \/ f \in reader[r].told \cup reader'[r].opened
                             \/ /\ f \in whole'
                                /\ f \in reader[r].names \/ f.in.sub \in reader[r].subs
      BY <1>1, <1>2 DEF NamesInv, ToBeRead, Undisturbed
    <2>2. ToBeRead(r, f)
      BY <1>1, <2>1 DEF NamesInv
    <2>3. reader[r].opened \subseteq reader'[r].opened
      BY <1>2 DEF Undisturbed
    <2>4. f \in whole => f \in whole' \/ f \in reader'[r].opened
      <3>1. CASE OpenFile
        BY <2>1, <3>1, OpenIsNoted DEF OpenFile
      <3>2. CASE ~OpenFile
        BY <1>1, <2>1, <2>2, <3>2 DEF ToBeRead
      <3>3. QED
        BY <3>1, <3>2
    <2>5. QED
      BY <2>2, <2>3, <2>4 DEF ToBeRead
  <1>3. ASSUME NEW r \in Readers, Reader(r) PROVE NamesInv'
    <2>0. UNCHANGED <<whole, stored, removed, files>>
          /\ whole \subseteq stored /\ whole \subseteq files
      BY <1>3, ReaderFrame DEF SInv, StoreTypeOK, Standing
    <2>1. reader[r] \in ReaderStates /\ reader \in [Readers -> ReaderStates]
      BY DEF SInv, StoreTypeOK, ReaderStates
    <2>2. \A q \in Readers : Telling(reader[q])
      BY DEF NamesInv, ToBeRead, Telling
    <2>3. Telling(reader'[r])
      <3>1. ASSUME reader'[r].at # "names", reader'[r].told \subseteq stored
            PROVE  Telling(reader'[r])
        BY <3>1 DEF Telling
      <3>2. ASSUME NEW rec \in Records, RecordBegin(r, rec) PROVE Telling(reader'[r])
        <4>1. /\ reader'[r].rec = rec /\ reader'[r].told = {}
              /\ reader'[r].before = {f \in whole : f.in.rec = rec}
              /\ reader'[r].subs = ReadFolders
          BY <2>1, <3>2 DEF RecordBegin, ReaderStep, NotReading
        <4>2. \A f \in whole : f.in.sub \in ReadFolders
          BY DEF SInv, StoreTypeOK, Standing, Files, RecordFolders, ReadFolders
        <4>3. QED
          BY <4>1, <4>2 DEF Telling
      <3>3. CASE RecordNames(r)
        <4>1. PICK sub \in reader[r].subs :
                reader' = [reader EXCEPT ![r] =
                             [reader[r] EXCEPT !.subs = @ \ {sub},
                                !.names = {f \in files : f.in = Folder(reader[r].rec, sub)}]]
          BY <3>3 DEF RecordNames, ReaderStep
        <4>2. /\ reader[r].names = {} /\ reader[r].at = "names"
          BY <3>3 DEF RecordNames, ReaderStep
        <4>3. /\ reader'[r].rec = reader[r].rec /\ reader'[r].before = reader[r].before
              /\ reader'[r].told = reader[r].told /\ reader'[r].opened = reader[r].opened
              /\ reader'[r].subs = reader[r].subs \ {sub}
              /\ reader'[r].names = {f \in files : f.in = Folder(reader[r].rec, sub)}
          BY <2>1, <4>1 DEF ReaderStates
        <4>4. ASSUME NEW f \in whole, f.in.rec = reader[r].rec, f.in.sub = sub
              PROVE  f \in reader'[r].names
          <5>1. f.in \in RecordFolders
            BY DEF SInv, StoreTypeOK, Standing, Files
          <5>2. f.in = Folder(reader[r].rec, sub)
            BY <4>4, <5>1 DEF Folder, RecordFolders
          <5>3. QED
            BY <2>0, <4>3, <5>2
        <4>5. QED
          BY <2>2, <4>2, <4>3, <4>4 DEF Telling
      <3>4. CASE RecordRead(r)
        <4>1. PICK f \in reader[r].names :
                reader' = [reader EXCEPT ![r] =
                  [reader[r] EXCEPT !.names = @ \ {f}, !.told = @ \cup ({f} \cap whole)]]
          BY <3>4 DEF RecordRead, ReaderStep
        <4>2. /\ reader'[r].rec = reader[r].rec /\ reader'[r].before = reader[r].before
              /\ reader'[r].told = reader[r].told \cup ({f} \cap whole)
              /\ reader'[r].opened = reader[r].opened
              /\ reader'[r].subs = reader[r].subs
              /\ reader'[r].names = reader[r].names \ {f}
          BY <2>1, <4>1 DEF ReaderStates
        <4>3. reader[r].at = "names"
          BY <3>4 DEF RecordRead, ReaderStep
        <4>4. QED
          BY <2>0, <2>2, <4>2, <4>3 DEF Telling
      <3>5. ASSUME NEW rec \in Records, HistoryBegin(r, rec) PROVE Telling(reader'[r])
        <4>1. reader'[r].at = "listed" /\ reader'[r].told = {}
          BY <2>1, <3>5 DEF HistoryBegin, ReaderStep, NotReading
        <4>2. QED
          BY <3>1, <4>1
      <3>6. CASE ListFolders(r) \/ CountFolder(r)
        <4>1. reader'[r].at # "names" /\ reader'[r].told = reader[r].told
          BY <2>1, <3>6 DEF ListFolders, CountFolder, ReaderStep, ReaderStates
        <4>2. QED
          BY <2>2, <3>1, <4>1 DEF Telling
      <3>7. CASE HistoryEnd(r) \/ RecordEnd(r)
        <4>1. reader'[r].at = "idle" /\ reader'[r].told = {}
          BY <2>1, <3>7 DEF HistoryEnd, RecordEnd, ReaderStep, NotReading
        <4>2. QED
          BY <3>1, <4>1
      <3>8. QED
        BY <1>3, <3>2, <3>3, <3>4, <3>5, <3>6, <3>7 DEF Reader
    <2>4. \A q \in Readers : Telling(reader'[q])
      BY <1>3, <2>2, <2>3, OneReader
    <2>5. QED
      BY <2>0, <2>4 DEF NamesInv, ToBeRead, Telling
  <1>4. QED
    BY <1>2, <1>3, OthersFrame

LEMMA NamesTell == NamesInv => RecordTold
  BY DEF NamesInv, ToBeRead, RecordTold, Answered

-----------------------------------------------------------------------------
LEMMA StoreInitially ==
  StoreInit => SInv /\ SavedUnlessExcess /\ FolderInv /\ KeptInv /\ CrashCauses /\ NamesInv
  <1> SUFFICES ASSUME StoreInit
               PROVE  SInv /\ SavedUnlessExcess /\ FolderInv /\ KeptInv /\ CrashCauses /\ NamesInv
    OBVIOUS
  <1>1. StoreTypeOK
    <2>1. year \in Years /\ queued \in 0..MaxSaves /\ size \in Nat
      BY YearAssumption, SizeAssumption DEF StoreInit, Years
    <2>2. toSave \in Seq(Files \cup {NoFile})
      BY DEF StoreInit
    <2>3. reader \in [Readers -> ReaderStates]
      BY NotReadingTyped DEF StoreInit
    <2>4. /\ active = NoneActive /\ left = NoneActive /\ tested = "no"
          /\ folders = {} /\ files = {} /\ whole = {} /\ stored = {}
          /\ keeping = "new" /\ keeper = "none" /\ yearDirs = {} /\ victim = NoYear
          /\ excess = {} /\ removed = {} /\ crashed = "no"
          /\ saver = [at |-> "idle", file |-> NoFile]
      BY DEF StoreInit
    <2>5. QED
      BY <2>1, <2>2, <2>3, <2>4 DEF StoreTypeOK, ReaderStates, Standing
  <1>2. KeeperInv
    BY FS_EmptySet DEF StoreInit, KeeperInv, Destroying, Standing
  <1>3. SavedUnlessExcess /\ CrashCauses
    BY DEF StoreInit, SavedUnlessExcess, CrashCauses
  <1>4. FolderInv /\ NamesInv
    BY DEF StoreInit, FolderInv, NamesInv, NotReading
  <1>5. KeptInv
    BY DEF StoreInit, KeptInv, Kept
  <1>6. QED
    BY <1>1, <1>2, <1>3, <1>4, <1>5 DEF SInv

(* Every variable of the store keeps its type.                                  *)
THEOREM StoreTypeCorrect == StoreSpec => []StoreTypeOK
  <1>1. StoreInit => SInv
    BY StoreInitially
  <1>2. SInv => StoreTypeOK
    BY DEF SInv
  <1>3. QED
    BY <1>1, <1>2, SInvStep, PTL DEF StoreSpec

(* For any number of years and any limit: HouseKeeper takes what was saved only of a      *)
(* year that had to go, and what is not whole otherwise is being written over.          *)
THEOREM OnlyExcessGoes == StoreSpec => []SavedUnlessExcess
  <1>1. StoreInit => SInv /\ SavedUnlessExcess
    BY StoreInitially
  <1>2. QED
    BY <1>1, SInvStep, SavedStep, PTL DEF StoreSpec

(* For any number of readers: a directory ends Core only when a year was removed, a stop   *)
(* emptied the path under the dealer's hands, or a file is for a folder that its record     *)
(* was not created with; and readers only by the first.                               *)
THEOREM CrashesExplained == StoreSpec => []CrashCauses
  <1>1. StoreInit => SInv /\ FolderInv /\ KeptInv /\ CrashCauses
    BY StoreInitially
  <1>2. SInv /\ FolderInv /\ KeptInv /\ CrashCauses /\ [StoreNext]_storeVars
          => SInv' /\ FolderInv' /\ KeptInv' /\ CrashCauses'
    BY SInvStep, FolderInvStep, KeptStep, CrashStep
  <1>3. QED
    BY <1>1, <1>2, PTL DEF StoreSpec

(* For any number of readers: GetRecord tells what was whole when it was called and was    *)
(* not written over meanwhile, and nothing that was never whole.                        *)
THEOREM SavedIsTold == StoreSpec => []RecordTold
  <1>1. StoreInit => SInv /\ NamesInv
    BY StoreInitially
  <1>2. SInv /\ NamesInv /\ [StoreNext]_storeVars => SInv' /\ NamesInv'
    BY SInvStep, NamesStep
  <1>3. QED
    BY <1>1, <1>2, NamesTell, PTL DEF StoreSpec
=============================================================================
