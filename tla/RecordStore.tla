------------------------------ MODULE RecordStore ------------------------------
(***************************************************************************)
(* The records on disk, <root>/<year>/<month>/<day>/<record>/<sub-folder>, and    *)
(* the four that use them at once without a lock: handlers that create a record,   *)
(* the writer thread that saves files and creates again what is missing of their    *)
(* path, HouseKeeper that removes whole years, the oldest first, while the store     *)
(* is over its limit, and the workers that read it for GetHistory and GetRecord.     *)
(*                                                                         *)
(* The records of one year and one kind are one record here, every file has the      *)
(* same size, and a file is a folder and an index: what is saved twice under one        *)
(* index is written over, as the Stereo and AI files of replies without a pair are,      *)
(* which all have index 0.  The order and loss of requests are in DatabaseWriter, whose   *)
(* queue is here only what was queued and not yet taken.  remove_all is two steps, the    *)
(* files and then the directories.  Counts, averages, GetImage, which reads one file as    *)
(* it is, the images that process_pair_ saves itself in File mode, and writes that fail    *)
(* on a full disk are left out.                                               *)
(***************************************************************************)
EXTENDS Naturals, Sequences, FiniteSets

CONSTANTS
  FirstYear, LastYear,   \* the years the clock shows
  RecordKinds,           \* the kinds of record: "Inspection" and "AI Test"
  SubFolders,            \* the sub-folders of an inspection: three in the code
  FiledFolders,          \* those that files are queued for, and "", the record's own directory
  MaxSize,               \* max_size_gb_, in files
  Numbers,               \* the indices of files
  MaxSaves,              \* bound: files queued
  MaxWaiting,            \* bound: files that wait at once
  Readers                \* workers that read

ASSUME YearAssumption == FirstYear \in Nat /\ LastYear \in Nat /\ FirstYear <= LastYear
ASSUME FolderAssumption ==
  /\ RecordKinds \subseteq {"Inspection", "AI Test"}
  /\ SubFolders \subseteq {"installation", "inspection", "marking"}
  /\ FiledFolders \subseteq {""} \cup (SubFolders \ {"marking"})  \* marking: under inspection
ASSUME SizeAssumption ==
  /\ MaxSize \in Nat /\ MaxSaves \in Nat /\ MaxWaiting \in Nat
  /\ Numbers \subseteq Nat /\ IsFiniteSet(Numbers)

VARIABLES
  year,          \* the wall clock
  active,        \* active_record_, the manager's copy of the record's path, and
                 \* PreprocessModule's active_record_path_ as long as there is one
  left,          \* what active_record_path_ is otherwise
  tested,        \* whose copy the dealer thread has tested and now reads for each file
  toSave,        \* the files queued and not yet taken, in their order
  queued,        \* history: the number of files queued
  saver,         \* the writer thread: where it is, and the file in its hands
  folders,       \* the directories that exist
  files,         \* the files that exist
  whole,         \* those of them that are written to their end
  stored,         \* history: every file that was ever whole
  keeping,       \* what main has done with HouseKeeper: nothing, started, stopped, joined
  keeper,        \* run_ and do_housekeep_: where it is
  size,          \* current_size
  yearDirs,      \* year_dirs
  victim,        \* oldest
  excess,        \* history: the years that had to go
  removed,       \* history: the years whose removal was begun
  reader,        \* a worker that reads
  crashed        \* an exception has left a thread: std::terminate

pathVars == <<active, left, tested>>
clientVars == <<year, pathVars, toSave, queued>>
diskVars == <<folders, files, whole, stored>>
passVars == <<size, yearDirs, victim, excess, removed>>
storeVars == <<clientVars, saver, diskVars, keeping, keeper, passVars, reader, crashed>>

Years == FirstYear..LastYear
Records == [year : Years, kind : RecordKinds]
\* A record's own directory is its folder "".
FolderNames == SubFolders \cup {""}
RecordFolders == [rec : Records, sub : FolderNames]
Files == [in : RecordFolders, n : Numbers]
Folder(rec, sub) == [rec |-> rec, sub |-> sub]

NoYear == LastYear + 1
NoneActive == [year |-> NoYear, kind |-> "none"]
\* No file, and the file whose path begins with an empty record path.
NoFile == [in |-> Folder(NoneActive, ""), n |-> 0]
NotReading == [at |-> "idle", rec |-> NoneActive, subs |-> {},
         before |-> {}, names |-> {}, told |-> {}, opened |-> {}]

\* What there is of a set of folders or of files in year y
FoldersOf(y) == {d \in folders : d.rec.year = y}
FilesOf(y) == {f \in files : f.in.rec.year = y}
\* The files that were whole and stand, also while they are written over
Standing == files \cap stored
Recorded == {d.rec : d \in folders}
Removing(y) == keeper \in {"removing", "clearing"} /\ victim = y

StoreTypeOK ==
  /\ year \in Years /\ {active, left} \subseteq Records \cup {NoneActive}
  /\ tested \in {"no", "active", "path"}
  /\ toSave \in Seq(Files \cup {NoFile}) /\ queued \in 0..MaxSaves
  /\ saver \in [at : {"idle", "opening", "writing"}, file : Files \cup {NoFile}]
  /\ folders \subseteq RecordFolders /\ files \subseteq Files
  /\ whole \subseteq Standing /\ stored \subseteq Files
  /\ keeping \in {"new", "on", "stopping", "joined"}
  /\ keeper \in {"none", "waiting", "measuring", "listing", "cleaning", "removing",
                 "clearing"}
  /\ size \in Nat /\ yearDirs \subseteq Years /\ victim \in Years \cup {NoYear}
  /\ excess \subseteq Years /\ removed \subseteq Years
  /\ reader \in [Readers -> [at : {"idle", "listed", "folders", "names"},
                             rec : Records \cup {NoneActive},
                             subs : SUBSET FolderNames, before : SUBSET Files,
                             names : SUBSET Files, told : SUBSET Files,
                             opened : SUBSET Files]]
  /\ crashed \in {"no", "saver", "reader"}

StoreInit ==
  /\ year = FirstYear /\ active = NoneActive /\ left = NoneActive
  /\ tested = "no"
  /\ toSave = <<>> /\ queued = 0
  /\ saver = [at |-> "idle", file |-> NoFile]
  /\ folders = {} /\ files = {} /\ whole = {} /\ stored = {}
  /\ keeping = "new" /\ keeper = "none"
  /\ size = 0 /\ yearDirs = {} /\ victim = NoYear
  /\ excess = {} /\ removed = {}
  /\ reader = [r \in Readers |-> NotReading]
  /\ crashed = "no"

-----------------------------------------------------------------------------
(* Handlers and the dealer thread.                                           *)

NewYear ==
  /\ year < LastYear
  /\ year' = year + 1
  /\ UNCHANGED <<pathVars, toSave, queued, saver, diskVars, keeping, keeper, passVars, reader,
                 crashed>>

\* ensure_subdirs_ for an inspection, ensure_dir_ for an AI test
Created(rec) ==
  {Folder(rec, sub) :
     sub \in {""} \cup IF rec.kind = "Inspection" THEN SubFolders \ {"marking"} ELSE {}}

PathChange == UNCHANGED <<year, tested, toSave, queued, saver, files, whole, stored, keeping,
                          keeper, passVars, reader, crashed>>

\* StartInspection and StartAITest, of which one at a time is active.
CreateRecord(kind) ==
  /\ active = NoneActive
  /\ active' = [year |-> year, kind |-> kind]
  /\ folders' = folders \cup Created(active')
  /\ PathChange /\ UNCHANGED left

\* create_directories throws part way, the handler answers with an error.
CreateFails(kind) ==
  /\ active = NoneActive
  /\ \E part \in SUBSET Created([year |-> year, kind |-> kind]) :
       /\ Folder([year |-> year, kind |-> kind], "") \in part
       /\ folders' = folders \cup part
  /\ PathChange /\ UNCHANGED <<active, left>>

\* StopInspection and StopAITest; stop_ai_test leaves active_record_path_ as it is.
CloseRecord ==
  /\ active # NoneActive
  /\ active' = NoneActive
  /\ left' = IF active.kind = "Inspection" THEN NoneActive ELSE active
  /\ PathChange /\ UNCHANGED folders

(* The dealer thread: on_ai_result_ files under PreprocessModule's copy, then process    *)
(* and process_ai_test under the manager's.  Each tests its copy once, and reads it        *)
(* again for every file, without a lock.  A copy torn by a change counts as empty.        *)
Copy(copy) == IF copy = "path" /\ active = NoneActive THEN left ELSE active

QueueStep ==
  UNCHANGED <<year, active, left, saver, diskVars, keeping, keeper, passVars, reader,
              crashed>>

TestCopy(copy) ==
  /\ tested = "no" /\ Copy(copy) # NoneActive
  /\ tested' = copy
  /\ QueueStep /\ UNCHANGED <<toSave, queued>>

FileOf(rec, sub, n) == IF rec = NoneActive THEN NoFile ELSE [in |-> Folder(rec, sub), n |-> n]

QueueFile(sub, n) ==
  /\ tested # "no"
  /\ queued < MaxSaves /\ Len(toSave) < MaxWaiting
  /\ queued' = queued + 1
  /\ toSave' = Append(toSave, FileOf(Copy(tested), sub, n))
  /\ QueueStep /\ UNCHANGED tested

QueueEnds ==
  /\ tested # "no"
  /\ tested' = "no"
  /\ QueueStep /\ UNCHANGED <<toSave, queued>>

-----------------------------------------------------------------------------
(* The writer thread.                                                       *)

\* create_directories
Ensured(rec, sub) == folders \cup {Folder(rec, sub), Folder(rec, "")}

TakeFile ==
  /\ saver.at = "idle" /\ toSave # <<>> /\ Head(toSave) # NoFile
  /\ saver' = [at |-> "opening", file |-> Head(toSave)]
  /\ toSave' = Tail(toSave)
  /\ folders' = Ensured(Head(toSave).in.rec, Head(toSave).in.sub)
  /\ UNCHANGED <<year, pathVars, queued, files, whole, stored, keeping, keeper, passVars, reader,
                 crashed>>

\* Below an empty record path: a folder of the root directory, and a file in it.
TakeAstray ==
  /\ saver.at = "idle" /\ toSave # <<>> /\ Head(toSave) = NoFile
  /\ toSave' = Tail(toSave)
  /\ UNCHANGED <<year, pathVars, queued, saver, diskVars, keeping, keeper, passVars, reader,
                 crashed>>

\* create_directories throws when it cannot make what is missing, or when a parent goes
\* after it was found; there is no try around the writer's loop.
EnsureThrows ==
  /\ saver.at = "idle" /\ toSave # <<>>
  /\ Head(toSave).in \notin folders \/ Removing(Head(toSave).in.rec.year)
  /\ saver' = [at |-> "opening", file |-> Head(toSave)]
  /\ toSave' = Tail(toSave)
  /\ crashed' = "saver"
  /\ UNCHANGED <<year, pathVars, queued, diskVars, keeping, keeper, passVars, reader>>

SaverAt(from, to) == saver.at = from /\ saver' = [saver EXCEPT !.at = to]

\* An open file is empty, whatever was in it; readers in a call may find it so.
Opened(f) ==
  [r \in Readers |->
     [reader[r] EXCEPT !.opened = IF reader[r].at = "names" THEN @ \cup {f} ELSE @]]

OpenFile ==
  /\ saver.file.in \in folders /\ SaverAt("opening", "writing")
  /\ files' = files \cup {saver.file}
  /\ whole' = whole \ {saver.file}
  /\ reader' = Opened(saver.file)
  /\ UNCHANGED <<clientVars, folders, stored, keeping, keeper, passVars, crashed>>

\* The stream is not tested: a file that cannot be opened is dropped.
OpenFails ==
  /\ saver.file.in \notin folders /\ saver.at = "opening"
  /\ saver' = [at |-> "idle", file |-> NoFile]
  /\ UNCHANGED <<clientVars, diskVars, keeping, keeper, passVars, reader, crashed>>

\* What is written to a file that was removed meanwhile is gone with it.
WriteFile ==
  /\ saver.at = "writing" /\ saver' = [at |-> "idle", file |-> NoFile]
  /\ IF saver.file \in files
       THEN whole' = whole \cup {saver.file} /\ stored' = stored \cup {saver.file}
       ELSE UNCHANGED <<whole, stored>>
  /\ UNCHANGED <<clientVars, folders, files, keeping, keeper, passVars, reader, crashed>>

-----------------------------------------------------------------------------
(* HouseKeeper.                                                            *)

KeeperStep(from, to) == keeper = from /\ keeper' = to

StartKeeper ==
  /\ keeping = "new"
  /\ keeping' = "on" /\ keeper' = "waiting"
  /\ UNCHANGED <<clientVars, saver, diskVars, passVars, reader, crashed>>

\* main, at shutdown; the notification may be lost, then the wait ends by itself.
StopKeeper ==
  /\ keeping = "on"
  /\ keeping' = "stopping"
  /\ UNCHANGED <<clientVars, saver, diskVars, keeper, passVars, reader, crashed>>

JoinKeeper ==
  /\ keeping = "stopping" /\ keeper = "none"
  /\ keeping' = "joined"
  /\ UNCHANGED <<clientVars, saver, diskVars, keeper, passVars, reader, crashed>>

\* The wait ends by the notification or its interval, and running_ is read.
KeeperWakes ==
  /\ KeeperStep("waiting", IF keeping = "on" THEN "measuring" ELSE "none")
  /\ UNCHANGED <<clientVars, saver, diskVars, keeping, passVars, reader, crashed>>

\* calculate_size_gb
Size == Cardinality(whole)

\* Faulty: a pass that finds nothing to remove ends the thread.
AfterMeasureEnding == IF Size <= MaxSize THEN "none" ELSE "listing"

AfterMeasure == IF Size <= MaxSize THEN "waiting" ELSE "listing"

Measure ==
  /\ KeeperStep("measuring", AfterMeasure)
  /\ size' = IF Size <= MaxSize THEN 0 ELSE Size
  /\ UNCHANGED <<clientVars, saver, diskVars, keeping, yearDirs, victim, excess,
                 removed, reader, crashed>>

ListYears ==
  /\ KeeperStep("listing", "cleaning")
  /\ yearDirs' = {rec.year : rec \in Recorded}
  /\ UNCHANGED <<clientVars, saver, diskVars, keeping, size, victim, excess, removed, reader,
                 crashed>>

\* Faulty: sorted the other way.
NewestYear == CHOOSE y \in yearDirs : \A z \in yearDirs : y >= z

OldestYear == CHOOSE y \in yearDirs : \A z \in yearDirs : y <= z

From(y) == {f \in Standing : f.in.rec.year >= y}
\* Files have come into an older year since the pass has been through it.
Refilled(y) == \E f \in Standing : f.in.rec.year < y /\ f.in.rec.year \notin yearDirs

NextVictim ==
  /\ KeeperStep("cleaning", "removing")
  /\ size > MaxSize /\ yearDirs # {}
  /\ victim' = OldestYear
  /\ yearDirs' = yearDirs \ {OldestYear}
  /\ removed' = removed \cup {OldestYear}
  /\ excess' = IF Cardinality(From(OldestYear)) > MaxSize \/ Refilled(OldestYear)
                  THEN excess \cup {OldestYear} ELSE excess
  /\ UNCHANGED <<clientVars, saver, diskVars, keeping, size, reader, crashed>>

PassEnds ==
  /\ KeeperStep("cleaning", "waiting")
  /\ size <= MaxSize \/ yearDirs = {}
  /\ size' = 0 /\ yearDirs' = {}
  /\ UNCHANGED <<clientVars, saver, diskVars, keeping, victim, excess, removed, reader, crashed>>

RemoveFiles ==
  /\ KeeperStep("removing", "clearing")
  /\ files' = files \ FilesOf(victim)
  /\ whole' = whole \ FilesOf(victim)
  /\ UNCHANGED <<clientVars, saver, folders, stored, keeping, passVars, reader, crashed>>

\* A folder into which a file has come meanwhile stays, and its record; the error is ignored.
Stays(d) == \E f \in files : f.in.rec = d.rec /\ d.sub \in {f.in.sub, ""}

RemoveFolders ==
  /\ KeeperStep("clearing", "cleaning")
  /\ folders' = {d \in folders : d.rec.year = victim => Stays(d)}
  /\ size' = Size
  /\ victim' = NoYear
  /\ UNCHANGED <<clientVars, saver, files, whole, stored, keeping, yearDirs, excess, removed,
                 reader, crashed>>

-----------------------------------------------------------------------------
(* GetHistory and GetRecord.                                                 *)

ReaderStep(r, from, next) == reader[r].at = from /\ reader' = [reader EXCEPT ![r] = next]

\* A call is followed through one of the records that it lists.
HistoryBegin(r, rec) ==
  /\ rec \in Recorded
  /\ ReaderStep(r, "idle", [NotReading EXCEPT !.at = "listed", !.rec = rec])
  /\ UNCHANGED <<clientVars, saver, diskVars, keeping, keeper, passVars, crashed>>

StereoFolders(rec) == IF rec.kind = "Inspection" THEN SubFolders ELSE {""}

\* Faulty: the sub-folders are not tested for.
StereoDirsUntested(rec) == StereoFolders(rec)

\* Only the sub-folders are tested for.
StereoDirs(rec) ==
  {sub \in StereoFolders(rec) : rec.kind = "Inspection" => Folder(rec, sub) \in folders}

ListFolders(r) ==
  /\ ReaderStep(r, "listed", [reader[r] EXCEPT !.at = "folders",
                                               !.subs = StereoDirs(reader[r].rec)])
  /\ UNCHANGED <<clientVars, saver, diskVars, keeping, keeper, passVars, crashed>>

\* directory_iterator: outside of every try, it throws when the folder has gone.
CountFolder(r) ==
  /\ \E sub \in reader[r].subs :
       IF Folder(reader[r].rec, sub) \in folders
         THEN /\ ReaderStep(r, "folders", [reader[r] EXCEPT !.subs = @ \ {sub}])
              /\ UNCHANGED crashed
         ELSE /\ reader[r].at = "folders" /\ crashed' = "reader"
              /\ UNCHANGED reader
  /\ UNCHANGED <<clientVars, saver, diskVars, keeping, keeper, passVars>>

HistoryEnd(r) ==
  /\ reader[r].subs = {}
  /\ ReaderStep(r, "folders", NotReading)
  /\ UNCHANGED <<clientVars, saver, diskVars, keeping, keeper, passVars, crashed>>

\* Faulty: only the record's own directory is read, as if it had no sub-folders.
FlatFolders == {""}

\* GetRecord goes through all of them, whatever the record's kind.
ReadFolders == FolderNames

RecordBegin(r, rec) ==
  /\ rec \in Recorded
  /\ ReaderStep(r, "idle", [NotReading EXCEPT !.at = "names", !.rec = rec, !.subs = ReadFolders,
                                         !.before = {f \in whole : f.in.rec = rec}])
  /\ UNCHANGED <<clientVars, saver, diskVars, keeping, keeper, passVars, crashed>>

\* What opendir and readdir find; a folder that is not there has no names.
RecordNames(r) ==
  /\ reader[r].names = {}
  /\ \E sub \in reader[r].subs :
       ReaderStep(r, "names",
         [reader[r] EXCEPT !.subs = @ \ {sub},
                           !.names = {f \in files : f.in = Folder(reader[r].rec, sub)}])
  /\ UNCHANGED <<clientVars, saver, diskVars, keeping, keeper, passVars, crashed>>

\* A file that is gone or not whole does not parse and is passed over.
RecordRead(r) ==
  /\ \E f \in reader[r].names :
       ReaderStep(r, "names", [reader[r] EXCEPT !.names = @ \ {f},
                                                 !.told = @ \cup ({f} \cap whole)])
  /\ UNCHANGED <<clientVars, saver, diskVars, keeping, keeper, passVars, crashed>>

Answered(r) == reader[r].at = "names" /\ reader[r].names = {} /\ reader[r].subs = {}

RecordEnd(r) ==
  /\ Answered(r)
  /\ ReaderStep(r, "names", NotReading)
  /\ UNCHANGED <<clientVars, saver, diskVars, keeping, keeper, passVars, crashed>>

-----------------------------------------------------------------------------
Handlers ==
  \/ NewYear \/ CloseRecord
  \/ \E kind \in RecordKinds : CreateRecord(kind) \/ CreateFails(kind)
Queueing ==
  \/ \E copy \in {"path", "active"} : TestCopy(copy)
  \/ \E sub \in FiledFolders, n \in Numbers : QueueFile(sub, n)
  \/ QueueEnds
Saver == TakeFile \/ TakeAstray \/ EnsureThrows \/ OpenFile \/ OpenFails \/ WriteFile
Keeper ==
  \/ KeeperWakes \/ Measure \/ ListYears \/ NextVictim \/ PassEnds
  \/ RemoveFiles \/ RemoveFolders
Reader(r) ==
  \/ \E rec \in Records : HistoryBegin(r, rec) \/ RecordBegin(r, rec)
  \/ ListFolders(r) \/ CountFolder(r) \/ HistoryEnd(r)
  \/ RecordNames(r) \/ RecordRead(r) \/ RecordEnd(r)

StoreNext ==
  /\ crashed = "no"
  /\ \/ Handlers \/ Queueing \/ Saver \/ Keeper \/ \E r \in Readers : Reader(r)
     \/ StartKeeper \/ StopKeeper \/ JoinKeeper

(* The thread of HouseKeeper is scheduled, its wait ends within the interval, and   *)
(* the join goes on when it can.                                              *)
StoreFairness ==
  /\ WF_storeVars(crashed = "no" /\ Keeper)
  /\ WF_storeVars(crashed = "no" /\ JoinKeeper)

StoreSpec == StoreInit /\ [][StoreNext]_storeVars /\ StoreFairness

-----------------------------------------------------------------------------
(* Properties.                                                             *)

(* What was saved stays on disk and whole, whatever HouseKeeper, the handlers and the     *)
(* writer do at once, unless its year had to go: with the years after it, it was more     *)
(* than the store may hold, or files had come again into an older year of the same         *)
(* pass.  While the writer writes a file over, that one is not whole.                    *)
SavedUnlessExcess ==
  \A f \in stored \ whole :
    \/ f.in.rec.year \in excess
    \/ f \in files /\ saver = [at |-> "writing", file |-> f]

(* Core terminates by a directory only when its year was removed under the writer's or     *)
(* a reader's hands, when a stop came between the test and a read of the record path,       *)
(* or for a sub-folder that the record was not created with; for one that a record does    *)
(* not have, no reader ends it.                                              *)
CrashCauses ==
  /\ crashed = "saver" => \/ saver.file.in.rec.year \in removed
                          \/ saver.file = NoFile
                          \/ saver.file.in \notin Created(saver.file.in.rec)
  /\ crashed = "reader" => \E r \in Readers : reader[r].at = "folders"
                                             /\ reader[r].rec.year \in removed

(* GetRecord tells every step of the record that was saved when it was called, from all     *)
(* its folders, unless its year was removed, or the writer opened the file again during     *)
(* the call; and nothing that was never saved to its end.                             *)
RecordTold ==
  \A r \in Readers :
    /\ reader[r].told \subseteq stored
    /\ Answered(r) /\ reader[r].rec.year \notin removed =>
         reader[r].before \subseteq reader[r].told \cup reader[r].opened

(* The store comes back under its limit, although directories are filled while they are    *)
(* removed; and stop returns, although its notification may come before the wait.       *)
KeeperWorks ==
  /\ Size > MaxSize /\ keeping = "on" ~> (Size <= MaxSize \/ keeping # "on" \/ crashed # "no")
  /\ keeping = "stopping" ~> (keeping = "joined" \/ crashed # "no")
=============================================================================
