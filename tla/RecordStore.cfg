SPECIFICATION StoreSpec
CONSTANTS
  FirstYear = 1
  LastYear = 2
  RecordKinds = {"Inspection"}
  SubFolders = {"inspection", "marking"}
  FiledFolders = {"inspection"}
  MaxSize = 1
  Numbers = {0}
  MaxSaves = 3
  MaxWaiting = 1
  r1 = r1
  Readers = {r1}
INVARIANTS
  SavedUnlessExcess
  CrashCauses
  RecordTold
PROPERTIES
  KeeperWorks
\* The bounds on pairs, time, sessions and files stop the models.
CHECK_DEADLOCK FALSE
