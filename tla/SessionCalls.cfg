\* Two workers, two sessions of either kind; and the replies of MCGapPipeline.
SPECIFICATION SideBySide
CONSTANTS
  w1 = w1
  w2 = w2
  Workers = {w1, w2}
  SetModes = {"AITest"}
  MaxSessions = 2
  Replies <- MCReplies
  MinConfidence = 2
  ImageHeight = 12
  MarginRows = 1
  InlierDistance = 1
  NearGap = 2
  LikeGap = 50
  MaxSteps = 8
INVARIANTS
  TypeOK
  StatusAgrees
  TerminatesOnlyTangled
  SkippedLikeAnalysed
  EdgesWhateverSamples
  UpLinesFromShortCleats
SYMMETRY WorkerSymmetry
\* Core may terminate, and the bound on sessions stops the model.
CHECK_DEADLOCK FALSE
