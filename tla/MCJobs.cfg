SPECIFICATION FairSpec
CONSTANTS
  pl1 = pl1
  pl2 = pl2
  Playlists <- MCPlaylists
  Used <- MCUsed
  Sorted <- MCSorted
  TI_CAP = 1
  MaxJobs = 2
  MaxFiles = 2
  Commands = {"add", "prepend", "update", "clear", "delete", "save", "quit"}
CHECK_DEADLOCK FALSE
INVARIANTS
  JobsSound
  RemovedForGood
  ArriveInOrder
PROPERTIES
  RemovalReturns
  ResultsApplied
  QuitTerminates
