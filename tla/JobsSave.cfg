SPECIFICATION Spec
CONSTANTS
  pl1 = pl1
  pl2 = pl2
  Playlists <- MCPlaylists
  Used <- MCUsed
  Sorted <- MCSorted
  TI_CAP = 1
  MaxJobs = 1
  MaxFiles = 1
  Commands = {"add", "save"}
CHECK_DEADLOCK FALSE
INVARIANTS
  SaveSeesRunning
