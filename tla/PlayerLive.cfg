SPECIFICATION FairSpec
CONSTANTS
  trackA = trackA
  trackB = trackB
  stream = stream
  NoTrack = NoTrack
  Tracks <- MCTracks
  Remote <- MCRemote
  SfOf <- MCSfOf
  LimitOf <- MCFittingLimitOf
  Sizes = {2}
  Repeats = {FALSE}
  Cmds = {"play", "pause", "stop", "next", "seek", "exit"}
  Reads = {"some", "chunk", "eof", "error"}
CHECK_DEADLOCK FALSE
PROPERTIES
  RequestServed
  EofHandled
  ExitTerminates
