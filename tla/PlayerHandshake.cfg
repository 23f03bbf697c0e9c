SPECIFICATION FairSpec
CONSTANTS
  trackA = trackA
  trackB = trackB
  stream = stream
  NoTrack = NoTrack
  Tracks <- MCTracks
  Remote <- MCRemote
  SfOf <- MCSfOf
  LimitOf <- MCFittingLimitOf
  Sizes = {2}
  Repeats = {FALSE}
  Cmds = {"play", "stop"}
  Reads = {"chunk", "eof"}
CHECK_DEADLOCK FALSE
PROPERTIES
  EventLoopAlive
