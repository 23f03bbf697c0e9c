SPECIFICATION Spec
CONSTANTS
  trackA = trackA
  trackB = trackB
  stream = stream
  NoTrack = NoTrack
  Tracks <- MCAllTracks
  Remote <- MCAllRemote
  SfOf <- MCSfOf
  LimitOf <- MCLimitOf
  Sizes = {2, 3}
  Repeats = {TRUE, FALSE}
  Cmds = {"play", "pause", "pause_playback", "stop", "next", "play_file", "seek", "set_op", "set_buffer_chunks", "update_cache", "exit"}
  Reads = {"some", "chunk", "eof", "again", "error", "select_error"}
CHECK_DEADLOCK FALSE
INVARIANTS
  Consistent
  NoStaleBytes
  RefsBalanced
  NoLostWakeup
  BugOnsHold
