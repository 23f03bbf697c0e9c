SPECIFICATION Spec
CONSTANTS
  Files = {f1}
  Streams = {s1}
  MaxInfos = 3
  MaxTime = 2
  MaxJobs = 2
  MaxCommands = 3
  Fds = {1, 2, 3}
  MaxLines = 2
  Bits = {8, 16, 24, 32}
  Channels = {1, 2, 5, 7, 8}
  CHUNK_SIZE = 60480
  Length = 6
  MaxFrame = 3
  MetaInt = 3
  BufferSize = 4
  Widths = {1, 2, 4}
  HwSize = 2
  TrackSize = 4
  Chars = {"a", "/"}
  MaxBytes = 2
  FirstSize = 2
  MaxHistory = 2
  Contexts = {1, 2}
  Keys = {1, 2}
  MaxChanges = 1
  MaxTokens = 5
  MaxParts = 4
  INT_MAX = 7
  Letters = {"a", "b", "a'"}
  MaxPattern = 4
  MaxText = 3
  MaxEvents = 2
  MaxClients = 2
  MaxSends = 2
  CueFiles = {"f", "g"}
  Times = {0, 1}
  Gaps = {1}
  MaxCueTracks = 2
  MaxPieces = 2
CHECK_DEADLOCK FALSE
INVARIANTS
  TrackRefsBalanced
  InputSound
  SamplesInOrder
  OutputSound
  CommandsSound
  WindowsTrue
  OptionsCoupled
  SettingsSurvive
  MatchesMean
  BrowserSound
