SPECIFICATION QueueSpec
CONSTANTS
  Albums <- FiveAlbums
  Volumes = {0}
  Texts = {}
  MaxPieces = 0
CHECK_DEADLOCK FALSE
INVARIANTS
  UnwantedLeftOut
