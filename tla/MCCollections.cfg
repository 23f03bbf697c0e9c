SPECIFICATION AllSpec
CONSTANTS
  Tracks = {1, 2}
  Info <- MCInfo
  Names = {1, 2}
  MaxTries = 1
  Songs = {1, 2, 3}
  Meta <- MCMeta
  AutoSort <- MCAutoSort
  DrawTrack <- MCDrawTrack
  DrawAlbum <- MCDrawAlbum
  Filters <- MCFilters
  LiveFilters <- MCLiveFilters
  Words <- MCWords
  Flags <- MCFlags
CHECK_DEADLOCK FALSE
INVARIANTS
  ViewsAgree
  SelectionExists
  OrderComplete
  PlaylistsSound
PROPERTIES
  CurrentKept
