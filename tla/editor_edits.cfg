SPECIFICATION Spec
CONSTANTS
  film = film
  photo = photo
  extra = extra
  none = none
  None = none
  Library <- Shelf
  Opening <- Project
  ToolSets <- Families
  Times = {1, 3}
  Moves <- MouseMoves
  RowMoves = {0, 1}
  TextDur = 2
  MaxUndo = 3
  MaxEdits <- Depths
INVARIANT ClipAssetLive
PROPERTIES HistoryIsALine OverwriteSpares SplitSeamless TakeDeletionSpares EditsStayOnTracks
CHECK_DEADLOCK FALSE
