SPECIFICATION Spec
CONSTANTS
  Rows = 2
  Loads = {l1, l2}
  Local = {1}
  Repeat = "off"
  ChanMax = 2
  MaxEvents = 4
INVARIANTS WaitingHasCause PauseKept BlobHeld
PROPERTIES LatestRowWins
CONSTRAINT Apart
CHECK_DEADLOCK FALSE
