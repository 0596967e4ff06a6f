SPECIFICATION Spec
CONSTANTS
  board = board
  other = other
  None = None
  Devices = {board, other}
  Files <- MCFiles
  Benches <- MCBenches
  Moves = 2
  Rounds = 2
INVARIANTS TypeOK FlashedIsChecked FlashedIsRight
PROPERTIES UpgradeEnds
CHECK_DEADLOCK FALSE
