SPECIFICATION Spec
CONSTANTS
  board = board
  other = other
  None = None
  Devices = {board, other}
  Files <- MCFiles
  Benches <- MCBenches
  Moves = 2
  Rounds = 2
INVARIANT BelowIsOlder
CHECK_DEADLOCK FALSE
