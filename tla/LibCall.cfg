\* The first arena has room for two logs and the game's space, or for one log,
\* the space and a little output; the second is too small for a log, and for
\* the space.  Turn files of three or four records, cut off anywhere.
CONSTANTS
  Threads <- MCThreads
  Arenas <- MCArenas
  Start <- MCStart
  End <- MCEnd
  LOG_CAP = 2
  GuestSize = 2
  Sizes = {1}
  Errors = {"ENOMEM"}
  CELL = 2
  KEPT = 4
  HASH = 2
  COUNT = 1
  TAIL = 2
  HEADER = 3
  StartOf <- MCStartOf
  KeyByte <- MCKey
  Files <- MCTurns
SPECIFICATION MCSpec
INVARIANTS
  CallsSound
  OnlyTheHashGoes
PROPERTIES
  FailureLeavesArena
  FlagComesBack
CHECK_DEADLOCK FALSE
