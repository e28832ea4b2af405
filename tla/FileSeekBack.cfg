\* A seek to before the start of the file.
CONSTANTS
  N = 1
  Writers = {1}
  FILE_BUF = 2
  MAX_LEN = 3
  Data <- MCData
  Wants = {1, 3}
  Offs <- MCOffs
  SeekBack = TRUE
  HostFails = FALSE
  None = None
  Sections = {"S", "T"}
  Keys = {"K", "GS"}
  Special = "GS"
  Layout <- MCLayout
  Values = {1, 3}
  LINE = 2
  VALUE = 3
  PRESET = 2
  LARGE = 2
  Names <- MCNames
  PathRoom = 6
  ExeDir = 1
  FirstFiles <- MCFirst
  MostWrites = 2
  MostFaults = 1
SPECIFICATION MCSpec
PROPERTIES
  FailedSeekStays
CHECK_DEADLOCK FALSE
