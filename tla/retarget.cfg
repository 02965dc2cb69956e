CONSTANTS
  BYTE_BITS = 8
  TARGET_BYTES = 32
  INITIAL_BITS <- ProgramInitialBits
  RETARGET_INTERVAL = 5
  TARGET_TIMESPAN_SECONDS = 60
  WORK_SCALE = 1
  Timespans = {5, 20, 45, 60, 75, 100, 250}
  MAX_PERIODS = 6
SPECIFICATION Spec
INVARIANTS EasesAtMostFourfold FastPeriodNeverEases
CHECK_DEADLOCK FALSE
