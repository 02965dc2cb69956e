CONSTANTS
  BYTE_BITS = 8
  TARGET_BYTES = 32
  INITIAL_BITS <- ProgramInitialBits
  RETARGET_INTERVAL = 5
  TARGET_TIMESPAN_SECONDS = 60
  WORK_SCALE = 1
  Timespans = {20}
  MAX_PERIODS = 6
SPECIFICATION Spec
INVARIANT HardensAtMostFourfold
CHECK_DEADLOCK FALSE
