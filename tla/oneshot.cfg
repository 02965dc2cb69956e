CONSTANTS
  alice = alice
  bob = bob
  PLACEHOLDER = PLACEHOLDER
  BYTE_BITS = 2
  TARGET_BYTES = 4
  INITIAL_BITS <- SmallInitialBits
  RETARGET_INTERVAL = 2
  TARGET_TIMESPAN_SECONDS = 4
  WORK_SCALE = 16
  INITIAL_REWARD = 8
  HALVING_INTERVAL = 2
  DEFAULT_FEE = 1
  DUST_THRESHOLD = 2
  Nodes = {alice, bob}
  InitialFiles <- SmallFiles
  Times = {0}
  Recipients = {bob}
  Amounts = {2}
  MAX_MEMPOOL_SIZE = 3
  MAX_HEIGHT = 4
  MAX_PROCESSES = 3
  MAX_LAUNCHES = 4
SPECIFICATION Spec
INVARIANTS FilesValid
PROPERTIES HeavierUnlessOvertaken PendingConfirmedOrDropped ConnectorTakesHeavier
CHECK_DEADLOCK FALSE
