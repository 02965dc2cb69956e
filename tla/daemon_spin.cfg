CONSTANTS
  alice = alice
  bob = bob
  PLACEHOLDER = PLACEHOLDER
  BYTE_BITS = 8
  TARGET_BYTES = 32
  INITIAL_BITS <- ProgramInitialBits
  RETARGET_INTERVAL = 5
  TARGET_TIMESPAN_SECONDS = 60
  WORK_SCALE = 1
  INITIAL_REWARD = 4
  HALVING_INTERVAL = 2
  DEFAULT_FEE = 1
  DUST_THRESHOLD = 1
  Nodes = {alice}
  Miners = {alice}
  Seeded = {alice}
  KnownPeers <- NoPeers
  Times = {0, 150}
  Amounts = {}
  MAX_MEMPOOL_SIZE = 2
  MAX_CHAIN_BLOCKS = 9
  MAX_HEIGHT = 6
  MAX_SENDS = 0
  MAX_FAULTS = 0
  TORN_CRASH = FALSE
SPECIFICATION Spec
INVARIANT MiningGoesOn
