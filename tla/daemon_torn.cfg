CONSTANTS
  alice = alice
  bob = bob
  PLACEHOLDER = PLACEHOLDER
  BYTE_BITS = 2
  TARGET_BYTES = 4
  INITIAL_BITS <- SmallInitialBits
  RETARGET_INTERVAL = 2
  TARGET_TIMESPAN_SECONDS = 4
  WORK_SCALE = 16
  INITIAL_REWARD = 4
  HALVING_INTERVAL = 2
  DEFAULT_FEE = 1
  DUST_THRESHOLD = 1
  Nodes = {alice, bob}
  Miners = {alice, bob}
  Seeded = {alice, bob}
  KnownPeers <- OnlyBobPollsAlice
  Times = {0}
  Amounts = {}
  MAX_MEMPOOL_SIZE = 2
  MAX_CHAIN_BLOCKS = 9
  MAX_HEIGHT = 3
  MAX_SENDS = 0
  MAX_FAULTS = 1
  TORN_CRASH = TRUE
SPECIFICATION Spec
INVARIANT GenesisKept
