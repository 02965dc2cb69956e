CONSTANTS
  alice = alice
  bob = bob
  PLACEHOLDER = PLACEHOLDER
  BYTE_BITS = 2
  TARGET_BYTES = 4
  INITIAL_BITS <- SmallInitialBits
  RETARGET_INTERVAL = 2
  TARGET_TIMESPAN_SECONDS = 4
  WORK_SCALE = 16
  INITIAL_REWARD = 8
  HALVING_INTERVAL = 2
  DEFAULT_FEE = 1
  DUST_THRESHOLD = 2
  Nodes = {alice, bob}
  Miners = {alice, bob}
  Seeded = {bob}
  KnownPeers <- OnlyBobPollsAlice
  Times = {0}
  Amounts = {2, 6}
  MAX_MEMPOOL_SIZE = 2
  MAX_CHAIN_BLOCKS = 9
  MAX_HEIGHT = 4
  MAX_SENDS = 1
  MAX_FAULTS = 0
  TORN_CRASH = FALSE
SPECIFICATION Spec
INVARIANTS ChainsValid SupplyConserved GenesisKept
