SPECIFICATION Spec
CONSTANTS
  BYTE = 256
  UINT32_BYTES = 2
  UINT64_BYTES = 3
  HASH_BYTES = 2
  COMMAND_SIZE = 4
  MAX_PAYLOAD_SIZE = 4
  INT64_MAX = 31
  DEFAULT_FEE = 2
  DUST_THRESHOLD = 3
  ByteStrings <- MCByteStrings
  Base58Strings <- MCBase58Strings
  Addresses <- MCAddresses
  Chains <- MCChains
  Mempools <- MCMempools
  UtxoLists <- MCUtxoLists
  Messages <- MCMessages
  Spends <- MCSpends
  Purses <- MCPurses
  Amounts = {1, 2, 3, 4, 5, 6, 7, 8, 9, 10, 11, 12, 18, 19, 20, 27, 28, 29, 30, 31}
INVARIANTS
  Base58RoundTrip
  FilesReadBack
  TornFilesRefused
  FramesKept
  OnlyOwnerSpends
  PaymentsExact
CHECK_DEADLOCK FALSE
