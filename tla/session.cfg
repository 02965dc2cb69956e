CONSTANTS
  alice = alice
  bob = bob
  payer = payer
  Nodes = {alice, bob}
  Miners = {alice}
  KnownPeers <- PollEachOther
  Senders = {}
  Target <- NoPayment
  BUFFER = 2
  CHAIN_CHUNKS = 3
  MAX_CONNS = 2
SPECIFICATION FairSpec
INVARIANTS TypeOK CommandsExpected
PROPERTY SessionsEnd
