CONSTANTS
  alice = alice
  bob = bob
  payer = payer
  Nodes = {alice, bob}
  Miners = {alice}
  KnownPeers <- BobPollsAlice
  Senders = {}
  Target <- NoPayment
  BUFFER = 2
  CHAIN_CHUNKS = 3
  MAX_CONNS = 1
SPECIFICATION SlowSpec
PROPERTIES SlowPeerBlocksNobody
