CONSTANTS
  alice = alice
  bob = bob
  payer = payer
  Nodes = {alice, bob}
  Miners = {alice}
  KnownPeers <- BobPollsAlice
  Senders = {payer}
  Target <- PayThroughAlice
  BUFFER = 2
  CHAIN_CHUNKS = 3
  MAX_CONNS = 2
SPECIFICATION FairSpec
PROPERTY PaymentsHandled
