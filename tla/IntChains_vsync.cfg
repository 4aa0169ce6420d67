CONSTANTS
  Handlers = {h1, h2, h3, h4}
  Chains = 1
  Limit = 3
  Reach = 4
  None = None
SPECIFICATION FairSpec
INVARIANTS TypeOK ChainsHoldQueues EachCalledOnce
PROPERTIES PumpEnds
