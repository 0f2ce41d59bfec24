SPECIFICATION FairSpec
CONSTANTS
  MaxPolls = 3
  MaxLength = 1
INVARIANTS ManagerKnowsOutcomes IdleHoldsOnlyTheDevice SuccessMeansConfigured
PROPERTY OnlyClearingBlocks
