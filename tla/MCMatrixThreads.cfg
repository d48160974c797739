SPECIFICATION FairSpec
CONSTANTS
  Instances <- MCInstances
  A <- MCA
  B <- MCB
  MaxThreads = 4
INVARIANT ProductComputed
PROPERTY Ends
