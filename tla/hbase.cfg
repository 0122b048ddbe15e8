SPECIFICATION Spec
CONSTANTS
  R1 = R1
  R2 = R2
  Resources = {R1, R2}
  Samples <- MCSamples
  OldSamples <- MCOld
  Queries <- MCQueries
  SampleQueries <- MCSampleQueries
  PerSecond = 2
  ServerTimes = {1}
  Unknown = Unknown
  Idle = Idle
  MaxPuts = 3
  MaxReads = 1
INVARIANTS SampleHasMeter ReadsTell YieldedCoherent
PROPERTIES ImplementsResourceView SamplesStay
CHECK_DEADLOCK FALSE
