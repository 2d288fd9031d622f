CONSTANTS
  IterationArgs <- Counts
  WarmupArgs <- Counts
  CpuArgs <- Cpus
  FaultSets <- AllOrNone
SPECIFICATION FairSpec
INVARIANTS TypeOK Handshake ReleasedOnReturn ResultCoherent
PROPERTIES ImplementsRoundTrips CallEnds ConsumerEnds CallSucceeds
