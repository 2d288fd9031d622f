CONSTANTS
  Cpus <- Machine
  Nodes <- MachineNodes
  NodeOf <- MachineNodeOf
  NodeArgs <- NodeArguments
  CoreOf <- MachineCoreOf
  BandwidthSize = 5
  LatencySize = 3
  LargePageSize = 4
  OptionSets <- AnyOptions
  FaultSets <- AllOrNone
  MaxStranded = 3
SPECIFICATION FairSpec
INVARIANTS TypeOK BuffersAccounted ConsumerElsewhere RowsFromTheirNode  AllMeasured
PROPERTY Returns
