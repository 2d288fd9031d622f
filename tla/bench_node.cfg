CONSTANTS
  Cpus <- Machine
  Nodes <- MachineNodes
  NodeOf <- MachineNodeOf
  NodeArgs <- NodeArguments
  CoreOf <- MachineCoreOf
  BandwidthSize = 5
  LatencySize = 3
  LargePageSize = 4
  OptionSets <- AnyOptions
  FaultSets <- AllFaults
  MaxStranded = 1
SPECIFICATION Spec
INVARIANT RequestedNodeUsed
