CONSTANTS
  IntMax = 127
  CommandLines <- SpectreLines
  NumberOf <- SmallNumbers
  DefaultCounts <- SmallDefaults
  Timings <- TwoTimings
  FaultLength = 2
  SecretLength = 2
SPECIFICATION Spec
INVARIANT TargetInPlace
