CONSTANTS
  IntMax = 127
  CommandLines <- ReportLines
  NumberOf <- SmallNumbers
  DefaultCounts <- SmallDefaults
  Timings <- TwoTimings
  FaultLength = 2
  SecretLength = 2
SPECIFICATION Spec
INVARIANT ReportOnDisk
