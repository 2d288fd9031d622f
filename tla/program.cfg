CONSTANTS
  IntMax = 127
  CommandLines <- AllLines
  NumberOf <- SmallNumbers
  DefaultCounts <- SmallDefaults
  Timings <- TwoTimings
  FaultLength = 2
  SecretLength = 2
SPECIFICATION FairSpec
INVARIANTS TypeOK ReadAsWritten RefusedForCause ModeArgumentsValid ExitTellsOutcome
INVARIANTS RatesExact PairsAligned LossIsRounding FaultRecovered AcceptedMeansSeparated CountsAgree
PROPERTY Terminates
