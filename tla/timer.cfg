CONSTANTS
  TimerCpus <- TwoCpus
  Ahead <- Apart
  CounterModulus = 16
  CalibrationRounds = 3
  CalibrationInterval = 3
  OverheadSamples = 4
  MaxDelay = 1
  MaxBatch = 3
SPECIFICATION Spec
INVARIANTS CalibrationSound BatchSound
