CONSTANTS
  Samples <- ClassSamples
  MaxFixed = 6
  MaxRandom = 0
SPECIFICATION Spec
INVARIANT ExcursionsDoNotDominate
