CONSTANTS
  Samples <- TestSamples
  MaxFixed = 3
  MaxRandom = 3
SPECIFICATION Spec
INVARIANT ConstantClassesDetected
