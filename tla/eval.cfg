CONSTANTS
  Samples <- ClassSamples
  MaxFixed = 6
  MaxRandom = 2
SPECIFICATION Spec
INVARIANTS SummaryCoherent HalfKept ExcursionRejected ZeroErrorSeparates ClassesSymmetric
