CONSTANTS
  MaxMessageBytes = 10
  MaxBatchDescriptors = 3
  EnvelopeBase = 1
  Radix = 2
  MaxTaken = 6
  PartSizes <- MCPartSizes
  SummarySizes <- MCSummarySizes
SPECIFICATION Spec
INVARIANTS
  TypeOK
  PendingIsTheRemainder
  AccountIsExact
  MessageFits
PROPERTY RefinesPlanStream
