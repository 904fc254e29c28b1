SPECIFICATION Spec
CONSTANTS
  MaxLines = 7
  PipeSize = 2
  ReaderSize = 2
INVARIANTS
  ProcessTypeOK
  NeverSilent
  ListingWhole
PROPERTY
  Answered
