SPECIFICATION FairSpec
CONSTANTS
  Frequency = 3
  NumSample = 2
  Period = 2
  FpsCap = 2
  MaxFrames = 3
INVARIANTS
  AccessMapped
  ReportSound
PROPERTIES
  StopReturns
  AttachesEventually
  FpsDecays
