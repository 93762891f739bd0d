SPECIFICATION Spec
CONSTANTS
  c1 = c1
  c2 = c2
  short = short
  long = long
  NoTrack = NoTrack
  Caller = {c1}
  Track = {short, long}
  Length <- MCLength
  Format <- MCFormat
  NumBuffers = 2
  DecodeMayFail = FALSE
INVARIANT
  StopAlwaysSilences
