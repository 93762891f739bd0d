SPECIFICATION Spec
CONSTANTS
  start = start
  stop = stop
  play = play
  report = report
  x = x
  y = y
  Method = {start, stop, play, report}
  Long = {report}
  Start = start
  Stop = stop
  long = long
  Text = {x, y, long}
  Beginning <- SmallBeginning
  NoMethod = NoMethod
  MaxIds = 3
  MaxLookups = 4
INVARIANTS
  DispatchWhileRoom
  RequestKept
