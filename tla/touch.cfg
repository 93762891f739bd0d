SPECIFICATION FairSpec
CONSTANTS
  f1 = f1
  f2 = f2
  f3 = f3
  b1 = b1
  k1 = k1
  v1 = v1
  p1 = p1
  p2 = p2
  Finger = {f1, f2, f3}
  NoFinger = NoFinger
  MaxTouch = 2
  Button = {b1}
  Key = {k1}
  Position = {p1, p2}
  View = {v1}
  NoView = NoView
  MaxOverlays = 1
INVARIANTS
  EventsSound
  SlotsTrackSample
  ControlsFollow
PROPERTIES
  AllReleased
