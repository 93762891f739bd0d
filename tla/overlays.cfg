SPECIFICATION OverlaySpec
CONSTANTS
  v1 = v1
  v2 = v2
  v3 = v3
  v4 = v4
  View = {v1, v2, v3, v4}
  NoView = NoView
  MaxOverlays = 3
SYMMETRY Symmetry
INVARIANTS
  RegistrySound
