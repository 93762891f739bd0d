SPECIFICATION Spec
CONSTANTS
  Saved = {"save"}
  Packed <- SmallPacked
  Handle = {h1, h2}
  Parts <- SmallParts
  MaxWritten = 3
INVARIANT
  FakesAbsorbed
