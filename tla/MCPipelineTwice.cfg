\* The same engine asked twice.
SPECIFICATION SpecTwice
CONSTANTS
  Char <- Chars
  Space = {" "}
  WordChar = {"T", "1", "A", "x", "y"}
  Coordinates <- SmallCoordinates
  Manifests <- SmallManifests
  Texts <- OneText
  Modes = {"prajna"}
  Decays = {1}
INVARIANT Deterministic
