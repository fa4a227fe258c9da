\* Every short text, in every mode, on engines of three manifests.
SPECIFICATION FairSpec
CONSTANTS
  Char <- Chars
  Space = {" "}
  WordChar = {"T", "1", "A", "x", "y"}
  Coordinates <- SmallCoordinates
  Manifests <- SmallManifests
  Texts <- SmallTexts
  Modes = {"vajra", "prajna", "Vajra"}
  Decays = {0, 2}
INVARIANTS TypeOK LeftmostLongest MatchNamesOwner CoordinatesExact
INVARIANTS ResonanceExact PromptGrounded
PROPERTIES ProcessReturns
