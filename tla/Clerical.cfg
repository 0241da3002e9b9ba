SPECIFICATION Copying
CONSTANTS
  Chars <- MCChars
  Apostrophes = {"'"}
  Punctuation <- MCPunctuation
  Spaces = {" "}
  Digits = {"1", "2"}
  Capitals = {"A", "B"}
  Space = " "
  strip <- MCStrip
  casefold <- MCCasefold
  upper <- MCUpper
  codepoint <- MCCodepoint
  substitutions <- MCSubstitutions
  Versions = {"identity-canon/1"}
  CANONICALISATION_VERSION = "identity-canon/1"
  digest <- MCDigest
  WORD = 3
  MIN_BITS = 1
  FINGERPRINT_BITS = 2
  NoThreshold = NoThreshold
  Originals <- MCOriginals
  Letters = {"a", "b"}
  lookalikes <- MCLookalikes
  Marks = {"'"}
  MaxSteps = 2
INVARIANTS
  FormattingFoldsAway
  CanonicalIsStable
  DistanceIsLeast
  BandSurvives
CHECK_DEADLOCK FALSE
