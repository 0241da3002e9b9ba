SPECIFICATION Spec
CONSTANTS
  age_over_threshold = age_over_threshold
  age_band = age_band
  wide = wide
  Algorithms = {age_over_threshold, age_band, wide}
  max_output_bits <- MCCaps
  DomainSizes <- MCSizes
  unseen <- MCUnseen
  MaxContexts = 3
INVARIANTS
  LiveTokensAreOpen
  ReadInsideOnly
  CrossedIsMeasured
