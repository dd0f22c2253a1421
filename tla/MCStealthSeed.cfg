\* One text under one key, sealed by thresholds one and two: does an
\* artifact open with k shards?
SPECIFICATION Spec
CONSTANTS
  Variants = {"python"}
  Texts <- MCSealedTexts
  Keys = {1}
  CodeSize = 28
  Surrogates = {12, 13}
  ByteLen <- MCByteLen
  Forbidden = {0}
  SealedCalls <- MCSealedCalls
  Prime = 5
  Modulus = 10
  Delay = 2
  Shards = 4
  Threshold = {1, 2}
  MaxHeld = 4
INVARIANT ArtifactOpens
CHECK_DEADLOCK FALSE
