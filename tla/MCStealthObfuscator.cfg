\* The three variants on texts of up to forty characters; four shards over the
\* field of five elements for two of the texts, up to three collected.
SPECIFICATION Spec
CONSTANTS
  Variants = {"python", "lossless", "lossy"}
  Texts <- MCTexts
  Keys = {0, 1, 3, 20}
  CodeSize = 28
  Surrogates = {12, 13}
  ByteLen <- MCByteLen
  Forbidden = {0}
  SealedCalls <- MCSealedCalls
  Prime = 5
  Modulus = 6
  Delay = 2
  Shards = 4
  Threshold = {1, 2, 3}
  MaxHeld = 3
INVARIANTS
  BraidKeepsAll
  ReverseKeepsAll
  ThresholdRecovers
  RoundTrip
  
PROPERTY Terminates
CHECK_DEADLOCK FALSE
