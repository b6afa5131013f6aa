SPECIFICATION Spec
CONSTANTS
  ElementSize = 4
  WORDSZ = 2
  Bits <- TwelveBits
  MaxCount = 3
  Others <- SomeSets
  none = none
INVARIANT Canonical
PROPERTY ImplementsBitSet
