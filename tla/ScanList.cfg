SPECIFICATION Spec
CONSTANTS
  Runes <- MCRunes
  AccessPoints <- MCAccessPoints
  Noise <- MCNoise
  MaxListed = 3
INVARIANTS
  SplitInverts
  NetworksListed
