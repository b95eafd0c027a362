SPECIFICATION Spec
CONSTANTS
  HEIGHT   = 4
  WIDTH    = 2
  Bitmaps  <- MCBitmaps
  Advance  <- MCAdvance
  MAX_TEXT = 2
  MAX_DIGITS = 5
INVARIANTS
  WholeNumberShown
