SPECIFICATION Spec
CONSTANTS
  Operations     <- MCEverything
  ENGINE         <- MCTime
  BOOT_TIME      <- MCImpatient
  MAX_POLLS      <- MCImpatient
  MAX_BLOCK_SIZE <- MCBlock
  MAX_LEN        <- MCImage
INVARIANTS
  TypeOK
  CleanKept
PROPERTIES
  BlocksTaken
