SPECIFICATION FairSpec
CONSTANTS
  Operations     <- MCCopies
  ENGINE         <- MCSlow
  BOOT_TIME      <- MCSlow
  MAX_POLLS      <- MCPatient
  MAX_BLOCK_SIZE <- MCBlock
  MAX_LEN        <- MCImage
INVARIANTS
  ReturnedOver
PROPERTIES
  CallReturns
