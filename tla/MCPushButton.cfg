SPECIFICATION Spec
CONSTANTS
  DEBOUNCE <- MCDebounce
  BOUNCE   <- MCBounce
  PRESS    <- MCPress
INVARIANTS
  TypeOK
  OnePressPerPush
  NoPushMissed
