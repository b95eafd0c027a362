SPECIFICATION Program
CONSTANTS
  DEBOUNCE  = 1
  SPEED     = 170
  OVERHEAD  = 10
  TICK_RATE = 100
  TIMEOUT   <- MCTimeout
  MAX_POLLS = 1000
PROPERTIES
  WatchdogSatiated
