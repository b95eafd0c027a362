SPECIFICATION FairSpec
CONSTANTS
  DEBOUNCE   <- MCDebounce
  POLL       <- MCPoll
  WARN_DELAY <- MCWarnDelay
INVARIANTS
  TypeOK
  NoLostPress
  NoPhantomToggle
  PanelAgrees
  NeverWarnAtPoll
PROPERTIES
  WarningSeen
  ModeServed
  SubmodeServed
  WarningEnds
  ImplementsView
