SPECIFICATION FairSpec
CONSTANTS
  DEBOUNCE = 1
INVARIANTS
  TypeOK
  NoEdgeForgotten
PROPERTIES
  OnePressPerEdge
  EdgesAnswered
