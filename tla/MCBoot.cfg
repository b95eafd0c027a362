SPECIFICATION Spec
INVARIANTS
  SetUpInOrder
  LoopReady
PROPERTIES
  BootsAtLast
