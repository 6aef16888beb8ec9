SPECIFICATION Spec
CONSTANTS
  Stacks <- MCStacks
  Verbosity = 2
  MaxSpans = 2
INVARIANTS
  ExactDelivery
  FilterMemory
  HintCovers
