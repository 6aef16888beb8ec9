SPECIFICATION ProbeSpec
CONSTANTS
  Stacks <- ProbeStacks
  Verbosity = 2
  MaxSpans = 2
INVARIANT ExactDelivery
