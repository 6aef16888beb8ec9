SPECIFICATION Spec
CONSTANTS
  t1 = t1
  t2 = t2
  d1 = d1
  d2 = d2
  None = None
  Torn = Torn
  Threads <- MCThreads
  Dispatches <- MCDispatches
  MaxDepth = 2
  MaxGuards = 2
  MaxCount = 2
 
PROPERTY DeliversScoped
PROPERTY NeverForeign
SYMMETRY Symmetry
