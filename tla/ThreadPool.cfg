SPECIFICATION Spec
CONSTANTS NumOracles = 2
          NumGroups = 2
          MaxThreads = 5
          MaxResizes = 3
          MaxPanics = 2
INVARIANTS MachineOutlivesThread OneOwner
PROPERTIES ResizeReturns 
CHECK_DEADLOCK FALSE
