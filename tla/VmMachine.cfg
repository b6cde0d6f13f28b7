SPECIFICATION MachineSpec
CONSTANTS ShmemFrames = 36
          Nums = {1, 3}
          Index = {1, 2}
          NumTables = 4
          MaxEntries = 8
          NumFrames = 2
          MaxPages = 2
INVARIANTS ReadyMeansInitialised SeesOwnPages
PROPERTIES StartReturns
CHECK_DEADLOCK FALSE
