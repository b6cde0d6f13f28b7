SPECIFICATION FairSpec
CONSTANTS NumEncodings = 2
          Loaded = 2
          Outputs = 1
          MaxThreads = 2
          StartThreads = 2
          RampUp = 2
          RampStep = 1
          MaxCommands = 1
          MaxRestarts = 1
INVARIANTS RemovedIsRecorded StopSavesAll
PROPERTIES StopEnds QueueEmpties
CHECK_DEADLOCK FALSE
