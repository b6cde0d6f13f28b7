SPECIFICATION RunSpec
CONSTANTS Spaces <- OneItem
          MaxItems = 3
          StallResults = 1
          ErrorLimit = 2
          GuessAfter = 0
          Guesses = {}
PROPERTY InvalidSkipped
CHECK_DEADLOCK FALSE
