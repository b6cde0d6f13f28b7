SPECIFICATION FairRunSpec
CONSTANTS Spaces <- MCSpaces
          MaxItems = 3
          StallResults = 1
          ErrorLimit = 2
          GuessAfter = 0
          Guesses = {}
INVARIANTS NoStallChains 
PROPERTIES AllDone
CHECK_DEADLOCK FALSE
