SPECIFICATION MCSpec
CONSTANTS BitsPerByte = 2
          DataLen = 3
          TreeLimit = 5
          MaxBytes = 2
          MaxAdds = 3
          Delay = 3
          MaxByte = 2
          MaxLen = 3
          BatchLen = 2
          Starts <- SomeStarts
          Validities <- SomeProcessors
          BlockBits = 2
          MaxBits = 6
          OperandBits = 4
          NumChoices = 5
          MaxDecisions = 4
          FilterBits = 3
          MaxExcluded = 3
          MaxCovering = 3
          MaxItems = 3
          MaxEdges = 5
INVARIANTS  ListsKeepAll TreeIsFaithful FirstUnfiltered StringsAreTheRange
           SearchIsSound BitmapsAreSets 
CHECK_DEADLOCK FALSE
