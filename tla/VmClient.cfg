SPECIFICATION FairClientSpec
CONSTANTS NumQueues = 3
          Capacity = 1
          HangLimit = 1
          WaitLimit = 0
INVARIANTS BoundedBypass TimeoutIsEarned
PROPERTIES PublishedOutcomeStable EveryCommandAnswered
