SPECIFICATION Spec
CONSTANTS Threads = {t1, t2}
          Instructions = {"i1", "i2"}
          Results = {"short", "long"}
          Size <- ShortOrLong
          Header = 2
          Window = 4
          MaxRecords = 3
          MaxRuns = 3
INVARIANTS AnswersComputed
PROPERTIES OpenKeeps
CHECK_DEADLOCK FALSE
