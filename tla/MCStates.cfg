\* Generated and shared states, and the computations on addresses they rest on.
SPECIFICATION Spec
CONSTANTS
    WordBits = 5
    Word = 32
    PageSize = 4
    AddrRegs = {"r"}
    Mappable <- MCMappable
    Choice <- MCChoice
    FillWidths <- MCFillWidths
    FillTries = 1
    FixTries = 1
    Rounds = 1
    MaxItems = 2
    Parts = {"states", "constraints", "areas", "terms"}
INVARIANTS
    StatesFit
    RegionsNecessary
    AreasAreSets
    TermsMove
CHECK_DEADLOCK FALSE
