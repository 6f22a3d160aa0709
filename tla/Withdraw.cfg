SPECIFICATION FairSpec
CONSTANTS
    Groups <- MCGroups
    None = None
    MaxCredits = 2
    MaxTroubles = 1
INVARIANT NeverOverallocated
INVARIANT CoinsAreBacked
PROPERTY MoneyArrives
CHECK_DEADLOCK FALSE
