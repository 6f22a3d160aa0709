SPECIFICATION FairSpec
CONSTANTS
    pay = pay
    tip = tip
    sync = sync
    Ops = {pay, tip, sync}
    LiveOps = {pay, tip}
    CountedOps = {pay}
    MaxTries = 2
    MaxRetries = 1
    MaxEvents = 1
    OtherQueries = {"all"}
    MayStop = TRUE
PROPERTY ReturnsWhenNoneLeft
PROPERTY LiveOpsGetTheirTurn
PROPERTY UntilDoneReturns
CHECK_DEADLOCK FALSE
