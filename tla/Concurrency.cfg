SPECIFICATION MCSpec
CONSTANTS
    t1 = t1
    t2 = t2
    k1 = k1
    k2 = k2
    Tx = {t1, t2}
    Keys = {k1, k2}
    Writers = {t1, t2}
    Script <- MCScript
    None = None
    MaxCrashes = 1
    Callers = {a, b, c}
    Tokens = {1, 2}
    NumWorkers = 2
    NumPrio = 3
    Requests = {1, 2, 3, 4}
    NoRequest = NoRequest
    OpsMayThrow = TRUE
    MayStop = TRUE
INVARIANT QueueMoves
PROPERTY EveryCallRuns
PROPERTY Atomic
PROPERTY OutcomeIsTold
PROPERTY EveryTransactionSettles
INVARIANT WorkConserving
PROPERTY NoOvertaking
PROPERTY PendingIsSettled
CHECK_DEADLOCK FALSE
