SPECIFICATION Spec
CONSTANTS
    Updates = {u1, u2}
    DenomCoins = {1}
    MaxExpiries = 1
    MaxExchangeTroubles = 1
    Devices = {"d1", "d2"}
    Coins = {"c1"}
    Orders = {"o1"}
    Tips = {"gift"}
    Reserves = {"r1"}
    OthersAt = "wire"
    FirstRecords = {"o1", "gift", "r1"}
    Cycles = {y1, y2}
    FirstDevice = "d1"
    NoBlob = NoBlob
    MaxNewRecords = 1
    MaxBackupTroubles = 0
    Calls = {a, b, c}
    Loops = {loop}
    None = None
    PurseCoins = {1, 2, 3}
    FirstCoins = {1, 2}
    Worth = 2
    Payments = {p1, p2}
    Price = 2
    RefreshFee = 1
    RefreshGroups = {1, 2, 3}
    MaxMoneyTroubles = 1
    PayRequests <- MCPay
    WithdrawRequests <- MCWithdraw
    Undefined = Undefined
    RecordKeys = {1, 2, 3}
    IndexKeyOf <- MCIndexKeyOf
    Walkers = {"all", "byIndex", "byKey"}
    IndexWalkers = {"byIndex", "byKey"}
    From <- MCFrom
    To <- MCTo
    NoKey = NoKey
    MaxWrites = 2
    Limits = {"second", "hour"}
    Cap <- MCCap
    Period <- MCPeriod
    MaxTime = 8
    MaxSetBacks = 1
SYMMETRY Alike
INVARIANT FinishedHasAll
INVARIANT RecoupedOnce
INVARIANT OneProposalPerOrder
INVARIANT EveryUnitHasOnePlace
INVARIANT WalkIsComplete
INVARIANT RateIsLimited
INVARIANT SelectionPays
INVARIANT WithdrawalIsClosest
PROPERTY BackupKeepsAll
PROPERTY AcceptedStays
CHECK_DEADLOCK FALSE
