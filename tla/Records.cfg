SPECIFICATION Spec
CONSTANTS
    DepositCoins = {1, 2}
    MaxDepositTroubles = 1
    Withdrawn = {1}
    Refreshed = {2, 3}
    Tipped = {4}
    MaxRecoupTroubles = 1
    Prepares = {"t1", "t2"}
    Accepts = {1, 2}
    Pickers = {1, 2}
    NoTip = NoTip
    MaxTipTroubles = 1
    Devices = {"d1", "d2"}
    Coins = {"c1"}
    Orders = {"o1"}
    Tips = {"gift"}
    Reserves = {}
    FirstRecords = {"c1", "o1", "gift"}
    OthersAt = "none"
    Cycles = {1}
    FirstDevice = "d1"
    NoBlob = NoBlob
    MaxNewRecords = 1
    MaxBackupTroubles = 1
INVARIANT CoinsAreAccounted
INVARIANT DepositIsComplete
INVARIANT CreditedOnce
PROPERTY DepositEnds
PROPERTY RecoupEnds
PROPERTY TipArrives
PROPERTY BackupConverges
CHECK_DEADLOCK FALSE
