SPECIFICATION MoneySpec
CONSTANTS
    PurseCoins = {1, 2, 3}
    FirstCoins = {1, 2}
    Worth = 2
    Payments = {"p1", "p2"}
    Price = 2
    RefreshFee = 1
    RefreshGroups = {1, 2, 3}
    MaxMoneyTroubles = 0
INVARIANT BalanceCountsOnce
CHECK_DEADLOCK FALSE
