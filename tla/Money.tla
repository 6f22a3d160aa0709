-------------------------------- MODULE Money --------------------------------
(***************************************************************************)
(* Where the value of the coins is: payments, refunds, refresh groups and  *)
(* the balance composed, with the exchange that keeps the last word        *)
(* (operations/pay.ts, refund.ts, refresh.ts, balance.ts).  A transaction  *)
(* of the wallet is one step; the insides of a refresh session are those   *)
(* of RefreshGroup, the insides of a refund query those of Purchase.       *)
(*                                                                         *)
(* Coins have one size, deposits and refunds cost nothing, a refresh costs *)
(* RefreshFee per coin, and its new coins count as one.                    *)
(***************************************************************************)
EXTENDS Naturals, Sums

CONSTANTS
    PurseCoins, FirstCoins,  \* names of coins; those that have been withdrawn
    Worth,              \* the value of a withdrawn coin
    Payments, Price,    \* payments, and what each of them costs
    RefreshFee,
    RefreshGroups,      \* bound: refresh groups the wallet may create
    MaxMoneyTroubles    \* bound: deaths of the wallet

ASSUME MoneyAssumption ==
    /\ FirstCoins \subseteq PurseCoins
    /\ IsFiniteSet(PurseCoins) /\ IsFiniteSet(Payments) /\ IsFiniteSet(RefreshGroups)
    /\ Worth \in Nat /\ Price \in Nat /\ RefreshFee \in Nat /\ MaxMoneyTroubles \in Nat

VARIABLES
    known,      \* coins with a record
    fresh,      \* those with status Fresh, the others are Dormant
    amount,     \* currentAmount
    selected,     \* per payment, a selection that is not recorded yet
    pays,       \* per payment, the coinContributions that were recorded
    payStatus,  \* "none", "recorded", or "aborting" (AbortRefund)
    credited,   \* per payment, the coins whose refunds are applied
    groupOf,    \* per refresh group, what has become of its coins
    input,      \* inputPerCoin
    expired,    \* coins whose denomination is to be refreshed
    (* at the exchange *)
    left,       \* what it would still give for a coin
    deposits,   \* per payment, the coins that are deposited ...
    refunded,   \* ... and those of them that are refunded
    moneyTroubles

purse == <<known, fresh, amount>>
paymentVars == <<selected, pays, payStatus, credited>>
refreshes == <<groupOf, input>>
atExchange == <<left, deposits, refunded>>
moneyVars == <<known, fresh, amount, selected, pays, payStatus, credited, groupOf, input, expired,
               left, deposits, refunded, moneyTroubles>>

Nothing == [c \in PurseCoins |-> 0]
Total(f) == SumOver(f, PurseCoins)
Selections == {s \in [PurseCoins -> 0..Price] : Total(s) = Price}
CoinsOf(s) == {c \in PurseCoins : s[c] > 0}

(* A coin of a refresh group waits, has a session, is melted, has been too *)
(* small, or is done.                                                      *)
Stages == {"out", "waits", "session", "melted", "small", "done"}
Members(g) == {c \in PurseCoins : groupOf[g][c] # "out"}
Settled(g) == \A c \in Members(g) : groupOf[g][c] \in {"small", "done"}
Unfinished == {g \in RefreshGroups : ~Settled(g)}
Unused == {g \in RefreshGroups : Members(g) = {}}

MoneyTypeOK ==
    /\ fresh \subseteq known /\ known \subseteq PurseCoins /\ amount \in [PurseCoins -> Nat]
    /\ selected \in [Payments -> Selections \cup {Nothing}]
    /\ pays \in [Payments -> Selections \cup {Nothing}]
    /\ payStatus \in [Payments -> {"none", "recorded", "aborting"}]
    /\ credited \in [Payments -> SUBSET PurseCoins]
    /\ groupOf \in [RefreshGroups -> [PurseCoins -> Stages]]
    /\ input \in [RefreshGroups -> [PurseCoins -> Nat]]
    /\ expired \subseteq PurseCoins /\ left \in [PurseCoins -> Nat]
    /\ deposits \in [Payments -> SUBSET PurseCoins] /\ refunded \in [Payments -> SUBSET PurseCoins]
    /\ moneyTroubles \in 0..MaxMoneyTroubles

MoneyInit ==
    /\ known = FirstCoins /\ fresh = FirstCoins
    /\ amount = [c \in PurseCoins |-> IF c \in FirstCoins THEN Worth ELSE 0]
    /\ selected = [p \in Payments |-> Nothing] /\ pays = [p \in Payments |-> Nothing]
    /\ payStatus = [p \in Payments |-> "none"] /\ credited = [p \in Payments |-> {}]
    /\ groupOf = [g \in RefreshGroups |-> [c \in PurseCoins |-> "out"]]
    /\ input = [g \in RefreshGroups |-> Nothing] /\ expired = {}
    /\ left = amount
    /\ deposits = [p \in Payments |-> {}] /\ refunded = [p \in Payments |-> {}]
    /\ moneyTroubles = 0

(* Mutant of CreateRefreshGroup: currentAmount is not set to zero. *)
GroupKeepsAmounts(S, now) ==
    \E g \in {h \in Unused : \A i \in Unused : h <= i} :
        /\ groupOf' = [groupOf EXCEPT ![g] = [c \in PurseCoins |->
                                                IF c \in S THEN "waits" ELSE "out"]]
        /\ input' = [input EXCEPT ![g] = [c \in PurseCoins |-> IF c \in S THEN now[c] ELSE 0]]
        /\ amount' = now /\ fresh' = fresh \ S /\ UNCHANGED known

(* createRefreshGroup: what the amounts `now` have left of the coins S     *)
(* goes into a new group.                                                  *)
CreateRefreshGroup(S, now) ==
    \E g \in {h \in Unused : \A i \in Unused : h <= i} :
        /\ groupOf' = [groupOf EXCEPT ![g] = [c \in PurseCoins |->
                                                IF c \in S THEN "waits" ELSE "out"]]
        /\ input' = [input EXCEPT ![g] = [c \in PurseCoins |-> IF c \in S THEN now[c] ELSE 0]]
        /\ amount' = [c \in PurseCoins |-> IF c \in S THEN 0 ELSE now[c]]
        /\ fresh' = fresh \ S
        /\ UNCHANGED known

-----------------------------------------------------------------------------
(* A payment is made of fresh coins, as far as they go.                    *)
SelectForPayment(p, s) ==
    /\ payStatus[p] = "none" /\ selected[p] = Nothing
    /\ CoinsOf(s) \subseteq fresh /\ \A c \in PurseCoins : s[c] <= amount[c]
    /\ selected' = [selected EXCEPT ![p] = s]
    /\ UNCHANGED <<purse, pays, payStatus, credited, refreshes, expired, atExchange, moneyTroubles>>

(* Mutant of RecordPayment: a selection that is stale is not refused. *)
RecordStale(p) ==
    /\ selected[p] # Nothing /\ selected' = [selected EXCEPT ![p] = Nothing]
    /\ pays' = [pays EXCEPT ![p] = selected[p]]
    /\ payStatus' = [payStatus EXCEPT ![p] = "recorded"]
    /\ CreateRefreshGroup(CoinsOf(selected[p]),
           [c \in PurseCoins |->
                IF selected[p][c] > amount[c] THEN 0 ELSE amount[c] - selected[p][c]])
    /\ UNCHANGED <<credited, expired, atExchange, moneyTroubles>>

(* recordConfirmPay with applyCoinSpend: the transaction throws when a     *)
(* coin has not enough left; otherwise all its coins are refreshed.        *)
RecordPayment(p) ==
    /\ selected[p] # Nothing /\ selected' = [selected EXCEPT ![p] = Nothing]
    /\ IF \A c \in PurseCoins : selected[p][c] <= amount[c]
       THEN /\ pays' = [pays EXCEPT ![p] = selected[p]]
            /\ payStatus' = [payStatus EXCEPT ![p] = "recorded"]
            /\ CreateRefreshGroup(CoinsOf(selected[p]),
                                  [c \in PurseCoins |-> amount[c] - selected[p][c]])
       ELSE UNCHANGED <<purse, pays, payStatus, refreshes>>
    /\ UNCHANGED <<credited, expired, atExchange, moneyTroubles>>

(* abortFailedPayWithRefund.                                               *)
AbortPayment(p) ==
    /\ payStatus[p] = "recorded" /\ deposits[p] # CoinsOf(pays[p])
    /\ payStatus' = [payStatus EXCEPT ![p] = "aborting"]
    /\ UNCHANGED <<purse, selected, pays, credited, refreshes, expired, atExchange, moneyTroubles>>

(* acceptRefunds, for one coin or for several at once: a refund that was   *)
(* executed, or, in an abort, a coin that was never deposited.             *)
ApplyRefunds(p, S) ==
    /\ S # {} /\ S \subseteq CoinsOf(pays[p]) \ credited[p]
    /\ S \subseteq refunded[p]
           \cup (IF payStatus[p] = "aborting" THEN PurseCoins \ deposits[p] ELSE {})
    /\ credited' = [credited EXCEPT ![p] = @ \cup S]
    /\ CreateRefreshGroup(S, [c \in PurseCoins |->
                              IF c \in S THEN amount[c] + pays[p][c] ELSE amount[c]])
    /\ UNCHANGED <<selected, pays, payStatus, expired, atExchange, moneyTroubles>>

-----------------------------------------------------------------------------
(* autoRefresh: the fresh coins of expired denominations.                  *)
DenominationExpires(c) ==
    /\ c \in known \ expired /\ expired' = expired \cup {c}
    /\ UNCHANGED <<purse, paymentVars, refreshes, atExchange, moneyTroubles>>

AutoRefresh ==
    /\ fresh \cap expired # {} /\ CreateRefreshGroup(fresh \cap expired, amount)
    /\ UNCHANGED <<paymentVars, expired, atExchange, moneyTroubles>>

Becomes(g, c, s) == groupOf' = [groupOf EXCEPT ![g][c] = s]

(* refreshCreateSession: an input that the fee eats up is given up.        *)
CreateSession(g, c) ==
    /\ groupOf[g][c] = "waits"
    /\ Becomes(g, c, IF input[g][c] <= RefreshFee THEN "small" ELSE "session")
    /\ UNCHANGED <<purse, paymentVars, input, expired, atExchange, moneyTroubles>>

(* The exchange melts a coin that is worth it.                             *)
Melt(g, c) ==
    /\ groupOf[g][c] = "session" /\ input[g][c] <= left[c]
    /\ Becomes(g, c, "melted") /\ left' = [left EXCEPT ![c] = @ - input[g][c]]
    /\ UNCHANGED <<purse, paymentVars, input, expired, deposits, refunded, moneyTroubles>>

(* refreshReveal: the new coin is stored and the old one is done.          *)
Reveal(g, c) ==
    \E n \in PurseCoins \ known :
        /\ groupOf[g][c] = "melted" /\ \A m \in PurseCoins \ known : n <= m
        /\ Becomes(g, c, "done")
        /\ known' = known \cup {n} /\ fresh' = fresh \cup {n}
        /\ amount' = [amount EXCEPT ![n] = input[g][c] - RefreshFee]
        /\ left' = [left EXCEPT ![n] = input[g][c] - RefreshFee]
        /\ UNCHANGED <<paymentVars, input, expired, deposits, refunded, moneyTroubles>>

-----------------------------------------------------------------------------
(* The merchant deposits the coins one by one and grants refunds.          *)
Deposit(p, c) ==
    /\ payStatus[p] = "recorded" /\ c \in CoinsOf(pays[p]) \ deposits[p]
    /\ pays[p][c] <= left[c]
    /\ left' = [left EXCEPT ![c] = @ - pays[p][c]]
    /\ deposits' = [deposits EXCEPT ![p] = @ \cup {c}]
    /\ UNCHANGED <<purse, paymentVars, refreshes, expired, refunded, moneyTroubles>>

Refund(p, c) ==
    /\ c \in deposits[p] \ refunded[p]
    /\ left' = [left EXCEPT ![c] = @ + pays[p][c]]
    /\ refunded' = [refunded EXCEPT ![p] = @ \cup {c}]
    /\ UNCHANGED <<purse, paymentVars, refreshes, expired, deposits, moneyTroubles>>

CrashMoney ==
    /\ moneyTroubles < MaxMoneyTroubles /\ moneyTroubles' = moneyTroubles + 1
    /\ selected' = [p \in Payments |-> Nothing]
    /\ UNCHANGED <<purse, pays, payStatus, credited, refreshes, expired, atExchange>>

MoneyNext ==
    \/ \E p \in Payments :
          \/ \E s \in Selections : SelectForPayment(p, s)
          \/ RecordPayment(p) \/ AbortPayment(p) \/ \E S \in SUBSET PurseCoins : ApplyRefunds(p, S)
          \/ \E c \in PurseCoins : Deposit(p, c) \/ Refund(p, c)
    \/ \E g \in RefreshGroups, c \in PurseCoins : CreateSession(g, c) \/ Melt(g, c) \/ Reveal(g, c)
    \/ AutoRefresh \/ CrashMoney \/ \E c \in PurseCoins : DenominationExpires(c)

MoneySpec == MoneyInit /\ [][MoneyNext]_moneyVars

-----------------------------------------------------------------------------
(* Every unit that the exchange holds for a coin has one place in the      *)
(* wallet, whatever transactions of payments, refunds and refreshes come   *)
(* in between: it is on the coin, in a payment that is not deposited, in a *)
(* refresh that is not melted, a refund to be applied, or given up as too  *)
(* small.                                                                  *)
InPayments(c) ==
    SumOver([p \in Payments |-> IF c \in deposits[p] \cup credited[p] THEN 0 ELSE pays[p][c]],
            Payments)
InRefunds(c) ==
    SumOver([p \in Payments |-> IF c \in refunded[p] \ credited[p] THEN pays[p][c] ELSE 0],
            Payments)
InRefreshes(c) ==
    SumOver([g \in RefreshGroups |->
                IF groupOf[g][c] \in {"waits", "session", "small"} THEN input[g][c] ELSE 0],
            RefreshGroups)

EveryUnitHasOnePlace ==
    \A c \in PurseCoins : left[c] = amount[c] + InPayments(c) + InRefunds(c) + InRefreshes(c)

(* Only fresh coins have an amount: nothing is left on a coin that no      *)
(* payment selects and no refresh takes up.                                *)
DormantIsEmpty == \A c \in PurseCoins : c \notin fresh => amount[c] = 0

(* getBalancesInsideTransaction: the fresh coins, and for every coin of a  *)
(* group that is not finished what its session gives, or is estimated to   *)
(* give.                                                                   *)
Output(g, c) == IF input[g][c] <= RefreshFee THEN 0 ELSE input[g][c] - RefreshFee
Coming(Stage) ==
    SumOver([g \in Unfinished |->
                Total([c \in PurseCoins |-> IF groupOf[g][c] \in Stage THEN Output(g, c) ELSE 0])],
            Unfinished)
Available == Total([c \in PurseCoins |-> IF c \in fresh THEN amount[c] ELSE 0]) + Coming(Stages)

(* "Don't count finished refreshes, since the refresh already resulted in  *)
(* coins being added to the wallet" (balance.ts:86).                      *)
BalanceCountsOnce == Available <= Total(amount) + Coming({"waits", "session", "melted"})

(* What is so: the balance shows no more than what the exchange still      *)
(* gives for the coins and what melted coins are to become, but for the    *)
(* coins of unfinished groups that have become it already.                 *)
BalanceIsCovered == Available <= Total(left) + Coming({"melted", "done"})
===============================================================================
