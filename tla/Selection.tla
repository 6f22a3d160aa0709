------------------------------ MODULE Selection ------------------------------
(***************************************************************************)
(* The choices that are made with amounts: which coins pay for a purchase  *)
(* or a deposit (util/coinSelection.ts), and which denominations are       *)
(* withdrawn (operations/withdraw.ts).  A behaviour is one call: `ask` is  *)
(* its argument and `chosenNow` what it returns.                           *)
(*                                                                         *)
(* Amounts are naturals of one currency; a subtraction saturates at zero.  *)
(* Nobody passes prevPayCoins, so that they are left out.                  *)
(***************************************************************************)
EXTENDS Naturals, Sequences, Sums

CONSTANTS
    PayRequests,        \* arguments of selectPayCoins
    WithdrawRequests,   \* arguments of selectWithdrawalDenominations
    Undefined

(* A coin that is fresh has an amount, and a denomination a value.         *)
ASSUME SelectionAssumption ==
    /\ \A r \in PayRequests :
          /\ r.wireFee \in [DOMAIN r.wireFee -> Nat] /\ r.amortization \in Nat \ {0}
          /\ r.coins \in Seq([exchange : DOMAIN r.wireFee, available : Nat \ {0}, fee : Nat])
          /\ r.price \in Nat /\ r.depositLimit \in Nat /\ r.wireLimit \in Nat
    /\ \A r \in WithdrawRequests :
          r.denoms \in Seq([value : Nat \ {0}, fee : Nat]) /\ r.amount \in Nat
    /\ PayRequests \cap WithdrawRequests = {}
    /\ Undefined \notin [spends : Seq(Nat), customerFees : Nat]

VARIABLES ask, chosenNow

selectionVars == <<ask, chosenNow>>

Least(a, b) == IF a < b THEN a ELSE b
Greatest(a, b) == IF a < b THEN b ELSE a
Minus(a, b) == IF a < b THEN 0 ELSE a - b    \* Amounts.sub(a, b).amount

-----------------------------------------------------------------------------
(* Mutant of TallyFees: the exchange is not marked, its wire fee is        *)
(* accounted for with every coin.                                          *)
TallyEveryCoin(t, r, c) ==
    LET wire == r.wireFee[c.exchange]
        share == Minus(wire, t.wireLimit) \div r.amortization
        fees == share + c.fee
    IN  [t EXCEPT !.wireLimit = Minus(@, wire), !.depositLimit = Minus(@, fees),
                  !.customerFees = @ + Minus(fees, t.depositLimit),
                  !.remaining = @ + Minus(fees, t.depositLimit)]

(* tallyFees, for coin c: the first coin of an exchange brings its wire    *)
(* fee, of which the merchant bears what its two limits still allow.       *)
TallyFees(t, r, c) ==
    LET wire == IF c.exchange \in t.covered THEN 0 ELSE r.wireFee[c.exchange]
        share == Minus(wire, t.wireLimit) \div r.amortization
        fees == share + c.fee
    IN  [t EXCEPT !.wireLimit = Minus(@, wire), !.depositLimit = Minus(@, fees),
                  !.customerFees = @ + Minus(fees, t.depositLimit),
                  !.remaining = @ + Minus(fees, t.depositLimit),
                  !.covered = @ \cup {c.exchange}]

(* One round of the loop over the candidates: coin i is left out when its  *)
(* deposit costs more than it gives, and when enough has been spent.       *)
Consider(r, t, i) ==
    LET c == r.coins[i]
        u == TallyFees(t, r, c)
        spend == Greatest(Least(u.remaining, c.available), c.fee)
    IN  IF c.fee > c.available \/ t.remaining = 0 THEN t
        ELSE [u EXCEPT !.remaining = Minus(@, spend), !.spends[i] = spend]

(* The order of the candidates: by available amount, descending, and by    *)
(* deposit fee.                                                            *)
Before(r, i, j) ==
    LET c == r.coins[i]  d == r.coins[j] IN
    \/ c.available > d.available
    \/ c.available = d.available /\ (c.fee < d.fee \/ (c.fee = d.fee /\ i < j))

LastOf(r, S) == CHOOSE i \in S : \A j \in S \ {i} : Before(r, j, i)

NoCoins(r) ==
    [remaining |-> r.price, wireLimit |-> r.wireLimit, depositLimit |-> r.depositLimit,
     customerFees |-> 0, covered |-> {}, spends |-> [i \in DOMAIN r.coins |-> 0]]

(* The tally when the coins of S have been considered, the last one last.  *)
Tally(r) ==
    LET tally[S \in SUBSET DOMAIN r.coins] ==
            IF S = {} THEN NoCoins(r) ELSE Consider(r, tally[S \ {LastOf(r, S)}], LastOf(r, S))
    IN  tally

SelectPayCoins(r) ==
    LET end == Tally(r)[DOMAIN r.coins]
    IN  IF r.coins = <<>> \/ end.remaining # 0 THEN Undefined
        ELSE [spends |-> end.spends, customerFees |-> end.customerFees]

-----------------------------------------------------------------------------
(* Mutant of LargerFirst: the order of the values is inverted. *)
SmallerFirst(r, i, j) ==
    \/ r.denoms[i].value < r.denoms[j].value
    \/ r.denoms[i].value = r.denoms[j].value /\ i < j

LargerFirst(r, i, j) ==
    \/ r.denoms[i].value > r.denoms[j].value
    \/ r.denoms[i].value = r.denoms[j].value /\ i < j

LargestOf(r, S) == CHOOSE i \in S : \A j \in S \ {i} : LargerFirst(r, i, j)

(* One round of the loop over the denominations: of i as many as fit into  *)
(* the amount, and what the rest gives for what remains.                   *)
AsManyAsFit(r, rest, i) ==
    [amount \in Nat |->
        LET cost == r.denoms[i].value + r.denoms[i].fee
            count == amount \div cost
            others == rest[amount - count * cost]
        IN  [totalCoinValue |-> count * r.denoms[i].value + others.totalCoinValue,
             totalWithdrawCost |-> count * cost + others.totalWithdrawCost]]

NoDenoms == [amount \in Nat |-> [totalCoinValue |-> 0, totalWithdrawCost |-> 0]]

(* What the denominations of S give for an amount, the largest one first.  *)
Gives(r) ==
    LET gives[S \in SUBSET DOMAIN r.denoms] ==
            IF S = {} THEN NoDenoms
            ELSE AsManyAsFit(r, gives[S \ {LargestOf(r, S)}], LargestOf(r, S))
    IN  gives

SelectWithdrawalDenominations(r) == Gives(r)[DOMAIN r.denoms][r.amount]

-----------------------------------------------------------------------------
SelectionInit == ask \in PayRequests \cup WithdrawRequests /\ chosenNow = <<>>

(* At rest, for the modules that model check this one beside others.       *)
NothingAsked == ask = Undefined /\ chosenNow = <<>>

SelectionNext ==
    /\ chosenNow = <<>> /\ UNCHANGED ask
    /\ \/ ask \in PayRequests /\ chosenNow' = SelectPayCoins(ask)
       \/ ask \in WithdrawRequests /\ chosenNow' = SelectWithdrawalDenominations(ask)

SelectionSpec == SelectionInit /\ [][SelectionNext]_selectionVars

-----------------------------------------------------------------------------
(* What a payment is, without an order of coins or fees: of the wire fees  *)
(* of all exchanges involved and the deposit fees of all coins, the        *)
(* customer bears what exceeds the merchant's limits.                      *)
FeeOf(r) == [i \in DOMAIN r.coins |-> r.coins[i].fee]
AmountOf(r) == [i \in DOMAIN r.coins |-> r.coins[i].available]
ExchangesOf(r, S) == {r.coins[i].exchange : i \in S}
CustomersShare(r, S) ==
    Minus((Minus(SumOver(r.wireFee, ExchangesOf(r, S)), r.wireLimit) \div r.amortization)
          + SumOver(FeeOf(r), S), r.depositLimit)
Sensible(r) == {i \in DOMAIN r.coins : r.coins[i].fee <= r.coins[i].available}
CanPay(r) ==
    \E S \in SUBSET Sensible(r) :
        S # {} /\ SumOver(AmountOf(r), S) >= r.price + CustomersShare(r, S)

(* A selection pays: the coins give what they have at most, together the   *)
(* price and the fees that the wallet shows, and no more unless a coin has *)
(* to give its own deposit fee.  These fees are the customer's share, but  *)
(* for what rounding the wire fee of each further exchange saves.  If no   *)
(* selection is found, no set of coins pays, as long as the candidates are *)
(* of one exchange.                                                        *)
SelectionPays ==
    ask \in PayRequests /\ chosenNow # <<>> =>
        IF chosenNow = Undefined
        THEN Cardinality(ExchangesOf(ask, DOMAIN ask.coins)) <= 1 => ~CanPay(ask)
        ELSE LET used == {i \in DOMAIN ask.coins : chosenNow.spends[i] > 0}
                 paid == SumOver(chosenNow.spends, used)
                 fees == chosenNow.customerFees
                 share == CustomersShare(ask, used)
             IN  /\ \A i \in used : chosenNow.spends[i] \in ask.coins[i].fee..ask.coins[i].available
                 /\ fees <= share
                 /\ share <= fees + Minus(Cardinality(ExchangesOf(ask, used)), 1)
                 /\ paid >= ask.price + fees
                 /\ paid > ask.price + fees => \E i \in used : chosenNow.spends[i] = ask.coins[i].fee

(* "As close as possible to the available amount, but never larger": the   *)
(* second always, the first when each value is a multiple of the smaller   *)
(* ones and the fees are all the same.                                     *)
Nested(r) ==
    \A i, j \in DOMAIN r.denoms :
        /\ r.denoms[i].fee = r.denoms[j].fee
        /\ r.denoms[i].value <= r.denoms[j].value => r.denoms[j].value % r.denoms[i].value = 0

WithdrawalIsClosest ==
    ask \in WithdrawRequests /\ chosenNow # <<>> =>
        /\ chosenNow.totalCoinValue <= chosenNow.totalWithdrawCost
        /\ chosenNow.totalWithdrawCost <= ask.amount
        /\ Nested(ask) =>
             \A counts \in [DOMAIN ask.denoms -> 0..ask.amount] :
                LET value == SumOver([i \in DOMAIN counts |-> counts[i] * ask.denoms[i].value],
                                     DOMAIN counts)
                    fees == SumOver([i \in DOMAIN counts |-> counts[i] * ask.denoms[i].fee],
                                    DOMAIN counts)
                IN  value + fees <= ask.amount => value <= chosenNow.totalCoinValue
==============================================================================
