------------------------------- MODULE Deposit -------------------------------
(***************************************************************************)
(* One deposit group, from createDepositGroup to the deposit of its last   *)
(* coin (operations/deposits.ts).  Beside it the wallet makes a payment    *)
(* that may spend the same coins, and the retry loop runs                  *)
(* processDepositGroup, which is memoised.                                 *)
(***************************************************************************)
EXTENDS Naturals, FiniteSets

CONSTANTS
    DepositCoins,       \* coins of the wallet; a group takes all it finds
    MaxDepositTroubles  \* bound: requests that fail and deaths of the wallet

ASSUME DepositAssumption == MaxDepositTroubles \in Nat

VARIABLES
    wallet,     \* the coins that can still be spent
    elsewhere,  \* the coins that other payments have spent
    group,      \* the coins of the group record; {}: no record
    marked,     \* depositedPerCoin
    complete,   \* timestampFinished is set
    accepted,   \* the coins the exchange has taken in deposit
    maker,      \* createDepositGroup: what it does next
    chosen,     \* its payCoinSelection
    run,        \* processDepositGroupImpl: "idle" or "busy"
    old,        \* the marks in the record as the run has read it
    next,       \* the coins the run has still to look at
    depositTroubles

depositRun == <<run, old, next>>
depositRecord == <<group, marked, complete>>
depositVars == <<wallet, elsewhere, group, marked, complete, accepted, maker, chosen, run, old,
                 next, depositTroubles>>

DepositTypeOK ==
    /\ wallet \subseteq DepositCoins /\ elsewhere \subseteq DepositCoins
    /\ group \subseteq DepositCoins /\ marked \subseteq group
    /\ complete \in BOOLEAN /\ accepted \subseteq DepositCoins
    /\ maker \in {"select", "create", "rewrite", "done"} /\ chosen \subseteq DepositCoins
    /\ run \in {"idle", "busy"} /\ old \subseteq DepositCoins /\ next \subseteq DepositCoins
    /\ depositTroubles \in 0..MaxDepositTroubles

DepositInit ==
    /\ wallet = DepositCoins /\ elsewhere = {} /\ group = {} /\ marked = {}
    /\ complete = FALSE /\ accepted = {}
    /\ maker = "select" /\ chosen = {} /\ run = "idle" /\ old = {} /\ next = {}
    /\ depositTroubles = 0

(* Another payment takes a coin.                                           *)
OtherSpend(c) ==
    /\ c \in wallet /\ wallet' = wallet \ {c} /\ elsewhere' = elsewhere \cup {c}
    /\ UNCHANGED <<depositRecord, accepted, maker, chosen, depositRun, depositTroubles>>

(* createDepositGroup chooses among the coins it sees, without a           *)
(* transaction; no coins are "insufficient funds".                         *)
SelectCoins ==
    /\ maker = "select"
    /\ chosen' = wallet /\ maker' = IF wallet = {} THEN "done" ELSE "create"
    /\ UNCHANGED <<wallet, elsewhere, depositRecord, accepted, depositRun, depositTroubles>>

(* Mutant of CreateDeposit: the group is left to the put that follows. *)
SpendFirst ==
    /\ maker = "create"
    /\ IF chosen \subseteq wallet
       THEN wallet' = wallet \ chosen /\ maker' = "rewrite"
       ELSE maker' = "done" /\ UNCHANGED wallet
    /\ UNCHANGED <<elsewhere, depositRecord, accepted, chosen, depositRun, depositTroubles>>

(* Its transaction spends the coins and stores the group, or throws when a *)
(* coin has been spent meanwhile (applyCoinSpend).                         *)
CreateDeposit ==
    /\ maker = "create"
    /\ IF chosen \subseteq wallet
       THEN wallet' = wallet \ chosen /\ group' = chosen /\ maker' = "rewrite"
       ELSE maker' = "done" /\ UNCHANGED <<wallet, group>>
    /\ UNCHANGED <<elsewhere, marked, complete, accepted, chosen, depositRun, depositTroubles>>

(* It puts the record once more, whatever has been done to it meanwhile.   *)
RewriteDeposit ==
    /\ maker = "rewrite" /\ maker' = "done"
    /\ group' = chosen /\ marked' = {} /\ complete' = FALSE
    /\ UNCHANGED <<wallet, elsewhere, accepted, chosen, depositRun, depositTroubles>>

-----------------------------------------------------------------------------
(* Mutant of StartDeposit: a record without unmarked coins is left alone. *)
StartUnmarked ==
    /\ run = "idle" /\ group # {} /\ ~complete /\ marked # group
    /\ run' = "busy" /\ old' = marked /\ next' = group \ marked
    /\ UNCHANGED <<wallet, elsewhere, depositRecord, accepted, maker, chosen, depositTroubles>>

(* The retry loop takes up a group that is not finished.                   *)
StartDeposit ==
    /\ run = "idle" /\ group # {} /\ ~complete
    /\ run' = "busy" /\ old' = marked /\ next' = group \ marked
    /\ UNCHANGED <<wallet, elsewhere, depositRecord, accepted, maker, chosen, depositTroubles>>

(* The exchange takes a coin, or says again that it has it ...             *)
SendCoin(c) ==
    /\ run = "busy" /\ c \in next \ accepted
    /\ accepted' = accepted \cup {c}
    /\ UNCHANGED <<wallet, elsewhere, depositRecord, maker, chosen, depositRun, depositTroubles>>

(* Mutant of MarkCoin: the coin is marked when the request is made. *)
MarkEarly(c) ==
    /\ run = "busy" /\ c \in next
    /\ marked' = marked \cup {c} /\ next' = next \ {c}
    /\ UNCHANGED <<wallet, elsewhere, group, complete, accepted, maker, chosen, run, old,
                   depositTroubles>>

(* ... and its answer is entered.                                          *)
MarkCoin(c) ==
    /\ run = "busy" /\ c \in next \cap accepted
    /\ marked' = marked \cup {c} /\ next' = next \ {c}
    /\ UNCHANGED <<wallet, elsewhere, group, complete, accepted, maker, chosen, run, old,
                   depositTroubles>>

(* The last transaction finishes the group when every coin was marked in   *)
(* the record the run had read at its beginning, so that it takes one run  *)
(* more.                                                                   *)
EndDeposit ==
    /\ run = "busy" /\ next = {}
    /\ complete' = (complete \/ old = group)
    /\ run' = "idle" /\ old' = {} /\ next' = {}
    /\ UNCHANGED <<wallet, elsewhere, group, marked, accepted, maker, chosen, depositTroubles>>

-----------------------------------------------------------------------------
DepositTrouble ==
    depositTroubles < MaxDepositTroubles /\ depositTroubles' = depositTroubles + 1

FailDeposit ==
    /\ run = "busy" /\ next # {} /\ DepositTrouble
    /\ run' = "idle" /\ old' = {} /\ next' = {}
    /\ UNCHANGED <<wallet, elsewhere, depositRecord, accepted, maker, chosen>>

CrashDeposit ==
    /\ DepositTrouble
    /\ maker' = "done" /\ run' = "idle" /\ old' = {} /\ next' = {}
    /\ UNCHANGED <<wallet, elsewhere, depositRecord, accepted, chosen>>

DepositStep == EndDeposit \/ \E c \in DepositCoins : SendCoin(c) \/ MarkCoin(c)

DepositNext ==
    \/ SelectCoins \/ CreateDeposit \/ RewriteDeposit \/ StartDeposit \/ DepositStep
    \/ FailDeposit \/ CrashDeposit \/ \E c \in DepositCoins : OtherSpend(c)

DepositSpec == DepositInit /\ [][DepositNext]_depositVars

DepositFairness ==
    WF_depositVars(RewriteDeposit) /\ SF_depositVars(StartDeposit) /\ WF_depositVars(DepositStep)
-----------------------------------------------------------------------------
(* No coin is spent twice or for nothing: whatever dies or overlaps, each  *)
(* coin is still there, or spent by another payment, or in the group       *)
(* (deposits.ts:420).                                                      *)
CoinsAreAccounted ==
    /\ wallet \cup elsewhere \cup group = DepositCoins
    /\ wallet \cap elsewhere = {} /\ group \cap (wallet \cup elsewhere) = {}

(* A group is called finished only when the exchange has every coin, on    *)
(* whatever old record that was decided (deposits.ts:231).                 *)
DepositIsComplete == complete => group \subseteq accepted

(* Every group is finished in the end, although the run that deposits the  *)
(* last coin does not finish it.                                           *)
DepositEnds == group # {} ~> complete
=============================================================================
