----------------------------- MODULE MCOverlaps -----------------------------
(***************************************************************************)
(* Model checking what overlaps on the smaller kinds of records, side by   *)
(* side, and the choices of coins.  They share no state: `part` says which *)
(* of them a behaviour is about, and the others are at rest.               *)
(***************************************************************************)
EXTENDS ExchangeUpdate, Backup, Proposal, Money, Selection, ObjectStore, RequestThrottler, TLC

VARIABLE part

overlapVars ==
    <<part, exchangeVars, backupVars, proposalVars, moneyVars, selectionVars, storeVars,
      throttleVars>>

(* At rest: an account without a device, an order whose terms nobody asks  *)
(* for, a transaction that has ended.                                      *)
Init ==
    /\ part \in {"exchange", "backup", "proposal", "money", "selection", "store", "throttle"}
    /\ ExchangeInit /\ ProposalInit /\ MoneyInit
    /\ IF part = "backup" THEN BackupInit ELSE joined = {} /\ Unsynchronised
    /\ IF part = "selection" THEN SelectionInit ELSE NothingAsked
    /\ part # "proposal" => ~termsOkay /\ ~bought
    /\ IF part = "store" THEN StoreInit
       ELSE records = {} /\ requests = <<>> /\ storeTx = "aborted" /\ Unwalked
    /\ ThrottleInit

Next ==
    /\ UNCHANGED part
    /\ IF part = "exchange" THEN ExchangeNext ELSE UNCHANGED exchangeVars
    /\ IF part = "backup" THEN BackupNext ELSE UNCHANGED backupVars
    /\ IF part = "proposal" THEN ProposalNext ELSE UNCHANGED proposalVars
    /\ IF part = "money" THEN MoneyNext ELSE UNCHANGED moneyVars
    /\ IF part = "selection" THEN SelectionNext ELSE UNCHANGED selectionVars
    /\ IF part = "store" THEN StoreNextStep ELSE UNCHANGED storeVars
    /\ IF part = "throttle" THEN ThrottleNext ELSE UNCHANGED throttleVars

Spec == Init /\ [][Next]_overlapVars

(* Nothing tells cycles, updates, or payments from each other.             *)
Alike == Permutations(Cycles) \cup Permutations(Updates) \cup Permutations(Payments)

(* The requests of the choices: up to three coins of one exchange and of   *)
(* two, up to three denominations.  A wire fee may exceed its limit, a     *)
(* deposit fee its coin; denominations are nested and not, with fees that  *)
(* are equal and not.                                                      *)
UpTo(n, S) == UNION {[1..k -> S] : k \in 0..n}
Candidates(E, A, F) == UpTo(3, [exchange : E, available : A, fee : F])

MCPay ==
    [coins : Candidates({"e"}, {1, 3}, {0, 1, 2}), price : {1, 2, 4}, depositLimit : {0, 2},
     wireLimit : {0, 1}, wireFee : [{"e"} -> {0, 3}], amortization : {1, 2}]
    \cup
    [coins : Candidates({"e", "f"}, {1, 3}, {0, 1}), price : {2, 4}, depositLimit : {0, 1},
     wireLimit : {0, 1}, wireFee : [{"e", "f"} -> {0, 3}], amortization : {1, 2}]

MCWithdraw ==
    [denoms : UpTo(3, [value : {1, 2, 4, 5}, fee : {0, 1}]), amount : {0, 3, 5, 8}]

(* Records 1 and 3 have the same index key.  One stream over the store,    *)
(* one over the index, one over the entry of a single index key.           *)
MCIndexKeyOf == 1 :> 1 @@ 2 :> 2 @@ 3 :> 1
MCFrom == "all" :> 0 @@ "byIndex" :> 0 @@ "byKey" :> 1
MCTo == "all" :> 9 @@ "byIndex" :> 9 @@ "byKey" :> 1

(* Two buckets, so that each of them is the narrower one at times.         *)
MCCap == "second" :> 2 @@ "hour" :> 3
MCPeriod == "second" :> 2 @@ "hour" :> 5
=============================================================================
