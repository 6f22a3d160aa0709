------------------------------ MODULE Purchase ------------------------------
(***************************************************************************)
(* The life of one purchase (operations/pay.ts, operations/refund.ts): the *)
(* user confirms a proposal, coins are selected and spent, the payment is  *)
(* submitted until the merchant takes it, and the money may come back, by  *)
(* a refund or because the user aborts a payment that fails.               *)
(*                                                                         *)
(* Several calls work on the record at a time: the user's (confirmPay,     *)
(* abortFailedPayWithRefund, applyRefund) and the retry loop's.  A task is *)
(* one such call between its awaits; what it read is kept in its record.   *)
(*                                                                         *)
(* Abstraction: every coin is worth one unit, a contribution takes all of  *)
(* it, fees are zero, and an order costs Price coins.  The merchant and    *)
(* the exchange are external: the merchant deposits the coins of payments  *)
(* it received one by one, until the order is paid or aborted.             *)
(***************************************************************************)
EXTENDS Integers, FiniteSets

CONSTANTS
    Coins, Tasks,
    Price,              \* coins needed to pay
    ConfirmsOverlap,    \* may confirmPay be called while it still runs?
    MaxFaults           \* bound on requests that fail

ASSUME PurchaseAssumption ==
    /\ Price \in Nat \ {0} /\ MaxFaults \in Nat
    /\ ConfirmsOverlap \in BOOLEAN

VARIABLES
    p,          \* the purchase record
    amt,        \* currentAmount of the coins
    refreshing, \* value put into refresh groups (inputPerCoin), per coin
    task,
    value,      \* what the exchange lets each coin still pay
    received,   \* coin selections the merchant received for this order
    order,      \* the order at the merchant
    paidWith,   \* the coins that paid it
    refund,     \* what became of a refund for a deposited coin
    faults      \* requests that failed so far

wallet == <<p, amt, refreshing>>
outside == <<value, received, order, paidWith, refund, faults>>
vars == <<p, amt, refreshing, task, value, received, order, paidWith, refund, faults>>

Kinds == {"refund", "abort"}    \* the rtransaction_id: the merchant's, or 0
RefundStates == {"none", "pending", "applied", "failed"}
Answers == {"none", "success", "transient", "gone", "notfound"}

NoAnswer == [c \in Coins |-> "none"]
IdleTask == [at |-> "idle", sel |-> {}, ans |-> NoAnswer]
NoRefunds == [k \in Kinds |-> [c \in Coins |-> "none"]]

TypeOK ==
    /\ p \in [exists : BOOLEAN, sel : SUBSET Coins, submit : BOOLEAN, paid : BOOLEAN,
              query : BOOLEAN, auto : BOOLEAN, abort : {"none", "refund", "finished"},
              refunds : [Kinds -> [Coins -> RefundStates]]]
    /\ amt \in [Coins -> {0, 1}]
    /\ refreshing \in [Coins -> Nat]
    /\ task \in [Tasks -> [at : {"idle", "select", "record", "submit", "paySent", "payGot",
                                 "paidSent", "refundSent", "refundGot", "abortSent", "abortGot"},
                           sel : SUBSET Coins, ans : [Coins -> Answers]]]
    /\ value \in [Coins -> {0, 1}]
    /\ received \subseteq SUBSET Coins
    /\ order \in {"open", "paid", "aborted"} /\ paidWith \subseteq Coins
    /\ refund \in [Coins -> {"none", "deposited", "granted", "done", "gone"}]
    /\ faults \in 0..MaxFaults

Init ==
    /\ p = [exists |-> FALSE, sel |-> {}, submit |-> FALSE, paid |-> FALSE, query |-> FALSE,
            auto |-> FALSE, abort |-> "none", refunds |-> NoRefunds]
    /\ amt = [c \in Coins |-> 1]
    /\ refreshing = [c \in Coins |-> 0]
    /\ task = [t \in Tasks |-> IdleTask]
    /\ value = [c \in Coins |-> 1]
    /\ received = {} /\ order = "open" /\ paidWith = {}
    /\ refund = [c \in Coins |-> "none"] /\ faults = 0

Paid == order = "paid"
Goto(t, at) == task' = [task EXCEPT ![t].at = at]
End(t) == task' = [task EXCEPT ![t] = IdleTask]

-----------------------------------------------------------------------------
(* Confirming. *)

(* confirmPay up to its branch: an existing purchase is submitted again,   *)
(* under a new session ID as a replay.                                     *)
ConfirmPay(t) ==
    /\ task[t].at = "idle"
    /\ ConfirmsOverlap \/ \A s \in Tasks : task[s].at \notin {"select", "record"}
    /\ IF p.exists
       THEN /\ \/ p' = [p EXCEPT !.submit = TRUE]
               \/ UNCHANGED p
            /\ Goto(t, "submit")
       ELSE Goto(t, "select") /\ UNCHANGED p
    /\ UNCHANGED <<amt, refreshing, outside>>

(* getCandidatePayCoins and selectPayCoins read the database again. *)
SelectCoins(t) ==
    /\ task[t].at = "select"
    /\ LET choices == {s \in SUBSET {c \in Coins : amt[c] = 1} : Cardinality(s) = Price}
       IN  \/ choices = {} /\ End(t)
           \/ \E s \in choices : task' = [task EXCEPT ![t].at = "record", ![t].sel = s]
    /\ UNCHANGED <<wallet, outside>>

(* recordConfirmPay: put the new purchase, spend its coins; if one of them *)
(* was spent meanwhile, the transaction is aborted.                        *)
NewPurchase(sel) ==
    [exists |-> TRUE, sel |-> sel, submit |-> TRUE, paid |-> FALSE, query |-> FALSE,
     auto |-> FALSE, abort |-> "none", refunds |-> NoRefunds]

RecordConfirmPay(t) ==
    /\ task[t].at = "record"
    /\ IF \E c \in task[t].sel : amt[c] = 0
       THEN End(t) /\ UNCHANGED wallet
       ELSE /\ p' = NewPurchase(task[t].sel)
            /\ amt' = [c \in Coins |-> IF c \in task[t].sel THEN 0 ELSE amt[c]]
            /\ Goto(t, "submit")
            /\ UNCHANGED refreshing
    /\ UNCHANGED outside

-----------------------------------------------------------------------------
(* Paying. *)

(* processPurchasePay, for a pending payment; or a payment shown again     *)
(* under another session (checkPaymentByProposalId).                       *)
StartSubmit(t) ==
    /\ task[t].at = "idle" /\ p.exists /\ p.submit /\ p.abort = "none"
    /\ Goto(t, "submit")
    /\ UNCHANGED <<wallet, outside>>

(* submitPay: refused for an aborted purchase; the request is sent.        *)
SubmitPay(t) ==
    /\ task[t].at = "submit"
    /\ \/ p.abort # "none" /\ End(t) /\ UNCHANGED received
       \/ /\ p.abort = "none" /\ ~p.paid
          /\ task' = [task EXCEPT ![t].at = "paySent", ![t].sel = p.sel]
          /\ received' = received \cup {p.sel}
       \/ p.abort = "none" /\ p.paid /\ Goto(t, "paidSent") /\ UNCHANGED received
    /\ UNCHANGED <<wallet, value, order, paidWith, refund, faults>>

PayAnswered(t) ==
    /\ task[t].at = "paySent" /\ Paid /\ paidWith = task[t].sel
    /\ Goto(t, "payGot")
    /\ UNCHANGED <<wallet, outside>>

(* Mutant of StoreFirstPaySuccess: the payment stays pending. *)
StorePayStaysPending(t) ==
    /\ task[t].at = "payGot"
    /\ p' = [p EXCEPT !.submit = FALSE]
    /\ End(t)
    /\ UNCHANGED <<amt, refreshing, outside>>

(* storeFirstPaySuccess; auto is contractData.autoRefund. *)
StoreFirstPaySuccess(t) ==
    /\ task[t].at = "payGot"
    /\ IF p.paid
       THEN UNCHANGED p
       ELSE \E auto \in BOOLEAN :
               p' = [p EXCEPT !.paid = TRUE, !.submit = FALSE,
                              !.auto = auto, !.query = @ \/ auto]
    /\ End(t)
    /\ UNCHANGED <<amt, refreshing, outside>>

(* The merchant's answer to /paid, and storePayReplaySuccess (which throws *)
(* if the purchase is not paid).                                           *)
PaidAnswered(t) ==
    /\ task[t].at = "paidSent"
    /\ IF p.paid THEN p' = [p EXCEPT !.submit = FALSE] ELSE UNCHANGED p
    /\ End(t)
    /\ UNCHANGED <<amt, refreshing, outside>>

(* A request fails: network, timeout, error status.  What the merchant got *)
(* it may still process.                                                   *)
RequestFails(t) ==
    /\ task[t].at \in {"paySent", "paidSent", "refundSent", "abortSent"}
    /\ faults < MaxFaults /\ faults' = faults + 1
    /\ End(t)
    /\ UNCHANGED <<wallet, value, received, order, paidWith, refund>>

(* The merchant refuses to take a payment for an order that is aborted or  *)
(* paid with other coins, and to abort one that is paid.                   *)
Refused(t) ==
    /\ \/ task[t].at = "paySent" /\ (order = "aborted" \/ (Paid /\ paidWith # task[t].sel))
       \/ task[t].at = "abortSent" /\ Paid
    /\ End(t)
    /\ UNCHANGED <<wallet, outside>>

-----------------------------------------------------------------------------
(* Refunds. *)

(* abortFailedPayWithRefund *)
AbortFailedPay ==
    /\ p.exists /\ ~p.paid /\ p.abort = "none"
    /\ p' = [p EXCEPT !.query = TRUE, !.submit = FALSE, !.abort = "refund"]
    /\ UNCHANGED <<amt, refreshing, task, outside>>

(* applyRefund, up to the query it starts. *)
ApplyRefund ==
    /\ p.exists /\ ~p.query
    /\ p' = [p EXCEPT !.query = TRUE]
    /\ UNCHANGED <<amt, refreshing, task, outside>>

(* processPurchaseQueryRefund, up to its request: a paid purchase asks for *)
(* refunds, an aborted one sends the abort, any other returns.             *)
QueryRefund(t) ==
    /\ task[t].at = "idle" /\ p.exists /\ p.query
    /\ \/ p.paid /\ Goto(t, "refundSent")
       \/ /\ ~p.paid /\ p.abort = "refund"
          /\ task' = [task EXCEPT ![t].at = "abortSent", ![t].sel = p.sel]
    /\ UNCHANGED <<wallet, outside>>

(* What the merchant says of a coin's refund. *)
Says(c) == CASE refund[c] = "done" -> "success"
             [] refund[c] = "gone" -> "gone"
             [] refund[c] = "none" -> "notfound"
             [] OTHER -> "transient"

(* The answer to /refund lists the refunds the merchant granted. *)
RefundAnswered(t) ==
    /\ task[t].at = "refundSent" /\ Paid
    /\ task' = [task EXCEPT ![t].at = "refundGot", ![t].ans =
                   [c \in Coins |-> IF refund[c] \in {"granted", "done", "gone"}
                                    THEN Says(c) ELSE "none"]]
    /\ UNCHANGED <<wallet, outside>>

(* The answer to /abort: one entry per coin, in the order of the request. *)
AbortAnswered(t) ==
    /\ task[t].at = "abortSent" /\ ~Paid
    /\ order' = "aborted"
    /\ refund' = [c \in Coins |-> IF c \in task[t].sel /\ refund[c] = "deposited"
                                  THEN "granted" ELSE refund[c]]
    /\ task' = [task EXCEPT ![t].at = "abortGot", ![t].ans =
                   [c \in Coins |-> IF c \in task[t].sel THEN Says(c) ELSE "none"]]
    /\ UNCHANGED <<wallet, value, received, paidWith, faults>>

(* Mutants of Skipped: only failures are final; whatever is known is.      *)
SkippedForgetsApplied(old, a) == old = "failed" \/ (a = "transient" /\ old = "pending")
SkippedPending(old, a) == old # "none"

(* acceptRefunds: entries that are applied or failed already, or pending   *)
(* again, are skipped.                                                     *)
Skipped(old, a) == old \in {"applied", "failed"} \/ (a = "transient" /\ old = "pending")

Stored(old, a) ==
    IF a = "none" \/ Skipped(old, a) THEN old
    ELSE CASE a = "success" -> "applied"
           [] a = "transient" -> "pending"
           [] OTHER -> "failed"

(* Mutant of Credited: coins the merchant never deposited are left out. *)
CreditedSuccess(kind, ans) ==
    {c \in Coins : /\ ~Skipped(p.refunds[kind][c], ans[c])
                   /\ ans[c] = "success"}

(* The coins whose value comes back: a refund that succeeded, or, if the   *)
(* purchase was aborted, the contribution of a coin never deposited.       *)
Credited(kind, ans) ==
    {c \in Coins : /\ ~Skipped(p.refunds[kind][c], ans[c])
                   /\ \/ ans[c] = "success"
                      \/ ans[c] = "notfound" /\ p.abort = "refund" /\ c \in p.sel}

(* Mutant of QueryDone: does not wait for pending refunds. *)
QueryDoneEarly(refunds, expired) == p.paid /\ p.auto => expired

(* Is there nothing to wait for?  The deadline of the automatic refund is  *)
(* reached or not.                                                         *)
QueryDone(refunds, expired) ==
    /\ p.paid /\ p.auto => expired
    /\ \A k \in Kinds, c \in Coins : refunds[k][c] # "pending"

AcceptRefunds(t) ==
    /\ task[t].at \in {"refundGot", "abortGot"}
    /\ LET ans == task[t].ans
           kind == IF task[t].at = "refundGot" THEN "refund" ELSE "abort"
           refunds == [p.refunds EXCEPT ![kind] = [c \in Coins |-> Stored(@[c], ans[c])]]
           back == Credited(kind, ans)
       IN  /\ amt' = [c \in Coins |-> IF c \in back THEN 0 ELSE amt[c]]
           /\ refreshing' = [c \in Coins |->
                 IF c \in back THEN refreshing[c] + amt[c] + 1 ELSE refreshing[c]]
           /\ \E expired \in BOOLEAN :
                 p' = IF QueryDone(refunds, expired)
                      THEN [p EXCEPT !.refunds = refunds, !.query = FALSE,
                                     !.auto = FALSE,
                                     !.abort = IF @ = "refund" THEN "finished" ELSE @]
                      ELSE [p EXCEPT !.refunds = refunds]
    /\ End(t)
    /\ UNCHANGED outside

-----------------------------------------------------------------------------
(* The merchant and the exchange. *)

(* The merchant deposits a coin of a payment it received. *)
Deposit(c) ==
    /\ order = "open" /\ value[c] = 1 /\ \E s \in received : c \in s
    /\ value' = [value EXCEPT ![c] = 0]
    /\ refund' = [refund EXCEPT ![c] = "deposited"]
    /\ UNCHANGED <<wallet, task, received, order, paidWith, faults>>

MarkPaid ==
    /\ order = "open"
    /\ \E s \in received : /\ \A c \in s : refund[c] = "deposited"
                           /\ paidWith' = s
    /\ order' = "paid"
    /\ UNCHANGED <<wallet, task, value, received, refund, faults>>

GrantRefund(c) ==
    /\ Paid /\ c \in paidWith /\ refund[c] = "deposited"
    /\ refund' = [refund EXCEPT ![c] = "granted"]
    /\ UNCHANGED <<wallet, task, value, received, order, paidWith, faults>>

(* The exchange refunds a deposit, or it is too late for that. *)
ExchangeRefunds(c) ==
    /\ refund[c] = "granted"
    /\ \/ refund' = [refund EXCEPT ![c] = "done"] /\ value' = [value EXCEPT ![c] = 1]
       \/ refund' = [refund EXCEPT ![c] = "gone"] /\ UNCHANGED value
    /\ UNCHANGED <<wallet, task, received, order, paidWith, faults>>

(* Another purchase of the wallet spends a coin. *)
OtherSpend(c) ==
    /\ amt[c] = 1
    /\ amt' = [amt EXCEPT ![c] = 0] /\ value' = [value EXCEPT ![c] = 0]
    /\ UNCHANGED <<p, refreshing, task, received, order, paidWith, refund, faults>>

Next ==
    \/ \E t \in Tasks :
          \/ ConfirmPay(t) \/ SelectCoins(t) \/ RecordConfirmPay(t)
          \/ StartSubmit(t) \/ SubmitPay(t) \/ PayAnswered(t) \/ StoreFirstPaySuccess(t)
          \/ PaidAnswered(t) \/ RequestFails(t) \/ Refused(t)
          \/ QueryRefund(t) \/ RefundAnswered(t) \/ AbortAnswered(t) \/ AcceptRefunds(t)
    \/ AbortFailedPay \/ ApplyRefund \/ MarkPaid
    \/ \E c \in Coins : Deposit(c) \/ GrantRefund(c) \/ ExchangeRefunds(c) \/ OtherSpend(c)

Spec == Init /\ [][Next]_vars

(* A call goes on after its database accesses; requests are answered; the  *)
(* retry loop comes back to what is pending, even if the user keeps other  *)
(* calls going; the merchant and the exchange finish what they started.    *)
Work(t) ==
    \/ SelectCoins(t) \/ RecordConfirmPay(t) \/ SubmitPay(t) \/ PayAnswered(t)
    \/ StoreFirstPaySuccess(t) \/ PaidAnswered(t) \/ Refused(t)
    \/ RefundAnswered(t) \/ AbortAnswered(t) \/ AcceptRefunds(t)

FairSpec ==
    /\ Spec
    /\ \A t \in Tasks : WF_vars(Work(t))
    /\ SF_vars(\E t \in Tasks : StartSubmit(t))
    /\ SF_vars(\E t \in Tasks : QueryRefund(t))
    /\ WF_vars(MarkPaid)
    /\ WF_vars(\E c \in Coins : Deposit(c)) /\ WF_vars(\E c \in Coins : ExchangeRefunds(c))

-----------------------------------------------------------------------------
(* Properties. *)

(* The wallet never counts on more than the exchange will honour: a refund *)
(* is credited once, however many queries run at a time, and a coin whose  *)
(* payment was aborted only if it can no longer be deposited.              *)
CreditIsBacked == \A c \in Coins : amt[c] + refreshing[c] <= value[c]

(* No money is forgotten: a coin that could still be spent at the exchange *)
(* is on the coin record, in a refresh group, or bound by a purchase the   *)
(* wallet still works on; or the merchant has its refund ready.            *)
NothingForgotten ==
    \A c \in Coins : value[c] = 1 =>
        \/ amt[c] + refreshing[c] = 1
        \/ p.exists /\ c \in p.sel /\ (p.submit \/ p.query)
        \/ Paid /\ refund[c] = "done"

(* An abort that is finished has brought back every coin of the payment,   *)
(* except where the exchange refused, and unless the payment went through. *)
AbortIsComplete ==
    p.abort = "finished" => \/ p.paid
                            \/ \A c \in p.sel : refreshing[c] = 1 \/ refund[c] = "gone"

(* A payment the wallet keeps submitting gets through, unless aborted. *)
PaymentGetsThrough ==
    (p.exists /\ p.submit) ~> (p.paid \/ p.abort # "none")

(* An abort comes to an end, unless the merchant already has its money.    *)
AbortEnds == (p.abort = "refund" /\ ~Paid) ~> (p.abort = "finished" \/ Paid)

(* "No point in aborting it" (refund.ts), "not submitting payment for      *)
(* aborted purchase" (pay.ts): a purchase is paid or aborted, not both.    *)
PaidOrAborted == ~(p.paid /\ p.abort # "none")
=============================================================================
