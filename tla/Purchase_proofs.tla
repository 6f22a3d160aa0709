--------------------------- MODULE Purchase_proofs ---------------------------
(***************************************************************************)
(* What holds of a purchase for every set of coins, price and number of    *)
(* overlapping calls, if confirmPay is not called again while it runs,     *)
(* proved with TLAPS.                                                      *)
(***************************************************************************)
EXTENDS Purchase, TLAPS

NoPurchase ==
    [exists |-> FALSE, sel |-> {}, submit |-> FALSE, paid |-> FALSE, query |-> FALSE,
     auto |-> FALSE, abort |-> "none", refunds |-> NoRefunds]

(* Before the confirmation is recorded: one task at most is about to.      *)
Before ==
    ~p.exists =>
        /\ p = NoPurchase /\ received = {} /\ order = "open"
        /\ \A t \in Tasks : task[t].at \in {"idle", "select", "record"}

Confirming(t) == task[t].at \in {"select", "record"}

OneConfirms ==
    \A t \in Tasks : Confirming(t) => ~p.exists /\ \A s \in Tasks : Confirming(s) => s = t

(* A coin outside of the purchase; its value is what is on its record.     *)
Outside(c) == refund[c] = "none" /\ refreshing[c] = 0 /\ amt[c] = value[c]

(* A coin of the purchase; its value is what the merchant has not taken or *)
(* has given back.                                                         *)
Inside(c) ==
    /\ amt[c] = 0 /\ refreshing[c] \in {0, 1}
    /\ value[c] = 1 <=> refund[c] \in {"none", "done"}
    /\ order = "open" => refund[c] \in {"none", "deposited"} /\ refreshing[c] = 0
    /\ Paid => refund[c] # "none"
    /\ order = "aborted" => refund[c] # "deposited"

(* What the record says of a coin's refund agrees with the merchant's and  *)
(* the exchange's view, and a value is credited with a final entry only.   *)
Entered(c) ==
    LET r == p.refunds["refund"][c]  a == p.refunds["abort"][c]
    IN  /\ r # "none" => Paid /\ r \in {"pending", "applied", "failed"}
        /\ a # "none" => order = "aborted" /\ p.abort # "none"
        /\ r = "applied" <=> Paid /\ refreshing[c] = 1
        /\ r = "applied" => refund[c] = "done"
        /\ a \in {"applied", "failed"} <=> order = "aborted" /\ (refreshing[c] = 1 \/ a = "failed")
        /\ a = "applied" => refund[c] = "done" /\ refreshing[c] = 1
        /\ a = "failed" => refund[c] = "gone" \/ (refund[c] = "none" /\ refreshing[c] = 1)
        /\ refreshing[c] = 1 => refund[c] \in {"none", "done"}

CoinOK(c) == IF c \in p.sel THEN Inside(c) /\ Entered(c)
                            ELSE Outside(c) /\ \A k \in Kinds : p.refunds[k][c] = "none"

(* An answer under way, in x, is still true of the coin when it is entered. *)
AnswerIsTrue(x, c) ==
    LET a == x.ans[c]
    IN  /\ a # "none" => c \in p.sel
        /\ a = "success" => refund[c] = "done"
        /\ a = "gone" => refund[c] = "gone"
        /\ a = "notfound" => x.at = "abortGot" /\ refund[c] = "none"
        /\ x.at = "abortGot" /\ c \in p.sel => a # "none"

(* What a task x knows. *)
TaskOK(x) ==
    /\ x.at \in {"paySent", "abortSent", "abortGot"} => x.sel = p.sel
    /\ x.at = "payGot" => Paid
    /\ x.at \in {"paidSent", "refundSent", "refundGot"} => p.paid
    /\ x.at \in {"abortSent", "abortGot"} => p.abort # "none"
    /\ x.at = "abortGot" => order = "aborted"
    /\ x.at \in {"refundGot", "abortGot"} => \A c \in Coins : AnswerIsTrue(x, c)

PurchaseOK ==
    /\ p.exists => received \subseteq {p.sel} /\ (Paid => paidWith = p.sel)
    /\ p.paid => Paid
    /\ p.exists /\ order = "open" => p.submit \/ p.query
    /\ p.abort = "refund" => p.query
    /\ order = "aborted" => p.abort # "none"
    /\ p.abort = "finished" /\ ~p.paid =>
          \A c \in p.sel : p.refunds["abort"][c] \in {"applied", "failed"}

CoinsOK == \A c \in Coins : CoinOK(c)
TasksOK == \A t \in Tasks : TaskOK(task[t])

PurchaseInv == TypeOK /\ Before /\ OneConfirms /\ PurchaseOK /\ CoinsOK /\ TasksOK

-----------------------------------------------------------------------------
(* What stays true.                                                        *)
Places == {"idle", "select", "record", "submit", "paySent", "payGot",
           "paidSent", "refundSent", "refundGot", "abortSent", "abortGot"}
TaskType == [at : Places, sel : SUBSET Coins, ans : [Coins -> Answers]]
PurchaseType ==
    [exists : BOOLEAN, sel : SUBSET Coins, submit : BOOLEAN, paid : BOOLEAN,
     query : BOOLEAN, auto : BOOLEAN, abort : {"none", "refund", "finished"},
     refunds : [Kinds -> [Coins -> RefundStates]]]

(* Nothing a task knows of the purchase becomes wrong. *)
Stable ==
    /\ p'.sel = p.sel
    /\ p.paid => p'.paid
    /\ p.abort # "none" => p'.abort # "none"
    /\ order # "open" => order' = order
    /\ \A c \in Coins : refund[c] \in {"done", "gone"} => refund'[c] = refund[c]
    /\ \A c \in Coins : order = "aborted" /\ refund[c] = "none" => refund'[c] = "none"

LEMMA TasksKeep ==
    ASSUME Stable, NEW x, TaskOK(x)
    PROVE  TaskOK(x)'
  BY DEF Stable, TaskOK, AnswerIsTrue, Paid

LEMMA NoTaskMoves ==
    ASSUME PurchaseInv, Stable, UNCHANGED task, p'.exists = p.exists
    PROVE  TasksOK' /\ OneConfirms'
  <1>1. ASSUME NEW t \in Tasks PROVE TaskOK(task[t])'
    <2>1. PICK x : x = task[t]
      OBVIOUS
    <2>2. TaskOK(x)'
      BY <2>1, TasksKeep DEF PurchaseInv, TasksOK
    <2>3. QED
      BY <2>1, <2>2
  <1>2. QED
    BY <1>1 DEF TasksOK, PurchaseInv, OneConfirms, Confirming

LEMMA OneTaskMoves ==
    ASSUME PurchaseInv, Stable, NEW t \in Tasks, NEW x \in TaskType, TaskOK(x)',
           task' = [task EXCEPT ![t] = x]
    PROVE  task' \in [Tasks -> TaskType] /\ TasksOK'
  <1>0. task \in [Tasks -> TaskType]
    BY DEF PurchaseInv, TypeOK, TaskType, Places
  <1>1. ASSUME NEW s \in Tasks PROVE TaskOK(task[s])'
    <2>1. CASE s = t
      BY <1>0, <2>1
    <2>2. CASE s # t
      <3>1. PICK y : y = task[s]
        OBVIOUS
      <3>2. TaskOK(y)'
        BY <3>1, TasksKeep DEF PurchaseInv, TasksOK
      <3>3. QED
        BY <1>0, <2>2, <3>1, <3>2
    <2>3. QED
      BY <2>1, <2>2
  <1>2. QED
    BY <1>0, <1>1 DEF TasksOK

LEMMA NobodyElseConfirms ==
    ASSUME PurchaseInv, NEW t \in Tasks, NEW x \in TaskType, task' = [task EXCEPT ![t] = x],
           x.at \notin {"select", "record"}, p'.exists = p.exists \/ Confirming(t)
    PROVE  OneConfirms'
  <1>0. task \in [Tasks -> TaskType]
    BY DEF PurchaseInv, TypeOK, TaskType, Places
  <1>1. \A s \in Tasks : task'[s] = IF s = t THEN x ELSE task[s]
    BY <1>0
  <1>2. QED
    BY <1>1 DEF PurchaseInv, OneConfirms, Confirming

LEMMA CoinsKeep ==
    ASSUME PurchaseInv, UNCHANGED <<amt, refreshing, value, order, refund>>,
           p'.sel = p.sel, p'.refunds = p.refunds, p.abort # "none" => p'.abort # "none"
    PROVE  CoinsOK'
  BY DEF PurchaseInv, CoinsOK, CoinOK, Inside, Entered, Outside, Paid

-----------------------------------------------------------------------------
(* A task goes on without a change of the record or outside of the wallet. *)
LEMMA TaskMoves ==
    ASSUME PurchaseInv, UNCHANGED <<wallet, value, received, order, paidWith, refund>>,
           faults' \in 0..MaxFaults, NEW t \in Tasks, NEW x \in TaskType, TaskOK(x),
           task' = [task EXCEPT ![t] = x], x.at \notin {"select", "record"},
           p.exists \/ x.at = "idle"
    PROVE  PurchaseInv'
  <1> USE DEF wallet
  <1>1. Stable
    BY DEF Stable
  <1>2. TaskOK(x)'
    BY <1>1, TasksKeep
  <1>3. task' \in [Tasks -> TaskType] /\ TasksOK'
    BY <1>1, <1>2, OneTaskMoves
  <1>4. OneConfirms'
    BY NobodyElseConfirms
  <1>5. CoinsOK'
    BY CoinsKeep
  <1>6. TypeOK'
    BY <1>3 DEF PurchaseInv, TypeOK, TaskType, Places
  <1>7. Before'
    BY <1>3 DEF PurchaseInv, Before, TypeOK, NoPurchase
  <1>8. PurchaseOK'
    BY DEF PurchaseInv, PurchaseOK, Paid
  <1>9. QED
    BY <1>3, <1>4, <1>5, <1>6, <1>7, <1>8 DEF PurchaseInv

(* The record of a task that goes to a, with the coins S and the answers A. *)
At(a, S, A) == [at |-> a, sel |-> S, ans |-> A]

LEMMA ChangedAt ==
    ASSUME NEW x \in TaskType, NEW a
    PROVE  [x EXCEPT !.at = a] = At(a, x.sel, x.ans)
  BY DEF TaskType, At

LEMMA ChangedSel ==
    ASSUME NEW x \in TaskType, NEW a, NEW S
    PROVE  [x EXCEPT !.at = a, !.sel = S] = At(a, S, x.ans)
  <1>1. [x EXCEPT !.at = a, !.sel = S] = [[x EXCEPT !.at = a] EXCEPT !.sel = S]
    OBVIOUS
  <1>2. [At(a, x.sel, x.ans) EXCEPT !.sel = S] = At(a, S, x.ans)
    BY DEF At
  <1>3. QED
    BY <1>1, <1>2, ChangedAt

LEMMA ChangedAns ==
    ASSUME NEW x \in TaskType, NEW a, NEW A
    PROVE  [x EXCEPT !.at = a, !.ans = A] = At(a, x.sel, A)
  <1>1. [x EXCEPT !.at = a, !.ans = A] = [[x EXCEPT !.at = a] EXCEPT !.ans = A]
    OBVIOUS
  <1>2. [At(a, x.sel, x.ans) EXCEPT !.ans = A] = At(a, x.sel, A)
    BY DEF At
  <1>3. QED
    BY <1>1, <1>2, ChangedAt

LEMMA TaskTypes == TypeOK => task \in [Tasks -> TaskType]
  BY DEF TypeOK, TaskType, Places

LEMMA SelMeans ==
    ASSUME TypeOK, NEW t \in Tasks, NEW a \in Places, NEW S \in SUBSET Coins,
           task' = [task EXCEPT ![t].at = a, ![t].sel = S]
    PROVE  /\ At(a, S, task[t].ans) \in TaskType
           /\ task' = [task EXCEPT ![t] = At(a, S, task[t].ans)]
  <1>1. task \in [Tasks -> TaskType] /\ task[t] \in TaskType
    BY TaskTypes
  <1>2. task' = [task EXCEPT ![t] = [task[t] EXCEPT !.at = a, !.sel = S]]
    BY <1>1
  <1>3. QED
    BY <1>1, <1>2, ChangedSel DEF TaskType, At

LEMMA AnsMeans ==
    ASSUME TypeOK, NEW t \in Tasks, NEW a \in Places, NEW A \in [Coins -> Answers],
           task' = [task EXCEPT ![t].at = a, ![t].ans = A]
    PROVE  /\ At(a, task[t].sel, A) \in TaskType
           /\ task' = [task EXCEPT ![t] = At(a, task[t].sel, A)]
  <1>1. task \in [Tasks -> TaskType] /\ task[t] \in TaskType
    BY TaskTypes
  <1>2. task' = [task EXCEPT ![t] = [task[t] EXCEPT !.at = a, !.ans = A]]
    BY <1>1
  <1>3. QED
    BY <1>1, <1>2, ChangedAns DEF TaskType, At

LEMMA GotoMeans ==
    ASSUME TypeOK, NEW t \in Tasks, NEW a \in Places, Goto(t, a)
    PROVE  /\ At(a, task[t].sel, task[t].ans) \in TaskType
           /\ task' = [task EXCEPT ![t] = At(a, task[t].sel, task[t].ans)]
  <1>1. task \in [Tasks -> TaskType] /\ task[t] \in TaskType
    BY TaskTypes
  <1>2. task' = [task EXCEPT ![t] = [task[t] EXCEPT !.at = a]]
    BY <1>1 DEF Goto
  <1>3. QED
    BY <1>1, <1>2, ChangedAt DEF TaskType, At

LEMMA EndMeans ==
    ASSUME TypeOK, NEW t \in Tasks, End(t)
    PROVE  /\ IdleTask \in TaskType /\ TaskOK(IdleTask) /\ IdleTask.at = "idle"
           /\ task' = [task EXCEPT ![t] = IdleTask]
  BY DEF End, TypeOK, TaskType, Places, IdleTask, NoAnswer, Answers, TaskOK

(* A task that is past the confirmation has a purchase to work on.         *)
LEMMA WorkHasPurchase ==
    ASSUME PurchaseInv, NEW t \in Tasks, task[t].at \notin {"idle", "select", "record"}
    PROVE  p.exists
  BY DEF PurchaseInv, Before

LEMMA FailingSteps ==
    ASSUME PurchaseInv, NEW t \in Tasks, RequestFails(t) \/ Refused(t)
    PROVE  PurchaseInv'
  <1>1. /\ UNCHANGED <<wallet, value, received, order, paidWith, refund>> /\ End(t)
        /\ faults' \in 0..MaxFaults
    BY PurchaseAssumption DEF RequestFails, Refused, outside, PurchaseInv, TypeOK
  <1>2. /\ IdleTask \in TaskType /\ TaskOK(IdleTask) /\ IdleTask.at = "idle"
        /\ task' = [task EXCEPT ![t] = IdleTask]
    BY <1>1, EndMeans DEF PurchaseInv
  <1>3. QED
    BY <1>1, <1>2, TaskMoves

LEMMA PayAnsweredStep ==
    ASSUME PurchaseInv, NEW t \in Tasks, PayAnswered(t)
    PROVE  PurchaseInv'
  <1>1. /\ UNCHANGED <<wallet, value, received, order, paidWith, refund>> /\ Goto(t, "payGot")
        /\ faults' \in 0..MaxFaults /\ "payGot" \in Places /\ Paid /\ task[t].at = "paySent"
    BY DEF PayAnswered, outside, PurchaseInv, TypeOK, Places
  <1>2. PICK x \in TaskType : x.at = "payGot" /\ task' = [task EXCEPT ![t] = x]
    BY <1>1, GotoMeans DEF PurchaseInv, At
  <1>3. TaskOK(x) /\ p.exists
    BY <1>1, <1>2, WorkHasPurchase DEF TaskOK
  <1>4. QED
    BY <1>1, <1>2, <1>3, TaskMoves

LEMMA QueryRefundStep ==
    ASSUME PurchaseInv, NEW t \in Tasks, QueryRefund(t)
    PROVE  PurchaseInv'
  <1>1. /\ UNCHANGED <<wallet, value, received, order, paidWith, refund>>
        /\ faults' \in 0..MaxFaults /\ p.exists
    BY DEF QueryRefund, outside, PurchaseInv, TypeOK
  <1>2. CASE p.paid /\ Goto(t, "refundSent")
    <2>1. PICK x \in TaskType : x.at = "refundSent" /\ task' = [task EXCEPT ![t] = x]
      BY <1>2, GotoMeans DEF PurchaseInv, At, Places
    <2>2. TaskOK(x)
      BY <1>2, <2>1 DEF TaskOK
    <2>3. QED
      BY <1>1, <2>1, <2>2, TaskMoves
  <1>3. CASE /\ p.abort = "refund"
             /\ task' = [task EXCEPT ![t].at = "abortSent", ![t].sel = p.sel]
    <2>1. PICK x : x = At("abortSent", p.sel, task[t].ans)
      OBVIOUS
    <2>2. x \in TaskType /\ task' = [task EXCEPT ![t] = x]
      <3>1. p.sel \in SUBSET Coins /\ "abortSent" \in Places /\ TypeOK
        BY DEF PurchaseInv, TypeOK, Places
      <3>2. QED
        BY <1>3, <2>1, <3>1, SelMeans
    <2>3. TaskOK(x) /\ x.at = "abortSent"
      BY <1>3, <2>1 DEF TaskOK, At
    <2>4. QED
      BY <1>1, <2>2, <2>3, TaskMoves
  <1>4. QED
    BY <1>2, <1>3 DEF QueryRefund

LEMMA RefundAnsweredStep ==
    ASSUME PurchaseInv, NEW t \in Tasks, RefundAnswered(t)
    PROVE  PurchaseInv'
  <1>1. /\ UNCHANGED <<wallet, value, received, order, paidWith, refund>>
        /\ faults' \in 0..MaxFaults /\ Paid /\ task[t].at = "refundSent" /\ p.exists
    BY WorkHasPurchase DEF RefundAnswered, outside, PurchaseInv, TypeOK
  <1>2. PICK A : A = [c \in Coins |-> IF refund[c] \in {"granted", "done", "gone"}
                                      THEN Says(c) ELSE "none"]
    OBVIOUS
  <1>3. PICK x : x = At("refundGot", task[t].sel, A)
    OBVIOUS
  <1>4. /\ A \in [Coins -> Answers]
        /\ \A c \in Coins : /\ A[c] = "success" => refund[c] = "done"
                            /\ A[c] = "gone" => refund[c] = "gone"
                            /\ A[c] # "notfound"
                            /\ A[c] # "none" => refund[c] \in {"granted", "done", "gone"}
    <2>1. ASSUME NEW c \in Coins, refund[c] \in {"granted", "done", "gone"}
          PROVE  Says(c) = IF refund[c] = "done" THEN "success"
                           ELSE IF refund[c] = "gone" THEN "gone" ELSE "transient"
      BY <2>1 DEF Says
    <2>2. QED
      BY <1>2, <2>1 DEF Answers
  <1>5. x \in TaskType /\ task' = [task EXCEPT ![t] = x] /\ x.at = "refundGot" /\ x.ans = A
    <2>1. task' = [task EXCEPT ![t].at = "refundGot", ![t].ans = A] /\ "refundGot" \in Places
      BY <1>2 DEF RefundAnswered, Places
    <2>2. x \in TaskType /\ task' = [task EXCEPT ![t] = x]
      <3>1. TypeOK /\ A \in [Coins -> Answers]
        BY <1>4 DEF PurchaseInv
      <3>2. /\ At("refundGot", task[t].sel, A) \in TaskType
            /\ task' = [task EXCEPT ![t] = At("refundGot", task[t].sel, A)]
        BY <2>1, <3>1, AnsMeans
      <3>3. QED
        BY <1>3, <3>2
    <2>3. QED
      BY <1>3, <2>2 DEF At
  <1>6. TaskOK(x)
    <2>1. p.paid
      BY <1>1 DEF PurchaseInv, TasksOK, TaskOK
    <2>2. ASSUME NEW c \in Coins PROVE AnswerIsTrue(x, c)
      <3>1. refund[c] \in {"granted", "done", "gone"} => c \in p.sel
        BY DEF PurchaseInv, CoinsOK, CoinOK, Outside
      <3>2. QED
        BY <1>4, <1>5, <3>1 DEF AnswerIsTrue
    <2>3. QED
      BY <1>5, <2>1, <2>2 DEF TaskOK
  <1>7. QED
    BY <1>1, <1>5, <1>6, TaskMoves

LEMMA StartSubmitStep ==
    ASSUME PurchaseInv, NEW t \in Tasks, StartSubmit(t)
    PROVE  PurchaseInv'
  <1>1. /\ UNCHANGED <<wallet, value, received, order, paidWith, refund>> /\ Goto(t, "submit")
        /\ faults' \in 0..MaxFaults /\ "submit" \in Places /\ p.exists
    BY DEF StartSubmit, outside, PurchaseInv, TypeOK, Places
  <1>2. PICK x \in TaskType : x.at = "submit" /\ task' = [task EXCEPT ![t] = x]
    BY <1>1, GotoMeans DEF PurchaseInv, At
  <1>3. TaskOK(x)
    BY <1>2 DEF TaskOK
  <1>4. QED
    BY <1>1, <1>2, <1>3, TaskMoves

-----------------------------------------------------------------------------
(* The record, the coins or the outside change.                            *)
VariablesTyped ==
    /\ p \in PurchaseType /\ amt \in [Coins -> {0, 1}] /\ refreshing \in [Coins -> Nat]
    /\ value \in [Coins -> {0, 1}] /\ received \subseteq SUBSET Coins
    /\ order \in {"open", "paid", "aborted"} /\ paidWith \subseteq Coins
    /\ refund \in [Coins -> {"none", "deposited", "granted", "done", "gone"}]
    /\ faults \in 0..MaxFaults

LEMMA Types == TypeOK <=> VariablesTyped /\ task \in [Tasks -> TaskType]
  BY DEF TypeOK, VariablesTyped, TaskType, Places, PurchaseType

LEMMA TypesNext == TypeOK' <=> VariablesTyped' /\ task' \in [Tasks -> TaskType]
  BY DEF TypeOK, VariablesTyped, TaskType, Places, PurchaseType

LEMMA WithTask ==
    ASSUME PurchaseInv, Stable, VariablesTyped', PurchaseOK', CoinsOK',
           p.exists, p'.exists, NEW t \in Tasks, NEW x \in TaskType, TaskOK(x)',
           task' = [task EXCEPT ![t] = x], x.at \notin {"select", "record"}
    PROVE  PurchaseInv'
  <1>1. task' \in [Tasks -> TaskType] /\ TasksOK'
    BY OneTaskMoves
  <1>2. OneConfirms'
    <2>1. p'.exists = p.exists
      BY DEF PurchaseInv, TypeOK, VariablesTyped, PurchaseType
    <2>2. QED
      BY <2>1, NobodyElseConfirms
  <1>3. TypeOK'
    BY <1>1, TypesNext
  <1>4. Before'
    BY DEF Before
  <1>5. QED
    BY <1>1, <1>2, <1>3, <1>4 DEF PurchaseInv

LEMMA WithoutTask ==
    ASSUME PurchaseInv, Stable, VariablesTyped', PurchaseOK', CoinsOK',
           p'.exists = p.exists, UNCHANGED task, ~p.exists => UNCHANGED <<p, received, order>>
    PROVE  PurchaseInv'
  <1>1. TasksOK' /\ OneConfirms'
    BY NoTaskMoves
  <1>2. TypeOK'
    BY TypesNext, Types DEF PurchaseInv
  <1>3. Before'
    BY DEF PurchaseInv, Before, NoPurchase
  <1>4. QED
    BY <1>1, <1>2, <1>3 DEF PurchaseInv

(* Only the record changes, and keeps its coins and its refunds. *)
RecordChanges ==
    /\ UNCHANGED <<amt, refreshing, value, received, order, paidWith, refund, faults>>
    /\ p' \in PurchaseType /\ p.exists /\ p'.exists
    /\ p'.sel = p.sel /\ p'.refunds = p.refunds
    /\ p.paid => p'.paid
    /\ p'.paid => Paid
    /\ p'.submit \/ p'.query \/ Paid \/ (order = "aborted" /\ p.abort # "none")
    /\ \/ p'.abort = p.abort /\ (p.query => p'.query)
       \/ p'.abort = "refund" /\ p'.query /\ p.abort = "none"

LEMMA RecordChangesOK ==
    ASSUME PurchaseInv, RecordChanges
    PROVE  Stable /\ VariablesTyped' /\ PurchaseOK' /\ CoinsOK'
  <1>1. Stable
    BY DEF RecordChanges, Stable
  <1>2. VariablesTyped'
    BY Types DEF RecordChanges, PurchaseInv, VariablesTyped
  <1>3. PurchaseOK'
    BY DEF RecordChanges, PurchaseInv, PurchaseOK, Paid
  <1>4. CoinsOK'
    <2>1. p.abort # "none" => p'.abort # "none"
      BY DEF RecordChanges
    <2>2. QED
      BY <2>1, CoinsKeep DEF RecordChanges
  <1>5. QED
    BY <1>1, <1>2, <1>3, <1>4

LEMMA PurchaseTyped == PurchaseInv => p \in PurchaseType
  BY Types DEF PurchaseInv, VariablesTyped

LEMMA AbortFailedPayStep ==
    ASSUME PurchaseInv, AbortFailedPay
    PROVE  PurchaseInv'
  <1>1. RecordChanges /\ p'.exists = p.exists
    BY PurchaseTyped DEF PurchaseInv, PurchaseOK, AbortFailedPay, outside, RecordChanges,
                        PurchaseType
  <1>2. UNCHANGED task /\ p.exists
    BY DEF AbortFailedPay
  <1>3. QED
    BY <1>1, <1>2, RecordChangesOK, WithoutTask

LEMMA ApplyRefundStep ==
    ASSUME PurchaseInv, ApplyRefund
    PROVE  PurchaseInv'
  <1>a. p \in PurchaseType /\ (p.paid => Paid)
    BY PurchaseTyped DEF PurchaseInv, PurchaseOK
  <1>b. /\ p' \in PurchaseType /\ p'.exists = p.exists /\ p'.query /\ p'.sel = p.sel
        /\ p'.refunds = p.refunds /\ p'.paid = p.paid /\ p'.abort = p.abort /\ p.exists
    BY <1>a DEF ApplyRefund, PurchaseType
  <1>1. RecordChanges /\ p'.exists = p.exists
    BY <1>a, <1>b DEF ApplyRefund, outside, RecordChanges
  <1>2. UNCHANGED task /\ p.exists
    BY DEF ApplyRefund
  <1>3. QED
    BY <1>1, <1>2, RecordChangesOK, WithoutTask

-----------------------------------------------------------------------------
(* Confirming. *)
LEMMA ConfirmMoves ==
    ASSUME PurchaseInv, UNCHANGED <<wallet, outside>>, ~p.exists, NEW t \in Tasks,
           NEW x \in TaskType, task' = [task EXCEPT ![t] = x], x.at \in {"select", "record"},
           \A s \in Tasks : Confirming(s) => s = t
    PROVE  PurchaseInv'
  <1> USE DEF wallet, outside
  <1>1. Stable
    BY DEF Stable
  <1>2. TaskOK(x)'
    BY DEF TaskOK
  <1>3. task' \in [Tasks -> TaskType] /\ TasksOK'
    BY <1>1, <1>2, OneTaskMoves
  <1>4. \A s \in Tasks : task'[s] = IF s = t THEN x ELSE task[s]
    BY Types DEF PurchaseInv
  <1>5. OneConfirms'
    BY <1>4 DEF OneConfirms, Confirming
  <1>6. CoinsOK'
    BY CoinsKeep
  <1>7. VariablesTyped'
    BY Types DEF PurchaseInv, VariablesTyped
  <1>8. TypeOK'
    BY <1>3, <1>7, TypesNext
  <1>9. Before'
    BY <1>4 DEF PurchaseInv, Before, NoPurchase
  <1>10. PurchaseOK'
    BY DEF PurchaseInv, PurchaseOK, Paid
  <1>11. QED
    BY <1>3, <1>5, <1>6, <1>8, <1>9, <1>10 DEF PurchaseInv

LEMMA ConfirmPayStep ==
    ASSUME PurchaseInv, NEW t \in Tasks, ConfirmPay(t), ~ConfirmsOverlap
    PROVE  PurchaseInv'
  <1>1. UNCHANGED <<amt, refreshing, value, received, order, paidWith, refund, faults>>
    BY DEF ConfirmPay, outside
  <1>2. CASE p.exists
    <2>1. PICK x \in TaskType : x.at = "submit" /\ task' = [task EXCEPT ![t] = x]
      BY <1>2, GotoMeans DEF PurchaseInv, At, ConfirmPay, Places
    <2>2. TaskOK(x) /\ TaskOK(x)'
      BY <2>1 DEF TaskOK
    <2>3. CASE UNCHANGED p
      <3>1. UNCHANGED wallet /\ faults' \in 0..MaxFaults
        BY <1>1, <2>3, Types DEF wallet, PurchaseInv, VariablesTyped
      <3>2. QED
        BY <1>1, <1>2, <2>1, <2>2, <3>1, TaskMoves
    <2>4. CASE p' = [p EXCEPT !.submit = TRUE]
      <3>1. RecordChanges
        <4>1. p \in PurchaseType /\ (p.paid => Paid)
          BY PurchaseTyped DEF PurchaseInv, PurchaseOK
        <4>2. /\ p' \in PurchaseType /\ p'.exists /\ p'.submit /\ p'.sel = p.sel
              /\ p'.refunds = p.refunds /\ p'.paid = p.paid /\ p'.abort = p.abort
              /\ p'.query = p.query
          BY <1>2, <2>4, <4>1 DEF PurchaseType
        <4>3. QED
          BY <1>1, <1>2, <4>1, <4>2 DEF RecordChanges
      <3>2. p'.exists
        BY <3>1 DEF RecordChanges
      <3>3. QED
        BY <1>2, <2>1, <2>2, <3>1, <3>2, RecordChangesOK, WithTask
    <2>5. QED
      BY <1>2, <2>3, <2>4 DEF ConfirmPay
  <1>3. CASE ~p.exists
    <2>1. PICK x \in TaskType : x.at = "select" /\ task' = [task EXCEPT ![t] = x]
      BY <1>3, GotoMeans DEF PurchaseInv, At, ConfirmPay, Places
    <2>2. \A s \in Tasks : ~Confirming(s)
      BY DEF ConfirmPay, Confirming
    <2>3. UNCHANGED <<wallet, outside>>
      BY <1>3 DEF ConfirmPay, wallet, outside
    <2>4. QED
      BY <1>3, <2>1, <2>2, <2>3, ConfirmMoves
  <1>4. QED
    BY <1>2, <1>3

LEMMA Ends ==
    ASSUME PurchaseInv, NEW t \in Tasks, UNCHANGED <<wallet, outside>>, End(t)
    PROVE  PurchaseInv'
  <1>1. faults' \in 0..MaxFaults
    BY Types DEF PurchaseInv, VariablesTyped, outside
  <1>2. /\ IdleTask \in TaskType /\ TaskOK(IdleTask) /\ IdleTask.at = "idle"
        /\ task' = [task EXCEPT ![t] = IdleTask]
    BY EndMeans DEF PurchaseInv
  <1>3. UNCHANGED <<wallet, value, received, order, paidWith, refund>>
    BY DEF outside
  <1>4. QED
    BY <1>1, <1>2, <1>3, TaskMoves

LEMMA SelectCoinsStep ==
    ASSUME PurchaseInv, NEW t \in Tasks, SelectCoins(t)
    PROVE  PurchaseInv'
  <1>1. UNCHANGED <<wallet, outside>> /\ task[t].at = "select"
    BY DEF SelectCoins
  <1>2. ~p.exists /\ \A s \in Tasks : Confirming(s) => s = t
    BY <1>1 DEF PurchaseInv, OneConfirms, Confirming
  <1>3. ASSUME NEW s \in SUBSET Coins,
               task' = [task EXCEPT ![t].at = "record", ![t].sel = s]
        PROVE  PurchaseInv'
    <2>1. PICK x : x = At("record", s, task[t].ans)
      OBVIOUS
    <2>2. x \in TaskType /\ task' = [task EXCEPT ![t] = x]
      <3>1. "record" \in Places /\ TypeOK
        BY DEF PurchaseInv, Places
      <3>2. QED
        BY <1>3, <2>1, <3>1, SelMeans
    <2>3. x.at = "record"
      BY <2>1 DEF At
    <2>4. QED
      BY <1>1, <1>2, <2>2, <2>3, ConfirmMoves
  <1>4. QED
    BY <1>1, <1>3, Ends DEF SelectCoins

LEMMA RecordConfirmPayStep ==
    ASSUME PurchaseInv, NEW t \in Tasks, RecordConfirmPay(t)
    PROVE  PurchaseInv'
  <1>1. CASE End(t) /\ UNCHANGED wallet
    BY <1>1, Ends DEF RecordConfirmPay
  <1>2. CASE ~(End(t) /\ UNCHANGED wallet)
    <2>1. PICK S : S = task[t].sel
      OBVIOUS
    <2>2. /\ p' = NewPurchase(S) /\ Goto(t, "submit") /\ UNCHANGED <<refreshing, outside>>
          /\ amt' = [c \in Coins |-> IF c \in S THEN 0 ELSE amt[c]]
          /\ \A c \in S : amt[c] # 0
          /\ task[t].at = "record"
      BY <1>2, <2>1 DEF RecordConfirmPay
    <2>3. S \in SUBSET Coins
      BY <2>1, Types DEF PurchaseInv, TaskType
    <2>4. /\ p = NoPurchase /\ received = {} /\ order = "open"
          /\ \A s \in Tasks : s # t => task[s].at = "idle"
      BY <2>2 DEF PurchaseInv, OneConfirms, Confirming, Before
    <2>5. PICK x \in TaskType : x.at = "submit" /\ task' = [task EXCEPT ![t] = x]
      <3>1. TypeOK /\ Goto(t, "submit") /\ "submit" \in Places
        BY <2>2 DEF PurchaseInv, Places
      <3>2. QED
        BY <3>1, GotoMeans DEF At
    <2>6. /\ p'.exists /\ p'.sel = S /\ p'.submit /\ ~p'.paid /\ p'.abort = "none"
          /\ p'.refunds = NoRefunds
      BY <2>2 DEF NewPurchase
    <2>7. \A k \in Kinds, c \in Coins : p'.refunds[k][c] = "none"
      BY <2>6 DEF NoRefunds
    <2>8. p' \in PurchaseType
      <3>1. NoRefunds \in [Kinds -> [Coins -> RefundStates]]
        BY DEF NoRefunds, RefundStates
      <3>2. QED
        BY <2>2, <2>3, <3>1 DEF NewPurchase, PurchaseType
    <2>9. VariablesTyped'
      <3>1. amt' \in [Coins -> {0, 1}]
        BY <2>2, Types DEF PurchaseInv, VariablesTyped
      <3>2. QED
        BY <2>2, <2>8, <3>1, Types DEF PurchaseInv, VariablesTyped, outside
    <2>10. task' \in [Tasks -> TaskType]
      BY <2>5, Types DEF PurchaseInv
    <2>11. \A s \in Tasks : task'[s].at \in {"idle", "submit"}
      BY <2>4, <2>5, Types DEF PurchaseInv
    <2>12. TasksOK'
      BY <2>11 DEF TasksOK, TaskOK
    <2>13. OneConfirms' /\ Before'
      BY <2>6, <2>11 DEF OneConfirms, Confirming, Before
    <2>14. PurchaseOK'
      BY <2>2, <2>4, <2>6 DEF PurchaseOK, outside, Paid
    <2>15. ASSUME NEW c \in Coins PROVE CoinOK(c)'
      <3>1. Outside(c) /\ amt[c] \in {0, 1} /\ value[c] \in {0, 1}
        BY <2>4, Types DEF PurchaseInv, CoinsOK, CoinOK, NoPurchase, VariablesTyped
      <3>2. CASE c \in S
        <4>1. /\ amt'[c] = 0 /\ refreshing'[c] = 0 /\ value'[c] = 1 /\ refund'[c] = "none"
              /\ order' = "open"
          BY <2>2, <2>4, <3>1, <3>2 DEF Outside, outside
        <4>2. Inside(c)'
          BY <4>1 DEF Inside, Paid
        <4>3. p'.refunds["refund"][c] = "none" /\ p'.refunds["abort"][c] = "none"
          BY <2>7 DEF Kinds
        <4>4. Entered(c)'
          BY <4>1, <4>3 DEF Entered, Paid
        <4>5. QED
          BY <2>6, <3>2, <4>2, <4>4 DEF CoinOK
      <3>3. CASE c \notin S
        <4>1. Outside(c)'
          BY <2>2, <3>1, <3>3 DEF Outside, outside
        <4>2. QED
          BY <2>6, <2>7, <3>3, <4>1 DEF CoinOK
      <3>4. QED
        BY <3>2, <3>3
    <2>16. QED
      BY <2>9, <2>10, <2>12, <2>13, <2>14, <2>15, TypesNext DEF PurchaseInv, CoinsOK
  <1>3. QED
    BY <1>1, <1>2

-----------------------------------------------------------------------------
(* Paying. *)
LEMMA SubmitPayStep ==
    ASSUME PurchaseInv, NEW t \in Tasks, SubmitPay(t)
    PROVE  PurchaseInv'
  <1>1. /\ UNCHANGED <<wallet, value, order, paidWith, refund, faults>> /\ p.exists
        /\ faults' \in 0..MaxFaults /\ task[t].at = "submit"
    BY WorkHasPurchase, Types DEF SubmitPay, PurchaseInv, VariablesTyped
  <1>2. CASE End(t) /\ UNCHANGED received
    BY <1>1, <1>2, Ends DEF outside
  <1>3. CASE p.paid /\ Goto(t, "paidSent") /\ UNCHANGED received
    <2>1. PICK x \in TaskType : x.at = "paidSent" /\ task' = [task EXCEPT ![t] = x]
      BY <1>3, GotoMeans DEF PurchaseInv, At, Places
    <2>2. TaskOK(x)
      BY <1>3, <2>1 DEF TaskOK
    <2>3. QED
      BY <1>1, <1>3, <2>1, <2>2, TaskMoves
  <1>4. CASE /\ task' = [task EXCEPT ![t].at = "paySent", ![t].sel = p.sel]
             /\ received' = received \cup {p.sel}
    <2>1. PICK x : x = At("paySent", p.sel, task[t].ans)
      OBVIOUS
    <2>2. x \in TaskType /\ task' = [task EXCEPT ![t] = x] /\ p.sel \in SUBSET Coins
      <3>1. p.sel \in SUBSET Coins /\ "paySent" \in Places /\ TypeOK
        BY PurchaseTyped DEF PurchaseInv, Places, PurchaseType
      <3>2. QED
        BY <1>4, <2>1, <3>1, SelMeans
    <2>3. UNCHANGED p
      BY <1>1 DEF wallet
    <2>4. TaskOK(x)' /\ x.at = "paySent"
      BY <2>1, <2>3 DEF TaskOK, At
    <2>5. Stable
      BY <1>1, <2>3 DEF Stable
    <2>6. VariablesTyped'
      BY <1>1, <1>4, <2>2, Types DEF PurchaseInv, VariablesTyped, wallet
    <2>7. PurchaseOK'
      BY <1>1, <1>4, <2>3 DEF PurchaseInv, PurchaseOK, Paid
    <2>8. CoinsOK'
      BY <1>1, CoinsKeep DEF wallet
    <2>9. QED
      BY <1>1, <2>2, <2>3, <2>4, <2>5, <2>6, <2>7, <2>8, WithTask
  <1>5. QED
    BY <1>2, <1>3, <1>4 DEF SubmitPay

(* An answered payment is entered in the record, and the call ends. *)
LEMMA RecordedThenEnds ==
    ASSUME PurchaseInv, NEW t \in Tasks, RecordChanges, End(t)
    PROVE  PurchaseInv'
  <1>1. /\ IdleTask \in TaskType /\ TaskOK(IdleTask)' /\ IdleTask.at = "idle"
        /\ task' = [task EXCEPT ![t] = IdleTask]
    BY EndMeans DEF PurchaseInv, TaskOK, IdleTask
  <1>2. p.exists /\ p'.exists
    BY DEF RecordChanges
  <1>3. QED
    BY <1>1, <1>2, RecordChangesOK, WithTask

LEMMA StoreFirstPaySuccessStep ==
    ASSUME PurchaseInv, NEW t \in Tasks, StoreFirstPaySuccess(t)
    PROVE  PurchaseInv'
  <1>1. /\ UNCHANGED <<amt, refreshing, outside>> /\ p.exists /\ End(t) /\ Paid
        /\ p \in PurchaseType
    BY WorkHasPurchase, PurchaseTyped DEF StoreFirstPaySuccess, PurchaseInv, TasksOK, TaskOK
  <1>2. CASE UNCHANGED p
    BY <1>1, <1>2, Ends DEF wallet
  <1>3. ASSUME NEW auto \in BOOLEAN,
               p' = [p EXCEPT !.paid = TRUE, !.submit = FALSE,
                              !.auto = auto, !.query = @ \/ auto]
        PROVE  PurchaseInv'
    <2>1. /\ p' \in PurchaseType /\ p'.exists = p.exists /\ p'.sel = p.sel /\ p'.paid
          /\ p'.refunds = p.refunds /\ p'.abort = p.abort /\ (p.query => p'.query)
      BY <1>1, <1>3 DEF PurchaseType
    <2>2. RecordChanges
      BY <1>1, <2>1 DEF RecordChanges, outside
    <2>3. QED
      BY <1>1, <2>2, RecordedThenEnds
  <1>4. QED
    BY <1>2, <1>3 DEF StoreFirstPaySuccess

LEMMA PaidAnsweredStep ==
    ASSUME PurchaseInv, NEW t \in Tasks, PaidAnswered(t)
    PROVE  PurchaseInv'
  <1>1. /\ UNCHANGED <<amt, refreshing, outside>> /\ p.exists /\ End(t) /\ p.paid /\ Paid
        /\ p \in PurchaseType /\ p' = [p EXCEPT !.submit = FALSE]
    BY WorkHasPurchase, PurchaseTyped
       DEF PaidAnswered, PurchaseInv, TasksOK, TaskOK, PurchaseOK
  <1>2. /\ p' \in PurchaseType /\ p'.exists = p.exists /\ p'.sel = p.sel /\ p'.paid = p.paid
        /\ p'.refunds = p.refunds /\ p'.abort = p.abort /\ p'.query = p.query
    BY <1>1 DEF PurchaseType
  <1>3. RecordChanges
    BY <1>1, <1>2 DEF RecordChanges, outside
  <1>4. QED
    BY <1>1, <1>3, RecordedThenEnds

-----------------------------------------------------------------------------
(* The merchant and the exchange. *)
LEMMA OutsideMoves ==
    ASSUME PurchaseInv, Stable, UNCHANGED <<p, task>>, VariablesTyped', PurchaseOK', CoinsOK',
           ~p.exists => UNCHANGED <<received, order>>
    PROVE  PurchaseInv'
  BY WithoutTask

LEMMA DepositStep ==
    ASSUME PurchaseInv, NEW c \in Coins, Deposit(c)
    PROVE  PurchaseInv'
  <1>1. /\ UNCHANGED <<wallet, task, received, order, paidWith, faults>> /\ order = "open"
        /\ value[c] = 1 /\ received # {} /\ (\E s \in received : c \in s)
        /\ value' = [value EXCEPT ![c] = 0] /\ refund' = [refund EXCEPT ![c] = "deposited"]
    BY DEF Deposit
  <1>2. VariablesTyped /\ UNCHANGED <<p, amt, refreshing>>
    BY <1>1, Types DEF PurchaseInv, wallet
  <1>3. p.exists /\ c \in p.sel
    BY <1>1 DEF PurchaseInv, Before, PurchaseOK
  <1>4. refund[c] = "none"
    BY <1>1, <1>3 DEF PurchaseInv, CoinsOK, CoinOK, Inside
  <1>5. Stable
    BY <1>1, <1>2, <1>4 DEF Stable, VariablesTyped
  <1>6. VariablesTyped'
    BY <1>1, <1>2 DEF VariablesTyped
  <1>7. PurchaseOK'
    BY <1>1, <1>2 DEF PurchaseInv, PurchaseOK, Paid
  <1>8. ASSUME NEW d \in Coins PROVE CoinOK(d)'
    <2>1. CoinOK(d)
      BY DEF PurchaseInv, CoinsOK
    <2>2. CASE d # c
      <3>1. refund'[d] = refund[d] /\ value'[d] = value[d]
        BY <1>1, <1>2, <2>2 DEF VariablesTyped
      <3>2. QED
        BY <1>1, <1>2, <2>1, <3>1 DEF CoinOK, Inside, Entered, Outside, Paid
    <2>3. CASE d = c
      <3>1. refund'[d] = "deposited" /\ value'[d] = 0
        BY <1>1, <1>2, <2>3 DEF VariablesTyped
      <3>2. Inside(d)'
        BY <1>1, <1>2, <1>3, <2>1, <2>3, <3>1 DEF CoinOK, Inside, Paid
      <3>3. Entered(d)'
        BY <1>1, <1>2, <1>3, <2>1, <2>3, <3>1 DEF CoinOK, Inside, Entered, Paid
      <3>4. QED
        BY <1>2, <1>3, <2>3, <3>2, <3>3 DEF CoinOK
    <2>4. QED
      BY <2>2, <2>3
  <1>9. QED
    BY <1>1, <1>2, <1>5, <1>6, <1>7, <1>8, OutsideMoves DEF CoinsOK

LEMMA MarkPaidStep ==
    ASSUME PurchaseInv, MarkPaid
    PROVE  PurchaseInv'
  <1>1. PICK s \in received : (\A c \in s : refund[c] = "deposited") /\ paidWith' = s
    BY DEF MarkPaid
  <1>2. /\ UNCHANGED <<wallet, task, value, received, refund, faults>>
        /\ order = "open" /\ order' = "paid"
    BY DEF MarkPaid
  <1>3. VariablesTyped /\ UNCHANGED <<p, amt, refreshing>>
    BY <1>2, Types DEF PurchaseInv, wallet
  <1>4. p.exists /\ s = p.sel
    BY <1>1 DEF PurchaseInv, Before, PurchaseOK
  <1>5. Stable
    BY <1>2, <1>3 DEF Stable
  <1>6. VariablesTyped'
    BY <1>1, <1>2, <1>3 DEF VariablesTyped
  <1>7. PurchaseOK'
    BY <1>1, <1>2, <1>3, <1>4 DEF PurchaseInv, PurchaseOK, Paid
  <1>8. ASSUME NEW c \in Coins PROVE CoinOK(c)'
    <2>1. CoinOK(c)
      BY DEF PurchaseInv, CoinsOK
    <2>2. CASE c \in p.sel
      <3>1. Inside(c)'
        BY <1>1, <1>2, <1>3, <1>4, <2>1, <2>2 DEF CoinOK, Inside, Paid
      <3>2. Entered(c)'
        BY <1>1, <1>2, <1>3, <1>4, <2>1, <2>2 DEF CoinOK, Inside, Entered, Paid
      <3>3. QED
        BY <1>3, <2>2, <3>1, <3>2 DEF CoinOK
    <2>3. CASE c \notin p.sel
      BY <1>2, <1>3, <2>1, <2>3 DEF CoinOK, Outside
    <2>4. QED
      BY <2>2, <2>3
  <1>9. QED
    BY <1>2, <1>3, <1>4, <1>5, <1>6, <1>7, <1>8, OutsideMoves DEF CoinsOK

(* The refund of a coin that was deposited goes one step further. *)
LEMMA RefundMoves ==
    ASSUME PurchaseInv, NEW c \in Coins,
           UNCHANGED <<wallet, task, received, order, paidWith, faults>>,
           refund[c] \in {"deposited", "granted"}, order # "open",
           NEW r \in {"granted", "done", "gone"}, refund' = [refund EXCEPT ![c] = r],
           NEW v \in {0, 1}, v = 1 <=> r = "done", value' = [value EXCEPT ![c] = v]
    PROVE  PurchaseInv'
  <1>1. VariablesTyped /\ UNCHANGED <<p, amt, refreshing>>
    BY Types DEF PurchaseInv, wallet
  <1>2. c \in p.sel /\ p.exists
    BY DEF PurchaseInv, CoinsOK, CoinOK, Outside, Before
  <1>3. Stable
    BY <1>1 DEF Stable, VariablesTyped
  <1>4. VariablesTyped'
    BY <1>1 DEF VariablesTyped
  <1>5. PurchaseOK'
    BY <1>1 DEF PurchaseInv, PurchaseOK, Paid
  <1>6. ASSUME NEW d \in Coins PROVE CoinOK(d)'
    <2>1. CoinOK(d)
      BY DEF PurchaseInv, CoinsOK
    <2>2. CASE d # c
      <3>1. refund'[d] = refund[d] /\ value'[d] = value[d]
        BY <1>1, <2>2 DEF VariablesTyped
      <3>2. QED
        BY <1>1, <2>1, <3>1 DEF CoinOK, Inside, Entered, Outside, Paid
    <2>3. CASE d = c
      <3>1. refund'[d] = r /\ value'[d] = v
        BY <1>1, <2>3 DEF VariablesTyped
      <3>2. Inside(d)'
        BY <1>1, <1>2, <2>1, <2>3, <3>1 DEF CoinOK, Inside, Paid
      <3>3. Entered(d)'
        BY <1>1, <1>2, <2>1, <2>3, <3>1 DEF CoinOK, Inside, Entered, Paid
      <3>4. QED
        BY <1>1, <1>2, <2>3, <3>2, <3>3 DEF CoinOK
    <2>4. QED
      BY <2>2, <2>3
  <1>7. QED
    BY <1>1, <1>2, <1>3, <1>4, <1>5, <1>6, OutsideMoves DEF CoinsOK

(* A coin whose refund is not done is worth nothing once it is deposited.  *)
LEMMA TakenIsWorthless ==
    ASSUME PurchaseInv, NEW c \in Coins, refund[c] \in {"deposited", "granted"}
    PROVE  /\ value = [value EXCEPT ![c] = 0]
           /\ refund[c] = "granted" => order # "open"
  <1>1. Inside(c) /\ VariablesTyped
    BY Types DEF PurchaseInv, CoinsOK, CoinOK, Outside
  <1>2. value[c] = 0 /\ value \in [Coins -> {0, 1}]
    BY <1>1 DEF Inside, VariablesTyped
  <1>3. QED
    BY <1>1, <1>2 DEF Inside

LEMMA GrantRefundStep ==
    ASSUME PurchaseInv, NEW c \in Coins, GrantRefund(c)
    PROVE  PurchaseInv'
  <1>1. /\ UNCHANGED <<wallet, task, value, received, order, paidWith, faults>>
        /\ refund[c] = "deposited" /\ refund' = [refund EXCEPT ![c] = "granted"]
        /\ order # "open"
    BY DEF GrantRefund, Paid
  <1>2. value' = [value EXCEPT ![c] = 0]
    BY <1>1, TakenIsWorthless
  <1>3. "granted" \in {"granted", "done", "gone"} /\ 0 \in {0, 1} /\ (0 = 1 <=> "granted" = "done")
    OBVIOUS
  <1>4. QED
    BY <1>1, <1>2, <1>3, RefundMoves

LEMMA ExchangeRefundsStep ==
    ASSUME PurchaseInv, NEW c \in Coins, ExchangeRefunds(c)
    PROVE  PurchaseInv'
  <1>1. UNCHANGED <<wallet, task, received, order, paidWith, faults>> /\ refund[c] = "granted"
    BY DEF ExchangeRefunds
  <1>2. order # "open" /\ value = [value EXCEPT ![c] = 0]
    BY <1>1, TakenIsWorthless
  <1>3. CASE refund' = [refund EXCEPT ![c] = "done"] /\ value' = [value EXCEPT ![c] = 1]
    BY <1>1, <1>2, <1>3, RefundMoves
  <1>4. CASE refund' = [refund EXCEPT ![c] = "gone"] /\ UNCHANGED value
    <2>1. value' = [value EXCEPT ![c] = 0]
      BY <1>2, <1>4
    <2>2. "gone" \in {"granted", "done", "gone"} /\ 0 \in {0, 1} /\ (0 = 1 <=> "gone" = "done")
      OBVIOUS
    <2>3. refund' = [refund EXCEPT ![c] = "gone"]
      BY <1>4
    <2>4. QED
      BY <1>1, <1>2, <2>1, <2>2, <2>3, RefundMoves
  <1>5. QED
    BY <1>3, <1>4 DEF ExchangeRefunds

LEMMA OtherSpendStep ==
    ASSUME PurchaseInv, NEW c \in Coins, OtherSpend(c)
    PROVE  PurchaseInv'
  <1>1. /\ UNCHANGED <<p, refreshing, task, received, order, paidWith, refund, faults>>
        /\ amt[c] = 1 /\ amt' = [amt EXCEPT ![c] = 0] /\ value' = [value EXCEPT ![c] = 0]
    BY DEF OtherSpend
  <1>2. VariablesTyped
    BY Types DEF PurchaseInv
  <1>3. Outside(c) /\ c \notin p.sel
    BY <1>1 DEF PurchaseInv, CoinsOK, CoinOK, Inside
  <1>4. Stable
    BY <1>1 DEF Stable
  <1>5. VariablesTyped'
    BY <1>1, <1>2 DEF VariablesTyped
  <1>6. PurchaseOK'
    BY <1>1 DEF PurchaseInv, PurchaseOK, Paid
  <1>7. ASSUME NEW d \in Coins PROVE CoinOK(d)'
    <2>1. CoinOK(d)
      BY DEF PurchaseInv, CoinsOK
    <2>2. CASE d # c
      <3>1. amt'[d] = amt[d] /\ value'[d] = value[d]
        BY <1>1, <1>2, <2>2 DEF VariablesTyped
      <3>2. QED
        BY <1>1, <2>1, <3>1 DEF CoinOK, Inside, Entered, Outside, Paid
    <2>3. CASE d = c
      <3>1. amt'[d] = 0 /\ value'[d] = 0
        BY <1>1, <1>2, <2>3 DEF VariablesTyped
      <3>2. QED
        BY <1>1, <1>3, <2>1, <2>3, <3>1 DEF CoinOK, Outside
    <2>4. QED
      BY <2>2, <2>3
  <1>8. QED
    BY <1>1, <1>4, <1>5, <1>6, <1>7, OutsideMoves DEF CoinsOK

LEMMA AbortAnsweredStep ==
    ASSUME PurchaseInv, NEW t \in Tasks, AbortAnswered(t)
    PROVE  PurchaseInv'
  <1>1. /\ UNCHANGED <<wallet, value, received, paidWith, faults>> /\ order' = "aborted"
        /\ task[t].at = "abortSent" /\ order # "paid" /\ p.exists
    BY WorkHasPurchase DEF AbortAnswered, Paid
  <1>2. VariablesTyped /\ UNCHANGED <<p, amt, refreshing>>
    BY <1>1, Types DEF PurchaseInv, wallet
  <1>3. task[t].sel = p.sel /\ p.abort # "none"
    BY <1>1 DEF PurchaseInv, TasksOK, TaskOK
  <1>4. refund' = [c \in Coins |-> IF c \in p.sel /\ refund[c] = "deposited"
                                   THEN "granted" ELSE refund[c]]
    BY <1>3 DEF AbortAnswered
  <1>5. PICK A : A = [c \in Coins |-> IF c \in task[t].sel THEN Says(c) ELSE "none"]
    OBVIOUS
  <1>6. /\ A \in [Coins -> Answers]
        /\ \A c \in Coins : /\ A[c] # "none" <=> c \in p.sel
                            /\ A[c] = "success" => refund[c] = "done"
                            /\ A[c] = "gone" => refund[c] = "gone"
                            /\ A[c] = "notfound" => refund[c] = "none"
    <2>1. ASSUME NEW c \in Coins
          PROVE  Says(c) = IF refund[c] = "done" THEN "success"
                           ELSE IF refund[c] = "gone" THEN "gone"
                           ELSE IF refund[c] = "none" THEN "notfound" ELSE "transient"
      BY DEF Says
    <2>2. QED
      BY <1>3, <1>5, <2>1 DEF Answers
  <1>7. PICK x : x = At("abortGot", task[t].sel, A)
    OBVIOUS
  <1>8. x \in TaskType /\ task' = [task EXCEPT ![t] = x]
    <2>1. task' = [task EXCEPT ![t].at = "abortGot", ![t].ans = A]
      BY <1>5 DEF AbortAnswered
    <2>2. TypeOK /\ A \in [Coins -> Answers] /\ "abortGot" \in Places
      BY <1>6 DEF PurchaseInv, Places
    <2>3. /\ At("abortGot", task[t].sel, A) \in TaskType
          /\ task' = [task EXCEPT ![t] = At("abortGot", task[t].sel, A)]
      BY <2>1, <2>2, AnsMeans
    <2>4. QED
      BY <1>7, <2>3
  <1>9. x.at = "abortGot" /\ x.sel = p.sel /\ x.ans = A
    BY <1>3, <1>7 DEF At
  <1>10. TaskOK(x)'
    <2>1. ASSUME NEW c \in Coins PROVE AnswerIsTrue(x, c)'
      BY <1>2, <1>4, <1>6, <1>9 DEF AnswerIsTrue
    <2>2. QED
      BY <1>1, <1>2, <1>3, <1>9, <2>1 DEF TaskOK
  <1>11. Stable
    BY <1>1, <1>2, <1>4 DEF Stable, VariablesTyped
  <1>12. VariablesTyped'
    <2>1. refund' \in [Coins -> {"none", "deposited", "granted", "done", "gone"}]
      BY <1>2, <1>4 DEF VariablesTyped
    <2>2. QED
      BY <1>1, <1>2, <2>1 DEF VariablesTyped
  <1>13. PurchaseOK'
    BY <1>1, <1>2, <1>3 DEF PurchaseInv, PurchaseOK, Paid
  <1>14. ASSUME NEW c \in Coins PROVE CoinOK(c)'
    <2>1. CoinOK(c) /\ value'[c] = value[c]
      BY <1>1 DEF PurchaseInv, CoinsOK
    <2>2. CASE c \in p.sel
      <3>1. refund'[c] = IF refund[c] = "deposited" THEN "granted" ELSE refund[c]
        BY <1>4, <2>2
      <3>2. Inside(c)'
        BY <1>1, <1>2, <2>1, <2>2, <3>1 DEF CoinOK, Inside, Paid
      <3>3. Entered(c)'
        BY <1>1, <1>2, <1>3, <2>1, <2>2, <3>1 DEF CoinOK, Inside, Entered, Paid, VariablesTyped
      <3>4. QED
        BY <1>2, <2>2, <3>2, <3>3 DEF CoinOK
    <2>3. CASE c \notin p.sel
      BY <1>2, <1>4, <2>1, <2>3 DEF CoinOK, Outside
    <2>4. QED
      BY <2>2, <2>3
  <1>15. QED
    BY <1>1, <1>2, <1>8, <1>9, <1>10, <1>11, <1>12, <1>13, <1>14, WithTask DEF CoinsOK

-----------------------------------------------------------------------------
(* The answer to a query is entered. *)

(* What acceptRefunds does, with the answers A under the key K: R is what  *)
(* the record says of the refunds afterwards.                              *)
Accepts(t, K, A, R) ==
    /\ K = (IF task[t].at = "refundGot" THEN "refund" ELSE "abort")
    /\ A = task[t].ans
    /\ R \in [Kinds -> [Coins -> RefundStates]]
    /\ \A k \in Kinds, c \in Coins :
          R[k][c] = IF k = K THEN Stored(p.refunds[k][c], A[c]) ELSE p.refunds[k][c]
    /\ amt' = [c \in Coins |-> IF c \in Credited(K, A) THEN 0 ELSE amt[c]]
    /\ refreshing' = [c \in Coins |-> IF c \in Credited(K, A)
                                      THEN refreshing[c] + amt[c] + 1 ELSE refreshing[c]]
    /\ p' \in PurchaseType
    /\ p'.refunds = R /\ p'.sel = p.sel /\ p'.paid = p.paid /\ p'.exists = p.exists
    /\ \/ p'.query = p.query /\ p'.abort = p.abort
       \/ /\ \A k \in Kinds, c \in Coins : R[k][c] # "pending"
          /\ p'.abort = (IF p.abort = "refund" THEN "finished" ELSE p.abort)

LEMMA StoredTyped ==
    ASSUME NEW old \in RefundStates, NEW a \in Answers
    PROVE  Stored(old, a) = IF a = "none" \/ Skipped(old, a) THEN old
                            ELSE IF a = "success" THEN "applied"
                            ELSE IF a = "transient" THEN "pending" ELSE "failed"
  BY DEF Stored

LEMMA AcceptRefundsMeans ==
    ASSUME PurchaseInv, NEW t \in Tasks, AcceptRefunds(t)
    PROVE  \E K \in Kinds, A \in [Coins -> Answers] : \E R : Accepts(t, K, A, R)
  <1>1. PICK A : A = task[t].ans
    OBVIOUS
  <1>2. PICK K \in Kinds : K = (IF task[t].at = "refundGot" THEN "refund" ELSE "abort")
    BY DEF Kinds
  <1>3. PICK R : R = [p.refunds EXCEPT ![K] = [c \in Coins |-> Stored(@[c], A[c])]]
    OBVIOUS
  <1>4. VariablesTyped /\ p \in PurchaseType /\ A \in [Coins -> Answers]
    BY <1>1, Types, PurchaseTyped DEF PurchaseInv, TaskType
  <1>5. p.refunds \in [Kinds -> [Coins -> RefundStates]]
    BY <1>4 DEF PurchaseType
  <1>6. \A k \in Kinds, c \in Coins :
           R[k][c] = IF k = K THEN Stored(p.refunds[k][c], A[c]) ELSE p.refunds[k][c]
    BY <1>3, <1>5
  <1>7. R \in [Kinds -> [Coins -> RefundStates]]
    <2>1. \A c \in Coins : Stored(p.refunds[K][c], A[c]) \in RefundStates
      BY <1>4, <1>5, StoredTyped DEF RefundStates
    <2>2. [c \in Coins |-> Stored(p.refunds[K][c], A[c])] \in [Coins -> RefundStates]
      BY <2>1
    <2>3. QED
      BY <1>3, <1>5, <2>2
  <1>8. /\ amt' = [c \in Coins |-> IF c \in Credited(K, A) THEN 0 ELSE amt[c]]
        /\ refreshing' = [c \in Coins |-> IF c \in Credited(K, A)
                                          THEN refreshing[c] + amt[c] + 1 ELSE refreshing[c]]
    BY <1>1, <1>2 DEF AcceptRefunds
  <1>9. PICK expired \in BOOLEAN :
           p' = IF QueryDone(R, expired)
                THEN [p EXCEPT !.refunds = R, !.query = FALSE, !.auto = FALSE,
                               !.abort = IF @ = "refund" THEN "finished" ELSE @]
                ELSE [p EXCEPT !.refunds = R]
    BY <1>1, <1>2, <1>3 DEF AcceptRefunds
  <1>10. /\ p' \in PurchaseType
         /\ p'.refunds = R /\ p'.sel = p.sel /\ p'.paid = p.paid /\ p'.exists = p.exists
         /\ \/ p'.query = p.query /\ p'.abort = p.abort
            \/ /\ \A k \in Kinds, c \in Coins : R[k][c] # "pending"
               /\ p'.abort = (IF p.abort = "refund" THEN "finished" ELSE p.abort)
    <2>1. CASE QueryDone(R, expired)
      <3>1. \A k \in Kinds, c \in Coins : R[k][c] # "pending"
        BY <2>1 DEF QueryDone
      <3>2. PICK b : b = (IF p.abort = "refund" THEN "finished" ELSE p.abort)
        OBVIOUS
      <3>3. p' = [p EXCEPT !.refunds = R, !.query = FALSE, !.auto = FALSE, !.abort = b]
        BY <1>9, <2>1, <3>2
      <3>4. b \in {"none", "refund", "finished"}
        BY <1>4, <3>2 DEF PurchaseType
      <3>5. /\ p' \in PurchaseType /\ p'.refunds = R /\ p'.sel = p.sel /\ p'.paid = p.paid
            /\ p'.exists = p.exists /\ p'.abort = b
        BY <1>4, <1>7, <3>3, <3>4 DEF PurchaseType
      <3>6. QED
        BY <3>1, <3>2, <3>5
    <2>2. CASE ~QueryDone(R, expired)
      <3>1. p' = [p EXCEPT !.refunds = R]
        BY <1>9, <2>2
      <3>2. QED
        BY <1>4, <1>7, <3>1 DEF PurchaseType
    <2>3. QED
      BY <2>1, <2>2
  <1>11. Accepts(t, K, A, R)
    BY <1>1, <1>2, <1>6, <1>7, <1>8, <1>10 DEF Accepts
  <1>12. QED
    BY <1>4, <1>11
LEMMA AcceptRefundsStep ==
    ASSUME PurchaseInv, NEW t \in Tasks, AcceptRefunds(t)
    PROVE  PurchaseInv'
  <1>1. PICK K \in Kinds, A \in [Coins -> Answers] : \E R : Accepts(t, K, A, R)
    BY AcceptRefundsMeans
  <1>2. PICK R : Accepts(t, K, A, R)
    BY <1>1
  <1>3. /\ End(t) /\ UNCHANGED <<value, received, order, paidWith, refund, faults>> /\ p.exists
        /\ task[t].at \in {"refundGot", "abortGot"}
    BY WorkHasPurchase DEF AcceptRefunds, outside
  <1>4. /\ VariablesTyped /\ p \in PurchaseType /\ p.refunds \in [Kinds -> [Coins -> RefundStates]]
        /\ TaskOK(task[t]) /\ PurchaseOK
    BY Types, PurchaseTyped DEF PurchaseInv, TasksOK, PurchaseType
  <1>5. \/ K = "refund" /\ task[t].at = "refundGot" /\ p.paid /\ Paid
        \/ /\ K = "abort" /\ task[t].at = "abortGot"
           /\ order = "aborted" /\ p.abort # "none" /\ ~p.paid
    BY <1>2, <1>3, <1>4 DEF Accepts, TaskOK, PurchaseOK, Paid
  <1>6. \A c \in Coins : AnswerIsTrue(task[t], c)
    BY <1>3, <1>4 DEF TaskOK
  <1>7. A = task[t].ans /\ p'.sel = p.sel /\ p'.paid = p.paid /\ p'.exists = p.exists
        /\ p'.refunds = R /\ p' \in PurchaseType
    BY <1>2 DEF Accepts
  <1>8. p.abort # "none" <=> p'.abort # "none"
    BY <1>2 DEF Accepts
  <1>9. Stable
    BY <1>3, <1>7, <1>8 DEF Stable
  <1>10. ASSUME NEW c \in Coins
         PROVE  /\ c \in Credited(K, A) <=>
                      /\ ~Skipped(p.refunds[K][c], A[c])
                      /\ \/ A[c] = "success"
                         \/ A[c] = "notfound" /\ p.abort = "refund" /\ c \in p.sel
                /\ R[K][c] = IF A[c] = "none" \/ Skipped(p.refunds[K][c], A[c])
                              THEN p.refunds[K][c]
                              ELSE IF A[c] = "success" THEN "applied"
                              ELSE IF A[c] = "transient" THEN "pending" ELSE "failed"
                /\ amt'[c] = (IF c \in Credited(K, A) THEN 0 ELSE amt[c])
                /\ refreshing'[c] = (IF c \in Credited(K, A)
                                     THEN refreshing[c] + amt[c] + 1 ELSE refreshing[c])
    <2>1. p.refunds[K][c] \in RefundStates /\ A[c] \in Answers
      BY <1>4
    <2>2. R[K][c] = Stored(p.refunds[K][c], A[c])
      BY <1>2 DEF Accepts
    <2>3. QED
      BY <1>2, <2>1, <2>2, StoredTyped DEF Accepts, Credited
  <1>11. VariablesTyped'
    <2>1. amt' \in [Coins -> {0, 1}]
      BY <1>2, <1>4 DEF Accepts, VariablesTyped
    <2>2. refreshing' \in [Coins -> Nat]
      BY <1>2, <1>4 DEF Accepts, VariablesTyped
    <2>3. QED
      BY <1>3, <1>4, <1>7, <2>1, <2>2 DEF VariablesTyped
  <1>12. ASSUME NEW c \in Coins PROVE CoinOK(c)'
    <2>1. CoinOK(c) /\ AnswerIsTrue(task[t], c)
      BY <1>6 DEF PurchaseInv, CoinsOK
    <2>2. CASE c \notin p.sel
      <3>1. A[c] = "none"
        BY <1>7, <2>1, <2>2 DEF AnswerIsTrue
      <3>2. R[K][c] = "none" /\ c \notin Credited(K, A)
        BY <1>10, <2>1, <2>2, <3>1 DEF CoinOK
      <3>3. \A k \in Kinds : R[k][c] = "none"
        BY <1>2, <2>1, <2>2, <3>2 DEF Accepts, CoinOK
      <3>4. Outside(c)'
        BY <1>3, <1>10, <2>1, <2>2, <3>2 DEF CoinOK, Outside
      <3>5. QED
        BY <1>7, <2>2, <3>3, <3>4 DEF CoinOK
    <2>3. CASE c \in p.sel /\ K = "refund"
      <3>1. R["abort"][c] = p.refunds["abort"][c]
        BY <1>2, <2>3 DEF Accepts, Kinds
      <3>2. Inside(c) /\ Entered(c) /\ Paid /\ p.paid /\ A[c] # "notfound"
        BY <1>5, <1>7, <2>1, <2>3 DEF CoinOK, AnswerIsTrue
      <3>3. p.refunds["abort"][c] = "none" /\ Paid'
        BY <1>3, <3>2 DEF Entered, Paid
      <3>4. CASE c \in Credited(K, A)
        <4>1. /\ p.refunds["refund"][c] # "applied" /\ A[c] = "success"
              /\ R["refund"][c] = "applied"
          BY <1>10, <2>3, <3>2, <3>4 DEF Skipped
        <4>2. refreshing[c] = 0 /\ refreshing'[c] = 1 /\ amt'[c] = 0 /\ refund[c] = "done"
          BY <1>7, <1>10, <2>1, <3>2, <3>4, <4>1 DEF Inside, Entered, AnswerIsTrue
        <4>3. Inside(c)'
          BY <1>3, <3>2, <4>2 DEF Inside, Paid
        <4>4. Entered(c)'
          BY <1>3, <1>7, <3>1, <3>2, <3>3, <4>1, <4>2 DEF Entered, Paid
        <4>5. QED
          BY <1>7, <2>3, <4>3, <4>4 DEF CoinOK
      <3>5. CASE c \notin Credited(K, A)
        <4>1. amt'[c] = amt[c] /\ refreshing'[c] = refreshing[c]
          BY <1>10, <3>5
        <4>2. Inside(c)'
          BY <1>3, <3>2, <4>1 DEF Inside, Paid
        <4>3. \/ R["refund"][c] = p.refunds["refund"][c]
              \/ /\ R["refund"][c] \in {"pending", "failed"}
                 /\ p.refunds["refund"][c] # "applied"
          BY <1>10, <2>3, <3>2, <3>5 DEF Skipped
        <4>4. Entered(c)'
          BY <1>3, <1>7, <3>1, <3>2, <3>3, <4>1, <4>3 DEF Entered, Paid
        <4>5. QED
          BY <1>7, <2>3, <4>2, <4>4 DEF CoinOK
      <3>6. QED
        BY <3>4, <3>5
    <2>4. CASE c \in p.sel /\ K = "abort"
      <3>1. R["refund"][c] = p.refunds["refund"][c]
        BY <1>2, <2>4 DEF Accepts, Kinds
      <3>2. /\ Inside(c) /\ Entered(c) /\ order = "aborted" /\ p.abort # "none" /\ ~p.paid
            /\ A[c] # "none"
        BY <1>5, <1>7, <2>1, <2>4 DEF CoinOK, AnswerIsTrue
      <3>3. p.refunds["refund"][c] = "none" /\ ~Paid /\ ~Paid' /\ order' = "aborted"
        BY <1>3, <3>2 DEF Entered, Paid
      <3>4. p'.abort # "none"
        BY <1>8, <3>2
      <3>5. CASE c \in Credited(K, A)
        <4>1. /\ p.refunds["abort"][c] \notin {"applied", "failed"}
              /\ \/ A[c] = "success" /\ R["abort"][c] = "applied" /\ refund[c] = "done"
                 \/ A[c] = "notfound" /\ R["abort"][c] = "failed" /\ refund[c] = "none"
          BY <1>7, <1>10, <2>1, <2>4, <3>5 DEF Skipped, AnswerIsTrue
        <4>2. refreshing[c] = 0 /\ refreshing'[c] = 1 /\ amt'[c] = 0
          BY <1>10, <3>2, <3>5, <4>1 DEF Inside, Entered
        <4>3. Inside(c)'
          BY <1>3, <3>2, <3>3, <4>2 DEF Inside
        <4>4. Entered(c)'
          BY <1>3, <1>7, <3>1, <3>3, <3>4, <4>1, <4>2 DEF Entered
        <4>5. QED
          BY <1>7, <2>4, <4>3, <4>4 DEF CoinOK
      <3>6. CASE c \notin Credited(K, A)
        <4>1. amt'[c] = amt[c] /\ refreshing'[c] = refreshing[c]
          BY <1>10, <3>6
        <4>2. Inside(c)'
          BY <1>3, <3>2, <3>3, <4>1 DEF Inside
        <4>3. p.abort = "finished" => p.refunds["abort"][c] \in {"applied", "failed"}
          BY <1>4, <2>4, <3>2 DEF PurchaseOK
        <4>4. \/ R["abort"][c] = p.refunds["abort"][c]
              \/ R["abort"][c] = "pending" /\ p.refunds["abort"][c] \notin {"applied", "failed"}
              \/ /\ R["abort"][c] = "failed" /\ A[c] = "gone" /\ refund[c] = "gone"
                 /\ p.refunds["abort"][c] \notin {"applied", "failed"}
          <5>1. A[c] \in Answers /\ p.abort \in {"none", "refund", "finished"}
            BY <1>4 DEF PurchaseType
          <5>2. QED
            BY <1>7, <1>10, <2>1, <2>4, <3>2, <3>6, <4>3, <5>1 DEF Skipped, AnswerIsTrue, Answers
        <4>5. Entered(c)'
          BY <1>3, <1>7, <3>1, <3>2, <3>3, <3>4, <4>1, <4>4 DEF Entered
        <4>6. QED
          BY <1>7, <2>4, <4>2, <4>5 DEF CoinOK
      <3>7. QED
        BY <3>5, <3>6
    <2>5. QED
      BY <2>2, <2>3, <2>4 DEF Kinds
  <1>13. PurchaseOK'
    <2>1. order # "open" /\ order' = order /\ received' = received /\ paidWith' = paidWith
      BY <1>3, <1>5 DEF Paid
    <2>2. p'.abort = "refund" => p'.query
      BY <1>2, <1>4 DEF Accepts, PurchaseOK
    <2>3. ASSUME p'.abort = "finished", ~p'.paid, NEW c \in p'.sel
          PROVE  R["abort"][c] \in {"applied", "failed"}
      <3>1. K = "abort" /\ task[t].at = "abortGot" /\ c \in p.sel /\ c \in Coins
        BY <1>4, <1>5, <1>7, <2>3 DEF PurchaseType
      <3>2. A[c] # "none" /\ A[c] \in Answers /\ p.refunds["abort"][c] \in RefundStates
        BY <1>4, <1>6, <1>7, <3>1 DEF AnswerIsTrue, Kinds
      <3>3. CASE p.abort = "finished"
        <4>1. p.refunds["abort"][c] \in {"applied", "failed"}
          BY <1>4, <1>7, <2>3, <3>1, <3>3 DEF PurchaseOK
        <4>2. QED
          BY <1>10, <3>1, <4>1 DEF Skipped
      <3>4. CASE p.abort # "finished"
        <4>1. R["abort"][c] # "pending"
          BY <1>2, <2>3, <3>1, <3>4 DEF Accepts, Kinds
        <4>2. QED
          BY <1>10, <3>1, <3>2, <4>1 DEF Skipped, RefundStates, Answers
      <3>5. QED
        BY <3>3, <3>4
    <2>4. QED
      BY <1>4, <1>7, <1>8, <2>1, <2>2, <2>3 DEF PurchaseOK, Paid
  <1>14. /\ IdleTask \in TaskType /\ TaskOK(IdleTask)' /\ IdleTask.at = "idle"
         /\ task' = [task EXCEPT ![t] = IdleTask]
    BY <1>3, EndMeans DEF PurchaseInv, TaskOK, IdleTask
  <1>15. QED
    BY <1>3, <1>7, <1>9, <1>11, <1>12, <1>13, <1>14, WithTask DEF CoinsOK
-----------------------------------------------------------------------------
(* The invariant. *)
LEMMA PurchaseStart == Init => PurchaseInv
  <1> SUFFICES ASSUME Init PROVE PurchaseInv
    OBVIOUS
  <1>1. p = NoPurchase /\ p.sel = {} /\ p.refunds = NoRefunds /\ ~p.exists /\ ~p.paid
        /\ p.abort = "none"
    BY DEF Init, NoPurchase
  <1>2. \A t \in Tasks : task[t].at = "idle" /\ task[t] \in TaskType
    BY DEF Init, IdleTask, NoAnswer, Answers, TaskType, Places
  <1>3. TypeOK
    <2>1. NoRefunds \in [Kinds -> [Coins -> RefundStates]]
      BY DEF NoRefunds, RefundStates
    <2>2. p \in PurchaseType
      BY <1>1, <2>1 DEF NoPurchase, PurchaseType
    <2>3. task \in [Tasks -> TaskType]
      BY <1>2 DEF Init
    <2>4. VariablesTyped
      BY <2>2, PurchaseAssumption DEF Init, VariablesTyped
    <2>5. QED
      BY <2>3, <2>4, Types
  <1>4. Before /\ OneConfirms
    BY <1>1, <1>2 DEF Init, Before, OneConfirms, Confirming
  <1>5. PurchaseOK
    BY <1>1 DEF Init, PurchaseOK, Paid
  <1>6. CoinsOK
    BY <1>1 DEF Init, CoinsOK, CoinOK, Outside, NoRefunds
  <1>7. TasksOK
    BY <1>2 DEF TasksOK, TaskOK
  <1>8. QED
    BY <1>3, <1>4, <1>5, <1>6, <1>7 DEF PurchaseInv

LEMMA PurchaseStutter == PurchaseInv /\ UNCHANGED vars => PurchaseInv'
  BY DEF vars, PurchaseInv, TypeOK, Before, OneConfirms, Confirming, PurchaseOK, CoinsOK, CoinOK,
         Inside, Outside, Entered, TasksOK, TaskOK, AnswerIsTrue, Paid

LEMMA PurchaseNext ==
    ASSUME ~ConfirmsOverlap, PurchaseInv, [Next]_vars
    PROVE  PurchaseInv'
  <1>1. ASSUME NEW t \in Tasks, ConfirmPay(t) PROVE PurchaseInv'
    BY <1>1, ConfirmPayStep
  <1>2. ASSUME NEW t \in Tasks, SelectCoins(t) PROVE PurchaseInv'
    BY <1>2, SelectCoinsStep
  <1>3. ASSUME NEW t \in Tasks, RecordConfirmPay(t) PROVE PurchaseInv'
    BY <1>3, RecordConfirmPayStep
  <1>4. ASSUME NEW t \in Tasks, StartSubmit(t) PROVE PurchaseInv'
    BY <1>4, StartSubmitStep
  <1>5. ASSUME NEW t \in Tasks, SubmitPay(t) PROVE PurchaseInv'
    BY <1>5, SubmitPayStep
  <1>6. ASSUME NEW t \in Tasks, PayAnswered(t) PROVE PurchaseInv'
    BY <1>6, PayAnsweredStep
  <1>7. ASSUME NEW t \in Tasks, StoreFirstPaySuccess(t) PROVE PurchaseInv'
    BY <1>7, StoreFirstPaySuccessStep
  <1>8. ASSUME NEW t \in Tasks, PaidAnswered(t) PROVE PurchaseInv'
    BY <1>8, PaidAnsweredStep
  <1>9. ASSUME NEW t \in Tasks, RequestFails(t) \/ Refused(t) PROVE PurchaseInv'
    BY <1>9, FailingSteps
  <1>10. ASSUME NEW t \in Tasks, QueryRefund(t) PROVE PurchaseInv'
    BY <1>10, QueryRefundStep
  <1>11. ASSUME NEW t \in Tasks, RefundAnswered(t) PROVE PurchaseInv'
    BY <1>11, RefundAnsweredStep
  <1>12. ASSUME NEW t \in Tasks, AbortAnswered(t) PROVE PurchaseInv'
    BY <1>12, AbortAnsweredStep
  <1>13. ASSUME NEW t \in Tasks, AcceptRefunds(t) PROVE PurchaseInv'
    BY <1>13, AcceptRefundsStep
  <1>14. CASE AbortFailedPay
    BY <1>14, AbortFailedPayStep
  <1>15. CASE ApplyRefund
    BY <1>15, ApplyRefundStep
  <1>16. CASE MarkPaid
    BY <1>16, MarkPaidStep
  <1>17. ASSUME NEW c \in Coins, Deposit(c) PROVE PurchaseInv'
    BY <1>17, DepositStep
  <1>18. ASSUME NEW c \in Coins, GrantRefund(c) PROVE PurchaseInv'
    BY <1>18, GrantRefundStep
  <1>19. ASSUME NEW c \in Coins, ExchangeRefunds(c) PROVE PurchaseInv'
    BY <1>19, ExchangeRefundsStep
  <1>20. ASSUME NEW c \in Coins, OtherSpend(c) PROVE PurchaseInv'
    BY <1>20, OtherSpendStep
  <1>21. CASE UNCHANGED vars
    BY <1>21, PurchaseStutter
  <1>22. QED
    BY <1>1, <1>2, <1>3, <1>4, <1>5, <1>6, <1>7, <1>8, <1>9, <1>10, <1>11, <1>12, <1>13, <1>14,
       <1>15, <1>16, <1>17, <1>18, <1>19, <1>20, <1>21 DEF Next

LEMMA PurchaseInvariance ==
    ASSUME ~ConfirmsOverlap
    PROVE  Spec => []PurchaseInv
  <1>1. Init => PurchaseInv
    BY PurchaseStart
  <1>2. PurchaseInv /\ [Next]_vars => PurchaseInv'
    BY PurchaseNext
  <1>3. QED
    BY <1>1, <1>2, PTL DEF Spec

(* The variables keep their types. *)
THEOREM PurchaseTypeCorrect ==
    ASSUME ~ConfirmsOverlap
    PROVE  Spec => []TypeOK
  <1>1. PurchaseInv => TypeOK
    BY DEF PurchaseInv
  <1>2. QED
    BY <1>1, PurchaseInvariance, PTL

(* What the wallet counts on, on a coin's record and in refresh groups, is *)
(* never more than the exchange honours, whatever refunds and aborts are   *)
(* entered by overlapping queries.                                         *)
THEOREM RefundsAreCreditedOnce ==
    ASSUME ~ConfirmsOverlap
    PROVE  Spec => []CreditIsBacked
  <1>1. PurchaseInv => CreditIsBacked
    <2> SUFFICES ASSUME PurchaseInv, NEW c \in Coins
                 PROVE  amt[c] + refreshing[c] <= value[c]
      BY DEF CreditIsBacked
    <2>1. CoinOK(c) /\ amt[c] \in {0, 1} /\ value[c] \in {0, 1}
      BY Types DEF PurchaseInv, CoinsOK, VariablesTyped
    <2>2. CASE c \in p.sel
      BY <2>1, <2>2 DEF CoinOK, Inside, Entered
    <2>3. CASE c \notin p.sel
      BY <2>1, <2>3 DEF CoinOK, Outside
    <2>4. QED
      BY <2>2, <2>3
  <1>2. QED
    BY <1>1, PurchaseInvariance, PTL

(* A coin the exchange still honours is on record, in a refresh group, or  *)
(* bound by a purchase the wallet works on, or its refund can be fetched.  *)
THEOREM NoCoinIsForgotten ==
    ASSUME ~ConfirmsOverlap
    PROVE  Spec => []NothingForgotten
  <1>1. PurchaseInv => NothingForgotten
    <2> SUFFICES ASSUME PurchaseInv, NEW c \in Coins, value[c] = 1
                 PROVE  \/ amt[c] + refreshing[c] = 1
                        \/ p.exists /\ c \in p.sel /\ (p.submit \/ p.query)
                        \/ Paid /\ refund[c] = "done"
      BY DEF NothingForgotten
    <2>1. CoinOK(c) /\ PurchaseOK /\ p \in PurchaseType
      BY PurchaseTyped DEF PurchaseInv, CoinsOK
    <2>2. CASE c \notin p.sel
      BY <2>1, <2>2 DEF CoinOK, Outside
    <2>3. CASE c \in p.sel
      <3>1. Inside(c) /\ Entered(c) /\ p.exists
        BY <2>1, <2>3 DEF CoinOK, PurchaseInv, Before, NoPurchase
      <3>2. CASE order = "open"
        BY <2>1, <2>3, <3>1, <3>2 DEF PurchaseOK
      <3>3. CASE Paid
        BY <3>1, <3>3 DEF Inside
      <3>4. CASE order = "aborted" /\ p.abort = "refund"
        BY <2>1, <2>3, <3>1, <3>4 DEF PurchaseOK
      <3>5. CASE order = "aborted" /\ p.abort = "finished"
        <4>1. p.refunds["abort"][c] \in {"applied", "failed"}
          BY <2>1, <2>3, <3>5 DEF PurchaseOK, Paid
        <4>2. refreshing[c] = 1 /\ amt[c] = 0
          BY <3>1, <3>5, <4>1 DEF Inside, Entered
        <4>3. QED
          BY <4>2
      <3>6. order \in {"open", "paid", "aborted"} /\ p.abort \in {"none", "refund", "finished"}
        BY <2>1, Types DEF PurchaseInv, VariablesTyped, PurchaseType
      <3>7. QED
        BY <2>1, <3>2, <3>3, <3>4, <3>5, <3>6 DEF PurchaseOK, Paid
    <2>4. QED
      BY <2>2, <2>3
  <1>2. QED
    BY <1>1, PurchaseInvariance, PTL

(* A finished abort has brought back every coin of the payment, except     *)
(* where the exchange refused.                                             *)
THEOREM AbortBringsAllBack ==
    ASSUME ~ConfirmsOverlap
    PROVE  Spec => []AbortIsComplete
  <1>1. PurchaseInv => AbortIsComplete
    <2> SUFFICES ASSUME PurchaseInv, p.abort = "finished", ~p.paid, NEW c \in p.sel
                 PROVE  refreshing[c] = 1 \/ refund[c] = "gone"
      BY DEF AbortIsComplete
    <2>1. c \in Coins /\ p.refunds["abort"][c] \in {"applied", "failed"}
      BY PurchaseTyped DEF PurchaseInv, PurchaseOK, PurchaseType
    <2>2. Entered(c)
      BY <2>1 DEF PurchaseInv, CoinsOK, CoinOK
    <2>3. QED
      BY <2>1, <2>2 DEF Entered
  <1>2. QED
    BY <1>1, PurchaseInvariance, PTL
=============================================================================
