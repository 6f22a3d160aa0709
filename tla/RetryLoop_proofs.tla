-------------------------- MODULE RetryLoop_proofs --------------------------
(***************************************************************************)
(* runUntilDone returns only when no operation that gives liveness is      *)
(* left, for every set of operations and every number of retries and       *)
(* events, as long as nobody but the loop asks for due operations alone.   *)
(***************************************************************************)
EXTENDS RetryLoop, TLAPS

(* The live operations that are pending. *)
Open == {o \in LiveOps : op[o].pending}

OpType == op \in [Ops -> [pending : BOOLEAN, due : BOOLEAN, tries : Int]]

(* Whose query it is: one for due operations is the loop's first of a      *)
(* round, and the loop's second is for all operations.                     *)
QueryIsFor ==
    /\ query \in {"none", "due", "all"}
    /\ query = "due" => at = "askDue"
    /\ at = "askAll" => query = "all"
    /\ answer.ready => query # "none"

(* What the query, the loop and the notification know of live operations   *)
(* leaves out only newer ones.                                             *)
NothingMissed ==
    /\ answer.ready /\ query = "all" => Open \subseteq answer.ops \cup news
    /\ at = "gotAll" => Open \subseteq list \cup news
    /\ "gone" \in notes => Open \subseteq news

IInv == OpType /\ QueryIsFor /\ NothingMissed

USE DEF records, memo, loop, caller, extra, vars

-----------------------------------------------------------------------------
(* The initial states satisfy the invariant. *)
LEMMA InitIInv == Init => IInv
  <1> SUFFICES ASSUME Init PROVE IInv
    OBVIOUS
  <1>1. OpType
    <2>1. op \in [Ops -> [pending : BOOLEAN, due : {TRUE}, tries : {0}]]
      BY DEF Init
    <2>2. [pending : BOOLEAN, due : {TRUE}, tries : {0}]
            \subseteq [pending : BOOLEAN, due : BOOLEAN, tries : Int]
      <3>1. {TRUE} \subseteq BOOLEAN /\ {0} \subseteq Int
        OBVIOUS
      <3>2. QED
        BY <3>1, Zenon
    <2>3. QED
      BY <2>1, <2>2 DEF OpType
  <1>2. QueryIsFor /\ NothingMissed
    BY DEF Init, QueryIsFor, NothingMissed, NoAnswer
  <1>3. QED
    BY <1>1, <1>2 DEF IInv

(* Operations become open only as news. *)
LEMMA OpenStep ==
  ASSUME OpType, [Next]_vars
  PROVE  /\ OpType'
         /\ ~ReadPending => Open' \subseteq Open \cup news' /\ news \subseteq news'
  <1>a. LiveOps \subseteq Ops
    BY RetryAssumption
  <1>b. MaxTries \in Int
    BY RetryAssumption
  <1>1. ASSUME NEW o \in Ops, Succeeds(o)
        PROVE  OpType' /\ Open' \subseteq Open
    <2>1. op' \in [Ops -> [pending : BOOLEAN, due : BOOLEAN, tries : Int]]
      BY <1>1 DEF Succeeds, OpType
    <2>2. \A u \in Ops : op'[u].pending => op[u].pending
      BY <1>1 DEF Succeeds, OpType
    <2>3. QED
      BY <1>a, <2>1, <2>2 DEF OpType, Open
  <1>2. ASSUME NEW o \in Ops, FailsReported(o)
        PROVE  OpType' /\ Open' \subseteq Open
    <2> DEFINE t == IF op[o].tries < MaxTries THEN op[o].tries + 1 ELSE op[o].tries
    <2>1. op' = [op EXCEPT ![o] = [pending |-> TRUE, due |-> FALSE, tries |-> t]]
      BY <1>2 DEF FailsReported
    <2>2. t \in Int
      BY <1>b DEF OpType
    <2> HIDE DEF t
    <2>3. op' \in [Ops -> [pending : BOOLEAN, due : BOOLEAN, tries : Int]]
      BY <2>1, <2>2 DEF OpType
    <2>4. \A u \in Ops : op'[u].pending => op[u].pending
      BY <1>2, <2>1 DEF OpType, FailsReported
    <2>5. QED
      BY <1>a, <2>3, <2>4 DEF OpType, Open
  <1>3. ASSUME NEW o \in Ops, FinishOne(o)
        PROVE  OpType' /\ Open' \subseteq Open /\ news' = news
    <2>1. CASE Succeeds(o)
      BY <1>1, <1>3, <2>1 DEF FinishOne
    <2>2. CASE FailsReported(o)
      BY <1>2, <1>3, <2>2 DEF FinishOne
    <2>3. CASE Throws
      BY <1>3, <2>3 DEF FinishOne, Throws, OpType, Open
    <2>4. QED
      BY <1>3, <2>1, <2>2, <2>3 DEF FinishOne
  <1>4. ASSUME NEW o \in Ops, Add(o)
        PROVE  OpType' /\ Open' \subseteq Open \cup {o} /\ news' = news \cup {o}
    BY <1>a, <1>4 DEF Add, OpType, Open
  <1>5. ASSUME NEW o \in Ops, BecomesDue(o)
        PROVE  OpType' /\ Open' \subseteq Open /\ news' = news
    BY <1>a, <1>5 DEF BecomesDue, OpType, Open
  <1>6. CASE UNCHANGED <<op, news>>
    BY <1>6 DEF OpType, Open
  <1>7. CASE ReadPending
    BY <1>7 DEF ReadPending, OpType
  <1>8. CASE QueryResolves \/ OtherQuery \/ RunRetryLoop \/ RunUntilDone \/ Stop
    BY <1>6, <1>8 DEF QueryResolves, OtherQuery, RunRetryLoop, RunUntilDone, Stop
  <1>9. CASE Head \/ Decide \/ EndRound \/ Sleep \/ TimerFires
    BY <1>6, <1>9 DEF Head, Decide, EndRound, Sleep, TimerFires
  <1>10. CASE \E o \in Ops : StartOne(o)
    BY <1>6, <1>10 DEF StartOne
  <1>11. CASE \E n \in {"gone", "other"} : Deliver(n)
    BY <1>6, <1>11 DEF Deliver
  <1>12. CASE UNCHANGED vars
    BY <1>6, <1>12
  <1>13. QED
    BY <1>3, <1>4, <1>5, <1>7, <1>8, <1>9, <1>10, <1>11, <1>12 DEF Next, LoopStep

(* Every step keeps queries where they belong. *)
LEMMA QueryStep ==
  ASSUME OtherQueries \subseteq {"all"}, QueryIsFor, [Next]_vars
  PROVE  QueryIsFor'
  <1> USE DEF QueryIsFor
  <1>1. CASE ReadPending
    BY <1>1 DEF ReadPending
  <1>2. CASE QueryResolves
    BY <1>2 DEF QueryResolves, NoAnswer
  <1>3. CASE OtherQuery
    BY <1>3 DEF OtherQuery, Ask
  <1>4. CASE RunRetryLoop \/ RunUntilDone
    BY <1>4 DEF RunRetryLoop, RunUntilDone, StartLoop
  <1>5. CASE Stop
    BY <1>5 DEF Stop
  <1>6. CASE \E n \in {"gone", "other"} : Deliver(n)
    BY <1>6 DEF Deliver, Ask
  <1>7. CASE Head
    BY <1>7 DEF Head, Ask
  <1>8. CASE Decide
    BY <1>8 DEF Decide, Ask
  <1>9. CASE EndRound \/ Sleep \/ TimerFires
    BY <1>9 DEF EndRound, Sleep, TimerFires
  <1>10. CASE \E o \in Ops : StartOne(o) \/ FinishOne(o)
    <2>1. ASSUME NEW o \in Ops, StartOne(o)
          PROVE  UNCHANGED memo /\ at = "round" /\ at' \notin Places
      BY <2>1, RetryAssumption DEF StartOne
    <2>2. ASSUME NEW o \in Ops, FinishOne(o)
          PROVE  UNCHANGED memo /\ at = o /\ at' = "round"
      BY <2>2 DEF FinishOne
    <2>3. ASSUME NEW o \in Ops
          PROVE  o # "askDue"
      BY <2>3, RetryAssumption DEF Places
    <2>4. QED
      BY <1>10, <2>1, <2>2, <2>3 DEF Places
  <1>11. CASE \E o \in Ops : Add(o) \/ BecomesDue(o)
    <2>1. ASSUME NEW o \in Ops, Add(o)
          PROVE  UNCHANGED memo /\ (at' = at \/ (at = "wait" /\ at' = "head"))
      BY <2>1 DEF Add, Trigger
    <2>2. ASSUME NEW o \in Ops, BecomesDue(o)
          PROVE  UNCHANGED memo /\ at' = at
      BY <2>2 DEF BecomesDue
    <2>3. UNCHANGED memo /\ (at' = at \/ (at = "wait" /\ at' = "head"))
      BY <1>11, <2>1, <2>2
    <2>4. QED
      BY <2>3
  <1>12. CASE UNCHANGED vars
    BY <1>12
  <1>13. QED
    BY <1>1, <1>2, <1>3, <1>4, <1>5, <1>6, <1>7, <1>8, <1>9, <1>10, <1>11, <1>12
       DEF Next, LoopStep

(* Every step keeps what is known of open operations. *)
LEMMA KnownStep ==
  ASSUME OtherQueries \subseteq {"all"}, IInv, [Next]_vars
  PROVE  NothingMissed'
  <1>1. OpType /\ QueryIsFor /\ NothingMissed
    BY DEF IInv
  <1>2. ASSUME ~ReadPending
        PROVE  Open' \subseteq Open \cup news' /\ news \subseteq news'
    BY <1>1, <1>2, OpenStep
  <1>3. ASSUME ~ReadPending,
               answer' = answer, (query' = query) \/ ~answer.ready,
               at' = "gotAll" => at = "gotAll" /\ list' = list,
               "gone" \in notes' => "gone" \in notes
        PROVE  NothingMissed'
    BY <1>1, <1>2, <1>3 DEF NothingMissed
  <1>4. CASE ReadPending
    <2>1. Open' = Open
      BY <1>4 DEF ReadPending, Open
    <2>2. query = "all" => Open \subseteq answer'.ops
      BY <1>1, <1>4, RetryAssumption DEF ReadPending, Open
    <2>3. UNCHANGED <<query, at, list, notes>>
      BY <1>4 DEF ReadPending
    <2>4. at = "gotAll" \/ "gone" \in notes => news' = news
      BY <1>4 DEF ReadPending
    <2>5. QED
      BY <1>1, <2>1, <2>2, <2>3, <2>4 DEF NothingMissed
  <1>5. CASE QueryResolves
    <2>1. ~ReadPending
      BY <1>5 DEF QueryResolves, ReadPending
    <2>2. ~answer'.ready /\ UNCHANGED <<notes, news>>
      BY <1>5 DEF QueryResolves, NoAnswer
    <2>3. CASE at = "askAll"
      <3>1. Open \subseteq answer.ops \cup news
        BY <1>1, <1>5, <2>3 DEF QueryResolves, QueryIsFor, NothingMissed
      <3>2. list' = answer.ops
        BY <1>5, <2>3 DEF QueryResolves
      <3>3. QED
        BY <1>1, <1>2, <2>1, <2>2, <3>1, <3>2 DEF NothingMissed
    <2>4. CASE at # "askAll"
      <3>1. at' = "gotAll" => at = "gotAll" /\ list' = list
        BY <1>5, <2>4 DEF QueryResolves
      <3>2. QED
        BY <1>1, <1>2, <2>1, <2>2, <3>1 DEF NothingMissed
    <2>5. QED
      BY <2>3, <2>4
  <1>6. CASE Sleep
    <2>1. ~ReadPending
      BY <1>6 DEF Sleep, ReadPending
    <2>2. "gone" \in notes' => "gone" \in notes \/ list \cap LiveOps = {}
      BY <1>6 DEF Sleep, Notify
    <2>3. list \cap LiveOps = {} => Open \subseteq news
      BY <1>1, <1>6 DEF Sleep, NothingMissed, Open
    <2>4. at' # "gotAll" /\ UNCHANGED <<query, answer>>
      BY <1>6 DEF Sleep
    <2>5. QED
      BY <1>1, <1>2, <2>1, <2>2, <2>3, <2>4 DEF NothingMissed
  <1>7. CASE OtherQuery \/ Head \/ Decide \/ \E n \in {"gone", "other"} : Deliver(n)
    <2>1. ~ReadPending
      BY <1>7 DEF OtherQuery, Head, Decide, Deliver, Ask, ReadPending
    <2>2. answer' = answer /\ (query' = query \/ ~answer.ready)
      BY <1>1, <1>7 DEF OtherQuery, Head, Decide, Deliver, Ask, QueryIsFor
    <2>3. at' = "gotAll" => at = "gotAll" /\ list' = list
      BY <1>7 DEF OtherQuery, Head, Decide, Deliver
    <2>4. "gone" \in notes' => "gone" \in notes
      BY <1>7 DEF OtherQuery, Head, Decide, Deliver
    <2>5. QED
      BY <1>3, <2>1, <2>2, <2>3, <2>4
  <1>8. CASE RunRetryLoop \/ RunUntilDone \/ Stop \/ EndRound \/ TimerFires
    <2>1. UNCHANGED <<query, answer>>
      BY <1>8 DEF RunRetryLoop, RunUntilDone, Stop, EndRound, TimerFires
    <2>2. at' = "gotAll" => at = "gotAll" /\ list' = list
      BY <1>8 DEF RunRetryLoop, RunUntilDone, StartLoop, Stop, EndRound, TimerFires
    <2>3. "gone" \in notes' => "gone" \in notes
      BY <1>8 DEF RunRetryLoop, RunUntilDone, Stop, EndRound, TimerFires
    <2>4. CASE ReadPending
      BY <1>4, <2>4
    <2>5. CASE ~ReadPending
      BY <1>3, <2>1, <2>2, <2>3, <2>5
    <2>6. QED
      BY <2>4, <2>5
  <1>9. CASE \E o \in Ops : StartOne(o) \/ FinishOne(o) \/ Add(o) \/ BecomesDue(o)
    <2>1. PICK o \in Ops : StartOne(o) \/ FinishOne(o) \/ Add(o) \/ BecomesDue(o)
      BY <1>9
    <2>2. UNCHANGED <<query, answer>>
      BY <2>1 DEF StartOne, FinishOne, Add, BecomesDue
    <2>3. at' = "gotAll" => at = "gotAll" /\ list' = list
      <3>1. CASE StartOne(o)
        BY <3>1, RetryAssumption DEF StartOne, Places
      <3>2. CASE FinishOne(o)
        BY <3>2 DEF FinishOne
      <3>3. CASE Add(o)
        BY <3>3 DEF Add, Trigger
      <3>4. CASE BecomesDue(o)
        BY <3>4 DEF BecomesDue
      <3>5. QED
        BY <2>1, <3>1, <3>2, <3>3, <3>4
    <2>4. "gone" \in notes' => "gone" \in notes
      BY <2>1 DEF StartOne, FinishOne, Notify, Add, BecomesDue
    <2>5. CASE ReadPending
      BY <1>4, <2>5
    <2>6. CASE ~ReadPending
      BY <1>3, <2>2, <2>3, <2>4, <2>6
    <2>7. QED
      BY <2>5, <2>6
  <1>10. CASE UNCHANGED vars
    BY <1>1, <1>10 DEF NothingMissed, Open
  <1>11. QED
    BY <1>4, <1>5, <1>6, <1>7, <1>8, <1>9, <1>10 DEF Next, LoopStep

(* A step with which runUntilDone returns either stops the wallet or        *)
(* delivers a notification that no live operation is left.                 *)
LEMMA ReturnStep ==
  ASSUME IInv, [Next]_vars, until = "running", until' = "returned"
  PROVE  stopped' \/ (Open' = Open /\ "gone" \in notes /\ news' = news)
  <1>1. CASE QueryResolves
    BY <1>1 DEF QueryResolves
  <1>2. CASE \E n \in {"gone", "other"} : Deliver(n)
    BY <1>2 DEF Deliver, Open
  <1>3. CASE ~QueryResolves /\ ~(\E n \in {"gone", "other"} : Deliver(n))
    <2>1. until' = until \/ until' = "running"
      BY <1>3 DEF Next, LoopStep, ReadPending, OtherQuery, RunRetryLoop, RunUntilDone, Stop, Head,
                  Decide, EndRound, Sleep, TimerFires, StartOne, FinishOne, Add, BecomesDue
    <2>2. QED
      BY <2>1
  <1>4. QED
    BY <1>1, <1>2, <1>3

-----------------------------------------------------------------------------
(* runUntilDone returns with a live operation pending only if it stopped   *)
(* the wallet or the operation is newer than what the loop read: provided  *)
(* that only the loop asks for due operations alone.                       *)
THEOREM ReturnsRightly ==
  ASSUME OtherQueries \subseteq {"all"}
  PROVE  Spec => ReturnsWhenNoneLeft
  <1>1. IInv /\ [Next]_vars => IInv'
    BY OpenStep, QueryStep, KnownStep DEF IInv
  <1>2. IInv /\ [Next]_vars =>
          [until = "running" /\ until' = "returned"
             => stopped' \/ \A o \in LiveOps : op'[o].pending => o \in news]_vars
    <2>1. SUFFICES ASSUME IInv, [Next]_vars, until = "running", until' = "returned", ~stopped'
                   PROVE  \A o \in LiveOps : op'[o].pending => o \in news
      OBVIOUS
    <2>2. Open' = Open /\ "gone" \in notes
      BY <2>1, ReturnStep
    <2>3. Open \subseteq news
      BY <2>1, <2>2 DEF IInv, NothingMissed
    <2>4. QED
      BY <2>2, <2>3 DEF Open
  <1>3. QED
    BY <1>1, <1>2, InitIInv, PTL DEF Spec, ReturnsWhenNoneLeft
=============================================================================
