----------------------------- MODULE RetryLoop -----------------------------
(***************************************************************************)
(* The wallet's main loop (wallet.ts: runRetryLoop, runUntilDone, stop) and*)
(* what drives it: the memoised query for pending operations (pending.ts), *)
(* the retry information of their records (util/retries.ts), the latch     *)
(* (AsyncCondition) and the timer group.                                   *)
(*                                                                         *)
(* Abstraction: a pending operation is due or waits for its retry time;    *)
(* processing one is a step of its own that succeeds, fails and is         *)
(* reported (which schedules the next try), or throws without a report.    *)
(***************************************************************************)
EXTENDS Integers, FiniteSets

CONSTANTS
    Ops,            \* records that can have a pending operation
    LiveOps,        \* those whose operations have givesLifeness = true
    CountedOps,     \* those whose operations carry their retryInfo: the live
                    \* ones, but not the pickup of a tip
    MaxTries,       \* bound on the retry counters
    MaxRetries,     \* req.maxRetries of runUntilDone; 0 for undefined
    OtherQueries,   \* filters other callers ask for: "due" and / or "all"
    MaxEvents,      \* bound on new operations and on unreported failures
    MayStop         \* may stop() be called from outside?

Places == {"off", "head", "askDue", "gotDue", "round", "askAll", "gotAll", "wait", "exited"}

ASSUME RetryAssumption ==
    /\ Ops \cap Places = {}
    /\ LiveOps \subseteq Ops /\ CountedOps \subseteq LiveOps
    /\ MaxTries \in Nat /\ MaxRetries \in Nat /\ MaxEvents \in Nat
    /\ OtherQueries \subseteq {"due", "all"}
    /\ MayStop \in BOOLEAN

VARIABLES
    op,         \* per record: is it pending, is it due, its retryCounter
    query,      \* memoGetPending: the filter of the running query, or "none"
    answer,     \* what the running query has read so far
    at,         \* where the loop is: a place in the code, or in an operation
    first,      \* iteration = 0
    list,       \* operations the loop still has to process in this round
    timer,      \* the timer of the current wait: "off", armed with no delay
                \* ("soon"), or with one ("later")
    stopped,
    until,      \* the promise of runUntilDone
    notes,      \* notifications posted (setTimeout 0) and not yet delivered:
                \* "gone", WaitingForRetry without live operations, or "other"
    monitor,    \* listeners of runUntilDone, of the present call and of
                \* earlier ones, that wait for a query
    events,     \* counts new operations and unreported failures (bound only)
    news        \* history: operations added since the last read of pending
                \* operations that the loop's decision to wait may rest on

records == <<op>>
memo == <<query, answer>>
loop == <<at, first, list, timer>>
caller == <<until, notes, monitor>>
extra == <<events, news>>
vars == <<op, query, answer, at, first, list, timer, stopped, until, notes, monitor,
          events, news>>

NoAnswer == [ready |-> FALSE, ops |-> {}, over |-> FALSE]

TypeOK ==
    /\ op \in [Ops -> [pending : BOOLEAN, due : BOOLEAN, tries : 0..MaxTries]]
    /\ query \in {"none", "due", "all"}
    /\ answer \in [ready : BOOLEAN, ops : SUBSET Ops, over : BOOLEAN]
    /\ at \in Places \cup Ops
    /\ first \in BOOLEAN /\ timer \in {"off", "soon", "later"} /\ stopped \in BOOLEAN
    /\ list \subseteq Ops
    /\ until \in {"off", "running", "returned"}
    /\ notes \subseteq {"gone", "other"}
    /\ monitor \subseteq {"current", "earlier"}
    /\ events \in 0..MaxEvents
    /\ news \subseteq Ops

Init ==
    /\ op \in [Ops -> [pending : BOOLEAN, due : {TRUE}, tries : {0}]]
    /\ query = "none" /\ answer = NoAnswer
    /\ at = "off" /\ first = TRUE /\ list = {}
    /\ timer = "off" /\ stopped = FALSE
    /\ until = "off" /\ notes = {} /\ monitor = {}
    /\ events = 0 /\ news = {}

-----------------------------------------------------------------------------
(* The query: a running one is shared, whatever its filter. *)
Ask(filter) ==
    /\ query' = IF query = "none" THEN filter ELSE query
    /\ UNCHANGED answer

(* The read transaction of getPendingOperations, with the retryInfo of the *)
(* entries that carry it, at which the listeners look.                     *)
ReadPending ==
    /\ query # "none" /\ ~answer.ready
    /\ LET found == {o \in Ops : op[o].pending /\ (query = "due" => op[o].due)}
       IN  answer' = [ready |-> TRUE, ops |-> found,
                      over |-> \E o \in found \cap CountedOps : op[o].tries > MaxRetries]
    /\ news' = IF at = "gotAll" \/ "gone" \in notes THEN news ELSE {}
    /\ UNCHANGED <<records, query, loop, stopped, caller, events>>

(* The query resolves, and all that wait for it go on: the loop, and the   *)
(* listeners of runUntilDone that stop the wallet after too many retries.  *)
QueryResolves ==
    /\ answer.ready
    /\ query' = "none" /\ answer' = NoAnswer
    /\ IF at \in {"askDue", "askAll"}
       THEN /\ at' = IF at = "askDue" THEN "gotDue" ELSE "gotAll"
            /\ list' = answer.ops
       ELSE UNCHANGED <<at, list>>
    /\ monitor' = {}
    /\ IF monitor # {} /\ answer.over
       THEN /\ stopped' = TRUE /\ timer' = "off"
            /\ until' = IF "current" \in monitor THEN "returned" ELSE until
       ELSE UNCHANGED <<stopped, timer, until>>
    /\ UNCHANGED <<records, first, notes, extra>>

(* Another caller of getPendingOperations. *)
OtherQuery ==
    /\ query = "none"
    /\ \E filter \in OtherQueries : Ask(filter)
    /\ UNCHANGED <<records, loop, stopped, caller, extra>>

-----------------------------------------------------------------------------
(* notify posts a copy for every listener; the listener of a runUntilDone  *)
(* that returned ignores its copy.                                         *)
Notify(n) == notes' = IF until = "running" THEN notes \cup {n} ELSE notes

(* The listener runUntilDone adds gets its copy. *)
Deliver(n) ==
    /\ n \in notes /\ notes' = notes \ {n}
    /\ IF until # "running"
       THEN UNCHANGED <<until, monitor, memo>>
       ELSE /\ until' = IF n = "gone" THEN "returned" ELSE until
            /\ IF MaxRetries # 0
               THEN monitor' = monitor \cup {"current"} /\ Ask("all")
               ELSE UNCHANGED <<monitor, memo>>
    /\ UNCHANGED <<records, loop, stopped, extra>>

(* runRetryLoop: a running loop is shared. *)
StartLoop ==
    IF at \in {"off", "exited"}
    THEN at' = "head" /\ first' = TRUE /\ UNCHANGED <<list, timer>>
    ELSE UNCHANGED loop

RunRetryLoop ==
    /\ StartLoop
    /\ UNCHANGED <<records, memo, stopped, caller, extra>>

RunUntilDone ==
    /\ until # "running"
    /\ until' = "running" /\ notes' = {}
    /\ monitor' = IF monitor = {} THEN {} ELSE {"earlier"}
    /\ StartLoop
    /\ UNCHANGED <<records, memo, stopped, extra>>

Head ==
    /\ at = "head"
    /\ IF stopped
       THEN at' = "exited" /\ UNCHANGED memo
       ELSE at' = "askDue" /\ Ask("due")
    /\ UNCHANGED <<records, first, list, timer, stopped, caller, extra>>

(* Mutant of Decide: the second query has the filter of the first. *)
DecideAsksDue ==
    /\ at = "gotDue"
    /\ IF first \/ list \cap LiveOps # {}
       THEN at' = "round" /\ UNCHANGED memo
       ELSE at' = "askAll" /\ Ask("due")
    /\ UNCHANGED <<records, first, list, timer, stopped, caller, extra>>

(* Operations that do not give liveness are only processed in the first    *)
(* round, and along with one that does.                                    *)
Decide ==
    /\ at = "gotDue"
    /\ IF first \/ list \cap LiveOps # {}
       THEN at' = "round" /\ UNCHANGED memo
       ELSE at' = "askAll" /\ Ask("all")
    /\ UNCHANGED <<records, first, list, timer, stopped, caller, extra>>

StartOne(o) ==
    /\ at = "round" /\ o \in list
    /\ at' = o /\ list' = list \ {o}
    /\ UNCHANGED <<records, memo, first, timer, stopped, caller, extra>>

(* processOnePendingOperation settles: the operation succeeded, or an      *)
(* error was reported and the retry time set, or neither (an event).       *)
Succeeds(o) ==
    /\ op' = [op EXCEPT ![o] = [pending |-> FALSE, due |-> TRUE, tries |-> 0]]
    /\ UNCHANGED events

FailsReported(o) ==
    /\ op[o].pending
    /\ op' = [op EXCEPT ![o] = [pending |-> TRUE, due |-> FALSE, tries |->
                  IF @.tries < MaxTries THEN @.tries + 1 ELSE @.tries]]
    /\ UNCHANGED events

Throws == events < MaxEvents /\ events' = events + 1 /\ UNCHANGED op

FinishOne(o) ==
    /\ at = o /\ at' = "round"
    /\ Succeeds(o) \/ FailsReported(o) \/ Throws
    /\ Notify("other")
    /\ UNCHANGED <<memo, first, list, timer, stopped, until, monitor, news>>

(* Mutant of EndRound: iteration is not incremented. *)
EndRoundStaysFirst ==
    /\ at = "round" /\ list = {}
    /\ at' = "head"
    /\ UNCHANGED <<records, memo, first, list, timer, stopped, caller, extra>>

EndRound ==
    /\ at = "round" /\ list = {}
    /\ at' = "head" /\ first' = FALSE
    /\ UNCHANGED <<records, memo, list, timer, stopped, caller, extra>>

(* A stopped timer group drops the timer; the delay is the time until the  *)
(* first of the pending operations is due, at most 5 seconds.              *)
ArmTimer == timer' = IF stopped THEN "off"
                     ELSE IF \E o \in list : op[o].due THEN "soon" ELSE "later"

(* Mutant of Sleep: with nothing pending, only the latch is awaited. *)
SleepNoTimer ==
    /\ at = "gotAll"
    /\ at' = "wait" /\ list' = {}
    /\ IF list = {} THEN timer' = "off" ELSE ArmTimer
    /\ Notify(IF list \cap LiveOps = {} THEN "gone" ELSE "other")
    /\ UNCHANGED <<records, memo, first, stopped, until, monitor, extra>>

(* Arm the timer, tell the listeners, wait for the timer or the latch.     *)
Sleep ==
    /\ at = "gotAll"
    /\ at' = "wait" /\ ArmTimer /\ list' = {}
    /\ Notify(IF list \cap LiveOps = {} THEN "gone" ELSE "other")
    /\ UNCHANGED <<records, memo, first, stopped, until, monitor, extra>>

(* A timer with a delay fires after the notifications posted before it.    *)
TimerFires ==
    /\ at = "wait"
    /\ timer = "soon" \/ (timer = "later" /\ notes = {})
    /\ timer' = "off" /\ at' = "head" /\ first' = FALSE
    /\ UNCHANGED <<records, memo, list, stopped, caller, extra>>

-----------------------------------------------------------------------------
(* Surroundings. *)

(* Latch.trigger: resolves the current wait, if there is one. *)
Trigger ==
    IF at = "wait" THEN at' = "head" /\ first' = FALSE /\ timer' = "off"
                   ELSE UNCHANGED <<at, first, timer>>

(* An operation of the wallet leaves a record with something to do (an     *)
(* event); only some of the callers trigger the latch.                     *)
Add(o) ==
    /\ events < MaxEvents /\ events' = events + 1
    /\ ~op[o].pending /\ news' = news \cup {o}
    /\ op' = [op EXCEPT ![o] = [pending |-> TRUE, due |-> TRUE, tries |-> 0]]
    /\ Trigger \/ UNCHANGED <<at, first, timer>>
    /\ UNCHANGED <<memo, list, stopped, caller>>

(* Time passes until nextRetry. *)
BecomesDue(o) ==
    /\ op[o].pending /\ ~op[o].due
    /\ op' = [op EXCEPT ![o].due = TRUE]
    /\ UNCHANGED <<memo, loop, stopped, caller, extra>>

Stop ==
    /\ MayStop /\ ~stopped
    /\ stopped' = TRUE /\ timer' = "off"
    /\ UNCHANGED <<records, memo, at, first, list, caller, extra>>

LoopStep ==
    \/ Head \/ Decide \/ EndRound \/ Sleep \/ TimerFires
    \/ \E o \in Ops : StartOne(o) \/ FinishOne(o)

Next ==
    \/ LoopStep \/ ReadPending \/ QueryResolves
    \/ OtherQuery \/ RunRetryLoop \/ RunUntilDone \/ Stop
    \/ \E n \in {"gone", "other"} : Deliver(n)
    \/ \E o \in Ops : Add(o) \/ BecomesDue(o)

Spec == Init /\ [][Next]_vars

(* The event loop runs what is ready, requests settle, time passes. *)
FairSpec ==
    /\ Spec
    /\ WF_vars(LoopStep) /\ WF_vars(ReadPending) /\ WF_vars(QueryResolves)
    /\ \A n \in {"gone", "other"} : WF_vars(Deliver(n))
    /\ \A o \in Ops : WF_vars(BecomesDue(o))

-----------------------------------------------------------------------------
(* Properties. *)

(* "Run the wallet until there are no more pending operations that give    *)
(* liveness left": runUntilDone returns with a live operation pending only *)
(* if it stopped the wallet, or if the operation is newer than the read of *)
(* the database its answer rests on.                                       *)
ReturnsWhenNoneLeft ==
    [][until = "running" /\ until' = "returned"
       => stopped' \/ \A o \in LiveOps : op'[o].pending => o \in news]_vars

(* No wake-up is lost for good: an operation that gives liveness and is    *)
(* due gets its turn, even if it was added between the question and the    *)
(* wait and nobody triggered the latch again.                              *)
LiveOpsGetTheirTurn ==
    \A o \in LiveOps :
        (at # "off" /\ op[o].pending /\ op[o].due) ~> (at = o \/ ~op[o].pending \/ stopped)

(* However often operations fail with a report, runUntilDone with a limit  *)
(* on the retries returns, by itself or by stopping the wallet, unless it  *)
(* is stopped from outside, or a live operation that no limit counts (the  *)
(* pickup of a tip: pending.ts:366) stays pending for ever, or operations  *)
(* always become due between the two queries of a round (the listener then *)
(* shares the loop's query for due operations and does not see what waits).*)
UntilDoneReturns ==
    \/ (until = "running" /\ ~stopped) ~> (until = "returned" \/ stopped)
    \/ \E o \in LiveOps \ CountedOps : <>[]op[o].pending
    \/ []<>(timer = "soon")

(* "wait for scheduled operations in a loop" (wallet.ts): every operation  *)
(* that is due gets its turn.  Not so: after the first round the loop      *)
(* works only when a live one is due (wallet.ts:419).  No run checks it.   *)
DueOpsGetTheirTurn ==
    \A o \in Ops :
        (at # "off" /\ op[o].pending /\ op[o].due) ~> (at = o \/ ~op[o].pending \/ stopped)
=============================================================================
