-------------------------- MODULE IdbTransactions --------------------------
(***************************************************************************)
(* A database transaction of the wallet, from runWithTransaction           *)
(* (util/query.ts) through BridgeIDBTransaction (idb-bridge/bridge-idb.ts) *)
(* to the in-memory backend (idb-bridge/MemoryBackend.ts).                 *)
(*                                                                         *)
(* Everything runs on one event loop.  The transaction function f goes on  *)
(* in the microtasks after a request has been answered, that is before the *)
(* next task of its transaction, unless it waits for something that is not *)
(* a request ("away").  _start is the engine of a transaction: it takes    *)
(* the next request, begins the backend transaction for the first one,     *)
(* and commits when it finds no request.                                   *)
(*                                                                         *)
(* A write of the backend is on disk when the commit is (headless wallet:  *)
(* afterCommitCallback exports and renames without giving way to another   *)
(* task), so a crash loses what is not committed.                          *)
(***************************************************************************)
EXTENDS Integers, Sequences, FiniteSets

CONSTANTS
    Tx, Keys, Writers, Script,  \* see AtomicStore
    None,                       \* nobody
    MaxCrashes                  \* bound: how often the process dies

ASSUME DatabaseAssumption ==
    /\ Writers \subseteq Tx /\ None \notin Tx
    /\ Script \in [Tx -> Seq(Keys)]
    /\ \A t \in Tx : \A i, j \in 1..Len(Script[t]) : Script[t][i] = Script[t][j] => i = j
    /\ MaxCrashes \in Nat

VARIABLES
    (* the backend *)
    store,      \* originalData of the records, and the file
    work,       \* modifiedData (or originalData where there is none)
    owner,      \* the transaction that keeps txLevel above None
    (* per transaction, the bridge *)
    state,      \* "none", "live", "committed" or "aborted"
    active,     \* _active: may requests be placed?
    sched,      \* what _start does next
    req,        \* the one request of f: "none", "queued" or "running"
    btx,        \* _backendTransaction: "none", "open" or "over"
    (* per transaction, runWithTransaction *)
    fn,         \* where the function f is
    seen,       \* the values f has read
    puts,       \* how many of them it has put back
    promise,    \* what the caller waits for
    crashes

backend == <<store, work, owner>>
func == <<fn, seen, puts>>
dbVars == <<store, work, owner, state, active, sched, req, btx, fn, seen, puts, promise, crashes>>

DbTypeOK ==
    /\ store \in [Keys -> Nat] /\ work \in [Keys -> Nat] /\ owner \in Tx \cup {None}
    /\ state \in [Tx -> {"none", "live", "committed", "aborted"}]
    /\ active \in [Tx -> BOOLEAN]
    /\ sched \in [Tx -> {"none", "start", "begin", "macro", "deact", "end"}]
    /\ req \in [Tx -> {"none", "queued", "running"}]
    /\ btx \in [Tx -> {"none", "open", "over"}]
    /\ fn \in [Tx -> {"none", "go", "wait", "away", "returned", "threw"}]
    /\ seen \in [Tx -> Seq(Nat)] /\ puts \in [Tx -> Nat]
    /\ promise \in [Tx -> {"pending", "aborting", "resolved", "rejected"}]
    /\ crashes \in 0..MaxCrashes

DbInit ==
    /\ store = [k \in Keys |-> 0] /\ work = store /\ owner = None
    /\ state = [t \in Tx |-> "none"] /\ active = [t \in Tx |-> FALSE]
    /\ sched = [t \in Tx |-> "none"] /\ req = [t \in Tx |-> "none"]
    /\ btx = [t \in Tx |-> "none"] /\ fn = [t \in Tx |-> "none"]
    /\ seen = [t \in Tx |-> <<>>] /\ puts = [t \in Tx |-> 0]
    /\ promise = [t \in Tx |-> "pending"] /\ crashes = 0

(* f has put back what it read: it is between two keys of its script. *)
Between(t) == t \in Writers => puts[t] = Len(seen[t])

(* The step e of the function or the engine of t. *)
Fn(t, e) == fn' = [fn EXCEPT ![t] = e]
Sched(t, e) == sched' = [sched EXCEPT ![t] = e]

-----------------------------------------------------------------------------
(* runWithTransaction: the transaction is created active, the task that    *)
(* starts it is queued, and f is called.                                   *)
Open(t) ==
    /\ state[t] = "none"
    /\ state' = [state EXCEPT ![t] = "live"] /\ active' = [active EXCEPT ![t] = TRUE]
    /\ Sched(t, "start") /\ Fn(t, "go")
    /\ UNCHANGED <<backend, req, btx, seen, puts, promise, crashes>>

(* f places its next request: it gets the next key, or puts the value it   *)
(* got.                                                                    *)
Ask(t) ==
    /\ fn[t] = "go" /\ active[t]
    /\ Between(t) => Len(seen[t]) < Len(Script[t])
    /\ req' = [req EXCEPT ![t] = "queued"] /\ Fn(t, "wait")
    /\ UNCHANGED <<backend, state, active, sched, btx, seen, puts, promise, crashes>>

Return(t) ==
    /\ fn[t] = "go" /\ Between(t)
    /\ Fn(t, "returned")
    /\ UNCHANGED <<backend, state, active, sched, req, btx, seen, puts, promise, crashes>>

(* f waits for something else than a request, and goes on. *)
GoAway(t) ==
    /\ fn[t] = "go"
    /\ Fn(t, "away")
    /\ UNCHANGED <<backend, state, active, sched, req, btx, seen, puts, promise, crashes>>

ComeBack(t) ==
    /\ fn[t] = "away"
    /\ Fn(t, "go")
    /\ UNCHANGED <<backend, state, active, sched, req, btx, seen, puts, promise, crashes>>

(* The asynchronous half of _abort: only a backend transaction that has    *)
(* begun is rolled back.                                                   *)
Rollback(t) ==
    IF btx[t] = "open"
    THEN /\ work' = store /\ owner' = None
         /\ btx' = [btx EXCEPT ![t] = "over"] /\ UNCHANGED store
    ELSE UNCHANGED <<backend, btx>>

(* _abort: a request that is still queued is cancelled, a running one is   *)
(* not; the abort event is a task of its own.                              *)
AbortTx(t) ==
    IF state[t] = "live"
    THEN /\ state' = [state EXCEPT ![t] = "aborted"] /\ active' = [active EXCEPT ![t] = FALSE]
         /\ req' = [req EXCEPT ![t] = IF @ = "queued" THEN "none" ELSE @]
         /\ promise' = [promise EXCEPT ![t] = "aborting"]
         /\ Rollback(t)
    ELSE UNCHANGED <<state, active, req, promise, backend, btx>>

(* Mutant of Throw: the exception is logged, the transaction goes on. *)
ThrowNoAbort(t) ==
    /\ fn[t] \in {"go", "wait"}
    /\ Fn(t, "threw")
    /\ UNCHANGED <<backend, state, active, sched, req, btx, seen, puts, promise, crashes>>

(* f throws, also while a request it did not wait for is under way or      *)
(* because its transaction is not active any more; tx.abort() of a         *)
(* finished transaction throws in its turn and is only logged.             *)
Throw(t) ==
    /\ fn[t] \in {"go", "wait"}
    /\ Fn(t, "threw")
    /\ AbortTx(t)
    /\ UNCHANGED <<sched, seen, puts, crashes>>

AbortEvent(t) ==
    /\ promise[t] = "aborting"
    /\ promise' = [promise EXCEPT ![t] = "rejected"]
    /\ UNCHANGED <<backend, state, active, sched, req, btx, func, crashes>>

-----------------------------------------------------------------------------
(* _start with a request in the queue. *)
StartRequest(t) ==
    /\ sched[t] = "start" /\ fn[t] # "go" /\ req[t] = "queued"
    /\ req' = [req EXCEPT ![t] = "running"]
    /\ Sched(t, IF btx[t] = "none" /\ state[t] # "aborted" THEN "begin" ELSE "macro")
    /\ UNCHANGED <<backend, state, active, btx, func, promise, crashes>>

(* Mutant of BeginTransaction: it does not wait for the others. *)
BeginAnyway(t) ==
    /\ sched[t] = "begin"
    /\ owner' = t /\ btx' = [btx EXCEPT ![t] = "open"]
    /\ Sched(t, "macro")
    /\ UNCHANGED <<store, work, state, active, req, func, promise, crashes>>

(* beginTransaction waits while the database has a transaction of any      *)
(* level.                                                                  *)
BeginTransaction(t) ==
    /\ sched[t] = "begin" /\ owner = None
    /\ owner' = t /\ btx' = [btx EXCEPT ![t] = "open"]
    /\ Sched(t, "macro")
    /\ UNCHANGED <<store, work, state, active, req, func, promise, crashes>>

(* The function of t goes on with e, if it has been waiting. *)
Wake(t, e) == Fn(t, IF fn[t] = "wait" THEN e ELSE fn[t])

(* The operation of a get or a put; the success event makes the            *)
(* transaction active until the next task.                                 *)
Execute(t) ==
    /\ sched[t] = "macro" /\ btx[t] = "open"
    /\ IF Between(t)
       THEN /\ seen' = [seen EXCEPT ![t] = Append(@, work[Script[t][Len(@) + 1]])]
            /\ UNCHANGED <<work, puts>>
       ELSE /\ puts' = [puts EXCEPT ![t] = @ + 1]
            /\ work' = [work EXCEPT ![Script[t][puts[t] + 1]] = seen[t][puts[t] + 1] + 1]
            /\ UNCHANGED seen
    /\ Wake(t, "go")
    /\ req' = [req EXCEPT ![t] = "none"] /\ active' = [active EXCEPT ![t] = TRUE]
    /\ Sched(t, "deact")
    /\ UNCHANGED <<store, owner, state, btx, promise, crashes>>

(* The operation throws: the backend refuses it (ConstraintError,          *)
(* DataError), or there is no backend transaction any more.  Nobody        *)
(* cancels the error event, so the transaction is aborted.                 *)
ExecuteFails(t) ==
    /\ sched[t] = "macro"
    /\ IF state[t] = "live"
       THEN /\ state' = [state EXCEPT ![t] = "aborted"] /\ active' = [active EXCEPT ![t] = FALSE]
            /\ promise' = [promise EXCEPT ![t] = "aborting"] /\ Rollback(t)
       ELSE active' = [active EXCEPT ![t] = TRUE] /\ UNCHANGED <<state, promise, backend, btx>>
    /\ req' = [req EXCEPT ![t] = "none"]
    /\ Wake(t, "threw") /\ Sched(t, "deact")
    /\ UNCHANGED <<seen, puts, crashes>>

Deactivate(t) ==
    /\ sched[t] = "deact" /\ fn[t] # "go"
    /\ active' = [active EXCEPT ![t] = FALSE] /\ Sched(t, "start")
    /\ UNCHANGED <<backend, state, req, btx, func, promise, crashes>>

(* Mutant of CommitTx: txLevel is not reset. *)
CommitKeepsLevel(t) ==
    /\ sched[t] = "start" /\ fn[t] # "go" /\ req[t] = "none" /\ state[t] = "live"
    /\ IF btx[t] = "open"
       THEN store' = work /\ btx' = [btx EXCEPT ![t] = "over"] /\ UNCHANGED <<work, owner>>
       ELSE UNCHANGED <<backend, btx>>
    /\ state' = [state EXCEPT ![t] = "committed"] /\ active' = [active EXCEPT ![t] = FALSE]
    /\ promise' = [promise EXCEPT ![t] = IF fn[t] = "returned" THEN "resolved" ELSE "rejected"]
    /\ Sched(t, "end")
    /\ UNCHANGED <<req, func, crashes>>

(* _start without a request: commit and the complete event.  A function    *)
(* that has not returned by then is reported as a bug.                     *)
CommitTx(t) ==
    /\ sched[t] = "start" /\ fn[t] # "go" /\ req[t] = "none" /\ state[t] = "live"
    /\ IF btx[t] = "open"
       THEN store' = work /\ owner' = None /\ btx' = [btx EXCEPT ![t] = "over"] /\ UNCHANGED work
       ELSE UNCHANGED <<backend, btx>>
    /\ state' = [state EXCEPT ![t] = "committed"] /\ active' = [active EXCEPT ![t] = FALSE]
    /\ promise' = [promise EXCEPT ![t] = IF fn[t] = "returned" THEN "resolved" ELSE "rejected"]
    /\ Sched(t, "end")
    /\ UNCHANGED <<req, func, crashes>>

(* _start of an aborted transaction only resolves _waitPromise. *)
StartAborted(t) ==
    /\ sched[t] = "start" /\ fn[t] # "go" /\ req[t] = "none" /\ state[t] = "aborted"
    /\ Sched(t, "end")
    /\ UNCHANGED <<backend, state, active, req, btx, func, promise, crashes>>

-----------------------------------------------------------------------------
(* The process dies and is started again: what was under way is gone, with *)
(* its caller, and the data is what the file holds.                        *)
Crash ==
    /\ crashes < MaxCrashes
    /\ crashes' = crashes + 1
    /\ work' = store /\ owner' = None
    /\ LET On(f, dead) == [t \in Tx |-> IF state[t] = "none" THEN f[t] ELSE dead]
       IN /\ state' = [t \in Tx |-> IF state[t] = "live" THEN "aborted" ELSE state[t]]
          /\ active' = On(active, FALSE) /\ sched' = On(sched, "end") /\ req' = On(req, "none")
          /\ btx' = On(btx, "over") /\ fn' = On(fn, "threw")
          /\ promise' = [t \in Tx |-> IF state[t] # "none" /\ promise[t] \in {"pending", "aborting"}
                                      THEN "rejected" ELSE promise[t]]
    /\ UNCHANGED <<store, seen, puts>>

FnStep(t) == Ask(t) \/ Return(t) \/ GoAway(t) \/ ComeBack(t) \/ Throw(t)

EngineStep(t) ==
    \/ StartRequest(t) \/ BeginTransaction(t) \/ Execute(t) \/ ExecuteFails(t)
    \/ Deactivate(t) \/ CommitTx(t) \/ StartAborted(t) \/ AbortEvent(t)

DbNext == Crash \/ \E t \in Tx : Open(t) \/ FnStep(t) \/ EngineStep(t)

DbSpec == DbInit /\ [][DbNext]_dbVars

(* The event loop runs every microtask, and every task in its turn, also   *)
(* when f goes away and comes back in between; nothing obliges f to come   *)
(* back.                                                                   *)
DbFairness == \A t \in Tx : WF_dbVars(fn[t] = "go" /\ FnStep(t)) /\ SF_dbVars(EngineStep(t))

FairDbSpec == DbSpec /\ DbFairness

-----------------------------------------------------------------------------
(* Refinement: a transaction takes effect in its commit, and then as if it *)
(* had run alone at that moment, whatever was thrown, refused or killed in *)
(* between (Database.runWithWriteTransaction, util/query.ts:649).          *)
Outcome == [t \in Tx |-> IF state[t] \in {"none", "live"} THEN "open" ELSE state[t]]
Result == [t \in Tx |-> IF state[t] = "committed" THEN seen[t] ELSE <<>>]

Abstract == INSTANCE AtomicStore WITH result <- Result, outcome <- Outcome

Atomic == Abstract!AbstractSpec

(* The caller learns what happened: its promise resolves when and only     *)
(* when the transaction commits, unless the function was away waiting for  *)
(* something else, when a commit is reported as an error (query.ts:377).   *)
OutcomeIsTold ==
    [][\A t \in Tx : promise'[t] # promise[t] /\ promise'[t] # "aborting" /\ fn[t] # "away"
                       => (promise'[t] = "resolved" <=> state'[t] = "committed")]_dbVars

(* The one way to keep the database for good: an abort that overtakes the  *)
(* beginning of the backend transaction, which nobody rolls back then      *)
(* (bridge-idb.ts:2519).                                                   *)
Overtaken(t) == state[t] = "aborted" /\ sched[t] = "begin"

(* No transaction waits for ever, whatever the others do: if no abort      *)
(* overtakes a beginning, each one that was opened settles its promise.    *)
EveryTransactionSettles ==
    [](\A t \in Tx : ~Overtaken(t))
        => \A t \in Tx : state[t] = "live" ~> promise[t] \in {"resolved", "rejected"}
=============================================================================
