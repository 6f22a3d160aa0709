---------------------------- MODULE AtomicStore ----------------------------
(***************************************************************************)
(* What the wallet takes a database transaction to be: it commits in one   *)
(* step, on what it has read, or it has no effect at all.  A transaction   *)
(* reads the keys of its script in their order and, when it is a writer,   *)
(* puts back each value it read, increased by one; its function may return *)
(* early, or be cut off between reading a value and putting it back.       *)
(***************************************************************************)
EXTENDS Integers, Sequences

CONSTANTS
    Tx,         \* transactions
    Keys,       \* the records of the database
    Writers,    \* the transactions of mode "readwrite"
    Script      \* per transaction, the keys its function works on

VARIABLES
    store,      \* the committed value of each record
    result,     \* per transaction, what it has read when it has committed
    outcome     \* per transaction, "open", "committed" or "aborted"

abstractVars == <<store, result, outcome>>

AbstractInit ==
    /\ store = [k \in Keys |-> 0]
    /\ result = [t \in Tx |-> <<>>]
    /\ outcome = [t \in Tx |-> "open"]

(* The keys that t has put when it has put m of them. *)
Put(t, m) == {Script[t][i] : i \in 1..m}

(* t commits, having read the first n keys and put the first m. *)
CommitAt(t, n, m) ==
    /\ outcome[t] = "open"
    /\ IF t \in Writers THEN m \in {n, n - 1} ELSE m = 0
    /\ result' = [result EXCEPT ![t] = [i \in 1..n |-> store[Script[t][i]]]]
    /\ store' = [k \in Keys |-> IF k \in Put(t, m) THEN store[k] + 1 ELSE store[k]]
    /\ outcome' = [outcome EXCEPT ![t] = "committed"]

Commit(t) == \E n, m \in 0..Len(Script[t]) : CommitAt(t, n, m)

(* The transactions of S have no effect; a crash aborts all that are open. *)
Abort(S) ==
    /\ \A t \in S : outcome[t] = "open"
    /\ outcome' = [t \in Tx |-> IF t \in S THEN "aborted" ELSE outcome[t]]
    /\ UNCHANGED <<store, result>>

AbstractNext == (\E t \in Tx : Commit(t)) \/ (\E S \in SUBSET Tx : Abort(S))

AbstractSpec == AbstractInit /\ [][AbstractNext]_abstractVars
=============================================================================
