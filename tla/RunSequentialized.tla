------------------------- MODULE RunSequentialized -------------------------
(***************************************************************************)
(* InternalWalletState.runSequentialized (operations/state.ts): run an     *)
(* async function while holding a list of named locks.                     *)
(*                                                                         *)
(* JavaScript code runs to completion between awaits, so one action is the *)
(* code from one await to the next: from the call to the first lock that   *)
(* is taken, from a wake-up to the next such lock, and the whole release.  *)
(* Resolving a waiter only queues its continuation: whatever is already    *)
(* queued runs before it.                                                  *)
(***************************************************************************)
EXTENDS Integers, Sequences, FiniteSets

CONSTANTS
    Callers,    \* calls of runSequentialized that may exist at a time
    Tokens      \* lock names, numbered in their sort order

ASSUME TokensAssumption == Tokens \subseteq Nat

VARIABLES
    locks,      \* resourceLocks
    waiters,    \* resourceWaiters: per token, the queue of waiting callers
    status,     \* where each caller is
    want, held  \* the tokens each caller asked for, and has taken so far

vars == <<locks, waiters, status, want, held>>

TypeOK ==
    /\ locks \subseteq Tokens
    /\ waiters \in [Tokens -> Seq(Callers)]
    /\ status \in [Callers -> {"idle", "waiting", "woken", "running"}]
    /\ want \in [Callers -> SUBSET Tokens]
    /\ held \in [Callers -> SUBSET Tokens]

Init ==
    /\ locks = {}
    /\ waiters = [t \in Tokens |-> <<>>]
    /\ status = [c \in Callers |-> "idle"]
    /\ want = [c \in Callers |-> {}]
    /\ held = [c \in Callers |-> {}]

(* Of a set of tokens, the first one in sort order (if any). *)
Lowest(T) == {t \in T : \A u \in T : t <= u}

(* In the loop over the sorted tokens, from the point where a caller has   *)
(* the tokens in have: the first token that is locked stops it, and it     *)
(* takes those before.                                                     *)
Blocked(tokens, have, lockset) == Lowest((tokens \ have) \cap lockset)
Taken(tokens, have, lockset) ==
    have \cup {t \in tokens : \A b \in Blocked(tokens, have, lockset) : t < b}

Continue(c, tokens, have, lockset) ==
    /\ locks' = lockset \cup Taken(tokens, have, lockset)
    /\ held' = [held EXCEPT ![c] = Taken(tokens, have, lockset)]
    /\ waiters' = [t \in Tokens |-> IF t \in Blocked(tokens, have, lockset)
                                    THEN Append(waiters[t], c) ELSE waiters[t]]
    /\ status' = [status EXCEPT ![c] =
                      IF Blocked(tokens, have, lockset) = {} THEN "running" ELSE "waiting"]

Call(c) ==
    /\ status[c] = "idle"
    /\ \E tokens \in SUBSET Tokens \ {{}} :
          /\ want' = [want EXCEPT ![c] = tokens]
          /\ Continue(c, tokens, {}, locks)

(* The continuation after "await p.promise": the token is taken without    *)
(* looking at it again, and the loop goes on.                              *)
Resume(c) ==
    /\ status[c] = "woken"
    /\ \E t \in Lowest(want[c] \ held[c]) :
          Continue(c, want[c], held[c] \cup {t}, locks \cup {t})
    /\ UNCHANGED want

(* Mutant of Release: nobody is woken. *)
ReleaseWakesNobody(c) ==
    /\ status[c] = "running"
    /\ locks' = locks \ want[c]
    /\ status' = [status EXCEPT ![c] = "idle"]
    /\ want' = [want EXCEPT ![c] = {}]
    /\ held' = [held EXCEPT ![c] = {}]
    /\ UNCHANGED waiters

(* The function is done or threw: unlock every token, wake one waiter of   *)
(* each.                                                                   *)
Release(c) ==
    LET woken == {Head(waiters[t]) : t \in {u \in want[c] : waiters[u] # <<>>}}
    IN  /\ status[c] = "running"
        /\ locks' = locks \ want[c]
        /\ waiters' = [t \in Tokens |-> IF t \in want[c] /\ waiters[t] # <<>>
                                        THEN Tail(waiters[t]) ELSE waiters[t]]
        /\ status' = [d \in Callers |-> IF d = c THEN "idle"
                                        ELSE IF d \in woken THEN "woken" ELSE status[d]]
        /\ want' = [want EXCEPT ![c] = {}]
        /\ held' = [held EXCEPT ![c] = {}]

Next == \E c \in Callers : Call(c) \/ Resume(c) \/ Release(c)

Spec == Init /\ [][Next]_vars

(* Queued continuations run, and the functions passed in settle. *)
FairSpec == Spec /\ \A c \in Callers : WF_vars(Resume(c)) /\ WF_vars(Release(c))

-----------------------------------------------------------------------------
(* Properties. *)

(* The tokens c waits for: the lowest it does not have. *)
Awaits(c) == IF status[c] = "waiting" THEN Lowest(want[c] \ held[c]) ELSE {}

(* No lock is left behind: a token marked as locked is held by a caller,   *)
(* which will unlock it in its finally block.                              *)
LockedIsHeld == \A t \in locks : \E c \in Callers : t \in held[c]

(* No lost wake-up: while callers queue for a token, somebody holds it or  *)
(* was woken to take it, so that the queue moves on.                       *)
QueueMoves ==
    \A t \in Tokens : waiters[t] # <<>> =>
        \E c \in Callers :
            t \in held[c] \/ (status[c] = "woken" /\ t \in Lowest(want[c] \ held[c]))

(* "begin exclusive execution on" (state.ts): the functions of two callers *)
(* that hold a common token never run at the same time.                    *)
Exclusive ==
    \A c, d \in Callers :
        c # d /\ status[c] = "running" /\ status[d] = "running" => want[c] \cap want[d] = {}

(* Every call gets to run its function, whatever locks others hold in      *)
(* whatever combination, and however often newcomers overtake it.          *)
EveryCallRuns == \A c \in Callers : status[c] = "waiting" ~> status[c] = "running"
=============================================================================
