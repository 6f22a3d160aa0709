---------------------------- MODULE MCConcurrency ----------------------------
(***************************************************************************)
(* Model checking what keeps concurrent calls in order, side by side: named*)
(* locks, database transactions, and the queues of the crypto workers.     *)
(* They share no state: `part` says which of them a behaviour is about.    *)
(***************************************************************************)
EXTENDS IdbTransactions, RunSequentialized, CryptoApi, TLC

CONSTANTS t1, t2, k1, k2

MCScript == (t1 :> <<k1, k2>>) @@ (t2 :> <<k2, k1>>)

VARIABLE part

concurrencyVars == <<part, dbVars, vars, cryptoVars>>

MCInit == part \in {"locks", "database", "workers"} /\ DbInit /\ Init /\ CryptoInit

MCNext ==
    \/ part = "locks" /\ Next /\ UNCHANGED <<part, dbVars, cryptoVars>>
    \/ part = "database" /\ DbNext /\ UNCHANGED <<part, vars, cryptoVars>>
    \/ part = "workers" /\ CryptoNext /\ UNCHANGED <<part, dbVars, vars>>

MCSpec ==
    /\ MCInit /\ [][MCNext]_concurrencyVars /\ DbFairness /\ CryptoFairness
    /\ \A c \in Callers : WF_vars(Resume(c)) /\ WF_vars(Release(c))
==============================================================================
