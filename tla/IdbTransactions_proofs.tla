----------------------- MODULE IdbTransactions_proofs -----------------------
(***************************************************************************)
(* Database transactions are atomic for every number of transactions and   *)
(* records and for every script: IdbTransactions implements AtomicStore    *)
(* (its safety part).  Walks over a store are complete for every store and *)
(* index, any number of streams and any writes beside them (ObjectStore).  *)
(***************************************************************************)
EXTENDS IdbTransactions, ObjectStore, WellFoundedInduction, FiniteSetTheorems, SequenceTheorems, TLAPS

(* The progress of the function of t and of its engine. *)
Progress(t) ==
    /\ state[t] = "none" => sched[t] = "none" /\ fn[t] = "none" /\ req[t] = "none"
    /\ state[t] = "committed" => sched[t] = "end" /\ req[t] = "none" /\ active[t] = FALSE
    /\ state[t] = "aborted" => fn[t] = "threw"
    /\ req[t] = "running" <=> sched[t] \in {"begin", "macro"}
    /\ req[t] # "none" => fn[t] \in {"wait", "threw"}
    /\ fn[t] = "wait" => req[t] # "none"
    /\ fn[t] = "threw" => state[t] # "live"
    /\ fn[t] = "none" => state[t] = "none"
    /\ promise[t] = "pending" <=> state[t] \in {"none", "live"}
    /\ promise[t] = "aborting" => state[t] = "aborted"

(* Its backend transaction, which is open from the first request to the    *)
(* commit or the rollback.                                                 *)
Backend(t) ==
    /\ btx[t] = "none" => seen[t] = <<>> /\ puts[t] = 0
    /\ btx[t] = "over" => state[t] \in {"committed", "aborted"}
    /\ btx[t] = "open" => state[t] \in {"live", "aborted"}
    /\ sched[t] = "begin" => btx[t] = "none"
    /\ btx[t] = "open" <=> owner = t

(* What it has read and put. *)
Counts(t) ==
    /\ Len(seen[t]) <= Len(Script[t])
    /\ req[t] # "none" /\ Between(t) => Len(seen[t]) < Len(Script[t])
    /\ IF t \in Writers THEN puts[t] \in {Len(seen[t]), Len(seen[t]) - 1} ELSE puts[t] = 0

PutKeys(t) == {Script[t][i] : i \in 1..puts[t]}

(* The database is in the hands of the transaction that owns it.           *)
Data ==
    /\ owner = None => work = store
    /\ \A t \in Tx : owner = t =>
          /\ \A k \in Keys : work[k] = IF k \in PutKeys(t) THEN store[k] + 1 ELSE store[k]
          /\ \A i \in 1..Len(seen[t]) : seen[t][i] = store[Script[t][i]]

TxOK(t) == Progress(t) /\ Backend(t) /\ Counts(t)

DbInv == DbTypeOK /\ Data /\ \A t \in Tx : TxOK(t)

-----------------------------------------------------------------------------
(* The transactions that do not move stay as they are. *)
LEMMA OthersStay ==
    ASSUME DbInv, NEW t \in Tx, owner' = owner \/ (owner \in {t, None} /\ owner' \in {t, None}),
           \A u \in Tx \ {t} :
              /\ state'[u] = state[u] /\ sched'[u] = sched[u] /\ req'[u] = req[u]
              /\ btx'[u] = btx[u] /\ fn'[u] = fn[u] /\ promise'[u] = promise[u]
              /\ active'[u] = active[u]
              /\ seen'[u] = seen[u] /\ puts'[u] = puts[u]
    PROVE  \A u \in Tx \ {t} : TxOK(u)'
  BY DatabaseAssumption DEF DbInv, TxOK, Progress, Backend, Counts, Between

(* The keys of a script are records, and each is there once.               *)
LEMMA ScriptKeys ==
    ASSUME NEW t \in Tx
    PROVE  /\ Script[t] \in Seq(Keys) /\ Len(Script[t]) \in Nat
           /\ \A i \in 1..Len(Script[t]) : Script[t][i] \in Keys
           /\ \A i, j \in 1..Len(Script[t]) : Script[t][i] = Script[t][j] => i = j
  BY DatabaseAssumption

(* The steps that neither read nor write: of the function and of the       *)
(* engine.                                                                 *)
LEMMA QuietSteps ==
    ASSUME DbInv, NEW t \in Tx,
           \/ Open(t) \/ Ask(t) \/ Return(t) \/ GoAway(t) \/ ComeBack(t)
           \/ StartRequest(t) \/ Deactivate(t) \/ StartAborted(t) \/ AbortEvent(t)
    PROVE  DbInv'
  <1> USE DEF backend, func, Fn, Sched
  <1>1. /\ UNCHANGED <<store, work, owner, btx, seen, puts, crashes>>
    BY DEF Open, Ask, Return, GoAway, ComeBack, StartRequest, Deactivate, StartAborted, AbortEvent
  <1>2. DbTypeOK' /\ Progress(t)'
    <2> USE DEF DbInv, DbTypeOK, TxOK, Progress
    <2>1. CASE Open(t)
      BY <1>1, <2>1 DEF Open
    <2>2. CASE Ask(t)
      BY <1>1, <2>2 DEF Ask
    <2>3. CASE Return(t)
      BY <1>1, <2>3 DEF Return
    <2>4. CASE GoAway(t)
      BY <1>1, <2>4 DEF GoAway
    <2>5. CASE ComeBack(t)
      BY <1>1, <2>5 DEF ComeBack
    <2>6. CASE StartRequest(t)
      BY <1>1, <2>6 DEF StartRequest
    <2>7. CASE Deactivate(t)
      BY <1>1, <2>7 DEF Deactivate
    <2>8. CASE StartAborted(t)
      BY <1>1, <2>8 DEF StartAborted
    <2>9. CASE AbortEvent(t)
      BY <1>1, <2>9 DEF AbortEvent
    <2>10. QED
      BY <2>1, <2>2, <2>3, <2>4, <2>5, <2>6, <2>7, <2>8, <2>9
  <1>3. Data'
    BY <1>1 DEF DbInv, Data, PutKeys
  <1>4. \A u \in Tx \ {t} : TxOK(u)'
    <2>1. \A u \in Tx \ {t} :
              /\ state'[u] = state[u] /\ sched'[u] = sched[u] /\ req'[u] = req[u]
              /\ fn'[u] = fn[u] /\ promise'[u] = promise[u] /\ active'[u] = active[u]
      BY DEF DbInv, DbTypeOK, Open, Ask, Return, GoAway, ComeBack, StartRequest, Deactivate,
             StartAborted, AbortEvent
    <2>2. QED
      BY <1>1, <2>1, OthersStay
  <1>6. Backend(t)'
    BY <1>1 DEF DbInv, DbTypeOK, TxOK, Progress, Backend, Open, Ask, Return, GoAway, ComeBack,
           StartRequest, Deactivate, StartAborted, AbortEvent
  <1>7. Counts(t)'
    BY <1>1 DEF DbInv, DbTypeOK, TxOK, Counts, Between, Open, Ask, Return, GoAway, ComeBack,
           StartRequest, Deactivate, StartAborted, AbortEvent
  <1>8. QED
    BY <1>2, <1>3, <1>4, <1>6, <1>7 DEF DbInv, TxOK

LEMMA RollbackSteps ==
    ASSUME DbInv, NEW t \in Tx, state[t] = "live", Rollback(t)
    PROVE  /\ owner' = owner \/ (owner = t /\ owner' = None)
           /\ \A u \in Tx \ {t} : btx'[u] = btx[u]
           /\ btx' \in [Tx -> {"none", "open", "over"}] /\ btx'[t] # "open"
           /\ btx'[t] = "none" => btx[t] = "none"
           /\ btx'[t] = "over" <=> btx[t] = "open"
           /\ owner' # t /\ owner' \in Tx \cup {None}
           /\ store' = store /\ work' \in [Keys -> Nat]
           /\ owner' = None => work' = store
           /\ owner' # None => work' = work
  <1> USE DEF backend
  <1>0. DbTypeOK /\ Data /\ (\A u \in Tx : Backend(u)) /\ None \notin Tx
    BY DatabaseAssumption DEF DbInv, TxOK
  <1>1. CASE btx[t] = "open"
    <2>1. owner = t /\ owner' = None /\ work' = store /\ btx' = [btx EXCEPT ![t] = "over"]
          /\ store' = store
      BY <1>0, <1>1 DEF Rollback, Backend
    <2>2. QED
      BY <1>0, <1>1, <2>1 DEF DbTypeOK
  <1>2. CASE btx[t] # "open"
    <2>1. UNCHANGED <<store, work, owner, btx>> /\ owner # t
      BY <1>0, <1>2 DEF Rollback, Backend
    <2>2. btx[t] # "over"
      BY <1>0 DEF Backend
    <2>3. QED
      BY <1>0, <1>2, <2>1, <2>2 DEF DbTypeOK, Data
  <1>3. QED
    BY <1>1, <1>2

LEMMA ThrowStep ==
    ASSUME DbInv, NEW t \in Tx, Throw(t)
    PROVE  DbInv'
  <1> USE DEF backend, func, Fn, Sched
  <1>1. /\ UNCHANGED <<sched, seen, puts, crashes, store>> /\ fn' = [fn EXCEPT ![t] = "threw"]
        /\ fn[t] \in {"go", "wait"}
    BY DEF Throw, AbortTx, Rollback
  <1>2. CASE state[t] = "live"
    <2>1. /\ state' = [state EXCEPT ![t] = "aborted"] /\ active' = [active EXCEPT ![t] = FALSE]
          /\ req' = [req EXCEPT ![t] = IF @ = "queued" THEN "none" ELSE @]
          /\ promise' = [promise EXCEPT ![t] = "aborting"] /\ Rollback(t)
      BY <1>2 DEF Throw, AbortTx
    <2>2. DbTypeOK'
      BY <1>1, <1>2, <2>1, RollbackSteps DEF DbInv, DbTypeOK
    <2>3. Data'
      <3>1. \A u \in Tx : PutKeys(u)' = PutKeys(u) /\ seen'[u] = seen[u]
        BY <1>1 DEF PutKeys
      <3>2. /\ store' = store /\ (owner' = None => work' = store)
            /\ \A u \in Tx : owner' = u => owner = u /\ work' = work
        BY <1>2, <2>1, RollbackSteps, DatabaseAssumption
      <3>3. QED
        BY <3>1, <3>2 DEF DbInv, Data
    <2>4. \A u \in Tx \ {t} : TxOK(u)'
      <3>1. \A u \in Tx \ {t} : /\ state'[u] = state[u] /\ req'[u] = req[u]
                                /\ fn'[u] = fn[u] /\ promise'[u] = promise[u]
                                /\ active'[u] = active[u]
        BY <1>1, <2>1 DEF DbInv, DbTypeOK
      <3>2. QED
        BY <1>1, <1>2, <2>1, <3>1, RollbackSteps, OthersStay
    <2>5. Progress(t)'
      BY <1>1, <2>1 DEF DbInv, DbTypeOK, TxOK, Progress
    <2>6. Backend(t)'
      BY <1>1, <1>2, <2>1, RollbackSteps DEF DbInv, DbTypeOK, TxOK, Backend
    <2>7. Counts(t)'
      BY <1>1, <2>1 DEF DbInv, DbTypeOK, TxOK, Counts, Between
    <2>8. QED
      BY <2>2, <2>3, <2>4, <2>5, <2>6, <2>7 DEF DbInv, TxOK
  <1>3. CASE state[t] # "live"
    <2>1. UNCHANGED <<state, active, req, promise, work, owner, btx>>
      BY <1>3 DEF Throw, AbortTx
    <2>2. DbTypeOK' /\ Data'
      BY <1>1, <2>1 DEF DbInv, DbTypeOK, Data, PutKeys
    <2>3. \A u \in Tx \ {t} : TxOK(u)'
      <3>1. \A u \in Tx \ {t} : fn'[u] = fn[u]
        BY <1>1 DEF DbInv, DbTypeOK
      <3>2. QED
        BY <1>1, <2>1, <3>1, OthersStay
    <2>4. TxOK(t)'
      BY <1>1, <1>3, <2>1
         DEF DbInv, DbTypeOK, TxOK, Progress, Backend, Counts, Between
    <2>5. QED
      BY <2>2, <2>3, <2>4 DEF DbInv
  <1>4. QED
    BY <1>2, <1>3

-----------------------------------------------------------------------------
(* The steps of the engine that touch the data.                            *)
LEMMA BeginStep ==
    ASSUME DbInv, NEW t \in Tx, BeginTransaction(t)
    PROVE  DbInv'
  <1> USE DEF backend, func, Fn, Sched
  <1>1. /\ UNCHANGED <<store, work, state, active, req, fn, seen, puts, promise, crashes>>
        /\ owner = None /\ owner' = t /\ btx' = [btx EXCEPT ![t] = "open"]
        /\ sched' = [sched EXCEPT ![t] = "macro"] /\ sched[t] = "begin"
    BY DEF BeginTransaction
  <1>2. Progress(t) /\ Backend(t) /\ Counts(t) /\ DbTypeOK /\ Data
    BY DEF DbInv, TxOK
  <1>3. state[t] \in {"live", "aborted"}
    BY <1>1, <1>2 DEF Progress, DbTypeOK
  <1>4. DbTypeOK' /\ TxOK(t)'
    BY <1>1, <1>2, <1>3, DatabaseAssumption DEF DbTypeOK, TxOK, Progress, Backend, Counts, Between
  <1>5. \A u \in Tx \ {t} : TxOK(u)'
    <2>1. \A u \in Tx \ {t} : btx'[u] = btx[u] /\ sched'[u] = sched[u]
      BY <1>1, <1>2 DEF DbTypeOK
    <2>2. QED
      BY <1>1, <2>1, OthersStay
  <1>6. Data'
    <2>1. puts[t] = 0 /\ seen[t] = <<>> /\ t # None
      BY <1>1, <1>2, DatabaseAssumption DEF Backend
    <2>2. PutKeys(t)' = {} /\ Len(seen[t]) = 0
      BY <1>1, <2>1 DEF PutKeys
    <2>3. work = store
      BY <1>1, <1>2 DEF Data
    <2>4. QED
      BY <1>1, <2>1, <2>2, <2>3 DEF Data
  <1>7. QED
    BY <1>4, <1>5, <1>6 DEF DbInv

(* A value is read before its key is put, so it is the committed one; and  *)
(* the value that is put is the committed one, increased.                  *)
LEMMA ExecuteStep ==
    ASSUME DbInv, NEW t \in Tx, Execute(t)
    PROVE  DbInv'
  <1> USE DEF Fn, Sched
  <1>1. /\ UNCHANGED <<store, owner, state, btx, promise, crashes>> /\ sched[t] = "macro"
        /\ btx[t] = "open" /\ req' = [req EXCEPT ![t] = "none"]
        /\ active' = [active EXCEPT ![t] = TRUE] /\ sched' = [sched EXCEPT ![t] = "deact"]
        /\ fn' = [fn EXCEPT ![t] = IF fn[t] = "wait" THEN "go" ELSE fn[t]]
    BY DEF Execute, Wake
  <1>2. Progress(t) /\ Backend(t) /\ Counts(t) /\ DbTypeOK /\ Data
    BY DEF DbInv, TxOK
  <1>3. /\ owner = t /\ state[t] \in {"live", "aborted"} /\ req[t] = "running"
        /\ fn[t] \in {"wait", "threw"} /\ t # None
    BY <1>1, <1>2, DatabaseAssumption DEF Backend, Progress
  <1>4. /\ Len(seen[t]) \in Nat /\ seen[t] \in Seq(Nat) /\ puts[t] \in Nat
        /\ \A i \in 1..Len(seen[t]) : seen[t][i] = store[Script[t][i]]
        /\ \A k \in Keys : work[k] = IF k \in PutKeys(t) THEN store[k] + 1 ELSE store[k]
        /\ store \in [Keys -> Nat] /\ work \in [Keys -> Nat]
    BY <1>2, <1>3 DEF DbTypeOK, Data
  <1>5. Progress(t)' /\ Backend(t)'
    <2>1. Progress(t)'
      BY <1>1, <1>2, <1>3 DEF DbTypeOK, Progress
    <2>2. Backend(t)'
      BY <1>1, <1>2, <1>3 DEF DbTypeOK, Backend
    <2>3. QED
      BY <2>1, <2>2
  <1>6. CASE Between(t)
    <2> DEFINE k == Script[t][Len(seen[t]) + 1]
    <2>1. /\ seen' = [seen EXCEPT ![t] = Append(seen[t], work[k])] /\ UNCHANGED <<work, puts>>
      BY <1>6 DEF Execute
    <2>2. Len(seen[t]) < Len(Script[t]) /\ k \in Keys
      BY <1>2, <1>3, <1>4, <1>6, ScriptKeys DEF Counts
    <2>3. k \notin PutKeys(t)
      <3>1. CASE t \in Writers
        <4>1. puts[t] = Len(seen[t])
          BY <1>6, <3>1 DEF Between
        <4>2. SUFFICES ASSUME NEW i \in 1..puts[t], Script[t][i] = k PROVE FALSE
          BY DEF PutKeys
        <4>3. i \in 1..Len(Script[t]) /\ Len(seen[t]) + 1 \in 1..Len(Script[t])
          <5>1. Len(seen[t]) < Len(Script[t]) /\ Len(Script[t]) \in Nat
            BY <2>2, ScriptKeys
          <5>2. i \in 1..Len(seen[t])
            BY <4>1, <4>2
          <5> HIDE DEF k
          <5>3. QED
            BY <1>4, <5>1, <5>2
        <4>4. i = Len(seen[t]) + 1
          BY <4>2, <4>3, ScriptKeys
        <4>5. QED
          BY <1>4, <4>1, <4>4
      <3>2. CASE t \notin Writers
        BY <1>2, <3>2 DEF Counts, PutKeys
      <3>3. QED
        BY <3>1, <3>2
    <2>4. work[k] = store[k] /\ work[k] \in Nat
      BY <1>4, <2>2, <2>3
    <2>5. /\ seen' \in [Tx -> Seq(Nat)] /\ seen'[t] = Append(seen[t], store[k])
          /\ Len(seen'[t]) = Len(seen[t]) + 1
          /\ \A u \in Tx \ {t} : seen'[u] = seen[u]
      BY <1>2, <1>4, <2>1, <2>4 DEF DbTypeOK
    <2>6. DbTypeOK'
      BY <1>1, <1>2, <2>1, <2>5 DEF DbTypeOK
    <2>7. Counts(t)'
      BY <1>1, <1>2, <1>4, <1>6, <2>1, <2>2, <2>5, ScriptKeys DEF Counts, Between, DbTypeOK
    <2>8. \A u \in Tx \ {t} : TxOK(u)'
      <3>1. \A u \in Tx \ {t} : /\ req'[u] = req[u] /\ active'[u] = active[u]
                                /\ sched'[u] = sched[u] /\ fn'[u] = fn[u]
        BY <1>1, <1>2 DEF DbTypeOK
      <3>2. QED
        BY <1>1, <2>1, <2>5, <3>1, OthersStay
    <2>9. Data'
      <3>1. PutKeys(t)' = PutKeys(t)
        BY <2>1 DEF PutKeys
      <3>2. \A i \in 1..Len(seen'[t]) : seen'[t][i] = store[Script[t][i]]
        <4>1. SUFFICES ASSUME NEW i \in 1..Len(seen[t]) + 1
                       PROVE  Append(seen[t], store[k])[i] = store[Script[t][i]]
          BY <2>5
        <4>2. CASE i = Len(seen[t]) + 1
          BY <1>4, <4>2
        <4>3. CASE i # Len(seen[t]) + 1
          <5>1. i \in 1..Len(seen[t])
            BY <1>4, <4>1, <4>3
          <5>2. Append(seen[t], store[k])[i] = seen[t][i]
            BY <1>4, <5>1
          <5>3. QED
            BY <1>4, <5>1, <5>2
        <4>4. QED
          BY <4>2, <4>3
      <3>3. QED
        BY <1>1, <1>3, <1>4, <2>1, <3>1, <3>2 DEF Data
    <2>10. QED
      BY <1>5, <2>6, <2>7, <2>8, <2>9 DEF DbInv, TxOK
  <1>7. CASE ~Between(t)
    <2> DEFINE k == Script[t][puts[t] + 1]
    <2>1. /\ puts' = [puts EXCEPT ![t] = puts[t] + 1] /\ UNCHANGED seen
          /\ work' = [work EXCEPT ![k] = seen[t][puts[t] + 1] + 1]
      BY <1>7 DEF Execute
    <2>2. t \in Writers /\ puts[t] + 1 = Len(seen[t]) /\ Len(seen[t]) <= Len(Script[t])
      BY <1>2, <1>4, <1>7 DEF Counts, Between
    <2>3. k \in Keys /\ seen[t][puts[t] + 1] = store[k]
      <3>1. PICK i \in 1..Len(seen[t]) : i = puts[t] + 1
        BY <1>4, <2>2
      <3>2. i \in 1..Len(Script[t])
        BY <1>4, <2>2, <3>1, ScriptKeys
      <3>3. QED
        BY <1>4, <3>1, <3>2, ScriptKeys
    <2>4. work' = [work EXCEPT ![k] = store[k] + 1] /\ work' \in [Keys -> Nat]
      BY <1>4, <2>1, <2>3
    <2>5. puts' \in [Tx -> Nat] /\ puts'[t] = puts[t] + 1 /\ \A u \in Tx \ {t} : puts'[u] = puts[u]
      BY <1>2, <1>4, <2>1 DEF DbTypeOK
    <2>6. DbTypeOK'
      BY <1>1, <1>2, <2>1, <2>4, <2>5 DEF DbTypeOK
    <2>7. Counts(t)'
      BY <1>1, <1>2, <1>4, <2>1, <2>2, <2>5 DEF Counts, Between, DbTypeOK
    <2>8. \A u \in Tx \ {t} : TxOK(u)'
      <3>1. \A u \in Tx \ {t} : /\ req'[u] = req[u] /\ active'[u] = active[u]
                                /\ sched'[u] = sched[u] /\ fn'[u] = fn[u]
        BY <1>1, <1>2 DEF DbTypeOK
      <3>2. QED
        BY <1>1, <2>1, <2>5, <3>1, OthersStay
    <2>9. Data'
      <3>1. PutKeys(t)' = PutKeys(t) \cup {k}
        <4>1. PutKeys(t)' = {Script[t][i] : i \in 1..puts[t] + 1}
          BY <2>5 DEF PutKeys
        <4>2. \A i : i \in 1..puts[t] + 1 <=> i \in 1..puts[t] \/ i = puts[t] + 1
          BY <1>4
        <4>3. QED
          BY <4>1, <4>2 DEF PutKeys
      <3>2. \A j \in Keys : work'[j] = IF j \in PutKeys(t)' THEN store[j] + 1 ELSE store[j]
        BY <1>4, <2>3, <2>4, <3>1
      <3>3. QED
        BY <1>1, <1>3, <1>4, <2>1, <3>2 DEF Data
    <2>10. QED
      BY <1>5, <2>6, <2>7, <2>8, <2>9 DEF DbInv, TxOK
  <1>8. QED
    BY <1>6, <1>7

LEMMA ExecuteFailsStep ==
    ASSUME DbInv, NEW t \in Tx, ExecuteFails(t)
    PROVE  DbInv'
  <1> USE DEF backend, func, Fn, Sched
  <1>1. /\ UNCHANGED <<seen, puts, crashes>> /\ sched[t] = "macro"
        /\ req' = [req EXCEPT ![t] = "none"] /\ sched' = [sched EXCEPT ![t] = "deact"]
        /\ fn' = [fn EXCEPT ![t] = IF fn[t] = "wait" THEN "threw" ELSE fn[t]]
    BY DEF ExecuteFails, Wake
  <1>2. Progress(t) /\ Backend(t) /\ Counts(t) /\ DbTypeOK /\ Data
    BY DEF DbInv, TxOK
  <1>3. /\ state[t] \in {"live", "aborted"} /\ req[t] = "running" /\ fn[t] \in {"wait", "threw"}
        /\ \A u \in Tx : PutKeys(u)' = PutKeys(u)
    BY <1>1, <1>2 DEF Progress, PutKeys, DbTypeOK
  <1>4. Counts(t)'
    BY <1>1, <1>2 DEF Counts, Between, DbTypeOK
  <1>5. CASE state[t] = "live"
    <2>1. /\ state' = [state EXCEPT ![t] = "aborted"] /\ active' = [active EXCEPT ![t] = FALSE]
          /\ promise' = [promise EXCEPT ![t] = "aborting"] /\ Rollback(t)
      BY <1>5 DEF ExecuteFails
    <2>2. DbTypeOK'
      BY <1>1, <1>2, <1>5, <2>1, RollbackSteps DEF DbTypeOK
    <2>3. Data'
      <3>1. /\ store' = store /\ (owner' = None => work' = store)
            /\ \A u \in Tx : owner' = u => owner = u /\ work' = work
        BY <1>5, <2>1, RollbackSteps, DatabaseAssumption
      <3>2. QED
        BY <1>1, <1>2, <1>3, <3>1 DEF Data
    <2>4. \A u \in Tx \ {t} : TxOK(u)'
      <3>1. \A u \in Tx \ {t} : /\ state'[u] = state[u] /\ req'[u] = req[u]
                                /\ fn'[u] = fn[u] /\ promise'[u] = promise[u]
                                /\ active'[u] = active[u] /\ sched'[u] = sched[u]
        BY <1>1, <1>2, <2>1 DEF DbTypeOK
      <3>2. QED
        BY <1>1, <1>5, <2>1, <3>1, RollbackSteps, OthersStay
    <2>5. Progress(t)'
      BY <1>1, <1>2, <1>3, <2>1 DEF DbTypeOK, Progress
    <2>6. Backend(t)'
      BY <1>1, <1>2, <1>5, <2>1, RollbackSteps DEF DbTypeOK, Backend
    <2>7. QED
      BY <1>4, <2>2, <2>3, <2>4, <2>5, <2>6 DEF DbInv, TxOK
  <1>6. CASE state[t] # "live"
    <2>1. /\ active' = [active EXCEPT ![t] = TRUE]
          /\ UNCHANGED <<state, promise, store, work, owner, btx>>
      BY <1>6 DEF ExecuteFails
    <2>2. DbTypeOK'
      BY <1>1, <1>2, <2>1 DEF DbTypeOK
    <2>3. Data'
      BY <1>1, <1>2, <1>3, <2>1 DEF Data
    <2>4. \A u \in Tx \ {t} : TxOK(u)'
      <3>1. \A u \in Tx \ {t} : /\ req'[u] = req[u] /\ fn'[u] = fn[u]
                                /\ active'[u] = active[u] /\ sched'[u] = sched[u]
        BY <1>1, <1>2, <2>1 DEF DbTypeOK
      <3>2. QED
        BY <1>1, <2>1, <3>1, OthersStay
    <2>5. Progress(t)' /\ Backend(t)'
      BY <1>1, <1>2, <1>3, <1>6, <2>1 DEF DbTypeOK, Progress, Backend
    <2>6. QED
      BY <1>4, <2>2, <2>3, <2>4, <2>5 DEF DbInv, TxOK
  <1>7. QED
    BY <1>5, <1>6

LEMMA CommitStep ==
    ASSUME DbInv, NEW t \in Tx, CommitTx(t)
    PROVE  DbInv'
  <1> USE DEF backend, func, Fn, Sched
  <1>1. /\ UNCHANGED <<req, fn, seen, puts, crashes>> /\ sched[t] = "start" /\ req[t] = "none"
        /\ state[t] = "live" /\ state' = [state EXCEPT ![t] = "committed"]
        /\ active' = [active EXCEPT ![t] = FALSE] /\ sched' = [sched EXCEPT ![t] = "end"]
        /\ promise' = [promise EXCEPT ![t] = IF fn[t] = "returned" THEN "resolved" ELSE "rejected"]
    BY DEF CommitTx
  <1>2. Progress(t) /\ Backend(t) /\ Counts(t) /\ DbTypeOK /\ Data
    BY DEF DbInv, TxOK
  <1>3. /\ btx' \in [Tx -> {"none", "open", "over"}] /\ store' \in [Keys -> Nat]
        /\ work' \in [Keys -> Nat] /\ (owner' = None => work' = store')
        /\ (owner' = owner \/ (owner = t /\ owner' = None)) /\ owner' # t
        /\ owner' # None => store' = store /\ work' = work
        /\ btx'[t] # "open" /\ (btx'[t] = "none" => btx[t] = "none")
        /\ \A u \in Tx \ {t} : btx'[u] = btx[u]
    <2>1. CASE btx[t] = "open"
      BY <1>2, <2>1, DatabaseAssumption DEF CommitTx, DbTypeOK, Backend
    <2>2. CASE btx[t] # "open"
      BY <1>2, <2>2 DEF CommitTx, DbTypeOK, Backend, Data
    <2>3. QED
      BY <2>1, <2>2
  <1>4. DbTypeOK'
    BY <1>1, <1>2, <1>3 DEF DbTypeOK
  <1>5. Data'
    <2>1. \A u \in Tx : PutKeys(u)' = PutKeys(u)
      BY <1>1 DEF PutKeys
    <2>2. QED
      BY <1>1, <1>2, <1>3, <2>1, DatabaseAssumption DEF Data
  <1>6. \A u \in Tx \ {t} : TxOK(u)'
    <2>1. \A u \in Tx \ {t} : /\ state'[u] = state[u] /\ promise'[u] = promise[u]
                              /\ active'[u] = active[u] /\ sched'[u] = sched[u]
      BY <1>1, <1>2 DEF DbTypeOK
    <2>2. QED
      BY <1>1, <1>3, <2>1, OthersStay
  <1>7. TxOK(t)'
    <2>1. Progress(t)'
      BY <1>1, <1>2 DEF DbTypeOK, Progress
    <2>2. Backend(t)'
      BY <1>1, <1>2, <1>3 DEF DbTypeOK, Backend
    <2>3. Counts(t)'
      BY <1>1, <1>2 DEF Counts, Between
    <2>4. QED
      BY <2>1, <2>2, <2>3 DEF TxOK
  <1>8. QED
    BY <1>4, <1>5, <1>6, <1>7 DEF DbInv

LEMMA CrashStep ==
    ASSUME DbInv, Crash
    PROVE  DbInv'
  <1>1. /\ UNCHANGED <<store, seen, puts>> /\ crashes < MaxCrashes /\ crashes' = crashes + 1
        /\ work' = store /\ owner' = None
        /\ state' = [t \in Tx |-> IF state[t] = "live" THEN "aborted" ELSE state[t]]
        /\ active' = [t \in Tx |-> IF state[t] = "none" THEN active[t] ELSE FALSE]
        /\ sched' = [t \in Tx |-> IF state[t] = "none" THEN sched[t] ELSE "end"]
        /\ req' = [t \in Tx |-> IF state[t] = "none" THEN req[t] ELSE "none"]
        /\ btx' = [t \in Tx |-> IF state[t] = "none" THEN btx[t] ELSE "over"]
        /\ fn' = [t \in Tx |-> IF state[t] = "none" THEN fn[t] ELSE "threw"]
        /\ promise' = [t \in Tx |-> IF state[t] # "none" /\ promise[t] \in {"pending", "aborting"}
                                    THEN "rejected" ELSE promise[t]]
    BY DEF Crash
  <1>2. DbTypeOK
    BY DEF DbInv
  <1>3. DbTypeOK'
    <2>1. crashes' \in 0..MaxCrashes
      BY <1>1, <1>2, DatabaseAssumption DEF DbTypeOK
    <2>2. /\ state' \in [Tx -> {"none", "live", "committed", "aborted"}]
          /\ active' \in [Tx -> BOOLEAN]
      BY <1>1, <1>2 DEF DbTypeOK
    <2>3. /\ sched' \in [Tx -> {"none", "start", "begin", "macro", "deact", "end"}]
          /\ req' \in [Tx -> {"none", "queued", "running"}]
      BY <1>1, <1>2 DEF DbTypeOK
    <2>4. /\ btx' \in [Tx -> {"none", "open", "over"}]
          /\ fn' \in [Tx -> {"none", "go", "wait", "away", "returned", "threw"}]
      BY <1>1, <1>2 DEF DbTypeOK
    <2>5. promise' \in [Tx -> {"pending", "aborting", "resolved", "rejected"}]
      BY <1>1, <1>2 DEF DbTypeOK
    <2>6. QED
      BY <1>1, <1>2, <2>1, <2>2, <2>3, <2>4, <2>5 DEF DbTypeOK
  <1>4. Data'
    BY <1>1, DatabaseAssumption DEF Data
  <1>5. ASSUME NEW t \in Tx PROVE TxOK(t)'
    <2>1. Progress(t) /\ Backend(t) /\ Counts(t) /\ t # None
      BY DatabaseAssumption DEF DbInv, TxOK
    <2>2. Progress(t)'
      BY <1>1, <1>2, <2>1 DEF Progress, DbTypeOK
    <2>3. Backend(t)'
      BY <1>1, <1>2, <2>1 DEF Progress, Backend, DbTypeOK
    <2>4. Counts(t)'
      BY <1>1, <2>1 DEF Counts, Between
    <2>5. QED
      BY <2>2, <2>3, <2>4 DEF TxOK
  <1>6. QED
    BY <1>3, <1>4, <1>5 DEF DbInv

LEMMA DbInitInv == DbInit => DbInv
  <1> SUFFICES ASSUME DbInit PROVE DbInv
    OBVIOUS
  <1>1. DbTypeOK
    BY DatabaseAssumption DEF DbInit, DbTypeOK
  <1>2. Data
    BY DatabaseAssumption DEF DbInit, Data
  <1>3. ASSUME NEW t \in Tx PROVE TxOK(t)
    BY DatabaseAssumption, ScriptKeys
       DEF DbInit, TxOK, Progress, Backend, Counts
  <1>4. QED
    BY <1>1, <1>2, <1>3 DEF DbInv

LEMMA DbStepInv == DbInv /\ [DbNext]_dbVars => DbInv'
  <1> SUFFICES ASSUME DbInv, [DbNext]_dbVars PROVE DbInv'
    OBVIOUS
  <1>1. CASE Crash
    BY <1>1, CrashStep
  <1>2. ASSUME NEW t \in Tx, Open(t) \/ FnStep(t) PROVE DbInv'
    BY <1>2, QuietSteps, ThrowStep DEF FnStep
  <1>3. ASSUME NEW t \in Tx, EngineStep(t) PROVE DbInv'
    BY <1>3, QuietSteps, BeginStep, ExecuteStep, ExecuteFailsStep, CommitStep DEF EngineStep
  <1>4. CASE UNCHANGED dbVars
    BY <1>4
       DEF dbVars, DbInv, DbTypeOK, Data, PutKeys, TxOK, Progress, Backend, Counts, Between
  <1>5. QED
    BY <1>1, <1>2, <1>3, <1>4 DEF DbNext

LEMMA DbInvariant == DbSpec => []DbInv
  BY DbInitInv, DbStepInv, PTL DEF DbSpec

-----------------------------------------------------------------------------
(* A commit takes effect in one step, as if the transaction ran alone then. *)
LEMMA CommitIsAtomic ==
    ASSUME DbInv, NEW t \in Tx, CommitTx(t)
    PROVE  Abstract!Commit(t)
  <1> DEFINE n == Len(seen[t])
  <1>1. Progress(t) /\ Backend(t) /\ Counts(t) /\ DbTypeOK /\ Data /\ t # None
    BY DatabaseAssumption DEF DbInv, TxOK
  <1>2. /\ UNCHANGED seen /\ state[t] = "live" /\ state' = [state EXCEPT ![t] = "committed"]
        /\ IF btx[t] = "open" THEN store' = work ELSE store' = store
    BY DEF CommitTx, func, backend
  <1>3. btx[t] \in {"none", "open"} /\ seen[t] \in Seq(Nat) /\ n \in Nat /\ puts[t] \in Nat
    BY <1>1, <1>2 DEF Backend, DbTypeOK
  <1>4. /\ Outcome[t] = "open" /\ Outcome' = [Outcome EXCEPT ![t] = "committed"]
        /\ Result' = [Result EXCEPT ![t] = seen[t]]
    BY <1>1, <1>2 DEF Outcome, Result, DbTypeOK
  <1>5. n \in 0..Len(Script[t]) /\ puts[t] \in 0..Len(Script[t])
    BY <1>1, <1>3, ScriptKeys DEF Counts
  <1>6. IF t \in Writers THEN puts[t] \in {n, n - 1} ELSE puts[t] = 0
    BY <1>1 DEF Counts
  <1>7. /\ seen[t] = [i \in 1..n |-> store[Script[t][i]]]
        /\ store' = [k \in Keys |-> IF k \in Abstract!Put(t, puts[t])
                                   THEN store[k] + 1 ELSE store[k]]
    <2>1. CASE btx[t] = "open"
      <3>1. owner = t
        BY <1>1, <2>1 DEF Backend
      <3>2. seen[t] = [i \in 1..n |-> store[Script[t][i]]]
        <4>1. seen[t] = [i \in 1..n |-> seen[t][i]]
          BY <1>3
        <4>2. \A i \in 1..n : seen[t][i] = store[Script[t][i]]
          BY <1>1, <3>1 DEF Data
        <4>3. QED
          BY <4>1, <4>2, Zenon
      <3>3. work = [k \in Keys |-> IF k \in PutKeys(t) THEN store[k] + 1 ELSE store[k]]
        BY <1>1, <3>1 DEF Data, DbTypeOK
      <3>4. QED
        BY <1>2, <2>1, <3>2, <3>3 DEF PutKeys, Abstract!Put
    <2>2. CASE btx[t] = "none"
      <3>1. seen[t] = <<>> /\ puts[t] = 0 /\ n = 0 /\ store' = store /\ store \in [Keys -> Nat]
        BY <1>1, <1>2, <2>2 DEF Backend, DbTypeOK
      <3>2. Abstract!Put(t, puts[t]) = {}
        BY <3>1 DEF Abstract!Put
      <3>3. QED
        BY <3>1, <3>2
    <2>3. QED
      BY <1>3, <2>1, <2>2
  <1>8. Abstract!CommitAt(t, n, puts[t])
    BY <1>1, <1>4, <1>6, <1>7 DEF Abstract!CommitAt
  <1>9. QED
    BY <1>5, <1>8 DEF Abstract!Commit

(* What makes the transactions of S fail has no effect but that.           *)
LEMMA AbortIsNothing ==
    ASSUME DbInv, NEW S \in SUBSET Tx, \A t \in S : state[t] = "live", UNCHANGED <<store, seen>>,
           state' = [t \in Tx |-> IF t \in S THEN "aborted" ELSE state[t]]
    PROVE  Abstract!Abort(S)
  <1>1. \A t \in S : Outcome[t] = "open"
    BY DEF Outcome
  <1>2. Outcome' = [t \in Tx |-> IF t \in S THEN "aborted" ELSE Outcome[t]]
    BY DEF Outcome
  <1>3. Result' = Result
    BY DEF Result
  <1>4. QED
    BY <1>1, <1>2, <1>3 DEF Abstract!Abort

LEMMA NoOutcomeNoEffect ==
    ASSUME UNCHANGED store, Outcome' = Outcome, Result' = Result
    PROVE  UNCHANGED Abstract!abstractVars
  BY DEF Abstract!abstractVars

(* A transaction of the wallet's database commits in one step, on what is  *)
(* committed at that moment, or has no effect at all, whatever other       *)
(* transactions do, is thrown or refused, and whenever the process dies    *)
(* (util/query.ts:336, MemoryBackend.ts).                                  *)
THEOREM TransactionsAreAtomic == DbSpec => Atomic
  <1>1. DbInit => Abstract!AbstractInit
    BY DEF DbInit, Abstract!AbstractInit, Outcome, Result
  <1>2. DbInv /\ [DbNext]_dbVars => [Abstract!AbstractNext]_Abstract!abstractVars
    <2> SUFFICES ASSUME DbInv, [DbNext]_dbVars
                 PROVE  [Abstract!AbstractNext]_Abstract!abstractVars
      OBVIOUS
    <2>0. DbTypeOK /\ \A u \in Tx : Progress(u) /\ Backend(u)
      BY DEF DbInv, TxOK
    <2>1. CASE Crash
      <3>1. PICK S \in SUBSET Tx : S = {t \in Tx : state[t] = "live"}
        OBVIOUS
      <3>2. Abstract!Abort(S)
        BY <2>1, <3>1, AbortIsNothing DEF Crash
      <3>3. QED
        BY <3>1, <3>2 DEF Abstract!AbstractNext
    <2>2. ASSUME NEW t \in Tx, Throw(t) \/ ExecuteFails(t)
          PROVE  [Abstract!AbstractNext]_Abstract!abstractVars
      <3>1. UNCHANGED <<store, seen>>
        BY <2>2 DEF Throw, ExecuteFails, AbortTx, Rollback, backend
      <3>2. CASE state[t] = "live"
        <4>1. state' = [state EXCEPT ![t] = "aborted"]
          BY <2>2, <3>2 DEF Throw, ExecuteFails, AbortTx
        <4>2. state' = [u \in Tx |-> IF u \in {t} THEN "aborted" ELSE state[u]]
          BY <2>0, <4>1 DEF DbTypeOK
        <4>3. Abstract!Abort({t})
          BY <3>1, <3>2, <4>2, AbortIsNothing
        <4>4. QED
          BY <4>3 DEF Abstract!AbstractNext
      <3>3. CASE state[t] # "live"
        <4>1. UNCHANGED state
          BY <2>2, <3>3 DEF Throw, ExecuteFails, AbortTx
        <4>2. QED
          BY <3>1, <4>1, NoOutcomeNoEffect DEF Outcome, Result
      <3>4. QED
        BY <3>2, <3>3
    <2>3. ASSUME NEW t \in Tx, Execute(t)
          PROVE  [Abstract!AbstractNext]_Abstract!abstractVars
      <3>1. UNCHANGED <<store, state>> /\ state[t] # "committed"
        BY <2>0, <2>3 DEF Execute, Backend
      <3>2. \A u \in Tx \ {t} : seen'[u] = seen[u]
        BY <2>0, <2>3 DEF Execute, DbTypeOK
      <3>3. Outcome' = Outcome /\ Result' = Result
        BY <3>1, <3>2 DEF Outcome, Result
      <3>4. QED
        BY <3>1, <3>3, NoOutcomeNoEffect
    <2>4. ASSUME NEW t \in Tx, CommitTx(t)
          PROVE  [Abstract!AbstractNext]_Abstract!abstractVars
      BY <2>4, CommitIsAtomic DEF Abstract!AbstractNext
    <2>5. ASSUME NEW t \in Tx, Open(t)
          PROVE  [Abstract!AbstractNext]_Abstract!abstractVars
      <3>1. /\ UNCHANGED <<store, seen>> /\ state' = [state EXCEPT ![t] = "live"]
            /\ state[t] = "none"
        BY <2>5 DEF Open, backend
      <3>2. Outcome' = Outcome /\ Result' = Result
        BY <2>0, <3>1 DEF Outcome, Result, DbTypeOK
      <3>3. QED
        BY <3>1, <3>2, NoOutcomeNoEffect
    <2>6. ASSUME NEW t \in Tx,
                 \/ Ask(t) \/ Return(t) \/ GoAway(t) \/ ComeBack(t) \/ StartRequest(t)
                 \/ BeginTransaction(t) \/ Deactivate(t) \/ StartAborted(t) \/ AbortEvent(t)
          PROVE  [Abstract!AbstractNext]_Abstract!abstractVars
      <3>1. UNCHANGED <<store, seen, state>>
        BY <2>6 DEF Ask, Return, GoAway, ComeBack, StartRequest, BeginTransaction, Deactivate,
                    StartAborted, AbortEvent, backend, func
      <3>2. QED
        BY <3>1, NoOutcomeNoEffect DEF Outcome, Result
    <2>7. CASE UNCHANGED dbVars
      BY <2>7, NoOutcomeNoEffect DEF dbVars, Outcome, Result
    <2>8. QED
      BY <2>1, <2>2, <2>3, <2>4, <2>5, <2>6, <2>7 DEF DbNext, FnStep, EngineStep
  <1>3. QED
    BY <1>1, <1>2, DbInvariant, PTL DEF DbSpec, Atomic, Abstract!AbstractSpec

(* A caller's promise resolves exactly when its transaction commits, if    *)
(* the function did not wait for something else (query.ts:377).            *)
THEOREM CallersAreTold == DbSpec => OutcomeIsTold
  <1>1. DbInv /\ [DbNext]_dbVars
          => [\A t \in Tx : promise'[t] # promise[t] /\ promise'[t] # "aborting" /\ fn[t] # "away"
                 => (promise'[t] = "resolved" <=> state'[t] = "committed")]_dbVars
    <2> SUFFICES ASSUME DbInv, DbNext, NEW u \in Tx, promise'[u] # promise[u],
                        promise'[u] # "aborting", fn[u] # "away"
                 PROVE  promise'[u] = "resolved" <=> state'[u] = "committed"
      OBVIOUS
    <2>0. DbTypeOK /\ Progress(u)
      BY DEF DbInv, TxOK
    <2> USE DEF Sched, Fn, func, backend
    <2>1. CASE Crash
      BY <2>0, <2>1 DEF Crash, Progress, DbTypeOK
    <2>2. ASSUME NEW t \in Tx, CommitTx(t)
          PROVE  promise'[u] = "resolved" <=> state'[u] = "committed"
      <3>1. u = t
        BY <2>0, <2>2 DEF CommitTx, DbTypeOK
      <3>2. fn[t] = "returned"
        BY <2>0, <2>2, <3>1 DEF CommitTx, Progress, DbTypeOK
      <3>3. QED
        BY <2>0, <2>2, <3>1, <3>2 DEF CommitTx, DbTypeOK
    <2>3. ASSUME NEW t \in Tx, AbortEvent(t)
          PROVE  promise'[u] = "resolved" <=> state'[u] = "committed"
      BY <2>0, <2>3 DEF AbortEvent, Progress, DbTypeOK
    <2>4. ASSUME NEW t \in Tx, Throw(t) \/ ExecuteFails(t)
          PROVE  promise'[u] = "resolved" <=> state'[u] = "committed"
      BY <2>0, <2>4 DEF Throw, ExecuteFails, AbortTx, DbTypeOK
    <2>5. ASSUME NEW t \in Tx,
                 \/ Open(t) \/ Ask(t) \/ Return(t) \/ GoAway(t) \/ ComeBack(t) \/ StartRequest(t)
                 \/ BeginTransaction(t) \/ Execute(t) \/ Deactivate(t) \/ StartAborted(t)
          PROVE  promise'[u] = "resolved" <=> state'[u] = "committed"
      BY <2>5 DEF Open, Ask, Return, GoAway, ComeBack, StartRequest, BeginTransaction, Execute,
                  Deactivate, StartAborted
    <2>6. QED
      BY <2>1, <2>2, <2>3, <2>4, <2>5 DEF DbNext, FnStep, EngineStep
  <1>2. QED
    BY <1>1, DbInvariant, PTL DEF DbSpec, OutcomeIsTold
-----------------------------------------------------------------------------
(* A set of numbers has a least element.                                   *)
LEMMA HasLeast ==
    ASSUME NEW S \in SUBSET Nat, S # {}
    PROVE  \E m \in S : \A z \in S : m <= z
<1>1. PICK m \in S : \A z \in S : ~ (<<z, m>> \in OpToRel(<, Nat))
  BY NatLessThanWellFounded, WFMin, Zenon
<1>2. \A z \in S : ~ (z < m)
  BY <1>1 DEF OpToRel
<1> QED BY <1>2

(* nextHigherKey returns the least key above, if there is one.             *)
LEMMA NextHigherIsNext ==
    ASSUME NEW S \in SUBSET Nat, NEW x \in Nat
    PROVE  \/ NextHigher(S, x) = NoKey /\ \A z \in S : z <= x
           \/ /\ NextHigher(S, x) \in S /\ NextHigher(S, x) > x
              /\ \A z \in S : z > x => NextHigher(S, x) <= z
<1> DEFINE T == {y \in S : y > x}
<1>1. CASE T = {}
  <2>1. NextHigher(S, x) = NoKey BY <1>1 DEF NextHigher
  <2> QED BY <2>1, <1>1
<1>2. CASE T # {}
  <2>1. PICK m \in T : \A z \in T : m <= z BY <1>2, HasLeast
  <2>2. m \in S /\ m > x /\ \A z \in S : z > x => m <= z BY <2>1
  <2>3. \E y \in S : y > x BY <2>2
  <2>4. NextHigher(S, x) = CHOOSE y \in S : y > x /\ \A z \in S : z > x => y <= z
    BY <2>3 DEF NextHigher
  <2> QED BY <2>2, <2>4
<1> QED BY <1>1, <1>2

(* Which records are still ahead of a stream.                              *)
Before(w, j, k) == Place(w, j) < Place(w, k) \/ (Place(w, j) = Place(w, k) /\ j < k)
Ahead(w, k) == position[w] = NoKey \/ Before(w, position[w], k)

(* A cursor stays in its range.                                            *)
Positioned(w) == position[w] # NoKey => InRange(w, position[w])

(* n is the first record in the range of w that is ahead of it.            *)
IsNextRecord(w, n) ==
    \/ n = NoKey /\ \A k \in records : InRange(w, k) => ~Ahead(w, k)
    \/ /\ n \in records /\ InRange(w, n) /\ Ahead(w, n)
       /\ \A k \in records : InRange(w, k) /\ Ahead(w, k) => k = n \/ Before(w, n, k)

(* getRecords without an index finds the next record ahead of a cursor,    *)
(* whether or not the record at its position still exists.                 *)
LEMMA StoreNextIsNext ==
    ASSUME StoreTypeOK, NEW w \in Walkers \ IndexWalkers, Positioned(w)
    PROVE  IsNextRecord(w, StoreNext(w))
<1> USE StoreAssumption
<1> DEFINE start == IF position[w] = NoKey THEN From[w] ELSE position[w]
           key   == IF position[w] = NoKey /\ start \in records THEN start
                    ELSE NextHigher(records, start)
<1>1. start \in Nat /\ records \subseteq Nat /\ From[w] \in Nat /\ To[w] \in Nat
  BY DEF StoreTypeOK
<1>2. StoreNext(w) = IF key = NoKey \/ key > To[w] THEN NoKey ELSE key
  BY DEF StoreNext
<1>3. \A k \in RecordKeys : InRange(w, k) <=> From[w] <= k /\ k <= To[w]
  BY DEF InRange, Place
<1>4. \A k \in RecordKeys : Ahead(w, k) <=> position[w] = NoKey \/ position[w] < k
  BY <1>1 DEF Ahead, Before, Place, StoreTypeOK
<1>5. position[w] # NoKey => From[w] <= position[w] /\ position[w] \in RecordKeys
  BY <1>3 DEF Positioned, StoreTypeOK
<1>6. \/ NextHigher(records, start) = NoKey /\ \A z \in records : z <= start
      \/ /\ NextHigher(records, start) \in records /\ NextHigher(records, start) > start
         /\ \A z \in records : z > start => NextHigher(records, start) <= z
  BY <1>1, NextHigherIsNext
<1>7. records \subseteq RecordKeys BY DEF StoreTypeOK
<1>8. \A k \in records : InRange(w, k) /\ Ahead(w, k) =>
         k > start \/ (position[w] = NoKey /\ k = start)
  BY <1>3, <1>4, <1>7
<1>9. key = NoKey =>
         \A z \in records : ~ (z > start \/ (position[w] = NoKey /\ z = start))
  <2>1. CASE position[w] = NoKey /\ start \in records
    BY <2>1, <1>1
  <2>2. CASE ~(position[w] = NoKey /\ start \in records)
    <3>1. key = NextHigher(records, start) BY <2>2
    <3> HIDE DEF key, start
    <3> SUFFICES ASSUME key = NoKey, NEW z \in records
                 PROVE  ~ (z > start \/ (position[w] = NoKey /\ z = start))
      OBVIOUS
    <3>2. z <= start BY <3>1, <1>6, <1>1
    <3>3. position[w] = NoKey => z # start BY <2>2
    <3> QED BY <3>2, <3>3, <1>1
  <2> QED BY <2>1, <2>2
<1>10. key # NoKey =>
          /\ key \in records /\ start <= key /\ (position[w] # NoKey => key > start)
          /\ \A z \in records : z > start \/ (position[w] = NoKey /\ z = start) => key <= z
  <2>1. CASE position[w] = NoKey /\ start \in records
    BY <2>1, <1>1
  <2>2. CASE ~(position[w] = NoKey /\ start \in records)
    <3>1. key = NextHigher(records, start) BY <2>2
    <3>2. \A z \in records : z > start \/ (position[w] = NoKey /\ z = start) => z > start
      BY <2>2, <1>1
    <3> HIDE DEF key, start
    <3>3. key # NoKey => key \in records /\ key > start BY <3>1, <1>6
    <3>4. key # NoKey => \A z \in records : z > start => key <= z BY <3>1, <1>6
    <3>5. ASSUME key # NoKey PROVE start <= key
      <4>1. key \in records /\ key > start BY <3>3, <3>5
      <4>2. key \in Nat BY <4>1, <1>1
      <4>3. start \in Nat BY <1>1
      <4> QED BY <4>1, <4>2, <4>3
    <3> QED BY <3>2, <3>3, <3>4, <3>5
  <2> QED BY <2>1, <2>2
<1>11. position[w] = NoKey => start = From[w]
  OBVIOUS
<1>12. position[w] # NoKey => start = position[w]
  OBVIOUS
<1> HIDE DEF key, start
<1>13. CASE key = NoKey
  <2>1. \A k \in records : InRange(w, k) => ~Ahead(w, k) BY <1>8, <1>9, <1>13, <1>1
  <2> QED BY <1>2, <1>13, <2>1 DEF IsNextRecord
<1>14. CASE key # NoKey
  <2>1. \A k \in records : InRange(w, k) /\ Ahead(w, k) => key <= k
    BY <1>8, <1>10, <1>14
  <2>2. key \in Nat BY <1>10, <1>14, <1>1
  <2>3. CASE key > To[w]
    <3>1. \A k \in records : InRange(w, k) => ~Ahead(w, k) BY <2>1, <2>2, <2>3, <1>3, <1>1, <1>7
    <3>2. StoreNext(w) = NoKey BY <2>3, <1>2
    <3> QED BY <3>1, <3>2 DEF IsNextRecord
  <2>4. CASE ~(key > To[w])
    <3>1. From[w] <= key BY <1>5, <1>7, <1>10, <1>11, <1>12, <1>14, <1>1, <2>2
    <3>2. InRange(w, key) BY <3>1, <2>4, <2>2, <1>3, <1>7, <1>10, <1>14, <1>1
    <3>3. Ahead(w, key) BY <1>4, <1>7, <1>10, <1>12, <1>14
    <3>4. StoreNext(w) = key BY <1>2, <2>4, <1>14
    <3>5. \A k \in records : InRange(w, k) /\ Ahead(w, k) => k = key \/ Before(w, key, k)
      BY <2>1, <2>2, <1>1 DEF Before, Place
    <3> QED BY <3>2, <3>3, <3>4, <3>5, <1>10, <1>14 DEF IsNextRecord
  <2> QED BY <2>3, <2>4
<1> QED BY <1>13, <1>14

(* So does getRecords with an index.                                       *)
LEMMA IndexNextIsNext ==
    ASSUME StoreTypeOK, IndexIsExact, NEW w \in Walkers \cap IndexWalkers, Positioned(w)
    PROVE  IsNextRecord(w, IndexNext(w))
<1> USE StoreAssumption
<1> DEFINE used  == {i \in IndexKeys : entries[i] # {}}
           start == IF position[w] = NoKey THEN From[w] ELSE IndexKeyOf[position[w]]
           here  == IF start \in used THEN start ELSE NextHigher(used, start)
           after == IF position[w] # NoKey /\ here = IndexKeyOf[position[w]] THEN position[w] ELSE NoKey
           rest  == {k \in entries[here] : after = NoKey \/ k > after}
           there == IF here = NoKey \/ rest # {} THEN here ELSE NextHigher(used, here)
           keys  == IF there = here THEN rest ELSE entries[there]
           least == CHOOSE k \in keys : \A other \in keys : k <= other
           ahead == {k \in records : InRange(w, k) /\ Ahead(w, k)}
<1>1. IndexNext(w) = IF there = NoKey \/ there > To[w] THEN NoKey ELSE least
  BY DEF IndexNext
<1>2. /\ start \in Nat /\ From[w] \in Nat /\ To[w] \in Nat
      /\ records \subseteq Nat /\ used \subseteq Nat /\ records \subseteq RecordKeys
      /\ \A k \in RecordKeys : IndexKeyOf[k] \in Nat
  <2>1. From[w] \in Nat /\ To[w] \in Nat
    OBVIOUS
  <2>2. records \subseteq Nat /\ records \subseteq RecordKeys
    BY DEF StoreTypeOK
  <2>3. \A k \in RecordKeys : IndexKeyOf[k] \in Nat
    OBVIOUS
  <2>4. used \subseteq Nat
    BY <2>3 DEF IndexKeys
  <2>5. position[w] # NoKey => position[w] \in RecordKeys
    BY DEF StoreTypeOK
  <2>6. start \in Nat
    BY <2>1, <2>3, <2>5
  <2> HIDE DEF start, used
  <2> QED BY <2>1, <2>2, <2>3, <2>4, <2>6
<1>3. \A i \in used : entries[i] # {} /\ entries[i] = {k \in records : IndexKeyOf[k] = i}
  BY <1>2 DEF IndexIsExact, Entries
<1>4. \A k \in records : IndexKeyOf[k] \in used
  BY <1>2 DEF IndexIsExact, Entries, IndexKeys
<1>5. \A k \in RecordKeys : InRange(w, k) <=> From[w] <= IndexKeyOf[k] /\ IndexKeyOf[k] <= To[w]
  BY DEF InRange, Place
<1>6. \A k \in RecordKeys : Ahead(w, k) <=>
         \/ position[w] = NoKey \/ start < IndexKeyOf[k]
         \/ start = IndexKeyOf[k] /\ position[w] < k
  BY DEF Ahead, Before, Place
<1>7. /\ position[w] = NoKey => start = From[w]
      /\ position[w] # NoKey => start = IndexKeyOf[position[w]] /\ position[w] \in RecordKeys
      /\ From[w] <= start
  <2>1. position[w] # NoKey => position[w] \in RecordKeys
    BY DEF StoreTypeOK
  <2>2. position[w] # NoKey => From[w] <= IndexKeyOf[position[w]]
    BY <1>5, <2>1 DEF Positioned
  <2> QED BY <1>2, <2>1, <2>2
<1>8. /\ here = NoKey => \A i \in used : i < start
      /\ here # NoKey => here \in used /\ start <= here /\ \A i \in used : start <= i => here <= i
  <2>1. CASE start \in used
    BY <2>1, <1>2
  <2>2. CASE start \notin used
    <3>1. here = NextHigher(used, start) BY <2>2
    <3> HIDE DEF here, start, used
    <3>2. \/ here = NoKey /\ \A i \in used : i <= start
          \/ here \in used /\ here > start /\ \A i \in used : i > start => here <= i
      BY <3>1, <1>2, NextHigherIsNext
    <3>3. \A i \in used : i # start BY <2>2
    <3>4. \A i \in used : i \in Nat BY <1>2
    <3>5. CASE here = NoKey
      <4>1. ASSUME NEW i \in used PROVE i < start
        <5>1. i <= start BY <3>2, <3>5, <1>2
        <5>2. i # start /\ i \in Nat /\ start \in Nat BY <3>3, <3>4, <1>2
        <5> QED BY <5>1, <5>2
      <4> QED BY <4>1, <3>5
    <3>6. CASE here # NoKey
      <4>1. ASSUME NEW i \in used, start <= i PROVE here <= i
        <5>1. i # start /\ i \in Nat /\ start \in Nat BY <3>3, <3>4, <1>2
        <5>2. i > start BY <5>1, <4>1
        <5> QED BY <3>2, <3>6, <5>2
      <4>2. here \in used /\ start <= here
        <5>1. here \in used /\ here > start BY <3>2, <3>6
        <5>2. here \in Nat /\ start \in Nat BY <5>1, <3>4, <1>2
        <5> QED BY <5>1, <5>2
      <4> QED BY <4>1, <4>2, <3>6
    <3> QED BY <3>5, <3>6
  <2> QED BY <2>1, <2>2
<1>9. after = IF position[w] # NoKey /\ here = start THEN position[w] ELSE NoKey
  BY <1>7
<1> HIDE DEF start, used
<1>10. \A k \in ahead : IndexKeyOf[k] \in used /\ start <= IndexKeyOf[k]
  BY <1>2, <1>4, <1>5, <1>6, <1>7
<1> DEFINE Leads == IF there = NoKey THEN ahead = {}
                    ELSE /\ there \in Nat /\ start <= there
                         /\ keys # {} /\ keys \subseteq records
                         /\ \A k \in keys : IndexKeyOf[k] = there /\ Ahead(w, k)
                         /\ \A k \in ahead : there < IndexKeyOf[k] \/ (IndexKeyOf[k] = there /\ k \in keys)
<1>11. Leads
  <2>1. CASE here = NoKey
    <3>1. there = NoKey BY <2>1
    <3> HIDE DEF there, here
    <3>2. ASSUME NEW k \in ahead PROVE FALSE
      <4>1. IndexKeyOf[k] \in used /\ start <= IndexKeyOf[k] BY <1>10
      <4>2. IndexKeyOf[k] < start BY <4>1, <1>8, <2>1
      <4>3. IndexKeyOf[k] \in Nat /\ start \in Nat BY <4>1, <1>2
      <4> QED BY <4>1, <4>2, <4>3
    <3> QED BY <3>1, <3>2
  <2>2. CASE here # NoKey
    <3>1. here \in used /\ here \in Nat /\ start <= here /\ \A i \in used : start <= i => here <= i
      BY <2>2, <1>8, <1>2
    <3>2. /\ entries[here] = {k \in records : IndexKeyOf[k] = here} /\ entries[here] # {}
      BY <3>1, <1>3
    <3>3. rest \subseteq records
      BY <3>2
    <3>4. \A k \in records : k \in rest <=> IndexKeyOf[k] = here /\ Ahead(w, k)
      <4> SUFFICES ASSUME NEW k \in records, IndexKeyOf[k] = here
                   PROVE  (after = NoKey \/ k > after) <=> Ahead(w, k)
        BY <3>2
      <4>1. k \in RecordKeys /\ k \in Nat /\ start \in Nat BY <1>2
      <4>2. CASE position[w] = NoKey
        BY <4>1, <4>2, <1>6, <1>9
      <4>3. CASE position[w] # NoKey /\ here # start
        <5>1. after = NoKey BY <4>3, <1>9
        <5>2. start < here BY <4>3, <3>1, <4>1
        <5> QED BY <5>1, <5>2, <4>1, <1>6
      <4>4. CASE position[w] # NoKey /\ here = start
        <5>1. after = position[w] BY <4>4, <1>9
        <5>2. position[w] \in Nat BY <4>4, <1>7
        <5>3. Ahead(w, k) <=> position[w] < k BY <4>1, <4>4, <1>6
        <5> HIDE DEF after
        <5> QED BY <5>1, <5>2, <5>3, <4>1, <4>4
      <4> QED BY <4>2, <4>3, <4>4
    <3> HIDE DEF rest, here
    <3>5. ASSUME NEW k \in ahead
          PROVE  here < IndexKeyOf[k] \/ (here = IndexKeyOf[k] /\ k \in rest)
      <4>1. here <= IndexKeyOf[k] BY <1>10, <3>1
      <4>2. here \in Nat /\ IndexKeyOf[k] \in Nat BY <1>2, <3>1
      <4>3. here = IndexKeyOf[k] => k \in rest BY <3>4
      <4> QED BY <4>1, <4>2, <4>3
    <3>6. CASE rest # {}
      <4>1. there = here /\ keys = rest BY <3>6
      <4> HIDE DEF there, keys
      <4>2. \A k \in keys : IndexKeyOf[k] = there /\ Ahead(w, k) BY <4>1, <3>3, <3>4
      <4>3. there # NoKey /\ there \in Nat /\ start <= there BY <4>1, <3>1
      <4>4. keys # {} /\ keys \subseteq records BY <4>1, <3>3, <3>6
      <4>5. \A k \in ahead : there < IndexKeyOf[k] \/ (IndexKeyOf[k] = there /\ k \in keys)
        BY <4>1, <3>5
      <4> QED BY <4>2, <4>3, <4>4, <4>5
    <3>7. CASE rest = {}
      <4>1. there = NextHigher(used, here) BY <2>2, <3>7
      <4>2. \/ there = NoKey /\ \A i \in used : i <= here
            \/ there \in used /\ there > here /\ \A i \in used : i > here => there <= i
        BY <4>1, <3>1, <1>2, NextHigherIsNext
      <4>3. there # here => keys = entries[there] OBVIOUS
      <4> HIDE DEF there, keys
      <4>4. ASSUME NEW k \in ahead PROVE IndexKeyOf[k] \in used /\ here < IndexKeyOf[k]
        BY <1>10, <3>5, <3>7
      <4>5. CASE there = NoKey
        <5>1. ASSUME NEW k \in ahead PROVE FALSE
          <6>1. IndexKeyOf[k] <= here BY <4>4, <4>5, <4>2, <1>2
          <6>2. IndexKeyOf[k] \in Nat /\ here \in Nat BY <1>2, <3>1
          <6> QED BY <6>1, <6>2, <4>4
        <5> QED BY <5>1, <4>5
      <4>6. CASE there # NoKey
        <5>1. /\ there \in used /\ there \in Nat /\ here < there
              /\ \A i \in used : here < i => there <= i
          <6>1. there \in used /\ there > here /\ \A i \in used : i > here => there <= i
            BY <4>2, <4>6
          <6>2. there \in Nat BY <6>1, <1>2
          <6>3. \A i \in used : here < i => i > here BY <1>2, <3>1
          <6> QED BY <6>1, <6>2, <6>3, <3>1
        <5>2. keys = {k \in records : IndexKeyOf[k] = there} /\ keys # {}
          <6>1. there # here BY <5>1, <3>1
          <6> QED BY <6>1, <4>3, <5>1, <1>3
        <5>3. start < there BY <5>1, <3>1, <1>2
        <5>4. \A k \in keys : IndexKeyOf[k] = there /\ Ahead(w, k)
          BY <5>2, <5>3, <1>2, <1>6
        <5>5. ASSUME NEW k \in ahead
              PROVE  there < IndexKeyOf[k] \/ (IndexKeyOf[k] = there /\ k \in keys)
          <6>1. there <= IndexKeyOf[k] BY <4>4, <5>1
          <6>2. IndexKeyOf[k] \in Nat BY <1>2
          <6> QED BY <6>1, <6>2, <5>1, <5>2
        <5>6. start <= there BY <5>1, <5>3, <1>2
        <5> QED BY <4>6, <5>1, <5>2, <5>4, <5>5, <5>6
      <4> QED BY <4>5, <4>6
    <3> QED BY <3>6, <3>7
  <2> QED BY <2>1, <2>2
<1>12. IsNextRecord(w, IndexNext(w))
  <2> HIDE DEF there, keys, here
  <2>1. CASE there = NoKey
    <3>1. IndexNext(w) = NoKey BY <1>1, <2>1
    <3>2. ahead = {} BY <1>11, <2>1
    <3> QED BY <3>1, <3>2 DEF IsNextRecord
  <2>2. CASE there # NoKey /\ there > To[w]
    <3>1. ASSUME NEW k \in ahead PROVE FALSE
      <4>1. there < IndexKeyOf[k] \/ IndexKeyOf[k] = there BY <1>11, <2>2
      <4>2. IndexKeyOf[k] <= To[w] BY <1>2, <1>5
      <4>3. there \in Nat /\ To[w] \in Nat /\ IndexKeyOf[k] \in Nat BY <1>11, <2>2, <1>2
      <4> QED BY <4>1, <4>2, <4>3, <2>2
    <3> QED BY <3>1, <1>1, <2>2 DEF IsNextRecord
  <2>3. CASE there # NoKey /\ ~(there > To[w])
    <3>1. keys \in SUBSET Nat /\ keys # {} BY <1>11, <1>2, <2>3
    <3>2. \E m \in keys : \A other \in keys : m <= other BY <3>1, HasLeast
    <3>3. least \in keys /\ \A other \in keys : least <= other BY <3>2
    <3> HIDE DEF least
    <3>4. least \in records /\ IndexKeyOf[least] = there /\ Ahead(w, least) /\ least \in Nat
      BY <3>3, <1>11, <2>3, <1>2
    <3>5. InRange(w, least) BY <3>4, <1>5, <1>2, <1>7, <1>11, <2>3
    <3>6. \A k \in ahead : k = least \/ Before(w, least, k)
      BY <1>11, <3>3, <3>4, <1>2, <2>3 DEF Before, Place
    <3>7. IndexNext(w) = least BY <1>1, <2>3
    <3> QED BY <3>4, <3>5, <3>6, <3>7 DEF IsNextRecord
  <2> QED BY <2>1, <2>2, <2>3
<1> QED BY <1>12

(* Either way, a cursor moves to the next record that is ahead of it.      *)
LEMMA NextRecordIsNext ==
    ASSUME StoreTypeOK, IndexIsExact, NEW w \in Walkers, Positioned(w)
    PROVE  IsNextRecord(w, NextRecord(w))
<1>1. CASE w \in IndexWalkers
  BY <1>1, IndexNextIsNext DEF NextRecord
<1>2. CASE w \notin IndexWalkers
  BY <1>2, StoreNextIsNext DEF NextRecord
<1> QED BY <1>1, <1>2

(* The records are in a strict order for each stream.                      *)
LEMMA BeforeIsOrder ==
    ASSUME NEW w \in Walkers, NEW i \in RecordKeys, NEW j \in RecordKeys, NEW k \in RecordKeys
    PROVE  /\ ~Before(w, i, i)
           /\ Before(w, i, j) /\ Before(w, j, k) => Before(w, i, k)
<1>1. /\ i \in Nat /\ j \in Nat /\ k \in Nat
      /\ Place(w, i) \in Nat /\ Place(w, j) \in Nat /\ Place(w, k) \in Nat
  BY StoreAssumption DEF Place
<1> QED BY <1>1 DEF Before

(* What holds of each stream while the store changes beside it.            *)
Walked(w) ==
    /\ Positioned(w)
    /\ \A k \in RecordKeys :
         /\ visits[w][k] \in {0, 1}
         /\ visits[w][k] = 1 => InRange(w, k) /\ ~Ahead(w, k)
         /\ k \in steady /\ InRange(w, k) /\ ~Ahead(w, k) => visits[w][k] = 1
         /\ walk[w] = "end" /\ k \in steady /\ InRange(w, k) => ~Ahead(w, k)

(* A stream that waits has a request in the queue of the transaction,      *)
(* which can therefore not commit.                                         *)
IsAwaited(w) ==
    \/ walk[w] \in {"ready", "end"}
    \/ storeTx = "active" /\ \E i \in DOMAIN requests : requests[i].by = w
    \/ storeTx = "aborted"

(* The inductive invariant.                                                *)
StoreInv ==
    /\ StoreTypeOK /\ IndexIsExact /\ steady \subseteq records
    /\ \A w \in Walkers : Walked(w) /\ IsAwaited(w)
    /\ storeTx = "committed" => \A w \in Walkers : walk[w] = "end"

(* A record that is stored is added to its entry.                          *)
LEMMA EntryAdded ==
    ASSUME NEW S \in SUBSET RecordKeys, NEW k \in RecordKeys
    PROVE  [Entries(S) EXCEPT ![IndexKeyOf[k]] = @ \cup {k}] = Entries(S \cup {k})
<1> DEFINE new == [Entries(S) EXCEPT ![IndexKeyOf[k]] = @ \cup {k}]
<1>1. new = [i \in IndexKeys |-> IF i = IndexKeyOf[k] THEN Entries(S)[i] \cup {k} ELSE Entries(S)[i]]
  BY DEF Entries
<1>2. ASSUME NEW i \in IndexKeys
      PROVE  (IF i = IndexKeyOf[k] THEN Entries(S)[i] \cup {k} ELSE Entries(S)[i])
                = {j \in S \cup {k} : IndexKeyOf[j] = i}
  <2>1. Entries(S)[i] = {j \in S : IndexKeyOf[j] = i} BY DEF Entries
  <2>2. CASE i = IndexKeyOf[k] BY <2>1, <2>2
  <2>3. CASE i # IndexKeyOf[k] BY <2>1, <2>3
  <2> QED BY <2>2, <2>3
<1> QED BY <1>1, <1>2 DEF Entries

(* A record that is deleted leaves its entry.                              *)
LEMMA EntryRemoved ==
    ASSUME NEW S \in SUBSET RecordKeys, NEW k \in RecordKeys
    PROVE  [Entries(S) EXCEPT ![IndexKeyOf[k]] = @ \ {k}] = Entries(S \ {k})
<1> DEFINE new == [Entries(S) EXCEPT ![IndexKeyOf[k]] = @ \ {k}]
<1>1. new = [i \in IndexKeys |-> IF i = IndexKeyOf[k] THEN Entries(S)[i] \ {k} ELSE Entries(S)[i]]
  BY DEF Entries
<1>2. ASSUME NEW i \in IndexKeys
      PROVE  (IF i = IndexKeyOf[k] THEN Entries(S)[i] \ {k} ELSE Entries(S)[i])
                = {j \in S \ {k} : IndexKeyOf[j] = i}
  <2>1. Entries(S)[i] = {j \in S : IndexKeyOf[j] = i} BY DEF Entries
  <2>2. CASE i = IndexKeyOf[k] BY <2>1, <2>2
  <2>3. CASE i # IndexKeyOf[k] BY <2>1, <2>3
  <2> QED BY <2>2, <2>3
<1> QED BY <1>1, <1>2 DEF Entries

(* The invariant holds when the streams are opened.                        *)
LEMMA StoreInvInitially == StoreInit => StoreInv
<1> SUFFICES ASSUME StoreInit PROVE StoreInv
  OBVIOUS
<1> USE StoreAssumption DEF StoreInit, Unwalked
<1>1. PICK order \in [1..Cardinality(Walkers) -> Walkers] :
        /\ \A w \in Walkers : \E i \in DOMAIN order : order[i] = w
        /\ requests = [i \in DOMAIN order |-> [op |-> "iterate", by |-> order[i]]]
  OBVIOUS
<1>2. requests \in Seq(StoreRequest)
  <2>1. Cardinality(Walkers) \in Nat BY FS_CardinalityType
  <2>2. \A w \in Walkers : [op |-> "iterate", by |-> w] \in StoreRequest
    BY DEF StoreRequest
  <2>3. DOMAIN order = 1..Cardinality(Walkers) /\ \A i \in DOMAIN order : order[i] \in Walkers
    BY <1>1
  <2>4. requests \in [1..Cardinality(Walkers) -> StoreRequest]
    BY <1>1, <2>2, <2>3, Zenon
  <2>5. requests \in UNION {[1..n -> StoreRequest] : n \in Nat} BY <2>1, <2>4, Zenon
  <2> QED BY ONLY <2>5, SeqDef
<1>3. StoreTypeOK
  <2>1. records \subseteq RecordKeys /\ steady \subseteq RecordKeys OBVIOUS
  <2>2. entries \in [IndexKeys -> SUBSET RecordKeys] BY <2>1 DEF Entries
  <2>3. visits \in [Walkers -> [RecordKeys -> Nat]] OBVIOUS
  <2>4. /\ position \in [Walkers -> RecordKeys \cup {NoKey}]
        /\ walk \in [Walkers -> {"waiting", "ready", "writing", "end"}]
        /\ storeTx = "active" /\ writes \in 0..MaxWrites
    OBVIOUS
  <2> QED BY ONLY <1>2, <2>1, <2>2, <2>3, <2>4 DEF StoreTypeOK
<1>4. IndexIsExact
  BY DEF IndexIsExact
<1>5. ASSUME NEW w \in Walkers PROVE Walked(w) /\ IsAwaited(w)
  <2>1. position[w] = NoKey /\ \A k \in RecordKeys : visits[w][k] = 0 /\ Ahead(w, k)
    BY DEF Ahead
  <2>2. walk[w] = "waiting" OBVIOUS
  <2>3. \E i \in DOMAIN requests : requests[i].by = w
    BY <1>1
  <2>4. Walked(w) BY <2>1, <2>2 DEF Walked, Positioned
  <2> QED BY <2>3, <2>4 DEF IsAwaited
<1> QED BY <1>3, <1>4, <1>5 DEF StoreInv

(* The engine takes the first request, and the others stay in the queue.   *)
LEMMA RequestTaken ==
    ASSUME StoreTypeOK, requests # <<>>, requests' = Tail(requests)
    PROVE  /\ Head(requests) \in StoreRequest /\ requests' \in Seq(StoreRequest)
           /\ Head(requests).by \in Walkers
           /\ Head(requests).op \in Ops => Head(requests).key \in RecordKeys
           /\ \A w \in Walkers : w # Head(requests).by /\ (\E i \in DOMAIN requests : requests[i].by = w)
                  => \E i \in DOMAIN requests' : requests'[i].by = w
<1>1. requests \in Seq(StoreRequest) BY DEF StoreTypeOK
<1>2. Head(requests) \in StoreRequest /\ requests' \in Seq(StoreRequest) BY <1>1
<1>3. \A r \in StoreRequest : r.by \in Walkers /\ (r.op \in Ops => r.key \in RecordKeys)
  BY DEF StoreRequest, Ops
<1>4. ASSUME NEW w \in Walkers, w # Head(requests).by, NEW i \in DOMAIN requests, requests[i].by = w
      PROVE  \E j \in DOMAIN requests' : requests'[j].by = w
  <2>1. i \in 1..Len(requests) /\ i # 1 /\ Len(requests) \in Nat BY <1>1, <1>4
  <2>2. i - 1 \in DOMAIN requests' /\ requests'[i - 1] = requests[i] BY <1>1, <2>1
  <2> QED BY <2>2, <1>4
<1> QED BY <1>2, <1>3, <1>4

(* A request that is made is in the queue, and so are the earlier ones.    *)
LEMMA RequestAdded ==
    ASSUME StoreTypeOK, NEW r \in StoreRequest, requests' = Append(requests, r)
    PROVE  /\ requests' \in Seq(StoreRequest)
           /\ \E i \in DOMAIN requests' : requests'[i].by = r.by
           /\ \A w \in Walkers : (\E i \in DOMAIN requests : requests[i].by = w)
                  => \E i \in DOMAIN requests' : requests'[i].by = w
<1>1. requests \in Seq(StoreRequest) BY DEF StoreTypeOK
<1>2. /\ requests' \in Seq(StoreRequest) /\ Len(requests') = Len(requests) + 1
      /\ requests'[Len(requests) + 1] = r
      /\ \A i \in 1..Len(requests) : requests'[i] = requests[i]
  BY <1>1
<1>3. DOMAIN requests = 1..Len(requests) /\ DOMAIN requests' = 1..(Len(requests) + 1) /\ Len(requests) \in Nat
  BY <1>1, <1>2
<1>4. Len(requests) + 1 \in DOMAIN requests' BY <1>3
<1>5. DOMAIN requests \subseteq DOMAIN requests' BY <1>3
<1> QED BY <1>2, <1>3, <1>4, <1>5

(* A stream that does not move is not affected by what is stored.          *)
LEMMA StaysWalked ==
    ASSUME NEW w \in Walkers, Walked(w), position' = position, visits' = visits,
           steady' \subseteq steady, walk'[w] # "end" \/ walk'[w] = walk[w]
    PROVE  Walked(w)'
<1>1. \A k : Ahead(w, k)' = Ahead(w, k)
  BY DEF Ahead, Before, Place
<1>2. Positioned(w)' = Positioned(w)
  BY DEF Positioned, InRange, Place
<1>3. \A k : InRange(w, k)' = InRange(w, k)
  BY DEF InRange, Place
<1> QED BY <1>1, <1>2, <1>3 DEF Walked

(* Each step of the streams, and each write beside them, preserves it.     *)
LEMMA StoreStep == StoreInv /\ [StoreNextStep]_storeVars => StoreInv'
<1> SUFFICES ASSUME StoreInv, [StoreNextStep]_storeVars PROVE StoreInv'
  OBVIOUS
<1> USE StoreAssumption
<1>0. /\ StoreTypeOK /\ IndexIsExact /\ steady \subseteq records
      /\ \A w \in Walkers : Walked(w) /\ IsAwaited(w)
      /\ storeTx = "committed" => \A w \in Walkers : walk[w] = "end"
  BY DEF StoreInv
<1>1. ASSUME NEW w \in Walkers, ContinueWalk(w) PROVE StoreInv'
  <2> DEFINE r == [op |-> "iterate", by |-> w]
  <2>1. r \in StoreRequest BY DEF StoreRequest
  <2>2. requests' = Append(requests, r) BY <1>1 DEF ContinueWalk
  <2> HIDE DEF r
  <2>3. StoreTypeOK' BY <1>0, <1>1, <2>1, <2>2, RequestAdded DEF StoreTypeOK, ContinueWalk
  <2>4. IndexIsExact' /\ steady' \subseteq records'
    BY <1>0, <1>1 DEF ContinueWalk, IndexIsExact, Entries
  <2>5. r.by = w BY DEF r
  <2>6. ASSUME NEW v \in Walkers PROVE Walked(v)' /\ IsAwaited(v)'
    <3>1. walk'[v] = IF v = w THEN "waiting" ELSE walk[v] BY <1>0, <1>1 DEF ContinueWalk, StoreTypeOK
    <3>2. Walked(v)' BY <1>0, <1>1, <3>1, StaysWalked DEF ContinueWalk
    <3>3. storeTx' = "active" BY <1>1 DEF ContinueWalk
    <3>4. v # w => IsAwaited(v)' BY <1>0, <1>1, <3>1, <3>3, <2>1, <2>2, RequestAdded DEF IsAwaited, ContinueWalk
    <3>5. v = w => IsAwaited(v)' BY <1>0, <3>3, <2>1, <2>2, <2>5, RequestAdded DEF IsAwaited
    <3> QED BY <3>2, <3>4, <3>5
  <2>7. storeTx' # "committed" BY <1>1 DEF ContinueWalk
  <2> QED BY <2>3, <2>4, <2>6, <2>7 DEF StoreInv
<1>2. ASSUME NEW w \in Walkers, NEW op \in Ops, NEW k \in RecordKeys, WriteBeside(w, op, k) PROVE StoreInv'
  <2> DEFINE r == [op |-> op, by |-> w, key |-> k]
  <2>1. r \in StoreRequest BY DEF StoreRequest
  <2>2. requests' = Append(requests, r) BY <1>2 DEF WriteBeside
  <2>5. r.by = w OBVIOUS
  <2> HIDE DEF r
  <2>3. StoreTypeOK' BY <1>0, <1>2, <2>1, <2>2, RequestAdded DEF StoreTypeOK, WriteBeside
  <2>4. IndexIsExact' /\ steady' \subseteq records'
    BY <1>0, <1>2 DEF WriteBeside, IndexIsExact, Entries
  <2>6. ASSUME NEW v \in Walkers PROVE Walked(v)' /\ IsAwaited(v)'
    <3>1. walk'[v] = IF v = w THEN "writing" ELSE walk[v] BY <1>0, <1>2 DEF WriteBeside, StoreTypeOK
    <3>2. Walked(v)' BY <1>0, <1>2, <3>1, StaysWalked DEF WriteBeside
    <3>3. storeTx' = "active" BY <1>2 DEF WriteBeside
    <3>4. v # w => IsAwaited(v)' BY <1>0, <1>2, <3>1, <3>3, <2>1, <2>2, RequestAdded DEF IsAwaited, WriteBeside
    <3>5. v = w => IsAwaited(v)' BY <1>0, <3>3, <2>1, <2>2, <2>5, RequestAdded DEF IsAwaited
    <3> QED BY <3>2, <3>4, <3>5
  <2>7. storeTx' # "committed" BY <1>2 DEF WriteBeside
  <2> QED BY <2>3, <2>4, <2>6, <2>7 DEF StoreInv
<1>3. CASE Iterate
  <2>0. PICK w \in Walkers : w = Head(requests).by
    BY <1>0, <1>3, RequestTaken DEF Iterate, TakeRequest
  <2>10. PICK n : n = NextRecord(w)
    OBVIOUS
  <2>1. /\ requests' \in Seq(StoreRequest)
        /\ \A v \in Walkers : v # w /\ (\E i \in DOMAIN requests : requests[i].by = v)
               => \E i \in DOMAIN requests' : requests'[i].by = v
    BY <1>0, <1>3, <2>0, RequestTaken DEF Iterate, TakeRequest
  <2>2. IF n = NoKey THEN walk' = [walk EXCEPT ![w] = "end"] /\ UNCHANGED <<position, visits>>
        ELSE /\ walk' = [walk EXCEPT ![w] = "ready"]
             /\ position' = [position EXCEPT ![w] = n]
             /\ visits' = [visits EXCEPT ![w][n] = @ + 1]
    BY <1>3, <2>0, <2>10 DEF Iterate
  <2>3. UNCHANGED <<records, entries, steady, storeTx, writes>> /\ storeTx = "active"
    BY <1>3 DEF Iterate, TakeRequest, ContinuationsRun
  <2>4. IsNextRecord(w, n)
    <3>1. Positioned(w) BY <1>0, <2>1 DEF Walked
    <3> QED BY <1>0, <2>10, <3>1, NextRecordIsNext
  <2>5. n # NoKey => n \in records /\ n \in RecordKeys /\ InRange(w, n) /\ Ahead(w, n)
    BY <1>0, <2>4 DEF IsNextRecord, StoreTypeOK
  <2>6. StoreTypeOK'
    <3>1. CASE n = NoKey BY <1>0, <2>1, <2>2, <2>3, <3>1 DEF StoreTypeOK
    <3>2. CASE n # NoKey
      <4>1. visits' \in [Walkers -> [RecordKeys -> Nat]]
        <5>1. visits \in [Walkers -> [RecordKeys -> Nat]] BY <1>0 DEF StoreTypeOK
        <5>2. PICK new : new = [visits[w] EXCEPT ![n] = @ + 1] OBVIOUS
        <5>3. new \in [RecordKeys -> Nat]
          <6>1. visits[w] \in [RecordKeys -> Nat] /\ n \in RecordKeys BY <5>1, <2>5, <3>2
          <6>2. visits[w][n] + 1 \in Nat BY <6>1
          <6> QED BY <6>1, <6>2, <5>2
        <5>4. visits' = [visits EXCEPT ![w] = new] BY <2>2, <3>2, <5>2
        <5> QED BY <5>1, <5>3, <5>4
      <4>2. position' \in [Walkers -> RecordKeys \cup {NoKey}]
        BY <1>0, <2>1, <2>2, <2>5, <3>2 DEF StoreTypeOK
      <4>3. walk' \in [Walkers -> {"waiting", "ready", "writing", "end"}]
        BY <1>0, <2>1, <2>2, <3>2 DEF StoreTypeOK
      <4> QED BY <1>0, <2>1, <2>3, <4>1, <4>2, <4>3 DEF StoreTypeOK
    <3> QED BY <3>1, <3>2
  <2>7. IndexIsExact' /\ steady' \subseteq records'
    BY <1>0, <2>3 DEF IndexIsExact, Entries
  <2>8. ASSUME NEW v \in Walkers, v # w PROVE Walked(v)' /\ IsAwaited(v)'
    <3>1. walk'[v] = walk[v] /\ position'[v] = position[v] /\ visits'[v] = visits[v]
      BY <1>0, <2>1, <2>2, <2>8 DEF StoreTypeOK
    <3>2. \A k : Ahead(v, k)' = Ahead(v, k) BY <3>1 DEF Ahead, Before, Place
    <3>3. \A k : InRange(v, k)' = InRange(v, k) BY DEF InRange, Place
    <3>4. Positioned(v)' = Positioned(v) BY <3>1 DEF Positioned, InRange, Place
    <3>5. Walked(v)' BY <1>0, <2>3, <3>1, <3>2, <3>3, <3>4 DEF Walked
    <3> QED BY <1>0, <2>1, <2>3, <2>8, <3>1, <3>5 DEF IsAwaited
  <2>9. Walked(w)' /\ IsAwaited(w)'
    <3>1. \A k : InRange(w, k)' = InRange(w, k) BY DEF InRange, Place
    <3>2. Walked(w) BY <1>0, <2>1
    <3>3. CASE n = NoKey
      <4>1. walk'[w] = "end" /\ position' = position /\ visits' = visits
        BY <1>0, <2>1, <2>2, <3>3 DEF StoreTypeOK
      <4>2. \A k : Ahead(w, k)' = Ahead(w, k) BY <4>1 DEF Ahead, Before, Place
      <4>3. Positioned(w)' = Positioned(w) BY <4>1 DEF Positioned, InRange, Place
      <4>4. \A k \in records : InRange(w, k) => ~Ahead(w, k)
        <5>1. NoKey \notin records BY <1>0 DEF StoreTypeOK
        <5> QED BY <5>1, <2>4, <3>3 DEF IsNextRecord
      <4>5. Walked(w)' BY <1>0, <2>3, <3>1, <3>2, <4>1, <4>2, <4>3, <4>4 DEF Walked
      <4> QED BY <4>1, <4>5 DEF IsAwaited
    <3>4. CASE n # NoKey
      <4>1. /\ walk'[w] = "ready" /\ position'[w] = n
            /\ visits'[w] = [visits[w] EXCEPT ![n] = @ + 1]
        BY <1>0, <2>1, <2>2, <3>4 DEF StoreTypeOK
      <4>2. \A k : Ahead(w, k)' <=> Before(w, n, k)
        <5>1. n # NoKey BY <3>4
        <5> QED BY <5>1, <4>1 DEF Ahead, Before, Place
      <4>3. Positioned(w)' BY <2>5, <3>1, <3>4, <4>1 DEF Positioned
      <4>4. ASSUME NEW k \in RecordKeys
            PROVE  /\ Before(w, n, k) => Ahead(w, k) /\ k # n
                   /\ k \in records /\ InRange(w, k) /\ ~Before(w, n, k) /\ k # n => ~Ahead(w, k)
        <5>1. position[w] \in RecordKeys \cup {NoKey} BY <1>0, <2>1 DEF StoreTypeOK
        <5>2. ~Before(w, n, n) BY <2>1, <2>5, <3>4, BeforeIsOrder
        <5>3. position[w] # NoKey /\ Before(w, n, k) => Before(w, position[w], k)
          <6>1. position[w] # NoKey => Before(w, position[w], n) BY <2>5, <3>4 DEF Ahead
          <6> QED BY <6>1, <5>1, <2>1, <2>5, <3>4, BeforeIsOrder
        <5>4. Before(w, n, k) => Ahead(w, k) BY <5>3 DEF Ahead
        <5> QED BY <5>2, <5>4, <2>4, <3>4 DEF IsNextRecord
      <4>5. \A k \in RecordKeys : visits'[w][k] = IF k = n THEN visits[w][n] + 1 ELSE visits[w][k]
        BY <1>0, <2>1, <2>5, <4>1 DEF StoreTypeOK
      <4>6. visits[w][n] = 0 BY <2>5, <3>2, <3>4 DEF Walked
      <4>7. ASSUME NEW k \in RecordKeys
            PROVE  /\ visits'[w][k] \in {0, 1}
                   /\ visits'[w][k] = 1 => InRange(w, k) /\ ~Before(w, n, k)
                   /\ k \in steady /\ InRange(w, k) /\ ~Before(w, n, k) => visits'[w][k] = 1
        <5>1. CASE k = n BY <5>1, <4>4, <4>5, <4>6, <2>5, <3>4
        <5>2. CASE k # n
          <6>1. visits'[w][k] = visits[w][k] BY <5>2, <4>5
          <6>2. k \in steady => k \in records BY <1>0
          <6> QED BY <6>1, <6>2, <5>2, <4>4, <3>2 DEF Walked
        <5> QED BY <5>1, <5>2
      <4>8. Walked(w)' BY <2>3, <3>1, <4>1, <4>2, <4>3, <4>7 DEF Walked
      <4> QED BY <4>1, <4>8 DEF IsAwaited
    <3> QED BY <3>3, <3>4
  <2> QED BY <2>3, <2>6, <2>7, <2>8, <2>9 DEF StoreInv
<1>4. CASE StoreRecord
  <2> DEFINE r == Head(requests)
             k == r.key
  <2>1. /\ r.by \in Walkers /\ k \in RecordKeys /\ requests' \in Seq(StoreRequest)
        /\ \A w \in Walkers : w # r.by /\ (\E i \in DOMAIN requests : requests[i].by = w)
               => \E i \in DOMAIN requests' : requests'[i].by = w
    BY <1>0, <1>4, RequestTaken DEF Ops, StoreRecord, TakeRequest
  <2>2. /\ records' = records \cup {k} /\ steady' = steady
        /\ entries' = [entries EXCEPT ![IndexKeyOf[k]] = @ \cup {k}]
        /\ walk' = [walk EXCEPT ![r.by] = "ready"]
        /\ UNCHANGED <<position, visits, storeTx, writes>>
    BY <1>4 DEF StoreRecord, Resume
  <2> HIDE DEF r, k
  <2>3. IndexIsExact' /\ steady' \subseteq records'
    BY <1>0, <2>1, <2>2, EntryAdded DEF IndexIsExact, StoreTypeOK
  <2>4. StoreTypeOK'
    <3>1. records' \in SUBSET RecordKeys /\ steady' \in SUBSET RecordKeys
      BY <1>0, <2>1, <2>2 DEF StoreTypeOK
    <3>2. entries' \in [IndexKeys -> SUBSET RecordKeys] BY <2>3, <3>1 DEF IndexIsExact, Entries
    <3>3. walk' \in [Walkers -> {"waiting", "ready", "writing", "end"}] BY <1>0, <2>1, <2>2 DEF StoreTypeOK
    <3> QED BY <1>0, <2>1, <2>2, <3>1, <3>2, <3>3 DEF StoreTypeOK
  <2>5. ASSUME NEW w \in Walkers PROVE Walked(w)' /\ IsAwaited(w)'
    <3>1. walk'[w] = IF w = r.by THEN "ready" ELSE walk[w] BY <1>0, <2>2 DEF StoreTypeOK
    <3>2. Walked(w)' BY <1>0, <2>2, <3>1, StaysWalked
    <3>3. IsAwaited(w)' BY <1>0, <2>1, <2>2, <3>1 DEF IsAwaited
    <3> QED BY <3>2, <3>3
  <2>6. storeTx' # "committed" BY <1>4, <2>2 DEF StoreRecord, TakeRequest, ContinuationsRun
  <2> QED BY <2>3, <2>4, <2>5, <2>6 DEF StoreInv
<1>5. CASE DeleteRecord
  <2> DEFINE r == Head(requests)
             k == r.key
  <2>1. /\ r.by \in Walkers /\ k \in RecordKeys /\ requests' \in Seq(StoreRequest)
        /\ \A w \in Walkers : w # r.by /\ (\E i \in DOMAIN requests : requests[i].by = w)
               => \E i \in DOMAIN requests' : requests'[i].by = w
    BY <1>0, <1>5, RequestTaken DEF Ops, DeleteRecord, TakeRequest
  <2>2. /\ records' = records \ {k} /\ steady' = steady \ {k}
        /\ entries' = IF k \in records THEN [entries EXCEPT ![IndexKeyOf[k]] = @ \ {k}] ELSE entries
        /\ walk' = [walk EXCEPT ![r.by] = "ready"]
        /\ UNCHANGED <<position, visits, storeTx, writes>>
    BY <1>5 DEF DeleteRecord, Resume, Unlinked
  <2> HIDE DEF r, k
  <2>3. IndexIsExact' /\ steady' \subseteq records'
    <3>1. CASE k \in records
      BY <1>0, <2>1, <2>2, <3>1, EntryRemoved DEF IndexIsExact, StoreTypeOK
    <3>2. CASE k \notin records
      <4>1. records' = records /\ entries' = entries BY <2>2, <3>2
      <4> QED BY <4>1, <1>0, <2>2 DEF IndexIsExact, Entries
    <3> QED BY <3>1, <3>2
  <2>4. StoreTypeOK'
    <3>1. records' \in SUBSET RecordKeys /\ steady' \in SUBSET RecordKeys
      BY <1>0, <2>1, <2>2 DEF StoreTypeOK
    <3>2. entries' \in [IndexKeys -> SUBSET RecordKeys] BY <2>3, <3>1 DEF IndexIsExact, Entries
    <3>3. walk' \in [Walkers -> {"waiting", "ready", "writing", "end"}] BY <1>0, <2>1, <2>2 DEF StoreTypeOK
    <3> QED BY <1>0, <2>1, <2>2, <3>1, <3>2, <3>3 DEF StoreTypeOK
  <2>5. ASSUME NEW w \in Walkers PROVE Walked(w)' /\ IsAwaited(w)'
    <3>1. walk'[w] = IF w = r.by THEN "ready" ELSE walk[w] BY <1>0, <2>2 DEF StoreTypeOK
    <3>2. Walked(w)' BY <1>0, <2>2, <3>1, StaysWalked
    <3>3. IsAwaited(w)' BY <1>0, <2>1, <2>2, <3>1 DEF IsAwaited
    <3> QED BY <3>2, <3>3
  <2>6. storeTx' # "committed" BY <1>5, <2>2 DEF DeleteRecord, TakeRequest, ContinuationsRun
  <2> QED BY <2>3, <2>4, <2>5, <2>6 DEF StoreInv
<1>6. CASE FailedRequest
  <2>1. StoreTypeOK' BY <1>0, <1>6 DEF StoreTypeOK, FailedRequest, walks
  <2>2. IndexIsExact' /\ steady' \subseteq records'
    BY <1>0, <1>6 DEF FailedRequest, IndexIsExact, Entries
  <2>3. ASSUME NEW w \in Walkers PROVE Walked(w)' /\ IsAwaited(w)'
    <3>1. Walked(w)' BY <1>0, <1>6, StaysWalked DEF FailedRequest, walks
    <3> QED BY <3>1, <1>6 DEF FailedRequest, IsAwaited
  <2> QED BY <2>1, <2>2, <2>3, <1>6 DEF StoreInv, FailedRequest
<1>7. CASE CommitWalks
  <2>1. StoreTypeOK' BY <1>0, <1>7 DEF StoreTypeOK, CommitWalks, walks
  <2>2. IndexIsExact' /\ steady' \subseteq records'
    BY <1>0, <1>7 DEF CommitWalks, IndexIsExact, Entries
  <2>3. ASSUME NEW w \in Walkers PROVE Walked(w)' /\ walk'[w] = "end"
    <3>1. Walked(w)' BY <1>0, <1>7, StaysWalked DEF CommitWalks, walks
    <3>2. DOMAIN requests = {} BY <1>7 DEF CommitWalks
    <3>3. walk[w] = "end" BY <1>0, <1>7, <3>2 DEF CommitWalks, IsAwaited, ContinuationsRun
    <3> QED BY <3>1, <3>3, <1>7 DEF CommitWalks, walks
  <2> QED BY <2>1, <2>2, <2>3 DEF StoreInv, IsAwaited
<1>8. CASE UNCHANGED storeVars
  <2>1. StoreTypeOK' BY <1>0, <1>8 DEF StoreTypeOK, storeVars
  <2>2. IndexIsExact' /\ steady' \subseteq records'
    BY <1>0, <1>8 DEF storeVars, IndexIsExact, Entries
  <2>3. ASSUME NEW w \in Walkers PROVE Walked(w)' /\ IsAwaited(w)'
    <3>1. Walked(w)' BY <1>0, <1>8, StaysWalked DEF storeVars
    <3> QED BY <3>1, <1>0, <1>8 DEF storeVars, IsAwaited
  <2> QED BY <2>1, <2>2, <2>3, <1>0, <1>8 DEF StoreInv, storeVars
<1> QED BY <1>1, <1>2, <1>3, <1>4, <1>5, <1>6, <1>7, <1>8 DEF StoreNextStep

(* Streams and store are as StoreInv says at all times.                    *)
THEOREM StoreInvariant == StoreSpec => []StoreInv
<1> QED BY StoreInvInitially, StoreStep, PTL DEF StoreSpec

(* The index of a store leads to its records (storeRecord, deleteRecord).  *)
THEOREM IndexLeadsToRecords == StoreSpec => []IndexIsExact
<1>1. StoreInv => IndexIsExact BY DEF StoreInv
<1> QED BY <1>1, StoreInvariant, PTL

(* Walks are complete, whatever is written beside them (getRecords).       *)
THEOREM WalksAreComplete == StoreSpec => []WalkIsComplete
<1>1. StoreInv => WalkIsComplete
  <2> SUFFICES ASSUME StoreInv PROVE WalkIsComplete OBVIOUS
  <2>1. ASSUME NEW w \in Walkers, NEW k \in RecordKeys
        PROVE  /\ visits[w][k] <= 1
               /\ visits[w][k] = 1 => InRange(w, k)
               /\ walk[w] = "end" /\ k \in steady /\ InRange(w, k) => visits[w][k] = 1
    <3>1. Walked(w) BY DEF StoreInv
    <3> QED BY <3>1 DEF Walked
  <2> QED BY <2>1 DEF StoreInv, WalkIsComplete
<1> QED BY <1>1, StoreInvariant, PTL
=============================================================================
