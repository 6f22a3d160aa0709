----------------------------- MODULE CryptoApi -----------------------------
(***************************************************************************)
(* The dispatcher of cryptographic operations (crypto/workers/cryptoApi.ts)*)
(* a fixed number of worker slots, a queue of requests per priority, and   *)
(* the counter numBusy that decides between the two.  The code has no      *)
(* await: every handler is one step.                                       *)
(*                                                                         *)
(* A worker instance is external (a thread, or code on the same event      *)
(* loop): it answers the message it was posted, it fails with an error, or *)
(* the operation throws, which the workers log without answering.          *)
(***************************************************************************)
EXTENDS Integers, Sequences, FiniteSets

CONSTANTS
    NumWorkers,     \* workerFactory.getConcurrency()
    NumPrio,        \* priorities are 0 .. NumPrio - 1
    Requests,       \* names for outstanding requests (rpcId)
    NoRequest,      \* null
    OpsMayThrow,    \* may an operation throw inside of a worker?
    MayStop         \* may the wallet be stopped?

ASSUME CryptoAssumption ==
    /\ NumWorkers \in Nat \ {0} /\ NumPrio \in Nat \ {0}
    /\ IsFiniteSet(Requests) /\ NoRequest \notin Requests
    /\ OpsMayThrow \in BOOLEAN /\ MayStop \in BOOLEAN

Workers == 1..NumWorkers
Prios == 0..(NumPrio - 1)

VARIABLES
    cur,        \* per slot, currentWorkItem
    inst,       \* per slot, does it have a worker instance (w)?
    timer,      \* per slot, is the termination timer running?
    job,        \* per slot, the request its instance has yet to answer
    numBusy, queue, stopped,
    rpcState    \* per request, the state of its promise

slots == <<cur, inst, timer, job>>
cryptoVars == <<cur, inst, timer, job, numBusy, queue, stopped, rpcState>>

CryptoTypeOK ==
    /\ cur \in [Workers -> Requests \cup {NoRequest}]
    /\ inst \in [Workers -> BOOLEAN]
    /\ timer \in [Workers -> BOOLEAN]
    /\ job \in [Workers -> Requests \cup {NoRequest}]
    /\ numBusy \in 0..NumWorkers
    /\ queue \in [Prios -> Seq(Requests)]
    /\ stopped \in BOOLEAN
    /\ rpcState \in [Requests -> {"unused", "pending", "resolved", "rejected"}]

CryptoInit ==
    /\ cur = [w \in Workers |-> NoRequest]
    /\ inst = [w \in Workers |-> FALSE]
    /\ timer = [w \in Workers |-> FALSE]
    /\ job = [w \in Workers |-> NoRequest]
    /\ numBusy = 0
    /\ queue = [p \in Prios |-> <<>>]
    /\ stopped = FALSE
    /\ rpcState = [r \in Requests |-> "unused"]

InQueue(r, p) == \E i \in DOMAIN queue[p] : queue[p][i] = r

(* A name is free for a new request when nothing refers to the old one. *)
Unused(r) ==
    /\ rpcState[r] # "pending"
    /\ \A w \in Workers : cur[w] # r /\ job[w] # r
    /\ \A p \in Prios : ~InQueue(r, p)

-----------------------------------------------------------------------------
(* wake: slot w, idle in c, gets request r; b slots are busy and the       *)
(* instances have to answer j.                                             *)
WakeWorker(w, r, c, j, b) ==
    IF stopped
    THEN /\ cur' = c /\ job' = j /\ numBusy' = b
         /\ UNCHANGED <<inst, timer>>
    ELSE /\ cur' = [c EXCEPT ![w] = r] /\ numBusy' = b + 1
         /\ job' = [j EXCEPT ![w] = r]
         /\ inst' = [inst EXCEPT ![w] = TRUE]
         /\ timer' = [timer EXCEPT ![w] = TRUE]

(* Mutants of Urgent: lowest priority first; only the top queue is read. *)
UrgentInverted == {p \in Prios : queue[p] # <<>> /\ \A q \in Prios : queue[q] # <<>> => p <= q}
UrgentTopOnly == {p \in Prios : queue[p] # <<>> /\ p = NumPrio - 1}

(* The priorities with the most urgent waiting request (none or one). *)
Urgent == {p \in Prios : queue[p] # <<>> /\ \A q \in Prios : queue[q] # <<>> => q <= p}

(* findWork for slot w, which is idle in c, with b slots busy; gone says   *)
(* whether its instance was terminated.                                    *)
FindWork(w, c, b, gone) ==
    \/ /\ Urgent = {}
       /\ cur' = c /\ numBusy' = b
       /\ job' = [job EXCEPT ![w] = NoRequest]
       /\ inst' = [inst EXCEPT ![w] = inst[w] /\ ~gone]
       /\ UNCHANGED <<timer, queue>>
    \/ \E p \in Urgent :
          /\ queue' = [queue EXCEPT ![p] = Tail(queue[p])]
          /\ WakeWorker(w, Head(queue[p]), c, [job EXCEPT ![w] = NoRequest], b)

(* doRpc: queue the request when all slots are busy, else give it to the   *)
(* first idle one; with neither, the promise rejects ("assertion failed"). *)
Idle == {w \in Workers : cur[w] = NoRequest}

Submit(r, p) ==
    /\ Unused(r)
    /\ rpcState' = [rpcState EXCEPT ![r] = IF numBusy # NumWorkers /\ Idle = {}
                                         THEN "rejected" ELSE "pending"]
    /\ IF numBusy = NumWorkers
       THEN /\ queue' = [queue EXCEPT ![p] = Append(queue[p], r)]
            /\ UNCHANGED <<slots, numBusy>>
       ELSE /\ \/ Idle = {} /\ UNCHANGED <<slots, numBusy>>
               \/ \E w \in Idle : /\ \A v \in Idle : w <= v
                                  /\ WakeWorker(w, r, cur, job, numBusy)
            /\ UNCHANGED queue
    /\ UNCHANGED stopped

(* Mutant of Answer: the slot does not look for more work. *)
AnswerNoFindWork(w) ==
    /\ job[w] # NoRequest
    /\ cur' = [cur EXCEPT ![w] = NoRequest] /\ numBusy' = numBusy - 1
    /\ job' = [job EXCEPT ![w] = NoRequest]
    /\ rpcState' = IF cur[w] = job[w] THEN [rpcState EXCEPT ![job[w]] = "resolved"]
                                     ELSE rpcState
    /\ UNCHANGED <<inst, timer, queue, stopped>>

(* handleWorkerMessage: the slot looks for more work, then the answer is   *)
(* matched with what the slot had been doing.                              *)
Answer(w) ==
    /\ job[w] # NoRequest
    /\ FindWork(w, [cur EXCEPT ![w] = NoRequest], numBusy - 1, FALSE)
    /\ rpcState' = IF cur[w] = job[w] THEN [rpcState EXCEPT ![job[w]] = "resolved"]
                                     ELSE rpcState
    /\ UNCHANGED stopped

(* handleWorkerError: terminate the instance, reject, look for more work.  *)
(* An instance that was terminated reports no error.                       *)
WorkerError(w) ==
    /\ inst[w]
    /\ FindWork(w, [cur EXCEPT ![w] = NoRequest],
                IF cur[w] = NoRequest THEN numBusy ELSE numBusy - 1, TRUE)
    /\ rpcState' = IF cur[w] # NoRequest THEN [rpcState EXCEPT ![cur[w]] = "rejected"]
                                         ELSE rpcState
    /\ UNCHANGED stopped

(* The operation throws inside of the worker, which logs it and is silent. *)
OperationThrows(w) ==
    /\ OpsMayThrow /\ job[w] # NoRequest
    /\ job' = [job EXCEPT ![w] = NoRequest]
    /\ UNCHANGED <<cur, inst, timer, numBusy, queue, stopped, rpcState>>

(* The 15 second timer: terminate the instance if the slot is idle. *)
TimerFires(w) ==
    /\ timer[w]
    /\ timer' = [timer EXCEPT ![w] = FALSE]
    /\ inst' = [inst EXCEPT ![w] = inst[w] /\ cur[w] # NoRequest]
    /\ UNCHANGED <<cur, job, numBusy, queue, stopped, rpcState>>

(* stop and terminateWorkers.  Terminating does nothing in the synchronous *)
(* worker: an answer under way may still arrive.                           *)
Stop ==
    /\ MayStop /\ ~stopped
    /\ stopped' = TRUE
    /\ cur' = [w \in Workers |-> IF inst[w] THEN NoRequest ELSE cur[w]]
    /\ inst' = [w \in Workers |-> FALSE]
    /\ timer' = [w \in Workers |-> timer[w] /\ ~inst[w]]
    /\ \E lost \in SUBSET Workers :
          job' = [w \in Workers |-> IF w \in lost THEN NoRequest ELSE job[w]]
    /\ rpcState' = [r \in Requests |-> IF \E w \in Workers : inst[w] /\ cur[w] = r
                                      THEN "rejected" ELSE rpcState[r]]
    /\ UNCHANGED <<numBusy, queue>>

CryptoNext ==
    \/ \E r \in Requests, p \in Prios : Submit(r, p)
    \/ \E w \in Workers : Answer(w) \/ WorkerError(w) \/ OperationThrows(w) \/ TimerFires(w)
    \/ Stop

CryptoSpec == CryptoInit /\ [][CryptoNext]_cryptoVars

(* An instance with something to answer does, or fails, or throws. *)
CryptoFairness ==
    \A w \in Workers :
        WF_cryptoVars(job[w] # NoRequest /\ (Answer(w) \/ WorkerError(w) \/ OperationThrows(w)))

-----------------------------------------------------------------------------
(* Properties. *)

(* The counter never drifts from the slots, so that neither "assertion     *)
(* failed" of doRpc and wake is reached nor a request queued for nothing.  *)
BusyCount == ~stopped => numBusy = Cardinality({w \in Workers : cur[w] # NoRequest})

(* No slot idles while requests are queued: only a reply or an error looks *)
(* into the queues, so a request queued beside an idle slot could wait     *)
(* forever.                                                                *)
WorkConserving ==
    ~stopped => \A p \in Prios : queue[p] # <<>> => \A w \in Workers : cur[w] # NoRequest

(* A busy slot has an instance, which works for this slot's request and no *)
(* older one, unless the operation threw.                                  *)
BusyIsServed ==
    ~stopped => \A w \in Workers :
        cur[w] # NoRequest => inst[w] /\ job[w] \in {cur[w], NoRequest}

(* No overtaking: a request leaves its queue before every queued request   *)
(* that is less urgent, or as urgent and younger, and not before others.   *)
NoOvertaking ==
    [][\A w \in Workers, p, q \in Prios :
          \A i \in DOMAIN queue[p], j \in DOMAIN queue[q] :
             /\ cur'[w] = queue[p][i] /\ cur'[w] # cur[w]
             /\ \A v \in Workers : cur'[v] # queue[q][j]
             => q < p \/ (q = p /\ i < j)]_cryptoVars

(* A slot whose operation threw: the worker logged it and never answers.   *)
Stuck(w) == cur[w] # NoRequest /\ job[w] = NoRequest

(* Every promise settles, unless the wallet stops, an operation threw in   *)
(* one of the slots, or more urgent requests keep coming.                  *)
PendingIsSettled ==
    \A r \in Requests :
        \/ rpcState[r] = "pending"
           ~> rpcState[r] # "pending" \/ stopped \/ \E w \in Workers : Stuck(w)
        \/ \E p \in Prios : []<>(\E q \in Prios, s \in Requests :
                                    q > p /\ InQueue(r, p) /\ InQueue(s, q))
=============================================================================
