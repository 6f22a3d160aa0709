---------------------------- MODULE RefreshGroup ----------------------------
(***************************************************************************)
(* One refresh group of the wallet (operations/refresh.ts): the value left *)
(* on every old coin of the group is melted at the exchange and revealed   *)
(* again as a new coin.  A group is processed by runs of                   *)
(* processRefreshGroupImpl, at most one of them memoised at a time; each   *)
(* run works on all coins of the group concurrently (Promise.all).         *)
(*                                                                         *)
(* Every await of the code is a point where other steps may happen: a      *)
(* session is a little process with a program counter, and what it read    *)
(* before an await is kept in its own record.  Promise.all rejects on the  *)
(* first failure, so the sessions of a failed run go on as orphans while   *)
(* the retry loop starts the next run.                                     *)
(*                                                                         *)
(* Abstraction: an old coin yields one new coin; a session is its secret   *)
(* seed (the denominations and the commitment derive from it); offered     *)
(* says whether selectWithdrawalDenominations finds a denomination.        *)
(***************************************************************************)
EXTENDS FiniteSets, Integers

CONSTANTS
    Coins,             \* the old coins of the group (oldCoinPubs)
    Runs,              \* slots for concurrently existing runs (bound)
    Seeds,             \* session secret seeds
    NoSeed, NoRun,     \* "undefined": no session, nothing memoised
    MaxFaults,         \* bound on failed requests and crashes together
    DenomsMayChange    \* may the offered denominations change meanwhile?

ASSUME RefreshAssumption ==
    /\ Coins # {}    \* a group without coins is created finished
    /\ NoSeed \notin Seeds /\ NoRun \notin Runs
    /\ MaxFaults \in Nat
    /\ DenomsMayChange \in BOOLEAN

VARIABLES
    rg,        \* the refresh group record in the database
    newCoin,   \* the record of the new coin derived from each old coin
    sent,      \* commitments (seeds) ever sent in a melt request, per coin
    exch,      \* commitment the exchange accepted for each coin
    shown,     \* coins whose new coin was shown to a merchant
    memo,      \* the run memoised by memoProcessRefresh, or NoRun
    run,       \* what each run does outside of its sessions
    pc, seed,  \* where each session of each run is, and the session it read
    offered,   \* does the exchange offer a denomination small enough?
    faults     \* failures and crashes so far

db      == <<rg, newCoin>>
outside == <<sent, exch, shown>>
memory  == <<memo, run, pc, seed>>
vars    == <<rg, newCoin, sent, exch, shown, memo, run, pc, seed, offered, faults>>

Live == {"read", "create", "select", "store", "small", "reread",
         "melt", "meltSent", "meltGot", "reveal", "revealSent", "revealGot"}

Labels == Live \cup {"none", "ok", "failed"}

(* The record of the group: finishedPerCoin, the seed and norevealIndex of *)
(* refreshSessionPerCoin, timestampFinished and retryInfo.active.          *)
Group ==
    [finished : [Coins -> BOOLEAN], session : [Coins -> Seeds \cup {NoSeed}],
     melted : [Coins -> BOOLEAN], done : BOOLEAN, active : BOOLEAN]

TypeOK ==
    /\ rg \in Group
    /\ newCoin \in [Coins -> {"absent", "fresh", "dormant"}]
    /\ sent \in [Coins -> SUBSET Seeds]
    /\ exch \in [Coins -> Seeds \cup {NoSeed}]
    /\ shown \subseteq Coins
    /\ memo \in Runs \cup {NoRun}
    /\ run \in [Runs -> {"idle", "start", "sessions", "error"}]
    /\ pc \in [Runs -> [Coins -> Labels]]
    /\ seed \in [Runs -> [Coins -> Seeds \cup {NoSeed}]]
    /\ offered \in BOOLEAN
    /\ faults \in 0..MaxFaults

(* createRefreshGroup has captured the value of the old coins. *)
Init ==
    /\ rg = [finished |-> [c \in Coins |-> FALSE], session |-> [c \in Coins |-> NoSeed],
             melted |-> [c \in Coins |-> FALSE], done |-> FALSE, active |-> TRUE]
    /\ newCoin = [c \in Coins |-> "absent"]
    /\ sent = [c \in Coins |-> {}]
    /\ exch = [c \in Coins |-> NoSeed]
    /\ shown = {}
    /\ memo = NoRun
    /\ run = [r \in Runs |-> "idle"]
    /\ pc = [r \in Runs |-> [c \in Coins |-> "none"]]
    /\ seed = [r \in Runs |-> [c \in Coins |-> NoSeed]]
    /\ offered \in (IF DenomsMayChange THEN BOOLEAN ELSE {TRUE})
    /\ faults = 0

-----------------------------------------------------------------------------
(* Runs: memoisation, Promise.all and its failure. *)

(* A slot is free once nothing of its last run is left. *)
Free(r) == run[r] = "idle" /\ \A c \in Coins : pc[r][c] = "none"

(* processRefreshGroup called by createRefreshGroup or, for an unfinished  *)
(* group, by the retry loop: a memoised run is shared, else one starts.    *)
StartRun(r) ==
    /\ memo = NoRun /\ Free(r) /\ ~rg.done
    /\ memo' = r
    /\ run' = [run EXCEPT ![r] = "start"]
    /\ UNCHANGED <<db, outside, pc, seed, offered, faults>>

(* processRefreshGroupImpl: return if finished, else one session per coin. *)
ReadGroup(r) ==
    /\ run[r] = "start"
    /\ IF rg.done
       THEN /\ run' = [run EXCEPT ![r] = "idle"]
            /\ memo' = NoRun
            /\ UNCHANGED pc
       ELSE /\ run' = [run EXCEPT ![r] = "sessions"]
            /\ pc' = [pc EXCEPT ![r] = [c \in Coins |-> "read"]]
            /\ UNCHANGED memo
    /\ UNCHANGED <<db, outside, seed, offered, faults>>

(* What is left of a run whose promise settled: its unfinished sessions. *)
Orphans(r) == [c \in Coins |-> IF pc[r][c] \in Live THEN pc[r][c] ELSE "none"]

(* Promise.all resolves. *)
AllResolved(r) ==
    /\ run[r] = "sessions"
    /\ \A c \in Coins : pc[r][c] = "ok"
    /\ run' = [run EXCEPT ![r] = "idle"]
    /\ memo' = NoRun
    /\ pc' = [pc EXCEPT ![r] = Orphans(r)]
    /\ UNCHANGED <<db, outside, seed, offered, faults>>

(* Promise.all rejects with the first failure; other sessions go on. *)
FirstRejected(r) ==
    /\ run[r] = "sessions"
    /\ \E c \in Coins : pc[r][c] = "failed"
    /\ run' = [run EXCEPT ![r] = "error"]
    /\ UNCHANGED <<db, outside, memo, pc, seed, offered, faults>>

(* Mutant of IncrementRetry: the memo is only freed on success. *)
IncrementRetryKeepsMemo(r) ==
    /\ run[r] = "error"
    /\ run' = [run EXCEPT ![r] = "idle"]
    /\ pc' = [pc EXCEPT ![r] = Orphans(r)]
    /\ UNCHANGED <<db, outside, memo, seed, offered, faults>>

(* guardOperationException: incrementRefreshRetry, then the memo is freed. *)
IncrementRetry(r) ==
    /\ run[r] = "error"
    /\ rg' = [rg EXCEPT !.active = TRUE]
    /\ run' = [run EXCEPT ![r] = "idle"]
    /\ memo' = NoRun
    /\ pc' = [pc EXCEPT ![r] = Orphans(r)]
    /\ UNCHANGED <<newCoin, outside, seed, offered, faults>>

-----------------------------------------------------------------------------
(* Sessions. *)

Goto(r, c, l) == pc' = [pc EXCEPT ![r][c] = l]

(* The session's promise settles; nobody waits for an orphan's. *)
Settle(r, c, how) == Goto(r, c, IF run[r] = "idle" THEN "none" ELSE how)

Keep == UNCHANGED <<memo, run, offered, faults>>

(* A finished group: every coin is finished. *)
AnyDone(g) == \E c \in Coins : g.finished[c]    \* mutant of AllDone
AllDone(g) == \A c \in Coins : g.finished[c]
MarkFinished(g, c) ==
    LET f == [g EXCEPT !.finished[c] = TRUE]
    IN  [f EXCEPT !.done = @ \/ AllDone(f), !.active = @ /\ ~AllDone(f)]

(* processRefreshSession reads the group: *)
ReadSession(r, c) ==
    /\ pc[r][c] = "read"
    /\ \/ rg.finished[c] /\ Settle(r, c, "ok")
       \/ ~rg.finished[c] /\ rg.session[c] = NoSeed /\ Goto(r, c, "create")
       \/ ~rg.finished[c] /\ rg.session[c] # NoSeed
          /\ Goto(r, c, IF rg.melted[c] THEN "reveal" ELSE "melt")
    /\ UNCHANGED <<db, outside, seed>> /\ Keep

(* refreshCreateSession reads the group again ... *)
CreateSession(r, c) ==
    /\ pc[r][c] = "create"
    /\ Goto(r, c, IF rg.finished[c] \/ rg.session[c] # NoSeed THEN "reread" ELSE "select")
    /\ UNCHANGED <<db, outside, seed>> /\ Keep

(* ... updates the exchange and selects denominations; a fresh random seed *)
(* is drawn if there are any.                                              *)
SelectDenoms(r, c) ==
    /\ pc[r][c] = "select"
    /\ \/ ~offered /\ Goto(r, c, "small") /\ UNCHANGED seed
       \/ /\ offered /\ Goto(r, c, "store")
          /\ \E s \in Seeds \ ({seed[q][c] : q \in Runs} \cup sent[c] \cup {rg.session[c]}) :
                seed' = [seed EXCEPT ![r][c] = s]
    /\ UNCHANGED <<db, outside>> /\ Keep

(* Nothing to withdraw: the coin is finished without a session. *)
FinishSmall(r, c) ==
    /\ pc[r][c] = "small"
    /\ rg' = MarkFinished(rg, c)
    /\ Goto(r, c, "reread")
    /\ UNCHANGED <<newCoin, outside, seed>> /\ Keep

(* Mutant of StoreSession: an existing session is overwritten. *)
StoreSessionOverwrites(r, c) ==
    /\ pc[r][c] = "store"
    /\ rg' = [rg EXCEPT !.session[c] = seed[r][c]]
    /\ seed' = [seed EXCEPT ![r][c] = NoSeed]
    /\ Goto(r, c, "reread")
    /\ UNCHANGED <<newCoin, outside>> /\ Keep

(* The session is stored unless there is one. *)
StoreSession(r, c) ==
    /\ pc[r][c] = "store"
    /\ rg' = IF rg.session[c] # NoSeed THEN rg ELSE [rg EXCEPT !.session[c] = seed[r][c]]
    /\ seed' = [seed EXCEPT ![r][c] = NoSeed]
    /\ Goto(r, c, "reread")
    /\ UNCHANGED <<newCoin, outside>> /\ Keep

(* processRefreshSession reads the group after refreshCreateSession. *)
RereadSession(r, c) ==
    /\ pc[r][c] = "reread"
    /\ \/ rg.session[c] = NoSeed /\ Settle(r, c, IF rg.finished[c] THEN "ok" ELSE "failed")
       \/ rg.session[c] # NoSeed /\ Goto(r, c, IF rg.melted[c] THEN "reveal" ELSE "melt")
    /\ UNCHANGED <<db, outside, seed>> /\ Keep

(* refreshMelt: the request carries the commitment of the stored session. *)
SendMelt(r, c) ==
    /\ pc[r][c] = "melt"
    /\ IF rg.session[c] = NoSeed \/ rg.melted[c]
       THEN Goto(r, c, "reveal") /\ UNCHANGED <<seed, sent>>
       ELSE /\ Goto(r, c, "meltSent")
            /\ seed' = [seed EXCEPT ![r][c] = rg.session[c]]
            /\ sent' = [sent EXCEPT ![c] = @ \cup {rg.session[c]}]
    /\ UNCHANGED <<db, exch, shown>> /\ Keep

(* The exchange melts a coin once; the same request again is idempotent. *)
ExchangeMelts(c) ==
    /\ exch[c] = NoSeed
    /\ \E s \in sent[c] : exch' = [exch EXCEPT ![c] = s]
    /\ UNCHANGED <<db, sent, shown, memory, offered, faults>>

MeltAnswered(r, c) ==
    /\ pc[r][c] = "meltSent"
    /\ exch[c] # NoSeed
    /\ IF exch[c] = seed[r][c] THEN Goto(r, c, "meltGot") ELSE Settle(r, c, "failed")
    /\ UNCHANGED <<db, outside, seed>> /\ Keep

(* db.mutate: keep norevealIndex unless the group moved on. *)
StoreMelt(r, c) ==
    /\ pc[r][c] = "meltGot"
    /\ rg' = IF rg.done \/ rg.session[c] = NoSeed THEN rg ELSE [rg EXCEPT !.melted[c] = TRUE]
    /\ seed' = [seed EXCEPT ![r][c] = NoSeed]
    /\ Goto(r, c, "reveal")
    /\ UNCHANGED <<newCoin, outside>> /\ Keep

(* refreshReveal: "can't reveal without melting first" fails the session. *)
SendReveal(r, c) ==
    /\ pc[r][c] = "reveal"
    /\ \/ rg.session[c] = NoSeed /\ Settle(r, c, "ok") /\ UNCHANGED seed
       \/ rg.session[c] # NoSeed /\ ~rg.melted[c] /\ Settle(r, c, "failed") /\ UNCHANGED seed
       \/ rg.session[c] # NoSeed /\ rg.melted[c] /\ Goto(r, c, "revealSent")
          /\ seed' = [seed EXCEPT ![r][c] = rg.session[c]]
    /\ UNCHANGED <<db, outside>> /\ Keep

RevealAnswered(r, c) ==
    /\ pc[r][c] = "revealSent"
    /\ IF exch[c] = seed[r][c] THEN Goto(r, c, "revealGot") ELSE Settle(r, c, "failed")
    /\ UNCHANGED <<db, outside, seed>> /\ Keep

(* The transaction after the reveal: finish the coin and put the new coin  *)
(* record, whatever the database holds for that coin by then.              *)
StoreReveal(r, c) ==
    /\ pc[r][c] = "revealGot"
    /\ IF rg.session[c] = NoSeed
       THEN UNCHANGED <<rg, newCoin>>
       ELSE /\ rg' = MarkFinished(rg, c)
            /\ newCoin' = [newCoin EXCEPT ![c] = "fresh"]
    /\ seed' = [seed EXCEPT ![r][c] = NoSeed]
    /\ Settle(r, c, "ok")
    /\ UNCHANGED outside /\ Keep

(* A network error or a timeout while the session waits for the exchange. *)
RequestFails(r, c) ==
    /\ pc[r][c] \in {"select", "meltSent", "revealSent"}
    /\ faults < MaxFaults /\ faults' = faults + 1
    /\ seed' = [seed EXCEPT ![r][c] = NoSeed]
    /\ Settle(r, c, "failed")
    /\ UNCHANGED <<db, outside, memo, run, offered>>

-----------------------------------------------------------------------------
(* The rest of the wallet and of the world. *)

(* The wallet pays with the new coin (applyCoinSpend): it becomes dormant. *)
Spend(c) ==
    /\ newCoin[c] = "fresh"
    /\ newCoin' = [newCoin EXCEPT ![c] = "dormant"]
    /\ shown' = shown \cup {c}
    /\ UNCHANGED <<rg, sent, exch, memory, offered, faults>>

(* The wallet process dies and is started again on the same database. *)
Crash ==
    /\ faults < MaxFaults /\ faults' = faults + 1
    /\ memo' = NoRun
    /\ run' = [r \in Runs |-> "idle"]
    /\ pc' = [r \in Runs |-> [c \in Coins |-> "none"]]
    /\ seed' = [r \in Runs |-> [c \in Coins |-> NoSeed]]
    /\ UNCHANGED <<db, outside, offered>>

(* Denominations expire, or the exchange publishes new ones. *)
DenomsChange ==
    /\ DenomsMayChange
    /\ offered' = ~offered
    /\ UNCHANGED <<db, outside, memory, faults>>

SessionStep(r, c) ==
    \/ ReadSession(r, c) \/ CreateSession(r, c) \/ SelectDenoms(r, c)
    \/ FinishSmall(r, c) \/ StoreSession(r, c) \/ RereadSession(r, c)
    \/ SendMelt(r, c) \/ MeltAnswered(r, c) \/ StoreMelt(r, c)
    \/ SendReveal(r, c) \/ RevealAnswered(r, c) \/ StoreReveal(r, c)

RunStep(r) ==
    \/ StartRun(r) \/ ReadGroup(r) \/ AllResolved(r) \/ FirstRejected(r) \/ IncrementRetry(r)

Next ==
    \/ \E r \in Runs : RunStep(r)
    \/ \E r \in Runs, c \in Coins : SessionStep(r, c) \/ RequestFails(r, c)
    \/ \E c \in Coins : ExchangeMelts(c) \/ Spend(c)
    \/ Crash
    \/ DenomsChange

Spec == Init /\ [][Next]_vars

(* The event loop runs every continuation, the retry loop restarts an      *)
(* unfinished group, and the exchange answers what is not lost.            *)
Fairness ==
    /\ \A r \in Runs : WF_vars(RunStep(r))
    /\ \A r \in Runs, c \in Coins : WF_vars(SessionStep(r, c))
    /\ \A c \in Coins : WF_vars(ExchangeMelts(c))

FairSpec == Spec /\ Fairness

-----------------------------------------------------------------------------
(* Properties. *)

(* However often a coin's session is retried, restarted or duplicated, the *)
(* exchange only ever sees one melt commitment for the coin, the one       *)
(* stored in the group: a second one would be a double spend.              *)
OneCommitment ==
    \A c \in Coins :
        /\ sent[c] \subseteq {rg.session[c]}
        /\ exch[c] # NoSeed => exch[c] = rg.session[c]

(* The group carries a finish time exactly when all its coins are finished *)
(* (the retry loop looks at the former, the sessions at the latter).       *)
DoneWhenAllFinished == rg.done <=> \A c \in Coins : rg.finished[c]

(* The code's own assertion in processRefreshSession ("BUG: refresh        *)
(* session was not created and coin not marked as finished") never fires.  *)
NoMissingSession ==
    \A r \in Runs, c \in Coins :
        pc[r][c] = "reread" => rg.finished[c] \/ rg.session[c] # NoSeed

(* A new coin record exists only for a coin the exchange melted, under the *)
(* session the group stored.                                               *)
NewCoinIsBacked ==
    \A c \in Coins : newCoin[c] # "absent" => exch[c] # NoSeed /\ exch[c] = rg.session[c]

(* A coin with status fresh was never shown to anybody (db.ts CoinStatus): *)
(* the put after a reveal never brings a spent coin back.                  *)
FreshNeverShown == \A c \in Coins : newCoin[c] = "fresh" => c \notin shown

(* No value is stranded: the group is not finished while a coin it melted  *)
(* at the exchange has no new coin.                                        *)
NothingStranded ==
    \A c \in Coins : rg.done /\ exch[c] # NoSeed => newCoin[c] # "absent"

(* Every group is eventually finished. *)
EventuallyDone == <>rg.done
=============================================================================
