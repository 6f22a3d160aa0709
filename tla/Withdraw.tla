------------------------------ MODULE Withdraw ------------------------------
(***************************************************************************)
(* One reserve of the wallet and the withdrawal groups that empty it       *)
(* (operations/reserves.ts, operations/withdraw.ts), with the bank and the *)
(* exchange it talks to.                                                   *)
(*                                                                         *)
(* Three activities of the wallet overlap: "memo" is processReserve, which *)
(* is memoised per reserve; "bank" is the call of processReserveBankStatus *)
(* that createTalerWithdrawReserve makes beside it; "loop" is the retry    *)
(* loop processing a withdrawal group.  The first two process the group    *)
(* they create themselves.                                                 *)
(*                                                                         *)
(* Amounts are counted in coins of one denomination, which stays           *)
(* withdrawable: selectWithdrawalDenominations takes all that remains.     *)
(***************************************************************************)
EXTENDS Integers, FiniteSets

CONSTANTS
    Groups, None,   \* withdrawal groups the wallet may create, and no group
    MaxCredits,     \* bound: coins' worth that is credited to the reserve
    MaxTroubles     \* bound: requests that fail, deaths of the wallet, and
                    \* coins' worth that leaves the reserve otherwise

ASSUME WithdrawAssumption ==
    /\ MaxCredits \in Nat
    /\ MaxTroubles \in Nat /\ IsFiniteSet(Groups) /\ None \notin Groups

Runs == {"memo", "bank", "loop"}
Orphans == "orphans"    \* verifications whose run has failed meanwhile
Coin == Groups \X (1..MaxCredits)

VARIABLES
    (* the reserve record and the withdrawal groups in the database *)
    status,     \* reserveStatus
    requested,  \* requestedQuery
    size,       \* per group, the coins it was created for; 0: no record
    finished,   \* groups with timestampFinish
    planchet,   \* per coin, "none", "made" or "done" (withdrawalDone)
    coins,      \* the coins in the database
    (* the bank and the exchange *)
    bank,       \* "offered", "selected", "confirmed" or "aborted"
    credits,    \* what was ever credited to the reserve
    recoups,    \* how often the exchange has credited a recoup
    untold,     \* recoups the wallet has not entered in its database yet
    gone,       \* closing transactions and withdrawals of other wallets
    debited,    \* our coins the exchange has signed
    (* the runs *)
    pc, snap, grp, todo, work,
    troubles

reserve == <<status, requested>>
groups == <<size, finished, planchet, coins>>
outside == <<bank, credits, recoups, untold, gone, debited>>
local == <<snap, grp, todo, work>>
vars == <<status, requested, size, finished, planchet, coins, bank, credits, recoups, untold,
          gone, debited, pc, snap, grp, todo, work, troubles>>

BankPhase == {"REGISTERING_BANK", "WAIT_CONFIRM_BANK"}

TypeOK ==
    /\ status \in BankPhase \cup {"QUERYING_STATUS", "DORMANT", "BANK_ABORTED"}
    /\ requested \in BOOLEAN
    /\ size \in [Groups -> 0..MaxCredits] /\ finished \subseteq Groups
    /\ planchet \in [Coin -> {"none", "made", "done"}] /\ coins \subseteq Coin
    /\ bank \in {"offered", "selected", "confirmed", "aborted"}
    /\ credits \in 0..MaxCredits /\ recoups \in 0..credits /\ untold \in 0..recoups
    /\ gone \in 0..troubles /\ debited \subseteq Coin
    /\ pc \in [Runs -> {"idle", "poll", "pollwait", "register", "registered", "query",
                        "allocate", "look", "make", "withdraw"}]
    /\ snap \in [Runs -> Int] /\ grp \in [Runs -> Groups \cup {None}]
    /\ todo \in [Runs -> SUBSET Coin] /\ work \in [Runs \cup {Orphans} -> SUBSET Coin]
    /\ troubles \in 0..MaxTroubles

(* processReserveImpl branches on the status it reads, and                 *)
(* processReserveBankStatusImpl does.                                      *)
Enter(st) ==
    IF st = "REGISTERING_BANK" THEN "poll"
    ELSE IF st = "WAIT_CONFIRM_BANK" THEN "pollwait"
    ELSE IF st = "QUERYING_STATUS" THEN "query" ELSE "idle"

EnterBank(st) == IF st \in BankPhase THEN Enter(st) ELSE "idle"

(* createReserve: with a bank's withdrawal operation, or for a transfer    *)
(* the user makes; it starts processReserve.                               *)
Init ==
    /\ \/ status = "REGISTERING_BANK" /\ bank = "offered"
       \/ status = "QUERYING_STATUS" /\ bank = "confirmed"
    /\ requested = FALSE
    /\ size = [g \in Groups |-> 0] /\ finished = {} /\ planchet = [c \in Coin |-> "none"]
    /\ coins = {} /\ credits = 0 /\ recoups = 0 /\ untold = 0 /\ gone = 0 /\ debited = {}
    /\ pc = [r \in Runs |-> IF r = "memo" THEN Enter(status)
                            ELSE IF r = "bank" THEN EnterBank(status) ELSE "idle"]
    /\ snap = [r \in Runs |-> 0] /\ grp = [r \in Runs |-> None]
    /\ todo = [r \in Runs |-> {}] /\ work = [r \in Runs \cup {Orphans} |-> {}]
    /\ troubles = 0

CoinsOf(g) == {g} \X (1..size[g])
Allocated == Cardinality(UNION {CoinsOf(g) : g \in Groups})
Balance == credits - gone - Cardinality(debited)

Trouble == troubles < MaxTroubles /\ troubles' = troubles + 1
Goto(r, l) == pc' = [pc EXCEPT ![r] = l]

-----------------------------------------------------------------------------
(* The bank, the exchange and the people using them.                       *)
UserConfirms ==
    /\ bank = "selected" /\ bank' = "confirmed"
    /\ UNCHANGED <<reserve, groups, credits, recoups, untold, gone, debited, pc, local, troubles>>

UserAborts ==
    /\ bank \in {"offered", "selected"} /\ bank' = "aborted"
    /\ UNCHANGED <<reserve, groups, credits, recoups, untold, gone, debited, pc, local, troubles>>

WireTransfer ==
    /\ bank = "confirmed" /\ credits = 0 /\ credits' \in 1..MaxCredits
    /\ UNCHANGED <<reserve, groups, bank, recoups, untold, gone, debited, pc, local, troubles>>

(* A coin of the reserve is recouped: the answer to the wallet's request   *)
(* is still under way.                                                     *)
Recoup ==
    /\ credits < MaxCredits /\ recoups < Cardinality(coins)
    /\ recoups' = recoups + 1 /\ credits' = credits + 1 /\ untold' = untold + 1
    /\ UNCHANGED <<reserve, groups, bank, gone, debited, pc, local, troubles>>

(* The exchange closes the reserve, or another wallet withdraws from it.   *)
Leave ==
    /\ Trouble /\ Balance > 0 /\ gone' = gone + 1
    /\ UNCHANGED <<reserve, groups, bank, credits, recoups, untold, debited, pc, local>>

-----------------------------------------------------------------------------
(* The reserve is to be queried: the transactions of forceQueryReserve and *)
(* of recoupWithdrawCoin.                                                  *)
Requery ==
    IF status = "DORMANT"
    THEN status' = "QUERYING_STATUS" /\ UNCHANGED requested
    ELSE requested' = TRUE /\ UNCHANGED status

ForceQuery ==
    /\ Requery
    /\ UNCHANGED <<groups, outside, pc, local, troubles>>

RecoupTx ==
    /\ untold > 0 /\ untold' = untold - 1
    /\ Requery
    /\ UNCHANGED <<groups, bank, credits, recoups, gone, debited, pc, local, troubles>>

(* processReserve, by the retry loop or after one of the above.            *)
StartReserve ==
    /\ pc["memo"] = "idle" /\ status \in BankPhase \cup {"QUERYING_STATUS"}
    /\ Goto("memo", Enter(status))
    /\ UNCHANGED <<reserve, groups, outside, local, troubles>>

(* What follows an answer that the user has still to confirm: the          *)
(* recursion asks again after a registration, otherwise the retry loop     *)
(* will.                                                                   *)
Later(r) == {"idle", EnterBank(status)} \cup (IF r = "memo" THEN {Enter(status)} ELSE {})

PollAborted(r) ==
    /\ pc[r] \in {"poll", "pollwait"} /\ bank = "aborted"
    /\ status' = IF status \in BankPhase THEN "BANK_ABORTED" ELSE status
    /\ Goto(r, "idle")
    /\ UNCHANGED <<requested, groups, outside, local, troubles>>

(* The bank has not been told, or the wallet does not know that it has.    *)
PollUnselected(r) ==
    /\ \/ pc[r] = "poll" /\ bank # "aborted"
       \/ pc[r] = "pollwait" /\ bank = "offered"
    /\ Goto(r, "register")
    /\ UNCHANGED <<reserve, groups, outside, local, troubles>>

PollConfirmed(r) ==
    /\ pc[r] = "pollwait" /\ bank = "confirmed"
    /\ status' = IF status \in BankPhase THEN "QUERYING_STATUS" ELSE status
    /\ Goto(r, Enter(status'))
    /\ UNCHANGED <<requested, groups, outside, local, troubles>>

PollWaiting(r) ==
    /\ pc[r] = "pollwait" /\ bank = "selected"
    /\ \E l \in Later(r) : Goto(r, l)
    /\ UNCHANGED <<reserve, groups, outside, local, troubles>>

(* registerReserveWithBank: the bank selects the exchange ...              *)
Post(r) ==
    /\ pc[r] = "register" /\ bank # "aborted"
    /\ bank' = IF bank = "offered" THEN "selected" ELSE bank
    /\ Goto(r, "registered")
    /\ UNCHANGED <<reserve, groups, credits, recoups, untold, gone, debited, local, troubles>>

PostRefused(r) ==
    /\ pc[r] = "register" /\ bank = "aborted"
    /\ Goto(r, "idle")
    /\ UNCHANGED <<reserve, groups, outside, local, troubles>>

(* ... and its answer is entered, also when the bank goes on meanwhile.    *)
RegisterTx(r) ==
    /\ pc[r] = "registered"
    /\ status' = IF status \in BankPhase THEN "WAIT_CONFIRM_BANK" ELSE status
    /\ Goto(r, EnterBank(status'))
    /\ UNCHANGED <<requested, groups, outside, local, troubles>>

-----------------------------------------------------------------------------
(* updateReserve asks the exchange.  Our own withdrawals in the history    *)
(* have planchets, so that they are left out (see CoinsAreBacked).         *)
QueryAnswered(r) ==
    /\ pc[r] = "query" /\ credits > 0
    /\ snap' = [snap EXCEPT ![r] = credits - gone]
    /\ Goto(r, "allocate")
    /\ UNCHANGED <<reserve, groups, outside, grp, todo, work, troubles>>

(* The exchange does not know the reserve yet.                             *)
QueryUnknown(r) ==
    /\ pc[r] = "query" /\ credits = 0
    /\ Goto(r, "idle")
    /\ UNCHANGED <<reserve, groups, outside, local, troubles>>

(* Mutant of Allocate: the groups other runs have created are not          *)
(* subtracted.                                                             *)
AllocateAll(r) ==
    /\ pc[r] = "allocate" /\ \E h \in Groups : size[h] = 0
    /\ status' = "DORMANT"
    /\ LET remaining == snap[r]
           g == CHOOSE h \in Groups : size[h] = 0
       IN IF remaining <= 0
          THEN Goto(r, "idle") /\ UNCHANGED <<size, grp>>
          ELSE /\ size' = [size EXCEPT ![g] = remaining]
               /\ grp' = [grp EXCEPT ![r] = g] /\ Goto(r, "look")
    /\ snap' = [snap EXCEPT ![r] = 0]
    /\ UNCHANGED <<requested, finished, planchet, coins, outside, todo, work, troubles>>

(* The transaction of updateReserve: what is left becomes a new group, and *)
(* the reserve goes to rest.                                               *)
Allocate(r) ==
    /\ pc[r] = "allocate" /\ \E h \in Groups : size[h] = 0
    /\ status' = "DORMANT"
    /\ LET remaining == snap[r] - Allocated
           g == CHOOSE h \in Groups : size[h] = 0
       IN IF remaining <= 0
          THEN Goto(r, "idle") /\ UNCHANGED <<size, grp>>
          ELSE /\ size' = [size EXCEPT ![g] = remaining]
               /\ grp' = [grp EXCEPT ![r] = g] /\ Goto(r, "look")
    /\ snap' = [snap EXCEPT ![r] = 0]
    /\ UNCHANGED <<requested, finished, planchet, coins, outside, todo, work, troubles>>

-----------------------------------------------------------------------------
(* Mutant of StartGroup: only a group nobody has worked on is pending. *)
StartFreshGroup(g) ==
    /\ pc["loop"] = "idle" /\ size[g] > 0 /\ \A c \in CoinsOf(g) : planchet[c] = "none"
    /\ grp' = [grp EXCEPT !["loop"] = g] /\ Goto("loop", "look")
    /\ UNCHANGED <<reserve, groups, outside, snap, todo, work, troubles>>

(* The retry loop takes up an unfinished group.                            *)
StartGroup(g) ==
    /\ pc["loop"] = "idle" /\ size[g] > 0 /\ g \notin finished
    /\ grp' = [grp EXCEPT !["loop"] = g] /\ Goto("loop", "look")
    /\ UNCHANGED <<reserve, groups, outside, snap, todo, work, troubles>>

(* processPlanchetGenerate, for all coins at once: which have no planchet? *)
Look(r) ==
    /\ pc[r] = "look"
    /\ todo' = [todo EXCEPT ![r] = {c \in CoinsOf(grp[r]) : planchet[c] = "none"}]
    /\ Goto(r, "make")
    /\ UNCHANGED <<reserve, groups, outside, snap, grp, work, troubles>>

(* Mutant of MakePlanchet: it does not look again before it puts. *)
MakeAgain(r, c) ==
    /\ pc[r] = "make" /\ c \in todo[r]
    /\ planchet' = [planchet EXCEPT ![c] = "made"]
    /\ todo' = [todo EXCEPT ![r] = @ \ {c}]
    /\ UNCHANGED <<reserve, size, finished, coins, outside, pc, snap, grp, work, troubles>>

(* A planchet is signed, and stored unless another run has been faster.    *)
MakePlanchet(r, c) ==
    /\ pc[r] = "make" /\ c \in todo[r]
    /\ planchet' = [planchet EXCEPT ![c] = IF @ = "none" THEN "made" ELSE @]
    /\ todo' = [todo EXCEPT ![r] = @ \ {c}]
    /\ UNCHANGED <<reserve, size, finished, coins, outside, pc, snap, grp, work, troubles>>

PlanchetsMade(r) ==
    /\ pc[r] = "make" /\ todo[r] = {}
    /\ todo' = [todo EXCEPT ![r] = CoinsOf(grp[r])]
    /\ Goto(r, "withdraw")
    /\ UNCHANGED <<reserve, groups, outside, snap, grp, work, troubles>>

(* The coins are requested one after the other.                            *)
Turn(r, c) ==
    /\ pc[r] = "withdraw" /\ c \in todo[r] /\ \A d \in todo[r] : c[2] <= d[2]
    /\ todo' = [todo EXCEPT ![r] = @ \ {c}]

Skip(r, c) ==
    /\ Turn(r, c) /\ planchet[c] = "done"
    /\ UNCHANGED <<reserve, groups, outside, pc, snap, grp, work, troubles>>

(* The exchange signs each envelope once, and repeats its answer.          *)
Sign(c) == debited' = debited \cup {c}
CanSign(c) == c \in debited \/ Balance > 0

Withdraw(r, c) ==
    /\ Turn(r, c) /\ planchet[c] # "done" /\ CanSign(c)
    /\ Sign(c) /\ work' = [work EXCEPT ![r] = @ \cup {c}]
    /\ UNCHANGED <<reserve, groups, bank, credits, recoups, untold, gone, pc, snap, grp, troubles>>

(* An answer that is an error: it is noted and the next coin is tried.     *)
Refused(r, c) ==
    /\ Turn(r, c) /\ planchet[c] # "done" /\ ~CanSign(c)
    /\ UNCHANGED <<reserve, groups, outside, pc, snap, grp, work, troubles>>

(* The request arrives or not, and its answer does not.                    *)
Lost(r, c) ==
    /\ Turn(r, c) /\ planchet[c] # "done"
    /\ Trouble
    /\ IF CanSign(c) THEN Sign(c) \/ UNCHANGED debited ELSE UNCHANGED debited
    /\ UNCHANGED <<reserve, groups, bank, credits, recoups, untold, gone, pc, snap, grp, work>>

(* processPlanchetVerifyAndStoreCoin: the first run to get here stores the *)
(* coin and marks its planchet.                                            *)
StoreCoin(r, c) ==
    /\ c \in work[r]
    /\ work' = [work EXCEPT ![r] = @ \ {c}]
    /\ IF planchet[c] = "made"
       THEN planchet' = [planchet EXCEPT ![c] = "done"] /\ coins' = coins \cup {c}
       ELSE UNCHANGED <<planchet, coins>>
    /\ UNCHANGED <<reserve, size, finished, outside, pc, snap, grp, todo, troubles>>

(* Mutant of Count: the group is finished when its coins are signed. *)
CountSigned(r) ==
    /\ pc[r] = "withdraw" /\ todo[r] = {} /\ work[r] = {}
    /\ IF \A c \in CoinsOf(grp[r]) : c \in debited
       THEN /\ finished' = finished \cup {grp[r]}
            /\ Goto(r, IF r = "loop" THEN "idle" ELSE Enter(status))
       ELSE Goto(r, "idle") /\ UNCHANGED finished
    /\ grp' = [grp EXCEPT ![r] = None]
    /\ UNCHANGED <<reserve, size, planchet, coins, outside, snap, todo, work, troubles>>

(* The last transaction counts the planchets that are done; an incomplete  *)
(* group is an error, which ends the run up to its first caller.           *)
Count(r) ==
    /\ pc[r] = "withdraw" /\ todo[r] = {} /\ work[r] = {}
    /\ IF \A c \in CoinsOf(grp[r]) : planchet[c] = "done"
       THEN /\ finished' = finished \cup {grp[r]}
            /\ Goto(r, IF r = "loop" THEN "idle" ELSE Enter(status))
       ELSE Goto(r, "idle") /\ UNCHANGED finished
    /\ grp' = [grp EXCEPT ![r] = None]
    /\ UNCHANGED <<reserve, size, planchet, coins, outside, snap, todo, work, troubles>>

-----------------------------------------------------------------------------
(* A request fails and the run with it: the verifications it has started   *)
(* go on.                                                                  *)
Fail(r) ==
    /\ pc[r] \in {"poll", "pollwait", "register", "registered", "query", "look", "withdraw"}
    /\ Trouble
    /\ Goto(r, "idle")
    /\ work' = [work EXCEPT ![r] = {}, ![Orphans] = @ \cup work[r]]
    /\ todo' = [todo EXCEPT ![r] = {}] /\ grp' = [grp EXCEPT ![r] = None]
    /\ UNCHANGED <<reserve, groups, outside, snap>>

Crash ==
    /\ Trouble
    /\ pc' = [r \in Runs |-> "idle"]
    /\ todo' = [r \in Runs |-> {}] /\ work' = [r \in Runs \cup {Orphans} |-> {}]
    /\ snap' = [r \in Runs |-> 0] /\ grp' = [r \in Runs |-> None]
    /\ UNCHANGED <<reserve, groups, outside>>

ReserveStep(r) ==
    \/ PollAborted(r) \/ PollUnselected(r) \/ PollConfirmed(r)
    \/ PollWaiting(r) \/ Post(r) \/ PostRefused(r) \/ RegisterTx(r)
    \/ QueryAnswered(r) \/ QueryUnknown(r)
    \/ Allocate(r)

GroupStep(r) ==
    \/ Look(r) \/ PlanchetsMade(r) \/ Count(r)
    \/ \E c \in todo[r] : MakePlanchet(r, c) \/ Skip(r, c) \/ Withdraw(r, c) \/ Refused(r, c)

StoreStep == \E r \in Runs \cup {Orphans} : \E c \in work[r] : StoreCoin(r, c)

Next ==
    \/ UserConfirms \/ UserAborts \/ WireTransfer \/ Recoup \/ Leave
    \/ ForceQuery \/ RecoupTx \/ StartReserve \/ Crash
    \/ \E g \in Groups : StartGroup(g)
    \/ \E r \in Runs : ReserveStep(r) \/ GroupStep(r) \/ Fail(r) \/ \E c \in todo[r] : Lost(r, c)
    \/ StoreStep

Spec == Init /\ [][Next]_vars

(* What is called goes on, a transfer the user has confirmed arrives, and  *)
(* the retry loop comes back to each reserve and each group that is due.   *)
Fairness ==
    /\ WF_vars(WireTransfer) /\ WF_vars(RecoupTx) /\ WF_vars(StoreStep) /\ SF_vars(StartReserve)
    /\ \A g \in Groups : SF_vars(StartGroup(g))
    /\ \A r \in Runs : WF_vars(ReserveStep(r) \/ GroupStep(r))

FairSpec == Spec /\ Fairness
-----------------------------------------------------------------------------
(* Whichever runs compute what is left, and on however old an answer, the  *)
(* groups never promise more coins than were paid for (reserves.ts:445).   *)
NeverOverallocated == Allocated <= credits

(* A coin is in the wallet exactly when its planchet is marked done, and   *)
(* only the exchange's signature on that planchet makes one                *)
(* (withdraw.ts:719).                                                      *)
CoinsAreBacked ==
    /\ \A c \in Coin : c \in coins <=> planchet[c] = "done"
    /\ coins \subseteq debited
    /\ \A c \in debited : planchet[c] # "none"

(* A group that is finished has all its coins, also those another run      *)
(* asked for.                                                              *)
FinishedIsComplete == \A g \in finished : CoinsOf(g) \subseteq coins

(* A withdrawal the bank has aborted stays aborted, whatever answers of    *)
(* the bank are still under way, and nothing is withdrawn for it.          *)
AbortIsFinal ==
    [][status = "BANK_ABORTED" => status' = "BANK_ABORTED" /\ size' = size]_vars

(* The reserve rests although something is left in it: the credit of a     *)
(* recoup that was entered while a query was under way (db.ts:302).        *)
Stranded == status = "DORMANT" /\ untold = 0 /\ Allocated + gone < credits

(* What arrives in the reserve becomes coins, whatever crashes, fails or   *)
(* overlaps, if nobody else takes it and no credit is stranded.            *)
MoneyArrives == credits > 0 ~> (Cardinality(coins) = credits \/ gone > 0 \/ Stranded)

(* "Was a reserve query requested?  If so, query again instead of going    *)
(* into dormant status." (db.ts:302)  Not so: nothing reads the flag.      *)
(* No run checks it.                                                       *)
QueriedAgain == ~(requested /\ status = "DORMANT")
=============================================================================
