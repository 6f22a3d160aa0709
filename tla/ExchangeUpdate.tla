--------------------------- MODULE ExchangeUpdate ---------------------------
(***************************************************************************)
(* The record of one exchange and one denomination of it: the update from  *)
(* /keys, /wire and /terms (operations/exchanges.ts), which every          *)
(* operation may start and nothing serialises, beside the verification of  *)
(* denominations (updateWithdrawalDenoms) and a withdrawal that is under   *)
(* way when the denomination is revoked.                                   *)
(***************************************************************************)
EXTENDS Naturals, FiniteSets

CONSTANTS
    Updates,            \* calls of updateExchangeFromUrl
    DenomCoins,         \* coins of the denomination
    MaxExpiries,        \* bound: how often the keys run out
    MaxExchangeTroubles \* bound: requests that fail and deaths of the wallet

ASSUME ExchangeAssumption == MaxExpiries \in Nat /\ MaxExchangeTroubles \in Nat

VARIABLES
    updateStatus,   \* "none" while there is no record
    have,           \* which of "details", "wire" and "terms" the record has
    added,          \* addComplete
    uptodate,       \* details.nextUpdateTime is still to come
    verified,       \* the denomination: "none", "Unverified" or "VerifiedGood"
    isRevoked,      \* its isRevoked
    held,           \* coins of it in the database
    worth,          \* those among them that are not empty
    recoupGroups,   \* how many recoup groups took the value of a coin
    unstored,       \* coins the exchange has signed and the wallet not stored
    revoked,        \* the exchange has revoked the denomination
    update,         \* per update, the step it takes next
    answer,         \* per update, is the denomination revoked in its /keys?
    verifier,       \* updateWithdrawalDenoms: "idle", or "valid" when it is
                    \* about to write back a record
    expiries, exchangeTroubles

exchangeRecord == <<updateStatus, have, added, uptodate>>
denomination == <<verified, isRevoked>>
denomCoins == <<held, worth, recoupGroups, unstored>>
exchangeVars == <<updateStatus, have, added, uptodate, verified, isRevoked, held, worth,
                  recoupGroups, unstored, revoked, update, answer, verifier, expiries,
                  exchangeTroubles>>

ExchangeTypeOK ==
    /\ updateStatus \in {"none", "FetchKeys", "FetchWire", "FetchTerms", "FinalizeUpdate",
                         "Finished"}
    /\ have \subseteq {"details", "wire", "terms"} /\ added \in BOOLEAN /\ uptodate \in BOOLEAN
    /\ verified \in {"none", "Unverified", "VerifiedGood"} /\ isRevoked \in BOOLEAN
    /\ held \subseteq DenomCoins /\ worth \subseteq held /\ unstored \subseteq DenomCoins
    /\ recoupGroups \in [DenomCoins -> Nat] /\ revoked \in BOOLEAN
    /\ update \in [Updates -> {"idle", "create", "keys", "enterkeys", "wire", "enterwire",
                               "terms", "enterterms", "finalize"}]
    /\ answer \in [Updates -> BOOLEAN] /\ verifier \in {"idle", "valid"}
    /\ expiries \in 0..MaxExpiries /\ exchangeTroubles \in 0..MaxExchangeTroubles

ExchangeInit ==
    /\ updateStatus = "none" /\ have = {} /\ added = FALSE /\ uptodate = FALSE
    /\ verified = "none" /\ isRevoked = FALSE
    /\ held = {} /\ worth = {} /\ recoupGroups = [c \in DenomCoins |-> 0] /\ unstored = {}
    /\ revoked = FALSE
    /\ update = [u \in Updates |-> "idle"] /\ answer = [u \in Updates |-> FALSE]
    /\ verifier = "idle" /\ expiries = 0 /\ exchangeTroubles = 0

Goes(u, l) == update' = [update EXCEPT ![u] = l]

-----------------------------------------------------------------------------
(* The exchange, the time, and the withdrawals and payments of the wallet. *)
Revoke ==
    /\ verified # "none" /\ ~revoked /\ revoked' = TRUE
    /\ UNCHANGED <<exchangeRecord, denomination, denomCoins, update, answer, verifier, expiries,
                   exchangeTroubles>>

Expire ==
    /\ uptodate /\ expiries < MaxExpiries /\ expiries' = expiries + 1 /\ uptodate' = FALSE
    /\ UNCHANGED <<updateStatus, have, added, denomination, denomCoins, revoked, update, answer,
                   verifier, exchangeTroubles>>

(* A withdrawal takes any denomination that is not known to be bad, and    *)
(* the exchange signs what it has not revoked.                             *)
SignCoin(c) ==
    /\ verified # "none" /\ ~isRevoked /\ ~revoked /\ c \notin held
    /\ unstored' = unstored \cup {c}
    /\ UNCHANGED <<exchangeRecord, denomination, held, worth, recoupGroups, revoked, update, answer,
                   verifier, expiries, exchangeTroubles>>

(* The transaction of processPlanchetVerifyAndStoreCoin.                   *)
StoreSigned(c) ==
    /\ c \in unstored /\ unstored' = unstored \ {c}
    /\ held' = held \cup {c} /\ worth' = worth \cup {c}
    /\ UNCHANGED <<exchangeRecord, denomination, recoupGroups, revoked, update, answer, verifier,
                   expiries, exchangeTroubles>>

-----------------------------------------------------------------------------
(* updateExchangeFromUrlImpl: without a record one is going to be put; the *)
(* record of an older update that has not run out is left as it is, also   *)
(* in the middle of its steps.                                             *)
StartUpdate(u) ==
    /\ update[u] = "idle"
    /\ IF updateStatus = "none"
       THEN Goes(u, "create") /\ UNCHANGED exchangeRecord
       ELSE /\ \/ updateStatus # "FetchKeys" /\ uptodate /\ UNCHANGED exchangeRecord
               \/ updateStatus' = "FetchKeys" /\ UNCHANGED <<have, added, uptodate>>
            /\ Goes(u, "keys")
    /\ UNCHANGED <<denomination, denomCoins, revoked, answer, verifier, expiries, exchangeTroubles>>

(* The put of the new record overwrites one that has been made meanwhile.  *)
CreateRecord(u) ==
    /\ update[u] = "create"
    /\ updateStatus' = "FetchKeys" /\ have' = {} /\ added' = FALSE /\ uptodate' = FALSE
    /\ Goes(u, "keys")
    /\ UNCHANGED <<denomination, denomCoins, revoked, answer, verifier, expiries, exchangeTroubles>>

(* Each of the four functions returns at once in another status.           *)
SkipStep(u) ==
    /\ \/ update[u] = "keys" /\ updateStatus # "FetchKeys" /\ Goes(u, "wire")
       \/ update[u] = "wire" /\ updateStatus # "FetchWire" /\ Goes(u, "terms")
       \/ update[u] = "terms" /\ updateStatus # "FetchTerms" /\ Goes(u, "finalize")
    /\ UNCHANGED <<exchangeRecord, denomination, denomCoins, revoked, answer, verifier, expiries,
                   exchangeTroubles>>

(* The request of a step is answered.                                      *)
GetKeys(u) ==
    /\ update[u] = "keys" /\ updateStatus = "FetchKeys"
    /\ answer' = [answer EXCEPT ![u] = revoked] /\ Goes(u, "enterkeys")
    /\ UNCHANGED <<exchangeRecord, denomination, denomCoins, revoked, verifier, expiries,
                   exchangeTroubles>>

GetOther(u) ==
    /\ \/ update[u] = "wire" /\ updateStatus = "FetchWire" /\ Goes(u, "enterwire")
       \/ update[u] = "terms" /\ updateStatus = "FetchTerms" /\ Goes(u, "enterterms")
    /\ UNCHANGED <<exchangeRecord, denomination, denomCoins, revoked, answer, verifier, expiries,
                   exchangeTroubles>>

(* createRecoupGroup takes the value of the coins that have one.           *)
RecoupWorth ==
    /\ worth' = {}
    /\ recoupGroups' = [c \in DenomCoins |-> recoupGroups[c] + IF c \in worth THEN 1 ELSE 0]

(* Mutant of EnterKeys: the recoup group is made from what is held, not    *)
(* from what is worth something.                                           *)
RecoupHeld(u) ==
    /\ update[u] = "enterkeys"
    /\ updateStatus' = "FetchWire" /\ have' = have \cup {"details"} /\ uptodate' = TRUE
    /\ verified' = IF verified = "none" THEN "Unverified" ELSE verified
    /\ IF answer[u] /\ ~isRevoked
       THEN /\ isRevoked' = TRUE /\ worth' = {}
            /\ recoupGroups' = [c \in DenomCoins |-> recoupGroups[c] + IF c \in held THEN 1 ELSE 0]
       ELSE UNCHANGED <<isRevoked, worth, recoupGroups>>
    /\ Goes(u, "wire")
    /\ UNCHANGED <<added, held, unstored, revoked, answer, verifier, expiries, exchangeTroubles>>

(* The transaction of updateExchangeWithKeys does not look at the status:  *)
(* details, a new denomination, and the recoup of one that is found        *)
(* revoked.                                                                *)
EnterKeys(u) ==
    /\ update[u] = "enterkeys"
    /\ updateStatus' = "FetchWire" /\ have' = have \cup {"details"} /\ uptodate' = TRUE
    /\ verified' = IF verified = "none" THEN "Unverified" ELSE verified
    /\ IF answer[u] /\ ~isRevoked
       THEN isRevoked' = TRUE /\ RecoupWorth
       ELSE UNCHANGED <<isRevoked, worth, recoupGroups>>
    /\ Goes(u, "wire")
    /\ UNCHANGED <<added, held, unstored, revoked, answer, verifier, expiries, exchangeTroubles>>

(* The transactions of the wire and the terms step do.                     *)
EnterWire(u) ==
    /\ update[u] = "enterwire" /\ Goes(u, "terms")
    /\ IF updateStatus = "FetchWire"
       THEN updateStatus' = "FetchTerms" /\ have' = have \cup {"wire"}
       ELSE UNCHANGED <<updateStatus, have>>
    /\ UNCHANGED <<added, uptodate, denomination, denomCoins, revoked, answer, verifier, expiries,
                   exchangeTroubles>>

(* Mutant of EnterTerms: the status is not looked at again. *)
EnterAnyTerms(u) ==
    /\ update[u] = "enterterms" /\ Goes(u, "finalize")
    /\ updateStatus' = "FinalizeUpdate" /\ have' = have \cup {"terms"}
    /\ UNCHANGED <<added, uptodate, denomination, denomCoins, revoked, answer, verifier, expiries,
                   exchangeTroubles>>

EnterTerms(u) ==
    /\ update[u] = "enterterms" /\ Goes(u, "finalize")
    /\ IF updateStatus = "FetchTerms"
       THEN updateStatus' = "FinalizeUpdate" /\ have' = have \cup {"terms"}
       ELSE UNCHANGED <<updateStatus, have>>
    /\ UNCHANGED <<added, uptodate, denomination, denomCoins, revoked, answer, verifier, expiries,
                   exchangeTroubles>>

Finalize(u) ==
    /\ update[u] = "finalize" /\ Goes(u, "idle")
    /\ IF updateStatus = "FinalizeUpdate"
       THEN updateStatus' = "Finished" /\ added' = TRUE
       ELSE UNCHANGED <<updateStatus, added>>
    /\ answer' = [answer EXCEPT ![u] = FALSE]
    /\ UNCHANGED <<have, uptodate, denomination, denomCoins, revoked, verifier, expiries,
                   exchangeTroubles>>

-----------------------------------------------------------------------------
(* updateWithdrawalDenoms reads the denomination, checks its signature,    *)
(* and puts back the whole record it has read.                             *)
StartVerify ==
    /\ verifier = "idle" /\ verified = "Unverified" /\ ~isRevoked /\ "details" \in have
    /\ verifier' = "valid"
    /\ UNCHANGED <<exchangeRecord, denomination, denomCoins, revoked, update, answer, expiries,
                   exchangeTroubles>>

PutVerified ==
    /\ verifier = "valid" /\ verifier' = "idle"
    /\ verified' = "VerifiedGood" /\ isRevoked' = FALSE
    /\ UNCHANGED <<exchangeRecord, denomCoins, revoked, update, answer, expiries, exchangeTroubles>>

-----------------------------------------------------------------------------
ExchangeTrouble ==
    exchangeTroubles < MaxExchangeTroubles /\ exchangeTroubles' = exchangeTroubles + 1

(* A request fails.  handleExchangeUpdateError changes the record it has   *)
(* read and does not put it back, so nothing of it remains.                *)
FailUpdate(u) ==
    /\ update[u] \in {"keys", "wire", "terms"} /\ ExchangeTrouble
    /\ Goes(u, "idle")
    /\ UNCHANGED <<exchangeRecord, denomination, denomCoins, revoked, answer, verifier, expiries>>

CrashUpdate ==
    /\ ExchangeTrouble
    /\ update' = [u \in Updates |-> "idle"] /\ answer' = [u \in Updates |-> FALSE]
    /\ verifier' = "idle" /\ unstored' = {}
    /\ UNCHANGED <<exchangeRecord, denomination, held, worth, recoupGroups, revoked, expiries>>

UpdateStep(u) ==
    \/ CreateRecord(u) \/ SkipStep(u) \/ GetKeys(u) \/ GetOther(u) \/ EnterKeys(u)
    \/ EnterWire(u) \/ EnterTerms(u) \/ Finalize(u)

ExchangeNext ==
    \/ Revoke \/ Expire \/ StartVerify \/ PutVerified \/ CrashUpdate
    \/ \E c \in DenomCoins : SignCoin(c) \/ StoreSigned(c)
    \/ \E u \in Updates : StartUpdate(u) \/ UpdateStep(u) \/ FailUpdate(u)

ExchangeSpec == ExchangeInit /\ [][ExchangeNext]_exchangeVars
-----------------------------------------------------------------------------
(* An exchange that counts as finished has its keys, its wire accounts and *)
(* its terms, however many updates have been at it and whichever of them   *)
(* began from nothing (pending.ts:67 and :78 report anything else as a     *)
(* bug).                                                                   *)
FinishedHasAll == updateStatus = "Finished" => have = {"details", "wire", "terms"} /\ added

(* The value of a coin goes into one recoup group, also when a             *)
(* verification takes the revocation back and the next update revokes the  *)
(* denomination again (withdraw.ts:620).                                   *)
RecoupedOnce ==
    \A c \in DenomCoins : recoupGroups[c] <= 1 /\ (recoupGroups[c] = 1 => c \in held \ worth)

(* "We already marked the denomination as revoked, this implies we revoked *)
(* all coins" (exchanges.ts:250).  Not so: a coin whose signature was      *)
(* under way is stored afterwards.  No run checks it.                      *)
RevokedIsRecouped == isRevoked => worth = {}
=============================================================================
