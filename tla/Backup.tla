-------------------------------- MODULE Backup --------------------------------
(***************************************************************************)
(* Wallets that share an account at one backup provider: the cycle of      *)
(* operations/backup/index.ts, with the export and the import of the       *)
(* database (export.ts, import.ts).  A cycle is a request of the user;     *)
(* nothing keeps two of them from overlapping on one device.               *)
(*                                                                         *)
(* A database holds the denominations of one exchange, its coins and       *)
(* reserves, tips, proposals, and purchases with the coins that paid them. *)
(* A withdrawal group is treated like a reserve, and a refresh group like  *)
(* a purchase.  The exchange has a record of its own on every device,      *)
(* which is complete only when its update has come to its end: without it  *)
(* a device exports neither its coins nor its reserves.                    *)
(***************************************************************************)
EXTENDS FiniteSets, Naturals

CONSTANTS
    Devices, Coins, Orders, Tips, Reserves,
    FirstRecords,     \* names of what the first device begins with
    OthersAt,         \* how far the others are with the record of the exchange
    Cycles,           \* cycles under way at a time, on whatever devices
    FirstDevice,      \* the device that has made the account
    NoBlob,           \* no backup, or no hash
    MaxNewRecords,    \* bound: records that are made beside the cycles
    MaxBackupTroubles \* bound: lost requests, deaths, recoveries that are
                      \* loaded, and payments the wallet has no coins for

(* Records.  A proposal has an ID and a nonce key; where an imported one   *)
(* is meant, its ID is the key.                                            *)
CoinRecord(c) == [kind |-> "coin", of |-> c]
ProposalRecord(o) == [kind |-> "proposal", of |-> o]
ProposalByKey(o) == [kind |-> "byKey", of |-> o]
PurchaseRecord(o, c) == [kind |-> "purchase", of |-> o, coin |-> c]

(* Tips and reserves say which denominations are to be withdrawn, unless   *)
(* the selection is empty.                                                 *)
SelectionKinds == {"made", "empty"}
TipRecord(t, s) == [kind |-> "tip", of |-> t, selection |-> s]
ReserveRecord(v, s) == [kind |-> "reserve", of |-> v, selection |-> s]

(* In a backup, the denominations with the exchange they belong to.        *)
Denominations == [kind |-> "denominations", of |-> "exchange"]

BackupRecords ==
    {CoinRecord(c) : c \in Coins} \cup {ProposalRecord(o) : o \in Orders}
    \cup {ProposalByKey(o) : o \in Orders} \cup {PurchaseRecord(o, c) : o \in Orders, c \in Coins}
    \cup {TipRecord(t, s) : t \in Tips, s \in SelectionKinds}
    \cup {ReserveRecord(v, s) : v \in Reserves, s \in SelectionKinds} \cup {Denominations}

(* A blob stands for its hash as well.  With the clock a device changes    *)
(* its nonce, so that equal contents of two devices, or at two clocks,     *)
(* have different hashes.                                                  *)
Blobs == [by : Devices, clock : Nat, content : SUBSET BackupRecords]

(* How far the record of the exchange can be.                              *)
ExchangeStages == {"none", "new", "keys", "wire", "complete"}

ASSUME BackupAssumption ==
    /\ OthersAt \in ExchangeStages
    /\ FirstDevice \in Devices /\ NoBlob \notin Blobs
    /\ MaxNewRecords \in Nat /\ MaxBackupTroubles \in Nat

VARIABLES
    database,     \* per device, the records it has
    exchangeAt,   \* per device, how far the record of the exchange is
    adding,       \* devices with an update that has found no such record
    joined,       \* devices with the root key of the account
    clock,        \* per device, its clock
    plain,        \* per device, what its last export contained, or NoBlob
    lastHash,     \* per device, the provider's lastBackupHash
    stored,       \* the blob the provider has
    paid,         \* the account is paid for
    cycle,        \* per cycle, the step it takes next
    runsOn,       \* per cycle, its device
    ifMatch,      \* per cycle, the lastBackupHash it has read
    blob,         \* per cycle, the blob it uploads, or the one it was given
    mayRetry,     \* per cycle, retryAfterPayment
    newRecords,   \* records made beside the cycles
    backupTroubles

backupCycles == <<cycle, runsOn, ifMatch, blob, mayRetry>>
exchangeRecords == <<exchangeAt, adding>>
onDevices == <<database, exchangeRecords>>
backupVars == <<database, exchangeAt, adding, joined, clock, plain, lastHash, stored, paid, cycle,
                runsOn, ifMatch, blob, mayRetry, newRecords, backupTroubles>>

BackupTypeOK ==
    /\ database \in [Devices -> SUBSET BackupRecords] /\ joined \subseteq Devices
    /\ exchangeAt \in [Devices -> ExchangeStages]
    /\ adding \subseteq Devices
    /\ clock \in [Devices -> Nat]
    /\ plain \in [Devices -> (SUBSET BackupRecords) \cup {NoBlob}]
    /\ lastHash \in [Devices -> Blobs \cup {NoBlob}]
    /\ stored \in Blobs \cup {NoBlob} /\ paid \in BOOLEAN
    /\ cycle \in [Cycles -> {"idle", "export", "upload", "answered", "pay", "conflict",
                             "imported"}]
    /\ runsOn \in [Cycles -> Devices]
    /\ ifMatch \in [Cycles -> Blobs \cup {NoBlob}] /\ blob \in [Cycles -> Blobs \cup {NoBlob}]
    /\ mayRetry \in [Cycles -> BOOLEAN] /\ newRecords \in 0..MaxNewRecords
    /\ backupTroubles \in 0..MaxBackupTroubles

PurchasesIn(S) == {r \in S : r.kind = "purchase"}
BoughtIn(S) == {r.of : r \in PurchasesIn(S)}

HasWireFees == {"wire", "complete"}

(* What a device with the records S, and the exchange at x, may add: a new *)
(* proposal; a coin, a reserve or a tip, which wait for the update of the  *)
(* exchange to be complete; a purchase of a proposal, with a coin of an    *)
(* exchange whose wire fees are known.                                     *)
Addable(S, x) ==
    {ProposalRecord(o) : o \in Orders}
    \cup {r \in {CoinRecord(c) : c \in Coins} \cup {TipRecord(t, "made") : t \in Tips}
                 \cup {ReserveRecord(v, "made") : v \in Reserves} : x = "complete"}
    \cup {PurchaseRecord(o, c) : o \in {p \in Orders : ProposalRecord(p) \in S} \ BoughtIn(S),
                                c \in {e \in Coins : CoinRecord(e) \in S /\ x \in HasWireFees}}

(* No cycle has been run, and the other devices have no records but those  *)
(* of the exchange.                                                        *)
Unsynchronised ==
    /\ database = [d \in Devices |->
                     IF d = FirstDevice
                     THEN {Denominations}
                          \cup {r \in Addable({}, "complete") : r.of \in FirstRecords}
                     ELSE {r \in {Denominations} : OthersAt \notin {"none", "new"}}]
    /\ exchangeAt = [d \in Devices |-> IF d = FirstDevice THEN "complete" ELSE OthersAt]
    /\ adding = {}
    /\ clock = [d \in Devices |-> 1] /\ plain = [d \in Devices |-> NoBlob]
    /\ lastHash = [d \in Devices |-> NoBlob] /\ stored = NoBlob /\ paid = FALSE
    /\ cycle = [y \in Cycles |-> "idle"] /\ runsOn = [y \in Cycles |-> FirstDevice]
    /\ ifMatch = [y \in Cycles |-> NoBlob] /\ blob = [y \in Cycles |-> NoBlob]
    /\ mayRetry = [y \in Cycles |-> FALSE] /\ newRecords = 0 /\ backupTroubles = 0

BackupInit == joined = {FirstDevice} /\ Unsynchronised

-----------------------------------------------------------------------------
(* The rest of the wallet makes a record that no device has.               *)
NewRecord(d, r) ==
    /\ d \in joined /\ r \in Addable(database[d], exchangeAt[d])
    /\ \A e \in Devices : \A q \in database[e] :
          q.of = r.of => r.kind = "purchase" /\ q.kind # "purchase"
    /\ newRecords < MaxNewRecords /\ newRecords' = newRecords + 1
    /\ database' = [database EXCEPT ![d] = @ \cup {r}]
    /\ UNCHANGED <<exchangeRecords, joined, clock, plain, lastHash, stored, paid, backupCycles,
                   backupTroubles>>

(* updateExchangeFromUrl looks for the record of the exchange ...          *)
FindNoExchange(d) ==
    /\ exchangeAt[d] = "none" /\ adding' = adding \cup {d}
    /\ UNCHANGED <<database, exchangeAt, joined, clock, plain, lastHash, stored, paid, backupCycles,
                   newRecords, backupTroubles>>

(* ... and puts a new one, over the one an import has put meanwhile ...    *)
PutExchange(d) ==
    /\ d \in adding /\ adding' = adding \ {d}
    /\ exchangeAt' = [exchangeAt EXCEPT ![d] = "new"]
    /\ UNCHANGED <<database, joined, clock, plain, lastHash, stored, paid, backupCycles, newRecords,
                   backupTroubles>>

(* ... which gets its keys and denominations, its wire fees, its terms.    *)
NextStage == [new |-> "keys", keys |-> "wire", wire |-> "complete"]

UpdateExchange(d) ==
    /\ exchangeAt[d] \in DOMAIN NextStage
    /\ exchangeAt' = [exchangeAt EXCEPT ![d] = NextStage[@]]
    /\ database' = [database EXCEPT ![d] = @ \cup {Denominations}]
    /\ UNCHANGED <<adding, joined, clock, plain, lastHash, stored, paid, backupCycles, newRecords,
                   backupTroubles>>

-----------------------------------------------------------------------------
(* exportBackup: a proposal with a purchase is left out, and one without   *)
(* is given its nonce key for an ID.  An exchange that is not complete is  *)
(* left out, with all that is exported as a part of it.                    *)
PartsOfExchange == {"denominations", "coin", "reserve"}

Exported(S, x) ==
    {r \in S : r.kind # "proposal" /\ (r.kind \in PartsOfExchange => x = "complete")}
    \cup {ProposalByKey(o) : o \in {p \in Orders : ProposalRecord(p) \in S} \ BoughtIn(S)}

(* The tips and reserves of a backup that a device with S does not have.   *)
Unknown(S, new) ==
    {r \in new : r.kind \in {"tip", "reserve"} /\ \A q \in S : q.kind # r.kind \/ q.of # r.of}

(* importBackup puts what is not there, in one transaction.  All of it     *)
(* fails if a purchase finds no coin or no wire fees, or if the selection  *)
(* of a tip or reserve is empty or its denominations are not there.        *)
Importable(S, x, new) ==
    /\ \A r \in PurchasesIn(new) \ S : CoinRecord(r.coin) \in S \cup new /\ x \notin {"new", "keys"}
    /\ \A r \in Unknown(S, new) : r.selection = "made" /\ Denominations \in S \cup new

(* It computes the value of a selection and puts an empty one.             *)
Merged(S, new) ==
    S \cup {r \in new : r.kind \notin {"tip", "reserve"}}
      \cup {[kind |-> r.kind, of |-> r.of, selection |-> "empty"] : r \in Unknown(S, new)}

Proceed(y, s) == cycle' = [cycle EXCEPT ![y] = s]

(* The step s is the next one, with blob b; or the cycle is over.          *)
Continue(y, s, b) ==
    Proceed(y, s) /\ blob' = [blob EXCEPT ![y] = b] /\ UNCHANGED <<runsOn, ifMatch, mayRetry>>

EndCycle(y) ==
    /\ Proceed(y, "idle") /\ runsOn' = [runsOn EXCEPT ![y] = FirstDevice]
    /\ blob' = [blob EXCEPT ![y] = NoBlob]
    /\ ifMatch' = [ifMatch EXCEPT ![y] = NoBlob] /\ mayRetry' = [mayRetry EXCEPT ![y] = FALSE]

(* runBackupCycle reads the providers ...                                  *)
StartCycle(y, d) ==
    /\ cycle[y] = "idle" /\ d \in joined
    /\ Proceed(y, "export") /\ runsOn' = [runsOn EXCEPT ![y] = d]
    /\ ifMatch' = [ifMatch EXCEPT ![y] = lastHash[d]] /\ mayRetry' = [mayRetry EXCEPT ![y] = TRUE]
    /\ UNCHANGED <<onDevices, joined, clock, plain, lastHash, stored, paid, blob, newRecords,
                   backupTroubles>>

(* ... then exports the database and encrypts it.  A content that differs  *)
(* from that of the last export advances the clock.                        *)
Export(y) ==
    LET d == runsOn[y]
        new == Exported(database[d], exchangeAt[d])
        tick == IF plain[d] = new THEN clock[d] ELSE clock[d] + 1
    IN
    /\ cycle[y] = "export"
    /\ plain' = [plain EXCEPT ![d] = new] /\ clock' = [clock EXCEPT ![d] = tick]
    /\ Continue(y, "upload", [by |-> d, clock |-> tick, content |-> new])
    /\ UNCHANGED <<onDevices, joined, lastHash, stored, paid, newRecords, backupTroubles>>

(* The provider compares hashes: it has this blob; it wants to be paid; it *)
(* has another blob than the wallet thinks, which it sends; or it stores   *)
(* the new one.  The first answer (304) is an error to the wallet.         *)
Answer(y, known) ==
    /\ cycle[y] = "upload"
    /\ \/ stored = blob[y] /\ EndCycle(y) /\ UNCHANGED stored
       \/ stored # blob[y] /\ ~paid /\ Continue(y, "pay", blob[y]) /\ UNCHANGED stored
       \/ /\ stored \notin {blob[y], known} /\ paid
          /\ Continue(y, "conflict", stored) /\ UNCHANGED stored
       \/ /\ stored # blob[y] /\ stored = known /\ paid
          /\ Continue(y, "answered", blob[y]) /\ stored' = blob[y]
    /\ UNCHANGED <<onDevices, joined, clock, plain, lastHash, paid, newRecords, backupTroubles>>

(* Mutant of Upload: the hash the provider should have is read only now. *)
UploadReadsLate(y) == Answer(y, lastHash[runsOn[y]])

(* The upload names the hash that was read at the beginning.               *)
Upload(y) == Answer(y, ifMatch[y])

BackupTrouble == backupTroubles < MaxBackupTroubles /\ backupTroubles' = backupTroubles + 1

(* 402: the wallet pays, unless it cannot, and tries again once.           *)
PayProvider(y) ==
    /\ cycle[y] = "pay"
    /\ \/ paid' = TRUE /\ UNCHANGED backupTroubles
       \/ BackupTrouble /\ UNCHANGED paid
    /\ IF mayRetry[y]
       THEN /\ Proceed(y, "upload") /\ mayRetry' = [mayRetry EXCEPT ![y] = FALSE]
            /\ UNCHANGED <<runsOn, blob, ifMatch>>
       ELSE EndCycle(y)
    /\ UNCHANGED <<onDevices, joined, clock, plain, lastHash, stored, newRecords>>

(* 204: the hash of the upload is noted.                                   *)
StoreHash(y) ==
    /\ cycle[y] = "answered" /\ EndCycle(y)
    /\ lastHash' = [lastHash EXCEPT ![runsOn[y]] = blob[y]]
    /\ UNCHANGED <<onDevices, joined, clock, plain, stored, paid, newRecords, backupTroubles>>

(* The records of a backup and, if there was none, the exchange's own, are *)
(* put; or nothing is.                                                     *)
ImportInto(d, new) ==
    /\ database' = [database EXCEPT ![d] = Merged(@, new)]
    /\ exchangeAt' = [exchangeAt EXCEPT ![d] =
                        IF @ = "none" /\ Denominations \in new THEN "complete" ELSE @]

(* Mutant of Import: an import without news is not noted. *)
ImportNews(y) ==
    LET d == runsOn[y] IN
    /\ cycle[y] = "conflict"
    /\ IF /\ Importable(database[d], exchangeAt[d], blob[y].content)
          /\ ~(blob[y].content \subseteq database[d])
       THEN ImportInto(d, blob[y].content) /\ Continue(y, "imported", blob[y])
       ELSE EndCycle(y) /\ UNCHANGED <<database, exchangeAt>>
    /\ UNCHANGED <<adding, joined, clock, plain, lastHash, stored, paid, newRecords,
                   backupTroubles>>

(* 409: the other backup is imported, in one transaction ...               *)
Import(y) ==
    LET d == runsOn[y] IN
    /\ cycle[y] = "conflict"
    /\ IF Importable(database[d], exchangeAt[d], blob[y].content)
       THEN ImportInto(d, blob[y].content) /\ Continue(y, "imported", blob[y])
       ELSE EndCycle(y) /\ UNCHANGED <<database, exchangeAt>>
    /\ UNCHANGED <<adding, joined, clock, plain, lastHash, stored, paid, newRecords,
                   backupTroubles>>

(* ... and its hash noted.  The cycle ends without another upload.         *)
NoteImport(y) ==
    /\ cycle[y] = "imported" /\ EndCycle(y)
    /\ lastHash' = [lastHash EXCEPT ![runsOn[y]] = blob[y]]
    /\ UNCHANGED <<onDevices, joined, clock, plain, stored, paid, newRecords, backupTroubles>>

(* backupRecoveryTheirs: the device takes the root key, and forgets what   *)
(* it knew of the providers and of its last export.                        *)
LoadRecovery(d) ==
    /\ IF d \in joined THEN BackupTrouble ELSE UNCHANGED backupTroubles
    /\ joined' = joined \cup {d}
    /\ plain' = [plain EXCEPT ![d] = NoBlob] /\ lastHash' = [lastHash EXCEPT ![d] = NoBlob]
    /\ UNCHANGED <<onDevices, clock, stored, paid, backupCycles, newRecords>>

(* The answer is lost or something throws: the cycle is over.              *)
FailCycle(y) ==
    /\ cycle[y] # "idle" /\ BackupTrouble /\ EndCycle(y)
    /\ UNCHANGED <<onDevices, joined, clock, plain, lastHash, stored, paid, newRecords>>

CycleStep(y) ==
    \/ Export(y) \/ Upload(y) \/ PayProvider(y) \/ StoreHash(y) \/ Import(y)
    \/ NoteImport(y)

ExchangeStep(d) == FindNoExchange(d) \/ PutExchange(d) \/ UpdateExchange(d)

BackupNext ==
    \/ \E y \in Cycles : CycleStep(y) \/ FailCycle(y) \/ \E d \in Devices : StartCycle(y, d)
    \/ \E d \in Devices :
          ExchangeStep(d) \/ LoadRecovery(d) \/ \E r \in BackupRecords : NewRecord(d, r)

BackupSpec == BackupInit /\ [][BackupNext]_backupVars

BackupFairness ==
    /\ \A d \in Devices : SF_backupVars(\E y \in Cycles : StartCycle(y, d))
    /\ \A y \in Cycles : WF_backupVars(CycleStep(y))
    /\ \A d \in Devices : WF_backupVars(PutExchange(d)) /\ WF_backupVars(UpdateExchange(d))

-----------------------------------------------------------------------------
(* What the blob b covers of another, c: orders, purchases and tips        *)
(* whatever it contains, coins and reserves if it contains their exchange. *)
NamesIn(K, S) == {r.of : r \in {q \in S : q.kind \in K}}

AlwaysExported == {{"proposal", "byKey", "purchase"}, {"purchase"}, {"tip"}}

Covers(new, old) ==
    /\ \A K \in AlwaysExported : NamesIn(K, old) \subseteq NamesIn(K, new)
    /\ Denominations \in new =>
          \A K \in {{"coin"}, {"reserve"}} : NamesIn(K, old) \subseteq NamesIn(K, new)

(* An upload never makes the provider forget, whichever cycles overlap and *)
(* whatever answers are lost (index.ts:341): the new blob covers the one   *)
(* it replaces.  The exception is the exchange as a whole: a device that   *)
(* has imported its coins, but not finished adding it, leaves it out.      *)
BackupKeepsAll == [][stored # NoBlob => Covers(stored'.content, stored.content)]_backupVars

(* While the user goes on with cycles on both of two devices, and updates  *)
(* of the exchange come to their end, what one device has reaches the      *)
(* provider and the other, although a cycle that meets a conflict ends     *)
(* without an upload (index.ts:381), some leave the exchange out, and some *)
(* cannot import a purchase.  A third device may starve between two that   *)
(* replace each other's backups.                                           *)
BackupConverges ==
    \A c \in Coins : (\E d \in joined : CoinRecord(c) \in database[d])
        ~> /\ stored # NoBlob /\ CoinRecord(c) \in stored.content
           /\ \A d \in joined : CoinRecord(c) \in database[d]

(* "Unique ID when the order is stored in the wallet DB"                   *)
(* (backupTypes.ts:1257).  Not so: export.ts:358 writes the nonce key, and *)
(* the device that has the order imports it again.  No run checks it.      *)
OneRecordPerOrder ==
    \A d \in Devices, o \in Orders : ~({ProposalRecord(o), ProposalByKey(o)} \subseteq database[d])
===============================================================================
