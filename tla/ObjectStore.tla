---------------------------- MODULE ObjectStore ----------------------------
(***************************************************************************)
(* One object store of the in-memory backend with one of its indexes, and  *)
(* one transaction that walks over them with several cursors at a time     *)
(* and writes in between (idb-bridge/MemoryBackend.ts, the cursors of      *)
(* bridge-idb.ts, and the result streams of util/query.ts).                *)
(*                                                                         *)
(* Cursors go forward, as all of the wallet's do.  A record never changes  *)
(* its index key (no record of the wallet does); what else is in a record  *)
(* does not matter, so that putting one that is there changes nothing.     *)
(* That a transaction commits or rolls back as a whole is the subject of   *)
(* IdbTransactions.                                                        *)
(***************************************************************************)
EXTENDS Naturals, Sequences, FiniteSets

CONSTANTS
    RecordKeys,              \* primary keys
    IndexKeyOf,              \* the index key of each record
    Walkers, IndexWalkers,   \* result streams, and those over the index
    From, To,                \* the range of each of them, bounds included
    NoKey,
    MaxWrites                \* bound: requests beside those of the cursors

ASSUME StoreAssumption ==
    /\ RecordKeys \subseteq Nat /\ NoKey \notin Nat /\ IsFiniteSet(Walkers)
    /\ IndexKeyOf \in [RecordKeys -> Nat]
    /\ From \in [Walkers -> Nat] /\ To \in [Walkers -> Nat]
    /\ MaxWrites \in Nat

VARIABLES
    records,    \* keys of modifiedData
    entries,    \* of the index: the primaryKeys of each index key
    requests,   \* the transaction's queue
    position,   \* per cursor, _objectStorePosition
    walk,       \* per stream, what it waits for
    visits,     \* how often each stream has delivered each record
    steady,     \* records that were there all the time
    storeTx, writes

walks == <<position, walk, visits>>
storeVars == <<records, entries, requests, position, walk, visits, steady, storeTx, writes>>

IndexKeys == {IndexKeyOf[k] : k \in RecordKeys}
Ops == {"put", "update", "delete"}
StoreRequest == [op : {"iterate"}, by : Walkers] \cup [op : Ops, by : Walkers, key : RecordKeys]

StoreTypeOK ==
    /\ records \subseteq RecordKeys /\ steady \subseteq RecordKeys
    /\ entries \in [IndexKeys -> SUBSET RecordKeys]
    /\ requests \in Seq(StoreRequest)
    /\ position \in [Walkers -> RecordKeys \cup {NoKey}]
    /\ walk \in [Walkers -> {"waiting", "ready", "writing", "end"}]
    /\ visits \in [Walkers -> [RecordKeys -> Nat]]
    /\ storeTx \in {"active", "committed", "aborted"}
    /\ writes \in 0..MaxWrites

Entries(S) == [i \in IndexKeys |-> {k \in S : IndexKeyOf[k] = i}]

Unwalked ==
    /\ steady = records /\ entries = Entries(records) /\ writes = 0
    /\ position = [w \in Walkers |-> NoKey]
    /\ walk = [w \in Walkers |-> "waiting"]
    /\ visits = [w \in Walkers |-> [k \in RecordKeys |-> 0]]

(* All streams are opened at once (transactions.ts does not await them).   *)
StoreInit ==
    /\ records \in SUBSET RecordKeys /\ storeTx = "active" /\ Unwalked
    /\ \E order \in [1..Cardinality(Walkers) -> Walkers] :
         /\ \A w \in Walkers : \E i \in DOMAIN order : order[i] = w
         /\ requests = [i \in DOMAIN order |-> [op |-> "iterate", by |-> order[i]]]
-----------------------------------------------------------------------------
(* nextHigherKey of the tree.                                              *)
NextHigher(S, x) ==
    IF \E y \in S : y > x THEN CHOOSE y \in S : y > x /\ \A z \in S : z > x => y <= z ELSE NoKey

(* getRecords without an index: the first record at the lower bound, later *)
(* ones behind the position, whether or not the record there still exists. *)
StoreNext(w) ==
    LET start == IF position[w] = NoKey THEN From[w] ELSE position[w]
        key   == IF position[w] = NoKey /\ start \in records THEN start
                 ELSE NextHigher(records, start)
    IN IF key = NoKey \/ key > To[w] THEN NoKey ELSE key

(* getRecords with an index: the rest of the entry the cursor is at, if    *)
(* that is still there, and else the first record of the next entry.       *)
IndexNext(w) ==
    LET used  == {i \in IndexKeys : entries[i] # {}}
        start == IF position[w] = NoKey THEN From[w] ELSE IndexKeyOf[position[w]]
        here  == IF start \in used THEN start ELSE NextHigher(used, start)
        after == IF position[w] # NoKey /\ here = IndexKeyOf[position[w]]
                 THEN position[w] ELSE NoKey
        rest  == {k \in entries[here] : after = NoKey \/ k > after}
        there == IF here = NoKey \/ rest # {} THEN here ELSE NextHigher(used, here)
        keys  == IF there = here THEN rest ELSE entries[there]
    IN IF there = NoKey \/ there > To[w] THEN NoKey
       ELSE CHOOSE k \in keys : \A other \in keys : k <= other

NextRecord(w) == IF w \in IndexWalkers THEN IndexNext(w) ELSE StoreNext(w)
-----------------------------------------------------------------------------
(* ResultStream.next: cursor.continue, and awaiting its result.            *)
ContinueWalk(w) ==
    /\ storeTx = "active" /\ walk[w] = "ready"
    /\ walk' = [walk EXCEPT ![w] = "waiting"]
    /\ requests' = Append(requests, [op |-> "iterate", by |-> w])
    /\ UNCHANGED <<records, entries, position, visits, steady, storeTx, writes>>

(* The function that is called with each record writes and awaits that.    *)
WriteBeside(w, op, k) ==
    /\ storeTx = "active" /\ walk[w] = "ready" /\ writes < MaxWrites
    /\ op = "update" => k = position[w]
    /\ walk' = [walk EXCEPT ![w] = "writing"]
    /\ requests' = Append(requests, [op |-> op, by |-> w, key |-> k])
    /\ writes' = writes + 1
    /\ UNCHANGED <<records, entries, position, visits, steady, storeTx>>

(* A request that fails: the index leads to no record, an update finds no  *)
(* record, "expected index entry missing".                                 *)
Fails(r) ==
    \/ r.op = "iterate" /\ NextRecord(r.by) \notin records \cup {NoKey}
    \/ r.op = "update" /\ r.key \notin records
    \/ r.op = "delete" /\ r.key \in records /\ entries[IndexKeyOf[r.key]] = {}

(* The engine takes a request when the continuations of the previous one   *)
(* have run, which are microtasks.                                         *)
ContinuationsRun == storeTx = "active" /\ \A w \in Walkers : walk[w] # "ready"

TakeRequest(ops) ==
    /\ ContinuationsRun /\ requests # <<>>
    /\ Head(requests).op \in ops /\ ~Fails(Head(requests))
    /\ requests' = Tail(requests)

(* _iterate: the cursor moves to the next record, or the walk is over.     *)
Iterate ==
    /\ TakeRequest({"iterate"})
    /\ LET w == Head(requests).by
           k == NextRecord(w)
       IN IF k = NoKey THEN walk' = [walk EXCEPT ![w] = "end"] /\ UNCHANGED <<position, visits>>
          ELSE /\ walk' = [walk EXCEPT ![w] = "ready"]
               /\ position' = [position EXCEPT ![w] = k]
               /\ visits' = [visits EXCEPT ![w][k] = @ + 1]
    /\ UNCHANGED <<records, entries, steady, storeTx, writes>>

(* What was awaited is done.                                               *)
Resume ==
    /\ walk' = [walk EXCEPT ![Head(requests).by] = "ready"]
    /\ UNCHANGED <<position, visits, storeTx, writes>>

(* storeRecord and insertIntoIndex.                                        *)
StoreRecord ==
    /\ TakeRequest({"put", "update"}) /\ Resume
    /\ LET k == Head(requests).key
       IN /\ records' = records \cup {k}
          /\ entries' = [entries EXCEPT ![IndexKeyOf[k]] = @ \cup {k}]
    /\ UNCHANGED steady

(* Mutant of Unlinked: the whole entry goes with one of its records.       *)
UnlinkedAll(k) == [entries EXCEPT ![IndexKeyOf[k]] = {}]

(* deleteFromIndex: an entry keeps its other records.                      *)
Unlinked(k) == [entries EXCEPT ![IndexKeyOf[k]] = @ \ {k}]

(* deleteRecord.                                                           *)
DeleteRecord ==
    /\ TakeRequest({"delete"}) /\ Resume
    /\ LET k == Head(requests).key
       IN /\ records' = records \ {k} /\ steady' = steady \ {k}
          /\ entries' = IF k \in records THEN Unlinked(k) ELSE entries

(* A request that fails aborts the transaction.                            *)
FailedRequest ==
    /\ ContinuationsRun /\ requests # <<>> /\ Fails(Head(requests))
    /\ storeTx' = "aborted" /\ requests' = <<>>
    /\ UNCHANGED <<records, entries, walks, steady, writes>>

(* _start finds no request left.                                           *)
CommitWalks ==
    /\ ContinuationsRun /\ requests = <<>>
    /\ storeTx' = "committed"
    /\ UNCHANGED <<records, entries, requests, walks, steady, writes>>

StoreNextStep ==
    \/ Iterate \/ StoreRecord \/ DeleteRecord \/ FailedRequest \/ CommitWalks
    \/ \E w \in Walkers : ContinueWalk(w) \/ \E op \in Ops, k \in RecordKeys : WriteBeside(w, op, k)

StoreSpec == StoreInit /\ [][StoreNextStep]_storeVars
-----------------------------------------------------------------------------
(* Where a stream looks for a record.                                      *)
Place(w, k) == IF w \in IndexWalkers THEN IndexKeyOf[k] ELSE k

InRange(w, k) == From[w] <= Place(w, k) /\ Place(w, k) <= To[w]

(* A stream that has come to its end has delivered each record of its      *)
(* range that was there all the time, whatever was put and deleted while   *)
(* it walked; none delivers a record twice; and the transaction outlives   *)
(* all streams, also those nobody awaits (transactions.ts:101).            *)
WalkIsComplete ==
    /\ \A w \in Walkers : \A k \in RecordKeys :
         /\ visits[w][k] <= 1
         /\ visits[w][k] = 1 => InRange(w, k)
         /\ walk[w] = "end" /\ k \in steady /\ InRange(w, k) => visits[w][k] = 1
    /\ storeTx = "committed" => \A w \in Walkers : walk[w] = "end"

(* The index leads to the records of the store, and to nothing else.       *)
IndexIsExact == entries = Entries(records)
=============================================================================
