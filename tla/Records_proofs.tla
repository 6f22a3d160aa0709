--------------------------- MODULE Records_proofs ---------------------------
(***************************************************************************)
(* What holds of deposit groups, exchange records, recoup groups, tips and *)
(* proposals for every set of coins, calls and overlapping runs and every  *)
(* number of failures, proved with TLAPS.                                  *)
(***************************************************************************)
EXTENDS Deposit, ExchangeUpdate, Recoup, Tip, Proposal, Backup, FiniteSetTheorems, TLAPS

-----------------------------------------------------------------------------
(* Deposit groups.  The coins are chosen before the group exists, the put  *)
(* after its creation changes nothing of its coins, and what is marked, or *)
(* was marked when the run read the record, is with the exchange.          *)
DepositInv ==
    /\ wallet \cup elsewhere \cup group = DepositCoins
    /\ wallet \cap elsewhere = {} /\ group \cap (wallet \cup elsewhere) = {}
    /\ complete => group \subseteq accepted
    /\ chosen \subseteq DepositCoins /\ next \subseteq group
    /\ maker \in {"select", "create"} => group = {} /\ ~complete /\ run = "idle"
    /\ maker = "rewrite" => group = chosen
    /\ marked \subseteq accepted /\ old \subseteq accepted

LEMMA DepositStepInv == DepositInv /\ [DepositNext]_depositVars => DepositInv'
  <1> SUFFICES ASSUME DepositInv, [DepositNext]_depositVars PROVE DepositInv'
    OBVIOUS
  <1> USE DEF DepositInv, depositRecord, depositRun
  <1>1. CASE SelectCoins
    BY <1>1 DEF SelectCoins
  <1>2. CASE CreateDeposit
    <2>1. /\ group = {} /\ ~complete
          /\ UNCHANGED <<elsewhere, marked, complete, accepted, chosen, run, old, next>>
      BY <1>2 DEF CreateDeposit
    <2>2. CASE chosen \subseteq wallet
      <3>1. wallet' = wallet \ chosen /\ group' = chosen /\ maker' = "rewrite"
        BY <1>2, <2>2 DEF CreateDeposit
      <3>2. wallet' \cup elsewhere' \cup group' = DepositCoins
        BY <2>1, <2>2, <3>1
      <3>3. /\ wallet' \cap elsewhere' = {}
            /\ group' \cap (wallet' \cup elsewhere') = {}
        BY <2>1, <2>2, <3>1
      <3>4. complete' => group' \subseteq accepted'
        BY <2>1, <2>2, <3>1
      <3>5. QED
        BY <2>1, <3>1, <3>2, <3>3, <3>4
    <2>3. CASE ~(chosen \subseteq wallet)
      <3>1. UNCHANGED <<wallet, group>> /\ maker' = "done"
        BY <1>2, <2>3 DEF CreateDeposit
      <3>2. QED
        BY <2>1, <3>1
    <2>4. QED
      BY <2>2, <2>3
  <1>3. CASE RewriteDeposit
    BY <1>3 DEF RewriteDeposit
  <1>4. CASE StartDeposit
    BY <1>4 DEF StartDeposit
  <1>5. CASE EndDeposit
    BY <1>5 DEF EndDeposit
  <1>6. ASSUME NEW c \in DepositCoins, SendCoin(c) PROVE DepositInv'
    BY <1>6 DEF SendCoin
  <1>7. ASSUME NEW c \in DepositCoins, MarkCoin(c) PROVE DepositInv'
    BY <1>7 DEF MarkCoin
  <1>8. CASE FailDeposit
    BY <1>8 DEF FailDeposit, DepositTrouble
  <1>9. CASE CrashDeposit
    BY <1>9 DEF CrashDeposit, DepositTrouble
  <1>10. ASSUME NEW c \in DepositCoins, OtherSpend(c) PROVE DepositInv'
    BY <1>10 DEF OtherSpend
  <1>11. CASE UNCHANGED depositVars
    BY <1>11 DEF depositVars
  <1>12. QED
    BY <1>1, <1>2, <1>3, <1>4, <1>5, <1>6, <1>7, <1>8, <1>9, <1>10, <1>11
       DEF DepositNext, DepositStep

LEMMA DepositInvariant == DepositSpec => []DepositInv
  <1>1. DepositInit => DepositInv
    BY DEF DepositInit, DepositInv
  <1>2. QED
    BY <1>1, DepositStepInv, PTL DEF DepositSpec

(* Whatever fails, dies or overlaps, each coin is still in the wallet, or  *)
(* spent elsewhere, or in the group: none is spent twice or for nothing.   *)
THEOREM DepositLosesNoCoin == DepositSpec => []CoinsAreAccounted
  <1>1. DepositInv => CoinsAreAccounted
    BY DEF DepositInv, CoinsAreAccounted
  <1>2. QED
    BY <1>1, DepositInvariant, PTL

(* A deposit group is called finished only when the exchange has all of    *)
(* its coins, although that is decided on a record read before the loop.   *)
THEOREM FinishedDepositIsComplete == DepositSpec => []DepositIsComplete
  <1>1. DepositInv => DepositIsComplete
    BY DEF DepositInv, DepositIsComplete
  <1>2. QED
    BY <1>1, DepositInvariant, PTL

(* The variables keep their types; above all, only coins of the group are  *)
(* ever marked, although the record is put again after its creation.       *)
THEOREM DepositTypeCorrect == DepositSpec => []DepositTypeOK
  <1>1. DepositInit => DepositTypeOK
    <2>1. 0 \in 0..MaxDepositTroubles
      BY DepositAssumption
    <2>2. QED
      BY <2>1 DEF DepositInit, DepositTypeOK
  <1>2. ASSUME DepositInv, DepositTypeOK, [DepositNext]_depositVars
        PROVE  DepositTypeOK'
    <2>1. CASE SelectCoins \/ CreateDeposit \/ RewriteDeposit
      BY <1>2, <2>1 DEF DepositInv, DepositTypeOK, SelectCoins, CreateDeposit, RewriteDeposit,
                        depositRecord, depositRun
    <2>2. CASE StartDeposit \/ EndDeposit
      BY <1>2, <2>2 DEF DepositTypeOK, StartDeposit, EndDeposit, depositRecord
    <2>3. ASSUME NEW c \in DepositCoins, SendCoin(c) \/ MarkCoin(c) \/ OtherSpend(c)
          PROVE  DepositTypeOK'
      BY <1>2, <2>3 DEF DepositInv, DepositTypeOK, SendCoin, MarkCoin, OtherSpend,
                        depositRecord, depositRun
    <2>4. CASE FailDeposit \/ CrashDeposit
      BY <1>2, <2>4, DepositAssumption
         DEF DepositTypeOK, FailDeposit, CrashDeposit, DepositTrouble, depositRecord
    <2>5. CASE UNCHANGED depositVars
      BY <1>2, <2>5 DEF DepositTypeOK, depositVars
    <2>6. QED
      BY <1>2, <2>1, <2>2, <2>3, <2>4, <2>5 DEF DepositNext, DepositStep
  <1>3. QED
    BY <1>1, <1>2, DepositInvariant, PTL DEF DepositSpec
-----------------------------------------------------------------------------
(* Exchange records.  The status is what the record has come to, and a     *)
(* coin that went into a recoup group is stored, empty and never stored    *)
(* again.                                                                  *)
StatusTellsAll ==
    /\ updateStatus = "FetchWire" => "details" \in have
    /\ updateStatus = "FetchTerms" => {"details", "wire"} \subseteq have
    /\ updateStatus \in {"FinalizeUpdate", "Finished"} => have = {"details", "wire", "terms"}
    /\ updateStatus = "Finished" => added
    /\ have \subseteq {"details", "wire", "terms"}

RecoupedStayEmpty ==
    /\ recoupGroups \in [DenomCoins -> Nat] /\ worth \subseteq held
    /\ unstored \cap held = {} /\ RecoupedOnce

ExchangeInv == StatusTellsAll /\ RecoupedStayEmpty

LEMMA ExchangeStepInv == ExchangeInv /\ [ExchangeNext]_exchangeVars => ExchangeInv'
  <1> SUFFICES ASSUME ExchangeInv, [ExchangeNext]_exchangeVars PROVE ExchangeInv'
    OBVIOUS
  <1> USE DEF ExchangeInv, exchangeRecord, denomination, denomCoins
  (* Most steps leave the record or the coins alone. *)
  <1>a. UNCHANGED exchangeRecord => StatusTellsAll'
    BY DEF StatusTellsAll
  <1>b. UNCHANGED denomCoins => RecoupedStayEmpty'
    BY DEF RecoupedStayEmpty, RecoupedOnce
  <1>1. ASSUME \/ Revoke \/ StartVerify \/ PutVerified
               \/ \E u \in Updates : SkipStep(u) \/ GetKeys(u) \/ GetOther(u) \/ FailUpdate(u)
        PROVE ExchangeInv'
    BY <1>1, <1>a, <1>b
       DEF Revoke, StartVerify, PutVerified, SkipStep, GetKeys, GetOther, FailUpdate
  <1>2. CASE Expire
    BY <1>2, <1>b DEF Expire, StatusTellsAll
  <1>3. ASSUME NEW c \in DenomCoins, SignCoin(c) PROVE ExchangeInv'
    BY <1>3, <1>a DEF SignCoin, RecoupedStayEmpty, RecoupedOnce
  <1>4. ASSUME NEW c \in DenomCoins, StoreSigned(c) PROVE ExchangeInv'
    BY <1>4, <1>a DEF StoreSigned, RecoupedStayEmpty, RecoupedOnce
  <1>5. ASSUME NEW u \in Updates, StartUpdate(u) PROVE ExchangeInv'
    BY <1>5, <1>b DEF StartUpdate, StatusTellsAll
  <1>6. ASSUME NEW u \in Updates, CreateRecord(u) PROVE ExchangeInv'
    BY <1>6, <1>b DEF CreateRecord, StatusTellsAll
  <1>7. ASSUME NEW u \in Updates, EnterKeys(u) PROVE ExchangeInv'
    <2>1. StatusTellsAll'
      BY <1>7 DEF EnterKeys, StatusTellsAll
    <2>2. CASE UNCHANGED <<worth, recoupGroups>>
      BY <1>7, <2>1, <2>2, <1>b DEF EnterKeys
    <2>3. CASE RecoupWorth
      <3>1. UNCHANGED <<held, unstored>>
        BY <1>7 DEF EnterKeys
      <3>2. \A c \in DenomCoins :
                recoupGroups'[c] = recoupGroups[c] + IF c \in worth THEN 1 ELSE 0
        BY <2>3 DEF RecoupWorth
      <3>3. /\ recoupGroups' \in [DenomCoins -> Nat]
            /\ worth' \subseteq held' /\ unstored' \cap held' = {}
        BY <2>3, <3>1 DEF RecoupWorth, RecoupedStayEmpty
      <3>4. ASSUME NEW c \in DenomCoins
            PROVE  /\ recoupGroups'[c] <= 1
                   /\ recoupGroups'[c] = 1 => c \in held' \ worth'
        BY <2>3, <3>1, <3>2 DEF RecoupWorth, RecoupedStayEmpty, RecoupedOnce
      <3>5. QED
        BY <2>1, <3>3, <3>4 DEF RecoupedStayEmpty, RecoupedOnce
    <2>4. QED
      BY <1>7, <2>1, <2>2, <2>3 DEF EnterKeys
  <1>8. ASSUME NEW u \in Updates, EnterWire(u) PROVE ExchangeInv'
    BY <1>8, <1>b DEF EnterWire, StatusTellsAll
  <1>9. ASSUME NEW u \in Updates, EnterTerms(u) PROVE ExchangeInv'
    BY <1>9, <1>b DEF EnterTerms, StatusTellsAll
  <1>10. ASSUME NEW u \in Updates, Finalize(u) PROVE ExchangeInv'
    BY <1>10, <1>b DEF Finalize, StatusTellsAll
  <1>11. CASE CrashUpdate
    BY <1>11, <1>a DEF CrashUpdate, RecoupedStayEmpty, RecoupedOnce
  <1>12. CASE UNCHANGED exchangeVars
    BY <1>12, <1>a, <1>b DEF exchangeVars
  <1>13. QED
    BY <1>1, <1>2, <1>3, <1>4, <1>5, <1>6, <1>7, <1>8, <1>9, <1>10, <1>11, <1>12
       DEF ExchangeNext, UpdateStep

LEMMA ExchangeInvariant == ExchangeSpec => []ExchangeInv
  <1>1. ExchangeInit => ExchangeInv
    BY DEF ExchangeInit, ExchangeInv, StatusTellsAll, RecoupedStayEmpty, RecoupedOnce
  <1>2. QED
    BY <1>1, ExchangeStepInv, PTL DEF ExchangeSpec

(* An exchange that counts as finished has everything, however many        *)
(* updates run beside each other and whatever fails.                       *)
THEOREM FinishedExchangeHasAll == ExchangeSpec => []FinishedHasAll
  <1>1. ExchangeInv => FinishedHasAll
    BY DEF ExchangeInv, StatusTellsAll, FinishedHasAll
  <1>2. QED
    BY <1>1, ExchangeInvariant, PTL

(* The value of a coin goes into one recoup group at most, however often   *)
(* the denomination is revoked, verified and found revoked again.          *)
THEOREM NoCoinRecoupedTwice == ExchangeSpec => []RecoupedOnce
  <1>1. ExchangeInv => RecoupedOnce
    BY DEF ExchangeInv, RecoupedStayEmpty
  <1>2. QED
    BY <1>1, ExchangeInvariant, PTL

(* The variables keep their types; a coin with a value is a stored one.    *)
THEOREM ExchangeTypeCorrect == ExchangeSpec => []ExchangeTypeOK
  <1> USE DEF exchangeRecord, denomination, denomCoins, Goes
  <1>1. ExchangeInit => ExchangeTypeOK
    <2>1. 0 \in 0..MaxExpiries /\ 0 \in 0..MaxExchangeTroubles
      BY ExchangeAssumption
    <2>2. SUFFICES ASSUME ExchangeInit PROVE ExchangeTypeOK
      OBVIOUS
    <2>3. /\ have \subseteq {"details", "wire", "terms"} /\ held \subseteq DenomCoins
          /\ worth \subseteq held /\ unstored \subseteq DenomCoins
          /\ recoupGroups \in [DenomCoins -> Nat]
      BY <2>2 DEF ExchangeInit
    <2>4. update \in [Updates -> {"idle", "create", "keys", "enterkeys", "wire", "enterwire",
                                  "terms", "enterterms", "finalize"}]
      BY <2>2 DEF ExchangeInit
    <2>5. answer \in [Updates -> BOOLEAN]
      BY <2>2 DEF ExchangeInit
    <2>6. QED
      BY <2>1, <2>2, <2>3, <2>4, <2>5 DEF ExchangeInit, ExchangeTypeOK
  <1>2. ASSUME ExchangeTypeOK, [ExchangeNext]_exchangeVars
        PROVE  ExchangeTypeOK'
    <2>1. CASE Revoke \/ StartVerify \/ PutVerified
      BY <1>2, <2>1 DEF ExchangeTypeOK, Revoke, StartVerify, PutVerified
    <2>2. CASE Expire
      <3>1. expiries' \in 0..MaxExpiries
        BY <1>2, <2>2, ExchangeAssumption DEF ExchangeTypeOK, Expire
      <3>2. QED
        BY <1>2, <2>2, <3>1 DEF ExchangeTypeOK, Expire
    <2>3. ASSUME NEW c \in DenomCoins, SignCoin(c) \/ StoreSigned(c)
          PROVE  ExchangeTypeOK'
      BY <1>2, <2>3 DEF ExchangeTypeOK, SignCoin, StoreSigned
    <2>4. ASSUME NEW u \in Updates, StartUpdate(u) \/ CreateRecord(u) \/ SkipStep(u)
          PROVE  ExchangeTypeOK'
      <3>1. CASE StartUpdate(u)
        BY <1>2, <3>1 DEF ExchangeTypeOK, StartUpdate
      <3>2. CASE CreateRecord(u)
        BY <1>2, <3>2 DEF ExchangeTypeOK, CreateRecord
      <3>3. CASE SkipStep(u)
        BY <1>2, <3>3 DEF ExchangeTypeOK, SkipStep
      <3>4. QED
        BY <2>4, <3>1, <3>2, <3>3
    <2>5. ASSUME NEW u \in Updates, GetKeys(u) \/ GetOther(u)
          PROVE  ExchangeTypeOK'
      BY <1>2, <2>5 DEF ExchangeTypeOK, GetKeys, GetOther
    <2>6. ASSUME NEW u \in Updates, EnterKeys(u)
          PROVE  ExchangeTypeOK'
      <3>1. /\ worth' \subseteq held' /\ held' \subseteq DenomCoins
            /\ recoupGroups' \in [DenomCoins -> Nat]
        BY <1>2, <2>6 DEF ExchangeTypeOK, EnterKeys, RecoupWorth
      <3>2. isRevoked' \in BOOLEAN
        BY <1>2, <2>6 DEF ExchangeTypeOK, EnterKeys
      <3>3. QED
        BY <1>2, <2>6, <3>1, <3>2 DEF ExchangeTypeOK, EnterKeys
    <2>7. ASSUME NEW u \in Updates, EnterWire(u) \/ EnterTerms(u) \/ Finalize(u)
          PROVE  ExchangeTypeOK'
      <3>1. have' \subseteq {"details", "wire", "terms"} /\ added' \in BOOLEAN
        BY <1>2, <2>7 DEF ExchangeTypeOK, EnterWire, EnterTerms, Finalize
      <3>2. CASE EnterWire(u)
        BY <1>2, <3>1, <3>2 DEF ExchangeTypeOK, EnterWire
      <3>3. CASE EnterTerms(u)
        BY <1>2, <3>1, <3>3 DEF ExchangeTypeOK, EnterTerms
      <3>4. CASE Finalize(u)
        BY <1>2, <3>1, <3>4 DEF ExchangeTypeOK, Finalize
      <3>5. QED
        BY <2>7, <3>2, <3>3, <3>4
    <2>8. ASSUME CrashUpdate \/ \E u \in Updates : FailUpdate(u)
          PROVE  ExchangeTypeOK'
      <3>1. exchangeTroubles' \in 0..MaxExchangeTroubles
        BY <1>2, <2>8, ExchangeAssumption
           DEF ExchangeTypeOK, CrashUpdate, FailUpdate, ExchangeTrouble
      <3>2. CASE CrashUpdate
        BY <1>2, <3>1, <3>2 DEF ExchangeTypeOK, CrashUpdate
      <3>3. ASSUME NEW u \in Updates, FailUpdate(u) PROVE ExchangeTypeOK'
        BY <1>2, <3>1, <3>3 DEF ExchangeTypeOK, FailUpdate
      <3>4. QED
        BY <2>8, <3>2, <3>3
    <2>9. CASE UNCHANGED exchangeVars
      BY <1>2, <2>9 DEF ExchangeTypeOK, exchangeVars
    <2>10. QED
      BY <1>2, <2>1, <2>2, <2>3, <2>4, <2>5, <2>6, <2>7, <2>8, <2>9 DEF ExchangeNext, UpdateStep
  <1>3. QED
    BY <1>1, <1>2, PTL DEF ExchangeSpec
-----------------------------------------------------------------------------
(* Recoup groups.  What is entered of a coin that is no tip was paid back  *)
(* by the exchange before.                                                 *)
Due == recouped \ (Tipped \cup empty)

RecoupInv ==
    /\ empty \subseteq recouped /\ recouped \subseteq RecoupCoins
    /\ inReserve \in Nat /\ oldCoin \in Nat /\ inRefresh \in Nat
    /\ asking \subseteq RecoupCoins \X {"run", "orphan"}
    /\ entering \subseteq RecoupCoins \X {"run", "orphan"}
    /\ \A p \in entering : p[1] \in paidBack \cup Tipped
    /\ Due \subseteq paidBack
    /\ inReserve + oldCoin + inRefresh = Cardinality(Due)

(* Entering a coin that is no tip makes the coins that are due one more.   *)
LEMMA OneMoreDue ==
    ASSUME RecoupInv, NEW c \in Withdrawn \cup Refreshed, c \notin recouped,
           recouped' = recouped \cup {c}, UNCHANGED empty
    PROVE  Due' = Due \cup {c} /\ Cardinality(Due') = Cardinality(Due) + 1
  <1>1. Due' = Due \cup {c} /\ c \notin Due
    BY RecoupAssumption DEF RecoupInv, Due
  <1>2. IsFiniteSet(Due)
    <2>1. IsFiniteSet(Withdrawn \cup Refreshed)
      BY RecoupAssumption, FS_Union
    <2>2. Due \subseteq Withdrawn \cup Refreshed
      BY DEF RecoupInv, Due, RecoupCoins
    <2>3. QED
      BY <2>1, <2>2, FS_Subset
  <1>3. QED
    BY <1>1, <1>2, FS_AddElement

LEMMA RecoupStepInv == RecoupInv /\ [RecoupNext]_recoupVars => RecoupInv'
  <1> SUFFICES ASSUME RecoupInv, [RecoupNext]_recoupVars PROVE RecoupInv'
    OBVIOUS
  <1> USE DEF recoupRecord, recoupMoney
  (* Work that enters nothing. *)
  <1>a. ASSUME UNCHANGED <<recoupRecord, recoupMoney>>, paidBack \subseteq paidBack',
               asking' \subseteq RecoupCoins \X {"run", "orphan"},
               entering' \subseteq RecoupCoins \X {"run", "orphan"},
               \A p \in entering' : p[1] \in paidBack' \cup Tipped
        PROVE  RecoupInv'
    BY <1>a DEF RecoupInv, Due
  <1>b. ASSUME NEW c, NEW w, FailsWork(c, w)
        PROVE  /\ asking' \subseteq RecoupCoins \X {"run", "orphan"}
               /\ entering' \subseteq RecoupCoins \X {"run", "orphan"}
               /\ \A p \in entering' : p[1] \in paidBack \cup Tipped
    BY <1>b DEF FailsWork, Orphaned, RecoupInv
  <1>1. CASE StartRecoup
    BY <1>1, <1>a DEF StartRecoup, RecoupInv, RecoupCoins
  <1>2. CASE EndRun
    BY <1>2, <1>a DEF EndRun, RecoupInv
  <1>3. ASSUME NEW p \in asking, AskRecoup(p[1], p[2]) PROVE RecoupInv'
    BY <1>3, <1>a DEF AskRecoup, RecoupInv
  <1>4. ASSUME NEW p \in entering, AlreadyEntered(p[1], p[2]) PROVE RecoupInv'
    BY <1>4, <1>a DEF AlreadyEntered, RecoupInv
  <1>5. ASSUME NEW p \in entering, CannotEnd(p[1], p[2]) PROVE RecoupInv'
    BY <1>5, <1>a, <1>b DEF CannotEnd
  <1>6. ASSUME NEW p \in asking, FailRecoup(p[1], p[2]) PROVE RecoupInv'
    BY <1>6, <1>a, <1>b DEF FailRecoup, RecoupTrouble
  <1>7. CASE CrashRecoup
    BY <1>7, <1>a DEF CrashRecoup, RecoupTrouble
  <1>8. ASSUME NEW p \in entering, EnterRefreshed(p[1], p[2]) PROVE RecoupInv'
    <2> DEFINE c == p[1]
    <2>1. /\ c \in Refreshed \ recouped /\ recouped' = recouped \cup {c}
          /\ UNCHANGED <<empty, paidBack, inReserve, asking>> /\ entering' \subseteq entering
      BY <1>8 DEF EnterRefreshed, Entered
    <2>2. Due' = Due \cup {c} /\ Cardinality(Due') = Cardinality(Due) + 1
      BY <2>1, OneMoreDue
    <2>3. c \in paidBack
      BY <2>1, RecoupAssumption DEF RecoupInv
    <2>4. \/ oldCoin' = 0 /\ inRefresh' = inRefresh + oldCoin + 1
          \/ oldCoin' = oldCoin + 1 /\ inRefresh' = inRefresh
      BY <1>8 DEF EnterRefreshed
    <2>5. /\ inReserve' + oldCoin' + inRefresh' = Cardinality(Due')
          /\ oldCoin' \in Nat /\ inRefresh' \in Nat
      BY <2>1, <2>2, <2>4 DEF RecoupInv
    <2>6. empty' \subseteq recouped' /\ recouped' \subseteq RecoupCoins
      BY <2>1 DEF RecoupInv, RecoupCoins
    <2>7. QED
      BY <2>1, <2>2, <2>3, <2>4, <2>5, <2>6 DEF RecoupInv
  <1>9. ASSUME NEW p \in entering, EnterOther(p[1], p[2]) PROVE RecoupInv'
    <2> DEFINE c == p[1]
    <2>1. /\ c \in (Withdrawn \cup Tipped) \ recouped /\ recouped' = recouped \cup {c}
          /\ UNCHANGED <<empty, paidBack, oldCoin, inRefresh, asking>>
          /\ entering' \subseteq entering
          /\ inReserve' = IF c \in Withdrawn THEN inReserve + 1 ELSE inReserve
      BY <1>9 DEF EnterOther, Entered
    <2>2. empty' \subseteq recouped' /\ recouped' \subseteq RecoupCoins
      BY <2>1 DEF RecoupInv, RecoupCoins
    <2>3. CASE c \in Withdrawn
      <3>1. Due' = Due \cup {c} /\ Cardinality(Due') = Cardinality(Due) + 1
        BY <2>1, <2>3, OneMoreDue
      <3>2. c \in paidBack
        BY <2>3, RecoupAssumption DEF RecoupInv
      <3>3. inReserve' \in Nat /\ inReserve' + oldCoin' + inRefresh' = Cardinality(Due')
        BY <2>1, <2>3, <3>1 DEF RecoupInv
      <3>4. QED
        BY <2>1, <2>2, <3>1, <3>2, <3>3 DEF RecoupInv
    <2>4. CASE c \notin Withdrawn
      <3>1. Due' = Due
        BY <2>1, <2>4 DEF Due
      <3>2. QED
        BY <2>1, <2>2, <2>4, <3>1 DEF RecoupInv
    <2>5. QED
      BY <2>3, <2>4
  <1>10. CASE UNCHANGED recoupVars
    BY <1>10, <1>a DEF recoupVars, RecoupInv
  <1>11. QED
    BY <1>1, <1>2, <1>3, <1>4, <1>5, <1>6, <1>7, <1>8, <1>9, <1>10 DEF RecoupNext, RecoupStep

LEMMA RecoupInvariant == RecoupSpec => []RecoupInv
  <1>1. RecoupInit => RecoupInv
    <2> SUFFICES ASSUME RecoupInit PROVE RecoupInv
      OBVIOUS
    <2>1. Due = {}
      BY DEF RecoupInit, Untouched, Due
    <2>2. QED
      BY <2>1, FS_EmptySet DEF RecoupInit, Untouched, RecoupInv
  <1>2. QED
    BY <1>1, RecoupStepInv, PTL DEF RecoupSpec

(* Every coin the exchange has paid back is credited once, however many    *)
(* runs, orphaned or not, enter the answers for it.                        *)
THEOREM RecoupCreditsOnce == RecoupSpec => []CreditedOnce
  <1>1. RecoupInv => CreditedOnce
    BY DEF RecoupInv, CreditedOnce, Due
  <1>2. QED
    BY <1>1, RecoupInvariant, PTL

(* A group that has ended leaves no value on the old coin and no coin of   *)
(* the group aside: only a group without scheduled coins ends without the  *)
(* refresh that takes the value over.                                      *)
THEOREM EndedGroupIsRefreshed == RecoupSpec => []EndedIsRefreshed
  <1> DEFINE NothingAside == scheduled \in Nat /\ (scheduled = 0 => oldCoin = 0)
  <1>1. RecoupInit => NothingAside /\ EndedIsRefreshed
    BY DEF RecoupInit, Untouched, EndedIsRefreshed
  <1>2. ASSUME RecoupInv, NothingAside, EndedIsRefreshed, [RecoupNext]_recoupVars
        PROVE  NothingAside' /\ EndedIsRefreshed'
    <2> USE DEF EndedIsRefreshed
    <2>1. ASSUME NEW c, NEW w, EnterRefreshed(c, w)
          PROVE  NothingAside' /\ EndedIsRefreshed'
      <3>1. c \in RecoupCoins \ recouped /\ recouped' = recouped \cup {c} /\ ~ended
        BY <1>2, <2>1 DEF EnterRefreshed, Entered, RecoupCoins
      <3>2. scheduled' \in Nat /\ scheduled' # 0
        BY <1>2, <2>1 DEF EnterRefreshed
      <3>3. ended' => oldCoin' = 0 /\ recouped' = RecoupCoins
        BY <2>1, <3>1 DEF EnterRefreshed, Last
      <3>4. QED
        BY <3>2, <3>3
    <2>2. ASSUME NEW c, NEW w, EnterOther(c, w)
          PROVE  NothingAside' /\ EndedIsRefreshed'
      BY <1>2, <2>2 DEF EnterOther, Entered, Last
    <2>3. CASE UNCHANGED <<recoupRecord, recoupMoney>>
      BY <1>2, <2>3 DEF recoupRecord, recoupMoney
    <2>4. QED
      BY <1>2, <2>1, <2>2, <2>3
         DEF RecoupNext, RecoupStep, StartRecoup, EndRun, AskRecoup, AlreadyEntered, CannotEnd,
             FailRecoup, CrashRecoup, recoupVars, recoupRecord, recoupMoney
  <1>3. QED
    BY <1>1, <1>2, RecoupInvariant, PTL DEF RecoupSpec

(* The variables keep their types.                                         *)
THEOREM RecoupTypeCorrect == RecoupSpec => []RecoupTypeOK
  <1> DEFINE OtherTypes == /\ ended \in BOOLEAN /\ scheduled \in Nat
                           /\ paidBack \subseteq RecoupCoins
                           /\ recoupRun \in {"idle", "busy"}
                           /\ recoupTroubles \in 0..MaxRecoupTroubles
  <1>1. RecoupInit => OtherTypes
    <2>1. 0 \in 0..MaxRecoupTroubles
      BY RecoupAssumption
    <2>2. QED
      <3>1. ASSUME RecoupInit PROVE ended \in BOOLEAN /\ scheduled \in Nat /\ paidBack = {}
        BY <3>1 DEF RecoupInit, Untouched
      <3>2. ASSUME RecoupInit PROVE recoupRun = "idle" /\ recoupTroubles = 0
        BY <3>2 DEF RecoupInit, Untouched
      <3>3. QED
        BY <2>1, <3>1, <3>2
  <1>2. ASSUME RecoupInv, OtherTypes, [RecoupNext]_recoupVars
        PROVE  OtherTypes'
    <2> USE DEF recoupRecord
    <2>1. CASE StartRecoup \/ EndRun \/ CrashRecoup
      BY <1>2, <2>1, RecoupAssumption DEF StartRecoup, EndRun, CrashRecoup, RecoupTrouble
    <2>2. ASSUME NEW p \in asking, AskRecoup(p[1], p[2]) \/ FailRecoup(p[1], p[2])
          PROVE  OtherTypes'
      <3>1. p[1] \in RecoupCoins
        BY <1>2 DEF RecoupInv
      <3>2. paidBack' \subseteq RecoupCoins
        BY <1>2, <2>2, <3>1 DEF AskRecoup, FailRecoup
      <3>3. recoupTroubles' \in 0..MaxRecoupTroubles
        BY <1>2, <2>2, RecoupAssumption DEF AskRecoup, FailRecoup, RecoupTrouble
      <3>4. recoupRun' \in {"idle", "busy"}
        BY <1>2, <2>2 DEF AskRecoup, FailRecoup, FailsWork
      <3>5. QED
        BY <1>2, <2>2, <3>2, <3>3, <3>4 DEF AskRecoup, FailRecoup
    <2>3. ASSUME NEW c, NEW w, AlreadyEntered(c, w) \/ CannotEnd(c, w)
          PROVE  OtherTypes'
      BY <1>2, <2>3 DEF AlreadyEntered, CannotEnd, FailsWork
    <2>4. ASSUME NEW c, NEW w, EnterRefreshed(c, w) \/ EnterOther(c, w)
          PROVE  OtherTypes'
      <3>1. CASE EnterRefreshed(c, w)
        <4>1. ended' \in BOOLEAN
          BY <1>2, <3>1 DEF EnterRefreshed
        <4>2. scheduled' \in Nat
          BY <1>2, <3>1 DEF EnterRefreshed
        <4>3. UNCHANGED <<paidBack, recoupRun, recoupTroubles>>
          BY <3>1 DEF EnterRefreshed
        <4>4. QED
          BY <1>2, <4>1, <4>2, <4>3
      <3>2. CASE EnterOther(c, w)
        <4>1. ended' \in BOOLEAN
          BY <3>2 DEF EnterOther, Last
        <4>2. QED
          BY <1>2, <3>2, <4>1 DEF EnterOther
      <3>3. QED
        BY <2>4, <3>1, <3>2
    <2>5. CASE UNCHANGED recoupVars
      BY <1>2, <2>5 DEF recoupVars
    <2>6. QED
      BY <1>2, <2>1, <2>2, <2>3, <2>4, <2>5 DEF RecoupNext, RecoupStep
  <1>3. RecoupInv /\ OtherTypes => RecoupTypeOK
    BY DEF RecoupInv, RecoupTypeOK
  <1>4. QED
    BY <1>1, <1>2, <1>3, RecoupInvariant, PTL DEF RecoupSpec
-----------------------------------------------------------------------------
(* Tips.  What a run has had signed is what the merchant honours, and what *)
(* an acceptTip has read as picked up has its coin.                        *)
TipKnowledge ==
    /\ \A p \in signed : picker[p] # NoTip /\ honoured = picker[p]
    /\ \A a \in Accepts : readPicked[a] => accepting[a] # NoTip /\ tipCoin[accepting[a]] # "none"

TipInv == TipTypeOK /\ TipKnowledge /\ TipIsPickedUpOnce

LEMMA TipStepInv == TipInv /\ [TipNext]_tipVars => TipInv'
  <1> SUFFICES ASSUME TipInv, [TipNext]_tipVars PROVE TipInv'
    OBVIOUS
  <1> USE TipAssumption DEF TipInv, TipTypeOK, TipKnowledge, TipIsPickedUpOnce, tipRecords, tipCalls
  <1>1. ASSUME NEW t \in Prepares, LookUpTip(t) PROVE TipInv'
    BY <1>1 DEF LookUpTip
  <1>2. ASSUME NEW t \in Prepares, PutTip(t) PROVE TipInv'
    BY <1>2 DEF PutTip
  <1>3. ASSUME NEW t \in Prepares, SpendTip(t) PROVE TipInv'
    BY <1>3 DEF SpendTip
  <1>4. ASSUME NEW a \in Accepts, NEW t \in Prepares, ReadTip(a, t) PROVE TipInv'
    <2>1. \A b \in Accepts : /\ accepting'[b] = (IF b = a THEN t ELSE accepting[b])
                             /\ readPicked'[b] = (IF b = a THEN t \in pickedUp ELSE readPicked[b])
      BY <1>4 DEF ReadTip
    <2>2. accepting' \in [Accepts -> tips \cup {NoTip}]
      BY <1>4 DEF ReadTip
    <2>3. readPicked' \in [Accepts -> BOOLEAN]
      BY <1>4 DEF ReadTip
    <2>4. UNCHANGED <<tips, taken, pickedUp, preparing, picker, signed, honoured, tipCoin, rewound,
                      tipTroubles>> /\ acceptsLeft' \subseteq acceptsLeft
      BY <1>4 DEF ReadTip
    <2>5. TipKnowledge'
      BY <1>4, <2>1, <2>4 DEF ReadTip
    <2>6. QED
      BY <2>2, <2>3, <2>4, <2>5
  <1>5. ASSUME NEW a \in Accepts, AcceptTip(a) PROVE TipInv'
    BY <1>5 DEF AcceptTip
  <1>6. ASSUME NEW p \in Pickers, NEW t \in Prepares, StartPick(p, t) PROVE TipInv'
    BY <1>6 DEF StartPick
  <1>7. ASSUME NEW p \in Pickers, PickUp(p) PROVE TipInv'
    BY <1>7 DEF PickUp
  <1>8. ASSUME NEW p \in Pickers, RefusePick(p) PROVE TipInv'
    BY <1>8 DEF RefusePick, EndPick
  <1>9. ASSUME NEW p \in Pickers, StorePick(p) PROVE TipInv'
    BY <1>9 DEF StorePick, EndPick
  <1>10. ASSUME NEW p \in Pickers, FailPick(p) PROVE TipInv'
    BY <1>10 DEF FailPick, EndPick, TipTrouble
  <1>11. CASE CrashTip
    BY <1>11 DEF CrashTip, TipTrouble
  <1>12. CASE UNCHANGED tipVars
    BY <1>12 DEF tipVars
  <1>13. QED
    BY <1>1, <1>2, <1>3, <1>4, <1>5, <1>6, <1>7, <1>8, <1>9, <1>10, <1>11, <1>12
       DEF TipNext, PickStep

LEMMA TipInvariant == TipSpec => []TipInv
  <1>1. TipInit => TipInv
    <2> SUFFICES ASSUME TipInit PROVE TipInv
      OBVIOUS
    <2> USE DEF TipInit
    <2>1. 0 \in 0..MaxTipTroubles
      BY TipAssumption
    <2>2. readPicked \in [Accepts -> BOOLEAN]
      OBVIOUS
    <2>3. accepting \in [Accepts -> tips \cup {NoTip}] /\ picker \in [Pickers -> tips \cup {NoTip}]
      OBVIOUS
    <2>4. TipTypeOK
      BY <2>1, <2>2, <2>3 DEF TipTypeOK
    <2>5. TipKnowledge /\ TipIsPickedUpOnce
      BY DEF TipKnowledge, TipIsPickedUpOnce
    <2>6. QED
      BY <2>4, <2>5 DEF TipInv
  <1>2. QED
    BY <1>1, TipStepInv, PTL DEF TipSpec

(* A record that counts as picked up has its coin, and a coin is there only *)
(* of the record whose planchets the merchant had signed, although two      *)
(* records may stand for one tip and an acceptTip may take a pickup back.   *)
THEOREM PickedUpTipHasItsCoin == TipSpec => []TipIsPickedUpOnce
  <1>1. TipInv => TipIsPickedUpOnce
    BY DEF TipInv
  <1>2. QED
    BY <1>1, TipInvariant, PTL

(* The variables keep their types; what is accepted or picked up is stored. *)
THEOREM TipTypeCorrect == TipSpec => []TipTypeOK
  <1>1. TipInv => TipTypeOK
    BY DEF TipInv
  <1>2. QED
    BY <1>1, TipInvariant, PTL
-----------------------------------------------------------------------------
(* Proposals.  There is one record; terms are stored only when they are    *)
(* acceptable, and only a proposal with terms is accepted.                 *)
RecordsInv ==
    /\ status \in [Calls -> {"absent", "downloading", "proposed"} \cup Decided]
    /\ \A i, j \in Stored : i = j
    /\ terms \subseteq Stored /\ (~termsOkay => terms = {})
    /\ \A i \in Calls : status[i] = "accepted" => i \in terms

(* Whoever has a proposal in hand past its download has a stored one. *)
Stands(x, place, i) ==
    /\ place = "download" => i \in Calls
    /\ place \in {"claim", "got"} => i \in Stored
    /\ place = "check" => x \in Calls /\ i \in Calls
    /\ place \in {"returned", "confirm"} => x \in Calls /\ i \in terms

ProposalInv ==
    /\ RecordsInv
    /\ id \in [Procs -> Calls \cup {None}] /\ DOMAIN at = Procs
    /\ \A x \in Procs : Stands(x, at[x], id[x])

(* What is stored stays stored, so that who does not move stands as before.*)
RecordsGrow == RecordsInv' /\ Stored \subseteq Stored' /\ terms \subseteq terms'

LEMMA RecordsStay == RecordsInv /\ UNCHANGED <<db, termsOkay>> => RecordsGrow
  BY DEF db, RecordsInv, RecordsGrow, Stored

LEMMA OneMoves ==
    ASSUME ProposalInv, RecordsGrow, NEW x \in Procs, NEW place,
           NEW i \in Calls \cup {None}, Stands(x, place, i)',
           at' = [at EXCEPT ![x] = place], id' = [id EXCEPT ![x] = i]
    PROVE  ProposalInv'
  <1>1. ASSUME NEW y \in Procs PROVE Stands(y, at[y], id[y])'
    <2>1. CASE y = x
      BY <2>1 DEF ProposalInv
    <2>2. CASE y # x
      <3>1. at'[y] = at[y] /\ id'[y] = id[y] /\ Stands(y, at[y], id[y])
        BY <2>2 DEF ProposalInv
      <3>2. QED
        BY <3>1 DEF RecordsGrow, Stands
    <2>3. QED
      BY <2>1, <2>2
  <1>2. QED
    BY <1>1 DEF ProposalInv, RecordsGrow

LEMMA NobodyMoves ==
    ASSUME ProposalInv, RecordsGrow, UNCHANGED <<at, id>>
    PROVE  ProposalInv'
  BY DEF ProposalInv, RecordsGrow, Stands

(* The status of one stored record changes, or the first record is made.   *)
LEMMA OneRecordChanges ==
    ASSUME RecordsInv, NEW i \in Calls, NEW new \in ({"downloading", "proposed"} \cup Decided),
           i \in Stored \/ Stored = {},
           status' = [status EXCEPT ![i] = new], terms' \in {terms, terms \cup {i}},
           UNCHANGED termsOkay, terms' # terms => termsOkay, new = "accepted" => i \in terms'
    PROVE  RecordsGrow
  <1>1. Stored' = Stored \cup {i}
    BY DEF RecordsInv, Stored, Decided
  <1>2. QED
    BY <1>1 DEF RecordsInv, RecordsGrow, Decided

LEMMA ProposalStepInv == ProposalInv /\ [ProposalNext]_proposalVars => ProposalInv'
  <1> SUFFICES ASSUME ProposalInv, [ProposalNext]_proposalVars PROVE ProposalInv'
    OBVIOUS
  <1> USE DEF Goto, Then, merchant
  <1>a. RecordsInv
    BY DEF ProposalInv
  <1>b. UNCHANGED <<db, termsOkay>> => RecordsGrow
    BY <1>a, RecordsStay
  (* A step that only moves x, on the proposal it has or on another one.   *)
  <1>c. ASSUME NEW x \in Procs, NEW place, UNCHANGED <<db, termsOkay>>,
               at' = [at EXCEPT ![x] = place], UNCHANGED id, Stands(x, place, id[x])
        PROVE  ProposalInv'
    <2>1. id' = [id EXCEPT ![x] = id[x]] /\ id[x] \in Calls \cup {None}
      BY <1>c DEF ProposalInv
    <2>2. Stands(x, place, id[x])'
      BY <1>c DEF Stands, Stored, db
    <2>3. QED
      BY <1>b, <1>c, <2>1, <2>2, OneMoves
  <1>d. ASSUME NEW x \in Procs PROVE Stands(x, at[x], id[x])
    BY DEF ProposalInv
  <1>1. ASSUME NEW k \in Calls, Prepare(k) PROVE ProposalInv'
    <2>1. k \in Procs
      BY DEF Procs
    <2>2. CASE Goto(k, "create") /\ UNCHANGED id
      BY <1>1, <1>c, <2>1, <2>2 DEF Prepare, Stands
    <2>3. ASSUME NEW i \in Stored, id' = [id EXCEPT ![k] = i], Goto(k, "download")
          PROVE  ProposalInv'
      <3>1. i \in Calls \cup {None} /\ Stands(k, "download", i)'
        BY DEF Stored, Stands
      <3>2. QED
        BY <1>1, <1>b, <2>1, <2>3, <3>1, OneMoves DEF Prepare
    <2>4. QED
      BY <1>1, <2>2, <2>3 DEF Prepare
  <1>2. ASSUME NEW k \in Calls, Create(k) PROVE ProposalInv'
    <2>1. k \in Procs /\ Stands(k, "download", k)'
      BY DEF Procs, Stands
    <2>2. RecordsGrow
      <3>1. CASE Stored = {}
        BY <1>2, <1>a, <3>1, OneRecordChanges DEF Create
      <3>2. CASE Stored # {}
        BY <1>2, <1>b, <3>2 DEF Create, db
      <3>3. QED
        BY <3>1, <3>2
    <2>3. QED
      BY <1>2, <2>1, <2>2, OneMoves DEF Create
  <1>3. ASSUME NEW l \in Loops, LoopDownload(l) PROVE ProposalInv'
    <2>1. PICK i \in Calls : id' = [id EXCEPT ![l] = i]
      BY <1>3 DEF LoopDownload
    <2>2. l \in Procs /\ Stands(l, "download", i)'
      BY DEF Procs, Stands
    <2>3. QED
      BY <1>3, <1>b, <2>1, <2>2, OneMoves DEF LoopDownload
  <1>4. ASSUME NEW x \in Procs, Download(x) PROVE ProposalInv'
    <2>1. id[x] \in Calls
      BY <1>4, <1>d DEF Download, Stands
    <2>2. CASE status[id[x]] = "downloading"
      <3>1. Stands(x, "claim", id[x])
        BY <2>1, <2>2 DEF Stands, Stored
      <3>2. QED
        BY <1>4, <1>c, <2>2, <3>1 DEF Download
    <2>3. CASE status[id[x]] # "downloading"
      <3>1. Stands(x, IF x \in Loops THEN "idle" ELSE "check", id[x])
        BY <2>1 DEF Stands, Procs
      <3>2. QED
        BY <1>4, <1>c, <2>3, <3>1 DEF Download
    <2>4. QED
      BY <2>2, <2>3
  <1>5. ASSUME NEW x \in Procs, Claim(x) \/ RequestFails(x) PROVE ProposalInv'
    <2>1. Stands(x, "got", id[x])
      BY <1>5, <1>d DEF Claim, RequestFails, Stands
    <2>2. Stands(x, IF x \in Loops THEN "idle" ELSE "threw", id[x])
      BY DEF Stands
    <2>3. QED
      BY <1>5, <1>c, <2>1, <2>2 DEF Claim, RequestFails
  <1>6. ASSUME NEW x \in Procs, StoreTerms(x) PROVE ProposalInv'
    <2>1. id[x] \in Stored /\ id[x] \in Calls
      BY <1>6, <1>d DEF StoreTerms, Stands, Stored
    <2>2. RecordsGrow
      <3>1. CASE status[id[x]] = "downloading"
        BY <1>6, <1>a, <2>1, <3>1, OneRecordChanges DEF StoreTerms, Decided
      <3>2. CASE status[id[x]] # "downloading"
        BY <1>6, <1>b, <3>2 DEF StoreTerms, db
      <3>3. QED
        BY <3>1, <3>2
    <2>3. Stands(x, IF x \in Loops THEN "idle" ELSE "check", id[x])'
      BY <1>6, <2>1 DEF StoreTerms, Stands, Procs
    <2>4. id' = [id EXCEPT ![x] = id[x]]
      BY <1>6 DEF StoreTerms, ProposalInv
    <2>5. QED
      BY <1>6, <2>1, <2>2, <2>3, <2>4, OneMoves DEF StoreTerms
  <1>7. ASSUME NEW x \in Procs, FailPermanently(x) PROVE ProposalInv'
    <2>1. id[x] \in Stored /\ id[x] \in Calls
      BY <1>7, <1>d DEF FailPermanently, Stands, Stored
    <2>2. RecordsGrow
      BY <1>7, <1>a, <2>1, OneRecordChanges DEF FailPermanently, Decided
    <2>3. Stands(x, IF x \in Loops THEN "idle" ELSE "threw", id[x])'
      BY DEF Stands
    <2>4. id' = [id EXCEPT ![x] = id[x]]
      BY <1>7 DEF FailPermanently, ProposalInv
    <2>5. QED
      BY <1>7, <2>1, <2>2, <2>3, <2>4, OneMoves DEF FailPermanently
  <1>8. ASSUME NEW k \in Calls, Check(k) PROVE ProposalInv'
    <2>1. k \in Procs
      BY DEF Procs
    <2>2. PICK place \in {"threw", "done", "returned"} :
              /\ at' = [at EXCEPT ![k] = place]
              /\ place = "returned" => id[k] \in terms
      BY <1>8 DEF Check
    <2>3. Stands(k, place, id[k])
      BY <2>2 DEF Stands
    <2>4. QED
      BY <1>8, <1>c, <2>1, <2>2, <2>3 DEF Check
  <1>9. ASSUME NEW k \in Calls, ConfirmRead(k) PROVE ProposalInv'
    <2>1. k \in Procs
      BY DEF Procs
    <2>2. Stands(k, "done", id[k]) /\ Stands(k, "confirm", id[k])
      BY <1>9, <1>d, <2>1 DEF ConfirmRead, Stands
    <2>3. QED
      BY <1>9, <1>c, <2>1, <2>2 DEF ConfirmRead
  <1>10. ASSUME NEW k \in Calls, ConfirmRecord(k) PROVE ProposalInv'
    <2>1. k \in Procs
      BY DEF Procs
    <2>2. id[k] \in terms /\ id[k] \in Stored /\ id[k] \in Calls
      BY <1>10, <1>a, <1>d, <2>1 DEF ConfirmRecord, Stands, RecordsInv, Stored
    <2>3. RecordsGrow
      BY <1>10, <1>a, <2>2, OneRecordChanges DEF ConfirmRecord, Decided
    <2>4. Stands(k, "done", id[k])' /\ id' = [id EXCEPT ![k] = id[k]]
      BY <1>10 DEF ConfirmRecord, ProposalInv, Stands
    <2>5. QED
      BY <1>10, <2>1, <2>2, <2>3, <2>4, OneMoves DEF ConfirmRecord
  <1>11. ASSUME NEW i \in Calls, RefuseProposal(i) PROVE ProposalInv'
    <2>1. i \in Stored
      BY <1>11 DEF RefuseProposal, Stored
    <2>2. RecordsGrow
      BY <1>11, <1>a, <2>1, OneRecordChanges DEF RefuseProposal, Decided
    <2>3. QED
      BY <1>11, <2>2, NobodyMoves DEF RefuseProposal
  <1>12. CASE OtherPurchase
    BY <1>12, <1>b, NobodyMoves DEF OtherPurchase
  <1>13. CASE UNCHANGED proposalVars
    BY <1>13, <1>b, NobodyMoves DEF proposalVars, db
  <1>14. QED
    BY <1>1, <1>2, <1>3, <1>4, <1>5, <1>6, <1>7, <1>8, <1>9, <1>10, <1>11, <1>12, <1>13
       DEF ProposalNext

LEMMA ProposalInvariant == ProposalSpec => []ProposalInv
  <1>1. ProposalInit => ProposalInv
    BY DEF ProposalInit, ProposalInv, RecordsInv, Stands, Stored
  <1>2. QED
    BY <1>1, ProposalStepInv, PTL DEF ProposalSpec

(* However many calls and downloads race, an order has one proposal.       *)
THEOREM OrderHasOneProposal == ProposalSpec => []OneProposalPerOrder
  <1>1. ASSUME ProposalInv PROVE OneProposalPerOrder
    <2>1. CASE Stored = {}
      BY <2>1, FS_EmptySet DEF OneProposalPerOrder
    <2>2. CASE Stored # {}
      <3>1. PICK i : Stored = {i}
        BY <1>1, <2>2 DEF ProposalInv, RecordsInv
      <3>2. QED
        BY <3>1, FS_Singleton DEF OneProposalPerOrder
    <2>3. QED
      BY <2>1, <2>2
  <1>2. QED
    BY <1>1, ProposalInvariant, PTL

(* A decision of the user is not undone, whatever download comes late: the *)
(* terms are read again before they are stored, and an order whose terms   *)
(* are not acceptable was never offered for acceptance.                    *)
THEOREM DecisionsStay == ProposalSpec => AcceptedStays
  <1> DEFINE Stays(i) ==
        /\ status[i] \in Decided => status'[i] \in Decided
        /\ status[i] = "accepted" => status'[i] = "accepted"
  <1>1. ASSUME ProposalInv, [ProposalNext]_proposalVars
        PROVE  [\A i \in Calls : Stays(i)]_proposalVars
    <2> SUFFICES ASSUME ProposalNext, NEW i \in Calls PROVE Stays(i)
      BY <1>1
    <2> USE DEF Decided
    <2>1. status \in [Calls -> {"absent", "downloading", "proposed"} \cup Decided]
      BY <1>1 DEF ProposalInv, RecordsInv
    <2>2. CASE UNCHANGED status
      BY <2>2
    <2>3. ASSUME NEW k \in Calls, Create(k) PROVE Stays(i)
      BY <2>1, <2>3 DEF Create, Stored
    <2>4. ASSUME NEW x \in Procs, StoreTerms(x) PROVE Stays(i)
      BY <2>1, <2>4 DEF StoreTerms
    <2>5. ASSUME NEW x \in Procs, FailPermanently(x) PROVE Stays(i)
      BY <1>1, <2>1, <2>5 DEF FailPermanently, ProposalInv, RecordsInv
    <2>6. ASSUME NEW k \in Calls, ConfirmRecord(k) PROVE Stays(i)
      BY <2>1, <2>6 DEF ConfirmRecord
    <2>7. ASSUME NEW j \in Calls, RefuseProposal(j) PROVE Stays(i)
      BY <2>1, <2>7 DEF RefuseProposal
    <2>8. QED
      BY <2>2, <2>3, <2>4, <2>5, <2>6, <2>7
         DEF ProposalNext, Prepare, Check, ConfirmRead, LoopDownload, Download, Claim,
             RequestFails, OtherPurchase, db
  <1>2. QED
    BY <1>1, ProposalInvariant, PTL DEF ProposalSpec, AcceptedStays

(* The variables keep their types.                                         *)
THEOREM ProposalTypeCorrect == ProposalSpec => []ProposalTypeOK
  <1> DEFINE Places == {"idle", "create", "download", "claim", "got", "check",
                        "returned", "threw", "confirm", "done"}
             OtherTypes == /\ purchases \subseteq Calls /\ at \in [Procs -> Places]
                           /\ claimed \in Calls \cup {None}
                           /\ termsOkay \in BOOLEAN /\ bought \in BOOLEAN
  <1>1. ProposalInit => OtherTypes
    BY DEF ProposalInit
  <1>2. ASSUME ProposalInv, OtherTypes, [ProposalNext]_proposalVars
        PROVE  OtherTypes'
    <2> USE DEF Goto, Then, db, merchant
    <2>1. \A x \in Procs : at[x] \in {"claim", "got", "confirm"} => id[x] \in Calls
      BY <1>2 DEF ProposalInv, RecordsInv, Stands, Stored
    <2>2. Calls \subseteq Procs /\ Loops \subseteq Procs
      BY DEF Procs
    <2>3. ASSUME NEW k \in Calls, Prepare(k) \/ Create(k) \/ Check(k) \/ ConfirmRead(k)
          PROVE  OtherTypes'
      BY <1>2, <2>2, <2>3 DEF Prepare, Create, Check, ConfirmRead
    <2>4. ASSUME NEW k \in Calls, ConfirmRecord(k) PROVE OtherTypes'
      BY <1>2, <2>1, <2>2, <2>4 DEF ConfirmRecord
    <2>5. ASSUME NEW l \in Loops, LoopDownload(l) PROVE OtherTypes'
      BY <1>2, <2>2, <2>5 DEF LoopDownload
    <2>6. ASSUME NEW x \in Procs, Download(x) \/ StoreTerms(x) \/ FailPermanently(x)
          PROVE  OtherTypes'
      BY <1>2, <2>6 DEF Download, StoreTerms, FailPermanently
    <2>7. ASSUME NEW x \in Procs, Claim(x) \/ RequestFails(x) PROVE OtherTypes'
      <3>1. claimed' \in Calls \cup {None}
        BY <1>2, <2>1, <2>7 DEF Claim, RequestFails
      <3>2. at' \in [Procs -> Places]
        BY <1>2, <2>7 DEF Claim, RequestFails
      <3>3. QED
        BY <1>2, <2>7, <3>1, <3>2 DEF Claim, RequestFails
    <2>8. ASSUME NEW j \in Calls, RefuseProposal(j) PROVE OtherTypes'
      BY <1>2, <2>8 DEF RefuseProposal
    <2>9. CASE OtherPurchase
      BY <1>2, <2>9 DEF OtherPurchase
    <2>10. CASE UNCHANGED proposalVars
      BY <1>2, <2>10 DEF proposalVars
    <2>11. QED
      BY <1>2, <2>3, <2>4, <2>5, <2>6, <2>7, <2>8, <2>9, <2>10 DEF ProposalNext
  <1>3. ProposalInv /\ OtherTypes => ProposalTypeOK
    BY DEF ProposalInv, RecordsInv, Stored, ProposalTypeOK
  <1>4. QED
    BY <1>1, <1>2, <1>3, ProposalInvariant, PTL DEF ProposalSpec

(* What was bought was accepted and has its terms, whatever is decided or  *)
(* downloaded while the call that buys is on its way.                      *)
THEOREM BoughtIsAccepted == ProposalSpec => []PurchaseWasAccepted
  <1> DEFINE AllAccepted == purchases \subseteq Calls /\ \A i \in purchases : status[i] = "accepted"
  <1>1. ProposalInit => AllAccepted
    BY DEF ProposalInit
  <1>2. ASSUME ProposalInv, AllAccepted, [ProposalNext]_proposalVars
        PROVE  AllAccepted'
    <2>1. status \in [Calls -> {"absent", "downloading", "proposed"} \cup Decided]
      BY <1>2 DEF ProposalInv, RecordsInv
    <2>2. CASE UNCHANGED db
      BY <1>2, <2>2 DEF db
    <2>3. ASSUME NEW k \in Calls, Create(k) PROVE AllAccepted'
      BY <1>2, <2>1, <2>3 DEF Create, Stored
    <2>4. ASSUME NEW x \in Procs, StoreTerms(x) PROVE AllAccepted'
      BY <1>2, <2>1, <2>4 DEF StoreTerms
    <2>5. ASSUME NEW x \in Procs, FailPermanently(x) PROVE AllAccepted'
      BY <1>2, <2>1, <2>5 DEF FailPermanently, ProposalInv, RecordsInv
    <2>6. ASSUME NEW k \in Calls, ConfirmRecord(k) PROVE AllAccepted'
      <3>1. id[k] \in Calls
        BY <1>2, <2>6 DEF ProposalInv, RecordsInv, Stands, ConfirmRecord, Stored, Procs
      <3>2. QED
        BY <1>2, <2>1, <2>6, <3>1 DEF ConfirmRecord
    <2>7. ASSUME NEW j \in Calls, RefuseProposal(j) PROVE AllAccepted'
      BY <1>2, <2>1, <2>7 DEF RefuseProposal
    <2>8. QED
      BY <1>2, <2>2, <2>3, <2>4, <2>5, <2>6, <2>7
         DEF ProposalNext, Prepare, Check, ConfirmRead, LoopDownload, Download, Claim,
             RequestFails, OtherPurchase, proposalVars, db
  <1>3. ProposalInv /\ AllAccepted => PurchaseWasAccepted
    BY DEF ProposalInv, RecordsInv, PurchaseWasAccepted
  <1>4. QED
    BY <1>1, <1>2, <1>3, ProposalInvariant, PTL DEF ProposalSpec

-----------------------------------------------------------------------------
(* Backups.  What a device has once put in its database stays there, so    *)
(* that a device has all the names that are in a blob whose hash it knows, *)
(* and exports them again, but for an exchange that is not complete.       *)
Kinds == AlwaysExported \cup {{"coin"}, {"reserve"}}

Within(S, T) == \A K \in Kinds : NamesIn(K, S) \subseteq NamesIn(K, T)

Has(d, b) == b # NoBlob => Within(b.content, database[d])
CoversBlob(b, c) == c # NoBlob => Covers(b.content, c.content)

DeviceOK(d) == Has(d, lastHash[d]) /\ (lastHash[d] # NoBlob => stored # NoBlob)

CycleOK(y) ==
    /\ Has(runsOn[y], ifMatch[y])
    /\ cycle[y] \in {"upload", "pay", "answered", "conflict", "imported"} => blob[y] \in Blobs
    /\ cycle[y] \in {"upload", "pay", "answered", "imported"} => Has(runsOn[y], blob[y])
    /\ cycle[y] \in {"upload", "pay"} => CoversBlob(blob[y], ifMatch[y])
    /\ ifMatch[y] # NoBlob \/ cycle[y] \in {"answered", "conflict", "imported"}
          => stored # NoBlob

BackupInv ==
    /\ BackupTypeOK
    /\ \A d \in Devices : DeviceOK(d)
    /\ \A y \in Cycles : CycleOK(y)

(* A record says what kind it is of, and a proposal what it proposes.      *)
LEMMA KindsOfRecords ==
    ASSUME NEW r \in BackupRecords
    PROVE  /\ r.kind \in {"coin", "proposal", "byKey", "purchase", "tip", "reserve",
                          "denominations"}
           /\ r.kind = "proposal" => r.of \in Orders /\ r = ProposalRecord(r.of)
           /\ r.kind \in {"tip", "reserve"} =>
                 [kind |-> r.kind, of |-> r.of, selection |-> "empty"] \in BackupRecords
  <1>1. /\ \A t \in Tips : TipRecord(t, "empty") \in BackupRecords
        /\ \A v \in Reserves : ReserveRecord(v, "empty") \in BackupRecords
    BY DEF BackupRecords, SelectionKinds
  <1>2. CASE r \in {TipRecord(t, f) : t \in Tips, f \in SelectionKinds}
    <2>1. PICK t \in Tips, f \in SelectionKinds : r = TipRecord(t, f)
      BY <1>2
    <2>2. r.kind = "tip" /\ r.of = t
      BY <2>1 DEF TipRecord
    <2>3. QED
      BY <1>1, <2>2 DEF TipRecord
  <1>3. CASE r \in {ReserveRecord(v, f) : v \in Reserves, f \in SelectionKinds}
    <2>1. PICK v \in Reserves, f \in SelectionKinds : r = ReserveRecord(v, f)
      BY <1>3
    <2>2. r.kind = "reserve" /\ r.of = v
      BY <2>1 DEF ReserveRecord
    <2>3. QED
      BY <1>1, <2>2 DEF ReserveRecord
  <1>4. CASE r \notin {TipRecord(t, f) : t \in Tips, f \in SelectionKinds}
                    \cup {ReserveRecord(v, f) : v \in Reserves, f \in SelectionKinds}
    BY <1>4 DEF BackupRecords, CoinRecord, ProposalRecord, ProposalByKey, PurchaseRecord,
                Denominations
  <1>5. QED
    BY <1>2, <1>3, <1>4

(* An export names nothing that is not there.  It names every order, every *)
(* purchase and every tip, and the coins and reserves of an exchange whose *)
(* denominations it contains.                                              *)
LEMMA ExportKeeps ==
    ASSUME NEW S \in SUBSET BackupRecords, NEW x \in ExchangeStages
    PROVE  /\ Exported(S, x) \in SUBSET BackupRecords
           /\ Within(Exported(S, x), S)
           /\ Covers(Exported(S, x), S)
  <1> DEFINE Open == {p \in Orders : ProposalRecord(p) \in S} \ BoughtIn(S)
             Same == {r \in S : /\ r.kind # "proposal"
                                /\ r.kind \in PartsOfExchange => x = "complete"}
             Keys == {ProposalByKey(o) : o \in Open}
             E == Same \cup Keys
  <1>1. Exported(S, x) = E
    BY DEF Exported
  <1>2. Keys \subseteq BackupRecords
    BY DEF BackupRecords
  <1>3. \A r \in Keys : r.kind = "byKey" /\ \E o \in Open : r = ProposalByKey(o) /\ r.of = o
    BY DEF ProposalByKey
  <1>4. \A o \in Open : ProposalRecord(o) \in S /\ ProposalRecord(o).of = o
                       /\ ProposalRecord(o).kind = "proposal"
    BY DEF ProposalRecord
  <1>5. \A o \in Open : ProposalByKey(o) \in Keys /\ ProposalByKey(o).of = o
                       /\ ProposalByKey(o).kind = "byKey"
    BY DEF ProposalByKey
  <1>6. Within(E, S)
    <2>1. ASSUME NEW K \in Kinds, NEW q \in E, q.kind \in K
          PROVE  \E r \in S : r.kind \in K /\ r.of = q.of
      <3>1. CASE q \in Same
        BY <2>1, <3>1
      <3>2. CASE q \in Keys
        <4>1. K = {"proposal", "byKey", "purchase"}
          BY <1>3, <2>1, <3>2 DEF Kinds, AlwaysExported
        <4>2. QED
          BY <1>3, <1>4, <3>2, <4>1
      <3>3. QED
        BY <3>1, <3>2
    <2>2. QED
      BY <2>1 DEF Within, NamesIn
  <1>7. ASSUME NEW K \in AlwaysExported, NEW r \in S, r.kind \in K
        PROVE  \E q \in E : q.kind \in K /\ q.of = r.of
    <2>1. CASE r.kind # "proposal"
      BY <1>7, <2>1 DEF AlwaysExported, PartsOfExchange
    <2>2. CASE r.kind = "proposal"
      <3>1. r.of \in Orders /\ r = ProposalRecord(r.of) /\ K = {"proposal", "byKey", "purchase"}
        BY <1>7, <2>2, KindsOfRecords DEF AlwaysExported
      <3>2. CASE r.of \in BoughtIn(S)
        BY <3>1, <3>2 DEF BoughtIn, PurchasesIn, PartsOfExchange
      <3>3. CASE r.of \notin BoughtIn(S)
        <4>1. r.of \in Open
          BY <3>1, <3>3
        <4>2. QED
          BY <1>5, <3>1, <4>1
      <3>4. QED
        BY <3>2, <3>3
    <2>3. QED
      BY <2>1, <2>2
  <1>8. ASSUME Denominations \in E, NEW r \in S, r.kind \in {"coin", "reserve"}
        PROVE  r \in E
    BY <1>3, <1>8 DEF Denominations, PartsOfExchange
  <1>9. Covers(E, S)
    <2>1. \A K \in AlwaysExported : NamesIn(K, S) \subseteq NamesIn(K, E)
      BY <1>7 DEF NamesIn
    <2>2. ASSUME Denominations \in E, NEW K \in {{"coin"}, {"reserve"}}
          PROVE  NamesIn(K, S) \subseteq NamesIn(K, E)
      BY <1>8, <2>2 DEF NamesIn
    <2>3. QED
      BY <2>1, <2>2 DEF Covers
  <1>10. QED
    BY <1>1, <1>2, <1>6, <1>9

(* An import loses nothing, and puts all that the backup names.            *)
LEMMA MergeKeeps ==
    ASSUME NEW S \in SUBSET BackupRecords, NEW new \in SUBSET BackupRecords
    PROVE  /\ Merged(S, new) \in SUBSET BackupRecords
           /\ S \subseteq Merged(S, new)
           /\ Within(new, Merged(S, new))
  <1> DEFINE Emptied == {[kind |-> r.kind, of |-> r.of, selection |-> "empty"] :
                           r \in Unknown(S, new)}
             Plain == {r \in new : r.kind \notin {"tip", "reserve"}}
  <1>1. Merged(S, new) = S \cup Plain \cup Emptied
    BY DEF Merged
  <1>2. \A r \in Unknown(S, new) : r \in BackupRecords /\ r.kind \in {"tip", "reserve"}
    BY DEF Unknown
  <1>3. Emptied \subseteq BackupRecords
    BY <1>2, KindsOfRecords
  <1>4. ASSUME NEW r \in new
        PROVE  \E q \in S \cup Plain \cup Emptied : q.kind = r.kind /\ q.of = r.of
    <2>1. CASE r.kind \notin {"tip", "reserve"}
      BY <2>1
    <2>2. CASE r \in Unknown(S, new)
      <3> DEFINE q == [kind |-> r.kind, of |-> r.of, selection |-> "empty"]
      <3>1. q \in Emptied
        BY <2>2
      <3>2. q.kind = r.kind /\ q.of = r.of
        OBVIOUS
      <3>3. QED
        BY <3>1, <3>2, Zenon
    <2>3. CASE r.kind \in {"tip", "reserve"} /\ r \notin Unknown(S, new)
      BY <2>3 DEF Unknown
    <2>4. QED
      BY <2>1, <2>2, <2>3
  <1>5. Within(new, S \cup Plain \cup Emptied)
    <2> HIDE DEF Plain, Emptied
    <2>1. QED
      BY <1>4 DEF Within, NamesIn
  <1>6. QED
    BY <1>1, <1>3, <1>5

LEMMA WithinGrows ==
    ASSUME NEW S, NEW T, NEW U, Within(S, T), T \subseteq U
    PROVE  Within(S, U)
  BY DEF Within, NamesIn

(* What grows on a device, and at the provider, makes nothing wrong.       *)
GrowOn == \A d \in Devices : database[d] \subseteq database'[d]
GrowAt == stored # NoBlob => stored' # NoBlob

LEMMA HasStays ==
    ASSUME GrowOn, NEW d \in Devices, NEW b, Has(d, b)
    PROVE  b # NoBlob => Within(b.content, database'[d])
  BY WithinGrows DEF GrowOn, Has

LEMMA DevicesStay ==
    ASSUME GrowOn, GrowAt, NEW d \in Devices, DeviceOK(d), lastHash'[d] \in {lastHash[d], NoBlob}
    PROVE  DeviceOK(d)'
  BY HasStays DEF GrowAt, DeviceOK, Has

LEMMA CyclesStay ==
    ASSUME GrowOn, GrowAt, BackupTypeOK, NEW y \in Cycles, CycleOK(y), cycle'[y] = cycle[y],
           runsOn'[y] = runsOn[y], ifMatch'[y] = ifMatch[y], blob'[y] = blob[y]
    PROVE  CycleOK(y)'
  <1>1. runsOn[y] \in Devices
    BY DEF BackupTypeOK
  <1>2. Has(runsOn[y], ifMatch[y]) => Has(runsOn[y], ifMatch[y])'
    BY <1>1, HasStays DEF Has
  <1>3. Has(runsOn[y], blob[y]) => Has(runsOn[y], blob[y])'
    BY <1>1, HasStays DEF Has
  <1>4. QED
    BY <1>2, <1>3 DEF CycleOK, GrowAt, CoversBlob

(* A cycle that is over knows nothing.                                     *)
LEMMA EndedCycle ==
    ASSUME BackupTypeOK, NEW y \in Cycles, EndCycle(y)
    PROVE  /\ CycleOK(y)'
           /\ \A x \in Cycles \ {y} :
                 /\ cycle'[x] = cycle[x] /\ runsOn'[x] = runsOn[x]
                 /\ ifMatch'[x] = ifMatch[x] /\ blob'[x] = blob[x]
  <1>1. /\ DOMAIN cycle = Cycles /\ DOMAIN runsOn = Cycles /\ DOMAIN ifMatch = Cycles
        /\ DOMAIN blob = Cycles
    BY DEF BackupTypeOK
  <1>2. cycle'[y] = "idle" /\ ifMatch'[y] = NoBlob
    BY <1>1 DEF EndCycle, Proceed
  <1>3. CycleOK(y)'
    BY <1>2 DEF CycleOK, Has, CoversBlob
  <1>4. QED
    BY <1>1, <1>3 DEF EndCycle, Proceed

(* The variables keep their types; they are enough for each cycle's own.   *)
CycleTypes ==
    /\ cycle \in [Cycles -> {"idle", "export", "upload", "answered", "pay", "conflict",
                             "imported"}]
    /\ runsOn \in [Cycles -> Devices]
    /\ ifMatch \in [Cycles -> Blobs \cup {NoBlob}] /\ blob \in [Cycles -> Blobs \cup {NoBlob}]
    /\ mayRetry \in [Cycles -> BOOLEAN]

LEMMA EndTypes ==
    ASSUME CycleTypes, NEW y \in Cycles, EndCycle(y)
    PROVE  CycleTypes'
  BY BackupAssumption DEF CycleTypes, EndCycle, Proceed

LEMMA ContinueTypes ==
    ASSUME CycleTypes, NEW y \in Cycles, NEW b \in Blobs \cup {NoBlob},
           NEW s \in {"upload", "answered", "pay", "conflict", "imported"}, Continue(y, s, b)
    PROVE  CycleTypes'
  BY DEF CycleTypes, Continue, Proceed

LEMMA CycleTypesStep ==
    ASSUME BackupTypeOK, BackupNext
    PROVE  CycleTypes'
  <1>1. CycleTypes /\ stored \in Blobs \cup {NoBlob}
    BY DEF BackupTypeOK, CycleTypes
  <1>2. ASSUME NEW y \in Cycles, FailCycle(y) \/ StoreHash(y) \/ NoteImport(y) PROVE CycleTypes'
    BY <1>1, <1>2, EndTypes DEF FailCycle, StoreHash, NoteImport
  <1>3. ASSUME NEW y \in Cycles, NEW d \in Devices, StartCycle(y, d) PROVE CycleTypes'
    BY <1>1, <1>3 DEF StartCycle, Proceed, CycleTypes, BackupTypeOK
  <1>4. ASSUME NEW y \in Cycles, Export(y) PROVE CycleTypes'
    <2> DEFINE d == runsOn[y]
               new == Exported(database[d], exchangeAt[d])
               tick == IF plain[d] = new THEN clock[d] ELSE clock[d] + 1
               made == [by |-> d, clock |-> tick, content |-> new]
    <2>1. /\ d \in Devices /\ tick \in Nat /\ database[d] \in SUBSET BackupRecords
          /\ exchangeAt[d] \in ExchangeStages
      BY DEF BackupTypeOK
    <2>2. made \in Blobs
      BY <2>1, ExportKeeps DEF Blobs
    <2>3. Continue(y, "upload", made)
      BY <1>4 DEF Export
    <2>4. QED
      BY <1>1, <2>2, <2>3, ContinueTypes
  <1>5. ASSUME NEW y \in Cycles, Upload(y) PROVE CycleTypes'
    <2>1. blob[y] \in Blobs \cup {NoBlob}
      BY <1>1 DEF CycleTypes
    <2>2. QED
      BY <1>1, <1>5, <2>1, EndTypes, ContinueTypes DEF Upload, Answer
  <1>6. ASSUME NEW y \in Cycles, PayProvider(y) PROVE CycleTypes'
    <2>1. CASE EndCycle(y)
      BY <1>1, <2>1, EndTypes
    <2>2. CASE ~EndCycle(y)
      <3>1. /\ Proceed(y, "upload") /\ mayRetry' = [mayRetry EXCEPT ![y] = FALSE]
            /\ UNCHANGED <<runsOn, blob, ifMatch>>
        BY <1>6, <2>2 DEF PayProvider
      <3>2. QED
        BY <1>1, <3>1 DEF CycleTypes, Proceed
    <2>3. QED
      BY <2>1, <2>2
  <1>7. ASSUME NEW y \in Cycles, Import(y) PROVE CycleTypes'
    <2>1. blob[y] \in Blobs \cup {NoBlob}
      BY <1>1 DEF CycleTypes
    <2>2. QED
      BY <1>1, <1>7, <2>1, EndTypes, ContinueTypes DEF Import
  <1>8. CASE UNCHANGED backupCycles
    BY <1>1, <1>8 DEF CycleTypes, backupCycles
  <1>9. QED
    BY <1>2, <1>3, <1>4, <1>5, <1>6, <1>7, <1>8
       DEF BackupNext, CycleStep, LoadRecovery, NewRecord, ExchangeStep, FindNoExchange,
           PutExchange, UpdateExchange

LEMMA BackupTypeStep ==
    ASSUME BackupInv, BackupNext
    PROVE  BackupTypeOK'
  <1> USE DEF BackupInv
  <1>1. CycleTypes'
    BY CycleTypesStep
  <1>2. \A y \in Cycles : runsOn[y] \in Devices /\ blob[y] \in Blobs \cup {NoBlob}
    BY DEF BackupTypeOK
  <1>3. database' \in [Devices -> SUBSET BackupRecords]
    <2>1. database \in [Devices -> SUBSET BackupRecords]
      BY DEF BackupTypeOK
    <2>2. ASSUME NEW y \in Cycles, Import(y) PROVE database' \in [Devices -> SUBSET BackupRecords]
      <3>1. blob[y] \in Blobs
        BY <2>2 DEF CycleOK, Import
      <3>2. Merged(database[runsOn[y]], blob[y].content) \in SUBSET BackupRecords
        BY <1>2, <2>1, <3>1, MergeKeeps DEF Blobs
      <3>3. QED
        BY <1>2, <2>1, <2>2, <3>2 DEF Import, ImportInto
    <2>3. ASSUME NEW d \in Devices, NEW r \in BackupRecords, NewRecord(d, r)
          PROVE  database' \in [Devices -> SUBSET BackupRecords]
      BY <2>1, <2>3 DEF NewRecord
    <2>4. ASSUME NEW d \in Devices, ExchangeStep(d)
          PROVE  database' \in [Devices -> SUBSET BackupRecords]
      <3>1. Denominations \in BackupRecords
        BY DEF BackupRecords
      <3>2. QED
        BY <2>1, <2>4, <3>1 DEF ExchangeStep, FindNoExchange, PutExchange, UpdateExchange
    <2>5. QED
      BY <2>1, <2>2, <2>3, <2>4
         DEF BackupNext, CycleStep, FailCycle, StartCycle, Export, Upload, Answer, PayProvider,
             StoreHash, NoteImport, LoadRecovery, onDevices
  <1>4. joined' \subseteq Devices
    BY DEF BackupTypeOK, BackupNext, CycleStep, FailCycle, StartCycle, Export, Upload, Answer,
           PayProvider, StoreHash, Import, NoteImport, LoadRecovery, NewRecord,
           ExchangeStep, FindNoExchange, PutExchange, UpdateExchange
  <1>5. clock' \in [Devices -> Nat] /\ plain' \in [Devices -> (SUBSET BackupRecords) \cup {NoBlob}]
    <2>1. /\ clock \in [Devices -> Nat] /\ database \in [Devices -> SUBSET BackupRecords]
          /\ plain \in [Devices -> (SUBSET BackupRecords) \cup {NoBlob}]
      BY DEF BackupTypeOK
    <2>2. ASSUME NEW y \in Cycles, Export(y)
          PROVE  /\ clock' \in [Devices -> Nat]
                 /\ plain' \in [Devices -> (SUBSET BackupRecords) \cup {NoBlob}]
      <3>1. Exported(database[runsOn[y]], exchangeAt[runsOn[y]]) \in SUBSET BackupRecords
        BY <1>2, <2>1, ExportKeeps DEF BackupTypeOK
      <3>2. clock' \in [Devices -> Nat]
        BY <1>2, <2>1, <2>2 DEF Export
      <3>3. plain' \in [Devices -> (SUBSET BackupRecords) \cup {NoBlob}]
        BY <1>2, <2>1, <2>2, <3>1 DEF Export
      <3>4. QED
        BY <3>2, <3>3
    <2>3. ASSUME NEW d \in Devices, LoadRecovery(d)
          PROVE  /\ clock' \in [Devices -> Nat]
                 /\ plain' \in [Devices -> (SUBSET BackupRecords) \cup {NoBlob}]
      BY <2>1, <2>3 DEF LoadRecovery
    <2>4. QED
      BY <2>1, <2>2, <2>3
         DEF BackupNext, CycleStep, FailCycle, StartCycle, Upload, Answer, PayProvider,
             StoreHash, Import, NoteImport, NewRecord, ExchangeStep, FindNoExchange, PutExchange,
             UpdateExchange
  <1>6. lastHash' \in [Devices -> Blobs \cup {NoBlob}] /\ stored' \in Blobs \cup {NoBlob}
    <2>1. lastHash \in [Devices -> Blobs \cup {NoBlob}] /\ stored \in Blobs \cup {NoBlob}
      BY DEF BackupTypeOK
    <2>2. ASSUME NEW y \in Cycles, StoreHash(y) \/ NoteImport(y) \/ Upload(y)
          PROVE  lastHash' \in [Devices -> Blobs \cup {NoBlob}] /\ stored' \in Blobs \cup {NoBlob}
      BY <1>2, <2>1, <2>2 DEF StoreHash, NoteImport, Upload, Answer
    <2>3. ASSUME NEW d \in Devices, LoadRecovery(d)
          PROVE  lastHash' \in [Devices -> Blobs \cup {NoBlob}] /\ stored' \in Blobs \cup {NoBlob}
      BY <2>1, <2>3 DEF LoadRecovery
    <2>4. QED
      BY <2>1, <2>2, <2>3
         DEF BackupNext, CycleStep, FailCycle, StartCycle, Export, PayProvider, Import, NewRecord,
             ExchangeStep, FindNoExchange, PutExchange, UpdateExchange
  <1>7. paid' \in BOOLEAN
    BY DEF BackupTypeOK, BackupNext, CycleStep, FailCycle, StartCycle, Export, Upload, Answer,
           PayProvider, StoreHash, Import, NoteImport, LoadRecovery, NewRecord,
           ExchangeStep, FindNoExchange, PutExchange, UpdateExchange
  <1>8. newRecords' \in 0..MaxNewRecords
    <2>1. newRecords' = newRecords \/ (newRecords < MaxNewRecords /\ newRecords' = newRecords + 1)
      BY DEF BackupNext, CycleStep, FailCycle, StartCycle, Export, Upload, Answer, PayProvider,
             StoreHash, Import, NoteImport, LoadRecovery, NewRecord,
           ExchangeStep, FindNoExchange, PutExchange, UpdateExchange
    <2>2. newRecords \in 0..MaxNewRecords
      BY DEF BackupTypeOK
    <2>3. QED
      BY <2>1, <2>2, BackupAssumption
  <1>9. backupTroubles' \in 0..MaxBackupTroubles
    <2>1. \/ backupTroubles' = backupTroubles
          \/ backupTroubles < MaxBackupTroubles /\ backupTroubles' = backupTroubles + 1
      BY DEF BackupNext, CycleStep, FailCycle, StartCycle, Export, Upload, Answer, PayProvider,
             StoreHash, Import, NoteImport, LoadRecovery, NewRecord, BackupTrouble, ExchangeStep,
             FindNoExchange, PutExchange, UpdateExchange
    <2>2. backupTroubles \in 0..MaxBackupTroubles
      BY DEF BackupTypeOK
    <2>3. QED
      BY <2>1, <2>2, BackupAssumption
  <1>10. exchangeAt' \in [Devices -> ExchangeStages] /\ adding' \subseteq Devices
    <2>1. exchangeAt \in [Devices -> ExchangeStages] /\ adding \subseteq Devices
      BY DEF BackupTypeOK
    <2>2. ASSUME NEW d \in Devices, ExchangeStep(d)
          PROVE  exchangeAt' \in [Devices -> ExchangeStages] /\ adding' \subseteq Devices
      BY <2>1, <2>2
         DEF ExchangeStep, FindNoExchange, PutExchange, UpdateExchange, NextStage, ExchangeStages
    <2>3. ASSUME NEW y \in Cycles, Import(y)
          PROVE  exchangeAt' \in [Devices -> ExchangeStages] /\ adding' \subseteq Devices
      BY <2>1, <2>3 DEF Import, ImportInto, ExchangeStages
    <2>4. QED
      BY <2>1, <2>2, <2>3
         DEF BackupNext, CycleStep, FailCycle, StartCycle, Export, Upload, Answer, PayProvider,
             StoreHash, NoteImport, LoadRecovery, NewRecord, onDevices, exchangeRecords
  <1>11. QED
    BY <1>1, <1>3, <1>4, <1>5, <1>6, <1>7, <1>8, <1>9, <1>10, Zenon DEF BackupTypeOK, CycleTypes

(* The other cycles and the devices, when one cycle has done its step.     *)
LEMMA OneCycleMoves ==
    ASSUME BackupInv, GrowOn, GrowAt, NEW y \in Cycles, CycleOK(y)',
           \A x \in Cycles \ {y} :
              /\ cycle'[x] = cycle[x] /\ runsOn'[x] = runsOn[x]
              /\ ifMatch'[x] = ifMatch[x] /\ blob'[x] = blob[x],
           \A d \in Devices : lastHash'[d] = lastHash[d] \/ DeviceOK(d)'
    PROVE  (\A d \in Devices : DeviceOK(d)') /\ (\A x \in Cycles : CycleOK(x)')
  BY DevicesStay, CyclesStay DEF BackupInv

LEMMA ExportInv ==
    ASSUME BackupInv, NEW y \in Cycles, Export(y)
    PROVE  (\A d \in Devices : DeviceOK(d)') /\ (\A x \in Cycles : CycleOK(x)')
  <1> DEFINE d == runsOn[y]
             new == Exported(database[d], exchangeAt[d])
             tick == IF plain[d] = new THEN clock[d] ELSE clock[d] + 1
             made == [by |-> d, clock |-> tick, content |-> new]
  <1>1. /\ d \in Devices /\ tick \in Nat /\ database[d] \in SUBSET BackupRecords
        /\ exchangeAt[d] \in ExchangeStages
    BY DEF BackupInv, BackupTypeOK
  <1>2. made \in Blobs /\ made.content = Exported(database[d], exchangeAt[d])
    BY <1>1, ExportKeeps DEF Blobs
  <1>3. Continue(y, "upload", made) /\ UNCHANGED <<database, lastHash, stored>>
    BY DEF Export, onDevices
  <1>4. Within(made.content, database[d]) /\ Covers(made.content, database[d])
    BY <1>1, <1>2, ExportKeeps
  <1>5. Has(d, ifMatch[y]) /\ (ifMatch[y] # NoBlob => stored # NoBlob)
    BY DEF BackupInv, CycleOK
  <1>6. Has(d, made)
    BY <1>4 DEF Has
  <1>7. CoversBlob(made, ifMatch[y])
    BY <1>4, <1>5 DEF CoversBlob, Covers, Has, Within, Kinds
  <1>8. /\ cycle'[y] = "upload" /\ blob'[y] = made /\ runsOn'[y] = d /\ ifMatch'[y] = ifMatch[y]
        /\ \A x \in Cycles \ {y} :
              /\ cycle'[x] = cycle[x] /\ runsOn'[x] = runsOn[x]
              /\ ifMatch'[x] = ifMatch[x] /\ blob'[x] = blob[x]
    BY <1>3 DEF Continue, Proceed, BackupInv, BackupTypeOK
  <1>9. CycleOK(y)'
    <2> HIDE DEF made, d
    <2>1. Has(runsOn[y], ifMatch[y])' /\ Has(runsOn[y], blob[y])'
      BY <1>3, <1>5, <1>6, <1>8 DEF Has
    <2>2. CoversBlob(blob[y], ifMatch[y])'
      BY <1>7, <1>8 DEF CoversBlob
    <2>3. QED
      BY <1>2, <1>3, <1>5, <1>8, <2>1, <2>2 DEF CycleOK
  <1>10. QED
    BY <1>3, <1>8, <1>9, OneCycleMoves DEF GrowOn, GrowAt

LEMMA UploadInv ==
    ASSUME BackupInv, NEW y \in Cycles, Upload(y)
    PROVE  (\A d \in Devices : DeviceOK(d)') /\ (\A x \in Cycles : CycleOK(x)')
  <1>1. /\ cycle[y] = "upload" /\ CycleOK(y) /\ BackupTypeOK /\ UNCHANGED <<database, lastHash>>
        /\ blob[y] \in Blobs /\ blob[y] # NoBlob
    BY BackupAssumption DEF BackupInv, CycleOK, Upload, Answer, onDevices
  <1>2. CASE EndCycle(y) /\ UNCHANGED stored
    BY <1>1, <1>2, EndedCycle, OneCycleMoves DEF GrowOn, GrowAt
  <1>3. ASSUME NEW s \in {"answered", "pay", "conflict"}, NEW b, Continue(y, s, b)
        PROVE  /\ cycle'[y] = s /\ blob'[y] = b /\ runsOn'[y] = runsOn[y]
               /\ ifMatch'[y] = ifMatch[y]
               /\ \A x \in Cycles \ {y} :
                     /\ cycle'[x] = cycle[x] /\ runsOn'[x] = runsOn[x]
                     /\ ifMatch'[x] = ifMatch[x] /\ blob'[x] = blob[x]
    BY <1>1, <1>3 DEF Continue, Proceed, BackupTypeOK
  <1>4. CASE Continue(y, "pay", blob[y]) /\ UNCHANGED stored
    <2>1. CycleOK(y)'
      BY <1>1, <1>3, <1>4 DEF CycleOK, Has, CoversBlob
    <2>2. QED
      BY <1>1, <1>3, <1>4, <2>1, OneCycleMoves DEF GrowOn, GrowAt
  <1>5. CASE /\ Continue(y, "conflict", stored) /\ stored \notin {blob[y], ifMatch[y]}
             /\ UNCHANGED stored
    <2>1. stored \in Blobs /\ stored # NoBlob
      BY <1>1, <1>5, BackupAssumption DEF CycleOK, BackupTypeOK
    <2>2. CycleOK(y)'
      BY <1>1, <1>3, <1>5, <2>1 DEF CycleOK, Has, CoversBlob
    <2>3. QED
      BY <1>1, <1>3, <1>5, <2>2, OneCycleMoves DEF GrowOn, GrowAt
  <1>6. CASE Continue(y, "answered", blob[y]) /\ stored' = blob[y]
    <2>1. CycleOK(y)'
      BY <1>1, <1>3, <1>6 DEF CycleOK, Has, CoversBlob
    <2>2. QED
      BY <1>1, <1>3, <1>6, <2>1, OneCycleMoves DEF GrowOn, GrowAt
  <1>7. QED
    BY <1>2, <1>4, <1>5, <1>6 DEF Upload, Answer

LEMMA ImportInv ==
    ASSUME BackupInv, NEW y \in Cycles, Import(y)
    PROVE  (\A d \in Devices : DeviceOK(d)') /\ (\A x \in Cycles : CycleOK(x)')
  <1> DEFINE d == runsOn[y]
  <1>1. /\ cycle[y] = "conflict" /\ CycleOK(y) /\ BackupTypeOK /\ d \in Devices
        /\ UNCHANGED <<lastHash, stored>>
    BY DEF BackupInv, BackupTypeOK, Import
  <1>2. CASE EndCycle(y) /\ UNCHANGED <<database, exchangeAt>>
    BY <1>1, <1>2, EndedCycle, OneCycleMoves DEF GrowOn, GrowAt
  <1>3. CASE ImportInto(d, blob[y].content) /\ Continue(y, "imported", blob[y])
    <2>1. /\ cycle'[y] = "imported" /\ blob'[y] = blob[y] /\ runsOn'[y] = d
          /\ ifMatch'[y] = ifMatch[y]
          /\ \A x \in Cycles \ {y} :
                /\ cycle'[x] = cycle[x] /\ runsOn'[x] = runsOn[x]
                /\ ifMatch'[x] = ifMatch[x] /\ blob'[x] = blob[x]
      BY <1>1, <1>3 DEF Continue, Proceed, BackupTypeOK
    <2>2. /\ database'[d] = Merged(database[d], blob[y].content) /\ GrowOn
          /\ Within(blob[y].content, database'[d])
      <3>1. blob[y].content \in SUBSET BackupRecords /\ database[d] \in SUBSET BackupRecords
        BY <1>1 DEF CycleOK, Blobs, BackupTypeOK
      <3>2. /\ database'[d] = Merged(database[d], blob[y].content)
            /\ \A e \in Devices \ {d} : database'[e] = database[e]
        BY <1>1, <1>3 DEF ImportInto, BackupTypeOK
      <3>3. QED
        BY <3>1, <3>2, MergeKeeps DEF GrowOn
    <2>3. Has(d, blob[y])'
      BY <2>1, <2>2 DEF Has
    <2>4. Has(d, ifMatch[y])'
      BY <1>1, <2>1, <2>2, HasStays DEF CycleOK, Has
    <2>5. stored # NoBlob
      BY <1>1 DEF CycleOK
    <2>6. CycleOK(y)'
      BY <1>1, <2>1, <2>3, <2>4, <2>5 DEF CycleOK, Has
    <2>7. QED
      BY <1>1, <2>1, <2>2, <2>6, OneCycleMoves DEF GrowAt
  <1>4. QED
    BY <1>2, <1>3 DEF Import

LEMMA AddingInv ==
    ASSUME BackupInv, NEW d \in Devices, ExchangeStep(d)
    PROVE  (\A e \in Devices : DeviceOK(e)') /\ (\A x \in Cycles : CycleOK(x)')
  <1>1. UNCHANGED <<lastHash, stored, cycle, runsOn, ifMatch, blob>>
    BY DEF ExchangeStep, FindNoExchange, PutExchange, UpdateExchange, backupCycles
  <1>2. GrowOn
    BY DEF ExchangeStep, FindNoExchange, PutExchange, UpdateExchange, BackupInv, BackupTypeOK,
           GrowOn
  <1>3. GrowAt /\ BackupTypeOK
    BY <1>1 DEF BackupInv, GrowAt
  <1>4. \A e \in Devices : DeviceOK(e)'
    BY <1>1, <1>2, <1>3, DevicesStay DEF BackupInv
  <1>5. \A x \in Cycles : CycleOK(x)'
    BY <1>1, <1>2, <1>3, CyclesStay DEF BackupInv
  <1>6. QED
    BY <1>4, <1>5

(* Every step keeps the invariant.                                         *)
LEMMA BackupInvNext == BackupInv /\ [BackupNext]_backupVars => BackupInv'
  <1> SUFFICES ASSUME BackupInv, [BackupNext]_backupVars PROVE BackupInv'
    OBVIOUS
  <1>1. CASE UNCHANGED backupVars
    BY <1>1 DEF backupVars, BackupInv, BackupTypeOK, DeviceOK, CycleOK, Has, CoversBlob
  <1>2. ASSUME BackupNext
        PROVE  (\A d \in Devices : DeviceOK(d)') /\ (\A x \in Cycles : CycleOK(x)')
    <2>1. ASSUME NEW y \in Cycles, FailCycle(y)
          PROVE  (\A d \in Devices : DeviceOK(d)') /\ (\A x \in Cycles : CycleOK(x)')
      BY <2>1, EndedCycle, OneCycleMoves DEF FailCycle, BackupInv, GrowOn, GrowAt, onDevices
    <2>2. ASSUME NEW y \in Cycles, StoreHash(y) \/ NoteImport(y)
          PROVE  (\A d \in Devices : DeviceOK(d)') /\ (\A x \in Cycles : CycleOK(x)')
      <3>1. /\ EndCycle(y) /\ lastHash' = [lastHash EXCEPT ![runsOn[y]] = blob[y]]
            /\ UNCHANGED <<database, stored>> /\ cycle[y] \in {"answered", "imported"}
        BY <2>2 DEF StoreHash, NoteImport, onDevices
      <3>2. Has(runsOn[y], blob[y]) /\ stored # NoBlob
        BY <3>1 DEF BackupInv, CycleOK
      <3>3. \A d \in Devices : lastHash'[d] = lastHash[d] \/ DeviceOK(d)'
        BY <3>1, <3>2 DEF BackupInv, BackupTypeOK, DeviceOK, Has
      <3>4. QED
        BY <3>1, <3>3, EndedCycle, OneCycleMoves DEF BackupInv, GrowOn, GrowAt
    <2>3. ASSUME NEW y \in Cycles, NEW d \in Devices, StartCycle(y, d)
          PROVE  (\A e \in Devices : DeviceOK(e)') /\ (\A x \in Cycles : CycleOK(x)')
      <3>1. /\ cycle'[y] = "export" /\ runsOn'[y] = d /\ ifMatch'[y] = lastHash[d]
            /\ UNCHANGED <<database, stored, lastHash, blob>>
            /\ \A x \in Cycles \ {y} :
                  /\ cycle'[x] = cycle[x] /\ runsOn'[x] = runsOn[x]
                  /\ ifMatch'[x] = ifMatch[x]
        BY <2>3 DEF StartCycle, Proceed, BackupInv, BackupTypeOK, onDevices
      <3>2. CycleOK(y)'
        BY <3>1 DEF BackupInv, DeviceOK, CycleOK, Has
      <3>3. QED
        BY <3>1, <3>2, OneCycleMoves DEF GrowOn, GrowAt
    <2>4. ASSUME NEW y \in Cycles, PayProvider(y)
          PROVE  (\A d \in Devices : DeviceOK(d)') /\ (\A x \in Cycles : CycleOK(x)')
      <3>1. UNCHANGED <<database, lastHash, stored>> /\ cycle[y] = "pay"
        BY <2>4 DEF PayProvider, onDevices
      <3>2. CASE EndCycle(y)
        BY <3>1, <3>2, EndedCycle, OneCycleMoves DEF BackupInv, GrowOn, GrowAt
      <3>3. CASE ~EndCycle(y)
        <4>1. Proceed(y, "upload") /\ UNCHANGED <<runsOn, blob, ifMatch>>
          BY <2>4, <3>3 DEF PayProvider
        <4>2. cycle'[y] = "upload" /\ \A x \in Cycles \ {y} : cycle'[x] = cycle[x]
          BY <4>1 DEF Proceed, BackupInv, BackupTypeOK
        <4>3. CycleOK(y)'
          BY <3>1, <4>1, <4>2 DEF BackupInv, CycleOK, Has, CoversBlob
        <4>4. QED
          BY <3>1, <4>1, <4>2, <4>3, OneCycleMoves DEF GrowOn, GrowAt
      <3>4. QED
        BY <3>2, <3>3
    <2>5. ASSUME NEW d \in Devices, LoadRecovery(d)
          PROVE  (\A e \in Devices : DeviceOK(e)') /\ (\A x \in Cycles : CycleOK(x)')
      <3>1. /\ UNCHANGED <<database, stored, cycle, runsOn, ifMatch, blob>>
            /\ \A e \in Devices : lastHash'[e] \in {lastHash[e], NoBlob}
        BY <2>5 DEF LoadRecovery, backupCycles, BackupInv, BackupTypeOK, onDevices
      <3>2. QED
        BY <3>1, DevicesStay, CyclesStay DEF BackupInv, GrowOn, GrowAt
    <2>6. ASSUME NEW d \in Devices, NEW r \in BackupRecords, NewRecord(d, r)
          PROVE  (\A e \in Devices : DeviceOK(e)') /\ (\A x \in Cycles : CycleOK(x)')
      <3>1. UNCHANGED <<lastHash, stored, cycle, runsOn, ifMatch, blob>> /\ GrowOn
        BY <2>6 DEF NewRecord, backupCycles, BackupInv, BackupTypeOK, GrowOn
      <3>2. QED
        BY <3>1, DevicesStay, CyclesStay DEF BackupInv, GrowAt
    <2>7. QED
      BY <1>2, <2>1, <2>2, <2>3, <2>4, <2>5, <2>6, ExportInv, UploadInv, ImportInv, AddingInv
         DEF BackupNext, CycleStep
  <1>3. QED
    BY <1>1, <1>2, BackupTypeStep DEF BackupInv

LEMMA BackupInvInit == BackupInit => BackupInv
  <1> SUFFICES ASSUME BackupInit PROVE BackupInv
    OBVIOUS
  <1> USE BackupAssumption DEF BackupInit, Unsynchronised
  <1>1. database \in [Devices -> SUBSET BackupRecords]
    <2>1. Denominations \in BackupRecords
      BY DEF BackupRecords
    <2>2. /\ {TipRecord(t, "made") : t \in Tips} \subseteq BackupRecords
          /\ {ReserveRecord(v, "made") : v \in Reserves} \subseteq BackupRecords
      <3>1. /\ \A t \in Tips : TipRecord(t, "made") \in BackupRecords
            /\ \A v \in Reserves : ReserveRecord(v, "made") \in BackupRecords
        BY DEF BackupRecords, SelectionKinds
      <3>2. QED
        BY <3>1
    <2>3. /\ {ProposalRecord(o) : o \in Orders} \subseteq BackupRecords
          /\ {CoinRecord(c) : c \in Coins} \subseteq BackupRecords
          /\ \A o \in Orders, c \in Coins : PurchaseRecord(o, c) \in BackupRecords
      BY DEF BackupRecords
    <2>4. Addable({}, "complete") \subseteq BackupRecords
      BY <2>2, <2>3 DEF Addable
    <2>5. QED
      BY <2>1, <2>4
  <1>2. newRecords \in 0..MaxNewRecords /\ backupTroubles \in 0..MaxBackupTroubles
    OBVIOUS
  <1>3. CycleTypes
    BY DEF CycleTypes
  <1>4. exchangeAt \in [Devices -> ExchangeStages] /\ adding \subseteq Devices
    BY DEF ExchangeStages
  <1>5. BackupTypeOK
    BY <1>1, <1>2, <1>3, <1>4 DEF BackupTypeOK, CycleTypes
  <1>6. (\A d \in Devices : DeviceOK(d)) /\ (\A y \in Cycles : CycleOK(y))
    BY DEF DeviceOK, CycleOK, Has, CoversBlob
  <1>7. QED
    BY <1>5, <1>6 DEF BackupInv

LEMMA BackupInvariant == BackupSpec => []BackupInv
  BY BackupInvInit, BackupInvNext, PTL DEF BackupSpec

(* The state of the devices, the provider and the cycles is well formed;   *)
(* no cycle imports a backup that is not there.                            *)
THEOREM BackupTypeCorrect == BackupSpec => []BackupTypeOK
  <1>1. BackupInv => BackupTypeOK
    BY DEF BackupInv
  <1>2. QED
    BY <1>1, BackupInvariant, PTL

(* An upload that the provider stores names every order, purchase and tip  *)
(* that the blob it replaces has named and, if it contains the exchange at *)
(* all, every coin and reserve.                                            *)
THEOREM ProviderForgetsNothing == BackupSpec => BackupKeepsAll
  <1> DEFINE Keeps == stored # NoBlob => Covers(stored'.content, stored.content)
  <1>1. BackupInv /\ [BackupNext]_backupVars => [Keeps]_backupVars
    <2> SUFFICES ASSUME BackupInv, BackupNext, stored # NoBlob
                 PROVE  Covers(stored'.content, stored.content)
      OBVIOUS
    <2>1. CASE stored' = stored
      BY <2>1 DEF Covers
    <2>2. CASE stored' # stored
      <3>1. PICK y \in Cycles : Upload(y)
        BY <2>2 DEF BackupNext, CycleStep, FailCycle, StartCycle, Export, PayProvider, StoreHash,
                    Import, NoteImport, LoadRecovery, NewRecord, ExchangeStep, FindNoExchange,
                    PutExchange, UpdateExchange
      <3>2. cycle[y] = "upload" /\ stored = ifMatch[y] /\ stored' = blob[y]
        BY <2>2, <3>1 DEF Upload, Answer
      <3>3. CoversBlob(blob[y], ifMatch[y])
        BY <3>2 DEF BackupInv, CycleOK
      <3>4. QED
        BY <3>2, <3>3 DEF CoversBlob
    <2>3. QED
      BY <2>1, <2>2
  <1>2. QED
    BY <1>1, BackupInvariant, PTL DEF BackupSpec, BackupKeepsAll
=============================================================================
