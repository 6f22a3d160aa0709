--------------------------- MODULE Withdraw_proofs ---------------------------
(***************************************************************************)
(* What holds of a reserve and its withdrawal groups for every number of   *)
(* groups, credits and failures, proved with TLAPS.                        *)
(***************************************************************************)
EXTENDS Withdraw, FiniteSetTheorems, TLAPS

Statuses == BankPhase \cup {"QUERYING_STATUS", "DORMANT", "BANK_ABORTED"}
Labels == {"idle", "poll", "pollwait", "register", "registered", "query", "allocate", "look",
           "make", "withdraw"}

(* The parts of the type invariant, which few steps change together. *)
ReserveOK == status \in Statuses /\ requested \in BOOLEAN
GroupsOK ==
    /\ size \in [Groups -> 0..MaxCredits] /\ finished \subseteq Groups
    /\ planchet \in [Coin -> {"none", "made", "done"}] /\ coins \subseteq Coin
OutsideOK ==
    /\ bank \in {"offered", "selected", "confirmed", "aborted"}
    /\ credits \in 0..MaxCredits /\ recoups \in 0..credits /\ untold \in 0..recoups
    /\ gone \in Nat /\ debited \subseteq Coin
LocalOK ==
    /\ snap \in [Runs -> Int] /\ grp \in [Runs -> Groups \cup {None}]
    /\ todo \in [Runs -> SUBSET Coin] /\ work \in [Runs \cup {Orphans} -> SUBSET Coin]
TroublesOK == gone <= troubles /\ troubles \in 0..MaxTroubles

(* The bank's last word: a withdrawal it has aborted is never queried for, *)
(* and one that is queried for it has confirmed.                           *)
BankDecides ==
    /\ status = "BANK_ABORTED" => bank = "aborted"
    /\ status \in {"QUERYING_STATUS", "DORMANT"} => bank = "confirmed"
    /\ \A r \in Runs : pc[r] \in {"query", "allocate"} => bank = "confirmed"

(* What a run knows of the reserve is old, but nothing leaves the credits. *)
SnapsAreOld == \A r \in Runs : snap[r] <= credits

(* A run that stands at l works on a group g that exists, and on its       *)
(* coins, which have planchets when it withdraws.                          *)
Works(l, g, T) ==
    /\ l \in {"look", "make", "withdraw"} => g \in Groups /\ size[g] > 0
    /\ l = "make" => T \subseteq CoinsOf(g)
    /\ l = "make" => \A c \in CoinsOf(g) \ T : planchet[c] # "none"
    /\ l = "withdraw" => \A c \in T : planchet[c] # "none"

RunsWork == \A r \in Runs : Works(pc[r], grp[r], todo[r])
WorkIsSigned == \A r \in Runs \cup {Orphans} : work[r] \subseteq debited

GroupsInv ==
    /\ GroupsOK /\ CoinsAreBacked /\ FinishedIsComplete /\ \A g \in finished : size[g] > 0

WithdrawInv ==
    /\ ReserveOK /\ GroupsInv /\ OutsideOK /\ LocalOK /\ TroublesOK /\ pc \in [Runs -> Labels]
    /\ BankDecides /\ SnapsAreOld /\ NeverOverallocated /\ RunsWork /\ WorkIsSigned

-----------------------------------------------------------------------------
(* Allocation.  The coins of a group are as many as it was created for,    *)
(* and a new group adds exactly them.                                      *)
LEMMA CoinsOfGroup ==
    ASSUME NEW g, NEW n \in Nat
    PROVE  IsFiniteSet({g} \X (1..n)) /\ Cardinality({g} \X (1..n)) = n
  <1>1. IsFiniteSet({g}) /\ Cardinality({g}) = 1
    BY FS_Singleton
  <1>2. IsFiniteSet(1..n) /\ Cardinality(1..n) = n
    BY FS_Interval
  <1>3. IsFiniteSet({g} \X (1..n)) /\ Cardinality({g} \X (1..n)) = 1 * n
    <2>1. /\ IsFiniteSet({g} \X (1..n))
          /\ Cardinality({g} \X (1..n)) = Cardinality({g}) * Cardinality(1..n)
      BY <1>1, <1>2, FS_Product, Zenon
    <2>2. QED
      BY <1>1, <1>2, <2>1, Zenon
  <1>4. QED
    BY <1>3

AllCoins == UNION {CoinsOf(g) : g \in Groups}

LEMMA AllCoinsFinite ==
    ASSUME GroupsOK
    PROVE  IsFiniteSet(AllCoins) /\ Allocated = Cardinality(AllCoins) /\ Allocated \in Nat
  <1>1. IsFiniteSet(1..MaxCredits)
    BY WithdrawAssumption, FS_Interval
  <1>2. IsFiniteSet(Coin)
    BY <1>1, WithdrawAssumption, FS_Product DEF Coin
  <1>3. AllCoins \subseteq Coin
    BY WithdrawAssumption DEF AllCoins, CoinsOf, Coin, GroupsOK
  <1>4. IsFiniteSet(AllCoins)
    BY <1>2, <1>3, FS_Subset
  <1>5. QED
    BY <1>4, FS_CardinalityType DEF Allocated, AllCoins

LEMMA GroupAddsItsCoins ==
    ASSUME GroupsOK, NEW g \in Groups, size[g] = 0, NEW n \in 0..MaxCredits,
           size' = [size EXCEPT ![g] = n], GroupsOK'
    PROVE  Allocated' = Allocated + n
  <1>1. n \in Nat
    BY WithdrawAssumption
  <1>2. AllCoins' = AllCoins \cup ({g} \X (1..n))
    <2>1. CoinsOf(g)' = {g} \X (1..n) /\ CoinsOf(g) = {}
      BY DEF CoinsOf, GroupsOK
    <2>2. \A h \in Groups : h # g => CoinsOf(h)' = CoinsOf(h)
      BY DEF CoinsOf, GroupsOK
    <2>3. QED
      BY <2>1, <2>2 DEF AllCoins
  <1>3. AllCoins \cap ({g} \X (1..n)) = {}
    BY DEF AllCoins, CoinsOf, GroupsOK
  <1>4. Cardinality(AllCoins') = Cardinality(AllCoins) + n
    <2> DEFINE G == {g} \X (1..n)
    <2>1. IsFiniteSet(AllCoins) /\ Cardinality(AllCoins) \in Nat
      BY AllCoinsFinite
    <2>2. IsFiniteSet(G) /\ Cardinality(G) = n
      BY <1>1, CoinsOfGroup
    <2>3. AllCoins' = AllCoins \cup G /\ Cardinality(AllCoins \cap G) = 0
      BY <1>2, <1>3, FS_EmptySet
    <2> HIDE DEF G
    <2>4. Cardinality(AllCoins \cup G)
            = Cardinality(AllCoins) + Cardinality(G) - Cardinality(AllCoins \cap G)
      BY <2>1, <2>2, FS_Union
    <2>5. QED
      BY <1>1, <2>1, <2>2, <2>3, <2>4
  <1>5. QED
    BY <1>4, AllCoinsFinite DEF Allocated, AllCoins
-----------------------------------------------------------------------------
(* What is left alone stays right. *)
GroupsGrow ==
    /\ \A g \in Groups : size[g] > 0 => size'[g] = size[g]
    /\ \A c \in Coin : planchet[c] # "none" => planchet'[c] # "none"

LEMMA SizesStay ==
    ASSUME GroupsOK, UNCHANGED size
    PROVE  Allocated' = Allocated
  BY DEF Allocated, CoinsOf

LEMMA GroupsStay ==
    ASSUME WithdrawInv, UNCHANGED <<size, finished, planchet, coins>>, debited' = debited
    PROVE  GroupsInv' /\ GroupsGrow /\ Allocated' = Allocated
  BY SizesStay
     DEF WithdrawInv, GroupsInv, GroupsGrow, GroupsOK, CoinsAreBacked, FinishedIsComplete, CoinsOf

LEMMA WorksOn ==
    ASSUME GroupsOK, GroupsGrow, NEW l, NEW g \in Groups \cup {None}, NEW T \in SUBSET Coin,
           Works(l, g, T)
    PROVE  Works(l, g, T)'
  <1>1. ASSUME NEW h \in Groups, size[h] > 0 PROVE CoinsOf(h)' = CoinsOf(h)
    BY <1>1 DEF GroupsGrow, CoinsOf
  <1>2. ASSUME NEW h \in Groups PROVE CoinsOf(h) \subseteq Coin
    BY WithdrawAssumption DEF CoinsOf, Coin, GroupsOK
  <1>3. QED
    BY <1>1, <1>2 DEF Works, GroupsGrow

LEMMA OneRunMoves ==
    ASSUME WithdrawInv, GroupsGrow, NEW r \in Runs, NEW l, NEW g, NEW T, Works(l, g, T)',
           pc' = [pc EXCEPT ![r] = l], grp' = [grp EXCEPT ![r] = g], todo' = [todo EXCEPT ![r] = T]
    PROVE  RunsWork'
  <1>1. ASSUME NEW q \in Runs PROVE Works(pc[q], grp[q], todo[q])'
    <2>1. CASE q = r
      BY <2>1 DEF WithdrawInv, LocalOK
    <2>2. CASE q # r
      <3>1. /\ pc'[q] = pc[q] /\ grp'[q] = grp[q] /\ todo'[q] = todo[q]
            /\ Works(pc[q], grp[q], todo[q])
        BY <2>2 DEF WithdrawInv, LocalOK, RunsWork
      <3>2. grp[q] \in Groups \cup {None} /\ todo[q] \in SUBSET Coin
        BY DEF WithdrawInv, LocalOK
      <3>3. QED
        BY <3>1, <3>2, WorksOn DEF WithdrawInv, GroupsInv
    <2>3. QED
      BY <2>1, <2>2
  <1>2. QED
    BY <1>1 DEF RunsWork
(* A run that only goes to another place, with the group and the coins it  *)
(* has, if any.                                                            *)
LEMMA OneRunGoes ==
    ASSUME WithdrawInv, UNCHANGED groups, NEW r \in Runs, NEW l \in Labels,
           Works(l, grp[r], todo[r]),
           pc' = [pc EXCEPT ![r] = l], UNCHANGED <<grp, todo>>, debited' = debited
    PROVE  RunsWork' /\ pc' \in [Runs -> Labels]
  <1>1. GroupsGrow
    BY GroupsStay DEF groups
  <1>2. PICK g \in Groups \cup {None}, T \in SUBSET Coin : g = grp[r] /\ T = todo[r]
    BY DEF WithdrawInv, LocalOK
  <1>3. Works(l, g, T)'
    BY <1>1, <1>2, WorksOn DEF WithdrawInv, GroupsInv
  <1>4. grp' = [grp EXCEPT ![r] = g] /\ todo' = [todo EXCEPT ![r] = T]
    BY <1>2 DEF WithdrawInv, LocalOK
  <1>5. QED
    BY <1>1, <1>3, <1>4, OneRunMoves DEF WithdrawInv

-----------------------------------------------------------------------------
(* The bank, the exchange and the people using them. *)
LEMMA OutsideSteps ==
    ASSUME WithdrawInv, UserConfirms \/ UserAborts \/ WireTransfer \/ Recoup \/ Leave
    PROVE  WithdrawInv'
  <1> USE DEF reserve, groups, local
  <1>1. UNCHANGED <<reserve, groups, debited, pc, local>>
    BY DEF UserConfirms, UserAborts, WireTransfer, Recoup, Leave
  <1>2. GroupsInv' /\ GroupsGrow /\ Allocated' = Allocated
    BY <1>1, GroupsStay
  <1>3. ReserveOK' /\ LocalOK' /\ WorkIsSigned' /\ pc' \in [Runs -> Labels]
    BY <1>1 DEF WithdrawInv, ReserveOK, LocalOK, WorkIsSigned
  <1>4. RunsWork'
    BY <1>1, <1>2 DEF WithdrawInv, RunsWork, Works, CoinsOf
  <1>5. OutsideOK' /\ credits' >= credits
    <2>1. CASE UserConfirms \/ UserAborts
      BY <2>1 DEF UserConfirms, UserAborts, WithdrawInv, OutsideOK
    <2>2. CASE WireTransfer
      BY <2>2 DEF WireTransfer, WithdrawInv, OutsideOK
    <2>3. CASE Recoup
      BY <2>3, WithdrawAssumption DEF Recoup, WithdrawInv, OutsideOK
    <2>4. CASE Leave
      BY <2>4 DEF Leave, WithdrawInv, OutsideOK
    <2>5. QED
      BY <2>1, <2>2, <2>3, <2>4
  <1>6. TroublesOK'
    BY WithdrawAssumption
       DEF UserConfirms, UserAborts, WireTransfer, Recoup, Leave, Trouble, WithdrawInv, TroublesOK,
           OutsideOK
  <1>7. BankDecides'
    BY <1>1 DEF UserConfirms, UserAborts, WireTransfer, Recoup, Leave, WithdrawInv, BankDecides
  <1>8. SnapsAreOld' /\ NeverOverallocated'
    <2>1. Allocated \in Nat /\ credits \in Nat /\ credits' \in Nat
      BY <1>5, AllCoinsFinite, WithdrawAssumption DEF WithdrawInv, GroupsInv, OutsideOK
    <2>2. QED
      BY <1>1, <1>2, <1>5, <2>1 DEF WithdrawInv, SnapsAreOld, NeverOverallocated, LocalOK
  <1>9. QED
    BY <1>2, <1>3, <1>4, <1>5, <1>6, <1>7, <1>8 DEF WithdrawInv

(* A step that changes neither the groups nor what is known of the reserve *)
(* leaves most of it alone.                                                *)
LEMMA SameGroups ==
    ASSUME WithdrawInv, UNCHANGED <<groups, credits, recoups, gone, debited, local, troubles>>,
           ReserveOK', RunsWork', pc' \in [Runs -> Labels], BankDecides',
           bank' \in {"offered", "selected", "confirmed", "aborted"}, untold' \in 0..recoups
    PROVE  WithdrawInv'
  <1> USE DEF groups, local
  <1>1. GroupsInv' /\ Allocated' = Allocated
    BY GroupsStay
  <1>2. OutsideOK' /\ LocalOK' /\ TroublesOK' /\ SnapsAreOld' /\ NeverOverallocated'
    BY <1>1 DEF WithdrawInv, OutsideOK, LocalOK, TroublesOK, SnapsAreOld, NeverOverallocated
  <1>3. WorkIsSigned'
    BY DEF WithdrawInv, WorkIsSigned
  <1>4. QED
    BY <1>1, <1>2, <1>3 DEF WithdrawInv

LEMMA QuerySteps ==
    ASSUME WithdrawInv, ForceQuery \/ RecoupTx
    PROVE  WithdrawInv'
  <1> USE DEF groups, local
  <1>1. /\ UNCHANGED <<groups, bank, credits, recoups, gone, debited, pc, local, troubles>>
        /\ ReserveOK' /\ BankDecides'
    <2>1. /\ UNCHANGED <<groups, bank, credits, recoups, gone, debited, pc, local, troubles>>
          /\ Requery
      BY DEF ForceQuery, RecoupTx, outside
    <2>2. CASE status = "DORMANT"
      BY <2>1, <2>2 DEF Requery, WithdrawInv, ReserveOK, BankDecides, Statuses
    <2>3. CASE status # "DORMANT"
      BY <2>1, <2>3 DEF Requery, WithdrawInv, ReserveOK, BankDecides
    <2>4. QED
      BY <2>1, <2>2, <2>3
  <1>2. untold' \in 0..recoups
    BY DEF ForceQuery, RecoupTx, outside, WithdrawInv, OutsideOK
  <1>3. RunsWork'
    BY <1>1 DEF WithdrawInv, RunsWork, Works, CoinsOf
  <1>4. QED
    BY <1>1, <1>2, <1>3, SameGroups DEF WithdrawInv, OutsideOK
(* The run r comes to a place of processReserve.  It queries only when the *)
(* status says so.                                                         *)
Places == {"idle", "poll", "pollwait", "register", "registered", "query"}

LEMMA EnterPlaces ==
    ASSUME NEW st
    PROVE  /\ Enter(st) \in Places /\ EnterBank(st) \in Places \ {"query"}
           /\ Enter(st) = "query" => st = "QUERYING_STATUS"
  BY DEF Enter, EnterBank, BankPhase, Places

LEMMA RunAsksOn ==
    ASSUME WithdrawInv,
           UNCHANGED <<groups, credits, recoups, untold, gone, debited, local, troubles>>,
           NEW r \in Runs, NEW l \in Places, pc' = [pc EXCEPT ![r] = l],
           ReserveOK', bank' \in {"offered", "selected", "confirmed", "aborted"},
           bank = "confirmed" => bank' = "confirmed", bank = "aborted" => bank' = "aborted",
           status' \in {"QUERYING_STATUS", "DORMANT"} => bank' = "confirmed",
           status' = "BANK_ABORTED" => bank' = "aborted",
           l = "query" => status' = "QUERYING_STATUS"
    PROVE  WithdrawInv'
  <1>1. l \in Labels /\ Works(l, grp[r], todo[r])
    BY DEF Places, Labels, Works
  <1>2. RunsWork' /\ pc' \in [Runs -> Labels]
    BY <1>1, OneRunGoes DEF local
  <1>3. BankDecides'
    BY DEF WithdrawInv, BankDecides, Places
  <1>4. QED
    BY <1>2, <1>3, SameGroups DEF WithdrawInv, OutsideOK

LEMMA BankSteps ==
    ASSUME WithdrawInv, NEW r \in Runs,
           \/ PollAborted(r) \/ PollUnselected(r) \/ PollConfirmed(r)
           \/ PollWaiting(r) \/ Post(r) \/ PostRefused(r) \/ RegisterTx(r) \/ QueryUnknown(r)
    PROVE  WithdrawInv'
  <1> USE DEF outside, reserve, Goto
  <1>0. /\ ReserveOK /\ BankDecides
        /\ bank \in {"offered", "selected", "confirmed", "aborted"}
    BY DEF WithdrawInv, OutsideOK
  <1>1. CASE PollAborted(r)
    <2>1. status' = (IF status \in BankPhase THEN "BANK_ABORTED" ELSE status)
          /\ ReserveOK'
      BY <1>0, <1>1 DEF PollAborted, ReserveOK, Statuses
    <2>2. status' \in {"QUERYING_STATUS", "DORMANT"} => bank' = "confirmed"
      BY <1>0, <1>1, <2>1 DEF PollAborted, BankDecides
    <2>3. "idle" \in Places
      BY DEF Places
    <2>4. QED
      BY <1>0, <1>1, <2>1, <2>2, <2>3, RunAsksOn DEF PollAborted, BankDecides
  <1>2. CASE PollUnselected(r)
    BY <1>0, <1>2, RunAsksOn DEF PollUnselected, BankDecides, ReserveOK, Places
  <1>3. CASE PollConfirmed(r)
    <2>1. /\ status' = IF status \in BankPhase THEN "QUERYING_STATUS" ELSE status
          /\ ReserveOK' /\ bank = "confirmed" /\ bank' = bank
      BY <1>0, <1>3 DEF PollConfirmed, ReserveOK, Statuses
    <2>2. status' # "BANK_ABORTED"
      BY <1>0, <2>1 DEF BankDecides
    <2>3. PICK l \in Places : l = Enter(status') /\ (l = "query" => status' = "QUERYING_STATUS")
      BY EnterPlaces
    <2>4. pc' = [pc EXCEPT ![r] = l]
      BY <1>3, <2>3 DEF PollConfirmed
    <2>5. QED
      BY <1>0, <1>3, <2>1, <2>2, <2>3, <2>4, RunAsksOn DEF PollConfirmed
  <1>4. CASE PollWaiting(r)
    <2>1. PICK l \in Later(r) : pc' = [pc EXCEPT ![r] = l]
      BY <1>4 DEF PollWaiting
    <2>2. l \in Places /\ (l = "query" => status = "QUERYING_STATUS")
      BY EnterPlaces DEF Later, Places
    <2>3. QED
      BY <1>0, <1>4, <2>1, <2>2, RunAsksOn DEF PollWaiting, BankDecides, ReserveOK
  <1>5. CASE Post(r)
    <2>1. bank' = (IF bank = "offered" THEN "selected" ELSE bank) /\ bank # "aborted"
      BY <1>5 DEF Post
    <2>2. "registered" \in Places
      BY DEF Places
    <2>3. QED
      BY <1>0, <1>5, <2>1, <2>2, RunAsksOn DEF Post, BankDecides, ReserveOK
  <1>6. CASE PostRefused(r)
    BY <1>0, <1>6, RunAsksOn DEF PostRefused, BankDecides, ReserveOK, Places
  <1>7. CASE RegisterTx(r)
    <2>1. /\ status' = IF status \in BankPhase THEN "WAIT_CONFIRM_BANK" ELSE status
          /\ ReserveOK' /\ bank' = bank
      BY <1>0, <1>7 DEF RegisterTx, ReserveOK, Statuses, BankPhase
    <2>2. PICK l \in Places \ {"query"} : l = EnterBank(status')
      BY EnterPlaces
    <2>3. QED
      BY <1>0, <1>7, <2>1, <2>2, RunAsksOn DEF RegisterTx, BankDecides
  <1>8. CASE QueryUnknown(r)
    BY <1>0, <1>8, RunAsksOn DEF QueryUnknown, BankDecides, ReserveOK, Places
  <1>9. QED
    BY <1>1, <1>2, <1>3, <1>4, <1>5, <1>6, <1>7, <1>8

LEMMA StartReserveStep ==
    ASSUME WithdrawInv, StartReserve
    PROVE  WithdrawInv'
  <1>1. PICK l \in Places : l = Enter(status) /\ (l = "query" => status = "QUERYING_STATUS")
    BY EnterPlaces
  <1>2. "memo" \in Runs /\ pc' = [pc EXCEPT !["memo"] = l]
    BY <1>1 DEF StartReserve, Goto, Runs
  <1>3. UNCHANGED <<reserve, outside, groups, local, troubles>>
    BY DEF StartReserve
  <1>4. QED
    BY <1>1, <1>2, <1>3, RunAsksOn
       DEF WithdrawInv, BankDecides, ReserveOK, OutsideOK, outside, reserve

-----------------------------------------------------------------------------
(* The runs that allocate and fill the groups.                             *)
LEMMA LocalSteps ==
    ASSUME WithdrawInv, UNCHANGED <<reserve, groups, outside>>, LocalOK', TroublesOK', RunsWork',
           SnapsAreOld', WorkIsSigned', pc' \in [Runs -> Labels],
           \A r \in Runs : pc'[r] \in {"query", "allocate"} => bank = "confirmed"
    PROVE  WithdrawInv'
  <1> USE DEF groups, outside, reserve
  <1>1. GroupsInv' /\ Allocated' = Allocated
    BY GroupsStay
  <1>2. OutsideOK' /\ ReserveOK' /\ NeverOverallocated'
    BY <1>1 DEF WithdrawInv, OutsideOK, ReserveOK, NeverOverallocated
  <1>3. BankDecides'
    BY DEF WithdrawInv, BankDecides
  <1>4. QED
    BY <1>1, <1>2, <1>3 DEF WithdrawInv

(* One run goes to l, to the group g and to the coins T.                   *)
LEMMA RunGoesOn ==
    ASSUME WithdrawInv, UNCHANGED <<reserve, groups, outside, snap, work, troubles>>,
           NEW r \in Runs, NEW l \in Labels \ {"query", "allocate"},
           NEW g \in Groups \cup {None}, NEW T \in SUBSET Coin, Works(l, g, T),
           pc' = [pc EXCEPT ![r] = l], grp' = [grp EXCEPT ![r] = g], todo' = [todo EXCEPT ![r] = T]
    PROVE  WithdrawInv'
  <1>1. GroupsGrow
    BY GroupsStay DEF groups, outside
  <1>2. Works(l, g, T)'
    BY <1>1, WorksOn DEF WithdrawInv, GroupsInv
  <1>3. RunsWork'
    BY <1>1, <1>2, OneRunMoves
  <1>4. LocalOK' /\ pc' \in [Runs -> Labels]
    BY DEF WithdrawInv, LocalOK
  <1>5. \A q \in Runs : pc'[q] \in {"query", "allocate"} => bank = "confirmed"
    BY DEF WithdrawInv, BankDecides
  <1>6. TroublesOK' /\ SnapsAreOld' /\ WorkIsSigned'
    BY DEF WithdrawInv, TroublesOK, SnapsAreOld, WorkIsSigned, outside
  <1>7. QED
    BY <1>3, <1>4, <1>5, <1>6, LocalSteps

LEMMA QueryAnsweredStep ==
    ASSUME WithdrawInv, NEW r \in Runs, QueryAnswered(r)
    PROVE  WithdrawInv'
  <1>1. /\ UNCHANGED <<groups, outside, reserve, grp, todo, work, troubles>>
        /\ pc' = [pc EXCEPT ![r] = "allocate"] /\ snap' = [snap EXCEPT ![r] = credits - gone]
        /\ pc[r] = "query"
    BY DEF QueryAnswered, Goto
  <1>2. "allocate" \in Labels /\ Works("allocate", grp[r], todo[r])
    BY DEF Labels, Works
  <1>3. RunsWork' /\ pc' \in [Runs -> Labels]
    BY <1>1, <1>2, OneRunGoes DEF outside
  <1>4. credits \in Nat /\ gone \in Nat
    BY WithdrawAssumption DEF WithdrawInv, OutsideOK
  <1>5. LocalOK' /\ SnapsAreOld'
    BY <1>1, <1>4 DEF WithdrawInv, LocalOK, SnapsAreOld, outside
  <1>6. TroublesOK' /\ WorkIsSigned'
    BY <1>1 DEF WithdrawInv, TroublesOK, WorkIsSigned, outside
  <1>7. \A q \in Runs : pc'[q] \in {"query", "allocate"} => bank = "confirmed"
    BY <1>1 DEF WithdrawInv, BankDecides
  <1>8. QED
    BY <1>1, <1>3, <1>5, <1>6, <1>7, LocalSteps

LEMMA GroupSteps ==
    ASSUME WithdrawInv, NEW r \in Runs,
           \/ Look(r) \/ PlanchetsMade(r) \/ \E c \in todo[r] : Skip(r, c) \/ Refused(r, c)
    PROVE  WithdrawInv'
  <1>0. PICK g \in Groups \cup {None}, T \in SUBSET Coin : g = grp[r] /\ T = todo[r]
    BY DEF WithdrawInv, LocalOK
  <1>1. Works(pc[r], g, T) /\ grp' = [grp EXCEPT ![r] = g] /\ pc[r] \in Labels
        /\ UNCHANGED <<reserve, groups, outside, snap, work, troubles>>
    BY <1>0 DEF WithdrawInv, LocalOK, RunsWork, Look, PlanchetsMade, Skip, Refused
  <1>2. ASSUME NEW h \in Groups PROVE CoinsOf(h) \in SUBSET Coin
    BY <1>2, WithdrawAssumption DEF WithdrawInv, GroupsInv, CoinsOf, Coin, GroupsOK
  <1>3. CASE Look(r)
    <2>1. PICK U : U = {c \in CoinsOf(g) : planchet[c] = "none"}
      OBVIOUS
    <2>2. /\ g \in Groups /\ size[g] > 0 /\ pc' = [pc EXCEPT ![r] = "make"]
          /\ todo' = [todo EXCEPT ![r] = U]
      BY <1>0, <1>1, <1>3, <2>1 DEF Look, Goto, Works
    <2>3. U \in SUBSET Coin /\ Works("make", g, U)
      BY <1>2, <2>1, <2>2 DEF Works
    <2>4. "make" \in Labels \ {"query", "allocate"}
      BY DEF Labels
    <2>5. QED
      BY <1>1, <2>2, <2>3, <2>4, RunGoesOn
  <1>4. CASE PlanchetsMade(r)
    <2>1. PICK U : U = CoinsOf(g)
      OBVIOUS
    <2>2. /\ g \in Groups /\ size[g] > 0 /\ pc' = [pc EXCEPT ![r] = "withdraw"]
          /\ todo' = [todo EXCEPT ![r] = U] /\ \A c \in CoinsOf(g) : planchet[c] # "none"
      BY <1>0, <1>1, <1>4, <2>1 DEF PlanchetsMade, Goto, Works
    <2>3. U \in SUBSET Coin /\ Works("withdraw", g, U)
      BY <1>2, <2>1, <2>2 DEF Works
    <2>4. "withdraw" \in Labels \ {"query", "allocate"}
      BY DEF Labels
    <2>5. QED
      BY <1>1, <2>2, <2>3, <2>4, RunGoesOn
  <1>5. CASE \E c \in todo[r] : Skip(r, c) \/ Refused(r, c)
    <2>1. PICK c \in T : Turn(r, c) /\ UNCHANGED pc
      BY <1>0, <1>5 DEF Skip, Refused
    <2>2. PICK U \in SUBSET Coin : U = T \ {c}
      OBVIOUS
    <2>3. /\ todo' = [todo EXCEPT ![r] = U] /\ Works("withdraw", g, U)
          /\ pc' = [pc EXCEPT ![r] = "withdraw"]
      BY <1>0, <1>1, <2>1, <2>2 DEF Turn, Works, WithdrawInv
    <2>4. "withdraw" \in Labels \ {"query", "allocate"}
      BY DEF Labels
    <2>5. QED
      BY <1>1, <2>3, <2>4, RunGoesOn
  <1>6. QED
    BY <1>3, <1>4, <1>5

LEMMA StartGroupStep ==
    ASSUME WithdrawInv, NEW g \in Groups, StartGroup(g)
    PROVE  WithdrawInv'
  <1>1. "loop" \in Runs /\ "look" \in Labels \ {"query", "allocate"}
    BY DEF Runs, Labels
  <1>2. PICK T \in SUBSET Coin : T = todo["loop"]
    BY <1>1 DEF WithdrawInv, LocalOK
  <1>3. Works("look", g, T) /\ todo' = [todo EXCEPT !["loop"] = T]
    BY <1>1, <1>2 DEF Works, StartGroup, WithdrawInv, LocalOK
  <1>4. QED
    BY <1>1, <1>3, RunGoesOn DEF StartGroup, Goto

-----------------------------------------------------------------------------
(* Planchets and coins.                                                    *)
LEMMA CoinSteps ==
    ASSUME WithdrawInv, UNCHANGED <<reserve, size, bank, credits, recoups, untold, gone, snap>>,
           GroupsInv', debited' \subseteq Coin, RunsWork', WorkIsSigned', TroublesOK',
           grp' \in [Runs -> Groups \cup {None}], todo' \in [Runs -> SUBSET Coin],
           work' \in [Runs \cup {Orphans} -> SUBSET Coin], pc' \in [Runs -> Labels],
           \A r \in Runs : pc'[r] \in {"query", "allocate"} => bank = "confirmed"
    PROVE  WithdrawInv'
  <1> USE DEF reserve
  <1>1. Allocated' = Allocated
    BY SizesStay DEF WithdrawInv, GroupsInv
  <1>2. OutsideOK' /\ ReserveOK' /\ LocalOK' /\ SnapsAreOld' /\ NeverOverallocated'
    BY <1>1 DEF WithdrawInv, OutsideOK, ReserveOK, LocalOK, SnapsAreOld, NeverOverallocated
  <1>3. BankDecides'
    BY DEF WithdrawInv, BankDecides
  <1>4. QED
    BY <1>1, <1>2, <1>3 DEF WithdrawInv

LEMMA MakePlanchetStep ==
    ASSUME WithdrawInv, NEW r \in Runs, NEW c \in todo[r], MakePlanchet(r, c)
    PROVE  WithdrawInv'
  <1>0. PICK g \in Groups \cup {None}, T \in SUBSET Coin : g = grp[r] /\ T = todo[r]
    BY DEF WithdrawInv, LocalOK
  <1>1. /\ UNCHANGED <<reserve, size, finished, coins, outside, pc, snap, grp, work, troubles>>
        /\ planchet' = [planchet EXCEPT ![c] = IF @ = "none" THEN "made" ELSE @]
        /\ todo' = [todo EXCEPT ![r] = T \ {c}] /\ pc[r] = "make" /\ c \in T /\ c \in Coin
    BY <1>0 DEF MakePlanchet
  <1>2. /\ planchet' \in [Coin -> {"none", "made", "done"}] /\ planchet'[c] # "none"
        /\ \A d \in Coin : planchet'[d] = "done" <=> planchet[d] = "done"
        /\ \A d \in Coin : planchet[d] # "none" => planchet'[d] # "none"
    BY <1>1 DEF WithdrawInv, GroupsInv, GroupsOK
  <1>3. GroupsInv' /\ GroupsGrow
    <2>1. GroupsOK'
      BY <1>1, <1>2 DEF WithdrawInv, GroupsInv, GroupsOK
    <2>2. CoinsAreBacked'
      BY <1>1, <1>2 DEF WithdrawInv, GroupsInv, CoinsAreBacked, outside, OutsideOK
    <2>3. FinishedIsComplete' /\ (\A h \in finished : size[h] > 0)'
      BY <1>1 DEF WithdrawInv, GroupsInv, FinishedIsComplete, CoinsOf
    <2>4. QED
      BY <1>1, <1>2, <2>1, <2>2, <2>3 DEF GroupsInv, GroupsGrow
  <1>4. PICK U \in SUBSET Coin : U = T \ {c}
    OBVIOUS
  <1>5. Works("make", g, U)'
    <2>1. Works("make", g, T)
      BY <1>0, <1>1 DEF WithdrawInv, RunsWork
    <2>2. CoinsOf(g)' = CoinsOf(g) /\ CoinsOf(g) \subseteq Coin
      <3>1. g \in Groups
        BY <2>1 DEF Works
      <3>2. QED
        BY <1>1, <3>1, WithdrawAssumption DEF CoinsOf, WithdrawInv, GroupsInv, GroupsOK, Coin
    <2>3. QED
      BY <1>1, <1>2, <1>4, <2>1, <2>2 DEF Works
  <1>6. RunsWork'
    <2>1. pc' = [pc EXCEPT ![r] = "make"] /\ grp' = [grp EXCEPT ![r] = g]
      BY <1>0, <1>1 DEF WithdrawInv, LocalOK
    <2>2. QED
      BY <1>1, <1>3, <1>4, <1>5, <2>1, OneRunMoves
  <1>7. /\ grp' \in [Runs -> Groups \cup {None}] /\ todo' \in [Runs -> SUBSET Coin]
        /\ work' \in [Runs \cup {Orphans} -> SUBSET Coin] /\ pc' \in [Runs -> Labels]
    BY <1>1, <1>4 DEF WithdrawInv, LocalOK
  <1>8. /\ WorkIsSigned' /\ TroublesOK' /\ debited' \subseteq Coin
        /\ \A q \in Runs : pc'[q] \in {"query", "allocate"} => bank = "confirmed"
    BY <1>1 DEF WithdrawInv, WorkIsSigned, TroublesOK, OutsideOK, outside, BankDecides
  <1>9. QED
    BY <1>1, <1>3, <1>6, <1>7, <1>8, CoinSteps DEF outside

(* The exchange signs a coin, or its answer is lost.                       *)
LEMMA WithdrawSteps ==
    ASSUME WithdrawInv, NEW r \in Runs, NEW c \in todo[r], Withdraw(r, c) \/ Lost(r, c)
    PROVE  WithdrawInv'
  <1>0. PICK g \in Groups \cup {None}, T \in SUBSET Coin : g = grp[r] /\ T = todo[r]
    BY DEF WithdrawInv, LocalOK
  <1>1. /\ UNCHANGED <<reserve, groups, bank, credits, recoups, untold, gone, pc, snap, grp>>
        /\ todo' = [todo EXCEPT ![r] = T \ {c}] /\ pc[r] = "withdraw" /\ c \in T /\ c \in Coin
    BY <1>0 DEF Withdraw, Lost, Turn
  <1>2. Works("withdraw", g, T) /\ planchet[c] # "none"
    BY <1>0, <1>1 DEF WithdrawInv, RunsWork, Works
  <1>3. debited \subseteq debited' /\ debited' \subseteq debited \cup {c}
    BY DEF Withdraw, Lost, Sign
  <1>4. /\ work' \in [Runs \cup {Orphans} -> SUBSET Coin]
        /\ \A q \in Runs \cup {Orphans} : work'[q] \subseteq debited'
    <2>1. CASE Withdraw(r, c)
      <3>1. /\ \A q \in Runs \cup {Orphans} :
                  work'[q] = IF q = r THEN work[r] \cup {c} ELSE work[q]
            /\ DOMAIN work' = Runs \cup {Orphans} /\ c \in debited'
            /\ work' = [work EXCEPT ![r] = @ \cup {c}]
        BY <2>1 DEF Withdraw, Sign, WithdrawInv, LocalOK
      <3>2. work' \in [Runs \cup {Orphans} -> SUBSET Coin]
        BY <1>1, <3>1 DEF WithdrawInv, LocalOK
      <3>3. QED
        BY <1>3, <3>1, <3>2 DEF WithdrawInv, WorkIsSigned
    <2>2. CASE Lost(r, c)
      BY <1>3, <2>2 DEF Lost, WithdrawInv, LocalOK, WorkIsSigned
    <2>3. QED
      BY <2>1, <2>2
  <1>5. GroupsInv' /\ GroupsGrow
    <2>1. GroupsOK' /\ FinishedIsComplete' /\ (\A h \in finished : size[h] > 0)'
      BY <1>1 DEF WithdrawInv, GroupsInv, GroupsOK, FinishedIsComplete, CoinsOf, groups
    <2>2. CoinsAreBacked'
      BY <1>1, <1>2, <1>3 DEF WithdrawInv, GroupsInv, CoinsAreBacked, groups
    <2>3. QED
      BY <1>1, <2>1, <2>2 DEF GroupsInv, GroupsGrow, groups
  <1>6. PICK U \in SUBSET Coin : U = T \ {c}
    OBVIOUS
  <1>7. Works("withdraw", g, U)
    BY <1>2, <1>6 DEF Works
  <1>8. RunsWork'
    <2>1. /\ pc' = [pc EXCEPT ![r] = "withdraw"] /\ grp' = [grp EXCEPT ![r] = g]
          /\ todo' = [todo EXCEPT ![r] = U]
      BY <1>0, <1>1, <1>6 DEF WithdrawInv, LocalOK
    <2>2. Works("withdraw", g, U)'
      BY <1>5, <1>6, <1>7, WorksOn DEF WithdrawInv, GroupsInv
    <2>3. QED
      BY <1>5, <2>1, <2>2, OneRunMoves
  <1>9. TroublesOK'
    BY <1>1, WithdrawAssumption DEF WithdrawInv, TroublesOK, OutsideOK, Withdraw, Lost, Trouble
  <1>10. /\ debited' \subseteq Coin /\ WorkIsSigned'
         /\ grp' \in [Runs -> Groups \cup {None}] /\ todo' \in [Runs -> SUBSET Coin]
         /\ pc' \in [Runs -> Labels]
         /\ \A q \in Runs : pc'[q] \in {"query", "allocate"} => bank = "confirmed"
    BY <1>1, <1>3, <1>4 DEF WithdrawInv, LocalOK, OutsideOK, WorkIsSigned, BankDecides
  <1>11. QED
    BY <1>1, <1>4, <1>5, <1>8, <1>9, <1>10, CoinSteps DEF groups

LEMMA StoreCoinStep ==
    ASSUME WithdrawInv, NEW r \in Runs \cup {Orphans}, NEW c \in work[r], StoreCoin(r, c)
    PROVE  WithdrawInv'
  <1>1. /\ UNCHANGED <<reserve, size, finished, outside, pc, snap, grp, todo, troubles>>
        /\ work' = [work EXCEPT ![r] = @ \ {c}] /\ c \in Coin /\ c \in debited
        /\ work' \in [Runs \cup {Orphans} -> SUBSET Coin]
    BY DEF StoreCoin, WithdrawInv, LocalOK, WorkIsSigned
  <1>2. /\ planchet' = (IF planchet[c] = "made" THEN [planchet EXCEPT ![c] = "done"] ELSE planchet)
        /\ coins' = (IF planchet[c] = "made" THEN coins \cup {c} ELSE coins)
    BY DEF StoreCoin
  <1>3. GroupsOK' /\ GroupsGrow
    BY <1>1, <1>2 DEF WithdrawInv, GroupsInv, GroupsOK, GroupsGrow
  <1>4. CoinsAreBacked'
    BY <1>1, <1>2, <1>3 DEF WithdrawInv, GroupsInv, GroupsOK, CoinsAreBacked, GroupsGrow, outside,
           OutsideOK
  <1>5. FinishedIsComplete' /\ (\A h \in finished : size[h] > 0)'
    BY <1>1, <1>2 DEF WithdrawInv, GroupsInv, FinishedIsComplete, CoinsOf
  <1>6. RunsWork'
    <2>1. ASSUME NEW q \in Runs PROVE Works(pc[q], grp[q], todo[q])'
      <3>1. PICK g \in Groups \cup {None}, T \in SUBSET Coin : g = grp[q] /\ T = todo[q]
        BY DEF WithdrawInv, LocalOK
      <3>2. Works(pc[q], g, T)
        BY <3>1 DEF WithdrawInv, RunsWork
      <3>3. PICK l : l = pc[q]
        OBVIOUS
      <3>4. Works(l, g, T)'
        BY <1>3, <3>2, <3>3, WorksOn DEF WithdrawInv, GroupsInv
      <3>5. QED
        BY <1>1, <3>1, <3>3, <3>4
    <2>2. QED
      BY <2>1 DEF RunsWork
  <1>7. WorkIsSigned'
    BY <1>1 DEF WithdrawInv, WorkIsSigned, LocalOK, outside
  <1>8. /\ debited' \subseteq Coin /\ TroublesOK'
        /\ grp' \in [Runs -> Groups \cup {None}] /\ todo' \in [Runs -> SUBSET Coin]
        /\ pc' \in [Runs -> Labels]
        /\ \A q \in Runs : pc'[q] \in {"query", "allocate"} => bank = "confirmed"
    BY <1>1 DEF WithdrawInv, LocalOK, OutsideOK, TroublesOK, BankDecides, outside
  <1>9. QED
    BY <1>1, <1>3, <1>4, <1>5, <1>6, <1>7, <1>8, CoinSteps DEF GroupsInv, outside

-----------------------------------------------------------------------------
(* The end of a run, and the allocation.                                   *)
LEMMA CountStep ==
    ASSUME WithdrawInv, NEW r \in Runs, Count(r)
    PROVE  WithdrawInv'
  <1>0. PICK g \in Groups \cup {None}, T \in SUBSET Coin : g = grp[r] /\ T = todo[r]
    BY DEF WithdrawInv, LocalOK
  <1>1. /\ UNCHANGED <<reserve, size, planchet, coins, outside, snap, todo, work, troubles>>
        /\ grp' = [grp EXCEPT ![r] = None] /\ pc[r] = "withdraw"
        /\ todo' = [todo EXCEPT ![r] = T]
    BY <1>0 DEF Count, WithdrawInv, LocalOK
  <1>2. g \in Groups /\ size[g] > 0
    BY <1>0, <1>1 DEF WithdrawInv, RunsWork, Works
  <1>3. PICK l \in Places : /\ pc' = [pc EXCEPT ![r] = l]
                            /\ l = "query" => status = "QUERYING_STATUS"
    BY EnterPlaces DEF Count, Goto, Places
  <1>4. \/ finished' = finished
        \/ finished' = finished \cup {g} /\ \A c \in CoinsOf(g) : planchet[c] = "done"
    BY <1>0 DEF Count
  <1>5. GroupsInv' /\ GroupsGrow
    <2>1. GroupsOK' /\ (\A h \in finished : size[h] > 0)'
      BY <1>1, <1>2, <1>4 DEF WithdrawInv, GroupsInv, GroupsOK
    <2>2. CoinsAreBacked'
      BY <1>1 DEF WithdrawInv, GroupsInv, CoinsAreBacked, outside
    <2>3. \A h \in Groups : CoinsOf(h)' = CoinsOf(h) /\ CoinsOf(h) \subseteq Coin
      BY <1>1, WithdrawAssumption DEF CoinsOf, WithdrawInv, GroupsInv, GroupsOK, Coin
    <2>4. FinishedIsComplete'
      BY <1>1, <1>2, <1>4, <2>1, <2>3
         DEF WithdrawInv, GroupsInv, FinishedIsComplete, CoinsAreBacked, GroupsOK
    <2>5. QED
      BY <1>1, <2>1, <2>2, <2>4 DEF GroupsInv, GroupsGrow
  <1>6. RunsWork'
    <2>1. Works(l, None, T)'
      BY <1>3 DEF Works, Places
    <2>2. QED
      BY <1>1, <1>3, <1>5, <2>1, OneRunMoves
  <1>7. pc' \in [Runs -> Labels]
    BY <1>3 DEF WithdrawInv, Places, Labels
  <1>8. \A q \in Runs : pc'[q] \in {"query", "allocate"} => bank = "confirmed"
    BY <1>3 DEF WithdrawInv, BankDecides, Places
  <1>9. /\ debited' \subseteq Coin /\ TroublesOK' /\ WorkIsSigned'
        /\ grp' \in [Runs -> Groups \cup {None}] /\ todo' \in [Runs -> SUBSET Coin]
        /\ work' \in [Runs \cup {Orphans} -> SUBSET Coin]
    BY <1>1 DEF WithdrawInv, LocalOK, OutsideOK, TroublesOK, WorkIsSigned, outside
  <1>10. QED
    BY <1>1, <1>5, <1>6, <1>7, <1>8, <1>9, CoinSteps DEF outside

LEMMA FailSteps ==
    ASSUME WithdrawInv, Crash \/ \E r \in Runs : Fail(r)
    PROVE  WithdrawInv'
  <1>1. UNCHANGED <<reserve, groups, outside>> /\ Trouble
    BY DEF Crash, Fail
  <1>2. TroublesOK'
    BY <1>1, WithdrawAssumption DEF WithdrawInv, TroublesOK, OutsideOK, Trouble, outside
  <1>3. CASE Crash
    <2>1. LocalOK' /\ pc' \in [Runs -> Labels]
      BY <1>3 DEF Crash, LocalOK, Labels
    <2>2. RunsWork' /\ WorkIsSigned'
      BY <1>3 DEF Crash, RunsWork, Works, WorkIsSigned
    <2>3. SnapsAreOld' /\ \A r \in Runs : pc'[r] \in {"query", "allocate"} => bank = "confirmed"
      BY <1>1, <1>3, WithdrawAssumption DEF Crash, SnapsAreOld, outside, WithdrawInv, OutsideOK
    <2>4. QED
      BY <1>1, <1>2, <2>1, <2>2, <2>3, LocalSteps
  <1>4. ASSUME NEW r \in Runs, Fail(r) PROVE WithdrawInv'
    <2>1. /\ pc' = [pc EXCEPT ![r] = "idle"] /\ todo' = [todo EXCEPT ![r] = {}] /\ UNCHANGED snap
          /\ grp' = [grp EXCEPT ![r] = None]
          /\ work' = [work EXCEPT ![r] = {}, ![Orphans] = @ \cup work[r]]
      BY <1>4 DEF Fail, Goto
    <2>2. /\ pc' \in [Runs -> Labels] /\ grp' \in [Runs -> Groups \cup {None}]
          /\ todo' \in [Runs -> SUBSET Coin] /\ snap' \in [Runs -> Int]
      BY <2>1 DEF WithdrawInv, LocalOK, Labels
    <2>3. r # Orphans /\ Orphans \in Runs \cup {Orphans}
      BY DEF Runs, Orphans
    <2>4. /\ work' \in [Runs \cup {Orphans} -> SUBSET Coin]
          /\ \A q \in Runs \cup {Orphans} : work'[q] \subseteq debited
      BY <2>1, <2>3 DEF WithdrawInv, LocalOK, WorkIsSigned
    <2>5. RunsWork'
      <3>1. GroupsGrow
        BY <1>1, GroupsStay DEF groups, outside
      <3>2. Works("idle", None, {})'
        BY DEF Works
      <3>3. QED
        BY <2>1, <3>1, <3>2, OneRunMoves
    <2>6. LocalOK' /\ WorkIsSigned' /\ SnapsAreOld'
      BY <1>1, <2>1, <2>2, <2>4 DEF LocalOK, WorkIsSigned, SnapsAreOld, WithdrawInv, outside
    <2>7. \A q \in Runs : pc'[q] \in {"query", "allocate"} => bank = "confirmed"
      BY <2>1 DEF WithdrawInv, BankDecides
    <2>8. QED
      BY <1>1, <1>2, <2>2, <2>5, <2>6, <2>7, LocalSteps
  <1>5. QED
    BY <1>3, <1>4

(* The group gets what the answer shows and no group has been promised,    *)
(* counted in the same transaction.                                        *)
LEMMA AllocateStep ==
    ASSUME WithdrawInv, NEW r \in Runs, Allocate(r)
    PROVE  WithdrawInv'
  <1>1. PICK g \in Groups : size[g] = 0 /\ g = CHOOSE h \in Groups : size[h] = 0
    BY DEF Allocate
  <1>2. PICK n : n = snap[r] - Allocated
    OBVIOUS
  <1>3. /\ UNCHANGED <<requested, finished, planchet, coins, outside, todo, work, troubles>>
        /\ status' = "DORMANT" /\ snap' = [snap EXCEPT ![r] = 0] /\ pc[r] = "allocate"
    BY DEF Allocate
  <1>4. /\ Allocated \in Nat /\ n \in Int /\ n + Allocated <= credits
        /\ credits \in 0..MaxCredits /\ MaxCredits \in Nat
    <2>1. Allocated \in Nat
      BY AllCoinsFinite DEF WithdrawInv, GroupsInv
    <2>2. snap[r] \in Int /\ snap[r] <= credits
      BY DEF WithdrawInv, LocalOK, SnapsAreOld
    <2>3. QED
      BY <1>2, <2>1, <2>2, WithdrawAssumption DEF WithdrawInv, OutsideOK
  <1>5. bank = "confirmed"
    BY <1>3 DEF WithdrawInv, BankDecides
  <1>6. snap' \in [Runs -> Int] /\ SnapsAreOld'
    BY <1>3, <1>4 DEF WithdrawInv, LocalOK, SnapsAreOld, outside
  <1>7. /\ OutsideOK' /\ ReserveOK' /\ TroublesOK' /\ WorkIsSigned'
    BY <1>3 DEF WithdrawInv, OutsideOK, ReserveOK, TroublesOK, WorkIsSigned, outside, Statuses
  <1>8. CASE n <= 0
    <2>1. pc' = [pc EXCEPT ![r] = "idle"] /\ UNCHANGED <<size, grp>>
      BY <1>2, <1>8 DEF Allocate, Goto
    <2>2. GroupsInv' /\ GroupsGrow /\ Allocated' = Allocated
      BY <1>3, <2>1, GroupsStay DEF outside
    <2>3. "idle" \in Labels /\ Works("idle", grp[r], todo[r])
      BY DEF Labels, Works
    <2>4. RunsWork' /\ pc' \in [Runs -> Labels]
      BY <1>3, <2>1, <2>3, OneRunGoes DEF groups, outside
    <2>5. BankDecides'
      BY <1>3, <1>5, <2>1 DEF WithdrawInv, BankDecides, outside
    <2>6. LocalOK' /\ NeverOverallocated'
      BY <1>3, <1>6, <2>1, <2>2 DEF WithdrawInv, LocalOK, NeverOverallocated, outside
    <2>7. QED
      BY <1>6, <1>7, <2>2, <2>4, <2>5, <2>6 DEF WithdrawInv
  <1>9. CASE n > 0
    <2>1. /\ size' = [size EXCEPT ![g] = n] /\ grp' = [grp EXCEPT ![r] = g]
          /\ pc' = [pc EXCEPT ![r] = "look"]
      BY <1>1, <1>2, <1>4, <1>9 DEF Allocate, Goto
    <2>2. n \in 0..MaxCredits
      BY <1>4, <1>9
    <2>3. GroupsOK'
      BY <1>3, <2>1, <2>2 DEF WithdrawInv, GroupsInv, GroupsOK
    <2>4. Allocated' = Allocated + n
      BY <1>1, <2>1, <2>2, <2>3, GroupAddsItsCoins DEF WithdrawInv, GroupsInv
    <2>5. GroupsGrow
      BY <1>1, <1>3, <2>1 DEF WithdrawInv, GroupsInv, GroupsOK, GroupsGrow
    <2>6. GroupsInv'
      <3>1. g \notin finished
        BY <1>1 DEF WithdrawInv, GroupsInv
      <3>2. \A h \in finished : size'[h] = size[h] /\ CoinsOf(h)' = CoinsOf(h)
        BY <2>1, <3>1 DEF WithdrawInv, GroupsInv, GroupsOK, CoinsOf
      <3>3. CoinsAreBacked' /\ FinishedIsComplete' /\ (\A h \in finished : size[h] > 0)'
        BY <1>3, <3>2 DEF WithdrawInv, GroupsInv, CoinsAreBacked, FinishedIsComplete, outside
      <3>4. QED
        BY <2>3, <3>3 DEF GroupsInv
    <2>7. RunsWork'
      <3>1. PICK T \in SUBSET Coin : T = todo[r]
        BY DEF WithdrawInv, LocalOK
      <3>2. size'[g] = n
        BY <2>1 DEF WithdrawInv, GroupsInv, GroupsOK
      <3>3. Works("look", g, T)'
        BY <1>9, <3>2 DEF Works
      <3>4. todo' = [todo EXCEPT ![r] = T]
        BY <1>3, <3>1 DEF WithdrawInv, LocalOK
      <3>5. QED
        BY <2>1, <2>5, <3>3, <3>4, OneRunMoves
    <2>8. pc' \in [Runs -> Labels]
      BY <2>1 DEF WithdrawInv, Labels
    <2>9. BankDecides'
      BY <1>3, <1>5, <2>1 DEF WithdrawInv, BankDecides, outside
    <2>10. LocalOK'
      BY <1>3, <1>6, <2>1 DEF WithdrawInv, LocalOK
    <2>11. NeverOverallocated'
      BY <1>3, <1>4, <2>4 DEF NeverOverallocated, outside
    <2>12. QED
      BY <1>6, <1>7, <2>6, <2>7, <2>8, <2>9, <2>10, <2>11 DEF WithdrawInv
  <1>10. QED
    BY <1>4, <1>8, <1>9

-----------------------------------------------------------------------------
LEMMA InitInv == Init => WithdrawInv
  <1> SUFFICES ASSUME Init PROVE WithdrawInv
    OBVIOUS
  <1>1. ReserveOK /\ pc \in [Runs -> Labels] /\ BankDecides
    BY EnterPlaces
       DEF Init, ReserveOK, Statuses, BankPhase, Labels, Places, BankDecides, Enter, EnterBank
  <1>2. Allocated = 0
    <2>1. AllCoins = {}
      BY DEF Init, AllCoins, CoinsOf
    <2>2. QED
      BY <2>1, FS_EmptySet DEF Allocated, AllCoins
  <1>3. GroupsInv /\ OutsideOK /\ LocalOK /\ TroublesOK
    BY WithdrawAssumption
       DEF Init, GroupsInv, GroupsOK, CoinsAreBacked, FinishedIsComplete, OutsideOK, LocalOK,
           TroublesOK
  <1>4. SnapsAreOld /\ NeverOverallocated /\ WorkIsSigned
    BY <1>2 DEF Init, SnapsAreOld, NeverOverallocated, WorkIsSigned
  <1>5. RunsWork
    BY EnterPlaces DEF Init, RunsWork, Works, Places
  <1>6. QED
    BY <1>1, <1>3, <1>4, <1>5 DEF WithdrawInv

LEMMA StepInv == WithdrawInv /\ [Next]_vars => WithdrawInv'
  <1> SUFFICES ASSUME WithdrawInv, [Next]_vars PROVE WithdrawInv'
    OBVIOUS
  <1>1. CASE UserConfirms \/ UserAborts \/ WireTransfer \/ Recoup \/ Leave
    BY <1>1, OutsideSteps
  <1>2. CASE ForceQuery \/ RecoupTx
    BY <1>2, QuerySteps
  <1>3. CASE StartReserve
    BY <1>3, StartReserveStep
  <1>4. CASE \E g \in Groups : StartGroup(g)
    BY <1>4, StartGroupStep
  <1>5. ASSUME NEW r \in Runs, ReserveStep(r) PROVE WithdrawInv'
    BY <1>5, BankSteps, QueryAnsweredStep, AllocateStep DEF ReserveStep
  <1>6. ASSUME NEW r \in Runs, GroupStep(r) PROVE WithdrawInv'
    BY <1>6, GroupSteps, CountStep, MakePlanchetStep, WithdrawSteps DEF GroupStep
  <1>7. ASSUME NEW r \in Runs, NEW c \in todo[r], Lost(r, c) PROVE WithdrawInv'
    BY <1>7, WithdrawSteps
  <1>8. CASE Crash \/ \E r \in Runs : Fail(r)
    BY <1>8, FailSteps
  <1>9. CASE StoreStep
    BY <1>9, StoreCoinStep DEF StoreStep
  <1>10. CASE UNCHANGED vars
    <2>1. /\ UNCHANGED <<reserve, groups, outside>>
          /\ UNCHANGED <<pc, snap, grp, todo, work, troubles>>
      BY <1>10 DEF vars, reserve, groups, outside
    <2>2. LocalOK' /\ TroublesOK' /\ SnapsAreOld' /\ WorkIsSigned' /\ pc' \in [Runs -> Labels]
      BY <2>1 DEF WithdrawInv, LocalOK, TroublesOK, SnapsAreOld, WorkIsSigned, outside
    <2>3. RunsWork'
      BY <2>1 DEF WithdrawInv, RunsWork, Works, CoinsOf, groups
    <2>4. QED
      BY <2>1, <2>2, <2>3, LocalSteps DEF WithdrawInv, BankDecides
  <1>11. QED
    BY <1>1, <1>2, <1>3, <1>4, <1>5, <1>6, <1>7, <1>8, <1>9, <1>10 DEF Next

LEMMA WithdrawInvariant == Spec => []WithdrawInv
  BY InitInv, StepInv, PTL DEF Spec

(* The state of the reserve, its groups and the runs is always well-typed. *)
THEOREM WithdrawTypeCorrect == Spec => []TypeOK
  <1>1. WithdrawInv => TypeOK
    BY WithdrawAssumption
       DEF WithdrawInv, ReserveOK, GroupsOK, GroupsInv, OutsideOK, LocalOK, TroublesOK, TypeOK,
           Statuses, Labels
  <1>2. QED
    BY <1>1, WithdrawInvariant, PTL

(* The groups of a reserve never promise more coins than were credited to  *)
(* it, whatever runs of updateReserve overlap (reserves.ts:445): what a    *)
(* run knows is old, but what is promised is counted when it decides.      *)
THEOREM NeverPromisedTooMuch == Spec => []NeverOverallocated
  BY WithdrawInvariant, PTL DEF WithdrawInv

(* Each coin in the wallet is one the exchange has signed, and each signed *)
(* coin still has the planchet it was signed for, whatever runs overlap,   *)
(* fail or die (withdraw.ts:719).                                          *)
THEOREM EveryCoinIsBacked == Spec => []CoinsAreBacked
  BY WithdrawInvariant, PTL DEF WithdrawInv, GroupsInv

(* A finished withdrawal group has all its coins.                          *)
THEOREM FinishedGroupIsComplete == Spec => []FinishedIsComplete
  BY WithdrawInvariant, PTL DEF WithdrawInv, GroupsInv

(* A withdrawal the bank has aborted stays aborted, and nothing is ever    *)
(* promised for it.                                                        *)
THEOREM AbortedStaysAborted == Spec => AbortIsFinal
  <1>1. WithdrawInv /\ [Next]_vars
          => [status = "BANK_ABORTED" => status' = "BANK_ABORTED" /\ size' = size]_vars
    <2> SUFFICES ASSUME WithdrawInv, Next, status = "BANK_ABORTED"
                 PROVE  status' = "BANK_ABORTED" /\ size' = size
      BY DEF vars
    <2>0. bank = "aborted" /\ \A r \in Runs : pc[r] \notin {"query", "allocate"}
      BY DEF WithdrawInv, BankDecides
    <2> USE DEF reserve, groups, outside
    <2>1. CASE UserConfirms \/ UserAborts \/ WireTransfer \/ Recoup \/ Leave
      BY <2>1 DEF UserConfirms, UserAborts, WireTransfer, Recoup, Leave
    <2>2. CASE ForceQuery \/ RecoupTx \/ StartReserve \/ Crash
      BY <2>2 DEF ForceQuery, RecoupTx, Requery, StartReserve, Crash
    <2>3. CASE \E g \in Groups : StartGroup(g)
      BY <2>3 DEF StartGroup
    <2>4. ASSUME NEW r \in Runs, ReserveStep(r) PROVE status' = "BANK_ABORTED" /\ size' = size
      BY <2>0, <2>4
         DEF ReserveStep, PollAborted, PollUnselected, PollConfirmed, PollWaiting, Post,
             PostRefused, RegisterTx, QueryAnswered, QueryUnknown, Allocate, BankPhase
    <2>5. ASSUME NEW r \in Runs, GroupStep(r) \/ Fail(r)
          PROVE  status' = "BANK_ABORTED" /\ size' = size
      BY <2>5
         DEF GroupStep, Look, PlanchetsMade, Count, MakePlanchet, Skip, Withdraw, Refused, Fail
    <2>6. ASSUME NEW r \in Runs, NEW c \in todo[r], Lost(r, c)
          PROVE  status' = "BANK_ABORTED" /\ size' = size
      BY <2>6 DEF Lost
    <2>7. CASE StoreStep
      BY <2>7 DEF StoreStep, StoreCoin
    <2>8. QED
      BY <2>1, <2>2, <2>3, <2>4, <2>5, <2>6, <2>7 DEF Next
  <1>2. QED
    BY <1>1, WithdrawInvariant, PTL DEF Spec, AbortIsFinal
=============================================================================
