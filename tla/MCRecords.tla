------------------------------ MODULE MCRecords ------------------------------
(***************************************************************************)
(* Model checking deposits, recoups, tips and backups side by side.  They  *)
(* share no state: `part` says which of them a behaviour is about, and the *)
(* others are at rest from the beginning.                                  *)
(***************************************************************************)
EXTENDS Deposit, Recoup, Tip, Backup

VARIABLE part

recordVars == <<part, depositVars, recoupVars, tipVars, backupVars>>

(* At rest: a recoup group without work, an account without a device.      *)
Init ==
    /\ part \in {"deposit", "recoup", "tip", "backup"}
    /\ DepositInit /\ TipInit
    /\ IF part = "recoup" THEN RecoupInit ELSE empty = RecoupCoins /\ ended = TRUE /\ Untouched
    /\ IF part = "backup" THEN BackupInit ELSE joined = {} /\ Unsynchronised

Next ==
    /\ UNCHANGED part
    /\ IF part = "deposit" THEN DepositNext ELSE UNCHANGED depositVars
    /\ IF part = "recoup" THEN RecoupNext ELSE UNCHANGED recoupVars
    /\ IF part = "tip" THEN TipNext ELSE UNCHANGED tipVars
    /\ IF part = "backup" THEN BackupNext ELSE UNCHANGED backupVars

Spec ==
    /\ Init /\ [][Next]_recordVars
    /\ DepositFairness /\ RecoupFairness /\ TipFairness /\ BackupFairness
=============================================================================
