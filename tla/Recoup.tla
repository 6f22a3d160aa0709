------------------------------- MODULE Recoup -------------------------------
(***************************************************************************)
(* One recoup group, from its creation to the refresh that ends it         *)
(* (operations/recoup.ts).  Every coin is worth 1; the refreshed ones come *)
(* from one old coin.                                                      *)
(*                                                                         *)
(* processRecoupGroup is memoised and works on all coins at once.  When    *)
(* one of them fails the run is over, but the work on the others goes on   *)
(* ("orphan") beside that of the next run.                                 *)
(***************************************************************************)
EXTENDS Naturals, FiniteSets

CONSTANTS
    Withdrawn, Refreshed, Tipped,   \* coins of the group, by their source
    MaxRecoupTroubles               \* bound: requests that fail and crashes

ASSUME RecoupAssumption ==
    /\ IsFiniteSet(Withdrawn) /\ IsFiniteSet(Refreshed) /\ MaxRecoupTroubles \in Nat
    /\ Tipped \cap (Withdrawn \cup Refreshed) = {}

RecoupCoins == Withdrawn \cup Refreshed \cup Tipped

VARIABLES
    empty,          \* coins that were missing or worth nothing at the creation
    recouped,       \* recoupFinishedPerCoin
    ended,          \* timestampFinished
    scheduled,      \* the length of scheduleRefreshCoins
    paidBack,       \* coins the exchange has recouped
    inReserve,      \* value the reserve is to be asked for
    oldCoin,        \* value of the old coin
    inRefresh,      \* value that the refresh group has taken over
    recoupRun,      \* "idle" or "busy"
    asking,         \* requests under way: pairs of a coin and "run"/"orphan"
    entering,       \* answers to be entered, likewise
    recoupTroubles

recoupRecord == <<empty, recouped, ended, scheduled>>
recoupMoney == <<inReserve, oldCoin, inRefresh>>
recoupVars == <<empty, recouped, ended, scheduled, paidBack, inReserve, oldCoin, inRefresh,
                recoupRun, asking, entering, recoupTroubles>>

RecoupTypeOK ==
    /\ empty \subseteq recouped /\ recouped \subseteq RecoupCoins
    /\ ended \in BOOLEAN /\ scheduled \in Nat
    /\ paidBack \subseteq RecoupCoins
    /\ inReserve \in Nat /\ oldCoin \in Nat /\ inRefresh \in Nat
    /\ recoupRun \in {"idle", "busy"} /\ recoupTroubles \in 0..MaxRecoupTroubles
    /\ asking \subseteq RecoupCoins \X {"run", "orphan"}
    /\ entering \subseteq RecoupCoins \X {"run", "orphan"}

Untouched ==
    /\ recouped = empty /\ scheduled = 0 /\ paidBack = {}
    /\ inReserve = 0 /\ oldCoin = 0 /\ inRefresh = 0
    /\ recoupRun = "idle" /\ asking = {} /\ entering = {} /\ recoupTroubles = 0

(* createRecoupGroup has set the coins to zero; one that was missing or    *)
(* empty is finished at once.                                              *)
RecoupInit == empty \in SUBSET RecoupCoins \ {RecoupCoins} /\ ended = FALSE /\ Untouched

(* Mutant of StartRecoup: only a group nobody has worked on is pending. *)
StartFresh ==
    /\ recoupRun = "idle" /\ ~ended /\ recouped = empty /\ paidBack = {}
    /\ recoupRun' = "busy"
    /\ asking' = asking \cup ((RecoupCoins \ (recouped \cup Tipped)) \X {"run"})
    /\ entering' = entering \cup ((Tipped \ recouped) \X {"run"})
    /\ UNCHANGED <<recoupRecord, paidBack, recoupMoney, recoupTroubles>>

(* processRecoupGroupImpl starts on every coin that is not finished; a tip *)
(* needs no request.                                                       *)
StartRecoup ==
    /\ recoupRun = "idle" /\ ~ended
    /\ recoupRun' = "busy"
    /\ asking' = asking \cup ((RecoupCoins \ (recouped \cup Tipped)) \X {"run"})
    /\ entering' = entering \cup ((Tipped \ recouped) \X {"run"})
    /\ UNCHANGED <<recoupRecord, paidBack, recoupMoney, recoupTroubles>>

(* The exchange pays a coin back, or repeats its confirmation.             *)
AskRecoup(c, w) ==
    /\ <<c, w>> \in asking /\ asking' = asking \ {<<c, w>>}
    /\ paidBack' = paidBack \cup {c} /\ entering' = entering \cup {<<c, w>>}
    /\ UNCHANGED <<recoupRecord, recoupMoney, recoupRun, recoupTroubles>>

(* The work w on c fails; in a run that ends the run.                      *)
Orphaned(S) == {<<p[1], "orphan">> : p \in S}

FailsWork(c, w) ==
    IF w = "run"
    THEN /\ recoupRun' = "idle"
         /\ asking' = Orphaned(asking \ {<<c, w>>}) /\ entering' = Orphaned(entering \ {<<c, w>>})
    ELSE /\ asking' = asking \ {<<c, w>>} /\ entering' = entering \ {<<c, w>>}
         /\ UNCHANGED recoupRun

Entered(c, w) == entering' = entering \ {<<c, w>>} /\ recouped' = recouped \cup {c}
Last(c) == recouped \cup {c} = RecoupCoins

(* The other work on the coin has been faster.                             *)
AlreadyEntered(c, w) ==
    /\ <<c, w>> \in entering /\ c \in recouped
    /\ entering' = entering \ {<<c, w>>}
    /\ UNCHANGED <<recoupRecord, paidBack, recoupMoney, recoupRun, asking, recoupTroubles>>

(* Mutant of EnterRefreshed: the coin's mark is not looked at again. *)
EnterTwice(c, w) ==
    /\ <<c, w>> \in entering /\ c \in Refreshed
    /\ Entered(c, w) /\ scheduled' = scheduled + 1
    /\ IF Last(c)
       THEN ended' = TRUE /\ inRefresh' = inRefresh + oldCoin + 1 /\ oldCoin' = 0
       ELSE oldCoin' = oldCoin + 1 /\ UNCHANGED <<ended, inRefresh>>
    /\ UNCHANGED <<empty, paidBack, inReserve, recoupRun, asking, recoupTroubles>>

(* recoupRefreshCoin: the old coin gets its value back and is scheduled    *)
(* for the refresh that the last coin of the group creates.                *)
EnterRefreshed(c, w) ==
    /\ <<c, w>> \in entering /\ c \in Refreshed \ recouped
    /\ Entered(c, w) /\ scheduled' = scheduled + 1
    /\ IF Last(c)
       THEN ended' = TRUE /\ inRefresh' = inRefresh + oldCoin + 1 /\ oldCoin' = 0
       ELSE oldCoin' = oldCoin + 1 /\ UNCHANGED <<ended, inRefresh>>
    /\ UNCHANGED <<empty, paidBack, inReserve, recoupRun, asking, recoupTroubles>>

(* recoupWithdrawCoin asks for a query of the reserve, recoupTipCoin does  *)
(* nothing for the coin.                                                   *)
EnterOther(c, w) ==
    /\ <<c, w>> \in entering /\ c \in (Withdrawn \cup Tipped) \ recouped
    /\ Last(c) => scheduled = 0
    /\ Entered(c, w) /\ ended' = Last(c)
    /\ inReserve' = IF c \in Withdrawn THEN inReserve + 1 ELSE inReserve
    /\ UNCHANGED <<empty, scheduled, paidBack, oldCoin, inRefresh, recoupRun, asking,
                   recoupTroubles>>

(* Their transactions do not include the refresh groups: where the last    *)
(* coin has to create one, they throw and have no effect.                  *)
CannotEnd(c, w) ==
    /\ <<c, w>> \in entering /\ c \in (Withdrawn \cup Tipped) \ recouped
    /\ Last(c) /\ scheduled > 0
    /\ FailsWork(c, w)
    /\ UNCHANGED <<recoupRecord, paidBack, recoupMoney, recoupTroubles>>

EndRun ==
    /\ recoupRun = "busy" /\ \A p \in asking \cup entering : p[2] # "run"
    /\ recoupRun' = "idle"
    /\ UNCHANGED <<recoupRecord, paidBack, recoupMoney, asking, entering, recoupTroubles>>

-----------------------------------------------------------------------------
RecoupTrouble == recoupTroubles < MaxRecoupTroubles /\ recoupTroubles' = recoupTroubles + 1

(* A request fails, before or after the exchange has answered it.          *)
FailRecoup(c, w) ==
    /\ <<c, w>> \in asking /\ RecoupTrouble
    /\ FailsWork(c, w)
    /\ paidBack' \in {paidBack, paidBack \cup {c}}
    /\ UNCHANGED <<recoupRecord, recoupMoney>>

CrashRecoup ==
    /\ RecoupTrouble
    /\ recoupRun' = "idle" /\ asking' = {} /\ entering' = {}
    /\ UNCHANGED <<recoupRecord, paidBack, recoupMoney>>

RecoupStep ==
    \/ EndRun
    \/ \E p \in asking : AskRecoup(p[1], p[2])
    \/ \E p \in entering : \/ AlreadyEntered(p[1], p[2]) \/ EnterRefreshed(p[1], p[2])
                            \/ EnterOther(p[1], p[2]) \/ CannotEnd(p[1], p[2])

RecoupNext ==
    \/ StartRecoup \/ RecoupStep \/ CrashRecoup \/ \E p \in asking : FailRecoup(p[1], p[2])

RecoupSpec == RecoupInit /\ [][RecoupNext]_recoupVars

RecoupFairness == SF_recoupVars(StartRecoup) /\ WF_recoupVars(RecoupStep)
-----------------------------------------------------------------------------
(* What the exchange has paid back is credited once, to the reserve or to  *)
(* the old coin, however often and by however many runs the coin is worked *)
(* on; a tip is credited nowhere (recoup.ts:264).                          *)
CreditedOnce ==
    LET due == recouped \ (Tipped \cup empty)
    IN due \subseteq paidBack /\ inReserve + oldCoin + inRefresh = Cardinality(due)

(* A group that has ended leaves no value on an old coin, which nobody can *)
(* spend (recoup.ts:91).                                                   *)
EndedIsRefreshed == ended => oldCoin = 0 /\ recouped = RecoupCoins

(* The group cannot end any more: the coins that are left would have to    *)
(* create the refresh group and cannot (recoup.ts:91).                     *)
Blocked == scheduled > 0 /\ recouped # RecoupCoins /\ Refreshed \subseteq recouped

(* Every group ends, unless it is blocked in this way.                     *)
RecoupEnds == <>(ended \/ Blocked)
=============================================================================
