--------------------------------- MODULE Tip ---------------------------------
(***************************************************************************)
(* One tip of a merchant (operations/tip.ts).  The user may look at it     *)
(* with several calls of prepareTip, each of which may make a record of    *)
(* its own, and accept it more than once.  processTip is not memoised:     *)
(* acceptTip and the retry loop run it side by side.  A record's coins are *)
(* derived from its seed, so every run of it gets the same ones; one coin  *)
(* stands for all of them.                                                 *)
(***************************************************************************)
EXTENDS Naturals

CONSTANTS
    Prepares,       \* calls of prepareTip; the record it makes has its name
    Accepts,        \* calls of acceptTip
    Pickers,        \* runs of processTip that may overlap
    NoTip,          \* no record
    MaxTipTroubles  \* bound: requests that fail and deaths of the wallet

ASSUME TipAssumption == NoTip \notin Prepares /\ MaxTipTroubles \in Nat

VARIABLES
    tips,       \* the records
    taken,      \* those with an acceptedTimestamp
    pickedUp,   \* those with a pickedUpTimestamp
    preparing,  \* calls of prepareTip that have found no record
    accepting,  \* per call of acceptTip, the record it has read, or NoTip
    readPicked, \* the pickedUpTimestamp of what it has read
    acceptsLeft,\* calls of acceptTip that have not been made yet
    picker,     \* per run, the record it works on, or NoTip
    signed,     \* runs that have the merchant's answer
    honoured,   \* the record whose planchets the merchant has had signed
    tipCoin,    \* coin of a record: "none", "fresh" or "spent"
    rewound,    \* has an acceptTip taken back a pickedUpTimestamp?
    tipTroubles

tipRecords == <<tips, taken, pickedUp>>
tipCalls == <<preparing, accepting, readPicked, acceptsLeft>>
tipVars == <<tips, taken, pickedUp, preparing, accepting, readPicked, acceptsLeft, picker, signed,
             honoured, tipCoin, rewound, tipTroubles>>

TipTypeOK ==
    /\ tips \subseteq Prepares /\ taken \subseteq tips /\ pickedUp \subseteq tips
    /\ preparing \subseteq Prepares /\ acceptsLeft \subseteq Accepts
    /\ accepting \in [Accepts -> tips \cup {NoTip}] /\ readPicked \in [Accepts -> BOOLEAN]
    /\ picker \in [Pickers -> tips \cup {NoTip}] /\ signed \subseteq Pickers
    /\ honoured \in tips \cup {NoTip} /\ tipCoin \in [Prepares -> {"none", "fresh", "spent"}]
    /\ rewound \in BOOLEAN /\ tipTroubles \in 0..MaxTipTroubles

TipInit ==
    /\ tips = {} /\ taken = {} /\ pickedUp = {} /\ preparing = {}
    /\ accepting = [a \in Accepts |-> NoTip] /\ readPicked = [a \in Accepts |-> FALSE]
    /\ acceptsLeft = Accepts /\ picker = [p \in Pickers |-> NoTip] /\ signed = {}
    /\ honoured = NoTip /\ tipCoin = [t \in Prepares |-> "none"] /\ rewound = FALSE
    /\ tipTroubles = 0

(* prepareTip finds no record and asks the merchant ...                    *)
LookUpTip(t) ==
    /\ tips = {} /\ t \notin preparing /\ preparing' = preparing \cup {t}
    /\ UNCHANGED <<tipRecords, accepting, readPicked, acceptsLeft, picker, signed, honoured,
                   tipCoin, rewound, tipTroubles>>

(* ... and stores one, whether or not there is one by now.                 *)
PutTip(t) ==
    /\ t \in preparing /\ preparing' = preparing \ {t} /\ tips' = tips \cup {t}
    /\ UNCHANGED <<taken, pickedUp, accepting, readPicked, acceptsLeft, picker, signed, honoured,
                   tipCoin, rewound, tipTroubles>>

(* acceptTip reads the record ...                                          *)
ReadTip(a, t) ==
    /\ a \in acceptsLeft /\ t \in tips
    /\ acceptsLeft' = acceptsLeft \ {a}
    /\ accepting' = [accepting EXCEPT ![a] = t]
    /\ readPicked' = [readPicked EXCEPT ![a] = t \in pickedUp]
    /\ UNCHANGED <<tipRecords, preparing, picker, signed, honoured, tipCoin, rewound, tipTroubles>>

(* ... and puts it back with the time of acceptance, as it was otherwise.  *)
AcceptTip(a) ==
    LET t == accepting[a] IN
    /\ t # NoTip /\ taken' = taken \cup {t}
    /\ pickedUp' = IF readPicked[a] THEN pickedUp \cup {t} ELSE pickedUp \ {t}
    /\ rewound' = (rewound \/ (t \in pickedUp /\ ~readPicked[a]))
    /\ accepting' = [accepting EXCEPT ![a] = NoTip]
    /\ readPicked' = [readPicked EXCEPT ![a] = FALSE]
    /\ UNCHANGED <<tips, preparing, acceptsLeft, picker, signed, honoured, tipCoin,
                   tipTroubles>>

-----------------------------------------------------------------------------
(* Mutant of StartPick: only a tip nobody has asked for yet is pending. *)
StartFreshPick(p, t) ==
    /\ picker[p] = NoTip /\ t \in taken \ pickedUp /\ honoured = NoTip
    /\ picker' = [picker EXCEPT ![p] = t]
    /\ UNCHANGED <<tipRecords, tipCalls, signed, honoured, tipCoin, rewound, tipTroubles>>

(* acceptTip and the retry loop run processTip on a record that has been   *)
(* accepted and not picked up.                                             *)
StartPick(p, t) ==
    /\ picker[p] = NoTip /\ t \in taken \ pickedUp
    /\ picker' = [picker EXCEPT ![p] = t]
    /\ UNCHANGED <<tipRecords, tipCalls, signed, honoured, tipCoin, rewound, tipTroubles>>

(* The merchant has the planchets signed that it is sent first, and        *)
(* repeats its answer for them only.                                       *)
PickUp(p) ==
    LET t == picker[p] IN
    /\ t # NoTip /\ p \notin signed /\ honoured \in {NoTip, t}
    /\ honoured' = t /\ signed' = signed \cup {p}
    /\ UNCHANGED <<tipRecords, tipCalls, picker, tipCoin, rewound, tipTroubles>>

EndPick(p) == picker' = [picker EXCEPT ![p] = NoTip] /\ signed' = signed \ {p}

(* Other planchets are refused: the run ends with an error.                *)
RefusePick(p) ==
    /\ picker[p] # NoTip /\ p \notin signed /\ honoured \notin {NoTip, picker[p]}
    /\ EndPick(p)
    /\ UNCHANGED <<tipRecords, tipCalls, honoured, tipCoin, rewound, tipTroubles>>

(* The last transaction: nothing when the record is picked up by now.      *)
StorePick(p) ==
    LET t == picker[p] IN
    /\ p \in signed /\ EndPick(p)
    /\ IF t \in pickedUp
       THEN UNCHANGED <<pickedUp, tipCoin>>
       ELSE pickedUp' = pickedUp \cup {t} /\ tipCoin' = [tipCoin EXCEPT ![t] = "fresh"]
    /\ UNCHANGED <<tips, taken, tipCalls, honoured, rewound, tipTroubles>>

(* A payment spends the coin.                                              *)
SpendTip(t) ==
    /\ tipCoin[t] = "fresh" /\ tipCoin' = [tipCoin EXCEPT ![t] = "spent"]
    /\ UNCHANGED <<tipRecords, tipCalls, picker, signed, honoured, rewound, tipTroubles>>

-----------------------------------------------------------------------------
TipTrouble == tipTroubles < MaxTipTroubles /\ tipTroubles' = tipTroubles + 1

(* The request or its answer is lost, or a signature is invalid; the       *)
(* record keeps an error and stays pending.                                *)
FailPick(p) ==
    /\ picker[p] # NoTip /\ TipTrouble /\ EndPick(p)
    /\ UNCHANGED <<tipRecords, tipCalls, honoured, tipCoin, rewound>>

CrashTip ==
    /\ TipTrouble
    /\ preparing' = {} /\ picker' = [p \in Pickers |-> NoTip] /\ signed' = {}
    /\ accepting' = [a \in Accepts |-> NoTip] /\ readPicked' = [a \in Accepts |-> FALSE]
    /\ UNCHANGED <<tipRecords, acceptsLeft, honoured, tipCoin, rewound>>

PickStep(p) == PickUp(p) \/ RefusePick(p) \/ StorePick(p)

TipNext ==
    \/ \E t \in Prepares : LookUpTip(t) \/ PutTip(t) \/ SpendTip(t)
    \/ \E a \in Accepts : AcceptTip(a) \/ \E t \in Prepares : ReadTip(a, t)
    \/ \E p \in Pickers : PickStep(p) \/ FailPick(p) \/ \E t \in Prepares : StartPick(p, t)
    \/ CrashTip

TipSpec == TipInit /\ [][TipNext]_tipVars

TipFairness ==
    /\ \A a \in Accepts : WF_tipVars(AcceptTip(a))
    /\ \A p \in Pickers : WF_tipVars(PickStep(p))
    /\ \A t \in Prepares : SF_tipVars(\E p \in Pickers : StartPick(p, t))
-----------------------------------------------------------------------------
(* However many runs work on a tip, a record that counts as picked up has  *)
(* its coin, and the coin of a record is there only when the merchant has  *)
(* had it signed; it becomes fresh a second time only where an acceptTip   *)
(* has taken back what a run had stored meanwhile (tip.ts:342, :374).      *)
TipIsPickedUpOnce ==
    /\ \A t \in pickedUp : tipCoin[t] # "none"
    /\ \A t \in Prepares : tipCoin[t] # "none" => honoured = t

(* A tip that has been accepted under any of its records is picked up in   *)
(* the end, whichever of them the merchant honours.                        *)
TipArrives == taken # {} ~> pickedUp # {}
=============================================================================
