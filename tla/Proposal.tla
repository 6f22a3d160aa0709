------------------------------ MODULE Proposal ------------------------------
(***************************************************************************)
(* From a taler://pay URI to a decision (operations/pay.ts): preparePay    *)
(* finds or creates the proposal record of an order and downloads the      *)
(* contract terms, the retry loop downloads them too, and the user accepts *)
(* or refuses.  All of it concerns one order of one merchant.              *)
(*                                                                         *)
(* A call of preparePay draws a fresh proposal ID and nonce: both are      *)
(* represented by the call itself.  The merchant is external: an order is  *)
(* claimed by the first nonce, and its terms are acceptable or they are    *)
(* not (bad signature, wrong base URL).  A restart of the wallet is a call *)
(* that takes no further step.                                             *)
(***************************************************************************)
EXTENDS Naturals, FiniteSets

CONSTANTS
    Calls,      \* calls of preparePay (and the proposal IDs they draw)
    Loops,      \* downloads the retry loop may have running
    None

ASSUME ProposalAssumption == None \notin Calls /\ Calls \cap Loops = {}

VARIABLES
    status,     \* per proposal ID: proposalStatus, or "absent"
    terms,      \* the proposals whose download is stored
    purchases,  \* the proposals that have a purchase
    at, id,     \* per call or download: where it is, and for which proposal
    claimed,    \* the nonce the merchant accepted for the order, or None
    termsOkay,  \* are the merchant's terms acceptable?
    bought      \* is there another purchase for the same fulfillment URL?

Procs == Calls \cup Loops
db == <<status, terms, purchases>>
merchant == <<claimed, termsOkay, bought>>
proposalVars == <<status, terms, purchases, at, id, claimed, termsOkay, bought>>

Decided == {"accepted", "refused", "failed", "repurchase"}

ProposalTypeOK ==
    /\ status \in [Calls -> {"absent", "downloading", "proposed"} \cup Decided]
    /\ terms \subseteq Calls /\ purchases \subseteq Calls
    /\ at \in [Procs -> {"idle", "create", "download", "claim", "got", "check",
                         "returned", "threw", "confirm", "done"}]
    /\ id \in [Procs -> Calls \cup {None}]
    /\ claimed \in Calls \cup {None}
    /\ termsOkay \in BOOLEAN /\ bought \in BOOLEAN

ProposalInit ==
    /\ status = [i \in Calls |-> "absent"]
    /\ terms = {} /\ purchases = {}
    /\ at = [x \in Procs |-> "idle"] /\ id = [x \in Procs |-> None]
    /\ claimed = None /\ termsOkay \in BOOLEAN /\ bought \in BOOLEAN

Stored == {i \in Calls : status[i] # "absent"}

Goto(x, place) == at' = [at EXCEPT ![x] = place]

(* A download of the retry loop ends here; a call goes on. *)
Then(x, place) == Goto(x, IF x \in Loops THEN "idle" ELSE place)

-----------------------------------------------------------------------------
(* startDownloadProposal: look for the order, ... *)
Prepare(c) ==
    /\ at[c] = "idle"
    /\ \/ Stored = {} /\ Goto(c, "create") /\ UNCHANGED id
       \/ \E i \in Stored : id' = [id EXCEPT ![c] = i] /\ Goto(c, "download")
    /\ UNCHANGED <<db, merchant>>

(* Mutant of Create: does not look again inside of the transaction. *)
CreateUnchecked(c) ==
    /\ at[c] = "create"
    /\ status' = [status EXCEPT ![c] = "downloading"]
    /\ id' = [id EXCEPT ![c] = c] /\ Goto(c, "download")
    /\ UNCHANGED <<terms, purchases, merchant>>

(* ... else create a record, unless one was "created concurrently"; go on  *)
(* with the ID drawn here in both cases.                                   *)
Create(c) ==
    /\ at[c] = "create"
    /\ IF Stored = {} THEN status' = [status EXCEPT ![c] = "downloading"] ELSE UNCHANGED status
    /\ id' = [id EXCEPT ![c] = c] /\ Goto(c, "download")
    /\ UNCHANGED <<terms, purchases, merchant>>

LoopDownload(l) ==
    /\ at[l] = "idle"
    /\ \E i \in Calls : status[i] = "downloading" /\ id' = [id EXCEPT ![l] = i]
    /\ Goto(l, "download")
    /\ UNCHANGED <<db, merchant>>

(* processDownloadProposalImpl, up to its request. *)
Download(x) ==
    /\ at[x] = "download"
    /\ IF status[id[x]] = "downloading" THEN Goto(x, "claim") ELSE Then(x, "check")
    /\ UNCHANGED <<db, id, merchant>>

(* The merchant's answer to the claim: an error if another nonce was first. *)
Claim(x) ==
    /\ at[x] = "claim"
    /\ IF claimed \in {None, id[x]}
       THEN claimed' = id[x] /\ Goto(x, "got")
       ELSE Then(x, "threw") /\ UNCHANGED claimed
    /\ UNCHANGED <<db, id, termsOkay, bought>>

(* The request fails; the merchant may have got it. *)
RequestFails(x) ==
    /\ at[x] = "claim"
    /\ claimed' \in {claimed, IF claimed = None THEN id[x] ELSE claimed}
    /\ Then(x, "threw")
    /\ UNCHANGED <<db, id, termsOkay, bought>>

(* Mutant of StoreTerms: the status is not read again. *)
StoreTermsUnchecked(x) ==
    /\ at[x] = "got" /\ termsOkay
    /\ status' = [status EXCEPT ![id[x]] = IF bought THEN "repurchase" ELSE "proposed"]
    /\ terms' = terms \cup {id[x]}
    /\ Then(x, "check")
    /\ UNCHANGED <<purchases, id, merchant>>

(* The last transaction of the download; an order for something that was   *)
(* bought already becomes a repurchase.                                    *)
StoreTerms(x) ==
    /\ at[x] = "got" /\ termsOkay
    /\ IF status[id[x]] = "downloading"
       THEN /\ status' = [status EXCEPT ![id[x]] = IF bought THEN "repurchase" ELSE "proposed"]
            /\ terms' = terms \cup {id[x]}
       ELSE UNCHANGED <<status, terms>>
    /\ Then(x, "check")
    /\ UNCHANGED <<purchases, id, merchant>>

(* failProposalPermanently, whatever the status is by now. *)
FailPermanently(x) ==
    /\ at[x] = "got" /\ ~termsOkay
    /\ status' = [status EXCEPT ![id[x]] = "failed"]
    /\ Then(x, "threw")
    /\ UNCHANGED <<terms, purchases, id, merchant>>

(* checkPaymentByProposalId: a proposal that is not there or has no terms  *)
(* is an error; a repurchase leads to the other purchase, and its ID is    *)
(* what is returned.                                                       *)
Check(c) ==
    /\ at[c] = "check"
    /\ \/ id[c] \notin terms /\ Goto(c, "threw")
       \/ id[c] \in terms /\ Goto(c, IF status[id[c]] = "repurchase" THEN "done" ELSE "returned")
    /\ UNCHANGED <<db, id, merchant>>

-----------------------------------------------------------------------------
(* The user decides on the proposal a call returned. *)

(* confirmPay: reads the proposal and its purchase (an existing one is     *)
(* submitted again, which does not concern the proposal) ...               *)
ConfirmRead(c) ==
    /\ at[c] = "returned"
    /\ Goto(c, IF id[c] \in purchases THEN "done" ELSE "confirm")
    /\ UNCHANGED <<db, id, merchant>>

(* ... and recordConfirmPay, many awaits later. *)
ConfirmRecord(c) ==
    /\ at[c] = "confirm"
    /\ status' = [status EXCEPT ![id[c]] = "accepted"]
    /\ purchases' = purchases \cup {id[c]}
    /\ Goto(c, "done")
    /\ UNCHANGED <<terms, id, merchant>>

RefuseProposal(i) ==
    /\ status[i] = "proposed"
    /\ status' = [status EXCEPT ![i] = "refused"]
    /\ UNCHANGED <<terms, purchases, at, id, merchant>>

(* Another order for the same fulfillment URL is paid. *)
OtherPurchase ==
    /\ ~bought /\ bought' = TRUE
    /\ UNCHANGED <<db, at, id, claimed, termsOkay>>

ProposalNext ==
    \/ \E c \in Calls : Prepare(c) \/ Create(c) \/ Check(c) \/ ConfirmRead(c) \/ ConfirmRecord(c)
    \/ \E l \in Loops : LoopDownload(l)
    \/ \E x \in Procs : Download(x) \/ Claim(x) \/ RequestFails(x) \/ StoreTerms(x)
                        \/ FailPermanently(x)
    \/ \E i \in Calls : RefuseProposal(i)
    \/ OtherPurchase

ProposalSpec == ProposalInit /\ [][ProposalNext]_proposalVars

-----------------------------------------------------------------------------
(* Properties. *)

(* However many calls and downloads race, an order has one proposal.       *)
OneProposalPerOrder == Cardinality(Stored) <= 1

(* A download that comes late does not undo a decision. *)
AcceptedStays ==
    [][\A i \in Calls :
          /\ status[i] \in Decided => status'[i] \in Decided
          /\ status[i] = "accepted" => status'[i] = "accepted"]_proposalVars

(* What was bought was accepted, and has its terms. *)
PurchaseWasAccepted ==
    \A i \in purchases : status[i] = "accepted" /\ i \in terms
=============================================================================
