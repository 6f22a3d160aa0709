------------------------ MODULE RefreshGroup_proofs ------------------------
(***************************************************************************)
(* What holds of a refresh group for every set of coins, every number of   *)
(* overlapping runs and every number of failures, proved with TLAPS.       *)
(***************************************************************************)
EXTENDS RefreshGroup, TLAPS

(* The exchange only accepts what was sent. *)
AcceptedWasSent == \A c \in Coins : exch[c] # NoSeed => exch[c] \in sent[c]

(* Whatever records or is about to record an answer of the exchange on a   *)
(* coin does so after the exchange melted the coin.                        *)
AnswersAreReal ==
    \A c \in Coins :
        \/ exch[c] # NoSeed
        \/ /\ ~rg.melted[c] /\ newCoin[c] = "absent"
           /\ \A r \in Runs : pc[r][c] \notin {"meltGot", "revealGot"}

(* A session about to be stored, or being revealed, has a seed. *)
HoldsSeed ==
    \A r \in Runs, c \in Coins : pc[r][c] \in {"store", "revealSent"} => seed[r][c] # NoSeed

IInv ==
    /\ TypeOK
    /\ OneCommitment
    /\ DoneWhenAllFinished
    /\ NoMissingSession
    /\ AcceptedWasSent
    /\ AnswersAreReal
    /\ HoldsSeed

USE DEF db, outside, memory, vars

-----------------------------------------------------------------------------
(* The initial states satisfy the invariant. *)
LEMMA InitIInv == Init => IInv
  <1> SUFFICES ASSUME Init PROVE IInv
    OBVIOUS
  <1> USE RefreshAssumption DEF Init
  <1>1. TypeOK
    <2>1. rg \in Group
      BY DEF Group
    <2>2. /\ newCoin \in [Coins -> {"absent", "fresh", "dormant"}]
          /\ sent \in [Coins -> SUBSET Seeds]
          /\ exch \in [Coins -> Seeds \cup {NoSeed}]
          /\ shown \subseteq Coins
      OBVIOUS
    <2>3. /\ memo \in Runs \cup {NoRun}
          /\ run \in [Runs -> {"idle", "start", "sessions", "error"}]
          /\ pc \in [Runs -> [Coins -> Labels]]
          /\ seed \in [Runs -> [Coins -> Seeds \cup {NoSeed}]]
      BY DEF Labels
    <2>4. offered \in BOOLEAN
      BY Zenon
    <2>5. faults \in 0..MaxFaults
      OBVIOUS
    <2>6. QED
      BY <2>1, <2>2, <2>3, <2>4, <2>5, Zenon DEF TypeOK
  <1>2. OneCommitment /\ DoneWhenAllFinished /\ NoMissingSession
    BY DEF OneCommitment, DoneWhenAllFinished, NoMissingSession
  <1>3. AcceptedWasSent /\ AnswersAreReal /\ HoldsSeed
    BY DEF AcceptedWasSent, AnswersAreReal, HoldsSeed
  <1>4. QED
    BY <1>1, <1>2, <1>3 DEF IInv
-----------------------------------------------------------------------------
(* Moving a session, and changing what it holds, keeps the types. *)
LEMMA GotoType ==
  ASSUME pc \in [Runs -> [Coins -> Labels]], NEW r \in Runs, NEW c \in Coins,
         NEW l \in Labels, Goto(r, c, l)
  PROVE  pc' \in [Runs -> [Coins -> Labels]]
  BY DEF Goto

(* Settling a session keeps the types. *)
LEMMA SettleType ==
  ASSUME pc \in [Runs -> [Coins -> Labels]], NEW r \in Runs, NEW c \in Coins,
         NEW how \in {"ok", "failed"}, Settle(r, c, how)
  PROVE  pc' \in [Runs -> [Coins -> Labels]]
  BY GotoType DEF Settle, Labels

(* Turning the sessions of a run into orphans keeps the types. *)
LEMMA OrphansType ==
  ASSUME pc \in [Runs -> [Coins -> Labels]], NEW r \in Runs,
         pc' = [pc EXCEPT ![r] = Orphans(r)]
  PROVE  pc' \in [Runs -> [Coins -> Labels]]
  BY DEF Orphans, Labels

(* Changing the seed a session holds keeps the types. *)
LEMMA SeedType ==
  ASSUME seed \in [Runs -> [Coins -> Seeds \cup {NoSeed}]], NEW r \in Runs, NEW c \in Coins,
         NEW s \in Seeds \cup {NoSeed}, seed' = [seed EXCEPT ![r][c] = s]
  PROVE  seed' \in [Runs -> [Coins -> Seeds \cup {NoSeed}]]
  OBVIOUS

(* Marking a coin as finished: what it does to the record, field by field. *)
LEMMA MarkFinishedFacts ==
  ASSUME rg \in Group, NEW c \in Coins, rg' = MarkFinished(rg, c)
  PROVE  /\ rg' \in Group
         /\ rg'.finished = [rg.finished EXCEPT ![c] = TRUE]
         /\ rg'.session = rg.session
         /\ rg'.melted = rg.melted
         /\ rg'.done <=> rg.done \/ \A d \in Coins : rg'.finished[d]
  BY DEF MarkFinished, AllDone, Group

(* Storing a session keeps the group's type. *)
LEMMA SessionType ==
  ASSUME rg \in Group, NEW c \in Coins, NEW s \in Seeds \cup {NoSeed},
         rg' = [rg EXCEPT !.session[c] = s]
  PROVE  rg' \in Group
  BY DEF Group

(* Marking a session as melted keeps the group's type. *)
LEMMA MeltedType ==
  ASSUME rg \in Group, NEW c \in Coins, rg' = [rg EXCEPT !.melted[c] = TRUE]
  PROVE  rg' \in Group
  BY DEF Group

(* Every step keeps the variables' types. *)
LEMMA TypeStep == TypeOK /\ [Next]_vars => TypeOK'
  <1> SUFFICES ASSUME TypeOK, [Next]_vars PROVE TypeOK'
    OBVIOUS
  <1> USE DEF TypeOK
  <1>1. ASSUME NEW r \in Runs, RunStep(r) PROVE TypeOK'
    <2>1. CASE StartRun(r)
      BY <2>1 DEF StartRun
    <2>2. CASE ReadGroup(r)
      <3>1. pc' \in [Runs -> [Coins -> Labels]]
        BY <2>2 DEF ReadGroup, Labels, Live
      <3>2. QED
        BY <2>2, <3>1 DEF ReadGroup
    <2>3. CASE AllResolved(r)
      BY <2>3, OrphansType DEF AllResolved
    <2>4. CASE FirstRejected(r)
      BY <2>4 DEF FirstRejected
    <2>5. CASE IncrementRetry(r)
      <3>1. rg' \in Group
        BY <2>5 DEF IncrementRetry, Group
      <3>2. QED
        BY <2>5, <3>1, OrphansType DEF IncrementRetry
    <2>6. QED
      BY <1>1, <2>1, <2>2, <2>3, <2>4, <2>5 DEF RunStep
  <1>2. ASSUME NEW r \in Runs, NEW c \in Coins, SessionStep(r, c) PROVE TypeOK'
    <2> USE <1>2 DEF SessionStep
    <2>1. pc' \in [Runs -> [Coins -> Labels]]
      <3>1. \/ \E l \in Labels : Goto(r, c, l)
            \/ \E how \in {"ok", "failed"} : Settle(r, c, how)
        BY DEF ReadSession, CreateSession, SelectDenoms, FinishSmall, StoreSession,
               RereadSession, SendMelt, MeltAnswered, StoreMelt, SendReveal,
               RevealAnswered, StoreReveal, Labels, Live
      <3>2. QED
        BY <3>1, GotoType, SettleType
    <2>2. seed' \in [Runs -> [Coins -> Seeds \cup {NoSeed}]]
      <3>1. \/ seed' = seed
            \/ \E s \in Seeds \cup {NoSeed} : seed' = [seed EXCEPT ![r][c] = s]
        BY DEF ReadSession, CreateSession, SelectDenoms, FinishSmall, StoreSession,
               RereadSession, SendMelt, MeltAnswered, StoreMelt, SendReveal,
               RevealAnswered, StoreReveal, Group
      <3>2. QED
        BY <3>1, SeedType
    <2>3. rg' \in Group
      <3>1. CASE StoreSession(r, c)
        <4>1. rg' = rg \/ rg' = [rg EXCEPT !.session[c] = seed[r][c]]
          BY <3>1 DEF StoreSession
        <4>2. seed[r][c] \in Seeds \cup {NoSeed}
          OBVIOUS
        <4>3. QED
          BY <4>1, <4>2, SessionType
      <3>2. CASE StoreMelt(r, c)
        <4>1. rg' = rg \/ rg' = [rg EXCEPT !.melted[c] = TRUE]
          BY <3>2 DEF StoreMelt
        <4>2. QED
          BY <4>1, MeltedType
      <3>3. CASE FinishSmall(r, c) \/ StoreReveal(r, c)
        <4>1. rg' = rg \/ rg' = MarkFinished(rg, c)
          BY <3>3 DEF FinishSmall, StoreReveal
        <4>2. QED
          BY <4>1, MarkFinishedFacts
      <3>4. CASE ReadSession(r, c) \/ CreateSession(r, c) \/ SelectDenoms(r, c)
        BY <3>4 DEF ReadSession, CreateSession, SelectDenoms
      <3>5. CASE RereadSession(r, c) \/ SendMelt(r, c) \/ MeltAnswered(r, c)
        BY <3>5 DEF RereadSession, SendMelt, MeltAnswered
      <3>6. CASE SendReveal(r, c) \/ RevealAnswered(r, c)
        BY <3>6 DEF SendReveal, RevealAnswered
      <3>7. QED
        BY <3>1, <3>2, <3>3, <3>4, <3>5, <3>6
    <2>4. newCoin' \in [Coins -> {"absent", "fresh", "dormant"}]
      BY DEF ReadSession, CreateSession, SelectDenoms, FinishSmall, StoreSession,
             RereadSession, SendMelt, MeltAnswered, StoreMelt, SendReveal,
             RevealAnswered, StoreReveal
    <2>5. sent' \in [Coins -> SUBSET Seeds]
      BY RefreshAssumption
         DEF ReadSession, CreateSession, SelectDenoms, FinishSmall, StoreSession,
             RereadSession, SendMelt, MeltAnswered, StoreMelt, SendReveal,
             RevealAnswered, StoreReveal, Group
    <2>6. UNCHANGED <<exch, shown, memo, run, offered, faults>>
      BY DEF ReadSession, CreateSession, SelectDenoms, FinishSmall, StoreSession,
             RereadSession, SendMelt, MeltAnswered, StoreMelt, SendReveal,
             RevealAnswered, StoreReveal, Keep
    <2>7. QED
      BY <2>1, <2>2, <2>3, <2>4, <2>5, <2>6
  <1>3. ASSUME NEW r \in Runs, NEW c \in Coins, RequestFails(r, c) PROVE TypeOK'
    <2>1. pc' \in [Runs -> [Coins -> Labels]]
      BY <1>3, SettleType DEF RequestFails
    <2>2. seed' \in [Runs -> [Coins -> Seeds \cup {NoSeed}]]
      BY <1>3, SeedType DEF RequestFails
    <2>3. QED
      BY <1>3, <2>1, <2>2, RefreshAssumption DEF RequestFails
  <1>4. ASSUME NEW c \in Coins, ExchangeMelts(c) \/ Spend(c) PROVE TypeOK'
    <2>1. exch' \in [Coins -> Seeds \cup {NoSeed}] /\ shown' \subseteq Coins
      BY <1>4 DEF ExchangeMelts, Spend
    <2>2. newCoin' \in [Coins -> {"absent", "fresh", "dormant"}]
      BY <1>4 DEF ExchangeMelts, Spend
    <2>3. QED
      BY <1>4, <2>1, <2>2 DEF ExchangeMelts, Spend
  <1>5. CASE Crash
    <2>1. pc' \in [Runs -> [Coins -> Labels]]
      BY <1>5 DEF Crash, Labels
    <2>2. QED
      BY <1>5, <2>1, RefreshAssumption DEF Crash
  <1>6. CASE DenomsChange
    BY <1>6 DEF DenomsChange
  <1>7. CASE UNCHANGED vars
    BY <1>7
  <1>8. QED
    BY <1>1, <1>2, <1>3, <1>4, <1>5, <1>6, <1>7 DEF Next
-----------------------------------------------------------------------------
(* How steps change single entries of pc and seed. *)
LEMMA GotoFacts ==
  ASSUME pc \in [Runs -> [Coins -> Labels]], NEW r \in Runs, NEW c \in Coins,
         NEW l, Goto(r, c, l)
  PROVE  \A q \in Runs, d \in Coins :
           pc'[q][d] = IF q = r /\ d = c THEN l ELSE pc[q][d]
  BY DEF Goto

(* Settling leaves every session where it was, or settled. *)
LEMMA SettleFacts ==
  ASSUME pc \in [Runs -> [Coins -> Labels]], NEW r \in Runs, NEW c \in Coins,
         NEW how \in {"ok", "failed"}, Settle(r, c, how)
  PROVE  \A q \in Runs, d \in Coins :
           pc'[q][d] = pc[q][d] \/ pc'[q][d] \in {"ok", "failed", "none"}
  BY GotoFacts DEF Settle

(* Changing the seed of one session leaves those of all others. *)
LEMMA SeedFacts ==
  ASSUME seed \in [Runs -> [Coins -> Seeds \cup {NoSeed}]], NEW r \in Runs, NEW c \in Coins,
         NEW s, seed' = [seed EXCEPT ![r][c] = s]
  PROVE  \A q \in Runs, d \in Coins :
           seed'[q][d] = IF q = r /\ d = c THEN s ELSE seed[q][d]
  OBVIOUS

(* A session step that leaves the database and the exchange alone. *)
LEMMA QuietStep ==
  ASSUME IInv, TypeOK', UNCHANGED <<db, outside>>,
         \A q \in Runs, d \in Coins :
            \/ pc'[q][d] = pc[q][d] /\ seed'[q][d] = seed[q][d]
            \/ pc'[q][d] \notin {"reread", "store", "meltGot", "revealSent", "revealGot"}
            \/ pc'[q][d] = "reread" /\ (rg.finished[d] \/ rg.session[d] # NoSeed)
            \/ pc'[q][d] \in {"store", "revealSent"} /\ seed'[q][d] # NoSeed
            \/ pc'[q][d] \in {"meltGot", "revealGot"} /\ exch[d] # NoSeed
  PROVE  IInv'
  <1> USE DEF IInv
  <1>1. OneCommitment' /\ DoneWhenAllFinished' /\ AcceptedWasSent'
    BY DEF OneCommitment, DoneWhenAllFinished, AcceptedWasSent
  <1>2. NoMissingSession'
    BY DEF NoMissingSession
  <1>3. AnswersAreReal'
    BY DEF AnswersAreReal
  <1>4. HoldsSeed'
    BY DEF HoldsSeed
  <1>5. QED
    BY <1>1, <1>2, <1>3, <1>4

(* The steps of a run keep the invariant. *)
LEMMA RunStepIInv ==
  ASSUME IInv, TypeOK', NEW r \in Runs, RunStep(r)
  PROVE  IInv'
  <1> USE DEF IInv
  <1>1. CASE StartRun(r) \/ FirstRejected(r)
    BY <1>1, QuietStep DEF StartRun, FirstRejected
  <1>2. CASE ReadGroup(r)
    <2>a. pc' = pc \/ pc' = [pc EXCEPT ![r] = [c \in Coins |-> "read"]]
      BY <1>2 DEF ReadGroup
    <2>b. pc \in [Runs -> [Coins -> Labels]]
      BY DEF TypeOK
    <2>1. \A q \in Runs, d \in Coins : pc'[q][d] = pc[q][d] \/ pc'[q][d] = "read"
      BY <2>a, <2>b
    <2>2. QED
      BY <1>2, <2>1, QuietStep DEF ReadGroup
  <1>3. ASSUME pc' = [pc EXCEPT ![r] = Orphans(r)], NEW q \in Runs, NEW d \in Coins
        PROVE  pc'[q][d] \in {pc[q][d], "none"}
    BY <1>3 DEF Orphans, TypeOK
  <1>4. CASE AllResolved(r)
    BY <1>3, <1>4, QuietStep DEF AllResolved
  <1>5. CASE IncrementRetry(r)
    <2>1. /\ rg'.finished = rg.finished /\ rg'.session = rg.session
          /\ rg'.melted = rg.melted /\ rg'.done = rg.done
      BY <1>5 DEF IncrementRetry, TypeOK, Group
    <2>2. UNCHANGED <<newCoin, sent, exch, seed>>
      BY <1>5 DEF IncrementRetry
    <2>3. \A q \in Runs, d \in Coins : pc'[q][d] \in {pc[q][d], "none"}
      BY <1>3, <1>5 DEF IncrementRetry
    <2>4. OneCommitment' /\ DoneWhenAllFinished' /\ AcceptedWasSent'
      BY <2>1, <2>2 DEF OneCommitment, DoneWhenAllFinished, AcceptedWasSent
    <2>5. NoMissingSession' /\ AnswersAreReal' /\ HoldsSeed'
      BY <2>1, <2>2, <2>3 DEF NoMissingSession, AnswersAreReal, HoldsSeed
    <2>6. QED
      BY <2>4, <2>5
  <1>6. QED
    BY <1>1, <1>2, <1>4, <1>5 DEF RunStep

(* The session moves to label l and holds what it held, or s. *)
LEMMA QuietGoto ==
  ASSUME IInv, TypeOK', NEW r \in Runs, NEW c \in Coins, NEW l, NEW s,
         Goto(r, c, l), UNCHANGED <<db, outside>>,
         seed' = seed \/ seed' = [seed EXCEPT ![r][c] = s],
         l = "reread" => rg.finished[c] \/ rg.session[c] # NoSeed,
         l \in {"store", "revealSent"} => seed'[r][c] # NoSeed,
         l \in {"meltGot", "revealGot"} => exch[c] # NoSeed
  PROVE  IInv'
  <1>1. pc \in [Runs -> [Coins -> Labels]] /\ seed \in [Runs -> [Coins -> Seeds \cup {NoSeed}]]
    BY DEF IInv, TypeOK
  <1>2. \A q \in Runs, d \in Coins : pc'[q][d] = IF q = r /\ d = c THEN l ELSE pc[q][d]
    BY <1>1, GotoFacts
  <1>3. \A q \in Runs, d \in Coins : ~(q = r /\ d = c) => seed'[q][d] = seed[q][d]
    BY <1>1
  <1>4. QED
    BY <1>2, <1>3, QuietStep

(* A session that settles without writing keeps the invariant. *)
LEMMA QuietSettle ==
  ASSUME IInv, TypeOK', NEW r \in Runs, NEW c \in Coins, NEW how \in {"ok", "failed"},
         Settle(r, c, how), UNCHANGED <<db, outside>>,
         seed' = seed \/ seed' = [seed EXCEPT ![r][c] = NoSeed]
  PROVE  IInv'
  BY QuietGoto DEF Settle

(* The steps of a session that neither write nor send keep the invariant. *)
LEMMA QuietSessionIInv ==
  ASSUME IInv, TypeOK', NEW r \in Runs, NEW c \in Coins,
         \/ ReadSession(r, c) \/ CreateSession(r, c) \/ SelectDenoms(r, c)
         \/ RereadSession(r, c) \/ MeltAnswered(r, c) \/ SendReveal(r, c)
         \/ RevealAnswered(r, c) \/ RequestFails(r, c)
  PROVE  IInv'
  <1>1. CASE ReadSession(r, c)
    BY <1>1, QuietGoto, QuietSettle DEF ReadSession
  <1>2. CASE CreateSession(r, c)
    BY <1>2, QuietGoto DEF CreateSession
  <1>3. CASE SelectDenoms(r, c)
    <2>1. CASE Goto(r, c, "small") /\ UNCHANGED seed
      BY <1>3, <2>1, QuietGoto DEF SelectDenoms
    <2>2. CASE Goto(r, c, "store") /\ \E s \in Seeds : seed' = [seed EXCEPT ![r][c] = s]
      <3>1. PICK s \in Seeds : seed' = [seed EXCEPT ![r][c] = s]
        BY <2>2
      <3>2. seed'[r][c] # NoSeed
        BY <3>1, SeedFacts, RefreshAssumption DEF IInv, TypeOK
      <3>3. QED
        BY <1>3, <2>2, <3>1, <3>2, QuietGoto DEF SelectDenoms
    <2>3. QED
      BY <1>3, <2>1, <2>2 DEF SelectDenoms
  <1>4. CASE RereadSession(r, c)
    BY <1>4, QuietGoto, QuietSettle DEF RereadSession
  <1>5. CASE MeltAnswered(r, c)
    BY <1>5, QuietGoto, QuietSettle DEF MeltAnswered
  <1>6. CASE SendReveal(r, c)
    <2>1. CASE Goto(r, c, "revealSent") /\ rg.session[c] # NoSeed
               /\ seed' = [seed EXCEPT ![r][c] = rg.session[c]]
      <3>1. seed'[r][c] # NoSeed
        BY <2>1, SeedFacts DEF IInv, TypeOK
      <3>2. QED
        BY <1>6, <2>1, <3>1, QuietGoto DEF SendReveal
    <2>2. CASE UNCHANGED seed /\ (Settle(r, c, "ok") \/ Settle(r, c, "failed"))
      BY <1>6, <2>2, QuietSettle DEF SendReveal
    <2>3. QED
      BY <1>6, <2>1, <2>2 DEF SendReveal
  <1>7. CASE RevealAnswered(r, c)
    <2>1. seed[r][c] # NoSeed
      BY <1>7 DEF RevealAnswered, IInv, HoldsSeed
    <2>2. QED
      BY <1>7, <2>1, QuietGoto, QuietSettle DEF RevealAnswered
  <1>8. CASE RequestFails(r, c)
    BY <1>8, QuietSettle DEF RequestFails
  <1>9. QED
    BY <1>1, <1>2, <1>3, <1>4, <1>5, <1>6, <1>7, <1>8

(* The steps of a session that write the group or send to the exchange.    *)
LEMMA LoudSessionIInv ==
  ASSUME IInv, TypeOK', NEW r \in Runs, NEW c \in Coins,
         \/ FinishSmall(r, c) \/ StoreSession(r, c) \/ SendMelt(r, c)
         \/ StoreMelt(r, c) \/ StoreReveal(r, c)
  PROVE  IInv'
  <1> USE DEF IInv
  <1>t. /\ rg \in Group /\ rg' \in Group
        /\ pc \in [Runs -> [Coins -> Labels]]
        /\ seed \in [Runs -> [Coins -> Seeds \cup {NoSeed}]]
        /\ sent \in [Coins -> SUBSET Seeds]
        /\ newCoin \in [Coins -> {"absent", "fresh", "dormant"}]
    BY DEF TypeOK
  <1>1. CASE FinishSmall(r, c)
    <2>1. /\ rg'.finished = [rg.finished EXCEPT ![c] = TRUE]
          /\ rg'.session = rg.session /\ rg'.melted = rg.melted
          /\ rg'.done <=> rg.done \/ \A d \in Coins : rg'.finished[d]
      BY <1>1, <1>t, MarkFinishedFacts DEF FinishSmall
    <2>2. UNCHANGED <<newCoin, sent, exch, seed>>
      BY <1>1 DEF FinishSmall
    <2>3. \A q \in Runs, d \in Coins : pc'[q][d] = IF q = r /\ d = c THEN "reread" ELSE pc[q][d]
      BY <1>1, <1>t, GotoFacts DEF FinishSmall
    <2>4. \A d \in Coins : rg'.finished[d] <=> rg.finished[d] \/ d = c
      BY <2>1, <1>t DEF Group
    <2>5. OneCommitment' /\ AcceptedWasSent' /\ AnswersAreReal' /\ HoldsSeed'
      BY <2>1, <2>2, <2>3 DEF OneCommitment, AcceptedWasSent, AnswersAreReal, HoldsSeed
    <2>6. DoneWhenAllFinished' /\ NoMissingSession'
      BY <2>1, <2>3, <2>4 DEF DoneWhenAllFinished, NoMissingSession
    <2>7. QED
      BY <2>5, <2>6
  <1>2. CASE StoreSession(r, c)
    <2>1. /\ rg'.finished = rg.finished /\ rg'.done = rg.done /\ rg'.melted = rg.melted
          /\ \A d \in Coins : rg'.session[d] = IF d = c /\ rg.session[c] = NoSeed
                                              THEN seed[r][c] ELSE rg.session[d]
      BY <1>2, <1>t DEF StoreSession, Group
    <2>2. UNCHANGED <<newCoin, sent, exch>>
      BY <1>2 DEF StoreSession
    <2>3. \A q \in Runs, d \in Coins : pc'[q][d] = IF q = r /\ d = c THEN "reread" ELSE pc[q][d]
      BY <1>2, <1>t, GotoFacts DEF StoreSession
    <2>4. \A q \in Runs, d \in Coins : seed'[q][d] = IF q = r /\ d = c THEN NoSeed ELSE seed[q][d]
      BY <1>2, <1>t, SeedFacts DEF StoreSession
    <2>5. seed[r][c] # NoSeed
      BY <1>2 DEF StoreSession, HoldsSeed
    <2>6. OneCommitment'
      BY <2>1, <2>2, <1>t, RefreshAssumption DEF OneCommitment, AcceptedWasSent
    <2>7. DoneWhenAllFinished' /\ AcceptedWasSent' /\ AnswersAreReal'
      BY <2>1, <2>2, <2>3 DEF DoneWhenAllFinished, AcceptedWasSent, AnswersAreReal
    <2>8. NoMissingSession' /\ HoldsSeed'
      BY <2>1, <2>3, <2>4, <2>5 DEF NoMissingSession, HoldsSeed
    <2>9. QED
      BY <2>6, <2>7, <2>8
  <1>3. CASE SendMelt(r, c)
    <2>1. CASE UNCHANGED <<seed, sent>>
      BY <1>3, <2>1, QuietGoto DEF SendMelt
    <2>2. CASE /\ rg.session[c] # NoSeed /\ Goto(r, c, "meltSent")
               /\ seed' = [seed EXCEPT ![r][c] = rg.session[c]]
               /\ sent' = [sent EXCEPT ![c] = @ \cup {rg.session[c]}]
      <3>1. UNCHANGED <<rg, newCoin, exch>>
        BY <1>3 DEF SendMelt
      <3>2. \A q \in Runs, d \in Coins :
              pc'[q][d] = IF q = r /\ d = c THEN "meltSent" ELSE pc[q][d]
        BY <2>2, <1>t, GotoFacts
      <3>3. \A q \in Runs, d \in Coins :
              seed'[q][d] = IF q = r /\ d = c THEN rg.session[c] ELSE seed[q][d]
        BY <2>2, <1>t, SeedFacts
      <3>4. \A d \in Coins : sent'[d] = IF d = c THEN sent[c] \cup {rg.session[c]} ELSE sent[d]
        BY <2>2, <1>t
      <3>5. OneCommitment' /\ AcceptedWasSent' /\ DoneWhenAllFinished'
        BY <3>1, <3>4 DEF OneCommitment, AcceptedWasSent, DoneWhenAllFinished
      <3>6. NoMissingSession' /\ AnswersAreReal' /\ HoldsSeed'
        BY <3>1, <3>2, <3>3, <2>2 DEF NoMissingSession, AnswersAreReal, HoldsSeed
      <3>7. QED
        BY <3>5, <3>6
    <2>3. QED
      BY <1>3, <2>1, <2>2 DEF SendMelt
  <1>4. CASE StoreMelt(r, c)
    <2>1. /\ rg'.finished = rg.finished /\ rg'.done = rg.done /\ rg'.session = rg.session
          /\ \A d \in Coins : rg'.melted[d] => rg.melted[d] \/ d = c
      BY <1>4, <1>t DEF StoreMelt, Group
    <2>2. UNCHANGED <<newCoin, sent, exch>>
      BY <1>4 DEF StoreMelt
    <2>3. \A q \in Runs, d \in Coins : pc'[q][d] = IF q = r /\ d = c THEN "reveal" ELSE pc[q][d]
      BY <1>4, <1>t, GotoFacts DEF StoreMelt
    <2>4. \A q \in Runs, d \in Coins : seed'[q][d] = IF q = r /\ d = c THEN NoSeed ELSE seed[q][d]
      BY <1>4, <1>t, SeedFacts DEF StoreMelt
    <2>5. exch[c] # NoSeed
      BY <1>4 DEF StoreMelt, AnswersAreReal
    <2>6. OneCommitment' /\ AcceptedWasSent' /\ DoneWhenAllFinished'
      BY <2>1, <2>2 DEF OneCommitment, AcceptedWasSent, DoneWhenAllFinished
    <2>7. NoMissingSession' /\ AnswersAreReal' /\ HoldsSeed'
      BY <2>1, <2>2, <2>3, <2>4, <2>5 DEF NoMissingSession, AnswersAreReal, HoldsSeed
    <2>8. QED
      BY <2>6, <2>7
  <1>5. CASE StoreReveal(r, c)
    <2>1. \/ rg' = rg /\ newCoin' = newCoin
          \/ rg' = MarkFinished(rg, c) /\ newCoin' = [newCoin EXCEPT ![c] = "fresh"]
      BY <1>5 DEF StoreReveal
    <2>2. /\ rg'.session = rg.session /\ rg'.melted = rg.melted
          /\ \/ rg'.finished = rg.finished /\ rg'.done = rg.done
             \/ /\ rg'.finished = [rg.finished EXCEPT ![c] = TRUE]
                /\ rg'.done <=> rg.done \/ \A d \in Coins : rg'.finished[d]
      BY <2>1, <1>t, MarkFinishedFacts
    <2>3. \A d \in Coins : d # c => newCoin'[d] = newCoin[d]
      BY <2>1, <1>t
    <2>4. UNCHANGED <<sent, exch>>
      BY <1>5 DEF StoreReveal
    <2>5. \A q \in Runs, d \in Coins :
             pc'[q][d] = pc[q][d] \/ pc'[q][d] \in {"ok", "failed", "none"}
      BY <1>5, <1>t, SettleFacts DEF StoreReveal
    <2>6. \A q \in Runs, d \in Coins :
            seed'[q][d] = seed[q][d] \/ (q = r /\ d = c /\ pc'[q][d] \in {"ok", "none"})
      <3>1. pc'[r][c] \in {"ok", "none"}
        BY <1>5, <1>t, GotoFacts DEF StoreReveal, Settle
      <3>2. \A q \in Runs, d \in Coins : seed'[q][d] = seed[q][d] \/ (q = r /\ d = c)
        BY <1>5, <1>t, SeedFacts DEF StoreReveal
      <3>3. QED
        BY <3>1, <3>2
    <2>7. exch[c] # NoSeed
      BY <1>5 DEF StoreReveal, AnswersAreReal
    <2>8. \A d \in Coins : rg.finished[d] => rg'.finished[d]
      BY <2>2, <1>t DEF Group
    <2>9. DoneWhenAllFinished'
      BY <2>2, <2>8 DEF DoneWhenAllFinished
    <2>10. OneCommitment' /\ AcceptedWasSent' /\ AnswersAreReal'
      BY <2>2, <2>3, <2>4, <2>5, <2>7 DEF OneCommitment, AcceptedWasSent, AnswersAreReal
    <2>11. NoMissingSession' /\ HoldsSeed'
      BY <2>2, <2>5, <2>6, <2>8 DEF NoMissingSession, HoldsSeed
    <2>12. QED
      BY <2>9, <2>10, <2>11
  <1>6. QED
    BY <1>1, <1>2, <1>3, <1>4, <1>5

(* The exchange, the user and the world keep the invariant. *)
LEMMA OtherIInv ==
  ASSUME IInv, TypeOK',
         (\E c \in Coins : ExchangeMelts(c) \/ Spend(c)) \/ Crash \/ DenomsChange
  PROVE  IInv'
  <1> USE DEF IInv
  <1>t. exch \in [Coins -> Seeds \cup {NoSeed}] /\ sent \in [Coins -> SUBSET Seeds]
        /\ newCoin \in [Coins -> {"absent", "fresh", "dormant"}]
    BY DEF TypeOK
  <1>1. ASSUME NEW c \in Coins, ExchangeMelts(c) PROVE IInv'
    <2>1. PICK s \in sent[c] : exch' = [exch EXCEPT ![c] = s]
      BY <1>1 DEF ExchangeMelts
    <2>2. UNCHANGED <<rg, newCoin, sent, pc, seed>>
      BY <1>1 DEF ExchangeMelts
    <2>3. \A d \in Coins : exch'[d] = IF d = c THEN s ELSE exch[d]
      BY <2>1, <1>t
    <2>4. s \in Seeds /\ s # NoSeed
      BY <2>1, <1>t, RefreshAssumption
    <2>5. OneCommitment' /\ AcceptedWasSent' /\ AnswersAreReal'
      BY <2>1, <2>2, <2>3, <2>4 DEF OneCommitment, AcceptedWasSent, AnswersAreReal
    <2>6. DoneWhenAllFinished' /\ NoMissingSession' /\ HoldsSeed'
      BY <2>2 DEF DoneWhenAllFinished, NoMissingSession, HoldsSeed
    <2>7. QED
      BY <2>5, <2>6
  <1>2. ASSUME NEW c \in Coins, Spend(c) PROVE IInv'
    <2>1. UNCHANGED <<rg, sent, exch, pc, seed>>
      BY <1>2 DEF Spend
    <2>2. \A d \in Coins : newCoin[d] = "absent" => newCoin'[d] = "absent"
      BY <1>2, <1>t DEF Spend
    <2>3. OneCommitment' /\ AcceptedWasSent' /\ AnswersAreReal'
      BY <2>1, <2>2 DEF OneCommitment, AcceptedWasSent, AnswersAreReal
    <2>4. DoneWhenAllFinished' /\ NoMissingSession' /\ HoldsSeed'
      BY <2>1 DEF DoneWhenAllFinished, NoMissingSession, HoldsSeed
    <2>5. QED
      BY <2>3, <2>4
  <1>3. CASE Crash
    <2>1. UNCHANGED <<db, outside>> /\ \A r \in Runs, c \in Coins : pc'[r][c] = "none"
      BY <1>3 DEF Crash
    <2>2. QED
      BY <2>1, QuietStep
  <1>4. CASE DenomsChange
    BY <1>4, QuietStep DEF DenomsChange
  <1>5. QED
    BY <1>1, <1>2, <1>3, <1>4

(* Every step keeps the invariant. *)
LEMMA NextIInv == IInv /\ [Next]_vars => IInv'
  <1> SUFFICES ASSUME IInv, [Next]_vars PROVE IInv'
    OBVIOUS
  <1>1. TypeOK'
    BY TypeStep DEF IInv
  <1>2. ASSUME NEW r \in Runs, RunStep(r) PROVE IInv'
    BY <1>1, <1>2, RunStepIInv
  <1>3. ASSUME NEW r \in Runs, NEW c \in Coins, SessionStep(r, c) \/ RequestFails(r, c)
        PROVE  IInv'
    BY <1>1, <1>3, QuietSessionIInv, LoudSessionIInv DEF SessionStep
  <1>4. CASE (\E c \in Coins : ExchangeMelts(c) \/ Spend(c)) \/ Crash \/ DenomsChange
    BY <1>1, <1>4, OtherIInv
  <1>5. CASE UNCHANGED vars
    BY <1>1, <1>5, QuietStep
  <1>6. QED
    BY <1>2, <1>3, <1>4, <1>5 DEF Next

(* The invariant holds in every reachable state. *)
LEMMA Invariance == Spec => []IInv
  BY InitIInv, NextIInv, PTL DEF Spec

-----------------------------------------------------------------------------
(* The variables always have their types. *)
THEOREM TypeCorrect == Spec => []TypeOK
  <1>1. IInv => TypeOK
    BY DEF IInv
  <1>2. QED
    BY <1>1, Invariance, PTL

(* The exchange sees at most one melt commitment per coin, the stored one, *)
(* however many runs overlap, fail or are cut off by a crash.              *)
THEOREM NeverTwoCommitments == Spec => []OneCommitment
  <1>1. IInv => OneCommitment
    BY DEF IInv
  <1>2. QED
    BY <1>1, Invariance, PTL

(* The group has a finish time exactly when all its coins are finished. *)
THEOREM DoneIsAllFinished == Spec => []DoneWhenAllFinished
  <1>1. IInv => DoneWhenAllFinished
    BY DEF IInv
  <1>2. QED
    BY <1>1, Invariance, PTL

(* The assertion in processRefreshSession never fires. *)
THEOREM AssertionHolds == Spec => []NoMissingSession
  <1>1. IInv => NoMissingSession
    BY DEF IInv
  <1>2. QED
    BY <1>1, Invariance, PTL

(* A new coin is in the database only when the exchange melted the old one *)
(* under the session stored in the group.                                  *)
THEOREM NewCoinsAreBacked == Spec => []NewCoinIsBacked
  <1>1. IInv => NewCoinIsBacked
    BY DEF IInv, NewCoinIsBacked, OneCommitment, AnswersAreReal
  <1>2. QED
    BY <1>1, Invariance, PTL

(* While the exchange offers small enough denominations, no coin is        *)
(* finished but by the transaction that puts its new coin.                 *)
FinishedHasNewCoin == \A c \in Coins : rg.finished[c] => newCoin[c] # "absent"

NeverSmall ==
    /\ offered
    /\ \A r \in Runs, c \in Coins : pc[r][c] # "small"
    /\ FinishedHasNewCoin

LEMMA SessionNeverSmall ==
    ASSUME TypeOK, NeverSmall, NEW r \in Runs, NEW c \in Coins,
           SessionStep(r, c) \/ RequestFails(r, c)
    PROVE  NeverSmall'
  <1>1. pc \in [Runs -> [Coins -> Labels]]
    BY DEF TypeOK
  <1>2. ASSUME NEW l, Goto(r, c, l), l # "small"
        PROVE  \A q \in Runs, d \in Coins : pc'[q][d] # "small"
    BY <1>1, <1>2 DEF Goto, NeverSmall
  <1>3. \A q \in Runs, d \in Coins : pc'[q][d] # "small"
    <2>1. CASE RequestFails(r, c)
      BY <1>2, <2>1 DEF RequestFails, Settle
    <2>2. CASE ReadSession(r, c) \/ CreateSession(r, c) \/ RereadSession(r, c)
      BY <1>2, <2>2 DEF ReadSession, CreateSession, RereadSession, Settle
    <2>3. CASE SelectDenoms(r, c) \/ FinishSmall(r, c) \/ StoreSession(r, c)
      BY <1>2, <2>3 DEF SelectDenoms, FinishSmall, StoreSession, NeverSmall
    <2>4. CASE SendMelt(r, c) \/ MeltAnswered(r, c) \/ StoreMelt(r, c)
      BY <1>2, <2>4 DEF SendMelt, MeltAnswered, StoreMelt, Settle
    <2>5. CASE SendReveal(r, c) \/ RevealAnswered(r, c) \/ StoreReveal(r, c)
      BY <1>2, <2>5 DEF SendReveal, RevealAnswered, StoreReveal, Settle
    <2>6. QED
      BY <2>1, <2>2, <2>3, <2>4, <2>5 DEF SessionStep
  <1>4. offered' = offered
    BY DEF SessionStep, RequestFails, ReadSession, CreateSession, RereadSession, SelectDenoms,
           FinishSmall, StoreSession, SendMelt, MeltAnswered, StoreMelt, SendReveal,
           RevealAnswered, StoreReveal, Keep
  <1>5. FinishedHasNewCoin'
    <2>1. CASE StoreReveal(r, c)
      <3>1. newCoin \in [Coins -> {"absent", "fresh", "dormant"}]
        BY DEF TypeOK
      <3>2. rg.finished \in [Coins -> BOOLEAN]
        BY DEF TypeOK, Group
      <3>3. CASE rg.session[c] = NoSeed
        BY <2>1, <3>3 DEF StoreReveal, NeverSmall, FinishedHasNewCoin
      <3>4. CASE rg.session[c] # NoSeed
        <4>1. rg'.finished = [rg.finished EXCEPT ![c] = TRUE]
          BY <2>1, <3>4 DEF StoreReveal, MarkFinished, TypeOK, Group
        <4>2. newCoin' = [newCoin EXCEPT ![c] = "fresh"]
          BY <2>1, <3>4 DEF StoreReveal
        <4>3. QED
          BY <3>1, <3>2, <4>1, <4>2 DEF NeverSmall, FinishedHasNewCoin
      <3>5. QED
        BY <3>3, <3>4
    <2>2. CASE StoreSession(r, c) \/ StoreMelt(r, c)
      BY <2>2 DEF StoreSession, StoreMelt, NeverSmall, FinishedHasNewCoin, TypeOK, Group
    <2>3. CASE UNCHANGED <<rg, newCoin>>
      BY <2>3 DEF NeverSmall, FinishedHasNewCoin
    <2>4. ~FinishSmall(r, c)
      BY DEF FinishSmall, NeverSmall
    <2>5. QED
      BY <2>1, <2>2, <2>3, <2>4
         DEF SessionStep, RequestFails, ReadSession, CreateSession, RereadSession, SelectDenoms,
             SendMelt, MeltAnswered, SendReveal, RevealAnswered
  <1>6. QED
    BY <1>3, <1>4, <1>5 DEF NeverSmall

LEMMA NextNeverSmall ==
    ASSUME ~DenomsMayChange, TypeOK, NeverSmall, [Next]_vars
    PROVE  NeverSmall'
  <1>1. pc \in [Runs -> [Coins -> Labels]]
    BY DEF TypeOK
  <1>2. ASSUME NEW r \in Runs, RunStep(r) PROVE NeverSmall'
    <2>1. rg'.finished = rg.finished /\ newCoin' = newCoin /\ offered' = offered
      BY <1>2 DEF RunStep, StartRun, ReadGroup, AllResolved, FirstRejected, IncrementRetry,
                  TypeOK, Group
    <2>2. \A q \in Runs, c \in Coins : pc'[q][c] # "small"
      BY <1>1, <1>2 DEF RunStep, StartRun, ReadGroup, AllResolved, FirstRejected,
                        IncrementRetry, Orphans, NeverSmall
    <2>3. QED
      BY <2>1, <2>2 DEF NeverSmall, FinishedHasNewCoin
  <1>3. ASSUME NEW c \in Coins, ExchangeMelts(c) \/ Spend(c) PROVE NeverSmall'
    BY <1>3 DEF ExchangeMelts, Spend, NeverSmall, FinishedHasNewCoin, TypeOK
  <1>4. CASE Crash
    BY <1>4 DEF Crash, NeverSmall, FinishedHasNewCoin
  <1>5. CASE UNCHANGED vars
    BY <1>5 DEF NeverSmall, FinishedHasNewCoin
  <1>6. QED
    BY <1>2, <1>3, <1>4, <1>5, SessionNeverSmall DEF Next, DenomsChange

(* While denominations stay as they are, no melted coin is left without    *)
(* its new coin in a finished group.                                       *)
THEOREM NoMeltIsStranded ==
    ASSUME ~DenomsMayChange
    PROVE  Spec => []NothingStranded
  <1>1. Init => NeverSmall
    BY DEF Init, NeverSmall, FinishedHasNewCoin
  <1>2. IInv /\ NeverSmall /\ [Next]_vars => NeverSmall'
    BY NextNeverSmall DEF IInv
  <1>3. IInv /\ NeverSmall => NothingStranded
    BY DEF IInv, NeverSmall, FinishedHasNewCoin, NothingStranded, DoneWhenAllFinished
  <1>4. QED
    BY <1>1, <1>2, <1>3, Invariance, PTL DEF Spec
=============================================================================
