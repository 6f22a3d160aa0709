------------------------- MODULE Concurrency_proofs -------------------------
(***************************************************************************)
(* What holds of the named locks and of the crypto workers for every set   *)
(* of callers and locks, workers, priorities and requests, proved with     *)
(* TLAPS.                                                                  *)
(*                                                                         *)
(* Locks: none is left behind and queues keep moving.  (That holding a     *)
(* lock does not exclude is shown by TLC.)  Workers: the dispatcher keeps  *)
(* its books, the counter of busy slots is right and no slot idles while   *)
(* requests are queued.                                                    *)
(***************************************************************************)
EXTENDS RunSequentialized, CryptoApi, FiniteSetTheorems, WellFoundedInduction, TLAPS

-----------------------------------------------------------------------------
(* Locks. *)

HeldIsWanted ==
    \A c \in Callers : held[c] \subseteq want[c] /\ (status[c] = "idle" => held[c] = {})

(* A queued caller is waiting, for that token, and queued once. *)
QueuedWaits ==
    \A t \in Tokens : \A i \in DOMAIN waiters[t] :
        status[waiters[t][i]] = "waiting" /\ t \in Awaits(waiters[t][i])

QueuedOnce ==
    \A t \in Tokens : \A i, j \in DOMAIN waiters[t] : waiters[t][i] = waiters[t][j] => i = j

LockInv ==
    /\ TypeOK
    /\ HeldIsWanted
    /\ QueuedWaits
    /\ QueuedOnce
    /\ LockedIsHeld
    /\ QueueMoves

(* The token that blocks the loop is the lowest one not taken. *)
LoopFacts(tokens, have, lockset) ==
    /\ Taken(tokens, have, lockset) \subseteq tokens
    /\ have \subseteq Taken(tokens, have, lockset)
    /\ Blocked(tokens, have, lockset) \subseteq lockset
    /\ Blocked(tokens, have, lockset) \subseteq Lowest(tokens \ Taken(tokens, have, lockset))
    /\ Blocked(tokens, have, lockset) \cap have = {}

(* What the loop over the tokens takes, and where it stops. *)
LEMMA BlockedFacts ==
  ASSUME NEW tokens \in SUBSET Tokens, NEW have \in SUBSET tokens, NEW lockset \in SUBSET Tokens
  PROVE  LoopFacts(tokens, have, lockset)
  <1> DEFINE taken == Taken(tokens, have, lockset)
             blocked == Blocked(tokens, have, lockset)
  <1>1. blocked \subseteq tokens /\ blocked \subseteq lockset /\ blocked \cap have = {}
    BY DEF Blocked, Lowest
  <1>2. \A t, u \in blocked : t = u
    BY <1>1, TokensAssumption DEF Blocked, Lowest
  <1>3. taken \subseteq tokens /\ have \subseteq taken
    BY DEF Taken
  <1>4. ASSUME NEW b \in blocked
        PROVE  b \in tokens \ taken /\ \A u \in tokens \ taken : b <= u
    <2>1. b \in Nat /\ b \in tokens
      BY <1>1, TokensAssumption
    <2>2. b \notin taken
      BY <1>1, <2>1 DEF Taken
    <2>3. ASSUME NEW u \in tokens \ taken PROVE b <= u
      <3>1. u \in Nat
        BY TokensAssumption
      <3>2. ~(u < b)
        BY <1>2, <2>3 DEF Taken
      <3>3. QED
        BY <2>1, <3>1, <3>2
    <2>4. QED
      BY <2>1, <2>2, <2>3
  <1>5. blocked \subseteq Lowest(tokens \ taken)
    BY <1>4 DEF Lowest
  <1>6. QED
    BY <1>1, <1>3, <1>5 DEF LoopFacts

(* The initial states satisfy the invariant. *)
LEMMA LockInvStart == Init => LockInv
  BY DEF Init, LockInv, TypeOK, HeldIsWanted, QueuedWaits, QueuedOnce, LockedIsHeld, QueueMoves

(* A caller that goes through the loop, newly or after a wake-up: have is  *)
(* what it holds on entry.                                                 *)
LEMMA EnterKeeps ==
  ASSUME LockInv, NEW c \in Callers, NEW tokens \in SUBSET Tokens, NEW have \in SUBSET tokens,
         NEW lockset, locks \subseteq lockset, lockset \subseteq locks \cup have,
         want' = [want EXCEPT ![c] = tokens], held[c] \subseteq have,
         status[c] \in {"idle", "woken"},
         status[c] = "woken" => Lowest(want[c] \ held[c]) \subseteq have,
         Continue(c, tokens, have, lockset)
  PROVE  LockInv'
  <1> DEFINE taken == Taken(tokens, have, lockset)
             blocked == Blocked(tokens, have, lockset)
  <1> USE DEF LockInv
  <1>1. /\ taken \subseteq tokens /\ have \subseteq taken
        /\ blocked \subseteq lockset /\ blocked \subseteq Lowest(tokens \ taken)
        /\ blocked \cap have = {}
    <2>1. lockset \in SUBSET Tokens
      BY DEF TypeOK
    <2>2. LoopFacts(tokens, have, lockset)
      BY <2>1, BlockedFacts
    <2>3. QED
      BY <2>2 DEF LoopFacts
  <1>2. /\ locks' = lockset \cup taken
        /\ held' = [held EXCEPT ![c] = taken]
        /\ waiters' = [t \in Tokens |-> IF t \in blocked THEN Append(waiters[t], c)
                                                        ELSE waiters[t]]
        /\ status' = [status EXCEPT ![c] = IF blocked = {} THEN "running" ELSE "waiting"]
    BY DEF Continue
  <1> HIDE DEF taken, blocked
  <1>3. held'[c] = taken /\ \A d \in Callers : d # c => held'[d] = held[d]
    BY <1>2 DEF TypeOK
  <1>4. want'[c] = tokens /\ \A d \in Callers : d # c => want'[d] = want[d]
    BY DEF TypeOK
  <1>5. /\ status'[c] = IF blocked = {} THEN "running" ELSE "waiting"
        /\ \A d \in Callers : d # c => status'[d] = status[d]
    BY <1>2 DEF TypeOK
  <1>6. \A t \in Tokens : /\ t \in blocked => waiters'[t] = Append(waiters[t], c)
                          /\ t \notin blocked => waiters'[t] = waiters[t]
    BY <1>2
  <1>7. \A t \in Tokens : waiters[t] \in Seq(Callers)
    BY DEF TypeOK
  <1>8. TypeOK'
    <2>1. waiters' \in [Tokens -> Seq(Callers)]
      BY <1>2, <1>7
    <2>2. locks' \subseteq Tokens /\ want' \in [Callers -> SUBSET Tokens]
          /\ held' \in [Callers -> SUBSET Tokens]
      BY <1>1, <1>2 DEF TypeOK
    <2>3. status' \in [Callers -> {"idle", "waiting", "woken", "running"}]
      BY <1>2 DEF TypeOK
    <2>4. QED
      BY <2>1, <2>2, <2>3 DEF TypeOK
  <1>9. HeldIsWanted'
    BY <1>1, <1>3, <1>4, <1>5 DEF HeldIsWanted
  <1>10. \A t \in Tokens : \A i \in DOMAIN waiters[t] : waiters[t][i] \in Callers \ {c}
    BY <1>7 DEF QueuedWaits
  <1>11. ASSUME NEW t \in Tokens, NEW i \in DOMAIN waiters'[t]
         PROVE  \/ i \in DOMAIN waiters[t] /\ waiters'[t][i] = waiters[t][i]
                \/ i \notin DOMAIN waiters[t] /\ waiters'[t][i] = c /\ t \in blocked
                   /\ i = Len(waiters[t]) + 1
    BY <1>6, <1>7
  <1>12. QueuedOnce'
    BY <1>10, <1>11 DEF QueuedOnce
  <1>13. QueuedWaits'
    <2> SUFFICES ASSUME NEW t \in Tokens, NEW i \in DOMAIN waiters'[t]
                 PROVE  /\ status'[waiters'[t][i]] = "waiting"
                        /\ t \in Lowest(want'[waiters'[t][i]] \ held'[waiters'[t][i]])
      BY DEF QueuedWaits, Awaits
    <2>1. CASE i \in DOMAIN waiters[t]
      <3>1. PICK d \in Callers : d = waiters[t][i] /\ d # c
        BY <1>10, <2>1
      <3>2. waiters'[t][i] = d
        BY <1>11, <2>1, <3>1
      <3>3. status[d] = "waiting" /\ t \in Lowest(want[d] \ held[d])
        BY <2>1, <3>1 DEF QueuedWaits, Awaits
      <3>4. QED
        BY <1>3, <1>4, <1>5, <3>1, <3>2, <3>3
    <2>2. CASE i \notin DOMAIN waiters[t]
      BY <1>1, <1>3, <1>4, <1>5, <1>11, <2>2
    <2>3. QED
      BY <2>1, <2>2
  <1>14. LockedIsHeld'
    <2> SUFFICES ASSUME NEW t \in locks' PROVE \E d \in Callers : t \in held'[d]
      BY DEF LockedIsHeld
    <2>1. CASE t \in taken
      BY <1>3, <2>1
    <2>2. CASE t \notin taken
      <3>1. PICK d \in Callers : t \in held[d]
        BY <1>1, <1>2, <2>2 DEF LockedIsHeld
      <3>2. QED
        BY <1>1, <1>3, <2>2, <3>1
    <2>3. QED
      BY <2>1, <2>2
  <1>15. QueueMoves'
    <2> SUFFICES ASSUME NEW t \in Tokens, waiters'[t] # <<>>
                 PROVE  \E d \in Callers :
                           \/ t \in held'[d]
                           \/ status'[d] = "woken" /\ t \in Lowest(want'[d] \ held'[d])
      BY DEF QueueMoves
    <2>1. CASE t \in blocked
      <3>1. PICK d \in Callers : t \in held[d] /\ d # c
        BY <1>1, <2>1 DEF LockedIsHeld
      <3>2. QED
        BY <1>3, <3>1
    <2>2. CASE t \notin blocked
      <3>1. PICK d \in Callers :
               t \in held[d] \/ (status[d] = "woken" /\ t \in Lowest(want[d] \ held[d]))
        BY <1>6, <2>2 DEF QueueMoves
      <3>2. CASE d = c
        <4>1. t \in have
          BY <3>1, <3>2
        <4>2. QED
          BY <1>1, <1>3, <3>2, <4>1
      <3>3. CASE d # c
        BY <1>3, <1>4, <1>5, <3>1, <3>3
      <3>4. QED
        BY <3>2, <3>3
    <2>3. QED
      BY <2>1, <2>2
  <1>16. QED
    BY <1>8, <1>9, <1>12, <1>13, <1>14, <1>15

(* Releasing. *)
LEMMA ReleaseKeeps ==
  ASSUME LockInv, NEW c \in Callers, Release(c)
  PROVE  LockInv'
  <1> DEFINE woken == {Head(waiters[t]) : t \in {u \in want[c] : waiters[u] # <<>>}}
  <1> USE DEF LockInv
  <1>1. /\ status[c] = "running"
        /\ locks' = locks \ want[c]
        /\ waiters' = [t \in Tokens |-> IF t \in want[c] /\ waiters[t] # <<>>
                                        THEN Tail(waiters[t]) ELSE waiters[t]]
        /\ status' = [d \in Callers |-> IF d = c THEN "idle"
                                        ELSE IF d \in woken THEN "woken" ELSE status[d]]
        /\ want' = [want EXCEPT ![c] = {}]
        /\ held' = [held EXCEPT ![c] = {}]
    BY DEF Release
  <1>2. \A t \in Tokens : waiters[t] \in Seq(Callers)
    BY DEF TypeOK
  <1>3. /\ want'[c] = {} /\ held'[c] = {}
        /\ \A d \in Callers : d # c => want'[d] = want[d] /\ held'[d] = held[d]
    BY <1>1 DEF TypeOK
  <1>4. want[c] \subseteq Tokens
    BY DEF TypeOK
  <1>5. \A t \in Tokens :
          /\ t \in want[c] /\ waiters[t] # <<>> => waiters'[t] = Tail(waiters[t])
          /\ ~(t \in want[c] /\ waiters[t] # <<>>) => waiters'[t] = waiters[t]
    BY <1>1
  <1>6. ASSUME NEW d \in woken
        PROVE  \E t \in want[c] : /\ waiters[t] # <<>> /\ 1 \in DOMAIN waiters[t]
                                  /\ d = waiters[t][1] /\ d \in Callers /\ d # c
                                  /\ status[d] = "waiting" /\ t \in Lowest(want[d] \ held[d])
    <2>1. PICK t \in want[c] : waiters[t] # <<>> /\ d = Head(waiters[t])
      OBVIOUS
    <2>2. waiters[t] \in Seq(Callers) /\ waiters[t] # <<>> /\ t \in Tokens
      BY <1>2, <1>4, <2>1
    <2>3. 1 \in DOMAIN waiters[t] /\ d = waiters[t][1] /\ d \in Callers
      BY <2>1, <2>2
    <2>4. status[d] = "waiting" /\ t \in Lowest(want[d] \ held[d])
      BY <2>2, <2>3 DEF QueuedWaits, Awaits
    <2>5. QED
      BY <1>1, <2>1, <2>3, <2>4
  <1>7. ASSUME NEW t \in want[c], waiters[t] # <<>>
        PROVE  waiters[t][1] \in woken /\ waiters[t][1] \in Callers
    <2>1. waiters[t] \in Seq(Callers) /\ waiters[t] # <<>>
      BY <1>2, <1>4, <1>7
    <2>2. Head(waiters[t]) = waiters[t][1] /\ waiters[t][1] \in Callers
      BY <2>1
    <2>3. QED
      BY <1>7, <2>2
  <1>8. status'[c] = "idle" /\ \A d \in Callers :
          /\ d \in woken /\ d # c => status'[d] = "woken"
          /\ d \notin woken /\ d # c => status'[d] = status[d]
    BY <1>1
  <1> HIDE DEF woken
  <1>9. TypeOK'
    <2>1. \A t \in Tokens : Tail(waiters[t]) \in Seq(Callers) \/ waiters[t] = <<>>
      BY <1>2
    <2>2. waiters' \in [Tokens -> Seq(Callers)]
      BY <1>1, <1>2, <2>1
    <2>3. locks' \subseteq Tokens /\ want' \in [Callers -> SUBSET Tokens]
          /\ held' \in [Callers -> SUBSET Tokens]
      BY <1>1 DEF TypeOK
    <2>4. status' \in [Callers -> {"idle", "waiting", "woken", "running"}]
      BY <1>1 DEF TypeOK
    <2>5. QED
      BY <2>2, <2>3, <2>4 DEF TypeOK
  <1>10. HeldIsWanted'
    BY <1>3, <1>8 DEF HeldIsWanted
  (* A caller queued after the step was queued before, and was not woken. *)
  <1>11. ASSUME NEW t \in Tokens, NEW i \in DOMAIN waiters'[t]
         PROVE  \E j \in DOMAIN waiters[t] :
                   /\ waiters'[t][i] = waiters[t][j] /\ waiters[t][j] \in Callers
                   /\ j = IF t \in want[c] THEN i + 1 ELSE i
    <2>1. CASE t \in want[c] /\ waiters[t] # <<>>
      <3>1. waiters[t] \in Seq(Callers) /\ waiters[t] # <<>> /\ waiters'[t] = Tail(waiters[t])
        BY <1>2, <1>5, <2>1
      <3>2. i \in 1 .. Len(waiters[t]) - 1 /\ waiters'[t][i] = waiters[t][i + 1]
        BY <3>1
      <3>3. i + 1 \in DOMAIN waiters[t] /\ waiters[t][i + 1] \in Callers
        BY <3>1, <3>2
      <3>4. QED
        BY <2>1, <3>2, <3>3
    <2>2. CASE t \notin want[c]
      BY <1>2, <1>5, <2>2
    <2>3. CASE waiters[t] = <<>>
      BY <1>2, <1>5, <2>3
    <2>4. QED
      BY <2>1, <2>2, <2>3
  <1>12. QueuedOnce'
    <2> SUFFICES ASSUME NEW t \in Tokens, NEW i \in DOMAIN waiters'[t],
                        NEW k \in DOMAIN waiters'[t], waiters'[t][i] = waiters'[t][k]
                 PROVE  i = k
      BY DEF QueuedOnce
    <2>1. waiters' \in [Tokens -> Seq(Callers)]
      BY <1>9 DEF TypeOK
    <2>2. i \in Nat /\ k \in Nat
      BY <2>1
    <2>3. (IF t \in want[c] THEN i + 1 ELSE i) = (IF t \in want[c] THEN k + 1 ELSE k)
      BY <1>11 DEF QueuedOnce
    <2>4. QED
      BY <2>2, <2>3
  <1>13. QueuedWaits'
    <2> SUFFICES ASSUME NEW t \in Tokens, NEW i \in DOMAIN waiters'[t]
                 PROVE  /\ status'[waiters'[t][i]] = "waiting"
                        /\ t \in Lowest(want'[waiters'[t][i]] \ held'[waiters'[t][i]])
      BY DEF QueuedWaits, Awaits
    <2>1. PICK j \in DOMAIN waiters[t] :
             /\ waiters'[t][i] = waiters[t][j] /\ waiters[t][j] \in Callers
             /\ j = IF t \in want[c] THEN i + 1 ELSE i
      BY <1>11
    <2>2. PICK d \in Callers : d = waiters[t][j]
      BY <2>1
    <2>3. status[d] = "waiting" /\ t \in Lowest(want[d] \ held[d]) /\ d # c
      BY <1>1, <2>2 DEF QueuedWaits, Awaits
    <2>4. d \notin woken
      <3> SUFFICES ASSUME d \in woken PROVE FALSE
        OBVIOUS
      <3>1. PICK u \in want[c] : /\ waiters[u] # <<>> /\ 1 \in DOMAIN waiters[u]
                                 /\ d = waiters[u][1] /\ u \in Lowest(want[d] \ held[d])
        BY <1>6
      <3>2. u = t
        <4>1. t \in Nat /\ u \in Nat
          BY <1>4, TokensAssumption
        <4>2. QED
          BY <2>3, <3>1, <4>1 DEF Lowest
      <3>3. j = i + 1 /\ i \in Nat /\ i # 0
        BY <1>9, <2>1, <3>1, <3>2 DEF TypeOK
      <3>4. j = 1
        BY <2>2, <3>1, <3>2 DEF QueuedOnce
      <3>5. QED
        BY <3>3, <3>4
    <2>5. QED
      BY <1>3, <1>8, <2>1, <2>2, <2>3, <2>4
  <1>14. LockedIsHeld'
    <2> SUFFICES ASSUME NEW t \in locks' PROVE \E d \in Callers : t \in held'[d]
      BY DEF LockedIsHeld
    <2>1. PICK d \in Callers : t \in held[d]
      BY <1>1 DEF LockedIsHeld
    <2>2. d # c
      BY <1>1, <2>1 DEF HeldIsWanted
    <2>3. QED
      BY <1>3, <2>1, <2>2
  <1>15. QueueMoves'
    <2> SUFFICES ASSUME NEW t \in Tokens, waiters'[t] # <<>>
                 PROVE  \E d \in Callers :
                           \/ t \in held'[d]
                           \/ status'[d] = "woken" /\ t \in Lowest(want'[d] \ held'[d])
      BY DEF QueueMoves
    <2>1. waiters[t] # <<>>
      BY <1>5
    <2>2. CASE t \in want[c]
      <3>1. PICK d \in Callers : d = waiters[t][1] /\ d \in woken
        BY <1>7, <2>1, <2>2
      <3>2. 1 \in DOMAIN waiters[t]
        BY <1>2, <2>1
      <3>3. t \in Lowest(want[d] \ held[d]) /\ d # c
        BY <1>1, <3>1, <3>2 DEF QueuedWaits, Awaits
      <3>4. QED
        BY <1>3, <1>8, <3>1, <3>3
    <2>3. CASE t \notin want[c]
      <3>1. PICK d \in Callers :
               t \in held[d] \/ (status[d] = "woken" /\ t \in Lowest(want[d] \ held[d]))
        BY <2>1 DEF QueueMoves
      <3>2. d # c
        BY <1>1, <2>3, <3>1 DEF HeldIsWanted
      <3>3. status[d] = "woken" => d \notin woken
        BY <1>6
      <3>4. QED
        BY <1>3, <1>8, <3>1, <3>2, <3>3
    <2>4. QED
      BY <2>2, <2>3
  <1>16. QED
    BY <1>9, <1>10, <1>12, <1>13, <1>14, <1>15

(* Every step keeps the invariant. *)
LEMMA LockInvNext == LockInv /\ [Next]_vars => LockInv'
  <1> SUFFICES ASSUME LockInv, [Next]_vars PROVE LockInv'
    OBVIOUS
  <1>1. ASSUME NEW c \in Callers, Call(c) PROVE LockInv'
    <2>1. PICK tokens \in SUBSET Tokens : /\ want' = [want EXCEPT ![c] = tokens]
                                         /\ Continue(c, tokens, {}, locks)
      BY <1>1 DEF Call
    <2>2. status[c] = "idle"
      BY <1>1 DEF Call
    <2>3. held[c] = {}
      BY <2>2 DEF LockInv, HeldIsWanted
    <2>4. QED
      BY <2>1, <2>2, <2>3, EnterKeeps
  <1>2. ASSUME NEW c \in Callers, Resume(c) PROVE LockInv'
    <2>1. PICK t \in Lowest(want[c] \ held[c]) :
             Continue(c, want[c], held[c] \cup {t}, locks \cup {t})
      BY <1>2 DEF Resume
    <2>2. PICK tokens \in SUBSET Tokens, have \in SUBSET Tokens, lockset \in SUBSET Tokens :
             /\ tokens = want[c] /\ have = held[c] \cup {t} /\ lockset = locks \cup {t}
             /\ have \subseteq tokens
      <3>1. want[c] \in SUBSET Tokens /\ held[c] \subseteq want[c] /\ locks \in SUBSET Tokens
        BY DEF LockInv, TypeOK, HeldIsWanted
      <3>2. t \in want[c]
        BY <2>1 DEF Lowest
      <3>3. held[c] \cup {t} \in SUBSET Tokens /\ locks \cup {t} \in SUBSET Tokens
            /\ held[c] \cup {t} \subseteq want[c]
        BY <3>1, <3>2
      <3>4. QED
        BY <3>1, <3>3
    <2>3. Lowest(want[c] \ held[c]) \subseteq {t}
      <3>1. want[c] \subseteq Nat
        BY TokensAssumption DEF LockInv, TypeOK
      <3>2. QED
        BY <2>1, <3>1 DEF Lowest
    <2>4. status[c] = "woken" /\ want' = [want EXCEPT ![c] = tokens]
      BY <1>2, <2>2 DEF Resume, LockInv, TypeOK
    <2>5. Continue(c, tokens, have, lockset)
      BY <2>1, <2>2
    <2>6. /\ have \in SUBSET tokens /\ locks \subseteq lockset /\ lockset \subseteq locks \cup have
          /\ held[c] \subseteq have /\ Lowest(want[c] \ held[c]) \subseteq have
      BY <2>2, <2>3
    <2>7. QED
      BY <2>4, <2>5, <2>6, EnterKeeps
  <1>3. CASE UNCHANGED vars
    BY <1>3 DEF vars, LockInv, TypeOK, HeldIsWanted, QueuedWaits, Awaits, QueuedOnce,
                LockedIsHeld, QueueMoves
  <1>4. QED
    BY <1>1, <1>2, <1>3, ReleaseKeeps DEF Next

(* The invariant holds in every reachable state. *)
LEMMA LockInvariance == Spec => []LockInv
  BY LockInvStart, LockInvNext, PTL DEF Spec

-----------------------------------------------------------------------------
(* A locked token is always held by a caller that will unlock it: no lock  *)
(* is left behind, whether the function returned or threw.                 *)
THEOREM NoLockLeftBehind == Spec => []LockedIsHeld
  <1>1. LockInv => LockedIsHeld
    BY DEF LockInv
  <1>2. QED
    BY <1>1, LockInvariance, PTL

(* No wake-up is lost: whoever queues for a token has a holder, or a woken *)
(* caller about to hold it, ahead of it.                                   *)
THEOREM NoLostWakeup == Spec => []QueueMoves
  <1>1. LockInv => QueueMoves
    BY DEF LockInv
  <1>2. QED
    BY <1>1, LockInvariance, PTL

(* The variables always have their types. *)
THEOREM LocksTypeCorrect == Spec => []TypeOK
  <1>1. LockInv => TypeOK
    BY DEF LockInv
  <1>2. QED
    BY <1>1, LockInvariance, PTL

-----------------------------------------------------------------------------
(* Workers. *)
Slot == Requests \cup {NoRequest}

(* The busy slots, if they work on c. *)
BusyOf(c) == {w \in Workers : c[w] # NoRequest}

(* The types of the variables but numBusy. *)
SlotTypes ==
    /\ cur \in [Workers -> Slot] /\ job \in [Workers -> Slot]
    /\ inst \in [Workers -> BOOLEAN] /\ timer \in [Workers -> BOOLEAN]
    /\ stopped \in BOOLEAN
QueueTypes == queue \in [Prios -> Seq(Requests)]
OutcomeTypes == rpcState \in [Requests -> {"unused", "pending", "resolved", "rejected"}]

(* An idle slot's instance has nothing to answer. *)
IdleIsQuiet == ~stopped => \A w \in Workers : cur[w] = NoRequest => job[w] = NoRequest

(* After a stop: the answers still under way are counted as busy. *)
StoppedCount ==
    stopped => /\ \A w \in Workers : ~inst[w]
               /\ numBusy \in 0..NumWorkers
               /\ Cardinality(BusyOf(job)) <= numBusy

WorkersInv ==
    /\ SlotTypes /\ QueueTypes /\ OutcomeTypes
    /\ BusyCount
    /\ BusyIsServed
    /\ IdleIsQuiet
    /\ WorkConserving
    /\ StoppedCount

USE DEF slots, cryptoVars

-----------------------------------------------------------------------------
(* A set of natural numbers has a least element. *)
LEMMA Least ==
  ASSUME NEW T \in SUBSET Nat, T # {}
  PROVE  \E x \in T : \A y \in T : x <= y
  <1> DEFINE R == OpToRel(<, Nat)
  <1>1. IsWellFoundedOn(R, Nat)
    BY NatLessThanWellFounded
  <1>2. \A x, y \in Nat : y < x => <<y, x>> \in R
    BY DEF OpToRel
  <1> HIDE DEF R
  <1>3. PICK x \in T : \A y \in T : ~ (<<y, x>> \in R)
    BY <1>1, WFMin
  <1>4. \A y \in T : ~ (y < x) /\ x \in Nat /\ y \in Nat
    BY <1>2, <1>3
  <1>5. \A y \in T : x <= y
    BY <1>4
  <1>6. QED
    BY <1>5

(* If requests are queued, one of the priorities is the most urgent. *)
LEMMA UrgentExists ==
  ASSUME Urgent = {}
  PROVE  \A p \in Prios : queue[p] = <<>>
  <1> SUFFICES ASSUME NEW p \in Prios, queue[p] # <<>>
               PROVE  FALSE
    OBVIOUS
  <1> DEFINE W == {q \in Prios : queue[q] # <<>>}
             T == {NumPrio - q : q \in W}
  <1>1. NumPrio \in Nat
    BY CryptoAssumption
  <1>2. T \in SUBSET Nat /\ NumPrio - p \in T
    BY <1>1 DEF Prios
  <1>3. PICK x \in T : \A y \in T : x <= y
    BY <1>2, Least
  <1>4. PICK q \in W : x = NumPrio - q
    OBVIOUS
  <1>5. \A s \in W : NumPrio - q <= NumPrio - s
    BY <1>3, <1>4
  <1>6. \A s \in W : s <= q
    BY <1>1, <1>5 DEF Prios
  <1>7. q \in Urgent
    BY <1>6 DEF Urgent
  <1>8. QED
    BY <1>7

(* Counting busy slots. *)
LEMMA BusyFacts ==
  ASSUME NEW c \in [Workers -> Slot]
  PROVE  /\ IsFiniteSet(BusyOf(c))
         /\ Cardinality(BusyOf(c)) \in 0..NumWorkers
         /\ Cardinality(BusyOf(c)) = NumWorkers => \A w \in Workers : c[w] # NoRequest
  <1>1. IsFiniteSet(Workers) /\ Cardinality(Workers) = NumWorkers
    BY CryptoAssumption, FS_Interval DEF Workers
  <1>2. BusyOf(c) \subseteq Workers
    BY DEF BusyOf
  <1>3. IsFiniteSet(BusyOf(c)) /\ Cardinality(BusyOf(c)) <= Cardinality(Workers)
        /\ (Cardinality(BusyOf(c)) = Cardinality(Workers) => BusyOf(c) = Workers)
    BY <1>1, <1>2, FS_Subset
  <1>4. Cardinality(BusyOf(c)) \in Nat
    BY <1>3, FS_CardinalityType
  <1>5. BusyOf(c) = Workers => \A w \in Workers : c[w] # NoRequest
    BY DEF BusyOf
  <1>6. QED
    BY <1>1, <1>3, <1>4, <1>5, CryptoAssumption

(* A slot that takes a request is one more busy slot. *)
LEMMA BusyGrows ==
  ASSUME NEW c \in [Workers -> Slot], NEW w \in Workers, NEW r \in Requests, c[w] = NoRequest
  PROVE  Cardinality(BusyOf([c EXCEPT ![w] = r])) = Cardinality(BusyOf(c)) + 1
  <1>1. BusyOf([c EXCEPT ![w] = r]) = BusyOf(c) \cup {w} /\ w \notin BusyOf(c)
    BY CryptoAssumption DEF BusyOf, Slot
  <1>2. IsFiniteSet(BusyOf(c))
    BY BusyFacts
  <1>3. QED
    BY <1>1, <1>2, FS_AddElement

(* A slot that becomes idle is one busy slot less. *)
LEMMA BusyShrinks ==
  ASSUME NEW c \in [Workers -> Slot], NEW w \in Workers, c[w] # NoRequest
  PROVE  Cardinality(BusyOf([c EXCEPT ![w] = NoRequest])) = Cardinality(BusyOf(c)) - 1
  <1>1. BusyOf([c EXCEPT ![w] = NoRequest]) = BusyOf(c) \ {w} /\ w \in BusyOf(c)
    BY DEF BusyOf, Slot
  <1>2. IsFiniteSet(BusyOf(c))
    BY BusyFacts
  <1>3. QED
    BY <1>1, <1>2, FS_RemoveElement

-----------------------------------------------------------------------------
(* findWork, unfolded: the slot stays idle as nothing is queued, or takes  *)
(* the first request of a queue (or drops it, in a stopped wallet).        *)
LEMMA FindWorkFacts ==
  ASSUME SlotTypes, QueueTypes, NEW w \in Workers, NEW b, NEW gone \in BOOLEAN,
         FindWork(w, [cur EXCEPT ![w] = NoRequest], b, gone)
  PROVE  /\ QueueTypes'
         /\ \/ /\ \A p \in Prios : queue'[p] = <<>>
               /\ cur' = [cur EXCEPT ![w] = NoRequest] /\ job' = [job EXCEPT ![w] = NoRequest]
               /\ numBusy' = b /\ timer' = timer
               /\ inst' = [inst EXCEPT ![w] = inst[w] /\ ~gone]
            \/ /\ stopped
               /\ cur' = [cur EXCEPT ![w] = NoRequest] /\ job' = [job EXCEPT ![w] = NoRequest]
               /\ numBusy' = b /\ UNCHANGED <<inst, timer>>
            \/ /\ ~stopped /\ \E p \in Prios : queue[p] # <<>>
               /\ \E r \in Requests : /\ cur' = [cur EXCEPT ![w] = r]
                                     /\ job' = [job EXCEPT ![w] = r]
               /\ numBusy' = b + 1
               /\ inst' = [inst EXCEPT ![w] = TRUE] /\ timer' = [timer EXCEPT ![w] = TRUE]
  <1>1. CASE Urgent = {}
    <2>1. \A p \in Prios : queue[p] = <<>>
      BY <1>1, UrgentExists
    <2>2. /\ cur' = [cur EXCEPT ![w] = NoRequest] /\ job' = [job EXCEPT ![w] = NoRequest]
          /\ numBusy' = b /\ UNCHANGED <<timer, queue>>
          /\ inst' = [inst EXCEPT ![w] = inst[w] /\ ~gone]
      BY <1>1 DEF FindWork
    <2>3. QED
      BY <2>1, <2>2 DEF QueueTypes
  <1>2. CASE Urgent # {}
    <2>1. PICK p \in Urgent :
             /\ queue' = [queue EXCEPT ![p] = Tail(queue[p])]
             /\ WakeWorker(w, Head(queue[p]), [cur EXCEPT ![w] = NoRequest],
                           [job EXCEPT ![w] = NoRequest], b)
      BY <1>2 DEF FindWork
    <2>2. p \in Prios /\ queue[p] # <<>> /\ queue[p] \in Seq(Requests)
      BY DEF Urgent, QueueTypes
    <2>3. QueueTypes'
      BY <2>1, <2>2 DEF QueueTypes
    <2>4. PICK r \in Requests : r = Head(queue[p])
      BY <2>2
    <2>5. CASE stopped
      BY <2>1, <2>3, <2>5 DEF WakeWorker
    <2>6. CASE ~stopped
      <3>1. /\ cur' = [[cur EXCEPT ![w] = NoRequest] EXCEPT ![w] = r]
            /\ job' = [[job EXCEPT ![w] = NoRequest] EXCEPT ![w] = r]
            /\ numBusy' = b + 1
            /\ inst' = [inst EXCEPT ![w] = TRUE] /\ timer' = [timer EXCEPT ![w] = TRUE]
        BY <2>1, <2>4, <2>6 DEF WakeWorker
      <3>2. cur' = [cur EXCEPT ![w] = r] /\ job' = [job EXCEPT ![w] = r]
        BY <3>1 DEF SlotTypes
      <3>3. QED
        BY <2>2, <2>3, <2>6, <3>1, <3>2
    <2>7. QED
      BY <2>5, <2>6
  <1>3. QED
    BY <1>1, <1>2

(* In a running wallet, a slot that became idle and looks for work keeps   *)
(* the books right, if b counts the other busy slots.                      *)
LEMMA FindWorkRunning ==
  ASSUME WorkersInv, ~stopped, UNCHANGED stopped, NEW w \in Workers, NEW b, NEW gone \in BOOLEAN,
         b = Cardinality(BusyOf([cur EXCEPT ![w] = NoRequest])),
         FindWork(w, [cur EXCEPT ![w] = NoRequest], b, gone)
  PROVE  SlotTypes' /\ BusyCount' /\ BusyIsServed' /\ IdleIsQuiet' /\ WorkConserving'
  <1>1. SlotTypes /\ QueueTypes /\ BusyIsServed /\ IdleIsQuiet /\ WorkConserving
    BY DEF WorkersInv
  <1>2. CASE /\ \A p \in Prios : queue'[p] = <<>>
             /\ cur' = [cur EXCEPT ![w] = NoRequest] /\ job' = [job EXCEPT ![w] = NoRequest]
             /\ numBusy' = b /\ timer' = timer
             /\ inst' = [inst EXCEPT ![w] = inst[w] /\ ~gone]
    <2>1. BusyCount'
      BY <1>2 DEF BusyCount, BusyOf
    <2>2. WorkConserving'
      BY <1>2 DEF WorkConserving
    <2>3. SlotTypes' /\ BusyIsServed' /\ IdleIsQuiet'
      BY <1>1, <1>2 DEF SlotTypes, BusyIsServed, IdleIsQuiet, Slot
    <2>4. QED
      BY <2>1, <2>2, <2>3
  <1>3. CASE /\ \E p \in Prios : queue[p] # <<>>
             /\ \E r \in Requests : cur' = [cur EXCEPT ![w] = r] /\ job' = [job EXCEPT ![w] = r]
             /\ numBusy' = b + 1
             /\ inst' = [inst EXCEPT ![w] = TRUE] /\ timer' = [timer EXCEPT ![w] = TRUE]
    <2>1. PICK r \in Requests : cur' = [cur EXCEPT ![w] = r] /\ job' = [job EXCEPT ![w] = r]
      BY <1>3
    <2>2. r # NoRequest
      BY CryptoAssumption
    <2>3. BusyCount'
      <3>1. [cur EXCEPT ![w] = NoRequest] \in [Workers -> Slot]
            /\ [cur EXCEPT ![w] = NoRequest][w] = NoRequest
        BY <1>1 DEF SlotTypes, Slot
      <3>2. cur' = [[cur EXCEPT ![w] = NoRequest] EXCEPT ![w] = r]
        BY <1>1, <2>1 DEF SlotTypes
      <3>3. PICK c \in [Workers -> Slot] : c = [cur EXCEPT ![w] = NoRequest] /\ c[w] = NoRequest
        BY <3>1
      <3>4. Cardinality(BusyOf([c EXCEPT ![w] = r])) = Cardinality(BusyOf(c)) + 1
        BY <3>3, BusyGrows
      <3>5. numBusy' = Cardinality(BusyOf(cur'))
        BY <1>3, <3>2, <3>3, <3>4
      <3>6. QED
        BY <3>5 DEF BusyCount, BusyOf
    <2>4. WorkConserving'
      <3>1. \A v \in Workers : cur[v] # NoRequest
        BY <1>1, <1>3 DEF WorkConserving
      <3>2. \A v \in Workers : cur'[v] # NoRequest
        BY <1>1, <2>1, <2>2, <3>1 DEF SlotTypes
      <3>3. QED
        BY <3>2 DEF WorkConserving
    <2>5. SlotTypes' /\ BusyIsServed' /\ IdleIsQuiet'
      BY <1>1, <1>3, <2>1, <2>2 DEF SlotTypes, BusyIsServed, IdleIsQuiet, Slot
    <2>6. QED
      BY <2>3, <2>4, <2>5
  <1>4. QED
    BY <1>1, <1>2, <1>3, FindWorkFacts

(* After a stop, a slot whose instance answered counts as busy no more. *)
LEMMA FindWorkStopped ==
  ASSUME WorkersInv, stopped, UNCHANGED stopped, NEW w \in Workers, job[w] # NoRequest,
         FindWork(w, [cur EXCEPT ![w] = NoRequest], numBusy - 1, FALSE)
  PROVE  SlotTypes' /\ StoppedCount'
  <1>1. SlotTypes /\ QueueTypes /\ StoppedCount
    BY DEF WorkersInv
  <1>2. /\ job' = [job EXCEPT ![w] = NoRequest] /\ numBusy' = numBusy - 1
        /\ cur' = [cur EXCEPT ![w] = NoRequest] /\ timer' = timer
        /\ inst' = inst \/ inst' = [inst EXCEPT ![w] = inst[w] /\ ~FALSE]
    BY <1>1, FindWorkFacts
  <1>3. SlotTypes'
    BY <1>1, <1>2 DEF SlotTypes, Slot
  <1>4. PICK j \in [Workers -> Slot] : j = job
    BY <1>1 DEF SlotTypes
  <1>5. Cardinality(BusyOf(job')) = Cardinality(BusyOf(job)) - 1
    BY <1>2, <1>4, BusyShrinks
  <1>6. Cardinality(BusyOf(job)) \in Nat /\ Cardinality(BusyOf(job')) \in Nat
    <2>1. PICK k \in [Workers -> Slot] : k = job'
      BY <1>3 DEF SlotTypes
    <2>2. QED
      BY <1>4, <2>1, BusyFacts
  <1>7. numBusy \in 0..NumWorkers /\ Cardinality(BusyOf(job)) <= numBusy
    BY <1>1 DEF StoppedCount
  <1>8. numBusy' \in 0..NumWorkers /\ Cardinality(BusyOf(job')) <= numBusy'
    BY <1>2, <1>5, <1>6, <1>7, CryptoAssumption
  <1>9. \A v \in Workers : ~inst'[v]
    BY <1>1, <1>2 DEF StoppedCount, SlotTypes
  <1>10. QED
    BY <1>3, <1>8, <1>9 DEF StoppedCount

-----------------------------------------------------------------------------
(* A new request keeps the books right: it is queued only beside busy      *)
(* slots, because the counter is right.                                    *)
LEMMA SubmitKeeps ==
  ASSUME WorkersInv, NEW r \in Requests, NEW p \in Prios, Submit(r, p)
  PROVE  WorkersInv'
  <1>1. SlotTypes /\ QueueTypes /\ OutcomeTypes /\ BusyCount /\ BusyIsServed
        /\ IdleIsQuiet /\ WorkConserving /\ StoppedCount /\ stopped' = stopped
    BY DEF WorkersInv, Submit
  <1>2. OutcomeTypes'
    BY <1>1 DEF OutcomeTypes, Submit
  <1>3. CASE numBusy = NumWorkers
    <2>1. queue' = [queue EXCEPT ![p] = Append(queue[p], r)]
          /\ cur' = cur /\ inst' = inst /\ timer' = timer /\ job' = job /\ numBusy' = numBusy
      BY <1>3 DEF Submit
    <2>2. QueueTypes'
      BY <1>1, <2>1 DEF QueueTypes
    <2>3. WorkConserving'
      <3>1. PICK c \in [Workers -> Slot] : c = cur
        BY <1>1 DEF SlotTypes
      <3>2. ~stopped => Cardinality(BusyOf(c)) = NumWorkers
        BY <1>1, <1>3, <3>1 DEF BusyCount, BusyOf
      <3>3. ~stopped => \A w \in Workers : cur[w] # NoRequest
        BY <3>1, <3>2, BusyFacts
      <3>4. QED
        BY <1>1, <2>1, <3>3 DEF WorkConserving
    <2>4. SlotTypes' /\ BusyCount' /\ BusyIsServed' /\ IdleIsQuiet' /\ StoppedCount'
      BY <1>1, <2>1 DEF SlotTypes, BusyCount, BusyIsServed, IdleIsQuiet, StoppedCount, BusyOf
    <2>5. QED
      BY <1>2, <2>2, <2>3, <2>4 DEF WorkersInv
  <1>4. CASE UNCHANGED <<cur, inst, timer, job, numBusy, queue>>
    <2>1. SlotTypes' /\ QueueTypes' /\ BusyCount' /\ BusyIsServed' /\ IdleIsQuiet'
          /\ WorkConserving' /\ StoppedCount'
      BY <1>1, <1>4 DEF SlotTypes, QueueTypes, BusyCount, BusyIsServed, IdleIsQuiet,
                        WorkConserving, StoppedCount, BusyOf
    <2>2. QED
      BY <1>2, <2>1 DEF WorkersInv
  <1>5. CASE /\ ~stopped /\ queue' = queue /\ numBusy' = numBusy + 1
             /\ \E w \in Workers : /\ cur[w] = NoRequest
                                   /\ cur' = [cur EXCEPT ![w] = r] /\ job' = [job EXCEPT ![w] = r]
                                   /\ inst' = [inst EXCEPT ![w] = TRUE]
                                   /\ timer' = [timer EXCEPT ![w] = TRUE]
    <2>1. PICK w \in Workers : /\ cur[w] = NoRequest
                               /\ cur' = [cur EXCEPT ![w] = r] /\ job' = [job EXCEPT ![w] = r]
                               /\ inst' = [inst EXCEPT ![w] = TRUE]
                               /\ timer' = [timer EXCEPT ![w] = TRUE]
      BY <1>5
    <2>2. QueueTypes' /\ r # NoRequest
      BY <1>1, <1>5, CryptoAssumption DEF QueueTypes
    <2>3. SlotTypes' /\ BusyIsServed' /\ IdleIsQuiet'
      BY <1>1, <2>1, <2>2 DEF SlotTypes, BusyIsServed, IdleIsQuiet, Slot
    <2>4. BusyCount'
      <3>1. PICK c \in [Workers -> Slot] : c = cur
        BY <1>1 DEF SlotTypes
      <3>2. Cardinality(BusyOf([c EXCEPT ![w] = r])) = Cardinality(BusyOf(c)) + 1
        BY <2>1, <3>1, BusyGrows
      <3>3. numBusy = Cardinality(BusyOf(cur))
        BY <1>1, <1>5 DEF BusyCount, BusyOf
      <3>4. numBusy' = Cardinality(BusyOf(cur'))
        BY <1>5, <2>1, <3>1, <3>2, <3>3
      <3>5. QED
        BY <3>4 DEF BusyCount, BusyOf
    <2>5. WorkConserving'
      <3>1. \A q \in Prios : queue[q] = <<>>
        BY <1>1, <1>5, <2>1 DEF WorkConserving
      <3>2. QED
        BY <1>5, <3>1 DEF WorkConserving
    <2>6. StoppedCount'
      BY <1>1, <1>5 DEF StoppedCount
    <2>7. QED
      BY <1>2, <2>2, <2>3, <2>4, <2>5, <2>6 DEF WorkersInv
  <1>6. CASE numBusy # NumWorkers
    <2>1. \/ UNCHANGED <<cur, inst, timer, job, numBusy, queue>>
          \/ queue' = queue /\ \E w \in Idle : WakeWorker(w, r, cur, job, numBusy)
      BY <1>6 DEF Submit
    <2>2. ASSUME NEW w \in Idle, WakeWorker(w, r, cur, job, numBusy), queue' = queue
          PROVE  WorkersInv'
      BY <1>4, <1>5, <2>2 DEF WakeWorker, Idle
    <2>3. QED
      BY <1>4, <2>1, <2>2
  <1>7. QED
    BY <1>3, <1>6

(* A slot that got its answer keeps the books right. *)
LEMMA AnswerKeeps ==
  ASSUME WorkersInv, NEW w \in Workers, Answer(w)
  PROVE  WorkersInv'
  <1>1. SlotTypes /\ QueueTypes /\ OutcomeTypes /\ BusyCount /\ IdleIsQuiet /\ StoppedCount
    BY DEF WorkersInv
  <1>2. /\ job[w] # NoRequest /\ stopped' = stopped
        /\ FindWork(w, [cur EXCEPT ![w] = NoRequest], numBusy - 1, FALSE)
    BY DEF Answer
  <1>3. OutcomeTypes'
    BY <1>1 DEF OutcomeTypes, Answer
  <1>4. QueueTypes'
    BY <1>1, <1>2, FindWorkFacts
  <1>5. CASE stopped
    <2>1. SlotTypes' /\ StoppedCount'
      BY <1>2, <1>5, FindWorkStopped
    <2>2. BusyCount' /\ BusyIsServed' /\ IdleIsQuiet' /\ WorkConserving'
      BY <1>2, <1>5 DEF BusyCount, BusyIsServed, IdleIsQuiet, WorkConserving
    <2>3. QED
      BY <1>3, <1>4, <2>1, <2>2 DEF WorkersInv
  <1>6. CASE ~stopped
    <2>1. PICK c \in [Workers -> Slot] : c = cur
      BY <1>1 DEF SlotTypes
    <2>2. cur[w] # NoRequest
      BY <1>1, <1>2, <1>6 DEF IdleIsQuiet
    <2>3. numBusy - 1 = Cardinality(BusyOf([cur EXCEPT ![w] = NoRequest]))
      BY <1>1, <1>6, <2>1, <2>2, BusyShrinks DEF BusyCount, BusyOf
    <2>4. SlotTypes' /\ BusyCount' /\ BusyIsServed' /\ IdleIsQuiet' /\ WorkConserving'
      BY <1>2, <1>6, <2>3, FindWorkRunning
    <2>5. StoppedCount'
      BY <1>2, <1>6 DEF StoppedCount
    <2>6. QED
      BY <1>3, <1>4, <2>4, <2>5 DEF WorkersInv
  <1>7. QED
    BY <1>5, <1>6

(* A slot whose instance failed keeps the books right: the item it had, if *)
(* any, is rejected and counted off.                                       *)
LEMMA WorkerErrorKeeps ==
  ASSUME WorkersInv, NEW w \in Workers, WorkerError(w)
  PROVE  WorkersInv'
  <1>1. SlotTypes /\ QueueTypes /\ OutcomeTypes /\ BusyCount /\ StoppedCount
    BY DEF WorkersInv
  <1>2. PICK b : /\ b = IF cur[w] = NoRequest THEN numBusy ELSE numBusy - 1
                 /\ FindWork(w, [cur EXCEPT ![w] = NoRequest], b, TRUE)
    BY DEF WorkerError
  <1>3. inst[w] /\ stopped' = stopped /\ ~stopped
    BY <1>1 DEF WorkerError, StoppedCount
  <1>4. OutcomeTypes'
    BY <1>1 DEF OutcomeTypes, WorkerError
  <1>5. QueueTypes'
    BY <1>1, <1>2, FindWorkFacts
  <1>6. b = Cardinality(BusyOf([cur EXCEPT ![w] = NoRequest]))
    <2>1. PICK c \in [Workers -> Slot] : c = cur
      BY <1>1 DEF SlotTypes
    <2>2. numBusy = Cardinality(BusyOf(cur))
      BY <1>1, <1>3 DEF BusyCount, BusyOf
    <2>3. CASE cur[w] = NoRequest
      <3>1. [cur EXCEPT ![w] = NoRequest] = cur
        BY <1>1, <2>3 DEF SlotTypes
      <3>2. QED
        BY <1>2, <2>2, <2>3, <3>1
    <2>4. CASE cur[w] # NoRequest
      BY <1>2, <2>1, <2>2, <2>4, BusyShrinks
    <2>5. QED
      BY <2>3, <2>4
  <1>7. SlotTypes' /\ BusyCount' /\ BusyIsServed' /\ IdleIsQuiet' /\ WorkConserving'
    BY <1>2, <1>3, <1>6, FindWorkRunning
  <1>8. StoppedCount'
    BY <1>3 DEF StoppedCount
  <1>9. QED
    BY <1>4, <1>5, <1>7, <1>8 DEF WorkersInv

(* An operation that throws takes away the answer, not the item: the slot  *)
(* stays busy and counted.                                                 *)
LEMMA OperationThrowsKeeps ==
  ASSUME WorkersInv, NEW w \in Workers, OperationThrows(w)
  PROVE  WorkersInv'
  <1>1. SlotTypes /\ QueueTypes /\ OutcomeTypes /\ BusyCount /\ BusyIsServed
        /\ IdleIsQuiet /\ WorkConserving /\ StoppedCount
    BY DEF WorkersInv
  <1>2. /\ job' = [job EXCEPT ![w] = NoRequest]
        /\ cur' = cur /\ inst' = inst /\ timer' = timer /\ numBusy' = numBusy
        /\ queue' = queue /\ stopped' = stopped /\ rpcState' = rpcState
    BY DEF OperationThrows
  <1>3. SlotTypes' /\ QueueTypes' /\ OutcomeTypes' /\ BusyCount' /\ BusyIsServed'
        /\ IdleIsQuiet' /\ WorkConserving'
    BY <1>1, <1>2 DEF SlotTypes, QueueTypes, OutcomeTypes, BusyCount, BusyIsServed, IdleIsQuiet,
                      WorkConserving, Slot
  <1>4. Cardinality(BusyOf(job')) <= Cardinality(BusyOf(job))
        /\ Cardinality(BusyOf(job)) \in Nat /\ Cardinality(BusyOf(job')) \in Nat
    <2>1. PICK j, k \in [Workers -> Slot] : j = job /\ k = job'
      BY <1>1, <1>3 DEF SlotTypes
    <2>2. BusyOf(k) \subseteq BusyOf(j)
      BY <1>2, <2>1 DEF BusyOf, Slot
    <2>3. IsFiniteSet(BusyOf(j)) /\ Cardinality(BusyOf(j)) \in Nat /\ Cardinality(BusyOf(k)) \in Nat
      BY BusyFacts
    <2>4. QED
      BY <2>1, <2>2, <2>3, FS_Subset
  <1>5. StoppedCount'
    BY <1>1, <1>2, <1>4, CryptoAssumption DEF StoppedCount
  <1>6. QED
    BY <1>3, <1>5 DEF WorkersInv

(* The termination timer leaves a busy slot's instance alone.              *)
LEMMA TimerFiresKeeps ==
  ASSUME WorkersInv, NEW w \in Workers, TimerFires(w)
  PROVE  WorkersInv'
  <1>1. SlotTypes /\ QueueTypes /\ OutcomeTypes /\ BusyCount /\ BusyIsServed
        /\ IdleIsQuiet /\ WorkConserving /\ StoppedCount
    BY DEF WorkersInv
  <1>2. /\ timer' = [timer EXCEPT ![w] = FALSE]
        /\ inst' = [inst EXCEPT ![w] = inst[w] /\ cur[w] # NoRequest]
        /\ cur' = cur /\ job' = job /\ numBusy' = numBusy
        /\ queue' = queue /\ stopped' = stopped /\ rpcState' = rpcState
    BY DEF TimerFires
  <1>3. SlotTypes' /\ QueueTypes' /\ OutcomeTypes' /\ BusyCount' /\ BusyIsServed'
        /\ IdleIsQuiet' /\ WorkConserving'
    BY <1>1, <1>2 DEF SlotTypes, QueueTypes, OutcomeTypes, BusyCount, BusyIsServed, IdleIsQuiet,
                      WorkConserving
  <1>4. StoppedCount'
    BY <1>1, <1>2 DEF StoppedCount, SlotTypes, BusyOf
  <1>5. QED
    BY <1>3, <1>4 DEF WorkersInv

(* When the wallet stops, no more answers are under way than slots were    *)
(* counted as busy, so the counter cannot fall below zero afterwards.      *)
LEMMA StopKeeps ==
  ASSUME WorkersInv, Stop
  PROVE  WorkersInv'
  <1>1. SlotTypes /\ QueueTypes /\ OutcomeTypes /\ BusyCount /\ IdleIsQuiet
    BY DEF WorkersInv
  <1>2. /\ ~stopped /\ stopped' = TRUE /\ numBusy' = numBusy /\ queue' = queue
        /\ cur' = [w \in Workers |-> IF inst[w] THEN NoRequest ELSE cur[w]]
        /\ inst' = [w \in Workers |-> FALSE]
        /\ timer' = [w \in Workers |-> timer[w] /\ ~inst[w]]
    BY DEF Stop
  <1>3. PICK lost \in SUBSET Workers :
          job' = [w \in Workers |-> IF w \in lost THEN NoRequest ELSE job[w]]
    BY DEF Stop
  <1>4. OutcomeTypes'
    BY <1>1 DEF OutcomeTypes, Stop
  <1>5. QueueTypes'
    BY <1>1, <1>2 DEF QueueTypes
  <1>6. SlotTypes'
    BY <1>1, <1>2, <1>3 DEF SlotTypes, Slot
  <1>7. PICK c, k \in [Workers -> Slot] : c = cur /\ k = job'
    BY <1>1, <1>6 DEF SlotTypes
  <1>8. BusyOf(k) \subseteq BusyOf(c)
    BY <1>1, <1>2, <1>3, <1>7 DEF BusyOf, IdleIsQuiet
  <1>9. IsFiniteSet(BusyOf(c)) /\ Cardinality(BusyOf(c)) \in 0..NumWorkers
    BY BusyFacts
  <1>10. Cardinality(BusyOf(k)) <= Cardinality(BusyOf(c))
    BY <1>8, <1>9, FS_Subset
  <1>11. numBusy = Cardinality(BusyOf(c))
    BY <1>1, <1>2, <1>7 DEF BusyCount, BusyOf
  <1>12. StoppedCount'
    BY <1>2, <1>7, <1>9, <1>10, <1>11 DEF StoppedCount
  <1>13. BusyCount' /\ BusyIsServed' /\ IdleIsQuiet' /\ WorkConserving'
    BY <1>2 DEF BusyCount, BusyIsServed, IdleIsQuiet, WorkConserving
  <1>14. QED
    BY <1>4, <1>5, <1>6, <1>12, <1>13 DEF WorkersInv

-----------------------------------------------------------------------------
(* At the start, every slot is idle and nothing is queued.                 *)
LEMMA WorkersInvStart ==
  CryptoInit => WorkersInv
  <1> SUFFICES ASSUME CryptoInit PROVE WorkersInv
    OBVIOUS
  <1>1. SlotTypes /\ QueueTypes /\ OutcomeTypes
    <2>1. SlotTypes
      BY DEF CryptoInit, SlotTypes, Slot
    <2>2. QueueTypes
      BY DEF CryptoInit, QueueTypes
    <2>3. OutcomeTypes
      BY DEF CryptoInit, OutcomeTypes
    <2>4. QED
      BY <2>1, <2>2, <2>3
  <1>2. BusyCount
    <2>1. {w \in Workers : cur[w] # NoRequest} = {}
      BY DEF CryptoInit
    <2>2. QED
      BY <2>1, FS_EmptySet DEF CryptoInit, BusyCount
  <1>3. BusyIsServed /\ IdleIsQuiet /\ WorkConserving /\ StoppedCount
    BY DEF CryptoInit, BusyIsServed, IdleIsQuiet, WorkConserving, StoppedCount
  <1>4. QED
    BY <1>1, <1>2, <1>3 DEF WorkersInv

(* Every step keeps the books right.                                       *)
LEMMA WorkersInvNext ==
  WorkersInv /\ [CryptoNext]_cryptoVars => WorkersInv'
  <1> SUFFICES ASSUME WorkersInv, [CryptoNext]_cryptoVars PROVE WorkersInv'
    OBVIOUS
  <1>1. CASE \E r \in Requests, p \in Prios : Submit(r, p)
    BY <1>1, SubmitKeeps
  <1>2. CASE \E w \in Workers : Answer(w)
    BY <1>2, AnswerKeeps
  <1>3. CASE \E w \in Workers : WorkerError(w)
    BY <1>3, WorkerErrorKeeps
  <1>4. CASE \E w \in Workers : OperationThrows(w)
    BY <1>4, OperationThrowsKeeps
  <1>5. CASE \E w \in Workers : TimerFires(w)
    BY <1>5, TimerFiresKeeps
  <1>6. CASE Stop
    BY <1>6, StopKeeps
  <1>7. CASE UNCHANGED cryptoVars
    BY <1>7 DEF WorkersInv, SlotTypes, QueueTypes, OutcomeTypes, BusyCount, BusyIsServed,
                IdleIsQuiet, WorkConserving, StoppedCount, BusyOf
  <1>8. QED
    BY <1>1, <1>2, <1>3, <1>4, <1>5, <1>6, <1>7 DEF CryptoNext

(* The inductive invariant holds always. *)
LEMMA WorkersInvariance ==
  CryptoSpec => []WorkersInv
  <1>1. QED
    BY WorkersInvStart, WorkersInvNext, PTL DEF CryptoSpec

(* The inductive invariant bounds the counter, also in a stopped wallet.   *)
LEMMA CounterInRange ==
  WorkersInv => numBusy \in 0..NumWorkers
  <1> SUFFICES ASSUME WorkersInv PROVE numBusy \in 0..NumWorkers
    OBVIOUS
  <1>1. CASE stopped
    BY <1>1 DEF WorkersInv, StoppedCount
  <1>2. CASE ~stopped
    <2>1. PICK c \in [Workers -> Slot] : c = cur
      BY DEF WorkersInv, SlotTypes
    <2>2. QED
      BY <1>2, <2>1, BusyFacts DEF WorkersInv, BusyCount, BusyOf
  <1>3. QED
    BY <1>1, <1>2

(* Every variable keeps its type; above all, numBusy stays between zero    *)
(* and the number of workers, whatever answers arrive after a stop.        *)
THEOREM WorkersTypeCorrect ==
  CryptoSpec => []CryptoTypeOK
  <1>1. WorkersInv => CryptoTypeOK
    BY CounterInRange DEF WorkersInv, SlotTypes, QueueTypes, OutcomeTypes, CryptoTypeOK, Slot
  <1>2. QED
    BY <1>1, WorkersInvariance, PTL

(* The counter numBusy is the number of busy slots until the wallet stops, *)
(* so doRpc never finds all slots busy while the counter says otherwise.   *)
THEOREM CounterIsRight ==
  CryptoSpec => []BusyCount
  <1>1. WorkersInv => BusyCount
    BY DEF WorkersInv
  <1>2. QED
    BY <1>1, WorkersInvariance, PTL

(* No slot idles while requests are queued.                                *)
THEOREM NoIdleSlot ==
  CryptoSpec => []WorkConserving
  <1>1. WorkersInv => WorkConserving
    BY DEF WorkersInv
  <1>2. QED
    BY <1>1, WorkersInvariance, PTL

(* The instance of a busy slot works for the request of this slot, or its  *)
(* operation threw.                                                        *)
THEOREM BusySlotsAreServed ==
  CryptoSpec => []BusyIsServed
  <1>1. WorkersInv => BusyIsServed
    BY DEF WorkersInv
  <1>2. QED
    BY <1>1, WorkersInvariance, PTL

-----------------------------------------------------------------------------
(* A request is queued at one place: doRpc queues new names only.          *)
OneRequestOnePlace ==
    \A p, q \in Prios : \A i \in DOMAIN queue[p], j \in DOMAIN queue[q] :
        queue[p][i] = queue[q][j] => p = q /\ i = j

(* The head of a queue is taken off. *)
LEMMA TakeHead ==
    ASSUME QueueTypes, OneRequestOnePlace, NEW p \in Prios, queue[p] # <<>>,
           queue' = [queue EXCEPT ![p] = Tail(queue[p])]
    PROVE  OneRequestOnePlace'
  <1>1. /\ queue'[p] = Tail(queue[p])
        /\ \A i \in DOMAIN queue'[p] : i + 1 \in DOMAIN queue[p] /\ queue'[p][i] = queue[p][i + 1]
    <2>1. queue[p] \in Seq(Requests)
      BY DEF QueueTypes
    <2>2. queue'[p] = Tail(queue[p])
      BY DEF QueueTypes
    <2>3. /\ Len(queue[p]) \in Nat /\ DOMAIN queue[p] = 1..Len(queue[p])
          /\ Len(queue[p]) > 0
      BY <2>1
    <2>4. /\ Tail(queue[p]) \in Seq(Requests)
          /\ Len(Tail(queue[p])) = Len(queue[p]) - 1
          /\ \A i \in 1..(Len(queue[p]) - 1) : Tail(queue[p])[i] = queue[p][i + 1]
      BY <2>1, <2>3
    <2>5. DOMAIN Tail(queue[p]) = 1..(Len(queue[p]) - 1)
      BY <2>4
    <2>6. ASSUME NEW i \in DOMAIN queue'[p]
          PROVE  i + 1 \in DOMAIN queue[p] /\ queue'[p][i] = queue[p][i + 1]
      <3>1. i \in 1..(Len(queue[p]) - 1)
        BY <2>2, <2>5, Zenon
      <3>2. queue'[p][i] = Tail(queue[p])[i]
        BY <2>2, Zenon
      <3>3. i + 1 \in 1..Len(queue[p])
        BY <2>3, <3>1
      <3>4. QED
        BY <2>3, <2>4, <3>1, <3>2, <3>3, Zenon
    <2>7. QED
      BY <2>2, <2>6, Zenon
  <1>2. \A q \in Prios : q # p => queue'[q] = queue[q]
    BY DEF QueueTypes
  <1>3. \A q \in Prios : \A i \in DOMAIN queue'[q] : i \in Nat
    <2>1. \A q \in Prios : queue'[q] \in Seq(Requests)
      BY DEF QueueTypes
    <2>2. QED
      BY <2>1
  <1>4. SUFFICES ASSUME NEW q \in Prios, NEW r \in Prios,
                        NEW i \in DOMAIN queue'[q], NEW j \in DOMAIN queue'[r],
                        queue'[q][i] = queue'[r][j]
                 PROVE  q = r /\ i = j
    BY DEF OneRequestOnePlace
  <1>5. CASE q = p /\ r = p
    BY <1>1, <1>3, <1>4, <1>5 DEF OneRequestOnePlace
  <1>6. CASE q = p /\ r # p
    BY <1>1, <1>2, <1>4, <1>6 DEF OneRequestOnePlace
  <1>7. CASE q # p /\ r = p
    BY <1>1, <1>2, <1>4, <1>7 DEF OneRequestOnePlace
  <1>8. CASE q # p /\ r # p
    BY <1>2, <1>4, <1>8 DEF OneRequestOnePlace
  <1>9. QED
    BY <1>5, <1>6, <1>7, <1>8

(* A new name is queued at the end. *)
LEMMA QueueNew ==
    ASSUME QueueTypes, OneRequestOnePlace, NEW p \in Prios, NEW r \in Requests,
           \A q \in Prios : ~InQueue(r, q),
           queue' = [queue EXCEPT ![p] = Append(queue[p], r)]
    PROVE  OneRequestOnePlace'
  <1>1. /\ DOMAIN queue'[p] = DOMAIN queue[p] \cup {Len(queue[p]) + 1}
        /\ \A i \in DOMAIN queue[p] : queue'[p][i] = queue[p][i]
        /\ queue'[p][Len(queue[p]) + 1] = r
    <2>1. queue[p] \in Seq(Requests)
      BY DEF QueueTypes
    <2>2. queue'[p] = Append(queue[p], r)
      BY DEF QueueTypes
    <2>3. QED
      BY <2>1, <2>2
  <1>2. \A q \in Prios : q # p => queue'[q] = queue[q]
    BY DEF QueueTypes
  <1>3. \A q \in Prios : \A i \in DOMAIN queue[q] : queue[q][i] # r
    BY DEF InQueue
  <1>4. QED
    BY <1>1, <1>2, <1>3 DEF OneRequestOnePlace

(* Each name stays at one place. *)
LEMMA OnePlaceNext ==
    ASSUME WorkersInv, OneRequestOnePlace, [CryptoNext]_cryptoVars
    PROVE  OneRequestOnePlace'
  <1>1. QueueTypes
    BY DEF WorkersInv
  <1>2. ASSUME queue' = queue PROVE OneRequestOnePlace'
    BY <1>2 DEF OneRequestOnePlace
  <1>3. ASSUME NEW r \in Requests, NEW p \in Prios, Submit(r, p) PROVE OneRequestOnePlace'
    <2>1. \A q \in Prios : ~InQueue(r, q)
      BY <1>3 DEF Submit, Unused
    <2>2. QED
      BY <1>1, <1>2, <1>3, <2>1, QueueNew DEF Submit
  <1>4. ASSUME NEW w, NEW c, NEW b, NEW gone, FindWork(w, c, b, gone) PROVE OneRequestOnePlace'
    BY <1>1, <1>2, <1>4, TakeHead DEF FindWork, Urgent
  <1>5. QED
    BY <1>2, <1>3, <1>4
       DEF CryptoNext, Answer, WorkerError, OperationThrows, TimerFires, Stop

(* Whoever is taken from a queue is the first of the most urgent one.      *)
LEMMA TheFirstGoes ==
    ASSUME WorkersInv, OneRequestOnePlace, NEW v \in Workers, NEW b, NEW gone,
           FindWork(v, [cur EXCEPT ![v] = NoRequest], b, gone),
           NEW w \in Workers, NEW p \in Prios, NEW q \in Prios,
           NEW i \in DOMAIN queue[p], NEW j \in DOMAIN queue[q],
           cur'[w] = queue[p][i], cur'[w] # cur[w], \A u \in Workers : cur'[u] # queue[q][j]
    PROVE  q < p \/ (q = p /\ i < j)
  <1>1. QueueTypes /\ SlotTypes
    BY DEF WorkersInv
  <1>2. \A s \in Prios : queue[s] \in Seq(Requests)
    BY <1>1 DEF QueueTypes
  <1>3. queue[p][i] \in Requests /\ queue[p][i] # NoRequest
    BY <1>2, CryptoAssumption
  <1>4. i \in Nat /\ j \in Nat /\ i >= 1 /\ j >= 1 /\ p \in Int /\ q \in Int
    BY <1>2, CryptoAssumption DEF Prios
  <1>5. cur' # [cur EXCEPT ![v] = NoRequest]
    BY <1>1, <1>3 DEF SlotTypes
  <1>6. PICK h \in Urgent : cur' = [[cur EXCEPT ![v] = NoRequest] EXCEPT ![v] = Head(queue[h])]
    BY <1>5 DEF FindWork, WakeWorker
  <1>7. h \in Prios /\ queue[h] # <<>> /\ (queue[q] # <<>> => q <= h)
    BY <1>6 DEF Urgent
  <1>8. 1 \in DOMAIN queue[h] /\ Head(queue[h]) = queue[h][1] /\ queue[q] # <<>>
    BY <1>2, <1>7
  <1>9. w = v /\ cur'[v] = queue[h][1]
    BY <1>1, <1>6, <1>8 DEF SlotTypes
  <1>10. h = p /\ i = 1
    BY <1>7, <1>8, <1>9 DEF OneRequestOnePlace
  <1>11. q = p => j # 1
    BY <1>9, <1>10
  <1>12. q <= p
    BY <1>7, <1>8, <1>10
  <1>13. QED
    BY <1>4, <1>10, <1>11, <1>12

(* A request leaves its queue before all that are less urgent, and before  *)
(* all as urgent that came later, and not before others.                   *)
THEOREM NobodyIsOvertaken == CryptoSpec => NoOvertaking
  <1> DEFINE Overtakes(w, p, q, i, j) ==
        /\ cur'[w] = queue[p][i] /\ cur'[w] # cur[w]
        /\ \A v \in Workers : cur'[v] # queue[q][j]
  <1>1. CryptoInit => OneRequestOnePlace
    BY DEF CryptoInit, OneRequestOnePlace
  <1>2. WorkersInv /\ OneRequestOnePlace /\ [CryptoNext]_cryptoVars => OneRequestOnePlace'
    BY OnePlaceNext
  <1>3. ASSUME WorkersInv, OneRequestOnePlace, CryptoNext,
               NEW w \in Workers, NEW p \in Prios, NEW q \in Prios,
               NEW i \in DOMAIN queue[p], NEW j \in DOMAIN queue[q], Overtakes(w, p, q, i, j)
        PROVE  q < p \/ (q = p /\ i < j)
    <2>1. cur \in [Workers -> Slot]
      BY <1>3 DEF WorkersInv, SlotTypes
    <2>2. queue[p][i] \in Requests /\ queue[p][i] # NoRequest
      <3>1. queue[p] \in Seq(Requests)
        BY <1>3 DEF WorkersInv, QueueTypes
      <3>2. QED
        BY <3>1, CryptoAssumption
    <2>3. \A r \in Requests, s \in Prios : ~Submit(r, s)
      <3>1. SUFFICES ASSUME NEW r \in Requests, NEW s \in Prios, Submit(r, s) PROVE FALSE
        OBVIOUS
      <3>2. r # queue[p][i]
        BY <3>1 DEF Submit, Unused, InQueue
      <3>3. cur' = cur \/ \E v \in Workers : cur' = [cur EXCEPT ![v] = r]
        BY <3>1 DEF Submit, WakeWorker, Idle
      <3>4. QED
        BY <1>3, <2>1, <3>2, <3>3
    <2>4. ~Stop
      BY <1>3, <2>1, <2>2 DEF Stop
    <2>5. PICK v \in Workers : Answer(v) \/ WorkerError(v)
      BY <1>3, <2>3, <2>4 DEF CryptoNext, OperationThrows, TimerFires
    <2>6. PICK b, gone : FindWork(v, [cur EXCEPT ![v] = NoRequest], b, gone)
      BY <2>5 DEF Answer, WorkerError
    <2>7. QED
      BY <1>3, <2>6, TheFirstGoes
  <1>4. WorkersInv /\ OneRequestOnePlace /\ [CryptoNext]_cryptoVars
          => [\A w \in Workers, p, q \in Prios :
                \A i \in DOMAIN queue[p], j \in DOMAIN queue[q] :
                   /\ cur'[w] = queue[p][i] /\ cur'[w] # cur[w]
                   /\ \A v \in Workers : cur'[v] # queue[q][j]
                   => q < p \/ (q = p /\ i < j)]_cryptoVars
    BY <1>3
  <1>5. QED
    BY <1>1, <1>2, <1>4, WorkersInvariance, PTL DEF CryptoSpec, NoOvertaking
=============================================================================
