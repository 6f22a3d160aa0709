-------------------------- MODULE RequestThrottler --------------------------
(***************************************************************************)
(* The token buckets that limit how many requests go to one origin         *)
(* (util/RequestThrottler.ts).                                             *)
(*                                                                         *)
(* Time is counted in ticks.  A bucket gets one token per period (the code *)
(* divides the time that has passed by a second, a minute and an hour), so *)
(* that its content is counted in ticks as well: a token is Period[l].     *)
(***************************************************************************)
EXTENDS Integers, Sums

CONSTANTS
    Limits,          \* second, minute, hour
    Cap, Period,     \* MAX_PER_... and the ticks of each
    MaxTime,         \* bound: ticks
    MaxSetBacks      \* bound: how often the system's clock is set back

ASSUME ThrottleAssumption ==
    /\ Cap \in [Limits -> Nat] /\ Period \in [Limits -> Nat \ {0}]
    /\ MaxTime \in Nat /\ MaxSetBacks \in Nat

VARIABLES
    time, wallClock,     \* real time, and what getTimestampNow says
    lastUpdate, tokens,
    passed,          \* requests let through at each time
    setBacks

throttleVars == <<time, wallClock, lastUpdate, tokens, passed, setBacks>>

Full(l) == Cap[l] * Period[l]

ThrottleInit ==
    /\ time = 0 /\ wallClock = 0 /\ lastUpdate = 0 /\ setBacks = 0
    /\ tokens = [l \in Limits |-> Full(l)]
    /\ passed = [t \in 0..MaxTime |-> 0]

Lesser(a, b) == IF a < b THEN a ELSE b

(* Mutant of Refilled: a bucket may overflow.                              *)
RefilledUncapped ==
    IF wallClock < lastUpdate THEN tokens
    ELSE [l \in Limits |-> tokens[l] + wallClock - lastUpdate]

(* refill, when the clock has not gone back since the last time.           *)
Refilled ==
    IF wallClock < lastUpdate THEN tokens
    ELSE [l \in Limits |-> Lesser(Full(l), tokens[l] + wallClock - lastUpdate)]

(* applyThrottle: a request passes if each bucket has a token for it.      *)
RequestPasses ==
    /\ \A l \in Limits : Refilled[l] >= Period[l]
    /\ tokens' = [l \in Limits |-> Refilled[l] - Period[l]]
    /\ passed' = [passed EXCEPT ![time] = @ + 1]
    /\ lastUpdate' = wallClock
    /\ UNCHANGED <<time, wallClock, setBacks>>

(* WALLET_HTTP_REQUEST_THROTTLED: the caller will try again.               *)
RequestThrottled ==
    /\ \E l \in Limits : Refilled[l] < Period[l]
    /\ tokens' = Refilled /\ lastUpdate' = wallClock
    /\ UNCHANGED <<time, wallClock, passed, setBacks>>

Tick ==
    /\ time < MaxTime
    /\ time' = time + 1 /\ wallClock' = wallClock + 1
    /\ UNCHANGED <<lastUpdate, tokens, passed, setBacks>>

(* "Did the system time change?"                                           *)
SetBack ==
    /\ setBacks < MaxSetBacks
    /\ \E c \in -MaxTime..(wallClock - 1) : wallClock' = c
    /\ setBacks' = setBacks + 1
    /\ UNCHANGED <<time, lastUpdate, tokens, passed>>

ThrottleNext == RequestPasses \/ RequestThrottled \/ Tick \/ SetBack

ThrottleSpec == ThrottleInit /\ [][ThrottleNext]_throttleVars
-----------------------------------------------------------------------------
(* In no period do more requests pass than a full bucket and the token it  *)
(* gets meanwhile, also when the clock is set back (it must not be set     *)
(* forward: that counts as time that has passed).                          *)
RateIsLimited ==
    \A l \in Limits : \A t \in 0..time :
        SumOver(passed, t..Lesser(time, t + Period[l])) <= Cap[l] + 1
=============================================================================
