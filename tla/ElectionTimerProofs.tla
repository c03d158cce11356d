------------------------- MODULE ElectionTimerProofs -------------------------
(***************************************************************************)
(* A live leader is kept as long as enough of its requests count, and a    *)
(* dead one is noticed, for every choice of timeouts and delay that        *)
(* TimerConstants allows.                                                  *)
(***************************************************************************)
EXTENDS ElectionTimer, TLAPS

\* The longest time between two requests that count, if only Tolerated
\* broadcasts in a row do not.
LongestGap == (Tolerated + 1) * BroadcastTimeout

\* The leader runs, and a follower can do without what it missed.
Heard == leading /\ missed <= Tolerated

\* Ranges of the timers; no request is on its way for longer than Delay.
TimerRanges ==
  /\ state \in {"Follower", "Candidate"}
  /\ broadcast \in 0 .. BroadcastTimeout /\ missed \in 0 .. Tolerated + 1
  /\ flight \subseteq [age : 0 .. Delay, older : BOOLEAN]
  /\ period \in Periods /\ elapsed \in 0 .. period /\ silence \in Nat

\* While its leader is heard, the last request that counts has arrived at the
\* follower, or one is on its way that was sent soon enough after it.
HeartbeatsArrive ==
  Heard =>
    /\ state = "Follower"
    /\ \/ silence <= missed * BroadcastTimeout + broadcast
       \/ \E m \in flight : ~m.older /\ silence <= m.age + LongestGap

\* broadcast_received says whether the silence is younger than the last firing
\* of the election timer: if so it is no longer than the timer has run, and if
\* not it is no longer than one more period.
FlagTellsSilence ==
  /\ state = "Follower" =>
       IF broadcast_received THEN silence <= elapsed
       ELSE elapsed <= silence /\ silence <= ElectionTimeoutMax + elapsed
  /\ silence <= 2 * ElectionTimeoutMax

TimerInv == TimerRanges /\ HeartbeatsArrive /\ FlagTellsSilence

-----------------------------------------------------------------------------
\* TimerConstants as facts about integers.
LEMMA Constants ==
  /\ ElectionTimeoutMin \in Nat /\ ElectionTimeoutMax \in Nat
  /\ Delay \in Nat /\ Tolerated \in Nat
  /\ BroadcastTimeout \in Nat /\ LongestGap \in Nat
  /\ ElectionTimeoutMin <= ElectionTimeoutMax
  /\ LongestGap + Delay < ElectionTimeoutMin
  <1>1. /\ ElectionTimeoutMin \in Nat /\ ElectionTimeoutMax \in Nat
        /\ Delay \in Nat /\ Tolerated \in Nat
    BY TimerConstants
  <1>2. BroadcastTimeout \in Nat
    BY <1>1 DEF BroadcastTimeout
  <1>3. LongestGap \in Nat
    BY <1>1, <1>2 DEF LongestGap
  <1>4. BroadcastTimeout * (Tolerated + 1) = (Tolerated + 1) * BroadcastTimeout
    BY <1>1, <1>2
  <1> QED BY <1>1, <1>2, <1>3, <1>4, TimerConstants DEF LongestGap, BroadcastTimeout

\* The broadcasts that may be missed fit into LongestGap.
LEMMA GapCoversMissed ==
  ASSUME NEW l \in 0 .. Tolerated
  PROVE  /\ l * BroadcastTimeout \in Nat
         /\ (l + 1) * BroadcastTimeout = l * BroadcastTimeout + BroadcastTimeout
         /\ l * BroadcastTimeout + BroadcastTimeout <= LongestGap
  <1>1. PICK k \in Nat : Tolerated = l + k
    <2>1. Tolerated - l \in Nat /\ Tolerated = l + (Tolerated - l)
      BY Constants
    <2> QED BY <2>1
  <1> DEFINE b == BroadcastTimeout
  <1>2. b \in Nat /\ k * b \in Nat
    BY Constants
  <1>3. (l + k + 1) * b = l * b + k * b + b
    BY <1>2
  <1> QED BY <1>1, <1>2, <1>3 DEF LongestGap

\* A follower whose leader is heard has a request before its smallest timeout.
LEMMA SilenceIsShort ==
  ASSUME TimerRanges, HeartbeatsArrive, Heard
  PROVE  silence < ElectionTimeoutMin
  <1>4. missed \in 0 .. Tolerated
    BY Constants DEF TimerRanges, Heard
  <1>1. missed * BroadcastTimeout + broadcast <= LongestGap
    BY <1>4, GapCoversMissed, Constants DEF TimerRanges
  <1>2. missed * BroadcastTimeout + broadcast \in Nat
    BY <1>4, GapCoversMissed, Constants DEF TimerRanges
  <1>3. ASSUME NEW m \in flight, silence <= m.age + LongestGap
        PROVE  silence < ElectionTimeoutMin
    <2>1. m.age \in 0 .. Delay
      BY DEF TimerRanges
    <2> QED BY <1>3, <2>1, Constants DEF TimerRanges
  <1> QED BY <1>1, <1>2, <1>3, Constants DEF HeartbeatsArrive, TimerRanges

-----------------------------------------------------------------------------
LEMMA TimerInitial == Init => TimerInv
  <1> SUFFICES ASSUME Init PROVE TimerInv
    OBVIOUS
  <1>1. TimerRanges
    BY Constants DEF Init, TimerRanges, Periods
  <1>2. 0 * BroadcastTimeout = 0
    BY Constants
  <1>3. HeartbeatsArrive
    BY <1>2 DEF Init, HeartbeatsArrive, Heard
  <1>4. FlagTellsSilence
    BY Constants DEF Init, FlagTellsSilence
  <1> QED BY <1>1, <1>3, <1>4 DEF TimerInv

LEMMA BroadcastTimerKeeps == TimerInv /\ BroadcastTimer => TimerInv'
  <1> SUFFICES ASSUME TimerInv, BroadcastTimer PROVE TimerInv'
    OBVIOUS
  <1> DEFINE request(older) == [age |-> 0, older |-> older]
  <1>1. /\ leading /\ broadcast = BroadcastTimeout /\ broadcast' = 0
        /\ leading' = leading /\ state' = state /\ period' = period
        /\ elapsed' = elapsed /\ broadcast_received' = broadcast_received
        /\ silence' = silence
        /\ flight' \in {flight \cup {request(FALSE)}, flight \cup {request(TRUE)}, flight}
    BY DEF BroadcastTimer, Send, followerVars
  <1>2. \/ /\ flight' = flight \cup {request(FALSE)}
           /\ missed' = IF missed > Tolerated THEN missed ELSE 0
        \/ missed' = IF missed > Tolerated THEN missed ELSE missed + 1
    BY DEF BroadcastTimer, Send
  <1> USE DEF TimerInv
  <1>3. TimerRanges'
    <2>1. flight' \subseteq [age : 0 .. Delay, older : BOOLEAN]
      <3>1. \A b \in BOOLEAN : request(b) \in [age : 0 .. Delay, older : BOOLEAN]
        BY Constants
      <3> QED BY <1>1, <3>1 DEF TimerRanges
    <2>2. missed' \in 0 .. Tolerated + 1 /\ broadcast' \in 0 .. BroadcastTimeout
      BY <1>1, <1>2, Constants DEF TimerRanges
    <2> QED BY <1>1, <2>1, <2>2 DEF TimerRanges
  <1>4. FlagTellsSilence'
    BY <1>1 DEF FlagTellsSilence
  <1>5. HeartbeatsArrive'
    <2> SUFFICES ASSUME Heard' PROVE HeartbeatsArrive'
      BY DEF HeartbeatsArrive
    <2>1. Heard /\ missed \in 0 .. Tolerated
      BY <1>1, <1>2, Constants DEF TimerRanges, Heard
    <2>2. CASE silence <= missed * BroadcastTimeout + broadcast
      <3>1. silence <= missed * BroadcastTimeout + BroadcastTimeout
        BY <1>1, <2>2
      <3>2. CASE flight' = flight \cup {request(FALSE)}
        <4>1. silence <= 0 + LongestGap
          BY <2>1, <3>1, GapCoversMissed, Constants DEF TimerRanges
        <4>2. PICK m \in flight' : m.age = 0 /\ m.older = FALSE
          <5>1. request(FALSE) \in flight'
            BY <3>2
          <5> QED BY <5>1
        <4>3. ~m.older /\ silence' <= m.age + LongestGap
          BY <1>1, <4>1, <4>2
        <4> QED BY <1>1, <2>1, <4>3 DEF HeartbeatsArrive
      <3>3. CASE missed' = missed + 1
        <4>1. silence <= (missed + 1) * BroadcastTimeout + 0
          BY <2>1, <3>1, GapCoversMissed, Constants DEF TimerRanges
        <4> QED BY <1>1, <2>1, <3>3, <4>1 DEF HeartbeatsArrive
      <3> QED BY <1>2, <2>1, <3>2, <3>3, Constants
    <2>3. CASE \E m \in flight : ~m.older /\ silence <= m.age + LongestGap
      BY <1>1, <2>1, <2>3 DEF HeartbeatsArrive
    <2> QED BY <2>1, <2>2, <2>3 DEF HeartbeatsArrive
  <1> QED BY <1>3, <1>4, <1>5

LEMMA ReceiveKeeps ==
  ASSUME NEW m \in flight, TimerInv, Receive(m)
  PROVE  TimerInv'
  <1> USE DEF TimerInv, Receive, leaderVars
  <1>1. TimerRanges'
    BY DEF TimerRanges
  <1>2. FlagTellsSilence'
    <2>1. CASE Counts(m)
      <3>1. broadcast_received' /\ silence' = 0 /\ elapsed' = elapsed
        BY <2>1
      <3>2. 0 <= elapsed /\ 0 <= 2 * ElectionTimeoutMax
        BY Constants DEF TimerRanges, Periods
      <3> QED BY <3>1, <3>2 DEF FlagTellsSilence
    <2>2. CASE ~Counts(m)
      BY <2>2 DEF FlagTellsSilence
    <2> QED BY <2>1, <2>2
  <1>3. HeartbeatsArrive'
    <2> SUFFICES ASSUME Heard' PROVE HeartbeatsArrive'
      BY DEF HeartbeatsArrive
    <2>1. Heard /\ state = "Follower" /\ missed \in 0 .. Tolerated
      BY Constants DEF Heard, HeartbeatsArrive, TimerRanges
    <2>2. CASE ~m.older
      <3>1. silence' = 0
        BY <2>1, <2>2 DEF Counts
      <3>2. 0 <= missed * BroadcastTimeout + broadcast
        BY <2>1, GapCoversMissed, Constants DEF TimerRanges
      <3> QED BY <2>1, <3>1, <3>2 DEF HeartbeatsArrive
    <2>3. CASE m.older
      <3>1. silence' = silence
        BY <2>3 DEF Counts
      <3> QED BY <2>1, <2>3, <3>1 DEF HeartbeatsArrive
    <2> QED BY <2>2, <2>3
  <1> QED BY <1>1, <1>2, <1>3

\* The step that matters: if the flag is not set, the silence is as long as the
\* period, so the leader does not run or was not heard for too long.
LEMMA ElectionTimerKeeps == TimerInv /\ ElectionTimerFires => TimerInv'
  <1> SUFFICES ASSUME TimerInv, ElectionTimerFires PROVE TimerInv'
    OBVIOUS
  <1> USE DEF TimerInv, ElectionTimerFires, leaderVars
  <1>1. TimerRanges'
    BY Constants DEF TimerRanges, Periods
  <1>2. FlagTellsSilence'
    BY Constants DEF FlagTellsSilence, TimerRanges, Periods
  <1>3. Heard => broadcast_received
    <2>1. ASSUME Heard, ~broadcast_received PROVE FALSE
      <3>1. silence < ElectionTimeoutMin
        BY <2>1, SilenceIsShort
      <3>2. elapsed <= silence
        BY <2>1 DEF FlagTellsSilence, HeartbeatsArrive
      <3> QED BY <3>1, <3>2, Constants DEF TimerRanges, Periods
    <2> QED BY <2>1
  <1>4. HeartbeatsArrive'
    BY <1>3 DEF HeartbeatsArrive, Heard
  <1> QED BY <1>1, <1>2, <1>4

LEMMA TickKeeps == TimerInv /\ Tick => TimerInv'
  <1> SUFFICES ASSUME TimerInv, Tick PROVE TimerInv'
    OBVIOUS
  <1> USE DEF TimerInv, Tick
  <1> DEFINE Older(m) == [m EXCEPT !.age = @ + 1]
  <1>1. \A m \in flight : /\ m.age \in 0 .. Delay - 1
                           /\ Older(m) \in [age : 0 .. Delay, older : BOOLEAN]
                           /\ Older(m).age = m.age + 1 /\ Older(m).older = m.older
    BY Constants DEF TimerRanges
  <1>2. \A m \in flight : Older(m) \in flight'
    OBVIOUS
  <1>3. TimerRanges'
    <2>1. flight' \subseteq [age : 0 .. Delay, older : BOOLEAN]
      BY <1>1
    <2> QED BY <2>1, Constants DEF TimerRanges, Periods
  <1>4. FlagTellsSilence'
    BY Constants DEF FlagTellsSilence, TimerRanges, Periods
  <1> HIDE DEF Older
  <1>5. HeartbeatsArrive'
    <2> SUFFICES ASSUME Heard' PROVE HeartbeatsArrive'
      BY DEF HeartbeatsArrive
    <2>1. Heard /\ missed \in 0 .. Tolerated
      BY Constants DEF Heard, TimerRanges
    <2>2. silence' <= silence + 1 /\ broadcast' = broadcast + 1
      BY <2>1 DEF TimerRanges, Heard
    <2>3. CASE silence <= missed * BroadcastTimeout + broadcast
      <3>1. silence' <= missed * BroadcastTimeout + broadcast'
        BY <2>1, <2>2, <2>3, GapCoversMissed DEF TimerRanges
      <3> QED BY <2>1, <3>1 DEF HeartbeatsArrive
    <2>4. CASE \E m \in flight : ~m.older /\ silence <= m.age + LongestGap
      <3>1. PICK m \in flight : ~m.older /\ silence <= m.age + LongestGap
        BY <2>4
      <3>2. silence' <= m.age + 1 + LongestGap
        BY <1>1, <2>2, <3>1, Constants DEF TimerRanges
      <3> QED BY <1>1, <1>2, <2>1, <3>1, <3>2 DEF HeartbeatsArrive
    <2> QED BY <2>1, <2>3, <2>4 DEF HeartbeatsArrive
  <1> QED BY <1>3, <1>4, <1>5

LEMMA LeadersKeep == TimerInv /\ (LeaderStops \/ NewLeader) => TimerInv'
  <1> SUFFICES ASSUME TimerInv, LeaderStops \/ NewLeader PROVE TimerInv'
    OBVIOUS
  <1>1. CASE LeaderStops
    <2> USE <1>1 DEF TimerInv, LeaderStops, followerVars
    <2>1. TimerRanges'
      BY Constants DEF TimerRanges
    <2> QED BY <2>1 DEF HeartbeatsArrive, Heard, FlagTellsSilence
  <1>2. CASE NewLeader
    <2> USE <1>2 DEF TimerInv, NewLeader
    <2>1. TimerRanges'
      <3>1. flight' \subseteq [age : 0 .. Delay, older : BOOLEAN]
        BY DEF TimerRanges
      <3> QED BY <3>1, Constants DEF TimerRanges, Periods
    <2>2. 0 * BroadcastTimeout = 0
      BY Constants
    <2> QED BY <2>1, <2>2, Constants DEF HeartbeatsArrive, FlagTellsSilence
  <1> QED BY <1>1, <1>2

LEMMA TimerInvariant == Spec => []TimerInv
  <1>1. TimerInv /\ [Next]_vars => TimerInv'
    <2> SUFFICES ASSUME TimerInv, [Next]_vars PROVE TimerInv'
      OBVIOUS
    <2>1. CASE UNCHANGED vars
      BY <2>1 DEF TimerInv, TimerRanges, HeartbeatsArrive, Heard, FlagTellsSilence, vars,
                  leaderVars, followerVars
    <2> QED
      BY <2>1, BroadcastTimerKeeps, ReceiveKeeps, ElectionTimerKeeps, TickKeeps,
         LeadersKeep DEF Next
  <1> QED BY <1>1, TimerInitial, PTL DEF Spec

-----------------------------------------------------------------------------
\* A follower stands for election while its leader runs only after more than
\* Tolerated broadcasts in a row that were lost or had the term of an older
\* entry, whatever period start_election_timer draws.
THEOREM LeaderIsKept == Spec => []NoNeedlessElection
  <1>1. TimerInv => NoNeedlessElection
    BY DEF TimerInv, HeartbeatsArrive, Heard, NoNeedlessElection
  <1> QED BY <1>1, TimerInvariant, PTL

\* A follower stands for election within two of the largest timeouts after the
\* last request that counted, however many outdated ones arrive.
THEOREM FailureIsNoticed == Spec => []FailureIsDetected
  <1>1. TimerInv => FailureIsDetected
    BY DEF TimerInv, FlagTellsSilence, FailureIsDetected
  <1> QED BY <1>1, TimerInvariant, PTL
=============================================================================
