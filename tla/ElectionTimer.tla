--------------------------- MODULE ElectionTimer ---------------------------
(***************************************************************************)
(* The two timers of Context in time: a leader broadcasts every tenth of   *)
(* the smallest election timeout, and a follower has an election timer     *)
(* with a random period that no request restarts.  A request only sets     *)
(* broadcast_received_, for which the timer skips one period, and only if  *)
(* its term is not below the term of the follower: a request with an entry *)
(* has the term of the entry, which may be older than its leader.          *)
(*                                                                         *)
(* One follower and the leader it hears.  Any requests may be lost, or     *)
(* carry entries of older terms; the others are late by at most Delay.     *)
(* Timers are on time.                                                     *)
(***************************************************************************)
EXTENDS Naturals

CONSTANTS
  ElectionTimeoutMin, ElectionTimeoutMax,  \* ClusterNodeOptions, in ticks
  Delay,      \* how late a request may be
  Tolerated   \* broadcasts in a row that a follower can do without

\* What start_election_timer draws a period from.
Periods == ElectionTimeoutMin .. ElectionTimeoutMax

\* broadcast_timeout_: an integer division.
BroadcastTimeout == ElectionTimeoutMin \div 10

(***************************************************************************)
(* uniform_int_distribution needs min <= max, and a timeout below 10 gives *)
(* a broadcast timer without a period: the options check neither.  The     *)
(* rest says what a follower tolerates: so many broadcasts in a row, and   *)
(* the delay of the next one, fit into the smallest timeout.               *)
(***************************************************************************)
ASSUME TimerConstants ==
  /\ {ElectionTimeoutMin, ElectionTimeoutMax, Delay, Tolerated} \subseteq Nat
  /\ ElectionTimeoutMin <= ElectionTimeoutMax /\ ElectionTimeoutMin >= 10
  /\ (ElectionTimeoutMin \div 10) * (Tolerated + 1) + Delay < ElectionTimeoutMin

VARIABLES
  leading,    \* the leader runs
  broadcast,  \* ticks since its broadcast timer fired
  missed,     \* history: broadcasts in a row that were lost or had an older
              \* term; it stays above Tolerated once it got there
  flight,     \* the requests on their way: age, and whether their term is
              \* older than the term of the follower
  state,      \* raft state of the follower: "Follower" or "Candidate"
  period,     \* of its election timer
  elapsed,    \* ticks since that timer was started or fired
  broadcast_received,
  silence     \* history: ticks since a request counted or it became follower

leaderVars == <<leading, broadcast, missed>>
followerVars == <<state, period, elapsed, broadcast_received, silence>>
vars == <<leaderVars, flight, followerVars>>

\* OtherNode::broadcast sends a request, with the term of the leader or older.
Send(older) == flight' = flight \cup {[age |-> 0, older |-> older]}

(***************************************************************************)
(* The broadcast timer fires.  A heartbeat, or an entry of the term of the *)
(* leader, counts as a sign of life.  A request that repairs the log of    *)
(* the follower with an entry of an older term does not, nor one that is   *)
(* lost; a follower may lack any number of such entries.                   *)
(***************************************************************************)
BroadcastTimer ==
  /\ leading /\ broadcast = BroadcastTimeout
  /\ broadcast' = 0
  /\ \/ Send(FALSE) /\ missed' = IF missed > Tolerated THEN missed ELSE 0
     \/ /\ Send(TRUE) \/ UNCHANGED flight
        /\ missed' = IF missed > Tolerated THEN missed ELSE missed + 1
  /\ UNCHANGED <<leading, followerVars>>

\* The leader ends, or hears of a newer term.
LeaderStops ==
  /\ leading /\ leading' = FALSE
  /\ broadcast' = 0 /\ missed' = 0
  /\ UNCHANGED <<flight, followerVars>>

\* The check of the term: a candidate has increased its own, so that all
\* requests of the leader it gave up are outdated.
Counts(m) == state = "Follower" /\ ~m.older

\* Mutant of Receive: every request counts, whatever its term is.
ReceiveAnyTerm(m) ==
  /\ flight' = flight \ {m}
  /\ broadcast_received' = TRUE
  /\ silence' = IF Counts(m) THEN 0 ELSE silence
  /\ UNCHANGED <<leaderVars, state, period, elapsed>>

\* A request arrives: on_append_entries_requested, up to its entry.
Receive(m) ==
  /\ flight' = flight \ {m}
  /\ broadcast_received' = (broadcast_received \/ Counts(m))
  /\ silence' = IF Counts(m) THEN 0 ELSE silence
  /\ UNCHANGED <<leaderVars, state, period, elapsed>>

\* Another node wins: LeaderDiscovered, and Follower::entry starts the timer.
\* What is still on its way is of an older term.
NewLeader ==
  /\ state = "Candidate" /\ ~leading
  /\ leading' = TRUE /\ broadcast' = 0 /\ missed' = 0
  /\ flight' = {[m EXCEPT !.older = TRUE] : m \in flight}
  /\ state' = "Follower"
  /\ period' \in Periods
  /\ elapsed' = 0 /\ broadcast_received' = TRUE /\ silence' = 0

\* Mutant of ElectionTimerFires: broadcast_received_ is not reset.
ElectionTimerKeepsFlag ==
  /\ elapsed = period
  /\ elapsed' = 0
  /\ IF broadcast_received THEN UNCHANGED <<state, period>>
     ELSE /\ state' = "Candidate"
          /\ period' \in Periods
  /\ UNCHANGED <<leaderVars, flight, broadcast_received, silence>>

\* Mutant of ElectionTimerFires: broadcast_received_ is not looked at.
ElectionTimerNoFlag ==
  /\ elapsed = period
  /\ elapsed' = 0
  /\ state' = "Candidate"
  /\ period' \in Periods
  /\ UNCHANGED <<leaderVars, flight, broadcast_received, silence>>

\* The election timer fires; start_election restarts it with a new period.
ElectionTimerFires ==
  /\ elapsed = period
  /\ elapsed' = 0
  /\ IF broadcast_received
     THEN broadcast_received' = FALSE /\ UNCHANGED <<state, period>>
     ELSE /\ state' = "Candidate"
          /\ period' \in Periods
          /\ UNCHANGED broadcast_received
  /\ UNCHANGED <<leaderVars, flight, silence>>

\* Time passes when nothing is due.
Tick ==
  /\ elapsed < period /\ (leading => broadcast < BroadcastTimeout)
  /\ \A m \in flight : m.age < Delay
  /\ broadcast' = IF leading THEN broadcast + 1 ELSE 0
  /\ flight' = {[m EXCEPT !.age = @ + 1] : m \in flight}
  /\ elapsed' = elapsed + 1
  /\ silence' = IF state = "Follower" /\ silence <= 2 * ElectionTimeoutMax
                THEN silence + 1 ELSE silence
  /\ UNCHANGED <<leading, missed, state, period, broadcast_received>>

\* The leader was just elected; Follower::entry has started the timer.
Init ==
  /\ leading = TRUE /\ broadcast = 0 /\ missed = 0 /\ flight = {}
  /\ state = "Follower" /\ broadcast_received = FALSE
  /\ period \in Periods
  /\ elapsed = 0 /\ silence = 0

Next ==
  \/ BroadcastTimer \/ LeaderStops \/ NewLeader \/ ElectionTimerFires \/ Tick
  \/ \E m \in flight : Receive(m)

\* Time passes and what is due happens.
Fairness ==
  /\ WF_vars(Tick) /\ WF_vars(BroadcastTimer) /\ WF_vars(ElectionTimerFires)
  /\ WF_vars(\E m \in flight : Receive(m))

Spec == Init /\ [][Next]_vars /\ Fairness

-----------------------------------------------------------------------------
(***************************************************************************)
(* A follower stands for election while its leader runs only if more than  *)
(* Tolerated broadcasts in a row were lost or carried entries of older     *)
(* terms, whatever its random period is and however the requests fall      *)
(* between the firings of the timer that they do not restart.              *)
(***************************************************************************)
NoNeedlessElection == leading /\ missed <= Tolerated => state = "Follower"

(***************************************************************************)
(* A follower stands for election within two of the largest timeouts after *)
(* the last request that counted, however many outdated ones still arrive: *)
(* one period may be skipped for a request that came right after the timer *)
(* had fired.                                                              *)
(***************************************************************************)
FailureIsDetected == silence <= 2 * ElectionTimeoutMax

\* Whenever the leader is gone, the follower sooner or later is a candidate.
FailureLeadsToElection == ~leading ~> state = "Candidate"
=============================================================================
