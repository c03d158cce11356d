-------------------------- MODULE ClusterNodeProofs --------------------------
(***************************************************************************)
(* What the threads of a node keep, for any commands, any number of        *)
(* calling threads, any messages of the other nodes, stores that fail and  *)
(* callbacks that commit: the lifecycle and the timers follow the raft     *)
(* state, and no promise is set twice.                                     *)
(*                                                                         *)
(* The argument follows the executor.  A transition is a fixed sequence of *)
(* steps, so what it still has to do tells how far it is, and for every    *)
(* such phase it is stated which of raft state, lifecycle, callbacks and   *)
(* timers already agree.                                                   *)
(***************************************************************************)
EXTENDS ClusterNode, SequenceTheorems, TLAPS

\* The states that a transition leads to: nothing raises Terminated.
Raised == {"Follower", "Candidate", "Leader"}

\* The lifecycle state that follows a raft state.
LifecycleOf(s) == CASE s = "Standby" -> "Inactive"
                    [] s \in {"Follower", "Candidate"} -> "Standby"
                    [] s = "Leader" -> "Active"

\* s is a sequence, of whatever it contains.
IsList(s) == s \in Seq({s[i] : i \in 1 .. Len(s)})

\* A step that is not part of a transition or of a completed commit.
Plain(item) ==
  \/ item[1] = "handle" /\ item[2] \in RaftMachine!Event \ {"Terminated"}
  \/ item[1] \in {"start_election", "broadcast", "set_term", "revert", "rollback",
                  "push", "answer", "append"}

\* From k on, only such steps are left.
PlainFrom(w, k) == \A i \in k .. Len(w) : Plain(w[i])

\* Nothing is under way in the two state machines.
Settled ==
  /\ raft \in Raised /\ lifecycle = LifecycleOf(raft)
  /\ registered => told = lifecycle
  /\ broadcast_timer <=> raft = "Leader"
  /\ election_timer

\* The constructor has still to raise Started.
Starting ==
  /\ work = <<<<"handle", "Started">>>> /\ raft = "Standby"
  /\ lifecycle = "Inactive" /\ (registered => told = lifecycle)
  /\ ~broadcast_timer

Resting == Settled /\ PlainFrom(work, 1)

\* A commit is completed, answered, or the application is called.
Calling ==
  /\ Settled
  /\ Len(work) >= 1 /\ work[1][1] \in {"commit", "respond", "callback"}
  /\ PlainFrom(work, 2)

Completing ==
  /\ Settled
  /\ Len(work) >= 2 /\ work[1][1] = "callback" /\ work[2][1] = "respond"
  /\ PlainFrom(work, 3)

\* The old state has been left, or is about to be, for s.
Leaving(s) ==
  /\ Len(work) >= 4 /\ work[1][1] \in {"exit", "cancel", "respond", "callback"}
  /\ work[2] = <<"enter", s>> /\ work[3] = <<"notify", s>> /\ work[4] = <<"entry", s>>
  /\ PlainFrom(work, 5)
  /\ lifecycle \in Lifecycle!StateType /\ (registered => told = lifecycle)
  /\ broadcast_timer => work[1][1] = "exit" /\ raft = "Leader"
  /\ election_timer \/ s = "Follower"

Entering(s) ==
  /\ Len(work) >= 3
  /\ work[1] = <<"enter", s>> /\ work[2] = <<"notify", s>> /\ work[3] = <<"entry", s>>
  /\ PlainFrom(work, 4)
  /\ lifecycle \in Lifecycle!StateType /\ (registered => told = lifecycle)
  /\ ~broadcast_timer
  /\ election_timer \/ s = "Follower"

\* s is current; the lifecycle does not know.
Notifying(s) ==
  /\ Len(work) >= 2 /\ work[1] = <<"notify", s>> /\ work[2] = <<"entry", s>>
  /\ PlainFrom(work, 3)
  /\ raft = s
  /\ lifecycle \in Lifecycle!StateType /\ (registered => told = lifecycle)
  /\ ~broadcast_timer
  /\ election_timer \/ s = "Follower"

\* The lifecycle knows, and the application is being told.
Telling(s) ==
  /\ Len(work) >= 2 /\ work[1][1] \in {"tell", "callback"} /\ work[2] = <<"entry", s>>
  /\ PlainFrom(work, 3)
  /\ raft = s /\ lifecycle = LifecycleOf(s)
  /\ IF work[1][1] = "tell" THEN work[1][2] = lifecycle
     ELSE registered => told = lifecycle
  /\ ~broadcast_timer
  /\ election_timer \/ s = "Follower"

\* Everybody knows; the timers are set next.
Arming(s) ==
  /\ Len(work) >= 1 /\ work[1] = <<"entry", s>>
  /\ PlainFrom(work, 2)
  /\ raft = s /\ lifecycle = LifecycleOf(s)
  /\ registered => told = lifecycle
  /\ ~broadcast_timer
  /\ election_timer \/ s = "Follower"

InTransition ==
  \E s \in Raised :
    Leaving(s) \/ Entering(s) \/ Notifying(s) \/ Telling(s) \/ Arming(s)

PhaseInv ==
  /\ IsList(work)
  /\ Starting \/ Resting \/ Calling \/ Completing \/ InTransition

-----------------------------------------------------------------------------
(* Commands and who answers them                                            *)

\* The thread t has a call for c under way.
Calls(t, c) == call[t] # Idle /\ call[t].command = c

\* c is the pending commit.
Pends(c) == pending # None /\ pending.command = c

\* The executor is going to answer c, in the step item or in some step.
OwesIn(item, c) ==
  \/ item[1] = "respond" /\ item[2] = c
  \/ item[1] = "commit" /\ item[2].command = c

Owes(c) == \E i \in 1 .. Len(work) : OwesIn(work[i], c)

\* A call has its fields.
CallShape(r) ==
  \/ r = Idle
  \/ /\ r = [pc |-> r.pc, command |-> r.command, id |-> r.id, term |-> r.term]
     /\ r.pc \in {"read", "set"}

\* The promise of c is with one holder at most, and with none once it is set.
OneHolder(c) ==
  /\ \A t, u \in Thread : Calls(t, c) /\ Calls(u, c) => t = u
  /\ \A t \in Thread : Calls(t, c) => ~Pends(c) /\ ~Owes(c) /\ promise[c] = <<>>
  /\ Pends(c) => ~Owes(c) /\ promise[c] = <<>>
  /\ Owes(c) => promise[c] = <<>>
  /\ c \notin submitted => /\ \A t \in Thread : ~Calls(t, c)
                           /\ ~Pends(c) /\ ~Owes(c) /\ promise[c] = <<>>
  /\ Len(promise[c]) <= 1

HolderInv ==
  /\ call = [t \in Thread |-> call[t]] /\ \A t \in Thread : CallShape(call[t])
  /\ promise = [c \in Command |-> promise[c]]
  /\ \A c \in Command : OneHolder(c)

-----------------------------------------------------------------------------
(* Sequences                                                                *)

LEMMA ListOf ==
  ASSUME NEW S, NEW s \in Seq(S)
  PROVE  IsList(s) /\ Len(s) \in Nat /\ DOMAIN s = 1 .. Len(s)
  <1>1. Len(s) \in Nat /\ DOMAIN s = 1 .. Len(s)
    OBVIOUS
  <1> QED BY <1>1 DEF IsList

\* What Then(steps) makes of work.
LEMMA ThenList ==
  ASSUME IsList(work), work # <<>>, NEW steps, IsList(steps), Then(steps)
  PROVE  /\ IsList(work') /\ Len(work) \in Nat \ {0} /\ Len(work') \in Nat
         /\ Len(work') = Len(steps) + Len(work) - 1
         /\ \A i \in 1 .. Len(steps) : work'[i] = steps[i]
         /\ \A i \in Len(steps) + 1 .. Len(work') : work'[i] = work[i - Len(steps) + 1]
  <1> DEFINE S == {work[i] : i \in 1 .. Len(work)} \cup {steps[i] : i \in 1 .. Len(steps)}
  <1>1. work \in Seq(S) /\ steps \in Seq(S)
    BY DEF IsList
  <1> HIDE DEF S
  <1>2. Tail(work) \in Seq(S) /\ Len(Tail(work)) = Len(work) - 1 /\ Len(work) \in Nat \ {0}
    BY <1>1
  <1>3. work' = steps \o Tail(work) /\ work' \in Seq(S)
    BY <1>1, <1>2 DEF Then
  <1>4. /\ Len(work') = Len(steps) + Len(work) - 1
        /\ \A i \in 1 .. Len(steps) : work'[i] = steps[i]
    BY <1>1, <1>2, <1>3
  <1>5. ASSUME NEW i \in Len(steps) + 1 .. Len(work')
        PROVE  work'[i] = work[i - Len(steps) + 1]
    <2>1. work'[i] = Tail(work)[i - Len(steps)]
      BY <1>1, <1>2, <1>3, <1>4
    <2>2. i - Len(steps) \in 1 .. Len(work) - 1
      BY <1>1, <1>2, <1>4
    <2> QED BY <1>1, <2>1, <2>2
  <1> QED BY <1>2, <1>3, <1>4, <1>5, ListOf

\* The item is done, without more.
LEMMA ThenNothing ==
  ASSUME IsList(work), work # <<>>, Then(<<>>)
  PROVE  /\ IsList(work') /\ Len(work) \in Nat \ {0} /\ Len(work') = Len(work) - 1
         /\ \A i \in 1 .. Len(work') : work'[i] = work[i + 1]
  <1>1. IsList(<<>>) /\ Len(<<>>) = 0
    BY DEF IsList
  <1> QED BY <1>1, ThenList

\* Another item takes its place.
LEMMA ThenOne ==
  ASSUME IsList(work), work # <<>>, NEW a, Then(<<a>>)
  PROVE  /\ IsList(work') /\ Len(work) \in Nat \ {0} /\ Len(work') = Len(work)
         /\ work'[1] = a
         /\ \A i \in 2 .. Len(work') : work'[i] = work[i]
  <1> DEFINE s == <<a>>
  <1>1. s \in Seq({a}) /\ Len(s) = 1 /\ s[1] = a
    OBVIOUS
  <1>2. IsList(s)
    BY <1>1, ListOf
  <1> HIDE DEF s
  <1>3. /\ IsList(work') /\ Len(work) \in Nat \ {0}
        /\ Len(work') = Len(s) + Len(work) - 1
        /\ \A i \in 1 .. Len(s) : work'[i] = s[i]
        /\ \A i \in Len(s) + 1 .. Len(work') : work'[i] = work[i - Len(s) + 1]
    BY <1>2, ThenList DEF s
  <1> QED BY <1>1, <1>3

LEMMA ThenTwo ==
  ASSUME IsList(work), work # <<>>, NEW a, NEW b, Then(<<a, b>>)
  PROVE  /\ IsList(work') /\ Len(work) \in Nat \ {0} /\ Len(work') = Len(work) + 1
         /\ work'[1] = a /\ work'[2] = b
         /\ \A i \in 3 .. Len(work') : work'[i] = work[i - 1]
  <1> DEFINE s == <<a, b>>
  <1>1. s \in Seq({a, b}) /\ Len(s) = 2 /\ s[1] = a /\ s[2] = b
    OBVIOUS
  <1>2. IsList(s)
    BY <1>1, ListOf
  <1> HIDE DEF s
  <1>3. /\ IsList(work') /\ Len(work) \in Nat \ {0}
        /\ Len(work') = Len(s) + Len(work) - 1
        /\ \A i \in 1 .. Len(s) : work'[i] = s[i]
        /\ \A i \in Len(s) + 1 .. Len(work') : work'[i] = work[i - Len(s) + 1]
    BY <1>2, ThenList DEF s
  <1> QED BY <1>1, <1>3

LEMMA ThenFour ==
  ASSUME IsList(work), work # <<>>, NEW a, NEW b, NEW c, NEW d, Then(<<a, b, c, d>>)
  PROVE  /\ IsList(work') /\ Len(work) \in Nat \ {0} /\ Len(work') = Len(work) + 3
         /\ work'[1] = a /\ work'[2] = b /\ work'[3] = c /\ work'[4] = d
         /\ \A i \in 5 .. Len(work') : work'[i] = work[i - 3]
  <1> DEFINE s == <<a, b, c, d>>
  <1>1. s \in Seq({a, b, c, d}) /\ Len(s) = 4 /\ s[1] = a /\ s[2] = b /\ s[3] = c /\ s[4] = d
    OBVIOUS
  <1>2. IsList(s)
    BY <1>1, ListOf
  <1> HIDE DEF s
  <1>3. /\ IsList(work') /\ Len(work) \in Nat \ {0}
        /\ Len(work') = Len(s) + Len(work) - 1
        /\ \A i \in 1 .. Len(s) : work'[i] = s[i]
        /\ \A i \in Len(s) + 1 .. Len(work') : work'[i] = work[i - Len(s) + 1]
    BY <1>2, ThenList DEF s
  <1> QED BY <1>1, <1>3

LEMMA PairOf ==
  ASSUME NEW a, NEW b
  PROVE  <<a>> \o <<b>> = <<a, b>>
  <1> DEFINE u == <<a>>
             v == <<b>>
             w == <<a, b>>
  <1>1. u \in Seq({a, b}) /\ Len(u) = 1 /\ u[1] = a
    OBVIOUS
  <1>2. v \in Seq({a, b}) /\ Len(v) = 1 /\ v[1] = b
    OBVIOUS
  <1>3. w \in Seq({a, b}) /\ Len(w) = 2 /\ w[1] = a /\ w[2] = b
    OBVIOUS
  <1> HIDE DEF u, v, w
  <1>4. /\ u \o v \in Seq({a, b}) /\ Len(u \o v) = Len(u) + Len(v)
        /\ \A i \in 1 .. Len(u) + Len(v) :
             (u \o v)[i] = IF i <= Len(u) THEN u[i] ELSE v[i - Len(u)]
    BY <1>1, <1>2, ConcatProperties
  <1>5. (u \o v)[1] = a /\ (u \o v)[2] = b
    BY <1>1, <1>2, <1>4
  <1>6. Len(u \o v) = 2 /\ \A i \in 1 .. 2 : (u \o v)[i] = w[i]
    BY <1>1, <1>2, <1>3, <1>4, <1>5
  <1>7. u \o v = w
    BY <1>3, <1>4, <1>6, SeqEqual
  <1> QED BY <1>7 DEF u, v, w

\* Plain steps one after the other.
PlainList(s) == IsList(s) /\ PlainFrom(s, 1)

LEMMA PlainNone == PlainList(<<>>)
  BY DEF PlainList, PlainFrom, IsList

LEMMA PlainOne ==
  ASSUME NEW a, Plain(a)
  PROVE  PlainList(<<a>>)
  <1> DEFINE s == <<a>>
  <1>1. s \in Seq({a}) /\ Len(s) = 1 /\ s[1] = a
    OBVIOUS
  <1>2. IsList(s)
    BY <1>1, ListOf
  <1> HIDE DEF s
  <1>3. PlainList(s)
    BY <1>1, <1>2 DEF PlainList, PlainFrom
  <1> QED BY <1>3 DEF s

LEMMA PlainConcat ==
  ASSUME NEW s, NEW w, PlainList(s), PlainList(w)
  PROVE  PlainList(s \o w)
  <1> DEFINE S == {s[i] : i \in 1 .. Len(s)} \cup {w[i] : i \in 1 .. Len(w)}
  <1>1. s \in Seq(S) /\ w \in Seq(S)
    BY DEF PlainList, IsList
  <1> HIDE DEF S
  <1>2. /\ s \o w \in Seq(S) /\ Len(s \o w) = Len(s) + Len(w)
        /\ \A i \in 1 .. Len(s) + Len(w) :
             (s \o w)[i] = IF i <= Len(s) THEN s[i] ELSE w[i - Len(s)]
    BY <1>1
  <1>3. ASSUME NEW i \in 1 .. Len(s) + Len(w) PROVE Plain((s \o w)[i])
    <2>1. Len(s) \in Nat /\ Len(w) \in Nat
      BY <1>1
    <2>2. CASE i <= Len(s)
      BY <1>2, <2>1, <2>2 DEF PlainList, PlainFrom
    <2>3. CASE i > Len(s)
      <3>1. i - Len(s) \in 1 .. Len(w)
        BY <2>1, <2>3
      <3>2. (s \o w)[i] = w[i - Len(s)]
        BY <1>2, <2>1, <2>3
      <3> QED BY <3>1, <3>2 DEF PlainList, PlainFrom
    <2> QED BY <2>1, <2>2, <2>3
  <1> QED BY <1>2, <1>3, ListOf DEF PlainList, PlainFrom

\* The head of work, in terms of its first item.
LEMMA DoingFirst ==
  ASSUME IsList(work), NEW op, Doing(op)
  PROVE  /\ work # <<>> /\ Len(work) \in Nat \ {0} /\ Head(work) = work[1]
         /\ work[1][1] = op /\ call[Executor] = Idle
  BY DEF Doing, IsList

-----------------------------------------------------------------------------
(* The two state machines                                                   *)

LEMMA HandleRaised ==
  ASSUME NEW s \in Raised, NEW e \in RaftMachine!Event \ {"Terminated"}
  PROVE  RaftMachine!handle(s, e) \in Raised
  <1> DEFINE next == {t \in RaftMachine!StateType : <<s, e, t>> \in RaftMachine!Transitions}
  <1>1. \A t \in next : t \in Raised
    BY DEF RaftMachine!StateType, RaftMachine!Transitions, RaftMachine!StandbyTransitions,
           RaftMachine!FollowerTransitions, RaftMachine!CandidateTransitions,
           RaftMachine!LeaderTransitions, Raised
  <1>2. next # {} => (CHOOSE t \in next : TRUE) \in next
    OBVIOUS
  <1> QED BY <1>1, <1>2 DEF RaftMachine!handle

LEMMA HandleStarted == RaftMachine!handle("Standby", "Started") = "Follower"
  <1> DEFINE next == {t \in RaftMachine!StateType :
                        <<"Standby", "Started", t>> \in RaftMachine!Transitions}
  <1>1. next = {"Follower"}
    BY DEF RaftMachine!StateType, RaftMachine!Transitions, RaftMachine!StandbyTransitions,
           RaftMachine!FollowerTransitions, RaftMachine!CandidateTransitions,
           RaftMachine!LeaderTransitions
  <1>2. (CHOOSE t \in next : TRUE) = "Follower"
    BY <1>1
  <1> QED BY <1>1, <1>2 DEF RaftMachine!handle

\* Whatever the lifecycle was before, it follows.
LEMMA LifecycleFollows ==
  ASSUME NEW l \in Lifecycle!StateType, NEW s \in Raised
  PROVE  /\ Lifecycle!handle(l, Lifecycle!EventOf(s)) = LifecycleOf(s)
         /\ LifecycleOf(s) \in Lifecycle!StateType
  <1> DEFINE e == Lifecycle!EventOf(s)
             next == {t \in Lifecycle!StateType : <<l, e, t>> \in Lifecycle!Transitions}
  <1>1. /\ s # "Leader" => e = "Standby" /\ LifecycleOf(s) = "Standby"
        /\ s = "Leader" => e = "Activate" /\ LifecycleOf(s) = "Active"
    BY DEF Raised, Lifecycle!EventOf, LifecycleOf
  <1> HIDE DEF e
  <1>2. next = IF l = LifecycleOf(s) THEN {} ELSE {LifecycleOf(s)}
    <2>1. CASE s = "Leader"
      BY <1>1, <2>1
      DEF Lifecycle!StateType, Lifecycle!Transitions, Lifecycle!InactiveTransitions,
          Lifecycle!StandbyTransitions, Lifecycle!ActiveTransitions
    <2>2. CASE s # "Leader"
      BY <1>1, <2>2
      DEF Lifecycle!StateType, Lifecycle!Transitions, Lifecycle!InactiveTransitions,
          Lifecycle!StandbyTransitions, Lifecycle!ActiveTransitions
    <2> QED BY <2>1, <2>2
  <1>3. Lifecycle!handle(l, e) = IF next = {} THEN l ELSE CHOOSE t \in next : TRUE
    BY DEF Lifecycle!handle
  <1>4. LifecycleOf(s) \in Lifecycle!StateType
    BY <1>1 DEF Lifecycle!StateType
  <1> HIDE DEF next
  <1>5. CASE l = LifecycleOf(s)
    BY <1>2, <1>3, <1>4, <1>5 DEF e
  <1>6. CASE l # LifecycleOf(s)
    <2>1. (CHOOSE t \in next : TRUE) = LifecycleOf(s)
      BY <1>2, <1>6
    <2> QED BY <1>2, <1>3, <1>4, <1>6, <2>1 DEF e
  <1> QED BY <1>5, <1>6

-----------------------------------------------------------------------------
(* The phases                                                               *)

\* Where a plain step comes first, nothing is under way.
LEMMA PlainHead ==
  ASSUME PhaseInv, work # <<>>, Len(work) \in Nat \ {0}, Plain(work[1])
  PROVE  Starting \/ (Settled /\ PlainFrom(work, 2))
  BY DEF PhaseInv, Resting, Calling, Completing, InTransition, Leaving, Entering,
         Notifying, Telling, Arming, Plain, PlainFrom

\* A handler goes on with plain steps.
LEMMA GoesOn ==
  ASSUME IsList(work), work # <<>>, PlainFrom(work, 2), Settled',
         NEW steps, PlainList(steps), Then(steps)
  PROVE  PhaseInv'
  <1>1. /\ IsList(work') /\ Len(work) \in Nat \ {0} /\ Len(work') \in Nat
        /\ Len(work') = Len(steps) + Len(work) - 1
        /\ \A i \in 1 .. Len(steps) : work'[i] = steps[i]
        /\ \A i \in Len(steps) + 1 .. Len(work') : work'[i] = work[i - Len(steps) + 1]
    BY ThenList DEF PlainList
  <1>2. Len(steps) \in Nat
    BY DEF PlainList, IsList
  <1>3. ASSUME NEW i \in 1 .. Len(work') PROVE Plain(work'[i])
    <2>1. CASE i <= Len(steps)
      BY <1>1, <1>2, <2>1 DEF PlainList, PlainFrom
    <2>2. CASE i > Len(steps)
      <3>1. i - Len(steps) + 1 \in 2 .. Len(work)
        BY <1>1, <1>2, <2>2
      <3>2. work'[i] = work[i - Len(steps) + 1]
        BY <1>1, <1>2, <2>2
      <3> QED BY <3>1, <3>2 DEF PlainFrom
    <2> QED BY <1>1, <1>2, <2>1, <2>2
  <1>4. PlainFrom(work', 1)
    BY <1>3 DEF PlainFrom
  <1> QED BY <1>1, <1>4 DEF PhaseInv, Resting, PlainFrom, Plain, IsList

\* A handler goes on with a call.
LEMMA GoesCalling ==
  ASSUME IsList(work), work # <<>>, PlainFrom(work, 2), Settled',
         NEW a, a[1] \in {"commit", "respond", "callback"}, Then(<<a>>)
  PROVE  PhaseInv'
  <1>1. /\ IsList(work') /\ Len(work) \in Nat \ {0} /\ Len(work') = Len(work)
        /\ work'[1] = a
        /\ \A i \in 2 .. Len(work') : work'[i] = work[i]
    BY ThenOne
  <1>2. Calling'
    BY <1>1 DEF Calling, PlainFrom, Plain
  <1> QED BY <1>1, <1>2 DEF PhaseInv, IsList

LEMMA CallbackSteps == Callback = <<>> \/ Callback = <<<<"callback">>>>
  BY DEF Callback

LEMMA GoesCallback ==
  ASSUME IsList(work), work # <<>>, PlainFrom(work, 2), Settled', Then(Callback)
  PROVE  PhaseInv'
  <1>1. CASE Callback = <<>>
    BY <1>1, GoesOn, PlainNone
  <1>2. CASE Callback = <<<<"callback">>>>
    <2>1. <<"callback">>[1] \in {"commit", "respond", "callback"}
      OBVIOUS
    <2> QED BY <1>2, <2>1, GoesCalling
  <1> QED BY <1>1, <1>2, CallbackSteps

\* What Settled is about, when a step leaves it alone.
LEMMA StaysSettled ==
  ASSUME Settled, UNCHANGED <<raft, election_timer, broadcast_timer, lifecycle,
                              registered, told>>
  PROVE  Settled'
  BY DEF Settled

LEMMA HandlePhase ==
  ASSUME PhaseInv, HandleEvent
  PROVE  PhaseInv'
  <1>0. PICK e, s : e = work[1][2] /\ s = RaftMachine!handle(raft, e)
    OBVIOUS
  <1>1. /\ IsList(work) /\ work # <<>> /\ Len(work) \in Nat \ {0}
        /\ work[1][1] = "handle" /\ Head(work) = work[1]
    BY DoingFirst DEF PhaseInv, HandleEvent
  <1>2. Then(IF s = raft THEN OnEvent(raft, e) ELSE Transition(s))
    BY <1>0, <1>1 DEF HandleEvent
  <1>3. UNCHANGED <<raft, election_timer, broadcast_timer, lifecycle, registered, told>>
    BY DEF HandleEvent, raftVars, lifeVars
  <1>4. \/ Starting
        \/ Settled /\ PlainFrom(work, 1)
    BY <1>1 DEF PhaseInv, Resting, Calling, Completing, InTransition, Leaving, Entering,
         Notifying, Telling, Arming
  <1>5. ASSUME s \in Raised, s # raft, PlainFrom(work, 2),
               lifecycle \in Lifecycle!StateType, registered => told = lifecycle,
               broadcast_timer => raft = "Leader", election_timer \/ s = "Follower"
        PROVE  PhaseInv'
    <2>1. Then(<<<<"exit">>, <<"enter", s>>, <<"notify", s>>, <<"entry", s>>>>)
      BY <1>2, <1>5 DEF Transition
    <2>2. /\ IsList(work') /\ Len(work') = Len(work) + 3
          /\ work'[1] = <<"exit">> /\ work'[2] = <<"enter", s>>
          /\ work'[3] = <<"notify", s>> /\ work'[4] = <<"entry", s>>
          /\ \A i \in 5 .. Len(work') : work'[i] = work[i - 3]
      BY <1>1, <2>1, ThenFour
    <2>3. PlainFrom(work', 5)
      BY <1>1, <1>5, <2>2 DEF PlainFrom
    <2>4. work'[1][1] = "exit"
      BY <2>2
    <2>5. Leaving(s)'
      BY <1>1, <1>3, <1>5, <2>2, <2>3, <2>4 DEF Leaving, PlainFrom, Plain
    <2> QED BY <1>5, <2>2, <2>5 DEF PhaseInv, InTransition, IsList
  <1>6. CASE Starting
    <2>1. /\ work = <<<<"handle", "Started">>>> /\ raft = "Standby" /\ ~broadcast_timer
          /\ lifecycle = "Inactive" /\ (registered => told = lifecycle)
      BY <1>6 DEF Starting
    <2>2. e = "Started" /\ PlainFrom(work, 2)
      BY <1>0, <2>1 DEF PlainFrom
    <2>3. s = "Follower"
      BY <1>0, <2>1, <2>2, HandleStarted
    <2> QED BY <1>5, <2>1, <2>2, <2>3 DEF Raised, Lifecycle!StateType
  <1>7. CASE Settled /\ PlainFrom(work, 1)
    <2>1. Plain(work[1]) /\ PlainFrom(work, 2)
      BY <1>1, <1>7 DEF PlainFrom
    <2>2. e \in RaftMachine!Event \ {"Terminated"} /\ raft \in Raised
      BY <1>0, <1>1, <1>7, <2>1 DEF Plain, Settled
    <2>3. s \in Raised
      BY <1>0, <2>2, HandleRaised
    <2>4. CASE s # raft
      <3>1. lifecycle \in Lifecycle!StateType
        BY <1>7, <2>2 DEF Settled, Lifecycle!StateType, LifecycleOf, Raised
      <3>2. /\ registered => told = lifecycle
            /\ broadcast_timer => raft = "Leader"
            /\ election_timer \/ s = "Follower"
        BY <1>7 DEF Settled
      <3> QED BY <1>5, <2>1, <2>3, <2>4, <3>1, <3>2
    <2>5. CASE s = raft
      <3>1. PlainList(OnEvent(raft, e))
        <4>1. PlainList(<<<<"start_election">>>>) /\ PlainList(<<<<"broadcast">>>>)
          BY PlainOne DEF Plain
        <4> QED BY <4>1, PlainNone DEF OnEvent
      <3>2. Settled'
        BY <1>3, <1>7, StaysSettled
      <3> QED BY <1>1, <1>2, <2>1, <2>5, <3>1, <3>2, GoesOn
    <2> QED BY <2>4, <2>5
  <1> QED BY <1>4, <1>6, <1>7

\* The first item of Leaving gives way to another, or to the transition.
LEMMA LeavingGoesOn ==
  ASSUME PhaseInv, NEW s \in Raised, Leaving(s), ~broadcast_timer',
         UNCHANGED <<election_timer, lifecycle, registered, told>>,
         NEW a, a[1] \in {"cancel", "respond", "callback"}, Then(<<>>) \/ Then(<<a>>)
  PROVE  PhaseInv'
  <1>1. /\ IsList(work) /\ Len(work) >= 4 /\ Len(work) \in Nat /\ work # <<>>
        /\ work[2] = <<"enter", s>> /\ work[3] = <<"notify", s>>
        /\ work[4] = <<"entry", s>> /\ PlainFrom(work, 5)
    BY DEF PhaseInv, Leaving, IsList
  <1>2. CASE Then(<<>>)
    <2>1. /\ IsList(work') /\ Len(work') = Len(work) - 1
          /\ \A i \in 1 .. Len(work') : work'[i] = work[i + 1]
      BY <1>1, <1>2, ThenNothing
    <2>2. /\ Len(work') >= 3 /\ work'[1] = <<"enter", s>> /\ work'[2] = <<"notify", s>>
          /\ work'[3] = <<"entry", s>> /\ PlainFrom(work', 4)
      BY <1>1, <2>1 DEF PlainFrom
    <2>3. Entering(s)'
      BY <2>2 DEF Leaving, Entering, PlainFrom, Plain
    <2> QED BY <2>1, <2>3 DEF PhaseInv, InTransition, IsList
  <1>3. CASE Then(<<a>>)
    <2>1. /\ IsList(work') /\ Len(work') = Len(work) /\ work'[1] = a
          /\ \A i \in 2 .. Len(work') : work'[i] = work[i]
      BY <1>1, <1>3, ThenOne
    <2>2. /\ work'[2] = <<"enter", s>> /\ work'[3] = <<"notify", s>>
          /\ work'[4] = <<"entry", s>> /\ PlainFrom(work', 5)
      BY <1>1, <2>1 DEF PlainFrom
    <2>3. Len(work') >= 4 /\ work'[1][1] \in {"exit", "cancel", "respond", "callback"}
      BY <1>1, <1>3, <2>1
    <2>4. Leaving(s)'
      BY <2>2, <2>3 DEF Leaving, PlainFrom, Plain
    <2> QED BY <2>1, <2>4 DEF PhaseInv, InTransition, IsList
  <1> QED BY <1>2, <1>3

\* The steps from leaving the old state to the notification of the new one.
LEMMA LeavePhase ==
  ASSUME PhaseInv, Exit \/ Cancel
  PROVE  PhaseInv'
  <1>1. /\ IsList(work) /\ work # <<>> /\ Len(work) \in Nat \ {0}
        /\ work[1][1] \in {"exit", "cancel"}
    BY DoingFirst DEF PhaseInv, Exit, Cancel
  <1>2. PICK s \in Raised : Leaving(s)
    BY <1>1 DEF PhaseInv, Starting, Resting, Calling, Completing, InTransition, Leaving,
         Entering, Notifying, Telling, Arming, PlainFrom, Plain
  <1>3. UNCHANGED <<election_timer, lifecycle, registered, told>>
    BY DEF Exit, Cancel, raftVars, lifeVars
  <1>4. ~broadcast_timer'
    <2>1. CASE Exit
      BY <1>2, <2>1 DEF Exit, Leaving
    <2>2. CASE Cancel
      <3>1. work[1][1] = "cancel"
        BY <2>2, DoingFirst DEF PhaseInv, Cancel
      <3> QED BY <1>2, <2>2, <3>1 DEF Leaving, Cancel, raftVars
    <2> QED BY <2>1, <2>2
  <1>5. CASE Exit
    <2>1. <<"cancel">>[1] \in {"cancel", "respond", "callback"}
      OBVIOUS
    <2>2. Then(<<>>) \/ Then(<<<<"cancel">>>>)
      BY <1>5 DEF Exit
    <2> QED BY <1>2, <1>3, <1>4, <2>1, <2>2, LeavingGoesOn
  <1>6. CASE Cancel
    <2> DEFINE a == <<"respond", pending.command, FALSE>>
    <2>1. a[1] \in {"cancel", "respond", "callback"}
      OBVIOUS
    <2>2. Then(<<>>) \/ Then(<<a>>)
      BY <1>6 DEF Cancel
    <2> HIDE DEF a
    <2> QED BY <1>2, <1>3, <1>4, <2>1, <2>2, LeavingGoesOn
  <1> QED BY <1>5, <1>6

LEMMA EnterPhase ==
  ASSUME PhaseInv, Enter
  PROVE  PhaseInv'
  <1>1. /\ IsList(work) /\ work # <<>> /\ Len(work) \in Nat \ {0}
        /\ work[1][1] = "enter" /\ Head(work) = work[1]
    BY DoingFirst DEF PhaseInv, Enter
  <1>2. PICK s \in Raised : Entering(s)
    BY <1>1 DEF PhaseInv, Starting, Resting, Calling, Completing, InTransition, Leaving,
         Entering, Notifying, Telling, Arming, PlainFrom, Plain
  <1>3. /\ IsList(work') /\ Len(work') = Len(work) - 1
        /\ \A i \in 1 .. Len(work') : work'[i] = work[i + 1]
    BY <1>1, ThenNothing DEF Enter
  <1>4. /\ Len(work') >= 2 /\ work'[1] = <<"notify", s>> /\ work'[2] = <<"entry", s>>
        /\ PlainFrom(work', 3)
    BY <1>1, <1>2, <1>3 DEF Entering, PlainFrom
  <1>5. raft' = s
    BY <1>1, <1>2 DEF Enter, Entering
  <1>6. UNCHANGED <<election_timer, broadcast_timer, lifecycle, registered, told>>
    BY DEF Enter, lifeVars
  <1>7. Notifying(s)'
    BY <1>2, <1>4, <1>5, <1>6 DEF Entering, Notifying, PlainFrom, Plain
  <1> QED BY <1>3, <1>7 DEF PhaseInv, InTransition, IsList

LEMMA NotifyPhase ==
  ASSUME PhaseInv, Notify
  PROVE  PhaseInv'
  <1>1. /\ IsList(work) /\ work # <<>> /\ Len(work) \in Nat \ {0}
        /\ work[1][1] = "notify" /\ Head(work) = work[1]
    BY DoingFirst DEF PhaseInv, Notify
  <1>2. PICK s \in Raised : Notifying(s)
    BY <1>1 DEF PhaseInv, Starting, Resting, Calling, Completing, InTransition, Leaving,
         Entering, Notifying, Telling, Arming, PlainFrom, Plain
  <1>3. /\ lifecycle' = LifecycleOf(s)
        /\ Then(IF LifecycleOf(s) = lifecycle THEN <<>> ELSE <<<<"tell", LifecycleOf(s)>>>>)
    <2>1. work[1][2] = s /\ lifecycle \in Lifecycle!StateType
      BY <1>2 DEF Notifying
    <2>2. Lifecycle!handle(lifecycle, Lifecycle!EventOf(Head(work)[2])) = LifecycleOf(s)
      BY <1>1, <2>1, LifecycleFollows
    <2> QED BY <2>2 DEF Notify
  <1>4. UNCHANGED <<raft, election_timer, broadcast_timer, registered, told>>
    BY DEF Notify, raftVars
  <1>5. CASE LifecycleOf(s) = lifecycle
    <2>1. /\ IsList(work') /\ Len(work') = Len(work) - 1
          /\ \A i \in 1 .. Len(work') : work'[i] = work[i + 1]
      BY <1>1, <1>3, <1>5, ThenNothing
    <2>2. Len(work') >= 1 /\ work'[1] = <<"entry", s>> /\ PlainFrom(work', 2)
      BY <1>1, <1>2, <2>1 DEF Notifying, PlainFrom
    <2>3. Arming(s)'
      BY <1>2, <1>3, <1>4, <1>5, <2>2 DEF Notifying, Arming, PlainFrom, Plain
    <2> QED BY <2>1, <2>3 DEF PhaseInv, InTransition, IsList
  <1>6. CASE LifecycleOf(s) # lifecycle
    <2>1. /\ IsList(work') /\ Len(work') = Len(work)
          /\ work'[1] = <<"tell", LifecycleOf(s)>>
          /\ \A i \in 2 .. Len(work') : work'[i] = work[i]
      BY <1>1, <1>3, <1>6, ThenOne
    <2>2. Len(work') >= 2 /\ work'[2] = <<"entry", s>> /\ PlainFrom(work', 3)
      BY <1>1, <1>2, <2>1 DEF Notifying, PlainFrom
    <2>3. work'[1][1] = "tell" /\ work'[1][2] = lifecycle'
      BY <1>3, <2>1
    <2>4. Telling(s)'
      BY <1>2, <1>3, <1>4, <2>2, <2>3 DEF Notifying, Telling, PlainFrom, Plain
    <2> QED BY <2>1, <2>4 DEF PhaseInv, InTransition, IsList
  <1> QED BY <1>5, <1>6

\* The application has been told.
LEMMA TellPhase ==
  ASSUME PhaseInv, Tell
  PROVE  PhaseInv'
  <1>1. /\ IsList(work) /\ work # <<>> /\ Len(work) \in Nat \ {0}
        /\ work[1][1] = "tell" /\ Head(work) = work[1]
    BY DoingFirst DEF PhaseInv, Tell
  <1>2. PICK s \in Raised : Telling(s)
    BY <1>1 DEF PhaseInv, Starting, Resting, Calling, Completing, InTransition, Leaving,
         Entering, Notifying, Telling, Arming, PlainFrom, Plain
  <1>3. UNCHANGED <<raft, election_timer, broadcast_timer, lifecycle, registered>>
    BY DEF Tell, raftVars
  <1>4. registered' => told' = lifecycle'
    BY <1>1, <1>2, <1>3 DEF Tell, Telling
  <1>5. Then(<<>>) \/ Then(<<<<"callback">>>>)
    BY CallbackSteps DEF Tell
  <1>6. CASE Then(<<>>)
    <2>1. /\ IsList(work') /\ Len(work') = Len(work) - 1
          /\ \A i \in 1 .. Len(work') : work'[i] = work[i + 1]
      BY <1>1, <1>6, ThenNothing
    <2>2. Len(work') >= 1 /\ work'[1] = <<"entry", s>> /\ PlainFrom(work', 2)
      BY <1>1, <1>2, <2>1 DEF Telling, PlainFrom
    <2>3. Arming(s)'
      BY <1>2, <1>3, <1>4, <2>2 DEF Telling, Arming, PlainFrom, Plain
    <2> QED BY <2>1, <2>3 DEF PhaseInv, InTransition, IsList
  <1>7. CASE Then(<<<<"callback">>>>)
    <2>1. /\ IsList(work') /\ Len(work') = Len(work) /\ work'[1] = <<"callback">>
          /\ \A i \in 2 .. Len(work') : work'[i] = work[i]
      BY <1>1, <1>7, ThenOne
    <2>2. Len(work') >= 2 /\ work'[2] = <<"entry", s>> /\ PlainFrom(work', 3)
      BY <1>1, <1>2, <2>1 DEF Telling, PlainFrom
    <2>3. work'[1][1] = "callback"
      BY <2>1
    <2>4. Telling(s)'
      BY <1>2, <1>3, <1>4, <2>2, <2>3 DEF Telling, PlainFrom, Plain
    <2> QED BY <2>1, <2>4 DEF PhaseInv, InTransition, IsList
  <1> QED BY <1>5, <1>6, <1>7

LEMMA EntryPhase ==
  ASSUME PhaseInv, Entry
  PROVE  PhaseInv'
  <1>1. /\ IsList(work) /\ work # <<>> /\ Len(work) \in Nat \ {0}
        /\ work[1][1] = "entry" /\ Head(work) = work[1]
    BY DoingFirst DEF PhaseInv, Entry
  <1>2. PICK s \in Raised : Arming(s)
    BY <1>1 DEF PhaseInv, Starting, Resting, Calling, Completing, InTransition, Leaving,
         Entering, Notifying, Telling, Arming, PlainFrom, Plain
  <1>3. Head(work)[2] = s
    BY <1>1, <1>2 DEF Arming
  <1>4. /\ election_timer' = (s = "Follower" \/ (s # "Standby" /\ election_timer))
        /\ broadcast_timer' = (s = "Leader" \/ broadcast_timer)
        /\ Then(IF s = "Candidate" THEN <<<<"start_election">>>> ELSE <<>>)
        /\ UNCHANGED <<raft, lifecycle, registered, told>>
    BY <1>3 DEF Entry, lifeVars
  <1>5. Settled'
    <2>1. election_timer'
      BY <1>2, <1>4 DEF Arming, Raised
    <2>2. broadcast_timer' <=> raft' = "Leader"
      BY <1>2, <1>4 DEF Arming
    <2>3. raft' \in Raised /\ lifecycle' = LifecycleOf(raft')
      BY <1>2, <1>4 DEF Arming
    <2>4. registered' => told' = lifecycle'
      BY <1>2, <1>4 DEF Arming
    <2> QED BY <2>1, <2>2, <2>3, <2>4 DEF Settled, LifecycleOf
  <1>6. PlainFrom(work, 2)
    BY <1>2 DEF Arming
  <1>7. PlainList(<<<<"start_election">>>>)
    BY PlainOne DEF Plain
  <1> QED BY <1>1, <1>4, <1>5, <1>6, <1>7, PlainNone, GoesOn

LEMMA StartElectionPhase ==
  ASSUME PhaseInv, StartElection
  PROVE  PhaseInv'
  <1>1. /\ IsList(work) /\ work # <<>> /\ Len(work) \in Nat \ {0}
        /\ work[1][1] = "start_election"
    BY DoingFirst DEF PhaseInv, StartElection
  <1>2. Settled /\ PlainFrom(work, 2)
    BY <1>1, PlainHead DEF Plain, Starting
  <1>3. Settled'
    <2>1. UNCHANGED <<raft, broadcast_timer, lifecycle, registered, told>>
      BY DEF StartElection, lifeVars
    <2>2. election_timer'
      BY DEF StartElection
    <2> QED BY <1>2, <2>1, <2>2 DEF Settled
  <1>4. PlainList(<<<<"handle", "Elected">>>>)
    BY PlainOne DEF Plain, RaftMachine!Event
  <1> QED BY <1>1, <1>2, <1>3, <1>4, PlainNone, GoesOn DEF StartElection

\* The steps that the state machines do not notice.
LEMMA DataPhase ==
  ASSUME PhaseInv,
         Broadcast \/ SetTerm \/ Revert \/ Rollback \/ Push \/ Answer \/ AppendEntry
  PROVE  PhaseInv'
  <1>1. /\ IsList(work) /\ work # <<>> /\ Len(work) \in Nat \ {0}
        /\ work[1][1] \in {"broadcast", "set_term", "revert", "rollback", "push",
                           "answer", "append"}
    BY DoingFirst DEF PhaseInv, Broadcast, SetTerm, Revert, Rollback, Push, Answer,
                      AppendEntry
  <1>2. Settled /\ PlainFrom(work, 2)
    BY <1>1, PlainHead DEF Plain, Starting
  <1>3. UNCHANGED <<raft, election_timer, broadcast_timer, lifecycle, registered, told>>
    BY DEF Broadcast, SetTerm, Revert, Rollback, Push, Answer, AppendEntry, raftVars,
           lifeVars
  <1>4. Settled'
    BY <1>2, <1>3, StaysSettled
  <1>5. CASE Broadcast \/ SetTerm \/ Rollback
    <2>1. Then(<<>>)
      BY <1>5 DEF Broadcast, SetTerm, Rollback
    <2> QED BY <1>1, <1>2, <1>4, <2>1, PlainNone, GoesOn
  <1>6. CASE Revert \/ Push
    <2>1. Then(<<>>) \/ Then(Callback)
      BY <1>6 DEF Revert, Push
    <2> QED BY <1>1, <1>2, <1>4, <2>1, PlainNone, GoesOn, GoesCallback
  <1>7. CASE Answer
    <2> DEFINE a == <<"commit", pending>>
    <2>1. a[1] \in {"commit", "respond", "callback"}
      OBVIOUS
    <2>2. Then(<<>>) \/ Then(<<a>>)
      BY <1>7 DEF Answer
    <2> HIDE DEF a
    <2> QED BY <1>1, <1>2, <1>4, <2>1, <2>2, PlainNone, GoesOn, GoesCalling
  <1>8. CASE AppendEntry
    <2>1. ASSUME NEW id, NEW e PROVE PlainList(LocalCommit(id, e))
      <3>1. PlainList(<<<<"revert", id>>>>) /\ PlainList(<<<<"push", id, e>>>>)
        BY PlainOne DEF Plain
      <3>2. /\ PlainList(<<<<"revert", id>>>> \o <<<<"push", id, e>>>>)
            /\ PlainList(<<>> \o <<<<"push", id, e>>>>)
        BY <3>1, PlainNone, PlainConcat
      <3> QED BY <3>2, PlainNone DEF LocalCommit
    <2>2. ASSUME NEW id PROVE PlainList(<<<<"rollback", id - 1>>>>)
      BY PlainOne DEF Plain
    <2>3. PICK steps : PlainList(steps) /\ Then(steps)
      BY <1>8, <2>1, <2>2, PlainNone DEF AppendEntry
    <2> QED BY <1>1, <1>2, <1>4, <2>3, GoesOn
  <1> QED BY <1>5, <1>6, <1>7, <1>8

LEMMA CommitPhase ==
  ASSUME PhaseInv, Commit
  PROVE  PhaseInv'
  <1>1. /\ IsList(work) /\ work # <<>> /\ Len(work) \in Nat \ {0}
        /\ work[1][1] = "commit"
    BY DoingFirst DEF PhaseInv, Commit
  <1>2. Settled /\ PlainFrom(work, 2)
    BY <1>1 DEF PhaseInv, Starting, Resting, Calling, Completing, InTransition, Leaving,
         Entering, Notifying, Telling, Arming, PlainFrom, Plain
  <1>3. Settled'
    BY <1>2, StaysSettled DEF Commit, raftVars, lifeVars
  <1> DEFINE a == <<"respond", Head(work)[2].command, TRUE>>
  <1>4. a[1] = "respond"
    OBVIOUS
  <1>5. Then(Callback \o <<a>>)
    BY DEF Commit
  <1> HIDE DEF a
  <1>6. <<>> \o <<a>> = <<a>> /\ <<<<"callback">>>> \o <<a>> = <<<<"callback">>, a>>
    <2>1. <<>> \o <<a>> = <<a>>
      OBVIOUS
    <2>2. ASSUME NEW b PROVE <<b>> \o <<a>> = <<b, a>>
      BY PairOf
    <2> QED BY <2>1, <2>2
  <1>7. Then(<<a>>) \/ Then(<<<<"callback">>, a>>)
    BY <1>5, <1>6, CallbackSteps
  <1>8. CASE Then(<<a>>)
    BY <1>1, <1>2, <1>3, <1>4, <1>8, GoesCalling
  <1>9. CASE Then(<<<<"callback">>, a>>)
    <2>1. /\ IsList(work') /\ Len(work') = Len(work) + 1
          /\ work'[1] = <<"callback">> /\ work'[2] = a
          /\ \A i \in 3 .. Len(work') : work'[i] = work[i - 1]
      BY <1>1, <1>9, ThenTwo
    <2>2. work'[1][1] = "callback" /\ work'[2][1] = "respond" /\ Len(work') >= 2
      BY <1>1, <1>4, <2>1
    <2>3. PlainFrom(work', 3)
      BY <1>1, <1>2, <2>1 DEF PlainFrom
    <2>4. Completing'
      BY <1>3, <2>2, <2>3 DEF Completing, PlainFrom, Plain
    <2> QED BY <2>1, <2>4 DEF PhaseInv, IsList
  <1> QED BY <1>7, <1>8, <1>9

\* An answer is given where a commit is completed, or where a leader leaves.
LEMMA RespondPhase ==
  ASSUME PhaseInv, Respond
  PROVE  PhaseInv'
  <1>1. /\ IsList(work) /\ work # <<>> /\ Len(work) \in Nat \ {0}
        /\ work[1][1] = "respond"
    BY DoingFirst DEF PhaseInv, Respond
  <1>2. UNCHANGED <<raft, election_timer, broadcast_timer, lifecycle, registered, told>>
    BY DEF Respond, raftVars, lifeVars
  <1>3. Then(Callback)
    BY DEF Respond
  <1>4. Calling \/ \E s \in Raised : Leaving(s)
    BY <1>1 DEF PhaseInv, Starting, Resting, Completing, InTransition, Leaving,
         Entering, Notifying, Telling, Arming, PlainFrom, Plain
  <1>5. CASE Calling
    <2>1. Settled' /\ PlainFrom(work, 2)
      BY <1>2, <1>5, StaysSettled DEF Calling
    <2> QED BY <1>1, <1>3, <2>1, GoesCallback
  <1>6. ASSUME NEW s \in Raised, Leaving(s) PROVE PhaseInv'
    <2>1. ~broadcast_timer'
      BY <1>1, <1>2, <1>6 DEF Leaving
    <2>2. <<"callback">>[1] \in {"cancel", "respond", "callback"}
      OBVIOUS
    <2>3. Then(<<>>) \/ Then(<<<<"callback">>>>)
      BY <1>3, CallbackSteps
    <2> QED BY <1>2, <1>6, <2>1, <2>2, <2>3, LeavingGoesOn
  <1> QED BY <1>4, <1>5, <1>6

LEMMA CallbackPhase ==
  ASSUME PhaseInv, CallbackReturns
  PROVE  PhaseInv'
  <1>1. /\ IsList(work) /\ work # <<>> /\ Len(work) \in Nat \ {0}
        /\ work[1][1] = "callback"
    BY DoingFirst DEF PhaseInv, CallbackReturns
  <1>2. UNCHANGED <<raft, election_timer, broadcast_timer, lifecycle, registered, told>>
    BY DEF CallbackReturns, raftVars, lifeVars
  <1>3. Then(<<>>)
    BY DEF CallbackReturns
  <1>4. /\ IsList(work') /\ Len(work') = Len(work) - 1
        /\ \A i \in 1 .. Len(work') : work'[i] = work[i + 1]
    BY <1>1, <1>3, ThenNothing
  <1>5. Calling \/ Completing \/ \E s \in Raised : Leaving(s) \/ Telling(s)
    BY <1>1 DEF PhaseInv, Starting, Resting, InTransition,
         Entering, Notifying, Arming, PlainFrom, Plain
  <1>6. CASE Calling
    <2>1. Settled' /\ PlainFrom(work, 2)
      BY <1>2, <1>6, StaysSettled DEF Calling
    <2> QED BY <1>1, <1>3, <2>1, PlainNone, GoesOn
  <1>7. CASE Completing
    <2>1. Settled'
      BY <1>2, <1>7, StaysSettled DEF Completing
    <2>2. Len(work') >= 1 /\ work'[1][1] = "respond" /\ PlainFrom(work', 2)
      BY <1>1, <1>4, <1>7 DEF Completing, PlainFrom
    <2>3. Calling'
      BY <2>1, <2>2 DEF Calling, PlainFrom, Plain
    <2> QED BY <1>4, <2>3 DEF PhaseInv, IsList
  <1>8. ASSUME NEW s \in Raised, Leaving(s) PROVE PhaseInv'
    <2>1. ~broadcast_timer'
      BY <1>1, <1>2, <1>8 DEF Leaving
    <2>2. <<"callback">>[1] \in {"cancel", "respond", "callback"}
      OBVIOUS
    <2>3. Then(<<>>) \/ Then(<<<<"callback">>>>)
      BY <1>3
    <2> QED BY <1>2, <1>8, <2>1, <2>2, <2>3, LeavingGoesOn
  <1>9. ASSUME NEW s \in Raised, Telling(s) PROVE PhaseInv'
    <2>1. Len(work') >= 1 /\ work'[1] = <<"entry", s>> /\ PlainFrom(work', 2)
      BY <1>1, <1>4, <1>9 DEF Telling, PlainFrom
    <2>2. registered' => told' = lifecycle'
      BY <1>1, <1>2, <1>9 DEF Telling
    <2>3. Arming(s)'
      BY <1>2, <1>9, <2>1, <2>2 DEF Telling, Arming, PlainFrom, Plain
    <2> QED BY <1>4, <2>3 DEF PhaseInv, InTransition, IsList
  <1> QED BY <1>5, <1>6, <1>7, <1>8, <1>9

LEMMA ExecutorPhase ==
  ASSUME PhaseInv, ExecutorStep
  PROVE  PhaseInv'
  BY HandlePhase, LeavePhase, EnterPhase, NotifyPhase, TellPhase, EntryPhase,
     StartElectionPhase, DataPhase, CommitPhase, RespondPhase, CallbackPhase
  DEF ExecutorStep

-----------------------------------------------------------------------------
(* Handlers and calls                                                       *)

\* Whenever the executor waits, nothing is under way.
LEMMA WaitingIsSettled ==
  ASSUME PhaseInv, Waiting
  PROVE  Settled
  <1>1. Len(work) = 0
    BY DEF Waiting
  <1> QED BY <1>1 DEF PhaseInv, Starting, Resting, Calling, Completing, InTransition,
             Leaving, Entering, Notifying, Telling, Arming, Waiting

\* What a handler starts with.
LEMMA HandlerIsPlain ==
  ASSUME ExecutorHandler
  PROVE  Waiting /\ PlainList(work')
  <1>1. ASSUME NEW e \in RaftMachine!Event \ {"Terminated"}
        PROVE  PlainList(<<<<"handle", e>>>>)
    BY PlainOne DEF Plain
  <1>2. {"Timedout", "BroadcastTimedout", "NewTermReceived", "Elected",
         "LeaderDiscovered"} \subseteq RaftMachine!Event \ {"Terminated"}
    BY DEF RaftMachine!Event
  <1>3. ASSUME NEW t PROVE PlainList(UpdateTerm(t))
    <2>1. PlainList(<<<<"set_term", t>>>>) /\ PlainList(<<<<"handle", "NewTermReceived">>>>)
      BY <1>1, <1>2, PlainOne DEF Plain
    <2>2. PlainList(<<<<"set_term", t>>, <<"handle", "NewTermReceived">>>>)
      BY <2>1, PlainConcat, PairOf
    <2> QED BY <2>2, PlainNone DEF UpdateTerm
  <1>4. ASSUME NEW t PROVE PlainList(Discover(t))
    <2>1. PlainList(UpdateTerm(t) \o <<<<"handle", "LeaderDiscovered">>>>)
      BY <1>1, <1>2, <1>3, PlainConcat
    <2> QED BY <2>1, PlainNone DEF Discover
  <1>5. CASE ElectionTimer \/ BroadcastTimer \/ Votes
    BY <1>1, <1>2, <1>5 DEF ElectionTimer, BroadcastTimer, Votes, Run
  <1>6. CASE Register
    BY <1>6, PlainNone DEF Register, Waiting
  <1>7. ASSUME NEW t, NewTerm(t) \/ Heartbeat(t) PROVE Waiting /\ PlainList(work')
    BY <1>3, <1>4, <1>7 DEF NewTerm, Heartbeat, Run
  <1>8. ASSUME NEW t, NEW id, NEW c, NEW p, AppendEntries(t, id, c, p)
        PROVE  Waiting /\ PlainList(work')
    <2> DEFINE a == <<"append", id, [term |-> t, command |-> c], p>>
    <2>1. PlainList(<<a>>)
      BY PlainOne DEF Plain
    <2>2. Waiting /\ work' = Discover(t) \o <<a>>
      BY <1>8 DEF AppendEntries, Run
    <2> HIDE DEF a
    <2> QED BY <1>4, <2>1, <2>2, PlainConcat
  <1>9. ASSUME NEW id, NEW t, BroadcastResponse(id, t) PROVE Waiting /\ PlainList(work')
    <2> DEFINE a == <<"answer", id, t>>
    <2>1. PlainList(<<a>>)
      BY PlainOne DEF Plain
    <2>2. Waiting /\ work' = UpdateTerm(t) \o <<a>>
      BY <1>9 DEF BroadcastResponse, Run
    <2> HIDE DEF a
    <2> QED BY <1>3, <2>1, <2>2, PlainConcat
  <1> QED BY <1>5, <1>6, <1>7, <1>8, <1>9 DEF ExecutorHandler

LEMMA HandlerPhase ==
  ASSUME PhaseInv, ExecutorHandler
  PROVE  PhaseInv'
  <1>1. Settled /\ PlainList(work')
    BY WaitingIsSettled, HandlerIsPlain
  <1>2. UNCHANGED <<raft, election_timer, broadcast_timer, lifecycle>>
    BY DEF ExecutorHandler, ElectionTimer, BroadcastTimer, Votes, Register, NewTerm,
       Heartbeat, AppendEntries, BroadcastResponse, Run, raftVars, lifeVars
  <1>3. UNCHANGED <<registered, told>> \/ told' = lifecycle'
    BY DEF ExecutorHandler, ElectionTimer, BroadcastTimer, Votes, Register, NewTerm,
       Heartbeat, AppendEntries, BroadcastResponse, Run, RegisterCallbacks, lifeVars
  <1>4. Settled'
    BY <1>1, <1>2, <1>3 DEF Settled
  <1> QED BY <1>1, <1>4 DEF PhaseInv, Resting, PlainList, PlainFrom, Plain, IsList

\* What the phases are about, when a step leaves it alone.
LEMMA StaysInPhase ==
  ASSUME PhaseInv, UNCHANGED <<raft, election_timer, broadcast_timer, lifecycle,
                               registered, told, work>>
  PROVE  PhaseInv'
  <1>1. IsList(work')
    BY DEF PhaseInv
  <1>2. Starting' \/ Resting' \/ Calling' \/ Completing' \/ InTransition'
    BY DEF PhaseInv, Starting, Resting, Calling, Completing, InTransition,
           Leaving, Entering, Notifying, Telling, Arming, Settled, PlainFrom, Plain
  <1> QED BY <1>1, <1>2 DEF PhaseInv, IsList

LEMMA PhaseInitial == Init => PhaseInv
  <1> SUFFICES ASSUME Init PROVE PhaseInv
    OBVIOUS
  <1>1. Starting
    BY DEF Init, Starting
  <1>2. PlainList(<<<<"handle", "Started">>>>)
    BY PlainOne DEF Plain, RaftMachine!Event
  <1>3. IsList(work)
    BY <1>2 DEF Init, PlainList
  <1> QED BY <1>1, <1>3 DEF PhaseInv

LEMMA PhaseInvariant == Spec => []PhaseInv
  <1>1. PhaseInv /\ [Next]_vars => PhaseInv'
    <2> SUFFICES ASSUME PhaseInv, [Next]_vars PROVE PhaseInv'
      OBVIOUS
    <2>1. CASE UNCHANGED vars
      BY <2>1, StaysInPhase DEF vars, raftVars, lifeVars
    <2>2. ASSUME NEW t \in Thread, NEW c \in Command, CommitCommand(t, c) PROVE PhaseInv'
      BY <2>2, StaysInPhase DEF CommitCommand, raftVars, lifeVars
    <2>3. ASSUME NEW t \in Thread, CallStep(t) PROVE PhaseInv'
      BY <2>3, StaysInPhase DEF CallStep, ReadSize, ReadTerm, CompleteAlone, CheckSize,
         SetPending, raftVars, lifeVars
    <2> QED BY <2>1, <2>2, <2>3, ExecutorPhase, HandlerPhase DEF Next
  <1> QED BY <1>1, PhaseInitial, PTL DEF Spec

\* Whenever the executor waits, the lifecycle and what the application was told
\* of it follow the raft state, in whatever order elections, new terms and
\* registration happened.
THEOREM LifecycleIsInStep == Spec => []LifecycleFollowsRaft
  <1>1. PhaseInv => LifecycleFollowsRaft
    <2> SUFFICES ASSUME PhaseInv, Waiting
                 PROVE  /\ is_activated <=> raft = "Leader"
                        /\ lifecycle # "Active" => lifecycle = "Standby"
                        /\ registered => told = lifecycle
      BY DEF LifecycleFollowsRaft
    <2>1. Settled
      BY WaitingIsSettled
    <2>2. lifecycle = IF raft = "Leader" THEN "Active" ELSE "Standby"
      BY <2>1 DEF Settled, Raised, LifecycleOf
    <2> QED BY <2>1, <2>2 DEF Settled, is_activated
  <1> QED BY <1>1, PhaseInvariant, PTL

\* Whenever the executor waits, the timers are those of the raft state.
THEOREM TimersAreInStep == Spec => []TimersFollowState
  <1>1. PhaseInv => TimersFollowState
    BY WaitingIsSettled DEF TimersFollowState, Settled
  <1> QED BY <1>1, PhaseInvariant, PTL

\* A message is published or a request served only while the node leads, or
\* before the end of its leadership was notified.
THEOREM ServesAsLeader == Spec => []OnlyLeadersServe
  <1>1. PhaseInv => OnlyLeadersServe
    <2> SUFFICES ASSUME PhaseInv, lifecycle = "Active", raft # "Leader"
                 PROVE  \E i \in DOMAIN work : work[i][1] = "notify"
      BY DEF OnlyLeadersServe, publish, handle_request, is_activated
    <2>1. DOMAIN work = 1 .. Len(work) /\ Len(work) \in Nat
      BY DEF PhaseInv, IsList
    <2>2. \A s \in Raised : s # "Leader" => LifecycleOf(s) = "Standby"
      BY DEF Raised, LifecycleOf
    <2>3. ~Settled /\ ~Starting
      BY <2>2 DEF Settled, Starting
    <2>4. PICK s \in Raised : Leaving(s) \/ Entering(s) \/ Notifying(s)
      BY <2>2, <2>3 DEF PhaseInv, Resting, Calling, Completing, InTransition, Telling,
                        Arming
    <2>5. CASE Leaving(s)
      <3>1. 3 \in DOMAIN work /\ work[3][1] = "notify"
        BY <2>1, <2>5 DEF Leaving
      <3> QED BY <3>1
    <2>6. CASE Entering(s)
      <3>1. 2 \in DOMAIN work /\ work[2][1] = "notify"
        BY <2>1, <2>6 DEF Entering
      <3> QED BY <3>1
    <2>7. CASE Notifying(s)
      <3>1. 1 \in DOMAIN work /\ work[1][1] = "notify"
        BY <2>1, <2>7 DEF Notifying
      <3> QED BY <3>1
    <2> QED BY <2>4, <2>5, <2>6, <2>7
  <1> QED BY <1>1, PhaseInvariant, PTL

-----------------------------------------------------------------------------
(* One holder for every promise                                             *)

\* What the executor owes after a step it owed before, or is among the steps
\* that follow.
LEMMA OwesThen ==
  ASSUME IsList(work), work # <<>>, NEW steps, IsList(steps), Then(steps),
         NEW c, Owes(c)'
  PROVE  \/ \E i \in 1 .. Len(steps) : OwesIn(steps[i], c)
         \/ \E i \in 2 .. Len(work) : OwesIn(work[i], c)
  <1>1. /\ IsList(work') /\ Len(work) \in Nat \ {0} /\ Len(work') \in Nat
        /\ Len(work') = Len(steps) + Len(work) - 1
        /\ \A i \in 1 .. Len(steps) : work'[i] = steps[i]
        /\ \A i \in Len(steps) + 1 .. Len(work') : work'[i] = work[i - Len(steps) + 1]
    BY ThenList
  <1>2. Len(steps) \in Nat
    BY DEF IsList
  <1>3. PICK i \in 1 .. Len(work') : OwesIn(work'[i], c)
    BY DEF Owes, OwesIn
  <1>4. CASE i <= Len(steps)
    BY <1>1, <1>2, <1>3, <1>4
  <1>5. CASE i > Len(steps)
    <2>1. i - Len(steps) + 1 \in 2 .. Len(work)
      BY <1>1, <1>2, <1>5
    <2>2. work'[i] = work[i - Len(steps) + 1]
      BY <1>1, <1>2, <1>5
    <2> QED BY <1>3, <2>1, <2>2
  <1> QED BY <1>1, <1>2, <1>4, <1>5

\* Steps that answer nothing.
Silent(s) == IsList(s) /\ \A i \in 1 .. Len(s) : s[i][1] \notin {"respond", "commit"}

LEMMA OwesNothingNew ==
  ASSUME IsList(work), work # <<>>, NEW steps, Silent(steps), Then(steps),
         NEW c, Owes(c)'
  PROVE  Owes(c)
  <1>1. \E i \in 2 .. Len(work) : OwesIn(work[i], c)
    BY OwesThen DEF Silent, OwesIn
  <1>2. Len(work) \in Nat
    BY DEF IsList
  <1> QED BY <1>1, <1>2 DEF Owes

LEMMA SilentPlain ==
  ASSUME NEW s, PlainList(s)
  PROVE  Silent(s)
  BY DEF PlainList, PlainFrom, Plain, Silent

LEMMA SilentOne ==
  ASSUME NEW a, a[1] \notin {"respond", "commit"}
  PROVE  Silent(<<a>>)
  <1> DEFINE s == <<a>>
  <1>1. s \in Seq({a}) /\ Len(s) = 1 /\ s[1] = a
    OBVIOUS
  <1>2. IsList(s)
    BY <1>1, ListOf
  <1> HIDE DEF s
  <1>3. Silent(s)
    BY <1>1, <1>2 DEF Silent
  <1> QED BY <1>3 DEF s

LEMMA SilentCallback == Silent(<<>>) /\ Silent(<<<<"callback">>>>) /\ Silent(Callback)
  <1>1. Silent(<<>>)
    BY PlainNone, SilentPlain
  <1>2. <<"callback">>[1] \notin {"respond", "commit"}
    OBVIOUS
  <1>3. Silent(<<<<"callback">>>>)
    BY <1>2, SilentOne
  <1> QED BY <1>1, <1>3, CallbackSteps

\* Where an answer comes first, no other one follows.
LEMMA OneAnswer ==
  ASSUME PhaseInv, work # <<>>, work[1][1] \in {"respond", "commit"},
         NEW i \in 2 .. Len(work), NEW c
  PROVE  ~OwesIn(work[i], c)
  <1>1. Len(work) \in Nat \ {0}
    BY DEF PhaseInv, IsList
  <1>2. Calling \/ \E s \in Raised : Leaving(s)
    BY <1>1 DEF PhaseInv, Starting, Resting, Completing, InTransition, Leaving,
         Entering, Notifying, Telling, Arming, PlainFrom, Plain
  <1>3. CASE Calling
    BY <1>3 DEF Calling, PlainFrom, Plain, OwesIn
  <1>4. ASSUME NEW s \in Raised, Leaving(s) PROVE ~OwesIn(work[i], c)
    <2>1. work[2][1] = "enter" /\ work[3][1] = "notify" /\ work[4][1] = "entry"
      BY <1>4 DEF Leaving
    <2>2. i \in 2 .. 4 \/ i \in 5 .. Len(work)
      BY <1>1
    <2>3. CASE i \in 5 .. Len(work)
      BY <1>4, <2>3 DEF Leaving, PlainFrom, Plain, OwesIn
    <2>4. CASE i \in 2 .. 4
      BY <2>1, <2>4 DEF OwesIn
    <2> QED BY <2>2, <2>3, <2>4
  <1> QED BY <1>2, <1>3, <1>4

\* A promise stays with its holder, or goes from the pending commit to the
\* executor; a pending commit may also be forgotten.
LEMMA HolderStays ==
  ASSUME HolderInv, UNCHANGED <<call, submitted, promise>>,
         pending' = pending \/ pending' = None,
         \A c \in Command : Owes(c)' => Owes(c) \/ (Pends(c) /\ pending' = None)
  PROVE  HolderInv'
  <1>1. ASSUME NEW c \in Command PROVE OneHolder(c)'
    <2>1. OneHolder(c)
      BY DEF HolderInv
    <2>2. \A t \in Thread : Calls(t, c)' <=> Calls(t, c)
      BY DEF Calls
    <2>3. Pends(c)' => Pends(c) /\ pending' = pending
      BY DEF Pends
    <2>4. Owes(c)' => Owes(c) \/ (Pends(c) /\ ~Pends(c)')
      BY DEF Pends
    <2> QED BY <2>1, <2>2, <2>3, <2>4 DEF OneHolder
  <1> QED BY <1>1 DEF HolderInv, CallShape

\* The promise of a is set, and a has no holder any more.
LEMMA HolderAnswers ==
  ASSUME HolderInv, NEW a, NEW r, SetValue(a, r),
         call' = [t \in Thread |-> call'[t]], \A t \in Thread : CallShape(call'[t]),
         submitted \subseteq submitted',
         a \in Command => a \in submitted' /\ promise[a] = <<>>,
         \A c \in Command : /\ \A t \in Thread : Calls(t, c)' => Calls(t, c) /\ c # a
                            /\ Pends(c)' => Pends(c) /\ c # a
                            /\ Owes(c)' => Owes(c) /\ c # a
  PROVE  HolderInv'
  <1>1. promise' = [c \in Command |-> IF c = a THEN Append(promise[c], r) ELSE promise[c]]
    BY DEF SetValue, HolderInv
  <1>2. ASSUME NEW c \in Command PROVE OneHolder(c)'
    <2>1. OneHolder(c)
      BY DEF HolderInv
    <2>2. CASE c = a
      <3>1. promise'[c] = Append(<<>>, r)
        BY <1>1, <2>2
      <3>2. Len(Append(<<>>, r)) = 1
        OBVIOUS
      <3>3. Len(promise'[c]) <= 1
        BY <3>1, <3>2
      <3> QED BY <2>2, <3>3 DEF OneHolder
    <2>3. CASE c # a
      <3>1. promise'[c] = promise[c]
        BY <1>1, <2>3
      <3> QED BY <2>1, <3>1 DEF OneHolder
    <2> QED BY <2>2, <2>3
  <1> QED BY <1>1, <1>2 DEF HolderInv, CallShape

\* The steps that answer nothing, and what follows them.
LEMMA SilentSteps ==
  ASSUME \/ HandleEvent \/ Exit \/ Enter \/ Notify \/ Tell \/ Entry \/ StartElection
         \/ Broadcast \/ SetTerm \/ Revert \/ Rollback \/ Push \/ CallbackReturns
         \/ AppendEntry
  PROVE  \E steps : Silent(steps) /\ Then(steps)
  <1>1. ASSUME NEW op, NEW x, op \notin {"respond", "commit"}
        PROVE  Silent(<<<<op>>>>) /\ Silent(<<<<op, x>>>>)
    BY <1>1, SilentOne
  <1>2. CASE HandleEvent
    <2>1. ASSUME NEW s PROVE Silent(Transition(s))
      <3> DEFINE w == Transition(s)
                 S == {<<"exit">>, <<"enter", s>>, <<"notify", s>>, <<"entry", s>>}
      <3>1. /\ w \in Seq(S) /\ Len(w) = 4 /\ w[1] = <<"exit">> /\ w[2] = <<"enter", s>>
            /\ w[3] = <<"notify", s>> /\ w[4] = <<"entry", s>>
        BY DEF Transition
      <3> HIDE DEF w, S
      <3>2. \A i \in 1 .. 4 : w[i][1] \in {"exit", "enter", "notify", "entry"}
        BY <3>1
      <3>3. Silent(w)
        BY <3>1, <3>2, ListOf DEF Silent
      <3> QED BY <3>3 DEF w
    <2>2. ASSUME NEW s, NEW e PROVE Silent(OnEvent(s, e))
      <3>1. Silent(<<<<"start_election">>>>) /\ Silent(<<<<"broadcast">>>>)
        BY <1>1
      <3> QED BY <3>1, SilentCallback DEF OnEvent
    <2> QED BY <1>2, <2>1, <2>2 DEF HandleEvent
  <1>3. CASE Exit \/ Enter \/ Notify \/ Tell \/ Entry \/ StartElection
    <2>1. /\ Silent(<<<<"cancel">>>>) /\ Silent(<<<<"start_election">>>>)
          /\ Silent(<<<<"handle", "Elected">>>>)
          /\ \A l : Silent(<<<<"tell", l>>>>)
      BY <1>1
    <2> QED BY <1>3, <2>1, SilentCallback DEF Exit, Enter, Notify, Tell, Entry, StartElection
  <1>4. CASE Broadcast \/ SetTerm \/ Revert \/ Rollback \/ Push \/ CallbackReturns
    BY <1>4, SilentCallback DEF Broadcast, SetTerm, Revert, Rollback, Push, CallbackReturns
  <1>5. CASE AppendEntry
    <2>1. ASSUME NEW id, NEW e PROVE Silent(LocalCommit(id, e))
      <3>1. PlainList(<<<<"revert", id>>>>) /\ PlainList(<<<<"push", id, e>>>>)
        BY PlainOne DEF Plain
      <3>2. /\ PlainList(<<<<"revert", id>>>> \o <<<<"push", id, e>>>>)
            /\ PlainList(<<>> \o <<<<"push", id, e>>>>)
        BY <3>1, PlainNone, PlainConcat
      <3> QED BY <3>2, PlainNone, SilentPlain DEF LocalCommit
    <2>2. ASSUME NEW id PROVE Silent(<<<<"rollback", id - 1>>>>)
      BY <1>1
    <2> QED BY <1>5, <2>1, <2>2, SilentCallback DEF AppendEntry
  <1> QED BY <1>2, <1>3, <1>4, <1>5

\* The steps that leave the promises where they are.
LEMMA SilentHolders ==
  ASSUME HolderInv, PhaseInv,
         \/ HandleEvent \/ Exit \/ Enter \/ Notify \/ Tell \/ Entry \/ StartElection
         \/ Broadcast \/ SetTerm \/ Revert \/ Rollback \/ Push \/ CallbackReturns
         \/ AppendEntry
  PROVE  HolderInv'
  <1>1. IsList(work) /\ work # <<>>
    BY DEF PhaseInv, HandleEvent, Exit, Enter, Notify, Tell, Entry, StartElection,
       Broadcast, SetTerm, Revert, Rollback, Push, CallbackReturns, AppendEntry, Doing
  <1>2. UNCHANGED <<call, submitted, promise>>
    BY DEF HandleEvent, Exit, Enter, Notify, Tell, Entry, StartElection,
       Broadcast, SetTerm, Revert, Rollback, Push, CallbackReturns, AppendEntry, callVars
  <1>3. pending' = pending \/ pending' = None
    BY DEF HandleEvent, Exit, Enter, Notify, Tell, Entry, StartElection,
       Broadcast, SetTerm, Revert, Rollback, Push, CallbackReturns, AppendEntry
  <1>4. PICK steps : Silent(steps) /\ Then(steps)
    BY SilentSteps
  <1>5. \A c \in Command : Owes(c)' => Owes(c)
    BY <1>1, <1>4, OwesNothingNew
  <1> QED BY <1>2, <1>3, <1>5, HolderStays

\* The pending commit becomes a commit or an answer of the executor.
LEMMA PendingHolders ==
  ASSUME HolderInv, PhaseInv, Cancel \/ Answer
  PROVE  HolderInv'
  <1>1. IsList(work) /\ work # <<>>
    BY DEF PhaseInv, Cancel, Answer, Doing
  <1>2. UNCHANGED <<call, submitted, promise>> /\ (pending' = pending \/ pending' = None)
    BY DEF Cancel, Answer, callVars
  <1>3. \/ Then(<<>>)
        \/ /\ pending # None /\ pending' = None
           /\ \/ Then(<<<<"respond", pending.command, FALSE>>>>)
              \/ Then(<<<<"commit", pending>>>>)
    BY DEF Cancel, Answer
  <1>4. CASE Then(<<>>)
    BY <1>1, <1>2, <1>4, SilentCallback, OwesNothingNew, HolderStays
  <1>5. ASSUME pending # None, pending' = None, NEW a, Then(<<a>>),
               \A c : OwesIn(a, c) => c = pending.command
        PROVE  HolderInv'
    <2> DEFINE s == <<a>>
    <2>1. s \in Seq({a}) /\ Len(s) = 1 /\ s[1] = a
      OBVIOUS
    <2>2. IsList(s) /\ Then(s)
      BY <1>5, <2>1, ListOf
    <2> HIDE DEF s
    <2>3. ASSUME NEW c \in Command, Owes(c)' PROVE Owes(c) \/ (Pends(c) /\ pending' = None)
      <3>1. \/ \E i \in 1 .. Len(s) : OwesIn(s[i], c)
            \/ \E i \in 2 .. Len(work) : OwesIn(work[i], c)
        BY <1>1, <2>2, <2>3, OwesThen
      <3>2. Len(work) \in Nat
        BY <1>1 DEF IsList
      <3> QED BY <1>5, <2>1, <3>1, <3>2 DEF Pends, Owes
    <2> QED BY <1>2, <2>3, HolderStays
  <1>6. /\ \A c : OwesIn(<<"respond", pending.command, FALSE>>, c) => c = pending.command
        /\ \A c : OwesIn(<<"commit", pending>>, c) => c = pending.command
    BY DEF OwesIn
  <1> QED BY <1>3, <1>4, <1>5, <1>6

\* The commit that is completed is answered next.
LEMMA CommitHolders ==
  ASSUME HolderInv, PhaseInv, Commit
  PROVE  HolderInv'
  <1>1. /\ IsList(work) /\ work # <<>> /\ Len(work) \in Nat \ {0}
        /\ work[1][1] = "commit" /\ Head(work) = work[1]
    BY DoingFirst DEF PhaseInv, Commit
  <1>2. UNCHANGED <<call, submitted, promise, pending>>
    BY DEF Commit, callVars
  <1>3. PICK a : a = <<"respond", Head(work)[2].command, TRUE>>
    OBVIOUS
  <1>4. Then(Callback \o <<a>>)
    BY <1>3 DEF Commit
  <1>5. \A c : OwesIn(a, c) => OwesIn(work[1], c)
    BY <1>1, <1>3 DEF OwesIn
  <1>6. ASSUME NEW c, Owes(c)' PROVE Owes(c)
    <2> DEFINE s == Callback \o <<a>>
    <2>1. IsList(s) /\ \A i \in 1 .. Len(s) : s[i] = <<"callback">> \/ s[i] = a
      <3>1. CASE Callback = <<>>
        <4> DEFINE u == <<a>>
        <4>1. u \in Seq({a}) /\ Len(u) = 1 /\ u[1] = a /\ <<>> \o u = u
          OBVIOUS
        <4> HIDE DEF u
        <4>2. IsList(u) /\ \A i \in 1 .. Len(u) : u[i] = a
          BY <4>1, ListOf
        <4>3. s = u
          BY <3>1, <4>1 DEF u
        <4> QED BY <4>2, <4>3
      <3>2. CASE Callback = <<<<"callback">>>>
        <4> DEFINE b == <<"callback">>
                   u == <<b, a>>
        <4> HIDE DEF b
        <4>1. u \in Seq({a, b}) /\ Len(u) = 2 /\ u[1] = b /\ u[2] = a
          OBVIOUS
        <4>2. s = u
          BY <3>2, PairOf DEF b
        <4> HIDE DEF u
        <4>3. IsList(u) /\ \A i \in 1 .. Len(u) : u[i] = b \/ u[i] = a
          BY <4>1, ListOf
        <4> QED BY <4>2, <4>3 DEF b
      <3> QED BY <3>1, <3>2, CallbackSteps
    <2> HIDE DEF s
    <2>2. \/ \E i \in 1 .. Len(s) : OwesIn(s[i], c)
          \/ \E i \in 2 .. Len(work) : OwesIn(work[i], c)
      BY <1>1, <1>4, <1>6, <2>1, OwesThen DEF s
    <2>3. ~OwesIn(<<"callback">>, c)
      BY DEF OwesIn
    <2> QED BY <1>1, <1>5, <2>1, <2>2, <2>3 DEF Owes
  <1> QED BY <1>2, <1>6, HolderStays

\* The executor answers.
LEMMA RespondHolders ==
  ASSUME HolderInv, PhaseInv, Respond
  PROVE  HolderInv'
  <1>1. /\ IsList(work) /\ work # <<>> /\ Len(work) \in Nat \ {0}
        /\ work[1][1] = "respond" /\ Head(work) = work[1]
    BY DoingFirst DEF PhaseInv, Respond
  <1>2. PICK a, r : a = work[1][2] /\ r = work[1][3]
    OBVIOUS
  <1>3. SetValue(a, r) /\ Then(Callback) /\ UNCHANGED <<call, submitted, pending>>
    BY <1>1, <1>2 DEF Respond, callVars
  <1>4. Owes(a)
    BY <1>1, <1>2 DEF Owes, OwesIn
  <1>5. \A c : ~Owes(c)'
    <2>1. ASSUME NEW c, Owes(c)' PROVE FALSE
      <3>1. IsList(Callback) /\ \A i \in 1 .. Len(Callback) : ~OwesIn(Callback[i], c)
        BY SilentCallback DEF Silent, OwesIn
      <3>2. \E i \in 2 .. Len(work) : OwesIn(work[i], c)
        BY <1>1, <1>3, <2>1, <3>1, OwesThen
      <3> QED BY <1>1, <3>2, OneAnswer
    <2> QED BY <2>1
  <1>6. a \in Command =>
          /\ a \in submitted' /\ promise[a] = <<>> /\ ~Pends(a)
          /\ \A t \in Thread : ~Calls(t, a)
    BY <1>3, <1>4 DEF HolderInv, OneHolder
  <1>7. ASSUME NEW c \in Command
        PROVE  /\ \A t \in Thread : Calls(t, c)' => Calls(t, c) /\ c # a
               /\ Pends(c)' => Pends(c) /\ c # a
    BY <1>3, <1>6 DEF Calls, Pends
  <1>8. call' = [t \in Thread |-> call'[t]] /\ \A t \in Thread : CallShape(call'[t])
    BY <1>3 DEF HolderInv
  <1> QED BY <1>3, <1>5, <1>6, <1>7, <1>8, HolderAnswers

\* A new handler owes nothing.
LEMMA HandlerHolders ==
  ASSUME HolderInv, PhaseInv, PhaseInv', ExecutorHandler
  PROVE  HolderInv'
  <1>1. UNCHANGED <<call, submitted, promise, pending>>
    BY DEF ExecutorHandler, ElectionTimer, BroadcastTimer, Votes, Register, NewTerm,
       Heartbeat, AppendEntries, BroadcastResponse, Run, callVars
  <1>2. PlainFrom(work', 1)
    BY HandlerIsPlain DEF PlainList
  <1>3. \A c : ~Owes(c)'
    BY <1>2 DEF Owes, OwesIn, PlainFrom, Plain
  <1> QED BY <1>1, <1>3, HolderStays

-----------------------------------------------------------------------------
(* The calls of commit_command                                              *)

\* The call of t ends or changes, the others stay.
LEMMA CallOf ==
  ASSUME HolderInv, NEW t \in Thread, NEW r, call' = [call EXCEPT ![t] = r], CallShape(r)
  PROVE  /\ call' = [u \in Thread |-> call'[u]] /\ \A u \in Thread : CallShape(call'[u])
         /\ call'[t] = r
         /\ \A u \in Thread : u # t => call'[u] = call[u]
  <1>1. call = [u \in Thread |-> call[u]] /\ \A u \in Thread : CallShape(call[u])
    BY DEF HolderInv
  <1>2. call' = [u \in Thread |-> IF u = t THEN r ELSE call[u]]
    BY <1>1
  <1> QED BY <1>1, <1>2

LEMMA OwesStays ==
  ASSUME work' = work, NEW c
  PROVE  Owes(c)' <=> Owes(c)
  BY DEF Owes, OwesIn

\* A call that is under way has its fields, and holds its promise.
LEMMA CallHolds ==
  ASSUME HolderInv, NEW t \in Thread, call[t].pc \in {"read", "set"}
  PROVE  /\ call[t] # Idle
         /\ call[t] = [pc |-> call[t].pc, command |-> call[t].command,
                       id |-> call[t].id, term |-> call[t].term]
         /\ \A c \in Command :
              c = call[t].command =>
                /\ c \in submitted /\ promise[c] = <<>> /\ ~Pends(c) /\ ~Owes(c)
                /\ \A u \in Thread : Calls(u, c) => u = t
  <1>1. Idle.pc = "idle"
    BY DEF Idle
  <1>2. /\ call[t] # Idle
        /\ call[t] = [pc |-> call[t].pc, command |-> call[t].command,
                      id |-> call[t].id, term |-> call[t].term]
    BY <1>1 DEF HolderInv, CallShape
  <1>3. ASSUME NEW c \in Command, c = call[t].command
        PROVE  /\ c \in submitted /\ promise[c] = <<>> /\ ~Pends(c) /\ ~Owes(c)
               /\ \A u \in Thread : Calls(u, c) => u = t
    <2>1. Calls(t, c) /\ OneHolder(c)
      BY <1>2, <1>3 DEF Calls, HolderInv
    <2> QED BY <2>1 DEF OneHolder
  <1> QED BY <1>2, <1>3

\* The call of t is answered and ends.
LEMMA CallAnswered ==
  ASSUME HolderInv, NEW t \in Thread, call[t].pc \in {"read", "set"}, NEW r,
         SetValue(call[t].command, r), call' = [call EXCEPT ![t] = Idle],
         UNCHANGED <<submitted, pending, work>>
  PROVE  HolderInv'
  <1>1. PICK a : a = call[t].command
    OBVIOUS
  <1>2. /\ call' = [u \in Thread |-> call'[u]] /\ \A u \in Thread : CallShape(call'[u])
        /\ call'[t] = Idle /\ \A u \in Thread : u # t => call'[u] = call[u]
    BY CallOf DEF CallShape
  <1>3. a \in Command =>
          /\ a \in submitted /\ promise[a] = <<>> /\ ~Pends(a) /\ ~Owes(a)
          /\ \A u \in Thread : Calls(u, a) => u = t
    BY <1>1, CallHolds
  <1>4. ASSUME NEW c \in Command
        PROVE  /\ \A u \in Thread : Calls(u, c)' => Calls(u, c) /\ c # a
               /\ Pends(c)' => Pends(c) /\ c # a
               /\ Owes(c)' => Owes(c) /\ c # a
    <2>1. \A u \in Thread : Calls(u, c)' => Calls(u, c) /\ u # t
      BY <1>2 DEF Calls
    <2>2. Pends(c)' => Pends(c)
      BY DEF Pends
    <2>3. Owes(c)' => Owes(c)
      BY OwesStays
    <2> QED BY <1>3, <2>1, <2>2, <2>3
  <1> QED BY <1>1, <1>2, <1>3, <1>4, HolderAnswers

\* The call of t goes on.
LEMMA CallGoesOn ==
  ASSUME HolderInv, NEW t \in Thread, call[t].pc \in {"read", "set"}, NEW r,
         CallShape(r), r # Idle, r.command = call[t].command,
         call' = [call EXCEPT ![t] = r],
         UNCHANGED <<submitted, pending, work, promise>>
  PROVE  HolderInv'
  <1>1. /\ call' = [u \in Thread |-> call'[u]] /\ \A u \in Thread : CallShape(call'[u])
        /\ call'[t] = r /\ \A u \in Thread : u # t => call'[u] = call[u]
    BY CallOf
  <1>2. call[t] # Idle
    BY CallHolds
  <1>3. ASSUME NEW c \in Command PROVE OneHolder(c)'
    <2>1. \A u \in Thread : Calls(u, c)' <=> Calls(u, c)
      BY <1>1, <1>2 DEF Calls
    <2>2. Pends(c)' <=> Pends(c)
      BY DEF Pends
    <2>3. Owes(c)' <=> Owes(c)
      BY OwesStays
    <2> QED BY <2>1, <2>2, <2>3 DEF HolderInv, OneHolder
  <1> QED BY <1>1, <1>3 DEF HolderInv, CallShape

LEMMA CommitCommandHolders ==
  ASSUME HolderInv, NEW t \in Thread, NEW a \in Command, CommitCommand(t, a)
  PROVE  HolderInv'
  <1>1. /\ call[t] = Idle /\ a \notin submitted /\ submitted' = submitted \cup {a}
        /\ UNCHANGED <<pending, work>>
    BY DEF CommitCommand, InApplication
  <1>2. /\ \A u \in Thread : ~Calls(u, a)
        /\ ~Pends(a) /\ ~Owes(a) /\ promise[a] = <<>>
    BY <1>1 DEF HolderInv, OneHolder
  <1>3. \A c \in Command : (Pends(c)' <=> Pends(c)) /\ (Owes(c)' <=> Owes(c))
    BY <1>1, OwesStays DEF Pends
  <1>4. CASE raft = "Leader"
    <2> DEFINE r == [pc |-> "read", command |-> a, id |-> None, term |-> None]
    <2>1. CallShape(r) /\ r # Idle /\ r.command = a
      <3>1. r.pc = "read" /\ r.command = a /\ r.id = None /\ r.term = None
        OBVIOUS
      <3>2. Idle.pc = "idle"
        BY DEF Idle
      <3> QED BY <3>1, <3>2 DEF CallShape
    <2>2. call' = [call EXCEPT ![t] = r] /\ promise' = promise
      BY <1>4 DEF CommitCommand
    <2> HIDE DEF r
    <2>3. /\ call' = [u \in Thread |-> call'[u]] /\ \A u \in Thread : CallShape(call'[u])
          /\ call'[t] = r /\ \A u \in Thread : u # t => call'[u] = call[u]
      BY <2>1, <2>2, CallOf
    <2>4. ASSUME NEW c \in Command PROVE OneHolder(c)'
      <3>1. OneHolder(c)
        BY DEF HolderInv
      <3>2. ASSUME NEW u \in Thread
            PROVE  Calls(u, c)' <=> Calls(u, c) \/ (c = a /\ u = t)
        BY <1>1, <1>2, <2>1, <2>3 DEF Calls
      <3>3. CASE c = a
        BY <1>1, <1>2, <1>3, <2>2, <3>1, <3>2, <3>3 DEF OneHolder
      <3>4. CASE c # a
        BY <1>1, <1>3, <2>2, <3>1, <3>2, <3>4 DEF OneHolder
      <3> QED BY <3>3, <3>4
    <2> QED BY <2>2, <2>3, <2>4 DEF HolderInv, CallShape
  <1>5. CASE raft # "Leader"
    <2>1. SetValue(a, FALSE) /\ call' = [call EXCEPT ![t] = Idle]
      BY <1>5 DEF CommitCommand, CancelCommit
    <2>2. /\ call' = [u \in Thread |-> call'[u]] /\ \A u \in Thread : CallShape(call'[u])
          /\ call'[t] = Idle /\ \A u \in Thread : u # t => call'[u] = call[u]
      BY <2>1, CallOf DEF CallShape
    <2>3. ASSUME NEW c \in Command
          PROVE  /\ \A u \in Thread : Calls(u, c)' => Calls(u, c) /\ c # a
                 /\ Pends(c)' => Pends(c) /\ c # a
                 /\ Owes(c)' => Owes(c) /\ c # a
      <3>1. \A u \in Thread : Calls(u, c)' => Calls(u, c)
        BY <2>2 DEF Calls
      <3> QED BY <1>2, <1>3, <3>1
    <2>4. submitted \subseteq submitted' /\ a \in submitted'
      BY <1>1
    <2> QED BY <1>2, <2>1, <2>2, <2>3, <2>4, HolderAnswers
  <1> QED BY <1>4, <1>5

LEMMA CallStepHolders ==
  ASSUME HolderInv, NEW t \in Thread, CallStep(t)
  PROVE  HolderInv'
  <1>1. call[t].pc \in {"read", "set"} /\ UNCHANGED <<submitted, work>>
    BY DEF CallStep, ReadSize, ReadTerm, CompleteAlone, CheckSize, SetPending, HasEntry
  <1>2. /\ call[t] # Idle
        /\ call[t] = [pc |-> call[t].pc, command |-> call[t].command,
                      id |-> call[t].id, term |-> call[t].term]
    BY <1>1, CallHolds
  <1>3. ASSUME NEW pc \in {"read", "set"}, NEW id, NEW term_, NEW r,
               r = [pc |-> pc, command |-> call[t].command, id |-> id, term |-> term_]
        PROVE  CallShape(r) /\ r # Idle /\ r.command = call[t].command
    <2>1. r.pc = pc /\ r.command = call[t].command /\ r.id = id /\ r.term = term_
      BY <1>3
    <2>2. Idle.pc = "idle"
      BY DEF Idle
    <2> QED BY <1>3, <2>1, <2>2 DEF CallShape
  <1>4. CASE ReadSize(t) \/ ReadTerm(t)
    <2>1. PICK id, term_ :
            call' = [call EXCEPT ![t] = [pc |-> "read", command |-> call[t].command,
                                         id |-> id, term |-> term_]]
      <3>1. CASE ReadSize(t)
        <4>1. [call[t] EXCEPT !.id = Len(log)] =
                [pc |-> "read", command |-> call[t].command, id |-> Len(log),
                 term |-> call[t].term]
          BY <1>2, <3>1 DEF ReadSize
        <4>2. call' = [call EXCEPT ![t] = [call[t] EXCEPT !.id = Len(log)]]
          BY <3>1 DEF ReadSize
        <4> QED BY <4>1, <4>2
      <3>2. CASE ReadTerm(t)
        <4>1. [call[t] EXCEPT !.term = term] =
                [pc |-> "read", command |-> call[t].command, id |-> call[t].id,
                 term |-> term]
          BY <1>2, <3>2 DEF ReadTerm
        <4>2. call' = [call EXCEPT ![t] = [call[t] EXCEPT !.term = term]]
          BY <3>2 DEF ReadTerm
        <4> QED BY <4>1, <4>2
      <3> QED BY <1>4, <3>1, <3>2
    <2>2. PICK r : r = [pc |-> "read", command |-> call[t].command, id |-> id,
                        term |-> term_]
      OBVIOUS
    <2>3. UNCHANGED <<pending, promise>>
      BY <1>4 DEF ReadSize, ReadTerm
    <2> QED BY <1>1, <1>3, <2>1, <2>2, <2>3, CallGoesOn
  <1>5. CASE CompleteAlone(t)
    <2>1. /\ SetValue(call[t].command, TRUE) /\ call' = [call EXCEPT ![t] = Idle]
          /\ pending' = pending
      BY <1>5 DEF CompleteAlone
    <2> QED BY <1>1, <2>1, CallAnswered
  <1>6. CASE CheckSize(t)
    <2>1. pending' = pending
      BY <1>6 DEF CheckSize
    <2>2. CASE call[t].id # Len(log)
      <3>1. SetValue(call[t].command, FALSE) /\ call' = [call EXCEPT ![t] = Idle]
        BY <1>6, <2>2 DEF CheckSize, CancelCommit
      <3> QED BY <1>1, <2>1, <3>1, CallAnswered
    <2>3. CASE call[t].id = Len(log)
      <3>1. PICK r : r = [pc |-> "set", command |-> call[t].command, id |-> call[t].id,
                          term |-> call[t].term]
        OBVIOUS
      <3>2. [call[t] EXCEPT !.pc = "set"] = r
        BY <1>2, <3>1
      <3>3. call' = [call EXCEPT ![t] = [call[t] EXCEPT !.pc = "set"]] /\ promise' = promise
        BY <1>6, <2>3 DEF CheckSize
      <3>4. call' = [call EXCEPT ![t] = r]
        BY <3>2, <3>3
      <3>5. CallShape(r) /\ r # Idle /\ r.command = call[t].command
        BY <1>3, <3>1
      <3> QED BY <1>1, <2>1, <3>3, <3>4, <3>5, CallGoesOn
    <2> QED BY <2>2, <2>3
  <1>7. CASE SetPending(t)
    <2>1. CASE pending # None /\ pending.id = Len(log)
      <3>1. /\ SetValue(call[t].command, FALSE) /\ call' = [call EXCEPT ![t] = Idle]
            /\ pending' = pending
        BY <1>7, <2>1 DEF SetPending, CancelCommit
      <3> QED BY <1>1, <3>1, CallAnswered
    <2>2. CASE ~(pending # None /\ pending.id = Len(log))
      <3>1. /\ pending' = [id |-> call[t].id, term |-> call[t].term,
                           command |-> call[t].command]
            /\ call' = [call EXCEPT ![t] = Idle] /\ promise' = promise
        BY <1>7, <2>2 DEF SetPending
      <3>2. /\ call' = [u \in Thread |-> call'[u]] /\ \A u \in Thread : CallShape(call'[u])
            /\ call'[t] = Idle /\ \A u \in Thread : u # t => call'[u] = call[u]
        BY <3>1, CallOf DEF CallShape
      <3>3. ASSUME NEW c \in Command PROVE OneHolder(c)'
        <4>1. OneHolder(c)
          BY DEF HolderInv
        <4>2. \A u \in Thread : Calls(u, c)' => Calls(u, c) /\ u # t
          BY <3>2 DEF Calls
        <4>3. Pends(c)' => c = call[t].command
          BY <3>1 DEF Pends
        <4>4. Owes(c)' <=> Owes(c)
          BY <1>1, OwesStays
        <4>5. CASE c = call[t].command
          <5>1. /\ c \in submitted /\ promise[c] = <<>> /\ ~Owes(c)
                /\ \A u \in Thread : Calls(u, c) => u = t
            BY <1>1, <4>5, CallHolds
          <5> QED BY <1>1, <3>1, <4>1, <4>2, <4>4, <5>1 DEF OneHolder
        <4>6. CASE c # call[t].command
          BY <1>1, <3>1, <4>1, <4>2, <4>3, <4>4, <4>6 DEF OneHolder
        <4> QED BY <4>5, <4>6
      <3> QED BY <3>1, <3>2, <3>3 DEF HolderInv, CallShape
    <2> QED BY <2>1, <2>2
  <1> QED BY <1>4, <1>5, <1>6, <1>7 DEF CallStep

LEMMA HolderInvariant == Spec => []HolderInv
  <1>1. Init => HolderInv
    <2> SUFFICES ASSUME Init PROVE HolderInv
      OBVIOUS
    <2>1. /\ call = [t \in Thread |-> Idle] /\ promise = [c \in Command |-> <<>>]
          /\ pending = None /\ work = <<<<"handle", "Started">>>>
      BY DEF Init
    <2>2. \A c : ~Owes(c)
      <3>1. \A i \in 1 .. Len(work) : work[i][1] = "handle"
        BY <2>1
      <3> QED BY <3>1 DEF Owes, OwesIn
    <2>3. \A c \in Command : OneHolder(c)
      BY <2>1, <2>2 DEF OneHolder, Calls, Pends
    <2> QED BY <2>1, <2>3 DEF HolderInv, CallShape
  <1>2. HolderInv /\ PhaseInv /\ PhaseInv' /\ [Next]_vars => HolderInv'
    <2> SUFFICES ASSUME HolderInv, PhaseInv, PhaseInv', [Next]_vars PROVE HolderInv'
      OBVIOUS
    <2>1. CASE UNCHANGED vars
      BY <2>1, OwesStays, HolderStays DEF vars, callVars
    <2>2. CASE ExecutorStep
      BY <2>2, SilentHolders, PendingHolders, CommitHolders, RespondHolders
      DEF ExecutorStep
    <2> QED BY <2>1, <2>2, HandlerHolders, CommitCommandHolders, CallStepHolders DEF Next
  <1> QED BY <1>1, <1>2, PhaseInvariant, PTL DEF Spec

\* The promise of a command is set at most once, whatever threads submit
\* commands and whoever completes, cancels or refuses them.
THEOREM PromisesAreSetOnce == Spec => []AnsweredOnce
  <1>1. HolderInv => AnsweredOnce
    BY DEF HolderInv, OneHolder, AnsweredOnce
  <1> QED BY <1>1, HolderInvariant, PTL

=============================================================================
