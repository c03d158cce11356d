----------------------- MODULE ClusterNodeCommitProofs -----------------------
(***************************************************************************)
(* Commits of one node.  First the types, for all constants: every item of *)
(* work has the arguments that its step expects, at the place in the       *)
(* handler where the step can use them.  Then what an application gets     *)
(* that uses the library from the executor only: every command is answered *)
(* or about to be, what is reported as committed was stored, in a term the *)
(* node led, and the copy that the callbacks describe is the log.          *)
(***************************************************************************)
EXTENDS ClusterNodeProofs

\* Terms, and the commits that may be pending.
Terms == 1 .. MaxTerm
Commits == [id : Nat, term : Terms, command : Command]

\* The step x is op with the argument a.
Is(x, op, a) == x[1] = op /\ x[2] = a

\* The arguments of a step; steps on the log belong to requests of other nodes,
\* and there are no calls of an application that does not commit from them.
ItemOK(x) ==
  /\ x[1] = "set_term" => x[2] \in Terms
  /\ x[1] = "respond" => x[2] \in Command /\ x[3] \in BOOLEAN
  /\ x[1] = "commit" => x[2] \in Commits
  /\ x[1] \in {"append", "push"} => x[2] \in Nat /\ x[3] \in Entries
  /\ x[1] \in {"revert", "rollback"} => x[2] \in Nat
  /\ x[1] \in {"append", "revert", "rollback"} => ~alone
  /\ x[1] = "callback" => Recommits

ItemsOK == \A i \in 1 .. Len(work) : ItemOK(work[i])

\* Steps that are done as soon as they are there.
AtOnce(x) ==
  \/ x[1] \in {"set_term", "revert", "rollback", "start_election", "commit"}
  \/ Is(x, "handle", "Timedout")

FirstOnly == \A i \in 2 .. Len(work) : ~AtOnce(work[i])

\* A step that cuts the log finds what it leaves.
CutsFit ==
  work # <<>> /\ work[1][1] \in {"revert", "rollback"} => work[1][2] <= Len(log)

\* A newer term is followed by its event.
TermsAreTold ==
  work # <<>> /\ work[1][1] = "set_term" =>
    Len(work) >= 2 /\ Is(work[2], "handle", "NewTermReceived")

\* An election is started, or will be when the transition is through.
Campaigns(x) == x[1] = "start_election" \/ Is(x, "entry", "Candidate")
Climbs(x) ==
  \/ Campaigns(x)
  \/ Is(x, "handle", "Timedout") /\ raft \in {"Follower", "Candidate"}

ElectionsFit ==
  /\ \A i \in 1 .. Len(work) : Climbs(work[i]) => term < MaxTerm
  /\ work # <<>> /\ work[1][1] = "start_election" => raft = "Candidate"

\* Who was elected has a term.
ElectedHaveTerm ==
  /\ raft = "Candidate" => term >= 1 \/ \E i \in 1 .. Len(work) : Campaigns(work[i])
  /\ \A i \in 1 .. Len(work) : Is(work[i], "enter", "Leader") => term >= 1
  /\ raft = "Leader" => term >= 1
  /\ \A t \in Thread : call[t] # Idle => term >= 1

\* A call has its command, and the parts of its entry that it has read.
CallOK(r) ==
  \/ r = Idle
  \/ /\ r \in [pc : {"read", "set"}, command : Command, id : Nat \cup {None},
               term : Terms \cup {None}]
     /\ r.pc = "set" => r.id \in Nat /\ r.term \in Terms

CallsOK == call = [t \in Thread |-> call[t]] /\ \A t \in Thread : CallOK(call[t])

\* The inductive invariant of the types.
NodeTypeInv ==
  /\ NodeTypeOK /\ CallsOK /\ ItemsOK
  /\ FirstOnly /\ CutsFit /\ TermsAreTold
  /\ ElectionsFit /\ ElectedHaveTerm

-----------------------------------------------------------------------------
(* An application that commits from handlers of the executor only, between  *)
(* its callbacks, on a node that gets no entries of older terms while it    *)
(* leads                                                                    *)

Serial == Caller = {} /\ ~Recommits /\ ~OldEntries

\* A call runs while nothing else does, so what it reads stays.
CallsRunAlone ==
  LET r == call[Executor] IN
  r # Idle => /\ work = <<>> /\ raft = "Leader" /\ registered
              /\ r.id \in {None, Len(log)} /\ r.term \in {None, term}
              /\ r.pc = "set" => r.id = Len(log) /\ r.term = term

\* What is pending is for the next id of a leader, from a term it led.
PendingFits ==
  pending # None => /\ raft = "Leader"
                    /\ pending.id = Len(log) /\ pending.term \in led

\* A node that is alone completes its commits at once.
NonePendsAlone == alone => pending = None /\ call[Executor].pc # "set"

\* What would make it outdated is preceded by the end of the leadership.
EndsLeadership(x) == Is(x, "handle", "LeaderDiscovered") \/ x[1] \in {"exit", "cancel"}
Outdates(x) == x[1] \in {"append", "revert", "rollback", "push", "enter", "commit"}
PendingIsCancelled ==
  \A i \in 1 .. Len(work) :
    Outdates(work[i]) => \/ pending = None
                         \/ \E j \in 1 .. i - 1 : EndsLeadership(work[j])

\* The commit that is completed is for the next id, from a term the node led.
CommitFits ==
  \A i \in 1 .. Len(work) :
    work[i][1] = "commit" => work[i][2].id = Len(log) /\ work[i][2].term \in led

\* A leader was elected in its term, unless it is about to learn of a newer one.
Unseats(x) == Is(x, "handle", "NewTermReceived") \/ x[1] = "enter"
LeaderIsOfTerm ==
  raft = "Leader" => term \in led \/ \E i \in 1 .. Len(work) : Unseats(work[i])

\* Every command that was submitted has an answer or a holder.
HasHolder(c) ==
  promise[c] # <<>> \/ Calls(Executor, c) \/ Owes(c) \/ Pends(c)
HoldersExist == \A c \in submitted : HasHolder(c)

\* The inductive invariant of a serial application, on top of NodeTypeInv.
SerialInv ==
  /\ CallsRunAlone /\ PendingFits /\ NonePendsAlone /\ PendingIsCancelled /\ CommitFits
  /\ LeaderIsOfTerm /\ HoldersExist
  /\ SuccessIsOfLeader /\ (~PutMayFail => SuccessIsStored) /\ CopyFollowsLog

-----------------------------------------------------------------------------
(* Steps of the executor and the rest of its handler                        *)

\* What is to be done after a step follows from it, or was to be done before.
LEMMA ThenItems ==
  ASSUME IsList(work), work # <<>>, NEW steps, IsList(steps), Then(steps)
  PROVE  /\ IsList(work') /\ Len(work) \in Nat \ {0} /\ Len(work') \in Nat
         /\ Len(steps) \in Nat
         /\ work' # <<>> => Len(work') >= 1
         /\ \A i \in 1 .. Len(work') :
              \/ i \in 1 .. Len(steps) /\ work'[i] = steps[i]
              \/ /\ i > Len(steps) /\ i - Len(steps) + 1 \in 2 .. Len(work)
                 /\ work'[i] = work[i - Len(steps) + 1]
         /\ \A i \in 1 .. Len(steps) : i \in 1 .. Len(work') /\ work'[i] = steps[i]
         /\ \A i \in 2 .. Len(work) :
              /\ i + Len(steps) - 1 \in 1 .. Len(work')
              /\ work'[i + Len(steps) - 1] = work[i]
  <1>1. /\ IsList(work') /\ Len(work) \in Nat \ {0} /\ Len(work') \in Nat
        /\ Len(work') = Len(steps) + Len(work) - 1
        /\ \A i \in 1 .. Len(steps) : work'[i] = steps[i]
        /\ \A i \in Len(steps) + 1 .. Len(work') : work'[i] = work[i - Len(steps) + 1]
    BY ThenList
  <1>2. Len(steps) \in Nat
    BY DEF IsList
  <1>3. work' # <<>> => Len(work') >= 1
    BY <1>1 DEF IsList
  <1>4. ASSUME NEW i \in 1 .. Len(work')
        PROVE  \/ i \in 1 .. Len(steps) /\ work'[i] = steps[i]
               \/ /\ i > Len(steps) /\ i - Len(steps) + 1 \in 2 .. Len(work)
                  /\ work'[i] = work[i - Len(steps) + 1]
    BY <1>1, <1>2
  <1>5. ASSUME NEW i \in 2 .. Len(work)
        PROVE  /\ i + Len(steps) - 1 \in 1 .. Len(work')
               /\ work'[i + Len(steps) - 1] = work[i]
    <2>1. i + Len(steps) - 1 \in Len(steps) + 1 .. Len(work')
      BY <1>1, <1>2
    <2>2. (i + Len(steps) - 1) - Len(steps) + 1 = i
      BY <1>2
    <2> QED BY <1>1, <1>2, <2>1, <2>2
  <1>6. \A i \in 1 .. Len(steps) : i \in 1 .. Len(work') /\ work'[i] = steps[i]
    BY <1>1, <1>2
  <1> QED BY <1>1, <1>2, <1>3, <1>4, <1>5, <1>6

\* The parts of NodeTypeInv that are about work.
WorkInv == /\ ItemsOK /\ FirstOnly /\ CutsFit /\ TermsAreTold
           /\ ElectionsFit /\ ElectedHaveTerm

\* Steps that may follow in a handler, without a change of state or term.
MayFollow(steps) ==
  /\ IsList(steps)
  /\ \A i \in 1 .. Len(steps) :
       /\ ItemOK(steps[i])
       /\ i > 1 => ~AtOnce(steps[i])
       /\ steps[i][1] # "set_term"
       /\ steps[i][1] \in {"revert", "rollback"} => steps[i][2] <= Len(log)
       /\ steps[i][1] = "start_election" => raft = "Candidate"
       /\ Climbs(steps[i]) => term < MaxTerm
       /\ Is(steps[i], "enter", "Leader") => term >= 1
  /\ Campaigns(work[1]) => \E i \in 1 .. Len(steps) : Campaigns(steps[i])

\* A handler goes on.  The log changes only where nothing is cut next.
LEMMA WorkGoesOn ==
  ASSUME IsList(work), work # <<>>, WorkInv, UNCHANGED <<alone, raft, term, call>>,
         NEW steps, MayFollow(steps), Then(steps),
         \/ log' = log
         \/ \A i \in 1 .. Len(steps) : steps[i][1] \notin {"revert", "rollback"}
  PROVE  WorkInv'
  <1>1. /\ IsList(work') /\ Len(work) \in Nat \ {0} /\ Len(work') \in Nat
        /\ Len(steps) \in Nat
        /\ work' # <<>> => Len(work') >= 1
        /\ \A i \in 1 .. Len(work') :
             \/ i \in 1 .. Len(steps) /\ work'[i] = steps[i]
             \/ /\ i > Len(steps) /\ i - Len(steps) + 1 \in 2 .. Len(work)
                /\ work'[i] = work[i - Len(steps) + 1]
        /\ \A i \in 1 .. Len(steps) : i \in 1 .. Len(work') /\ work'[i] = steps[i]
        /\ \A i \in 2 .. Len(work) :
             /\ i + Len(steps) - 1 \in 1 .. Len(work')
             /\ work'[i + Len(steps) - 1] = work[i]
    BY ThenItems DEF MayFollow
  <1>2. ItemsOK'
    <2>1. ASSUME NEW i \in 1 .. Len(work') PROVE ItemOK(work'[i])
      BY <1>1 DEF MayFollow, WorkInv, ItemsOK
    <2> QED BY <2>1 DEF ItemsOK, ItemOK
  <1>3. FirstOnly'
    <2>1. ASSUME NEW i \in 2 .. Len(work') PROVE ~AtOnce(work'[i])
      BY <1>1 DEF MayFollow, WorkInv, FirstOnly
    <2> QED BY <2>1 DEF FirstOnly, AtOnce, Is
  <1>4. work' # <<>> => \/ 1 \in 1 .. Len(steps) /\ work'[1] = steps[1]
                        \/ ~AtOnce(work'[1])
    BY <1>1 DEF WorkInv, FirstOnly
  <1>5. CutsFit' /\ TermsAreTold'
    BY <1>4 DEF CutsFit, TermsAreTold, MayFollow, AtOnce
  <1>6. ElectionsFit'
    <2>1. ASSUME NEW i \in 1 .. Len(work'), Climbs(work'[i]) PROVE term < MaxTerm
      <3>1. CASE i \in 1 .. Len(steps) /\ work'[i] = steps[i]
        BY <2>1, <3>1 DEF MayFollow
      <3>2. ASSUME NEW k \in 2 .. Len(work), work'[i] = work[k] PROVE term < MaxTerm
        <4>1. k \in 1 .. Len(work) /\ Climbs(work[k])
          BY <1>1, <2>1, <3>2
        <4> QED BY <4>1 DEF WorkInv, ElectionsFit
      <3> QED BY <1>1, <3>1, <3>2
    <2>2. \A x : Climbs(x)' <=> Climbs(x)
      BY DEF Climbs, Campaigns, Is
    <2>3. work' # <<>> /\ work'[1][1] = "start_election" => raft' = "Candidate"
      BY <1>4 DEF MayFollow, AtOnce
    <2> QED BY <2>1, <2>2, <2>3 DEF ElectionsFit
  <1>7. ElectedHaveTerm'
    <2>1. ASSUME raft = "Candidate", ~(term >= 1)
          PROVE  \E i \in 1 .. Len(work') : Campaigns(work'[i])
      <3>1. PICK k \in 1 .. Len(work) : Campaigns(work[k])
        BY <2>1 DEF WorkInv, ElectedHaveTerm
      <3>2. CASE k = 1
        BY <1>1, <3>1, <3>2 DEF MayFollow
      <3>3. CASE k \in 2 .. Len(work)
        BY <1>1, <3>1, <3>3
      <3> QED BY <1>1, <3>2, <3>3
    <2>2. ASSUME NEW i \in 1 .. Len(work'), Is(work'[i], "enter", "Leader")
          PROVE  term >= 1
      <3>1. CASE i \in 1 .. Len(steps) /\ work'[i] = steps[i]
        BY <2>2, <3>1 DEF MayFollow
      <3>2. ASSUME NEW k \in 2 .. Len(work), work'[i] = work[k] PROVE term >= 1
        <4>1. k \in 1 .. Len(work) /\ Is(work[k], "enter", "Leader")
          BY <1>1, <2>2, <3>2
        <4> QED BY <4>1 DEF WorkInv, ElectedHaveTerm
      <3> QED BY <1>1, <3>1, <3>2
    <2>3. /\ raft = "Leader" => term >= 1
          /\ \A t \in Thread : call[t] # Idle => term >= 1
      BY DEF WorkInv, ElectedHaveTerm
    <2> QED BY <2>1, <2>2, <2>3 DEF ElectedHaveTerm, Campaigns, Is
  <1> QED BY <1>2, <1>3, <1>5, <1>6, <1>7 DEF WorkInv

LEMMA MayFollowNone ==
  ASSUME ~Campaigns(work[1])
  PROVE  MayFollow(<<>>)
  BY DEF MayFollow, IsList

LEMMA MayFollowOne ==
  ASSUME NEW a, ItemOK(a), a[1] # "set_term",
         a[1] \in {"revert", "rollback"} => a[2] <= Len(log),
         a[1] = "start_election" => raft = "Candidate",
         Climbs(a) => term < MaxTerm,
         a[1] # "enter", Campaigns(work[1]) => Campaigns(a)
  PROVE  MayFollow(<<a>>)
  <1> DEFINE s == <<a>>
  <1>1. s \in Seq({a}) /\ Len(s) = 1 /\ s[1] = a
    OBVIOUS
  <1>2. IsList(s)
    BY <1>1, ListOf
  <1>3. ~Is(a, "enter", "Leader")
    BY DEF Is
  <1> HIDE DEF s
  <1>4. MayFollow(s)
    BY <1>1, <1>2, <1>3 DEF MayFollow
  <1> QED BY <1>4 DEF s

\* Steps that neither cut the log nor lead to an election.
Easy(a) ==
  a[1] \in {"callback", "respond", "commit", "tell", "cancel", "broadcast", "push"}

LEMMA MayFollowEasy ==
  ASSUME NEW a, ItemOK(a), Easy(a), ~Campaigns(work[1])
  PROVE  MayFollow(<<a>>)
  <1>1. ~Campaigns(a) /\ ~Climbs(a)
    BY DEF Easy, Campaigns, Climbs, Is
  <1> QED BY <1>1, MayFollowOne DEF Easy

\* The arguments that the fields of other steps need.
LEMMA ItemsWithout ==
  ASSUME NEW x, x[1] \notin {"set_term", "respond", "commit", "append", "push", "revert",
                             "rollback", "callback"}
  PROVE  ItemOK(x)
  BY DEF ItemOK

\* The head of work leads to no election unless it says so.
LEMMA HeadCampaigns ==
  ASSUME work[1][1] \notin {"start_election", "entry"}
  PROVE  ~Campaigns(work[1])
  BY DEF Campaigns, Is

\* What events do to the states.
LEMMA HandleTo ==
  ASSUME NEW s \in Raised, NEW e \in RaftMachine!Event \ {"Terminated"}
  PROVE  /\ RaftMachine!handle(s, e) = "Candidate" /\ s # "Candidate" =>
              s = "Follower" /\ e = "Timedout"
         /\ RaftMachine!handle(s, e) = "Leader" /\ s # "Leader" => s = "Candidate"
         /\ s = "Leader" /\ e \in {"NewTermReceived", "LeaderDiscovered"} =>
              RaftMachine!handle(s, e) = "Follower"
  <1> DEFINE next == {t \in RaftMachine!StateType : <<s, e, t>> \in RaftMachine!Transitions}
  <1>1. \A t \in next : /\ t = "Candidate" => s = "Follower" /\ e = "Timedout"
                        /\ t = "Leader" => s = "Candidate"
                        /\ s = "Leader" => t = "Follower"
    BY DEF RaftMachine!StateType, RaftMachine!Transitions, RaftMachine!StandbyTransitions,
           RaftMachine!FollowerTransitions, RaftMachine!CandidateTransitions,
           RaftMachine!LeaderTransitions, Raised
  <1>2. s = "Leader" /\ e \in {"NewTermReceived", "LeaderDiscovered"} => "Follower" \in next
    BY DEF RaftMachine!StateType, RaftMachine!Transitions, RaftMachine!StandbyTransitions,
           RaftMachine!FollowerTransitions, RaftMachine!CandidateTransitions,
           RaftMachine!LeaderTransitions
  <1>3. next # {} => (CHOOSE t \in next : TRUE) \in next
    OBVIOUS
  <1>4. RaftMachine!handle(s, e) = IF next = {} THEN s ELSE CHOOSE t \in next : TRUE
    BY DEF RaftMachine!handle
  <1> HIDE DEF next
  <1> QED BY <1>1, <1>2, <1>3, <1>4

LEMMA HandleWork ==
  ASSUME PhaseInv, WorkInv, HandleEvent
  PROVE  WorkInv'
  <1>0. PICK e, s : e = work[1][2] /\ s = RaftMachine!handle(raft, e)
    OBVIOUS
  <1>1. /\ IsList(work) /\ work # <<>> /\ Len(work) \in Nat \ {0}
        /\ work[1][1] = "handle" /\ Head(work) = work[1]
    BY DoingFirst DEF PhaseInv, HandleEvent
  <1>2. Then(IF s = raft THEN OnEvent(raft, e) ELSE Transition(s))
    BY <1>0, <1>1 DEF HandleEvent
  <1>3. UNCHANGED <<alone, raft, term, log, call>>
    BY DEF HandleEvent, raftVars, lifeVars, dataVars, callVars
  <1>4. ~Campaigns(work[1])
    BY <1>1, HeadCampaigns
  <1>5. /\ Plain(work[1]) /\ PlainFrom(work, 2)
        /\ (raft = "Standby" /\ e = "Started") \/ raft \in Raised
    <2>1. \/ Starting
          \/ Settled /\ PlainFrom(work, 1)
      BY <1>1 DEF PhaseInv, Resting, Calling, Completing, InTransition, Leaving, Entering,
           Notifying, Telling, Arming
    <2>2. CASE Starting
      BY <1>0, <2>2 DEF Starting, PlainFrom, Plain, RaftMachine!Event
    <2>3. CASE Settled /\ PlainFrom(work, 1)
      BY <1>1, <2>3 DEF PlainFrom, Settled
    <2> QED BY <2>1, <2>2, <2>3
  <1>6. e \in RaftMachine!Event \ {"Terminated"} /\ (s \in Raised \/ s = raft)
    <2>1. e \in RaftMachine!Event \ {"Terminated"}
      BY <1>0, <1>1, <1>5 DEF Plain
    <2> QED BY <1>0, <1>5, <2>1, HandleStarted, HandleRaised DEF Raised
  <1>7. MayFollow(IF s = raft THEN OnEvent(raft, e) ELSE Transition(s))
    <2>1. e = "Timedout" /\ raft \in {"Follower", "Candidate"} => term < MaxTerm
      <3>1. e = "Timedout" /\ raft \in {"Follower", "Candidate"} => Climbs(work[1])
        BY <1>0, <1>1 DEF Climbs, Is
      <3> QED BY <1>1, <3>1 DEF WorkInv, ElectionsFit
    <2>2. CASE s = raft
      <3>1. CASE raft = "Candidate" /\ e = "Timedout"
        <4> DEFINE a == <<"start_election">>
        <4>1. a[1] = "start_election" /\ ItemOK(a)
          BY ItemsWithout
        <4> HIDE DEF a
        <4>2. MayFollow(<<a>>)
          BY <1>4, <2>1, <3>1, <4>1, MayFollowOne
        <4> QED BY <2>2, <3>1, <4>2 DEF OnEvent, a
      <3>2. CASE raft = "Leader" /\ e = "BroadcastTimedout"
        <4>1. ItemOK(<<"broadcast">>) /\ Easy(<<"broadcast">>)
          BY ItemsWithout DEF Easy
        <4>2. MayFollow(<<<<"broadcast">>>>)
          BY <1>4, <4>1, MayFollowEasy
        <4> QED BY <2>2, <3>2, <4>2 DEF OnEvent
      <3>3. CASE ~(raft = "Candidate" /\ e = "Timedout")
                 /\ ~(raft = "Leader" /\ e = "BroadcastTimedout")
        BY <1>4, <2>2, <3>3, MayFollowNone DEF OnEvent
      <3> QED BY <3>1, <3>2, <3>3
    <2>3. CASE s # raft
      <3>1. s = "Candidate" => term < MaxTerm
        <4>1. s = "Candidate" /\ raft \in Raised => raft = "Follower" /\ e = "Timedout"
          BY <1>0, <1>6, <2>3, HandleTo
        <4>2. raft = "Standby" /\ e = "Started" => s = "Follower"
          BY <1>0, HandleStarted
        <4> QED BY <1>5, <2>1, <4>1, <4>2
      <3>2. s = "Leader" => term >= 1
        <4>1. s = "Leader" /\ raft \in Raised => raft = "Candidate"
          BY <1>0, <1>6, <2>3, HandleTo
        <4>2. raft = "Standby" /\ e = "Started" => s = "Follower"
          BY <1>0, HandleStarted
        <4>3. ASSUME NEW i \in 1 .. Len(work) PROVE ~Campaigns(work[i])
          <5>1. CASE i = 1
            BY <1>4, <5>1
          <5>2. CASE i \in 2 .. Len(work)
            BY <1>5, <5>2 DEF WorkInv, FirstOnly, AtOnce, PlainFrom, Plain, Campaigns, Is
          <5> QED BY <1>1, <5>1, <5>2
        <4> QED BY <1>5, <4>1, <4>2, <4>3 DEF WorkInv, ElectedHaveTerm
      <3> DEFINE w == Transition(s)
                 S == {<<"exit">>, <<"enter", s>>, <<"notify", s>>, <<"entry", s>>}
      <3>3. /\ w \in Seq(S) /\ Len(w) = 4 /\ w[1] = <<"exit">> /\ w[2] = <<"enter", s>>
            /\ w[3] = <<"notify", s>> /\ w[4] = <<"entry", s>>
        BY DEF Transition
      <3> HIDE DEF w, S
      <3>4. /\ w[1][1] = "exit" /\ w[2][1] = "enter" /\ w[3][1] = "notify"
            /\ w[4][1] = "entry" /\ w[2][2] = s /\ w[4][2] = s
        BY <3>3
      <3>5. ASSUME NEW i \in 1 .. 4
            PROVE  /\ ItemOK(w[i]) /\ ~AtOnce(w[i])
                   /\ Climbs(w[i]) => term < MaxTerm
                   /\ Is(w[i], "enter", "Leader") => term >= 1
                   /\ w[i][1] \in {"exit", "enter", "notify", "entry"}
        <4>1. w[i][1] \in {"exit", "enter", "notify", "entry"}
          BY <3>4
        <4>2. ItemOK(w[i]) /\ ~AtOnce(w[i])
          BY <4>1, ItemsWithout DEF AtOnce, Is
        <4>3. Climbs(w[i]) => w[i][1] = "entry" /\ s = "Candidate"
          BY <3>4, <4>1 DEF Climbs, Campaigns, Is
        <4>4. Is(w[i], "enter", "Leader") => s = "Leader"
          BY <3>4, <4>1 DEF Is
        <4> QED BY <3>1, <3>2, <4>1, <4>2, <4>3, <4>4
      <3>6. MayFollow(w)
        BY <1>4, <3>3, <3>5, ListOf DEF MayFollow
      <3> QED BY <2>3, <3>6 DEF w
    <2> QED BY <2>2, <2>3
  <1> QED BY <1>1, <1>2, <1>3, <1>7, WorkGoesOn

\* What is pending has its fields.
LEMMA PendingType ==
  ASSUME NodeTypeOK, pending # None
  PROVE  pending \in Commits
  BY DEF NodeTypeOK, Commits, Terms

\* The steps that neither change the state and the term nor lead to an election.
LEMMA EasyWork ==
  ASSUME PhaseInv, NodeTypeOK, WorkInv,
         \/ Exit \/ Cancel \/ Notify \/ Tell \/ Broadcast \/ Revert \/ Rollback \/ Push
         \/ Commit \/ Respond \/ CallbackReturns \/ Answer
  PROVE  WorkInv'
  <1>1. /\ IsList(work) /\ work # <<>> /\ Len(work) \in Nat \ {0} /\ Head(work) = work[1]
        /\ work[1][1] \notin {"start_election", "entry"}
    BY DoingFirst DEF PhaseInv, Exit, Cancel, Notify, Tell, Broadcast, Revert, Rollback,
       Push, Commit, Respond, CallbackReturns, Answer
  <1>2. ~Campaigns(work[1])
    BY <1>1, HeadCampaigns
  <1>3. UNCHANGED <<alone, raft, term, call>>
    BY DEF Exit, Cancel, Notify, Tell, Broadcast, Revert, Rollback, Push, Commit,
       Respond, CallbackReturns, Answer, raftVars, lifeVars, callVars
  <1>4. ASSUME NEW a, ItemOK(a), Easy(a), Then(<<a>>) PROVE WorkInv'
    <2> DEFINE s == <<a>>
    <2>1. Len(s) = 1 /\ s[1] = a /\ MayFollow(s) /\ Then(s)
      BY <1>2, <1>4, MayFollowEasy
    <2> HIDE DEF s
    <2>2. \A i \in 1 .. Len(s) : s[i][1] \notin {"revert", "rollback"}
      BY <1>4, <2>1 DEF Easy
    <2> QED BY <1>1, <1>3, <2>1, <2>2, WorkGoesOn
  <1>5. ASSUME Then(<<>>) PROVE WorkInv'
    <2>1. \A i \in 1 .. Len(<<>>) : FALSE
      OBVIOUS
    <2> QED BY <1>1, <1>2, <1>3, <1>5, <2>1, MayFollowNone, WorkGoesOn
  <1>6. ASSUME Then(Callback) PROVE WorkInv'
    <2>1. CASE Recommits
      <3>1. ItemOK(<<"callback">>) /\ Easy(<<"callback">>)
        BY <2>1 DEF ItemOK, Easy
      <3> QED BY <1>4, <1>6, <2>1, <3>1 DEF Callback
    <2>2. CASE ~Recommits
      BY <1>5, <1>6, <2>2 DEF Callback
    <2> QED BY <2>1, <2>2
  <1>7. CASE Exit
    <2>1. ItemOK(<<"cancel">>) /\ Easy(<<"cancel">>)
      BY ItemsWithout DEF Easy
    <2> QED BY <1>4, <1>5, <1>7, <2>1 DEF Exit
  <1>8. CASE Cancel
    <2>1. CASE pending = None
      BY <1>5, <1>8, <2>1 DEF Cancel
    <2>2. CASE pending # None
      <3> DEFINE a == <<"respond", pending.command, FALSE>>
      <3>1. pending.command \in Command
        BY <2>2, PendingType DEF Commits
      <3>2. ItemOK(a) /\ Easy(a)
        BY <3>1 DEF ItemOK, Easy
      <3>3. Then(<<a>>)
        BY <1>8, <2>2 DEF Cancel
      <3> HIDE DEF a
      <3> QED BY <1>4, <3>2, <3>3
    <2> QED BY <2>1, <2>2
  <1>9. CASE Notify
    <2>1. ASSUME NEW l PROVE ItemOK(<<"tell", l>>) /\ Easy(<<"tell", l>>)
      BY ItemsWithout DEF Easy
    <2> QED BY <1>4, <1>5, <1>9, <2>1 DEF Notify
  <1>10. CASE Tell \/ Broadcast \/ Revert \/ Rollback \/ Push \/ Respond \/ CallbackReturns
    <2>1. Then(<<>>) \/ Then(Callback)
      BY <1>10 DEF Tell, Broadcast, Revert, Rollback, Push, Respond, CallbackReturns
    <2> QED BY <1>5, <1>6, <2>1
  <1>11. CASE Answer
    <2>1. CASE Then(<<>>)
      BY <1>5, <2>1
    <2>2. CASE pending # None /\ Then(<<<<"commit", pending>>>>)
      <3>1. pending \in Commits
        BY <2>2, PendingType
      <3>2. ItemOK(<<"commit", pending>>) /\ Easy(<<"commit", pending>>)
        BY <3>1 DEF ItemOK, Easy
      <3> QED BY <1>4, <2>2, <3>2
    <2> QED BY <1>11, <2>1, <2>2 DEF Answer
  <1>12. CASE Commit
    <2>1. PICK a : a = <<"respond", Head(work)[2].command, TRUE>>
      OBVIOUS
    <2>2. work[1][1] = "commit" /\ ItemOK(work[1])
      BY <1>1, <1>12, DoingFirst DEF Commit, WorkInv, ItemsOK
    <2>3. Head(work)[2].command \in Command
      BY <1>1, <2>2 DEF ItemOK, Commits
    <2>4. a[1] = "respond" /\ ItemOK(a) /\ Easy(a)
      BY <2>1, <2>3 DEF ItemOK, Easy
    <2>5. Then(Callback \o <<a>>)
      BY <1>12, <2>1 DEF Commit
    <2>6. CASE ~Recommits
      <3>1. <<>> \o <<a>> = <<a>>
        OBVIOUS
      <3> QED BY <1>4, <2>4, <2>5, <2>6, <3>1 DEF Callback
    <2>7. CASE Recommits
      <3> DEFINE b == <<"callback">>
      <3>1. b[1] = "callback" /\ ItemOK(b)
        BY <2>7 DEF ItemOK
      <3> HIDE DEF b
      <3> DEFINE s == <<b, a>>
      <3>2. s \in Seq({a, b}) /\ Len(s) = 2 /\ s[1] = b /\ s[2] = a
        OBVIOUS
      <3>3. Then(s)
        BY <2>5, <2>7, PairOf DEF Callback, b
      <3> HIDE DEF s
      <3>4. ASSUME NEW i \in 1 .. 2
            PROVE  ItemOK(s[i]) /\ s[i][1] \in {"callback", "respond"}
        BY <2>4, <3>1, <3>2
      <3>5. ASSUME NEW i \in 1 .. 2
            PROVE  ~AtOnce(s[i]) /\ ~Climbs(s[i]) /\ ~Is(s[i], "enter", "Leader")
        BY <3>4 DEF AtOnce, Climbs, Campaigns, Is
      <3>6. MayFollow(s)
        BY <1>2, <3>2, <3>4, <3>5, ListOf DEF MayFollow
      <3>7. \A i \in 1 .. Len(s) : s[i][1] \notin {"revert", "rollback"}
        BY <3>2, <3>4
      <3> QED BY <1>1, <1>3, <3>3, <3>6, <3>7, WorkGoesOn
    <2> QED BY <2>6, <2>7
  <1> QED BY <1>7, <1>8, <1>9, <1>10, <1>11, <1>12

LEMMA EntryWork ==
  ASSUME PhaseInv, WorkInv, Entry
  PROVE  WorkInv'
  <1>1. /\ IsList(work) /\ work # <<>> /\ Len(work) \in Nat \ {0}
        /\ work[1][1] = "entry" /\ Head(work) = work[1]
    BY DoingFirst DEF PhaseInv, Entry
  <1>2. UNCHANGED <<alone, raft, term, log, call>>
    BY DEF Entry, lifeVars, dataVars, callVars
  <1>3. PICK s \in Raised : Arming(s)
    BY <1>1 DEF PhaseInv, Starting, Resting, Calling, Completing, InTransition, Leaving,
       Entering, Notifying, Telling, PlainFrom, Plain
  <1>4. work[1][2] = s /\ raft = s
    BY <1>3 DEF Arming
  <1>5. CASE s = "Candidate"
    <2> DEFINE a == <<"start_election">>
    <2>1. a[1] = "start_election" /\ ItemOK(a) /\ Campaigns(a)
      BY ItemsWithout DEF Campaigns
    <2>2. Then(<<a>>)
      BY <1>1, <1>4, <1>5 DEF Entry
    <2> HIDE DEF a
    <2>3. Climbs(work[1])
      BY <1>1, <1>4, <1>5 DEF Climbs, Campaigns, Is
    <2>4. term < MaxTerm
      BY <1>1, <2>3 DEF WorkInv, ElectionsFit
    <2>5. MayFollow(<<a>>)
      BY <1>4, <1>5, <2>1, <2>4, MayFollowOne
    <2> QED BY <1>1, <1>2, <2>2, <2>5, WorkGoesOn
  <1>6. CASE s # "Candidate"
    <2>1. Then(<<>>)
      BY <1>1, <1>4, <1>6 DEF Entry
    <2>2. ~Campaigns(work[1])
      BY <1>1, <1>4, <1>6 DEF Campaigns, Is
    <2> QED BY <1>1, <1>2, <2>1, <2>2, MayFollowNone, WorkGoesOn
  <1> QED BY <1>5, <1>6

\* request_local_commit and its caller cut the log at an id that it has.
LEMMA AppendWork ==
  ASSUME PhaseInv, NodeTypeOK, WorkInv, AppendEntry
  PROVE  WorkInv'
  <1>1. /\ IsList(work) /\ work # <<>> /\ Len(work) \in Nat \ {0}
        /\ work[1][1] = "append" /\ Head(work) = work[1]
    BY DoingFirst DEF PhaseInv, AppendEntry
  <1>2. UNCHANGED <<alone, raft, term, log, call>>
    BY DEF AppendEntry, raftVars, lifeVars, dataVars, callVars
  <1>3. ~Campaigns(work[1])
    BY <1>1, HeadCampaigns
  <1>4. PICK id, e, p : id = work[1][2] /\ e = work[1][3] /\ p = work[1][4]
    OBVIOUS
  <1>5. id \in Nat /\ e \in Entries /\ ~alone /\ Len(log) \in Nat
    <2>1. ItemOK(work[1])
      BY <1>1 DEF WorkInv, ItemsOK
    <2> QED BY <1>1, <1>4, <2>1 DEF ItemOK, NodeTypeOK
  <1> DEFINE push == <<"push", id, e>>
             revert == <<"revert", id>>
             rollback == <<"rollback", id - 1>>
  <1>6. /\ push[1] = "push" /\ ItemOK(push)
        /\ revert[1] = "revert" /\ revert[2] = id /\ ItemOK(revert)
        /\ rollback[1] = "rollback" /\ rollback[2] = id - 1
        /\ id # 0 => ItemOK(rollback)
    BY <1>5 DEF ItemOK
  <1>7. /\ Then(IF id = 0 THEN LocalCommit(id, e)
                ELSE IF id > Len(log) THEN <<>>
                ELSE IF log[id].term # p THEN <<rollback>>
                ELSE LocalCommit(id, e))
        /\ \/ LocalCommit(id, e) = <<>>
           \/ LocalCommit(id, e) = <<revert>> \o <<push>> /\ Len(log) > id
           \/ LocalCommit(id, e) = <<>> \o <<push>>
    BY <1>1, <1>4 DEF AppendEntry, LocalCommit
  <1> HIDE DEF push, revert, rollback
  <1>8. /\ <<revert>> \o <<push>> = <<revert, push>>
        /\ <<>> \o <<push>> = <<push>>
    BY PairOf
  <1>9. \/ Then(<<>>) \/ Then(<<push>>)
        \/ Then(<<revert, push>>) /\ Len(log) > id
        \/ Then(<<rollback>>) /\ id # 0 /\ id <= Len(log)
    <2>1. \/ LocalCommit(id, e) = <<>> \/ LocalCommit(id, e) = <<push>>
          \/ LocalCommit(id, e) = <<revert, push>> /\ Len(log) > id
      BY <1>7, <1>8
    <2>2. CASE id = 0
      BY <1>7, <2>1, <2>2
    <2>3. CASE id # 0 /\ id > Len(log)
      BY <1>7, <2>3
    <2>4. CASE id # 0 /\ ~(id > Len(log))
      <3>1. id <= Len(log)
        BY <1>5, <2>4
      <3>2. Then(<<rollback>>) \/ Then(LocalCommit(id, e))
        BY <1>7, <2>4
      <3> QED BY <2>1, <2>4, <3>1, <3>2
    <2> QED BY <2>2, <2>3, <2>4
  <1>10. CASE Then(<<>>)
    BY <1>1, <1>2, <1>3, <1>10, MayFollowNone, WorkGoesOn
  <1>11. CASE Then(<<push>>)
    <2>1. Easy(push)
      BY <1>6 DEF Easy
    <2> QED BY <1>1, <1>2, <1>3, <1>6, <1>11, <2>1, MayFollowEasy, WorkGoesOn
  <1>12. CASE Then(<<rollback>>) /\ id # 0 /\ id <= Len(log)
    <2>1. ~Climbs(rollback) /\ ItemOK(rollback) /\ rollback[2] <= Len(log)
      BY <1>5, <1>6, <1>12 DEF Climbs, Campaigns, Is
    <2>2. MayFollow(<<rollback>>)
      BY <1>3, <1>6, <2>1, MayFollowOne
    <2> QED BY <1>1, <1>2, <1>12, <2>2, WorkGoesOn
  <1>13. CASE Then(<<revert, push>>) /\ Len(log) > id
    <2> DEFINE s == <<revert, push>>
    <2>1. s \in Seq({revert, push}) /\ Len(s) = 2 /\ s[1] = revert /\ s[2] = push
      OBVIOUS
    <2>2. Then(s)
      BY <1>13
    <2> HIDE DEF s
    <2>3. ASSUME NEW i \in 1 .. 2
          PROVE  ItemOK(s[i]) /\ s[i][1] \in {"revert", "push"}
      BY <1>6, <2>1
    <2>4. ~AtOnce(s[2])
      BY <1>6, <2>1 DEF AtOnce, Is
    <2>5. ASSUME NEW i \in 1 .. 2
          PROVE  /\ ~Climbs(s[i]) /\ ~Is(s[i], "enter", "Leader")
                 /\ s[i][1] = "revert" => s[i][2] <= Len(log)
      BY <1>5, <1>6, <1>13, <2>1, <2>3 DEF Climbs, Campaigns, Is
    <2>6. MayFollow(s)
      BY <1>3, <2>1, <2>3, <2>4, <2>5, ListOf DEF MayFollow
    <2> QED BY <1>1, <1>2, <2>2, <2>6, WorkGoesOn
  <1> QED BY <1>9, <1>10, <1>11, <1>12, <1>13

\* The state changes, with entry() still to come.
LEMMA EnterWork ==
  ASSUME PhaseInv, WorkInv, Enter
  PROVE  WorkInv'
  <1>1. /\ IsList(work) /\ work # <<>> /\ Len(work) \in Nat \ {0}
        /\ work[1][1] = "enter" /\ Head(work) = work[1]
    BY DoingFirst DEF PhaseInv, Enter
  <1>2. UNCHANGED <<alone, term, log, call>> /\ raft' = work[1][2]
    BY <1>1 DEF Enter, lifeVars, dataVars, callVars
  <1>3. PICK s \in Raised : Entering(s)
    BY <1>1 DEF PhaseInv, Starting, Resting, Calling, Completing, InTransition, Leaving,
       Notifying, Telling, Arming, PlainFrom, Plain
  <1>4. /\ IsList(work') /\ Len(work') = Len(work) - 1 /\ Len(work') \in Nat
        /\ \A i \in 1 .. Len(work') : i + 1 \in 2 .. Len(work) /\ work'[i] = work[i + 1]
    BY <1>1, ThenNothing DEF Enter
  <1>5. /\ raft' = s /\ Len(work') >= 2 /\ work'[1][1] = "notify"
        /\ Is(work[1], "enter", s) /\ Is(work'[2], "entry", s)
    BY <1>2, <1>3, <1>4 DEF Entering, Is
  <1>6. ItemsOK' /\ FirstOnly'
    <2>1. ASSUME NEW i \in 1 .. Len(work') PROVE ItemOK(work'[i]) /\ ~AtOnce(work'[i])
      BY <1>1, <1>4 DEF WorkInv, ItemsOK, FirstOnly
    <2>2. \A x : ItemOK(x)' <=> ItemOK(x)
      BY <1>2 DEF ItemOK
    <2>3. \A x : AtOnce(x)' <=> AtOnce(x)
      BY DEF AtOnce, Is
    <2> QED BY <1>4, <2>1, <2>2, <2>3 DEF ItemsOK, FirstOnly
  <1>7. CutsFit' /\ TermsAreTold'
    BY <1>5 DEF CutsFit, TermsAreTold
  <1>8. ElectionsFit'
    <2>1. ASSUME NEW i \in 1 .. Len(work'), Climbs(work[i])' PROVE term < MaxTerm
      <3>1. i + 1 \in 1 .. Len(work) /\ work'[i] = work[i + 1] /\ ~AtOnce(work[i + 1])
        BY <1>1, <1>4 DEF WorkInv, FirstOnly
      <3>2. Climbs(work[i + 1])
        BY <2>1, <3>1 DEF Climbs, Campaigns, AtOnce, Is
      <3> QED BY <3>1, <3>2 DEF WorkInv, ElectionsFit
    <2> QED BY <1>2, <1>5, <2>1 DEF ElectionsFit
  <1>9. ElectedHaveTerm'
    <2>1. raft' = "Candidate" => \E i \in 1 .. Len(work') : Campaigns(work[i])'
      BY <1>4, <1>5 DEF Campaigns, Is
    <2>2. raft' = "Leader" => term >= 1
      BY <1>1, <1>5 DEF WorkInv, ElectedHaveTerm
    <2>3. ASSUME NEW i \in 1 .. Len(work'), Is(work'[i], "enter", "Leader") PROVE term >= 1
      <3>1. i + 1 \in 1 .. Len(work) /\ Is(work[i + 1], "enter", "Leader")
        BY <1>1, <1>4, <2>3
      <3> QED BY <3>1 DEF WorkInv, ElectedHaveTerm
    <2>4. \A t \in Thread : call[t] # Idle => term >= 1
      BY DEF WorkInv, ElectedHaveTerm
    <2> QED BY <1>2, <2>1, <2>2, <2>3, <2>4 DEF ElectedHaveTerm, Is
  <1> QED BY <1>6, <1>7, <1>8, <1>9 DEF WorkInv

\* The term changes, where no election is to come.
LEMMA TermWork ==
  ASSUME PhaseInv, NodeTypeOK, WorkInv, SetTerm \/ StartElection
  PROVE  WorkInv' /\ term' \in Terms
  <1>1. /\ IsList(work) /\ work # <<>> /\ Len(work) \in Nat \ {0}
        /\ work[1][1] \in {"set_term", "start_election"} /\ Head(work) = work[1]
    BY DoingFirst DEF PhaseInv, SetTerm, StartElection
  <1>2. UNCHANGED <<alone, raft, log, call>>
    BY DEF SetTerm, StartElection, lifeVars, dataVars, callVars
  <1>3. PlainFrom(work, 2)
    BY <1>1, PlainHead DEF Plain, Starting, PlainFrom
  <1>4. term' \in Terms
    <2>1. CASE SetTerm
      <3>1. work[1][1] = "set_term" /\ ItemOK(work[1]) /\ term' = work[1][2]
        BY <1>1, <2>1, DoingFirst DEF SetTerm, WorkInv, ItemsOK
      <3> QED BY <3>1 DEF ItemOK
    <2>2. CASE StartElection
      <3>1. work[1][1] = "start_election" /\ term' = term + 1
        BY <1>1, <2>2, DoingFirst DEF StartElection
      <3>2. Climbs(work[1])
        BY <3>1 DEF Climbs, Campaigns
      <3>3. term < MaxTerm /\ term \in 0 .. MaxTerm
        BY <1>1, <3>2 DEF WorkInv, ElectionsFit, NodeTypeOK
      <3> QED BY <3>1, <3>3, NodeConstants DEF Terms
    <2> QED BY <2>1, <2>2
  <1>5. PICK s : /\ IsList(s) /\ Then(s)
                 /\ \A i \in 1 .. Len(s) : Is(s[i], "handle", "Elected")
    <2> DEFINE a == <<"handle", "Elected">>
               s == <<a>>
    <2>1. Is(a, "handle", "Elected")
      BY DEF Is
    <2> HIDE DEF a
    <2>2. s \in Seq({a}) /\ Len(s) = 1 /\ s[1] = a
      OBVIOUS
    <2> HIDE DEF s
    <2>3. IsList(s) /\ \A i \in 1 .. Len(s) : Is(s[i], "handle", "Elected")
      BY <2>1, <2>2, ListOf
    <2>4. IsList(<<>>) /\ \A i \in 1 .. Len(<<>>) : FALSE
      BY DEF IsList
    <2>5. Then(<<>>) \/ Then(s)
      BY DEF SetTerm, StartElection, s, a
    <2> QED BY <2>3, <2>4, <2>5
  <1>6. /\ IsList(work') /\ Len(work') \in Nat /\ Len(s) \in Nat
        /\ work' # <<>> => Len(work') >= 1
        /\ \A i \in 1 .. Len(work') :
             \/ i \in 1 .. Len(s) /\ work'[i] = s[i]
             \/ /\ i > Len(s) /\ i - Len(s) + 1 \in 2 .. Len(work)
                /\ work'[i] = work[i - Len(s) + 1]
    BY <1>1, <1>5, ThenItems
  <1>7. ASSUME NEW i \in 1 .. Len(work')
        PROVE  /\ ItemOK(work'[i]) /\ ~AtOnce(work'[i]) /\ ~Campaigns(work'[i])
               /\ ~Is(work'[i], "enter", "Leader")
    <2>1. CASE i \in 1 .. Len(s) /\ work'[i] = s[i]
      <3>1. Is(work'[i], "handle", "Elected")
        BY <1>5, <2>1
      <3> QED BY <3>1, ItemsWithout DEF AtOnce, Campaigns, Is
    <2>2. ASSUME NEW k \in 2 .. Len(work), work'[i] = work[k]
          PROVE  /\ ItemOK(work'[i]) /\ ~AtOnce(work'[i]) /\ ~Campaigns(work'[i])
                 /\ ~Is(work'[i], "enter", "Leader")
      <3>1. ItemOK(work[k]) /\ ~AtOnce(work[k]) /\ Plain(work[k])
        BY <1>1, <1>3, <2>2 DEF WorkInv, ItemsOK, FirstOnly, PlainFrom
      <3> QED BY <2>2, <3>1 DEF Plain, AtOnce, Campaigns, Is
    <2> QED BY <1>6, <2>1, <2>2
  <1>8. ItemsOK' /\ FirstOnly'
    <2>1. \A x : ItemOK(x)' <=> ItemOK(x)
      BY <1>2 DEF ItemOK
    <2>2. \A x : AtOnce(x)' <=> AtOnce(x)
      BY DEF AtOnce, Is
    <2> QED BY <1>6, <1>7, <2>1, <2>2 DEF ItemsOK, FirstOnly
  <1>9. work' # <<>> => ~AtOnce(work'[1])
    BY <1>6, <1>7
  <1>10. CutsFit' /\ TermsAreTold'
    BY <1>9 DEF CutsFit, TermsAreTold, AtOnce
  <1>11. ElectionsFit'
    <2>1. \A i \in 1 .. Len(work') : ~Climbs(work[i])'
      BY <1>7 DEF Climbs, Campaigns, AtOnce, Is
    <2> QED BY <1>9, <2>1 DEF ElectionsFit, AtOnce
  <1>12. ElectedHaveTerm'
    BY <1>4, NodeConstants DEF ElectedHaveTerm, Terms
  <1> QED BY <1>4, <1>8, <1>10, <1>11, <1>12 DEF WorkInv

LEMMA ExecutorWork ==
  ASSUME PhaseInv, NodeTypeOK, WorkInv, ExecutorStep
  PROVE  WorkInv'
  BY HandleWork, EasyWork, EntryWork, AppendWork, EnterWork, TermWork DEF ExecutorStep

-----------------------------------------------------------------------------
(* New handlers                                                             *)

LEMMA Snoc ==
  ASSUME NEW s, IsList(s), NEW a
  PROVE  /\ IsList(s \o <<a>>) /\ Len(s) \in Nat /\ Len(s \o <<a>>) = Len(s) + 1
         /\ (s \o <<a>>)[Len(s) + 1] = a
         /\ \A i \in 1 .. Len(s) : (s \o <<a>>)[i] = s[i]
  <1> DEFINE u == <<a>>
             S == {s[i] : i \in 1 .. Len(s)} \cup {a}
  <1>1. u \in Seq(S) /\ Len(u) = 1 /\ u[1] = a
    OBVIOUS
  <1>2. s \in Seq(S) /\ Len(s) \in Nat
    BY DEF IsList
  <1> HIDE DEF u, S
  <1>3. /\ s \o u \in Seq(S) /\ Len(s \o u) = Len(s) + Len(u)
        /\ \A i \in 1 .. Len(s) + Len(u) :
             (s \o u)[i] = IF i <= Len(s) THEN s[i] ELSE u[i - Len(s)]
    BY <1>1, <1>2, ConcatProperties
  <1>4. (s \o u)[Len(s) + 1] = a /\ \A i \in 1 .. Len(s) : (s \o u)[i] = s[i]
    BY <1>1, <1>2, <1>3
  <1>5. IsList(s \o u)
    BY <1>3, ListOf
  <1> QED BY <1>1, <1>2, <1>3, <1>4, <1>5 DEF u

\* Steps that a handler may begin with.
Begins(s) ==
  /\ IsList(s)
  /\ \A i \in 1 .. Len(s) :
       /\ ItemOK(s[i])
       /\ i > 1 => ~AtOnce(s[i])
       /\ s[i][1] \notin {"revert", "rollback", "start_election", "enter", "entry"}
       /\ Climbs(s[i]) => term < MaxTerm
  /\ Len(s) >= 1 /\ s[1][1] = "set_term" =>
       Len(s) >= 2 /\ Is(s[2], "handle", "NewTermReceived")

LEMMA BeginsNone == Begins(<<>>)
  BY DEF Begins, IsList

LEMMA BeginsOne ==
  ASSUME NEW a, ItemOK(a), a[1] \in {"handle", "append", "answer"},
         Is(a, "handle", "Timedout") /\ raft \in {"Follower", "Candidate"} =>
           term < MaxTerm
  PROVE  Begins(<<a>>)
  <1> DEFINE s == <<a>>
  <1>1. s \in Seq({a}) /\ Len(s) = 1 /\ s[1] = a
    OBVIOUS
  <1>2. Climbs(a) => term < MaxTerm
    BY DEF Climbs, Campaigns, Is
  <1> HIDE DEF s
  <1>3. Begins(s)
    BY <1>1, <1>2, ListOf DEF Begins
  <1> QED BY <1>3 DEF s

LEMMA BeginsSnoc ==
  ASSUME NEW s, Begins(s), NEW a, ItemOK(a), a[1] \in {"handle", "append", "answer"},
         ~Is(a, "handle", "Timedout")
  PROVE  Begins(s \o <<a>>)
  <1> DEFINE w == s \o <<a>>
  <1>1. /\ IsList(w) /\ Len(s) \in Nat /\ Len(w) = Len(s) + 1
        /\ w[Len(s) + 1] = a
        /\ \A i \in 1 .. Len(s) : w[i] = s[i]
    BY Snoc DEF Begins
  <1> HIDE DEF w
  <1>2. ~AtOnce(a) /\ ~Climbs(a)
    BY DEF AtOnce, Climbs, Campaigns, Is
  <1>3. ASSUME NEW i \in 1 .. Len(w)
        PROVE  /\ ItemOK(w[i])
               /\ i > 1 => ~AtOnce(w[i])
               /\ w[i][1] \notin {"revert", "rollback", "start_election", "enter", "entry"}
               /\ Climbs(w[i]) => term < MaxTerm
    <2>1. CASE i = Len(s) + 1
      BY <1>1, <1>2, <2>1
    <2>2. CASE i \in 1 .. Len(s)
      BY <1>1, <2>2 DEF Begins
    <2> QED BY <1>1, <2>1, <2>2
  <1>4. ASSUME Len(w) >= 1, w[1][1] = "set_term"
        PROVE  Len(w) >= 2 /\ Is(w[2], "handle", "NewTermReceived")
    <2>1. Len(s) >= 1
      BY <1>1, <1>4
    <2>2. s[1][1] = "set_term"
      BY <1>1, <1>4, <2>1
    <2> QED BY <1>1, <2>1, <2>2 DEF Begins
  <1>5. Begins(w)
    BY <1>1, <1>3, <1>4 DEF Begins
  <1> QED BY <1>5 DEF w

\* update_term, as far as a handler has to do it.
LEMMA UpdateTermBegins ==
  ASSUME NEW t \in Terms
  PROVE  Begins(UpdateTerm(t))
  <1> DEFINE a == <<"set_term", t>>
             b == <<"handle", "NewTermReceived">>
  <1>1. /\ a[1] = "set_term" /\ ItemOK(a) /\ Is(b, "handle", "NewTermReceived")
        /\ ItemOK(b)
    BY DEF ItemOK, Is
  <1>2. UpdateTerm(t) = <<a, b>> \/ UpdateTerm(t) = <<>>
    BY DEF UpdateTerm
  <1> HIDE DEF a, b
  <1> DEFINE s == <<a, b>>
  <1>3. s \in Seq({a, b}) /\ Len(s) = 2 /\ s[1] = a /\ s[2] = b
    OBVIOUS
  <1> HIDE DEF s
  <1>4. /\ ~Climbs(a) /\ ~Climbs(b) /\ ~AtOnce(b)
        /\ a[1] \notin {"revert", "rollback", "start_election", "enter", "entry"}
        /\ b[1] \notin {"revert", "rollback", "start_election", "enter", "entry"}
    BY <1>1 DEF Climbs, Campaigns, AtOnce, Is
  <1>5. \A i \in 1 .. 2 : (s[i] = a /\ i = 1) \/ s[i] = b
    BY <1>3
  <1>6. Begins(s)
    BY <1>1, <1>3, <1>4, <1>5, ListOf DEF Begins
  <1> QED BY <1>2, <1>6, BeginsNone DEF s

LEMMA DiscoverBegins ==
  ASSUME NEW t \in Terms
  PROVE  Begins(Discover(t))
  <1> DEFINE a == <<"handle", "LeaderDiscovered">>
  <1>1. a[1] = "handle" /\ ItemOK(a) /\ ~Is(a, "handle", "Timedout")
    BY DEF ItemOK, Is
  <1>2. Discover(t) = <<>> \/ Discover(t) = UpdateTerm(t) \o <<a>>
    BY DEF Discover
  <1> HIDE DEF a
  <1> QED BY <1>1, <1>2, BeginsNone, UpdateTermBegins, BeginsSnoc

LEMMA HandlerBegins ==
  ASSUME ExecutorHandler
  PROVE  Begins(work') /\ UNCHANGED <<alone, raft, term, log, call>>
  <1>1. UNCHANGED <<alone, raft, term, log, call>>
    BY DEF ExecutorHandler, ElectionTimer, BroadcastTimer, Votes, Register, NewTerm,
       Heartbeat, AppendEntries, BroadcastResponse, Run, raftVars, lifeVars, dataVars,
       callVars
  <1>2. ASSUME NEW e, e # "Timedout" PROVE Begins(<<<<"handle", e>>>>)
    <2> DEFINE a == <<"handle", e>>
    <2>1. a[1] = "handle" /\ ItemOK(a) /\ ~Is(a, "handle", "Timedout")
      BY <1>2 DEF ItemOK, Is
    <2> HIDE DEF a
    <2>2. Begins(<<a>>)
      BY <2>1, BeginsOne
    <2> QED BY <2>2 DEF a
  <1>3. CASE ElectionTimer
    <2> DEFINE a == <<"handle", "Timedout">>
    <2>1. a[1] = "handle" /\ ItemOK(a)
      BY DEF ItemOK
    <2>2. work' = <<a>> /\ (raft \in {"Follower", "Candidate"} => term < MaxTerm)
      BY <1>3 DEF ElectionTimer, Run
    <2> HIDE DEF a
    <2> QED BY <1>1, <2>1, <2>2, BeginsOne
  <1>4. CASE BroadcastTimer \/ Votes
    BY <1>1, <1>2, <1>4 DEF BroadcastTimer, Votes, Run
  <1>5. CASE Register
    BY <1>1, <1>5, BeginsNone DEF Register, Waiting
  <1>6. ASSUME NEW t \in Terms, NewTerm(t) \/ Heartbeat(t) PROVE Begins(work')
    BY <1>6, UpdateTermBegins, DiscoverBegins DEF NewTerm, Heartbeat, Run
  <1>7. ASSUME NEW t \in Terms, NEW p \in Terms, NEW id \in 0 .. MaxLog - 1, NEW c \in Remote,
               AppendEntries(t, id, c, p)
        PROVE  Begins(work')
    <2> DEFINE a == <<"append", id, [term |-> t, command |-> c], p>>
    <2>1. id \in Nat /\ [term |-> t, command |-> c] \in Entries
      BY NodeConstants DEF Entries, Terms
    <2>2. a[1] = "append" /\ a[2] = id /\ a[3] = [term |-> t, command |-> c] /\ ~alone
      BY <1>7 DEF AppendEntries
    <2>3. work' = Discover(t) \o <<a>>
      BY <1>7 DEF AppendEntries, Run
    <2> HIDE DEF a
    <2>4. ItemOK(a) /\ ~Is(a, "handle", "Timedout")
      BY <2>1, <2>2 DEF ItemOK, Is
    <2> QED BY <2>2, <2>3, <2>4, DiscoverBegins, BeginsSnoc
  <1>8. ASSUME NEW t \in Terms, NEW id, BroadcastResponse(id, t) PROVE Begins(work')
    <2> DEFINE a == <<"answer", id, t>>
    <2>1. a[1] = "answer" /\ ItemOK(a) /\ ~Is(a, "handle", "Timedout")
      BY DEF ItemOK, Is
    <2>2. work' = UpdateTerm(t) \o <<a>>
      BY <1>8 DEF BroadcastResponse, Run
    <2> HIDE DEF a
    <2> QED BY <2>1, <2>2, UpdateTermBegins, BeginsSnoc
  <1> QED BY <1>1, <1>3, <1>4, <1>5, <1>6, <1>7, <1>8 DEF ExecutorHandler, Terms

LEMMA HandlerWork ==
  ASSUME WorkInv, ExecutorHandler
  PROVE  WorkInv'
  <1>1. Waiting /\ Begins(work') /\ UNCHANGED <<alone, raft, term, log, call>>
    BY HandlerIsPlain, HandlerBegins
  <1>2. IsList(work') /\ Len(work') \in Nat /\ (work' # <<>> => Len(work') >= 1)
    BY <1>1 DEF Begins, IsList
  <1>3. ItemsOK' /\ FirstOnly'
    <2>1. \A x : ItemOK(x)' <=> ItemOK(x)
      BY <1>1 DEF ItemOK
    <2>2. \A x : AtOnce(x)' <=> AtOnce(x)
      BY DEF AtOnce, Is
    <2> QED BY <1>1, <1>2, <2>1, <2>2 DEF Begins, ItemsOK, FirstOnly
  <1>4. CutsFit' /\ TermsAreTold'
    BY <1>1, <1>2 DEF CutsFit, TermsAreTold, Begins, Is
  <1>5. ElectionsFit'
    <2>1. \A x : Climbs(x)' <=> Climbs(x)
      BY <1>1 DEF Climbs, Campaigns, Is
    <2> QED BY <1>1, <1>2, <2>1 DEF Begins, ElectionsFit
  <1>6. ElectedHaveTerm'
    <2>1. raft = "Candidate" => term >= 1
      <3>1. Len(work) = 0
        BY <1>1 DEF Waiting
      <3> QED BY <3>1 DEF WorkInv, ElectedHaveTerm
    <2>2. \A i \in 1 .. Len(work') : ~Is(work[i], "enter", "Leader")'
      BY <1>1 DEF Begins, Is
    <2>3. (raft = "Leader" => term >= 1) /\ \A t \in Thread : call[t] # Idle => term >= 1
      BY DEF WorkInv, ElectedHaveTerm
    <2> QED BY <1>1, <2>1, <2>2, <2>3 DEF ElectedHaveTerm
  <1> QED BY <1>3, <1>4, <1>5, <1>6 DEF WorkInv

-----------------------------------------------------------------------------
(* Types                                                                    *)

StateTypes ==
  /\ raft \in RaftMachine!StateType /\ lifecycle \in Lifecycle!StateType
  /\ election_timer \in BOOLEAN /\ broadcast_timer \in BOOLEAN /\ registered \in BOOLEAN
  /\ told \in Lifecycle!StateType

TermTypes == term \in 0 .. MaxTerm /\ led \subseteq Terms

Acknowledgements == [term : Terms, command : Command, stored : BOOLEAN]
LogTypes ==
  /\ log \in Seq(Entries) /\ DOMAIN applied \subseteq Nat /\ asked \in Nat
  /\ acknowledged \subseteq Acknowledgements

CommitTypes ==
  /\ pending = None \/ pending \in Commits
  /\ submitted \subseteq Command /\ promise \in [Command -> Seq(BOOLEAN)]

\* NodeTypeOK in parts.
LEMMA TypeParts ==
  ASSUME CallsOK
  PROVE  NodeTypeOK <=> StateTypes /\ TermTypes /\ LogTypes /\ CommitTypes
  <1>1. \A t \in Thread : call[t].pc \in {"idle", "read", "set"}
    BY DEF CallsOK, CallOK, Idle
  <1>2. {election_timer, broadcast_timer, registered} \subseteq BOOLEAN <=>
          /\ election_timer \in BOOLEAN /\ broadcast_timer \in BOOLEAN
          /\ registered \in BOOLEAN
    OBVIOUS
  <1> QED BY <1>1, <1>2 DEF NodeTypeOK, StateTypes, TermTypes, LogTypes, CommitTypes,
             Terms, Commits, Acknowledgements

LEMMA StateTypesStay ==
  ASSUME PhaseInv, StateTypes, ExecutorStep
  PROVE  StateTypes'
  <1>1. CASE \/ HandleEvent \/ Cancel \/ Broadcast \/ SetTerm \/ Revert \/ Rollback \/ Push
             \/ Commit \/ Respond \/ CallbackReturns \/ Answer \/ AppendEntry
    <2>1. UNCHANGED <<raft, lifecycle, election_timer, broadcast_timer, registered, told>>
      BY <1>1 DEF HandleEvent, Cancel, Broadcast, SetTerm, Revert, Rollback, Push, Commit,
         Respond, CallbackReturns, Answer, AppendEntry, raftVars, lifeVars
    <2> QED BY <2>1 DEF StateTypes
  <1>2. CASE Exit \/ Entry \/ StartElection
    <2>1. UNCHANGED <<raft, lifecycle, registered, told>>
      BY <1>2 DEF Exit, Entry, StartElection, lifeVars
    <2>2. election_timer' \in BOOLEAN /\ broadcast_timer' \in BOOLEAN
      BY <1>2, Zenon DEF Exit, Entry, StartElection, StateTypes
    <2> QED BY <2>1, <2>2 DEF StateTypes
  <1>3. CASE Enter
    <2>1. /\ IsList(work) /\ work # <<>> /\ Len(work) \in Nat \ {0}
          /\ work[1][1] = "enter" /\ Head(work) = work[1]
      BY <1>3, DoingFirst DEF PhaseInv, Enter
    <2>2. PICK s \in Raised : Entering(s)
      BY <2>1 DEF PhaseInv, Starting, Resting, Calling, Completing, InTransition, Leaving,
         Notifying, Telling, Arming, PlainFrom, Plain
    <2>3. raft' = s /\ UNCHANGED <<lifecycle, election_timer, broadcast_timer, registered, told>>
      BY <1>3, <2>1, <2>2 DEF Enter, Entering, lifeVars
    <2> QED BY <2>2, <2>3 DEF StateTypes, Raised, RaftMachine!StateType
  <1>4. CASE Notify
    <2>1. /\ IsList(work) /\ work # <<>> /\ Len(work) \in Nat \ {0}
          /\ work[1][1] = "notify" /\ Head(work) = work[1]
      BY <1>4, DoingFirst DEF PhaseInv, Notify
    <2>2. PICK s \in Raised : Notifying(s)
      BY <2>1 DEF PhaseInv, Starting, Resting, Calling, Completing, InTransition, Leaving,
         Entering, Telling, Arming, PlainFrom, Plain
    <2>3. /\ lifecycle' = Lifecycle!handle(lifecycle, Lifecycle!EventOf(s))
          /\ UNCHANGED <<raft, election_timer, broadcast_timer, registered, told>>
      BY <1>4, <2>1, <2>2 DEF Notify, Notifying, raftVars
    <2>4. lifecycle' \in Lifecycle!StateType
      BY <2>3, LifecycleFollows DEF StateTypes
    <2> QED BY <2>3, <2>4 DEF StateTypes
  <1>5. CASE Tell
    <2>1. /\ IsList(work) /\ work # <<>> /\ Len(work) \in Nat \ {0}
          /\ work[1][1] = "tell" /\ Head(work) = work[1]
      BY <1>5, DoingFirst DEF PhaseInv, Tell
    <2>2. PICK s \in Raised : Telling(s)
      BY <2>1 DEF PhaseInv, Starting, Resting, Calling, Completing, InTransition, Leaving,
         Entering, Notifying, Arming, PlainFrom, Plain
    <2>3. told' \in {lifecycle, told} /\
            UNCHANGED <<raft, lifecycle, election_timer, broadcast_timer, registered>>
      BY <1>5, <2>1, <2>2 DEF Tell, Telling, raftVars
    <2> QED BY <2>3 DEF StateTypes
  <1> QED BY <1>1, <1>2, <1>3, <1>4, <1>5 DEF ExecutorStep

LEMMA TermTypesStay ==
  ASSUME PhaseInv, NodeTypeOK, TermTypes, WorkInv, ExecutorStep
  PROVE  TermTypes'
  <1>1. CASE SetTerm \/ StartElection
    <2>1. term' \in Terms
      BY <1>1, TermWork
    <2>2. led' = led
      BY <1>1 DEF SetTerm, StartElection
    <2> QED BY <2>1, <2>2, NodeConstants DEF TermTypes, Terms
  <1>2. CASE Enter
    <2>1. /\ IsList(work) /\ work # <<>> /\ Len(work) \in Nat \ {0}
          /\ work[1][1] = "enter" /\ Head(work) = work[1]
      BY <1>2, DoingFirst DEF PhaseInv, Enter
    <2>2. term' = term /\ (led' = led \/ (work[1][2] = "Leader" /\ led' = led \cup {term}))
      BY <1>2, <2>1 DEF Enter
    <2>3. work[1][2] = "Leader" => term >= 1
      BY <2>1 DEF WorkInv, ElectedHaveTerm, Is
    <2>4. term \in 0 .. MaxTerm /\ led \subseteq 1 .. MaxTerm
      BY DEF TermTypes, Terms
    <2>5. term >= 1 => term \in 1 .. MaxTerm
      BY <2>4, NodeConstants
    <2>6. led' \subseteq 1 .. MaxTerm
      BY <2>2, <2>3, <2>4, <2>5
    <2> QED BY <2>2, <2>4, <2>6 DEF TermTypes, Terms
  <1>3. CASE \/ HandleEvent \/ Cancel \/ Broadcast \/ Revert \/ Rollback \/ Push
             \/ Commit \/ Respond \/ CallbackReturns \/ Answer \/ AppendEntry
             \/ Exit \/ Entry \/ Notify \/ Tell
    <2>1. UNCHANGED <<term, led>>
      BY <1>3 DEF HandleEvent, Cancel, Broadcast, Revert, Rollback, Push, Commit, Respond,
         CallbackReturns, Answer, AppendEntry, Exit, Entry, Notify, Tell, raftVars
    <2> QED BY <2>1 DEF TermTypes
  <1> QED BY <1>1, <1>2, <1>3 DEF ExecutorStep

\* push_log keeps a log, and so does what cuts it.
LEMMA PushesType ==
  ASSUME log \in Seq(Entries), NEW id, NEW e \in Entries, Pushes(id, e)
  PROVE  log' \in Seq(Entries)
  BY DEF Pushes

LEMMA CutType ==
  ASSUME log \in Seq(Entries), NEW id \in Nat, id <= Len(log)
  PROVE  /\ SubSeq(log, 1, id) \in Seq(Entries) /\ Len(SubSeq(log, 1, id)) = id
         /\ \A i \in 1 .. id : SubSeq(log, 1, id)[i] = log[i]
  OBVIOUS

\* complete_commit of a commit with its fields.
LEMMA CompleteTypes ==
  ASSUME LogTypes, NEW c, c.id \in Nat, c.term \in Terms, c.command \in Command,
         CompleteCommit(c), asked' = asked
  PROVE  LogTypes'
  <1>1. [term |-> c.term, command |-> c.command] \in Entries
    BY DEF Entries, Terms
  <1>2. log' \in Seq(Entries)
    BY <1>1, PushesType DEF CompleteCommit, LogTypes
  <1>3. DOMAIN applied' \subseteq Nat
    BY DEF CompleteCommit, CommitCallback, LogTypes
  <1>4. acknowledged' = acknowledged \cup
          {[term |-> c.term, command |-> c.command, stored |-> log' # log]}
    BY DEF CompleteCommit
  <1>5. PICK b \in BOOLEAN : b = (log' # log)
    OBVIOUS
  <1>6. acknowledged' \subseteq Acknowledgements
    <2>1. [term |-> c.term, command |-> c.command, stored |-> b] \in Acknowledgements
      BY DEF Acknowledgements
    <2> QED BY <1>4, <1>5, <2>1 DEF LogTypes
  <1> QED BY <1>2, <1>3, <1>6 DEF LogTypes

LEMMA LogTypesStay ==
  ASSUME PhaseInv, LogTypes, WorkInv, ExecutorStep
  PROVE  LogTypes'
  <1>1. CASE Broadcast
    <2>1. PICK n \in Nat : asked' = Max({1, asked} \cup (1 .. n))
      <3>1. Len(log) \in Nat /\ Len(log) + 1 \in Nat /\ Len(log) + 0 \in Nat
        BY DEF LogTypes
      <3> QED BY <1>1, <3>1 DEF Broadcast
    <2> DEFINE S == {1, asked} \cup (1 .. n)
               m == IF asked >= 1 /\ asked >= n THEN asked ELSE IF n >= 1 THEN n ELSE 1
    <2>2. asked \in Nat
      BY DEF LogTypes
    <2>3. m \in S /\ \A x \in S : m >= x
      BY <2>1, <2>2
    <2> HIDE DEF m
    <2>4. (CHOOSE y \in S : \A x \in S : y >= x) \in S
      BY <2>3
    <2>5. asked' \in S
      BY <2>1, <2>4 DEF Max
    <2>6. asked' \in Nat
      BY <2>1, <2>2, <2>5
    <2>7. UNCHANGED <<log, applied, acknowledged>>
      BY <1>1 DEF Broadcast
    <2> QED BY <2>6, <2>7 DEF LogTypes
  <1>2. CASE Revert \/ Rollback
    <2>1. /\ IsList(work) /\ work # <<>> /\ Len(work) \in Nat \ {0}
          /\ work[1][1] \in {"revert", "rollback"} /\ Head(work) = work[1]
      BY <1>2, DoingFirst DEF PhaseInv, Revert, Rollback
    <2>2. work[1][2] \in Nat /\ work[1][2] <= Len(log)
      BY <2>1 DEF WorkInv, ItemsOK, ItemOK, CutsFit
    <2>3. log' = SubSeq(log, 1, work[1][2]) /\ UNCHANGED <<asked, acknowledged>>
      BY <1>2, <2>1 DEF Revert, Rollback
    <2>4. log' \in Seq(Entries)
      BY <2>2, <2>3, CutType DEF LogTypes
    <2>5. DOMAIN applied' \subseteq Nat
      BY <1>2 DEF Revert, Rollback, LogTypes
    <2> QED BY <2>3, <2>4, <2>5 DEF LogTypes
  <1>3. CASE Push
    <2>1. /\ IsList(work) /\ work # <<>> /\ Len(work) \in Nat \ {0}
          /\ work[1][1] = "push" /\ Head(work) = work[1]
      BY <1>3, DoingFirst DEF PhaseInv, Push
    <2>2. work[1][2] \in Nat /\ work[1][3] \in Entries
      BY <2>1 DEF WorkInv, ItemsOK, ItemOK
    <2>3. /\ Pushes(work[1][2], work[1][3]) /\ UNCHANGED <<asked, acknowledged>>
          /\ applied' = applied \/ CommitCallback(work[1][2], work[1][3].command)
      BY <1>3, <2>1 DEF Push
    <2>4. log' \in Seq(Entries)
      BY <2>2, <2>3, PushesType DEF LogTypes
    <2>5. DOMAIN applied' \subseteq Nat
      BY <2>2, <2>3 DEF CommitCallback, LogTypes
    <2> QED BY <2>3, <2>4, <2>5 DEF LogTypes
  <1>4. CASE Commit
    <2>1. /\ IsList(work) /\ work # <<>> /\ Len(work) \in Nat \ {0}
          /\ work[1][1] = "commit" /\ Head(work) = work[1]
      BY <1>4, DoingFirst DEF PhaseInv, Commit
    <2>2. work[1][2] \in Commits
      BY <2>1 DEF WorkInv, ItemsOK, ItemOK
    <2>3. CompleteCommit(work[1][2]) /\ asked' = asked
      BY <1>4, <2>1 DEF Commit
    <2> QED BY <2>2, <2>3, CompleteTypes DEF Commits
  <1>5. CASE \/ HandleEvent \/ Cancel \/ SetTerm \/ StartElection \/ Enter
             \/ Respond \/ CallbackReturns \/ Answer \/ AppendEntry
             \/ Exit \/ Entry \/ Notify \/ Tell
    <2>1. UNCHANGED <<log, applied, asked, acknowledged>>
      BY <1>5 DEF HandleEvent, Cancel, SetTerm, StartElection, Enter, Respond,
         CallbackReturns, Answer, AppendEntry, Exit, Entry, Notify, Tell, dataVars
    <2> QED BY <2>1 DEF LogTypes
  <1> QED BY <1>1, <1>2, <1>3, <1>4, <1>5 DEF ExecutorStep

\* promise->set_value
LEMMA SetValueType ==
  ASSUME promise \in [Command -> Seq(BOOLEAN)], NEW c, NEW r \in BOOLEAN, SetValue(c, r)
  PROVE  promise' \in [Command -> Seq(BOOLEAN)]
  <1>1. promise' = [d \in Command |-> IF d = c THEN Append(promise[d], r) ELSE promise[d]]
    BY DEF SetValue
  <1>2. \A d \in Command : promise[d] \in Seq(BOOLEAN)
    OBVIOUS
  <1>3. \A q \in Seq(BOOLEAN) : Append(q, r) \in Seq(BOOLEAN)
    OBVIOUS
  <1>4. \A d \in Command : promise'[d] \in Seq(BOOLEAN)
    BY <1>1, <1>2, <1>3, Zenon
  <1> QED BY <1>1, <1>4, Zenon

LEMMA CommitTypesStay ==
  ASSUME PhaseInv, CommitTypes, WorkInv, ExecutorStep
  PROVE  CommitTypes'
  <1>1. CASE Respond
    <2>1. /\ IsList(work) /\ work # <<>> /\ Len(work) \in Nat \ {0}
          /\ work[1][1] = "respond" /\ Head(work) = work[1]
      BY <1>1, DoingFirst DEF PhaseInv, Respond
    <2>2. work[1][3] \in BOOLEAN
      BY <2>1 DEF WorkInv, ItemsOK, ItemOK
    <2>3. SetValue(work[1][2], work[1][3]) /\ UNCHANGED <<pending, submitted>>
      BY <1>1, <2>1 DEF Respond, callVars
    <2>4. promise' \in [Command -> Seq(BOOLEAN)]
      BY <2>2, <2>3, SetValueType DEF CommitTypes
    <2> QED BY <2>3, <2>4 DEF CommitTypes
  <1>2. CASE ~Respond
    <2>1. UNCHANGED <<submitted, promise>> /\ pending' \in {pending, None}
      BY <1>2 DEF ExecutorStep, HandleEvent, Cancel, SetTerm, StartElection, Enter, Respond,
         CallbackReturns, Answer, AppendEntry, Exit, Entry, Notify, Tell, Broadcast, Revert,
         Rollback, Push, Commit, callVars
    <2> QED BY <2>1 DEF CommitTypes
  <1> QED BY <1>1, <1>2

\* The parts make NodeTypeOK, after a step too.
LEMMA TypesTogether ==
  ASSUME CallsOK', StateTypes', TermTypes', LogTypes', CommitTypes'
  PROVE  NodeTypeOK'
  <1>1. \A t \in Thread : call'[t].pc \in {"idle", "read", "set"}
    BY DEF CallsOK, CallOK, Idle
  <1>2. {election_timer', broadcast_timer', registered'} \subseteq BOOLEAN
    BY DEF StateTypes
  <1> QED BY <1>1, <1>2 DEF NodeTypeOK, StateTypes, TermTypes, LogTypes, CommitTypes,
             Terms, Commits, Acknowledgements

LEMMA ExecutorTypes ==
  ASSUME PhaseInv, NodeTypeInv, ExecutorStep
  PROVE  NodeTypeInv'
  <1>1. StateTypes /\ TermTypes /\ LogTypes /\ CommitTypes /\ WorkInv /\ NodeTypeOK
    BY TypeParts DEF NodeTypeInv, WorkInv
  <1>2. StateTypes' /\ TermTypes' /\ LogTypes' /\ CommitTypes' /\ WorkInv'
    BY <1>1, StateTypesStay, TermTypesStay, LogTypesStay, CommitTypesStay, ExecutorWork
  <1>3. call' = call
    BY DEF ExecutorStep, HandleEvent, Cancel, SetTerm, StartElection, Enter, Respond,
       CallbackReturns, Answer, AppendEntry, Exit, Entry, Notify, Tell, Broadcast, Revert,
       Rollback, Push, Commit, callVars
  <1>4. CallsOK'
    BY <1>3 DEF NodeTypeInv, CallsOK
  <1> QED BY <1>2, <1>4, TypesTogether DEF NodeTypeInv, WorkInv

LEMMA HandlerTypes ==
  ASSUME NodeTypeInv, ExecutorHandler
  PROVE  NodeTypeInv'
  <1>1. StateTypes /\ TermTypes /\ LogTypes /\ CommitTypes /\ WorkInv
    BY TypeParts DEF NodeTypeInv, WorkInv
  <1>2. WorkInv'
    BY <1>1, HandlerWork
  <1>3. /\ UNCHANGED <<call, raft, lifecycle, election_timer, broadcast_timer, term, led,
                       log, asked, acknowledged, pending, submitted, promise>>
        /\ \/ UNCHANGED <<registered, told, applied>>
           \/ registered' = TRUE /\ told' = lifecycle /\ applied' = Commands
    BY DEF ExecutorHandler, ElectionTimer, BroadcastTimer, Votes, Register, NewTerm,
       Heartbeat, AppendEntries, BroadcastResponse, Run, RegisterCallbacks, raftVars,
       lifeVars, dataVars, callVars
  <1>4. CallsOK'
    BY <1>3 DEF NodeTypeInv, CallsOK
  <1>5. DOMAIN Commands \subseteq Nat
    BY <1>1 DEF Commands, LogTypes
  <1>6. StateTypes' /\ TermTypes' /\ CommitTypes'
    BY <1>1, <1>3 DEF StateTypes, TermTypes, CommitTypes
  <1>7. LogTypes'
    BY <1>1, <1>3, <1>5 DEF LogTypes
  <1> QED BY <1>2, <1>4, <1>6, <1>7, TypesTogether DEF NodeTypeInv, WorkInv

\* The call of t changes to r.
LEMMA CallChanges ==
  ASSUME CallsOK, NEW t \in Thread, NEW r, CallOK(r), call' = [call EXCEPT ![t] = r]
  PROVE  /\ CallsOK' /\ call'[t] = r
         /\ \A u \in Thread : u # t => call'[u] = call[u]
  <1>1. call = [u \in Thread |-> call[u]] /\ \A u \in Thread : CallOK(call[u])
    BY DEF CallsOK
  <1>2. call' = [u \in Thread |-> IF u = t THEN r ELSE call[u]]
    BY <1>1
  <1> QED BY <1>1, <1>2 DEF CallsOK

\* A step of a call: only one who is alone changes the log.
LEMMA CallWork ==
  ASSUME PhaseInv, WorkInv, UNCHANGED <<alone, raft, term, work>>, log' = log \/ alone,
         \A t \in Thread : call'[t] # Idle => term >= 1
  PROVE  WorkInv'
  <1>1. work # <<>> => 1 \in 1 .. Len(work)
    BY DEF PhaseInv, IsList
  <1>2. ItemsOK' /\ FirstOnly' /\ TermsAreTold' /\ ElectionsFit'
    BY DEF WorkInv, ItemsOK, ItemOK, FirstOnly, AtOnce, TermsAreTold, ElectionsFit,
       Climbs, Campaigns, Is
  <1>3. CutsFit'
    BY <1>1 DEF WorkInv, ItemsOK, ItemOK, CutsFit
  <1>4. ElectedHaveTerm'
    BY DEF WorkInv, ElectedHaveTerm, Campaigns, Is
  <1> QED BY <1>2, <1>3, <1>4 DEF WorkInv

LEMMA CommitCommandTypes ==
  ASSUME PhaseInv, NodeTypeInv, NEW t \in Thread, NEW c \in Command, CommitCommand(t, c)
  PROVE  NodeTypeInv'
  <1>1. StateTypes /\ TermTypes /\ LogTypes /\ CommitTypes /\ WorkInv /\ CallsOK
    BY TypeParts DEF NodeTypeInv, WorkInv
  <1>2. /\ UNCHANGED <<raft, lifecycle, election_timer, broadcast_timer, term, led, alone,
                       log, asked, acknowledged, applied, registered, told, pending, work>>
        /\ submitted' = submitted \cup {c}
    BY DEF CommitCommand, raftVars, lifeVars, dataVars
  <1>3. PICK r : /\ CallOK(r) /\ call' = [call EXCEPT ![t] = r]
                 /\ r # Idle => raft = "Leader"
    <2> DEFINE r == [pc |-> "read", command |-> c, id |-> None, term |-> None]
    <2>1. CallOK(r) /\ CallOK(Idle)
      BY DEF CallOK
    <2>2. \/ raft = "Leader" /\ call' = [call EXCEPT ![t] = r]
          \/ call' = [call EXCEPT ![t] = Idle]
      BY DEF CommitCommand, CancelCommit
    <2> HIDE DEF r
    <2> QED BY <2>1, <2>2
  <1>4. /\ CallsOK' /\ call'[t] = r
        /\ \A u \in Thread : u # t => call'[u] = call[u]
    BY <1>1, <1>3, CallChanges
  <1>5. \A u \in Thread : call'[u] # Idle => term >= 1
    BY <1>1, <1>3, <1>4 DEF WorkInv, ElectedHaveTerm
  <1>6. WorkInv'
    BY <1>1, <1>2, <1>5, CallWork
  <1>7. CommitTypes'
    <2>1. promise' = promise \/ SetValue(c, FALSE)
      BY DEF CommitCommand, CancelCommit
    <2>2. promise' \in [Command -> Seq(BOOLEAN)]
      BY <1>1, <2>1, SetValueType DEF CommitTypes
    <2> QED BY <1>1, <1>2, <2>2 DEF CommitTypes
  <1>8. StateTypes' /\ TermTypes' /\ LogTypes'
    BY <1>1, <1>2 DEF StateTypes, TermTypes, LogTypes
  <1> QED BY <1>4, <1>6, <1>7, <1>8, TypesTogether DEF NodeTypeInv, WorkInv

\* A call that is under way has its fields.
LEMMA CallFields ==
  ASSUME CallsOK, NEW t \in Thread, call[t].pc \in {"read", "set"}
  PROVE  /\ call[t] # Idle /\ call[t].command \in Command
         /\ call[t].id \in Nat \cup {None} /\ call[t].term \in Terms \cup {None}
         /\ call[t] = [pc |-> call[t].pc, command |-> call[t].command,
                       id |-> call[t].id, term |-> call[t].term]
         /\ call[t].pc = "set" => call[t].id \in Nat /\ call[t].term \in Terms
  <1>1. Idle.pc = "idle"
    BY DEF Idle
  <1>2. call[t] # Idle /\ CallOK(call[t])
    BY <1>1 DEF CallsOK
  <1> QED BY <1>2 DEF CallOK

\* The call of t goes on with r, is refused, or leaves its commit pending.
CallGoes(t, r) ==
  /\ r # Idle /\ r.command = call[t].command
  /\ r.id \in {call[t].id, Len(log)} /\ r.term \in {call[t].term, term}
  /\ r.pc = "set" => r.id = Len(log) /\ call[t].term # None /\ r.term = call[t].term /\ ~alone
  /\ UNCHANGED <<dataVars, pending, promise>>

CallRefused(t) == SetValue(call[t].command, FALSE) /\ UNCHANGED <<dataVars, pending>>

CallPends(t) ==
  /\ call[t].pc = "set" /\ ~(pending # None /\ pending.id = Len(log))
  /\ pending' = [id |-> call[t].id, term |-> call[t].term, command |-> call[t].command]
  /\ UNCHANGED <<dataVars, promise>>

\* What a step of a call makes of it.
LEMMA CallStepCall ==
  ASSUME NodeTypeOK, WorkInv, CallsOK, NEW t \in Thread, CallStep(t)
  PROVE  \E r : /\ CallOK(r) /\ call' = [call EXCEPT ![t] = r]
               /\ \/ CallGoes(t, r)
                  \/ r = Idle /\ (CompleteAlone(t) \/ CallRefused(t) \/ CallPends(t))
  <1>0. Idle.pc = "idle"
    BY DEF Idle
  <1>1. call[t].pc \in {"read", "set"}
    BY DEF CallStep, ReadSize, ReadTerm, CompleteAlone, CheckSize, SetPending, HasEntry
  <1>2. /\ call[t] # Idle /\ call[t].command \in Command
        /\ call[t].id \in Nat \cup {None} /\ call[t].term \in Terms \cup {None}
        /\ call[t] = [pc |-> call[t].pc, command |-> call[t].command,
                      id |-> call[t].id, term |-> call[t].term]
    BY <1>1, CallFields
  <1>3. Len(log) \in Nat /\ term \in Terms
    <2>1. term >= 1 /\ term \in 0 .. MaxTerm /\ Len(log) \in Nat
      BY <1>2 DEF WorkInv, ElectedHaveTerm, NodeTypeOK
    <2> QED BY <2>1, NodeConstants DEF Terms
  <1>4. CASE ReadSize(t)
    <2>1. PICK r : r = [pc |-> "read", command |-> call[t].command, id |-> Len(log),
                        term |-> call[t].term]
      OBVIOUS
    <2>2. [call[t] EXCEPT !.id = Len(log)] = r
      BY <1>2, <1>4, <2>1 DEF ReadSize
    <2>3. call' = [call EXCEPT ![t] = [call[t] EXCEPT !.id = Len(log)]]
      BY <1>4 DEF ReadSize
    <2>4. CallOK(r)
      BY <1>2, <1>3, <2>1 DEF CallOK
    <2>5. UNCHANGED <<dataVars, pending, promise>>
      BY <1>4 DEF ReadSize
    <2>6. CallGoes(t, r)
      BY <1>0, <2>1, <2>5 DEF CallGoes
    <2> QED BY <2>2, <2>3, <2>4, <2>6
  <1>5. CASE ReadTerm(t)
    <2>1. PICK r : r = [pc |-> "read", command |-> call[t].command, id |-> call[t].id,
                        term |-> term]
      OBVIOUS
    <2>2. [call[t] EXCEPT !.term = term] = r
      BY <1>2, <1>5, <2>1 DEF ReadTerm
    <2>3. call' = [call EXCEPT ![t] = [call[t] EXCEPT !.term = term]]
      BY <1>5 DEF ReadTerm
    <2>4. CallOK(r)
      BY <1>2, <1>3, <2>1 DEF CallOK
    <2>5. UNCHANGED <<dataVars, pending, promise>>
      BY <1>5 DEF ReadTerm
    <2>6. CallGoes(t, r)
      BY <1>0, <2>1, <2>5 DEF CallGoes
    <2> QED BY <2>2, <2>3, <2>4, <2>6
  <1>6. CASE CheckSize(t) /\ call[t].id = Len(log)
    <2>1. PICK r : r = [pc |-> "set", command |-> call[t].command, id |-> call[t].id,
                        term |-> call[t].term]
      OBVIOUS
    <2>2. [call[t] EXCEPT !.pc = "set"] = r
      BY <1>2, <2>1
    <2>3. call' = [call EXCEPT ![t] = [call[t] EXCEPT !.pc = "set"]] /\ HasEntry(t)
      BY <1>6 DEF CheckSize
    <2>4. CallOK(r)
      BY <1>2, <2>1, <2>3 DEF CallOK, HasEntry
    <2>5. ~alone /\ UNCHANGED <<dataVars, pending, promise>>
      BY <1>6 DEF CheckSize
    <2>6. CallGoes(t, r)
      BY <1>0, <1>6, <2>1, <2>3, <2>5 DEF CallGoes, HasEntry
    <2> QED BY <2>2, <2>3, <2>4, <2>6
  <1>7. CASE CompleteAlone(t) \/ (CheckSize(t) /\ call[t].id # Len(log)) \/ SetPending(t)
    <2>1. call' = [call EXCEPT ![t] = Idle]
      BY <1>7 DEF CompleteAlone, CheckSize, SetPending, CancelCommit
    <2>2. CallOK(Idle)
      BY DEF CallOK
    <2>3. CompleteAlone(t) \/ CallRefused(t) \/ CallPends(t)
      BY <1>7 DEF CheckSize, SetPending, CancelCommit, CallRefused, CallPends
    <2> QED BY <2>1, <2>2, <2>3
  <1> QED BY <1>4, <1>5, <1>6, <1>7 DEF CallStep

LEMMA CallStepTypes ==
  ASSUME PhaseInv, NodeTypeInv, NEW t \in Thread, CallStep(t)
  PROVE  NodeTypeInv'
  <1>1. /\ StateTypes /\ TermTypes /\ LogTypes /\ CommitTypes /\ WorkInv /\ CallsOK
        /\ NodeTypeOK
    BY TypeParts DEF NodeTypeInv, WorkInv
  <1>2. call[t].pc \in {"read", "set"}
    BY DEF CallStep, ReadSize, ReadTerm, CompleteAlone, CheckSize, SetPending, HasEntry
  <1>3. /\ call[t] # Idle /\ call[t].command \in Command
        /\ call[t].id \in Nat \cup {None} /\ call[t].term \in Terms \cup {None}
        /\ call[t].pc = "set" => call[t].id \in Nat /\ call[t].term \in Terms
    BY <1>1, <1>2, CallFields
  <1>4. PICK r : CallOK(r) /\ call' = [call EXCEPT ![t] = r]
    BY <1>1, CallStepCall
  <1>5. /\ CallsOK' /\ call'[t] = r
        /\ \A u \in Thread : u # t => call'[u] = call[u]
    BY <1>1, <1>4, CallChanges
  <1>6. UNCHANGED <<raft, lifecycle, election_timer, broadcast_timer, term, led, alone,
                    registered, told, work, asked, submitted>>
    BY DEF CallStep, ReadSize, ReadTerm, CompleteAlone, CheckSize, SetPending, raftVars,
       lifeVars, dataVars
  <1>7. \A u \in Thread : call'[u] # Idle => term >= 1
    BY <1>1, <1>3, <1>5 DEF WorkInv, ElectedHaveTerm
  <1>8. UNCHANGED dataVars \/ (CompleteAlone(t) /\ alone)
    BY DEF CallStep, ReadSize, ReadTerm, CompleteAlone, CheckSize, SetPending
  <1>9. WorkInv'
    BY <1>1, <1>6, <1>7, <1>8, CallWork DEF dataVars
  <1>10. LogTypes'
    <2>1. CASE UNCHANGED dataVars
      BY <1>1, <2>1 DEF dataVars, LogTypes
    <2>2. CASE CompleteAlone(t)
      <3>1. CompleteCommit(call[t]) /\ call[t].id \in Nat /\ call[t].term \in Terms
        BY <1>3, <2>2 DEF CompleteAlone, HasEntry
      <3> QED BY <1>1, <1>3, <1>6, <3>1, CompleteTypes
    <2> QED BY <1>8, <2>1, <2>2
  <1>11. CommitTypes'
    <2>1. promise' = promise \/ \E b \in BOOLEAN : SetValue(call[t].command, b)
      BY DEF CallStep, ReadSize, ReadTerm, CompleteAlone, CheckSize, SetPending, CancelCommit
    <2>2. promise' \in [Command -> Seq(BOOLEAN)]
      BY <1>1, <2>1, SetValueType DEF CommitTypes
    <2>3. pending' = None \/ pending' \in Commits
      <3>1. CASE pending' = pending
        BY <1>1, <3>1 DEF CommitTypes
      <3>2. CASE pending' # pending
        <4>1. /\ call[t].pc = "set"
              /\ pending' = [id |-> call[t].id, term |-> call[t].term,
                             command |-> call[t].command]
          BY <3>2 DEF CallStep, ReadSize, ReadTerm, CompleteAlone, CheckSize, SetPending
        <4> QED BY <1>3, <4>1 DEF Commits
      <3> QED BY <3>1, <3>2
    <2> QED BY <1>1, <1>6, <2>2, <2>3 DEF CommitTypes
  <1>12. StateTypes' /\ TermTypes'
    BY <1>1, <1>6 DEF StateTypes, TermTypes
  <1> QED BY <1>5, <1>9, <1>10, <1>11, <1>12, TypesTogether DEF NodeTypeInv, WorkInv

LEMMA NodeTypeInitial == Init => NodeTypeInv
  <1> SUFFICES ASSUME Init PROVE NodeTypeInv
    OBVIOUS
  <1>1. Len(work) = 1 /\ work[1] = <<"handle", "Started">>
    BY DEF Init
  <1>2. ItemOK(work[1]) /\ ~AtOnce(work[1]) /\ ~Climbs(work[1]) /\ work[1][1] = "handle"
    BY <1>1 DEF ItemOK, AtOnce, Climbs, Campaigns, Is
  <1>3. call = [t \in Thread |-> Idle] /\ raft = "Standby"
    BY DEF Init
  <1>4. /\ CallsOK /\ ItemsOK /\ FirstOnly /\ CutsFit /\ TermsAreTold
        /\ ElectionsFit /\ ElectedHaveTerm
    BY <1>1, <1>2, <1>3 DEF CallsOK, CallOK, ItemsOK, FirstOnly, CutsFit, TermsAreTold,
       ElectionsFit, ElectedHaveTerm, Is
  <1>5. StateTypes
    BY DEF Init, StateTypes, RaftMachine!StateType, Lifecycle!StateType
  <1>6. TermTypes
    BY NodeConstants DEF Init, TermTypes
  <1>7. LogTypes
    <2>1. log \in Seq(Entries)
      <3>1. ASSUME NEW c \in Remote PROVE [term |-> 1, command |-> c] \in Entries
        BY NodeConstants DEF Entries
      <3>2. \A e \in Entries : <<e>> \in Seq(Entries)
        OBVIOUS
      <3>3. log = <<>> \/ \E c \in Remote : log = <<[term |-> 1, command |-> c]>>
        BY DEF Init
      <3>4. <<>> \in Seq(Entries)
        OBVIOUS
      <3> QED BY <3>1, <3>2, <3>3, <3>4, Zenon
    <2>2. applied = <<>> /\ asked = 0 /\ acknowledged = {}
      BY DEF Init
    <2> QED BY <2>1, <2>2 DEF LogTypes
  <1>8. CommitTypes
    <2>1. promise \in [Command -> Seq(BOOLEAN)]
      BY DEF Init
    <2> QED BY <2>1 DEF Init, CommitTypes
  <1> QED BY <1>4, <1>5, <1>6, <1>7, <1>8, TypeParts DEF NodeTypeInv

LEMMA NodeTypeInvariant == Spec => []NodeTypeInv
  <1>1. NodeTypeInv /\ PhaseInv /\ [Next]_vars => NodeTypeInv'
    <2> SUFFICES ASSUME NodeTypeInv, PhaseInv, [Next]_vars PROVE NodeTypeInv'
      OBVIOUS
    <2>1. CASE UNCHANGED vars
      <3>1. UNCHANGED <<raftVars, lifeVars, dataVars, callVars, pending, work, promise>>
        BY <2>1 DEF vars
      <3>2. NodeTypeOK' /\ CallsOK'
        BY <3>1 DEF raftVars, lifeVars, dataVars, callVars, NodeTypeInv, NodeTypeOK, CallsOK
      <3>3. WorkInv'
        <4>1. UNCHANGED <<alone, raft, term, work, log, call>>
          BY <3>1 DEF raftVars, lifeVars, dataVars, callVars
        <4>2. WorkInv /\ \A t \in Thread : call'[t] # Idle => term >= 1
          BY <4>1 DEF NodeTypeInv, WorkInv, ElectedHaveTerm
        <4> QED BY <4>1, <4>2, CallWork
      <3> QED BY <3>2, <3>3 DEF NodeTypeInv, WorkInv
    <2> QED BY <2>1, ExecutorTypes, HandlerTypes, CommitCommandTypes, CallStepTypes DEF Next
  <1> QED BY <1>1, NodeTypeInitial, PhaseInvariant, PTL DEF Spec

\* Every variable of a node keeps its type, with any threads calling
\* commit_command and any messages of the other nodes: terms stay within their
\* bounds, a cut leaves a log, and nobody commits in the term 0 that a node
\* starts with, because who is elected has increased its term.
THEOREM NodeTypeCorrect == Spec => []NodeTypeOK
  <1>1. NodeTypeInv => NodeTypeOK
    BY DEF NodeTypeInv
  <1> QED BY <1>1, NodeTypeInvariant, PTL

-----------------------------------------------------------------------------
(* A serial application: the pending commit and the handler                 *)

LEMMA SerialFacts ==
  ASSUME Serial
  PROVE  Thread = {Executor} /\ Callback = <<>> /\ IsList(<<>>)
  BY DEF Serial, Thread, Callback, IsList

\* Every step of the executor puts some steps in the place of the one it did.
LEMMA StepsFollow ==
  ASSUME ExecutorStep
  PROVE  \E steps : IsList(steps) /\ Then(steps)
  <1>1. ASSUME NEW a PROVE IsList(<<a>>)
    <2>1. <<a>> \in Seq({a})
      OBVIOUS
    <2> QED BY <2>1, ListOf
  <1>2. IsList(<<>>) /\ IsList(Callback)
    BY SilentCallback DEF Silent
  <1>3. CASE Cancel \/ Answer \/ Respond
    BY <1>1, <1>2, <1>3 DEF Cancel, Answer, Respond
  <1>4. CASE Commit
    <2>1. PICK a : Then(Callback \o <<a>>)
      BY <1>4 DEF Commit
    <2> QED BY <1>2, <2>1, Snoc
  <1>5. CASE ~Cancel /\ ~Answer /\ ~Respond /\ ~Commit
    BY <1>5, SilentSteps DEF ExecutorStep, Silent
  <1> QED BY <1>3, <1>4, <1>5

\* What was to be done after a step is still to be done.
LEMMA TailStays ==
  ASSUME IsList(work), ExecutorStep, NEW i \in 2 .. Len(work)
  PROVE  \E k \in 1 .. Len(work') : work'[k] = work[i]
  <1>1. work # <<>>
    BY DEF ExecutorStep, HandleEvent, Cancel, SetTerm, StartElection, Enter, Respond,
       CallbackReturns, Answer, AppendEntry, Exit, Entry, Notify, Tell, Broadcast, Revert,
       Rollback, Push, Commit, Doing
  <1>2. PICK steps : IsList(steps) /\ Then(steps)
    BY StepsFollow
  <1>3. /\ i + Len(steps) - 1 \in 1 .. Len(work')
        /\ work'[i + Len(steps) - 1] = work[i]
    BY <1>1, <1>2, ThenItems
  <1> QED BY <1>3

\* A step that would outdate a pending commit finds none.
LEMMA HeadOutdates ==
  ASSUME IsList(work), work # <<>>, Outdates(work[1]), PendingIsCancelled
  PROVE  pending = None
  <1>1. 1 \in 1 .. Len(work)
    BY DEF IsList
  <1> QED BY <1>1 DEF PendingIsCancelled

LEMMA OutdatingSteps ==
  ASSUME PhaseInv, PendingIsCancelled,
         Enter \/ Revert \/ Rollback \/ Push \/ Commit \/ AppendEntry
  PROVE  pending = None /\ pending' = None
  <1>1. /\ IsList(work) /\ work # <<>>
        /\ work[1][1] \in {"append", "revert", "rollback", "push", "enter", "commit"}
    BY DoingFirst DEF PhaseInv, Enter, Revert, Rollback, Push, Commit, AppendEntry
  <1>2. pending = None
    BY <1>1, HeadOutdates DEF Outdates
  <1> QED BY <1>2 DEF Enter, Revert, Rollback, Push, Commit, AppendEntry

LEMMA PendingFitsStays ==
  ASSUME PhaseInv, PendingFits, PendingIsCancelled, ExecutorStep
  PROVE  PendingFits'
  <1>1. CASE Enter \/ Revert \/ Rollback \/ Push \/ Commit
    BY <1>1, OutdatingSteps DEF PendingFits
  <1>2. CASE ~(Enter \/ Revert \/ Rollback \/ Push \/ Commit)
    <2>1. UNCHANGED <<raft, log, led>> /\ pending' \in {pending, None}
      BY <1>2 DEF ExecutorStep, HandleEvent, Cancel, SetTerm, StartElection, Respond,
         CallbackReturns, Answer, AppendEntry, Exit, Entry, Notify, Tell, Broadcast,
         raftVars, dataVars
    <2> QED BY <2>1 DEF PendingFits
  <1> QED BY <1>1, <1>2

\* The steps that follow end the leadership before they outdate its commit.
LEMMA CancelsGoOn ==
  ASSUME IsList(work), work # <<>>, PendingIsCancelled, pending' = pending,
         NEW steps, IsList(steps), Then(steps),
         \A i \in 1 .. Len(steps) :
           Outdates(steps[i]) => \E j \in 1 .. i - 1 : EndsLeadership(steps[j]),
         EndsLeadership(work[1]) => \E i \in 1 .. Len(steps) : EndsLeadership(steps[i])
  PROVE  PendingIsCancelled'
  <1>1. /\ IsList(work') /\ Len(work) \in Nat \ {0} /\ Len(work') \in Nat
        /\ Len(steps) \in Nat
        /\ \A i \in 1 .. Len(work') :
             \/ i \in 1 .. Len(steps) /\ work'[i] = steps[i]
             \/ /\ i > Len(steps) /\ i - Len(steps) + 1 \in 2 .. Len(work)
                /\ work'[i] = work[i - Len(steps) + 1]
        /\ \A i \in 1 .. Len(steps) : i \in 1 .. Len(work') /\ work'[i] = steps[i]
        /\ \A i \in 2 .. Len(work) :
             /\ i + Len(steps) - 1 \in 1 .. Len(work')
             /\ work'[i + Len(steps) - 1] = work[i]
    BY ThenItems
  <1>2. ASSUME NEW i \in 1 .. Len(work'), Outdates(work'[i]), pending # None
        PROVE  \E j \in 1 .. i - 1 : EndsLeadership(work'[j])
    <2>1. CASE i \in 1 .. Len(steps) /\ work'[i] = steps[i]
      <3>1. PICK j \in 1 .. i - 1 : EndsLeadership(steps[j])
        BY <1>2, <2>1
      <3>2. j \in 1 .. Len(steps)
        BY <1>1, <2>1
      <3> QED BY <1>1, <3>1, <3>2
    <2>2. ASSUME i > Len(steps), NEW k \in 2 .. Len(work), k = i - Len(steps) + 1,
                 work'[i] = work[k]
          PROVE  \E j \in 1 .. i - 1 : EndsLeadership(work'[j])
      <3>1. k \in 1 .. Len(work) /\ Outdates(work[k])
        BY <1>1, <1>2, <2>2
      <3>2. PICK j \in 1 .. k - 1 : EndsLeadership(work[j])
        BY <1>2, <3>1 DEF PendingIsCancelled
      <3>3. CASE j = 1
        <4>1. PICK m \in 1 .. Len(steps) : EndsLeadership(steps[m])
          BY <3>2, <3>3
        <4>2. m \in 1 .. i - 1 /\ work'[m] = steps[m]
          BY <1>1, <2>2, <4>1
        <4> QED BY <4>1, <4>2
      <3>4. CASE j # 1
        <4>1. j \in 2 .. Len(work) /\ j + Len(steps) - 1 \in 1 .. i - 1
          BY <1>1, <2>2, <3>2, <3>4
        <4> QED BY <1>1, <3>2, <4>1
      <3> QED BY <3>3, <3>4
    <2> QED BY <1>1, <1>2, <2>1, <2>2
  <1>3. \A x : (Outdates(x)' <=> Outdates(x)) /\ (EndsLeadership(x)' <=> EndsLeadership(x))
    BY DEF Outdates, EndsLeadership, Is
  <1> QED BY <1>2, <1>3 DEF PendingIsCancelled, Outdates, EndsLeadership, Is

LEMMA CancelsNone ==
  ASSUME IsList(work), work # <<>>, PendingIsCancelled, pending' = pending,
         Then(<<>>), ~EndsLeadership(work[1])
  PROVE  PendingIsCancelled'
  <1>1. IsList(<<>>) /\ \A i \in 1 .. Len(<<>>) : FALSE
    BY DEF IsList
  <1> QED BY <1>1, CancelsGoOn

LEMMA CancelsOne ==
  ASSUME IsList(work), work # <<>>, PendingIsCancelled, pending' = pending,
         NEW a, Then(<<a>>), ~Outdates(a), EndsLeadership(work[1]) => EndsLeadership(a)
  PROVE  PendingIsCancelled'
  <1> DEFINE s == <<a>>
  <1>1. s \in Seq({a}) /\ Len(s) = 1 /\ s[1] = a /\ Then(s)
    OBVIOUS
  <1> HIDE DEF s
  <1>2. IsList(s)
    BY <1>1, ListOf
  <1>3. \A i \in 1 .. Len(s) : ~Outdates(s[i])
    BY <1>1
  <1>4. EndsLeadership(work[1]) => \E i \in 1 .. Len(s) : EndsLeadership(s[i])
    BY <1>1
  <1> QED BY <1>1, <1>2, <1>3, <1>4, CancelsGoOn

LEMMA PendingIsCancelledStays ==
  ASSUME PhaseInv, PendingFits, PendingIsCancelled, ExecutorStep, Serial
  PROVE  PendingIsCancelled'
  <1>1. CASE pending' = None
    BY <1>1 DEF PendingIsCancelled
  <1>2. CASE pending' # None
    <2>1. ~Cancel /\ ~(Enter \/ Revert \/ Rollback \/ Push \/ Commit \/ AppendEntry)
      BY <1>2, OutdatingSteps DEF Cancel
    <2>2. pending' = pending
      BY <1>2, <2>1 DEF ExecutorStep, HandleEvent, SetTerm, StartElection, Respond,
         CallbackReturns, Answer, Exit, Entry, Notify, Tell, Broadcast
    <2>3. raft = "Leader"
      BY <1>2, <2>2 DEF PendingFits
    <2>4. IsList(work) /\ work # <<>> /\ Len(work) \in Nat \ {0} /\ Head(work) = work[1]
      BY DoingFirst DEF PhaseInv, ExecutorStep, HandleEvent, Cancel, SetTerm, StartElection,
         Enter, Respond, CallbackReturns, Answer, AppendEntry, Exit, Entry, Notify, Tell,
         Broadcast, Revert, Rollback, Push, Commit
    <2>5. CASE HandleEvent
      <3>1. PICK e, s : e = work[1][2] /\ s = RaftMachine!handle(raft, e)
        OBVIOUS
      <3>2. /\ work[1][1] = "handle"
            /\ Then(IF s = raft THEN OnEvent(raft, e) ELSE Transition(s))
        BY <2>4, <2>5, <3>1, DoingFirst DEF HandleEvent
      <3>3. CASE s = raft
        <4>1. ~EndsLeadership(work[1])
          <5>1. raft \in Raised /\ "LeaderDiscovered" \in RaftMachine!Event \ {"Terminated"}
            BY <2>3 DEF Raised, RaftMachine!Event
          <5>2. e = "LeaderDiscovered" => s = "Follower"
            BY <2>3, <3>1, <5>1, HandleTo
          <5> QED BY <2>3, <3>1, <3>2, <3>3, <5>2 DEF EndsLeadership, Is
        <4>2. Then(<<<<"broadcast">>>>) \/ Then(<<>>)
          BY <2>3, <3>2, <3>3 DEF OnEvent
        <4>3. ~Outdates(<<"broadcast">>)
          BY DEF Outdates
        <4> QED BY <2>2, <2>4, <4>1, <4>2, <4>3, CancelsNone, CancelsOne
      <3>4. CASE s # raft
        <4> DEFINE w == Transition(s)
                   S == {<<"exit">>, <<"enter", s>>, <<"notify", s>>, <<"entry", s>>}
        <4>1. w \in Seq(S) /\ Len(w) = 4 /\ w[1] = <<"exit">> /\ Then(w)
          BY <3>2, <3>4 DEF Transition
        <4> HIDE DEF w, S
        <4>2. IsList(w) /\ EndsLeadership(w[1]) /\ ~Outdates(w[1])
          BY <4>1, ListOf DEF EndsLeadership, Outdates
        <4>3. \A i \in 1 .. Len(w) :
                Outdates(w[i]) => \E j \in 1 .. i - 1 : EndsLeadership(w[j])
          <5>1. ASSUME NEW i \in 1 .. 4, Outdates(w[i]) PROVE 1 \in 1 .. i - 1
            BY <4>2, <5>1
          <5> QED BY <4>1, <4>2, <5>1
        <4>4. \E i \in 1 .. Len(w) : EndsLeadership(w[i])
          BY <4>1, <4>2
        <4> QED BY <2>2, <2>4, <4>1, <4>2, <4>3, <4>4, CancelsGoOn
      <3> QED BY <3>3, <3>4
    <2>6. CASE Exit
      <3>1. Then(<<<<"cancel">>>>)
        BY <2>3, <2>6 DEF Exit
      <3>2. ~Outdates(<<"cancel">>) /\ EndsLeadership(<<"cancel">>)
        BY DEF Outdates, EndsLeadership
      <3> QED BY <2>2, <2>4, <3>1, <3>2, CancelsOne
    <2>7. CASE Notify \/ Tell \/ Entry \/ StartElection \/ Broadcast \/ SetTerm \/ Respond
               \/ CallbackReturns \/ Answer
      <3>1. ~EndsLeadership(work[1])
        BY <2>4, <2>7, DoingFirst DEF Notify, Tell, Entry, StartElection, Broadcast,
           SetTerm, Respond, CallbackReturns, Answer, EndsLeadership, Is
      <3>2. \/ Then(<<>>) \/ Then(<<<<"start_election">>>>)
            \/ Then(<<<<"handle", "Elected">>>>) \/ \E l : Then(<<<<"tell", l>>>>)
        BY <1>2, <2>7, SerialFacts DEF Notify, Tell, Entry, StartElection, Broadcast,
           SetTerm, Respond, CallbackReturns, Answer
      <3>3. /\ ~Outdates(<<"start_election">>) /\ ~Outdates(<<"handle", "Elected">>)
            /\ \A l : ~Outdates(<<"tell", l>>)
        BY DEF Outdates
      <3>4. ASSUME NEW a, Then(<<a>>), ~Outdates(a) PROVE PendingIsCancelled'
        BY <2>2, <2>4, <3>1, <3>4, CancelsOne
      <3>5. CASE Then(<<>>)
        BY <2>2, <2>4, <3>1, <3>5, CancelsNone
      <3> QED BY <3>2, <3>3, <3>4, <3>5
    <2> QED BY <2>1, <2>5, <2>6, <2>7 DEF ExecutorStep
  <1> QED BY <1>1, <1>2

\* A commit that the executor has to do is the one that was pending.
LEMMA CommitFitsStays ==
  ASSUME PhaseInv, FirstOnly, PendingFits, ExecutorStep, Serial
  PROVE  CommitFits'
  <1>1. IsList(work) /\ work # <<>>
    BY DEF PhaseInv, ExecutorStep, HandleEvent, Cancel, SetTerm, StartElection, Enter,
       Respond, CallbackReturns, Answer, AppendEntry, Exit, Entry, Notify, Tell, Broadcast,
       Revert, Rollback, Push, Commit, Doing
  <1>2. ASSUME NEW steps, IsList(steps), Then(steps),
               NEW i \in 1 .. Len(work'), work'[i][1] = "commit"
        PROVE  \E k \in 1 .. Len(steps) : steps[k] = work'[i]
    <2>1. ASSUME NEW k \in 2 .. Len(work), work'[i] = work[k] PROVE FALSE
      BY <1>2, <2>1 DEF FirstOnly, AtOnce
    <2> QED BY <1>1, <1>2, <2>1, ThenItems
  <1>3. ASSUME NEW steps, Silent(steps), Then(steps) PROVE CommitFits'
    BY <1>2, <1>3 DEF CommitFits, Silent
  <1>4. ASSUME NEW a, Then(<<a>>),
               a[1] = "commit" => a[2].id = Len(log') /\ a[2].term \in led'
        PROVE  CommitFits'
    <2> DEFINE s == <<a>>
    <2>1. s \in Seq({a}) /\ Len(s) = 1 /\ s[1] = a /\ Then(s)
      BY <1>4
    <2> HIDE DEF s
    <2>2. IsList(s)
      BY <2>1, ListOf
    <2>3. \A i \in 1 .. Len(work') : work'[i][1] = "commit" => work'[i] = a
      BY <1>2, <2>1, <2>2
    <2> QED BY <1>4, <2>3 DEF CommitFits
  <1>5. CASE Cancel
    <2>1. Then(<<>>) \/ Then(<<<<"respond", pending.command, FALSE>>>>)
      BY <1>5 DEF Cancel
    <2>2. <<"respond", pending.command, FALSE>>[1] = "respond"
      OBVIOUS
    <2> QED BY <1>3, <1>4, <2>1, <2>2, SilentCallback
  <1>6. CASE Commit
    <2>1. PICK a : a[1] = "respond" /\ Then(Callback \o <<a>>)
      BY <1>6 DEF Commit
    <2>2. <<>> \o <<a>> = <<a>>
      OBVIOUS
    <2> QED BY <1>4, <2>1, <2>2, SerialFacts
  <1>7. CASE Respond
    BY <1>3, <1>7, SilentCallback DEF Respond
  <1>8. CASE Answer
    <2>1. \/ Then(<<>>)
          \/ pending # None /\ Then(<<<<"commit", pending>>>>)
      BY <1>8 DEF Answer
    <2>2. UNCHANGED <<log, led>>
      BY <1>8 DEF Answer, dataVars, raftVars
    <2>3. <<"commit", pending>>[2] = pending
      OBVIOUS
    <2> QED BY <1>3, <1>4, <2>1, <2>2, <2>3, SilentCallback DEF PendingFits
  <1>9. CASE ~Cancel /\ ~Answer /\ ~Respond /\ ~Commit
    BY <1>3, <1>9, SilentSteps DEF ExecutorStep
  <1> QED BY <1>5, <1>6, <1>7, <1>8, <1>9

LEMMA LeaderIsOfTermStays ==
  ASSUME PhaseInv, WorkInv, LeaderIsOfTerm, ExecutorStep
  PROVE  LeaderIsOfTerm'
  <1>1. IsList(work) /\ work # <<>> /\ Len(work) \in Nat \ {0} /\ Head(work) = work[1]
    BY DoingFirst DEF PhaseInv, ExecutorStep, HandleEvent, Cancel, SetTerm, StartElection,
       Enter, Respond, CallbackReturns, Answer, AppendEntry, Exit, Entry, Notify, Tell,
       Broadcast, Revert, Rollback, Push, Commit
  <1>2. ASSUME NEW i \in 2 .. Len(work), Unseats(work[i]) PROVE LeaderIsOfTerm'
    <2>1. PICK k \in 1 .. Len(work') : work'[k] = work[i]
      BY <1>1, TailStays
    <2>2. Unseats(work[k])'
      BY <1>2, <2>1 DEF Unseats, Is
    <2> QED BY <2>2 DEF LeaderIsOfTerm
  <1>3. CASE Enter
    BY <1>3 DEF Enter, LeaderIsOfTerm
  <1>4. CASE SetTerm
    <2>1. work[1][1] = "set_term"
      BY <1>1, <1>4, DoingFirst DEF SetTerm
    <2>2. 2 \in 2 .. Len(work) /\ Unseats(work[2])
      BY <1>1, <2>1 DEF WorkInv, TermsAreTold, Unseats
    <2> QED BY <1>2, <2>2
  <1>5. CASE StartElection
    <2>1. work[1][1] = "start_election" /\ raft' = raft
      BY <1>1, <1>5, DoingFirst DEF StartElection
    <2>2. raft = "Candidate"
      BY <1>1, <2>1 DEF WorkInv, ElectionsFit
    <2> QED BY <2>1, <2>2 DEF LeaderIsOfTerm
  <1>6. CASE ~Enter /\ ~SetTerm /\ ~StartElection
    <2>1. UNCHANGED <<raft, term, led>>
      BY <1>6 DEF ExecutorStep, HandleEvent, Cancel, Respond, CallbackReturns, Answer,
         AppendEntry, Exit, Entry, Notify, Tell, Broadcast, Revert, Rollback, Push, Commit,
         raftVars
    <2> SUFFICES ASSUME raft = "Leader", term \notin led PROVE LeaderIsOfTerm'
      BY <2>1 DEF LeaderIsOfTerm
    <2>2. PICK i \in 1 .. Len(work) : Unseats(work[i])
      BY DEF LeaderIsOfTerm
    <2>3. CASE i # 1
      BY <1>1, <1>2, <2>2, <2>3
    <2>4. CASE i = 1
      <3>1. HandleEvent /\ Is(work[1], "handle", "NewTermReceived")
        BY <1>1, <1>6, <2>2, <2>4, DoingFirst DEF ExecutorStep, HandleEvent, Cancel,
           Respond, CallbackReturns, Answer, AppendEntry, Exit, Entry, Notify, Tell,
           Broadcast, Revert, Rollback, Push, Commit, Unseats, Is
      <3>2. RaftMachine!handle(raft, "NewTermReceived") = "Follower"
        <4>1. raft \in Raised /\ "NewTermReceived" \in RaftMachine!Event \ {"Terminated"}
          BY DEF Raised, RaftMachine!Event
        <4> QED BY <4>1, HandleTo
      <3>3. Then(Transition("Follower"))
        BY <1>1, <3>1, <3>2 DEF HandleEvent, Is
      <3>4. Len(work') >= 2 /\ Len(work') \in Nat /\ work'[2] = <<"enter", "Follower">>
        BY <1>1, <3>3, ThenFour DEF Transition
      <3>5. 2 \in 1 .. Len(work') /\ Unseats(work[2])'
        BY <3>4 DEF Unseats
      <3> QED BY <3>5 DEF LeaderIsOfTerm
    <2> QED BY <2>3, <2>4
  <1> QED BY <1>3, <1>4, <1>5, <1>6

\* A command has an answer, or keeps a holder.
LEMMA HoldersExistStays ==
  ASSUME PhaseInv, NodeTypeOK, WorkInv, PendingFits, HoldersExist, ExecutorStep, Serial
  PROVE  HoldersExist'
  <1>1. IsList(work) /\ work # <<>> /\ Len(work) \in Nat \ {0} /\ Head(work) = work[1]
    BY DoingFirst DEF PhaseInv, ExecutorStep, HandleEvent, Cancel, SetTerm, StartElection,
       Enter, Respond, CallbackReturns, Answer, AppendEntry, Exit, Entry, Notify, Tell,
       Broadcast, Revert, Rollback, Push, Commit
  <1>2. UNCHANGED <<call, submitted>>
    BY DEF ExecutorStep, HandleEvent, Cancel, SetTerm, StartElection, Enter, Respond,
       CallbackReturns, Answer, AppendEntry, Exit, Entry, Notify, Tell, Broadcast, Revert,
       Rollback, Push, Commit, callVars
  <1>3. promise \in [Command -> Seq(BOOLEAN)] /\ submitted \subseteq Command
    BY DEF NodeTypeOK
  <1>4. CASE Respond
    <2>1. PICK a, r : /\ a = work[1][2] /\ r = work[1][3] /\ SetValue(a, r)
                      /\ work[1][1] = "respond" /\ pending' = pending
      BY <1>1, <1>4, DoingFirst DEF Respond
    <2>2. promise' = [d \in Command |-> IF d = a THEN Append(promise[d], r) ELSE promise[d]]
      BY <1>3, <2>1 DEF SetValue
    <2>3. ASSUME NEW c \in submitted PROVE HasHolder(c)'
      <3>1. CASE c = a
        <4>1. promise[c] \in Seq(BOOLEAN) /\ promise'[c] = Append(promise[c], r)
          BY <1>3, <2>2, <3>1
        <4>2. r \in BOOLEAN
          BY <1>1, <2>1 DEF WorkInv, ItemsOK, ItemOK
        <4>3. \A q \in Seq(BOOLEAN) : Append(q, r) # <<>>
          BY <4>2, AppendProperties
        <4>4. promise'[c] # <<>>
          BY <4>1, <4>3, Zenon
        <4> QED BY <4>4 DEF HasHolder
      <3>2. CASE c # a
        <4>1. promise'[c] = promise[c] /\ (Calls(Executor, c)' <=> Calls(Executor, c))
              /\ (Pends(c)' <=> Pends(c))
          BY <1>2, <1>3, <2>1, <2>2, <3>2 DEF Calls, Pends
        <4>2. Owes(c) => Owes(c)'
          <5> SUFFICES ASSUME Owes(c) PROVE Owes(c)'
            OBVIOUS
          <5>1. PICK i \in 1 .. Len(work) : OwesIn(work[i], c)
            BY DEF Owes
          <5>2. i \in 2 .. Len(work)
            BY <1>1, <2>1, <3>2, <5>1 DEF OwesIn
          <5>3. PICK k \in 1 .. Len(work') : work'[k] = work[i]
            BY <1>1, <5>2, TailStays
          <5> QED BY <5>1, <5>3 DEF Owes, OwesIn
        <4> QED BY <4>1, <4>2 DEF HoldersExist, HasHolder
      <3> QED BY <3>1, <3>2
    <2> QED BY <1>2, <2>3 DEF HoldersExist
  <1>5. CASE ~Respond
    <2>1. promise' = promise
      BY <1>5 DEF ExecutorStep, HandleEvent, Cancel, SetTerm, StartElection, Enter,
         CallbackReturns, Answer, AppendEntry, Exit, Entry, Notify, Tell, Broadcast, Revert,
         Rollback, Push, Commit
    <2>2. ASSUME NEW a, Then(<<a>>), NEW c, OwesIn(a, c) PROVE Owes(c)'
      <3>1. Len(work') = Len(work) /\ work'[1] = a
        BY <1>1, <2>2, ThenOne
      <3> QED BY <1>1, <2>2, <3>1 DEF Owes, OwesIn
    <2>3. ASSUME NEW c, Owes(c) PROVE Owes(c)'
      <3>1. PICK i \in 1 .. Len(work) : OwesIn(work[i], c)
        BY <2>3 DEF Owes
      <3>2. CASE i # 1
        <4>1. PICK k \in 1 .. Len(work') : work'[k] = work[i]
          BY <1>1, <3>2, TailStays
        <4> QED BY <3>1, <4>1 DEF Owes, OwesIn
      <3>3. CASE i = 1
        <4>1. Commit /\ work[1][1] = "commit" /\ work[1][2].command = c
          BY <1>1, <1>5, <3>1, <3>3, DoingFirst DEF ExecutorStep, HandleEvent, Cancel,
             SetTerm, StartElection, Enter, CallbackReturns, Answer, AppendEntry, Exit,
             Entry, Notify, Tell, Broadcast, Revert, Rollback, Push, Commit, OwesIn
        <4>2. PICK a : a = <<"respond", c, TRUE>>
          OBVIOUS
        <4>3. <<>> \o <<a>> = <<a>> /\ OwesIn(a, c)
          BY <4>2 DEF OwesIn
        <4>4. Then(<<a>>)
          BY <1>1, <4>1, <4>2, <4>3, SerialFacts DEF Commit
        <4> QED BY <2>2, <4>3, <4>4
      <3> QED BY <3>2, <3>3
    <2>4. ASSUME NEW c, Pends(c) PROVE Pends(c)' \/ Owes(c)'
      <3>1. CASE pending' = pending
        BY <2>4, <3>1 DEF Pends
      <3>2. CASE pending' # pending
        <4>1. \/ Then(<<<<"respond", pending.command, FALSE>>>>)
              \/ Then(<<<<"commit", pending>>>>)
          BY <1>5, <2>4, <3>2 DEF ExecutorStep, HandleEvent, Cancel, SetTerm, StartElection,
             Enter, CallbackReturns, Answer, AppendEntry, Exit, Entry, Notify, Tell,
             Broadcast, Revert, Rollback, Push, Commit, Pends, PendingFits
        <4>2. /\ OwesIn(<<"respond", pending.command, FALSE>>, c)
              /\ OwesIn(<<"commit", pending>>, c)
          BY <2>4 DEF Pends, OwesIn
        <4> QED BY <2>2, <4>1, <4>2
      <3> QED BY <3>1, <3>2
    <2>5. ASSUME NEW c \in submitted PROVE HasHolder(c)'
      <3>1. HasHolder(c) /\ (Calls(Executor, c)' <=> Calls(Executor, c))
        BY <1>2 DEF HoldersExist, Calls
      <3> QED BY <2>1, <2>3, <2>4, <3>1 DEF HasHolder
    <2> QED BY <1>2, <2>5 DEF HoldersExist
  <1> QED BY <1>4, <1>5

-----------------------------------------------------------------------------
(* A serial application: the log and its copy                               *)

\* The copy stays right where the log loses entries.
LEMMA CopyOfLess ==
  ASSUME NodeTypeOK, CopyFollowsLog, NEW id \in Nat, id <= Len(log),
         log' = SubSeq(log, 1, id), registered' = registered,
         \/ applied' = applied
         \/ applied' = [i \in {j \in DOMAIN applied : j < id} |-> applied[i]]
  PROVE  CopyFollowsLog'
  <1>1. log \in Seq(Entries) /\ DOMAIN log = 1 .. Len(log) /\ Len(log) \in Nat
    BY DEF NodeTypeOK
  <1>2. /\ log' \in Seq(Entries) /\ Len(log') = id
        /\ \A i \in 1 .. id : log'[i] = log[i]
    BY <1>1, CutType
  <1>3. DOMAIN log' = 1 .. id
    BY <1>2
  <1>4. ASSUME registered, NEW i \in 1 .. id
        PROVE  i - 1 \in DOMAIN applied' /\ applied'[i - 1] = log'[i].command
    <2>1. i \in DOMAIN log /\ log'[i] = log[i] /\ i - 1 < id
      BY <1>1, <1>2
    <2>2. i - 1 \in DOMAIN applied /\ applied[i - 1] = log[i].command
      BY <1>4, <2>1 DEF CopyFollowsLog
    <2> QED BY <2>1, <2>2
  <1> QED BY <1>3, <1>4 DEF CopyFollowsLog

\* It stays right where an entry is pushed, and where it is not.
LEMMA CopyOfMore ==
  ASSUME NodeTypeOK, CopyFollowsLog, NEW e \in Entries, registered' = registered,
         \/ log' = log /\ applied' = applied
         \/ CommitCallback(Len(log), e.command) /\ log' \in {log, Append(log, e)}
  PROVE  CopyFollowsLog'
  <1>1. log \in Seq(Entries) /\ DOMAIN log = 1 .. Len(log) /\ Len(log) \in Nat
    BY DEF NodeTypeOK
  <1>2. CASE log' = log /\ applied' = applied
    BY <1>2 DEF CopyFollowsLog
  <1>3. CASE CommitCallback(Len(log), e.command) /\ log' \in {log, Append(log, e)}
    <2> SUFFICES ASSUME registered PROVE CopyFollowsLog'
      BY DEF CopyFollowsLog
    <2>1. /\ DOMAIN applied' = DOMAIN applied \cup {Len(log)}
          /\ applied'[Len(log)] = e.command
          /\ \A i \in DOMAIN applied : i # Len(log) => applied'[i] = applied[i]
      BY <1>3 DEF CommitCallback
    <2>2. ASSUME NEW i \in DOMAIN log
          PROVE  i - 1 \in DOMAIN applied' /\ applied'[i - 1] = log[i].command
      <3>1. i - 1 \in DOMAIN applied /\ applied[i - 1] = log[i].command
        BY DEF CopyFollowsLog
      <3>2. i - 1 # Len(log)
        BY <1>1
      <3> QED BY <2>1, <3>1, <3>2
    <2>3. CASE log' = log
      BY <2>2, <2>3 DEF CopyFollowsLog
    <2>4. CASE log' = Append(log, e)
      <3>1. /\ DOMAIN log' = 1 .. Len(log) + 1 /\ log'[Len(log) + 1] = e
            /\ \A i \in 1 .. Len(log) : log'[i] = log[i]
        <4>0. /\ Append(log, e) \in Seq(Entries) /\ Len(Append(log, e)) = Len(log) + 1
              /\ Append(log, e)[Len(log) + 1] = e
              /\ \A i \in 1 .. Len(log) : Append(log, e)[i] = log[i]
          BY <1>1, AppendProperties
        <4>1. /\ log' \in Seq(Entries) /\ Len(log') = Len(log) + 1
              /\ log'[Len(log) + 1] = e /\ \A i \in 1 .. Len(log) : log'[i] = log[i]
          BY <2>4, <4>0
        <4>2. DOMAIN log' = 1 .. Len(log')
          BY <4>1
        <4> QED BY <4>1, <4>2
      <3>2. (Len(log) + 1) - 1 = Len(log)
        BY <1>1
      <3>3. ASSUME NEW i \in DOMAIN log'
            PROVE  i - 1 \in DOMAIN applied' /\ applied'[i - 1] = log'[i].command
        <4>1. CASE i = Len(log) + 1
          BY <2>1, <3>1, <3>2, <4>1
        <4>2. CASE i \in 1 .. Len(log)
          BY <1>1, <2>2, <3>1, <4>2
        <4> QED BY <1>1, <3>1, <4>1, <4>2
      <3> QED BY <3>3 DEF CopyFollowsLog
    <2> QED BY <1>3, <2>3, <2>4
  <1> QED BY <1>2, <1>3

\* What the application gets of its commits.
Outcomes ==
  SuccessIsOfLeader /\ (~PutMayFail => SuccessIsStored) /\ CopyFollowsLog

\* A commit for the next id, from a term the node led, is completed.
LEMMA CompleteOutcomes ==
  ASSUME NodeTypeOK, Outcomes, NEW c, c.id = Len(log), c.term \in led, c.command \in Command,
         CompleteCommit(c), registered' = registered, led' = led
  PROVE  Outcomes'
  <1>1. PICK e : e = [term |-> c.term, command |-> c.command]
    OBVIOUS
  <1>2. e \in Entries /\ e.command = c.command
    BY <1>1 DEF NodeTypeOK, Entries
  <1>3. log' \in {log, Append(log, e)} /\ (~PutMayFail => log' = Append(log, e))
    BY <1>1 DEF CompleteCommit, Pushes
  <1>4. CommitCallback(Len(log), e.command)
    BY <1>2 DEF CompleteCommit
  <1>5. CopyFollowsLog'
    BY <1>2, <1>3, <1>4, CopyOfMore DEF Outcomes
  <1>6. PICK b \in BOOLEAN : b = (log' # log)
    OBVIOUS
  <1>7. PICK a : a = [term |-> c.term, command |-> c.command, stored |-> b]
    OBVIOUS
  <1>8. acknowledged' = acknowledged \cup {a} /\ a.term = c.term /\ a.stored = b
    BY <1>6, <1>7 DEF CompleteCommit
  <1>9. SuccessIsOfLeader'
    BY <1>8 DEF Outcomes, SuccessIsOfLeader
  <1>10. ~PutMayFail => SuccessIsStored'
    <2> SUFFICES ASSUME ~PutMayFail PROVE SuccessIsStored'
      OBVIOUS
    <2>1. log' # log
      <3>1. log \in Seq(Entries) /\ log' = Append(log, e)
        BY <1>3 DEF NodeTypeOK
      <3>2. Len(log') = Len(log) + 1 /\ Len(log) \in Nat
        BY <1>2, <3>1
      <3> QED BY <3>2
    <2> QED BY <1>6, <1>8, <2>1 DEF Outcomes, SuccessIsStored
  <1> QED BY <1>5, <1>9, <1>10 DEF Outcomes

LEMMA OutcomesStay ==
  ASSUME PhaseInv, NodeTypeOK, WorkInv, CommitFits, Outcomes, ExecutorStep
  PROVE  Outcomes'
  <1>1. IsList(work) /\ work # <<>> /\ Len(work) \in Nat \ {0} /\ Head(work) = work[1]
    BY DoingFirst DEF PhaseInv, ExecutorStep, HandleEvent, Cancel, SetTerm, StartElection,
       Enter, Respond, CallbackReturns, Answer, AppendEntry, Exit, Entry, Notify, Tell,
       Broadcast, Revert, Rollback, Push, Commit
  <1>2. led \subseteq led' /\ registered' = registered
    BY DEF ExecutorStep, HandleEvent, Cancel, SetTerm, StartElection,
       Enter, Respond, CallbackReturns, Answer, AppendEntry, Exit, Entry, Notify, Tell,
       Broadcast, Revert, Rollback, Push, Commit, raftVars, lifeVars
  <1>3. CASE Commit
    <2>1. work[1][1] = "commit" /\ CompleteCommit(work[1][2]) /\ led' = led
      BY <1>1, <1>3, DoingFirst DEF Commit, raftVars
    <2>2. work[1][2].id = Len(log) /\ work[1][2].term \in led
      BY <1>1, <2>1 DEF CommitFits
    <2>3. work[1][2] \in Commits
      BY <1>1, <2>1 DEF WorkInv, ItemsOK, ItemOK
    <2> QED BY <1>2, <2>1, <2>2, <2>3, CompleteOutcomes DEF Commits
  <1>4. CASE ~Commit
    <2>1. acknowledged' = acknowledged
      BY <1>4 DEF ExecutorStep, HandleEvent, Cancel, SetTerm, StartElection, Enter,
         Respond, CallbackReturns, Answer, AppendEntry, Exit, Entry, Notify, Tell,
         Broadcast, Revert, Rollback, Push, dataVars
    <2>2. SuccessIsOfLeader' /\ (~PutMayFail => SuccessIsStored')
      BY <1>2, <2>1 DEF Outcomes, SuccessIsOfLeader, SuccessIsStored
    <2>3. CopyFollowsLog'
      <3>1. CASE Revert \/ Rollback
        <4>1. /\ work[1][1] \in {"revert", "rollback"} /\ log' = SubSeq(log, 1, work[1][2])
              /\ \/ applied' = applied
                 \/ applied' = [i \in {j \in DOMAIN applied : j < work[1][2]} |-> applied[i]]
          BY <1>1, <3>1, DoingFirst DEF Revert, Rollback
        <4>2. work[1][2] \in Nat /\ work[1][2] <= Len(log)
          BY <1>1, <4>1 DEF WorkInv, ItemsOK, ItemOK, CutsFit
        <4> QED BY <1>2, <4>1, <4>2, CopyOfLess DEF Outcomes
      <3>2. CASE Push
        <4>1. work[1][1] = "push" /\ Pushes(work[1][2], work[1][3])
          BY <1>1, <3>2, DoingFirst DEF Push
        <4>2. work[1][3] \in Entries
          BY <1>1, <4>1 DEF WorkInv, ItemsOK, ItemOK
        <4>3. CASE log' = log
          <5>1. applied' = applied
            BY <3>2, <4>3 DEF Push
          <5> QED BY <1>2, <4>2, <4>3, <5>1, CopyOfMore DEF Outcomes
        <4>4. CASE log' # log
          <5>1. work[1][2] = Len(log) /\ log' = Append(log, work[1][3])
            BY <4>1, <4>4 DEF Pushes
          <5>2. CommitCallback(Len(log), work[1][3].command)
            BY <1>1, <3>2, <4>4, <5>1 DEF Push
          <5> QED BY <1>2, <4>2, <5>1, <5>2, CopyOfMore DEF Outcomes
        <4> QED BY <4>3, <4>4
      <3>3. CASE ~Revert /\ ~Rollback /\ ~Push
        <4>1. UNCHANGED <<log, applied>>
          BY <1>4, <3>3 DEF ExecutorStep, HandleEvent, Cancel, SetTerm, StartElection,
             Enter, Respond, CallbackReturns, Answer, AppendEntry, Exit, Entry, Notify,
             Tell, Broadcast, dataVars
        <4> QED BY <1>2, <4>1 DEF Outcomes, CopyFollowsLog
      <3> QED BY <3>1, <3>2, <3>3
    <2> QED BY <2>2, <2>3 DEF Outcomes
  <1> QED BY <1>3, <1>4

-----------------------------------------------------------------------------
(* A serial application: steps, handlers and calls                          *)

LEMMA ExecutorSerial ==
  ASSUME Serial, PhaseInv, NodeTypeInv, SerialInv, ExecutorStep
  PROVE  SerialInv'
  <1>1. NodeTypeOK /\ WorkInv /\ FirstOnly /\ Outcomes
    BY DEF NodeTypeInv, WorkInv, SerialInv, Outcomes
  <1>2. call[Executor] = Idle /\ UNCHANGED <<call, alone>> /\ pending' \in {pending, None}
    BY DEF ExecutorStep, HandleEvent, Cancel, SetTerm, StartElection, Enter, Respond,
       CallbackReturns, Answer, AppendEntry, Exit, Entry, Notify, Tell, Broadcast, Revert,
       Rollback, Push, Commit, Doing, callVars, lifeVars
  <1>3. CallsRunAlone' /\ NonePendsAlone'
    BY <1>2 DEF CallsRunAlone, SerialInv, NonePendsAlone
  <1>4. PendingFits' /\ PendingIsCancelled' /\ CommitFits' /\ LeaderIsOfTerm' /\ HoldersExist'
    BY <1>1, PendingFitsStays, PendingIsCancelledStays, CommitFitsStays,
       LeaderIsOfTermStays, HoldersExistStays DEF SerialInv
  <1>5. Outcomes'
    BY <1>1, OutcomesStay DEF SerialInv
  <1> QED BY <1>3, <1>4, <1>5 DEF SerialInv, Outcomes

\* Steps that outdate nothing.
Mild(s) == IsList(s) /\ \A i \in 1 .. Len(s) : ~Outdates(s[i])

LEMMA MildSnoc ==
  ASSUME NEW s, Mild(s), NEW a, ~Outdates(a)
  PROVE  Mild(s \o <<a>>)
  <1>1. /\ IsList(s \o <<a>>) /\ Len(s) \in Nat /\ Len(s \o <<a>>) = Len(s) + 1
        /\ (s \o <<a>>)[Len(s) + 1] = a
        /\ \A i \in 1 .. Len(s) : (s \o <<a>>)[i] = s[i]
    BY Snoc DEF Mild
  <1>2. ASSUME NEW i \in 1 .. Len(s) + 1 PROVE ~Outdates((s \o <<a>>)[i])
    BY <1>1 DEF Mild
  <1> QED BY <1>1, <1>2 DEF Mild

LEMMA MildOne ==
  ASSUME NEW a, ~Outdates(a)
  PROVE  Mild(<<a>>)
  <1> DEFINE s == <<a>>
  <1>1. s \in Seq({a}) /\ Len(s) = 1 /\ s[1] = a
    OBVIOUS
  <1> HIDE DEF s
  <1>2. Mild(s)
    BY <1>1, ListOf DEF Mild
  <1> QED BY <1>2 DEF s

\* A request with an entry that is outdated comes to a node that does not lead and
\* has nothing pending; another one ends the leadership before the entry is
\* looked at.
LEMMA HandlerCancels ==
  ASSUME Serial, NodeTypeOK, PendingFits, ExecutorHandler
  PROVE  PendingIsCancelled'
  <1>0. Mild(<<>>)
    BY DEF Mild, IsList
  <1>1. ASSUME Mild(work') PROVE PendingIsCancelled'
    <2>1. \A i \in 1 .. Len(work') : ~Outdates(work[i])'
      BY <1>1 DEF Mild, Outdates
    <2> QED BY <2>1 DEF PendingIsCancelled
  <1>2. ASSUME NEW e PROVE ~Outdates(<<"handle", e>>)
    BY DEF Outdates
  <1>3. ASSUME NEW t PROVE Mild(UpdateTerm(t))
    <2>1. ~Outdates(<<"set_term", t>>) /\ ~Outdates(<<"handle", "NewTermReceived">>)
      BY DEF Outdates
    <2>2. Mild(<<<<"set_term", t>>>> \o <<<<"handle", "NewTermReceived">>>>)
      BY <2>1, MildOne, MildSnoc
    <2>3. Mild(<<<<"set_term", t>>, <<"handle", "NewTermReceived">>>>)
      BY <2>2, PairOf
    <2> QED BY <1>0, <2>3 DEF UpdateTerm
  <1>4. ASSUME NEW t PROVE Mild(UpdateTerm(t) \o <<<<"handle", "LeaderDiscovered">>>>)
    BY <1>2, <1>3, MildSnoc
  <1>5. CASE ElectionTimer \/ BroadcastTimer \/ Votes
    <2>1. PICK e : work' = <<<<"handle", e>>>>
      BY <1>5 DEF ElectionTimer, BroadcastTimer, Votes, Run
    <2> QED BY <1>1, <1>2, <2>1, MildOne
  <1>6. CASE Register
    BY <1>0, <1>1, <1>6 DEF Register, Waiting
  <1>7. ASSUME NEW t, NewTerm(t) \/ Heartbeat(t) PROVE PendingIsCancelled'
    BY <1>0, <1>1, <1>3, <1>4, <1>7 DEF NewTerm, Heartbeat, Run, Discover
  <1>8. ASSUME NEW t \in Terms, NEW p, NEW id, NEW c, AppendEntries(t, id, c, p)
        PROVE  PendingIsCancelled'
    <2> DEFINE b == <<"handle", "LeaderDiscovered">>
               a == <<"append", id, [term |-> t, command |-> c], p>>
               s == UpdateTerm(t) \o <<b>>
    <2>1. EndsLeadership(b)
      BY DEF EndsLeadership, Is
    <2>9. CASE raft # "Leader"
      <3>1. pending' = None
        BY <1>8, <2>9 DEF AppendEntries, Run, PendingFits
      <3> QED BY <3>1 DEF PendingIsCancelled
    <2> SUFFICES ASSUME raft = "Leader" PROVE PendingIsCancelled'
      BY <2>9
    <2>2. ~(t < term)
      BY <1>8 DEF AppendEntries, Serial, NodeTypeOK, Terms
    <2>3. work' = s \o <<a>>
      BY <1>8, <2>2 DEF AppendEntries, Run, Discover
    <2>4. Mild(s)
      BY <1>4
    <2> HIDE DEF a, b
    <2>5. IsList(UpdateTerm(t))
      BY <1>3 DEF Mild
    <2>6. Len(s) \in Nat \ {0} /\ s[Len(s)] = b
      BY <2>5, Snoc
    <2> HIDE DEF s
    <2>7. /\ Len(work') = Len(s) + 1
          /\ \A i \in 1 .. Len(s) : work'[i] = s[i]
      BY <2>3, <2>4, Snoc DEF Mild
    <2>8. ASSUME NEW i \in 1 .. Len(work'), Outdates(work'[i])
          PROVE  \E j \in 1 .. i - 1 : EndsLeadership(work'[j])
      <3>1. i = Len(s) + 1
        BY <2>4, <2>6, <2>7, <2>8 DEF Mild
      <3>2. Len(s) \in 1 .. i - 1 /\ work'[Len(s)] = b
        BY <2>6, <2>7, <3>1
      <3> QED BY <2>1, <3>2
    <2> QED BY <2>8 DEF PendingIsCancelled, Outdates, EndsLeadership, Is
  <1>9. ASSUME NEW t, NEW id, BroadcastResponse(id, t) PROVE PendingIsCancelled'
    <2>1. PICK a : a[1] = "answer" /\ work' = UpdateTerm(t) \o <<a>>
      BY <1>9 DEF BroadcastResponse, Run
    <2>2. ~Outdates(a)
      BY <2>1 DEF Outdates
    <2> QED BY <1>1, <1>3, <2>1, <2>2, MildSnoc
  <1> QED BY <1>5, <1>6, <1>7, <1>8, <1>9 DEF ExecutorHandler, Terms

LEMMA HandlerSerial ==
  ASSUME Serial, NodeTypeInv, SerialInv, ExecutorHandler
  PROVE  SerialInv'
  <1>1. NodeTypeOK
    BY DEF NodeTypeInv
  <1>2. work = <<>> /\ Len(work) = 0 /\ call[Executor] = Idle /\ PlainFrom(work', 1)
    BY HandlerIsPlain DEF Waiting, PlainList
  <1>3. /\ UNCHANGED <<call, raft, alone, term, led, log, asked, acknowledged, pending,
                       submitted, promise>>
        /\ UNCHANGED <<registered, applied>> \/ applied' = Commands
    BY DEF ExecutorHandler, ElectionTimer, BroadcastTimer, Votes, Register, NewTerm,
       Heartbeat, AppendEntries, BroadcastResponse, Run, RegisterCallbacks, raftVars,
       lifeVars, dataVars, callVars
  <1>4. CallsRunAlone' /\ PendingFits' /\ NonePendsAlone'
    BY <1>2, <1>3 DEF SerialInv, CallsRunAlone, PendingFits, NonePendsAlone
  <1>5. PendingIsCancelled'
    BY <1>1, HandlerCancels DEF SerialInv
  <1>6. CommitFits'
    BY <1>2 DEF CommitFits, PlainFrom, Plain
  <1>7. LeaderIsOfTerm'
    BY <1>2, <1>3 DEF SerialInv, LeaderIsOfTerm
  <1>8. HoldersExist'
    <2>1. \A c : ~Owes(c)
      BY <1>2 DEF Owes
    <2>2. \A c : /\ Calls(Executor, c)' <=> Calls(Executor, c)
                 /\ Pends(c)' <=> Pends(c)
      BY <1>3 DEF Calls, Pends
    <2> QED BY <1>3, <2>1, <2>2 DEF SerialInv, HoldersExist, HasHolder
  <1>9. SuccessIsOfLeader' /\ (~PutMayFail => SuccessIsStored')
    BY <1>3 DEF SerialInv, SuccessIsOfLeader, SuccessIsStored
  <1>10. CopyFollowsLog'
    <2>1. CASE UNCHANGED <<registered, applied>>
      BY <1>3, <2>1 DEF SerialInv, CopyFollowsLog
    <2>2. CASE applied' = Commands
      <3>1. DOMAIN log = 1 .. Len(log) /\ Len(log) \in Nat
        BY <1>1 DEF NodeTypeOK
      <3>2. ASSUME NEW i \in DOMAIN log
            PROVE  i - 1 \in DOMAIN applied' /\ applied'[i - 1] = log[i].command
        <4>1. i - 1 \in 0 .. Len(log) - 1 /\ (i - 1) + 1 = i
          BY <3>1
        <4> QED BY <2>2, <4>1 DEF Commands
      <3> QED BY <1>3, <3>2 DEF CopyFollowsLog
    <2> QED BY <1>3, <2>1, <2>2
  <1> QED BY <1>4, <1>5, <1>6, <1>7, <1>8, <1>9, <1>10 DEF SerialInv

\* A promise that is set is not empty, and none becomes empty.
LEMMA SetValueHolds ==
  ASSUME promise \in [Command -> Seq(BOOLEAN)], NEW c \in Command, NEW r \in BOOLEAN,
         SetValue(c, r)
  PROVE  promise'[c] # <<>> /\ \A d \in Command : promise[d] # <<>> => promise'[d] # <<>>
  <1>1. promise' = [d \in Command |-> IF d = c THEN Append(promise[d], r) ELSE promise[d]]
    BY DEF SetValue
  <1>2. \A q \in Seq(BOOLEAN) : Append(q, r) # <<>>
    BY AppendProperties
  <1>3. \A d \in Command : promise[d] \in Seq(BOOLEAN)
    OBVIOUS
  <1> QED BY <1>1, <1>2, <1>3, Zenon

\* The parts of SerialInv that a call leaves alone as long as it has no outcome.
LEMMA CallLeaves ==
  ASSUME SerialInv, UNCHANGED <<raft, alone, term, led, log, applied, registered, work,
                                acknowledged>>
  PROVE  /\ CommitFits' /\ LeaderIsOfTerm' /\ SuccessIsOfLeader'
         /\ ~PutMayFail => SuccessIsStored'
         /\ CopyFollowsLog'
         /\ pending' = pending => PendingFits' /\ PendingIsCancelled'
  BY DEF SerialInv, CommitFits, LeaderIsOfTerm, Unseats, Is, SuccessIsOfLeader,
     SuccessIsStored, CopyFollowsLog, PendingFits, PendingIsCancelled, Outdates,
     EndsLeadership

LEMMA CommitCommandSerial ==
  ASSUME Serial, PhaseInv, NodeTypeInv, SerialInv, NEW t \in Thread, NEW c \in Command,
         CommitCommand(t, c)
  PROVE  SerialInv'
  <1>1. /\ t = Executor /\ NodeTypeOK /\ CallsOK /\ promise \in [Command -> Seq(BOOLEAN)]
        /\ submitted \subseteq Command
    BY SerialFacts DEF NodeTypeInv, NodeTypeOK
  <1>2. /\ UNCHANGED <<raft, alone, term, led, log, applied, registered, work,
                       acknowledged, pending>>
        /\ submitted' = submitted \cup {c} /\ registered /\ call[t] = Idle
    BY DEF CommitCommand, InApplication, raftVars, lifeVars, dataVars
  <1>3. work = <<>>
    <2>1. ~Doing("callback")
      <3> SUFFICES ASSUME Doing("callback") PROVE FALSE
        OBVIOUS
      <3>1. work[1][1] = "callback" /\ 1 \in 1 .. Len(work)
        BY DoingFirst DEF PhaseInv
      <3> QED BY <3>1 DEF NodeTypeInv, ItemsOK, ItemOK, Serial
    <2> QED BY <1>1, <2>1 DEF CommitCommand, InApplication
  <1>4. PICK r : /\ CallOK(r) /\ call' = [call EXCEPT ![t] = r]
                 /\ \/ r = Idle /\ SetValue(c, FALSE)
                    \/ /\ raft = "Leader" /\ promise' = promise /\ r # Idle
                       /\ r.command = c /\ r.pc = "read" /\ r.id = None /\ r.term = None
    <2> DEFINE r == [pc |-> "read", command |-> c, id |-> None, term |-> None]
    <2>1. /\ r.command = c /\ r.pc = "read" /\ r.id = None /\ r.term = None
          /\ CallOK(r) /\ CallOK(Idle)
      BY DEF CallOK
    <2>2. r # Idle
      BY DEF Idle
    <2>3. \/ raft = "Leader" /\ call' = [call EXCEPT ![t] = r] /\ promise' = promise
          \/ call' = [call EXCEPT ![t] = Idle] /\ SetValue(c, FALSE)
      BY DEF CommitCommand, CancelCommit
    <2> HIDE DEF r
    <2> QED BY <2>1, <2>2, <2>3
  <1>5. call'[Executor] = r
    BY <1>1, <1>4, CallChanges
  <1>6. CallsRunAlone' /\ NonePendsAlone'
    <2>1. r.pc # "set"
      <3>1. Idle.pc = "idle"
        BY DEF Idle
      <3> QED BY <1>4, <3>1
    <2>2. r # Idle => raft = "Leader" /\ r.id = None /\ r.term = None
      BY <1>4
    <2>3. CallsRunAlone'
      BY <1>2, <1>3, <1>5, <2>1, <2>2 DEF CallsRunAlone
    <2>4. NonePendsAlone'
      BY <1>2, <1>5, <2>1 DEF SerialInv, NonePendsAlone
    <2> QED BY <2>3, <2>4
  <1>7. HoldersExist'
    <2>1. ASSUME NEW d \in submitted PROVE promise[d] # <<>> \/ Owes(d) \/ Pends(d)
      BY <1>1, <1>2 DEF SerialInv, HoldersExist, HasHolder, Calls
    <2>2. \A d : (Owes(d)' <=> Owes(d)) /\ (Pends(d)' <=> Pends(d))
      BY <1>2, OwesStays DEF Pends
    <2>3. \A d \in Command : promise[d] # <<>> => promise'[d] # <<>>
      BY <1>1, <1>4, SetValueHolds
    <2>4. promise'[c] # <<>> \/ Calls(Executor, c)'
      BY <1>1, <1>4, <1>5, SetValueHolds DEF Calls
    <2>5. ASSUME NEW d \in submitted' PROVE HasHolder(d)'
      <3>1. CASE d = c
        BY <2>4, <3>1 DEF HasHolder
      <3>2. CASE d \in submitted
        BY <1>1, <2>1, <2>2, <2>3, <3>2 DEF HasHolder
      <3> QED BY <1>2, <3>1, <3>2
    <2> QED BY <2>5 DEF HoldersExist
  <1> QED BY <1>2, <1>6, <1>7, CallLeaves DEF SerialInv

LEMMA CallStepSerial ==
  ASSUME Serial, NodeTypeInv, SerialInv, NEW t \in Thread, CallStep(t)
  PROVE  SerialInv'
  <1>1. /\ t = Executor /\ NodeTypeOK /\ WorkInv /\ CallsOK
        /\ promise \in [Command -> Seq(BOOLEAN)] /\ submitted \subseteq Command
    BY SerialFacts DEF NodeTypeInv, NodeTypeOK, WorkInv
  <1>2. call[t].pc \in {"read", "set"}
    BY DEF CallStep, ReadSize, ReadTerm, CompleteAlone, CheckSize, SetPending, HasEntry
  <1>3. call[t] # Idle /\ call[t].command \in Command
    BY <1>1, <1>2, CallFields
  <1>4. /\ work = <<>> /\ Len(work) = 0 /\ raft = "Leader" /\ registered
        /\ call[t].id \in {None, Len(log)} /\ call[t].term \in {None, term}
        /\ call[t].pc = "set" => call[t].id = Len(log) /\ call[t].term = term
    BY <1>1, <1>3 DEF SerialInv, CallsRunAlone
  <1>5. term \in led
    BY <1>4 DEF SerialInv, LeaderIsOfTerm
  <1>6. UNCHANGED <<raft, alone, term, led, registered, work, submitted>>
    BY DEF CallStep, ReadSize, ReadTerm, CompleteAlone, CheckSize, SetPending, raftVars,
       lifeVars
  <1>7. PICK r : /\ CallOK(r) /\ call' = [call EXCEPT ![t] = r]
                 /\ \/ CallGoes(t, r)
                    \/ r = Idle /\ (CompleteAlone(t) \/ CallRefused(t) \/ CallPends(t))
    BY <1>1, CallStepCall
  <1>8. call'[Executor] = r
    BY <1>1, <1>7, CallChanges
  <1>9. ASSUME NEW d \in submitted
        PROVE  promise[d] # <<>> \/ d = call[t].command \/ Pends(d)
    <2>1. ~Owes(d)
      BY <1>4 DEF Owes
    <2> QED BY <1>1, <2>1 DEF SerialInv, HoldersExist, HasHolder, Calls
  <1>10. PendingIsCancelled' /\ CommitFits' /\ LeaderIsOfTerm'
    BY <1>4, <1>5, <1>6 DEF PendingIsCancelled, CommitFits, LeaderIsOfTerm
  <1>11. CASE CallGoes(t, r)
    <2>1. UNCHANGED <<log, applied, acknowledged, pending, promise>>
      BY <1>11 DEF CallGoes, dataVars
    <2>2. CallsRunAlone'
      BY <1>4, <1>6, <1>8, <1>11, <2>1 DEF CallGoes, CallsRunAlone
    <2>3. NonePendsAlone'
      BY <1>6, <1>8, <1>11, <2>1 DEF CallGoes, SerialInv, NonePendsAlone
    <2>4. HoldersExist'
      <3>1. ASSUME NEW d \in submitted PROVE HasHolder(d)'
        BY <1>8, <1>9, <1>11, <2>1 DEF CallGoes, HasHolder, Calls, Pends
      <3> QED BY <1>6, <3>1 DEF HoldersExist
    <2> QED BY <1>6, <2>1, <2>2, <2>3, <2>4, CallLeaves DEF SerialInv
  <1>12. CASE r = Idle /\ CompleteAlone(t)
    <2>1. /\ alone /\ HasEntry(t) /\ CompleteCommit(call[t])
          /\ SetValue(call[t].command, TRUE) /\ pending' = pending
      BY <1>12 DEF CompleteAlone
    <2>2. call[t].id = Len(log) /\ call[t].term \in led
      BY <1>4, <1>5, <2>1 DEF HasEntry
    <2>3. Outcomes'
      BY <1>1, <1>3, <1>6, <2>1, <2>2, CompleteOutcomes DEF SerialInv, Outcomes
    <2>4. CallsRunAlone' /\ NonePendsAlone' /\ PendingFits'
      BY <1>6, <1>8, <1>12, <2>1
      DEF SerialInv, CallsRunAlone, NonePendsAlone, PendingFits, Idle
    <2>5. HoldersExist'
      <3>1. \A d \in Command : promise[d] # <<>> => promise'[d] # <<>>
        BY <1>1, <1>3, <2>1, SetValueHolds
      <3>2. promise'[call[t].command] # <<>>
        BY <1>1, <1>3, <2>1, SetValueHolds
      <3>3. ASSUME NEW d \in submitted PROVE HasHolder(d)'
        BY <1>1, <1>9, <2>1, <3>1, <3>2 DEF HasHolder, Pends
      <3> QED BY <1>6, <3>3 DEF HoldersExist
    <2> QED BY <1>10, <2>3, <2>4, <2>5 DEF SerialInv, Outcomes
  <1>13. CASE r = Idle /\ CallRefused(t)
    <2>1. /\ SetValue(call[t].command, FALSE)
          /\ UNCHANGED <<log, applied, acknowledged, pending>>
      BY <1>13 DEF CallRefused, dataVars
    <2>2. CallsRunAlone' /\ NonePendsAlone'
      BY <1>6, <1>8, <1>13, <2>1 DEF SerialInv, CallsRunAlone, NonePendsAlone, Idle
    <2>3. HoldersExist'
      <3>1. \A d \in Command : promise[d] # <<>> => promise'[d] # <<>>
        BY <1>1, <1>3, <2>1, SetValueHolds
      <3>2. promise'[call[t].command] # <<>>
        BY <1>1, <1>3, <2>1, SetValueHolds
      <3>3. ASSUME NEW d \in submitted PROVE HasHolder(d)'
        BY <1>1, <1>9, <2>1, <3>1, <3>2 DEF HasHolder, Pends
      <3> QED BY <1>6, <3>3 DEF HoldersExist
    <2> QED BY <1>6, <2>1, <2>2, <2>3, CallLeaves DEF SerialInv
  <1>14. CASE r = Idle /\ CallPends(t)
    <2>1. /\ call[t].pc = "set" /\ ~(pending # None /\ pending.id = Len(log))
          /\ pending' = [id |-> call[t].id, term |-> call[t].term,
                         command |-> call[t].command]
          /\ UNCHANGED <<log, applied, acknowledged, promise>>
      BY <1>14 DEF CallPends, dataVars
    <2>2. /\ pending'.id = Len(log) /\ pending'.term = term
          /\ pending'.command = call[t].command
      BY <1>4, <2>1
    <2>3. CallsRunAlone' /\ PendingFits'
      BY <1>4, <1>5, <1>6, <1>8, <1>14, <2>1, <2>2 DEF CallsRunAlone, PendingFits
    <2>4. ~alone /\ NonePendsAlone'
      BY <1>1, <1>6, <2>1 DEF SerialInv, NonePendsAlone
    <2>5. pending = None
      BY <2>1 DEF SerialInv, PendingFits
    <2>6. HoldersExist'
      <3>1. pending' # None
        <4>1. pending' \in Commits
          BY <1>1, <1>2, <2>1, CallFields DEF Commits
        <4> QED BY <4>1, NodeConstants DEF Commits, Terms
      <3>2. ASSUME NEW d \in submitted PROVE HasHolder(d)'
        BY <1>9, <2>1, <2>2, <2>5, <3>1 DEF HasHolder, Pends
      <3> QED BY <1>6, <3>2 DEF HoldersExist
    <2> QED BY <1>6, <1>10, <2>1, <2>3, <2>4, <2>6, CallLeaves DEF SerialInv
  <1> QED BY <1>7, <1>11, <1>12, <1>13, <1>14

LEMMA SerialInitial == Init => SerialInv
  <1> SUFFICES ASSUME Init PROVE SerialInv
    OBVIOUS
  <1>1. /\ raft = "Standby" /\ pending = None /\ work = <<<<"handle", "Started">>>>
        /\ call = [t \in Thread |-> Idle] /\ registered = FALSE /\ submitted = {}
        /\ acknowledged = {} /\ Executor \in Thread
    BY DEF Init, Thread
  <1>2. \A i \in 1 .. Len(work) : work[i][1] = "handle"
    BY <1>1
  <1>3. CallsRunAlone /\ NonePendsAlone
    BY <1>1 DEF CallsRunAlone, NonePendsAlone, Idle
  <1>4. PendingFits /\ PendingIsCancelled /\ LeaderIsOfTerm
    BY <1>1 DEF PendingFits, PendingIsCancelled, LeaderIsOfTerm
  <1>5. CommitFits
    BY <1>2 DEF CommitFits
  <1>6. HoldersExist /\ SuccessIsOfLeader /\ SuccessIsStored /\ CopyFollowsLog
    BY <1>1 DEF HoldersExist, SuccessIsOfLeader, SuccessIsStored, CopyFollowsLog
  <1> QED BY <1>3, <1>4, <1>5, <1>6 DEF SerialInv

LEMMA SerialUnchanged ==
  ASSUME SerialInv, UNCHANGED vars
  PROVE  SerialInv'
  <1>1. UNCHANGED <<raft, alone, term, led, log, applied, registered, work, acknowledged,
                    pending, call, submitted, promise>>
    BY DEF vars, raftVars, lifeVars, dataVars, callVars
  <1>2. CallsRunAlone' /\ NonePendsAlone'
    BY <1>1 DEF SerialInv, CallsRunAlone, NonePendsAlone
  <1>3. HoldersExist'
    BY <1>1 DEF SerialInv, HoldersExist, HasHolder, Calls, Pends, Owes, OwesIn
  <1> QED BY <1>1, <1>2, <1>3, CallLeaves DEF SerialInv

LEMMA SerialInvariant ==
  ASSUME Serial
  PROVE  Spec => []SerialInv
  <1>1. SerialInv /\ PhaseInv /\ NodeTypeInv /\ [Next]_vars => SerialInv'
    BY SerialUnchanged, ExecutorSerial, HandlerSerial, CommitCommandSerial, CallStepSerial
    DEF Next
  <1> QED BY <1>1, SerialInitial, PhaseInvariant, NodeTypeInvariant, PTL DEF Spec

\* A command that an application submits between the handlers of the executor is
\* answered, or the call, the handler or the pending commit of a leader will: a
\* broadcast never forgets it, no later commit replaces it, and whatever ends
\* the leadership cancels it, in every order of timers, requests and answers.
THEOREM CommandsAreOwedAnAnswer ==
  ASSUME Serial
  PROVE  Spec => []AnswerIsOwed
  <1>1. SerialInv /\ PhaseInv => AnswerIsOwed
    <2> SUFFICES ASSUME SerialInv, PhaseInv, NEW c \in submitted
                 PROVE  \/ promise[c] # <<>>
                        \/ \E t \in Thread : call[t] # Idle /\ call[t].command = c
                        \/ \E i \in DOMAIN work :
                             \/ work[i][1] = "respond" /\ work[i][2] = c
                             \/ work[i][1] = "commit" /\ work[i][2].command = c
                        \/ /\ pending # None /\ pending.command = c
                           /\ raft = "Leader" \/ work # <<>>
      BY DEF AnswerIsOwed
    <2>1. DOMAIN work = 1 .. Len(work)
      BY DEF PhaseInv, IsList
    <2>2. Executor \in Thread
      BY DEF Thread
    <2>3. HasHolder(c)
      BY DEF SerialInv, HoldersExist
    <2>4. CASE Owes(c)
      BY <2>1, <2>4 DEF Owes, OwesIn
    <2>5. CASE Pends(c)
      BY <2>5 DEF Pends, SerialInv, PendingFits
    <2> QED BY <2>2, <2>3, <2>4, <2>5 DEF HasHolder, Calls
  <1> QED BY <1>1, SerialInvariant, PhaseInvariant, PTL

\* Every commit that is reported as successful has its entry in the log, where
\* push_log stores what it is given: the id of the commit is still the size of
\* the log when its majority is there.
THEOREM SuccessesAreStored ==
  ASSUME Serial, ~PutMayFail
  PROVE  Spec => []SuccessIsStored
  <1>1. SerialInv => SuccessIsStored
    BY DEF SerialInv
  <1> QED BY <1>1, SerialInvariant, PTL

\* Every commit that is reported as successful is of a term that the node was
\* elected in: its term was read while it led, and no answer to another term
\* completes it.
THEOREM SuccessesAreOfLeaders ==
  ASSUME Serial
  PROVE  Spec => []SuccessIsOfLeader
  <1>1. SerialInv => SuccessIsOfLeader
    BY DEF SerialInv
  <1> QED BY <1>1, SerialInvariant, PTL

\* The application that follows the commit and revert callbacks has the command
\* of every entry of the log right, even where push_log fails to store one.
THEOREM CopiesFollowTheLog ==
  ASSUME Serial
  PROVE  Spec => []CopyFollowsLog
  <1>1. SerialInv => CopyFollowsLog
    BY DEF SerialInv
  <1> QED BY <1>1, SerialInvariant, PTL
=============================================================================
