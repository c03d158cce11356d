-------------------------- MODULE RaftCommitProofs --------------------------
(***************************************************************************)
(* Leadership and promises of Raft.  A Leader has the term that it was     *)
(* elected in, because every step that raises a term also leaves Leader    *)
(* (StateMachine::handle of NewTermReceived), and its pending commit goes  *)
(* with it (Leader::exit).  So a command is with one leader at most, its   *)
(* promise is open as long as it is pending, and nobody sets it twice.     *)
(***************************************************************************)
EXTENDS RaftElectionProofs

\* A Candidate has not been elected in its term yet.
CandidatesAreNew ==
  \A n \in Node : state[n] = "Candidate" => <<current_term[n], n>> \notin elected

\* Nobody was elected in a term that it has not reached.
ElectedArePast == \A e \in elected : e[1] <= current_term[e[2]]

\* The promise of a pending commit is not set.
PendingIsOpen ==
  \A n \in Node : pending_commit[n] # None =>
    /\ pending_commit[n].command \in submitted
    /\ promise[pending_commit[n].command] = <<>>

\* A command is pending at one node at most.
PendingIsOwn ==
  \A n1, n2 \in Node :
    /\ pending_commit[n1] # None /\ pending_commit[n2] # None
    /\ pending_commit[n1].command = pending_commit[n2].command
    => n1 = n2

\* Nobody answers a command that was not submitted.
NewCommandsAreOpen == \A c \in Command \ submitted : promise[c] = <<>>

LeaderInv == LeadersHoldTheirTerm /\ CandidatesAreNew /\ ElectedArePast
PromiseInv ==
  PendingIsOpen /\ PendingIsOwn /\ NewCommandsAreOpen /\ PromiseSetOnce

\* The inductive invariant of leadership and promises.
CommitInv == TypeOK /\ LeaderInv /\ PromiseInv

-----------------------------------------------------------------------------
(* Leadership                                                               *)

\* Where the events of a handler take the state machine.
LEMMA HandleFacts ==
  ASSUME NEW s \in StateType \cup {"Down"}
  PROVE  /\ handle(s, "NewTermReceived") \notin {"Candidate", "Leader"}
         /\ handle(s, "LeaderDiscovered") \notin {"Candidate", "Leader"}
         /\ handle("Follower", "Timedout") = "Candidate"
         /\ handle("Candidate", "Timedout") = "Candidate"
         /\ handle("Candidate", "Elected") = "Leader"
         /\ s # "Candidate" => handle(s, "Elected") = s
  BY DEF handle, StateType, Transitions, StandbyTransitions,
         FollowerTransitions, CandidateTransitions, LeaderTransitions

\* Pending commits are kept, with their term, or go.
PendingStays ==
  \A k \in Node : pending_commit'[k] # None =>
    pending_commit[k] # None /\ pending_commit'[k].term = pending_commit[k].term

\* n moves to the term t and the state s.
Moves(n, t, s) ==
  /\ current_term' = [current_term EXCEPT ![n] = t]
  /\ state' = [state EXCEPT ![n] = s]

\* A node that moves to a newer term, or out of Candidate and Leader.
StepsDown(n, t, s) ==
  /\ Moves(n, t, s) /\ t >= current_term[n]
  /\ s \in {"Candidate", "Leader"} => s = state[n] /\ t = current_term[n]
  /\ elected' = elected
  /\ PendingStays
  /\ s # "Leader" => pending_commit'[n] = None

\* Whoever is a Leader was one in the same term, or has just been elected.
LeadersStay ==
  \A k \in Node : state'[k] = "Leader" =>
    \/ state[k] = "Leader" /\ current_term'[k] = current_term[k]
    \/ <<current_term'[k], k>> \in elected' \ elected

\* To step down leaves the other leaders, and no pending commit behind.
LEMMA StepDownKeeps ==
  ASSUME TypeOK, LeaderInv, NEW n \in Node, NEW t \in Nat, NEW s,
         StepsDown(n, t, s)
  PROVE  LeaderInv' /\ LeadersStay
  <1>1. /\ current_term \in [Node -> Nat]
        /\ state \in [Node -> StateType \cup {"Down"}]
        /\ elected \in SUBSET (Nat \X Node)
    BY DEF TypeOK
  <1>2. \A k \in Node : /\ current_term'[k] >= current_term[k]
                        /\ state'[k] \in {"Candidate", "Leader"} =>
                             /\ state[k] = state'[k]
                             /\ current_term'[k] = current_term[k]
    BY <1>1 DEF StepsDown, Moves
  <1>3. \A k \in Node : current_term'[k] \in Nat
    BY <1>1 DEF StepsDown, Moves
  <1>4. ElectedArePast'
    <2> SUFFICES ASSUME NEW e \in elected PROVE e[1] <= current_term'[e[2]]
      BY DEF ElectedArePast, StepsDown
    <2>1. e[1] \in Nat /\ e[2] \in Node /\ e[1] <= current_term[e[2]]
      BY <1>1 DEF LeaderInv, ElectedArePast
    <2> QED BY <1>1, <1>2, <1>3, <2>1
  <1>5. CandidatesAreNew'
    BY <1>2 DEF CandidatesAreNew, LeaderInv, StepsDown
  <1>6. \A k \in Node : pending_commit'[k] # None => state'[k] = "Leader"
    BY <1>1 DEF StepsDown, Moves, PendingStays, LeaderInv, LeadersHoldTheirTerm
  <1>7. LeadersHoldTheirTerm'
    BY <1>2, <1>6 DEF LeadersHoldTheirTerm, LeaderInv, StepsDown, PendingStays
  <1>8. LeadersStay
    BY <1>2 DEF LeadersStay
  <1> QED BY <1>4, <1>5, <1>7, <1>8 DEF LeaderInv

\* A step of commit_command or of a timer changes no role.
LEMMA RolesStay ==
  ASSUME TypeOK, LeaderInv, UNCHANGED <<current_term, state, elected>>,
         \A k \in Node : pending_commit'[k] # None =>
           \/ /\ pending_commit[k] # None
              /\ pending_commit'[k].term = pending_commit[k].term
           \/ state[k] = "Leader" /\ pending_commit'[k].term = current_term[k]
  PROVE  LeaderInv' /\ LeadersStay
  BY DEF LeaderInv, LeadersHoldTheirTerm, CandidatesAreNew, ElectedArePast,
         LeadersStay

\* update_term, with the event of the request, makes a node step down.
LEMMA UpdateStepsDown ==
  ASSUME TypeOK, LeaderInv, NEW n \in Node, NEW t \in Nat, NEW s,
         s \in {update_term(n, t).state,
                handle(update_term(n, t).state, "LeaderDiscovered")},
         current_term' = [current_term EXCEPT ![n] = update_term(n, t).current_term],
         EnterState(n, s), elected' = elected
  PROVE  LeaderInv' /\ LeadersStay
  <1> DEFINE u == update_term(n, t)
  <1>1. current_term[n] \in Nat /\ state[n] \in StateType \cup {"Down"}
    BY DEF TypeOK
  <1>2. u \in TermRecord
    BY UpdateTermType
  <1>3. u.state \in StateType \cup {"Down"} /\ u.current_term \in Nat
    BY <1>2 DEF TermRecord
  <1>4. \/ u.current_term = current_term[n] /\ u.state = state[n]
        \/ /\ u.current_term = t /\ t > current_term[n]
           /\ u.state = handle(state[n], "NewTermReceived")
    BY <1>1 DEF update_term
  <1>5. /\ u.current_term >= current_term[n]
        /\ u.state \in {"Candidate", "Leader"} =>
             u.state = state[n] /\ u.current_term = current_term[n]
    BY <1>1, <1>4, HandleFacts
  <1> HIDE DEF u
  <1>6. s \in {u.state, handle(u.state, "LeaderDiscovered")}
    BY DEF u
  <1>7. s \in {"Candidate", "Leader"} =>
          s = state[n] /\ u.current_term = current_term[n]
    BY <1>3, <1>5, <1>6, HandleFacts
  <1>8. PendingStays /\ (s # "Leader" => pending_commit'[n] = None)
    <2>1. pending_commit \in [Node -> PendingCommit \cup {None}]
      BY DEF TypeOK
    <2>2. pending_commit[n] # None => state[n] = "Leader"
      BY DEF LeaderInv, LeadersHoldTheirTerm
    <2> QED BY <2>1, <2>2 DEF EnterState, PendingStays
  <1>9. StepsDown(n, u.current_term, s)
    BY <1>5, <1>7, <1>8 DEF StepsDown, Moves, EnterState, u
  <1> QED BY <1>3, <1>9, StepDownKeeps

\* A node that wins the election of its own term.
LEMMA WinKeeps ==
  ASSUME TypeOK, LeaderInv, NEW n \in Node,
         state[n] # "Leader", NEW t \in Nat, t >= current_term[n],
         <<t, n>> \notin elected,
         Moves(n, t, "Leader"), elected' = elected \cup {<<t, n>>},
         UNCHANGED pending_commit
  PROVE  LeaderInv' /\ LeadersStay
  <1>1. /\ current_term \in [Node -> Nat]
        /\ state \in [Node -> StateType \cup {"Down"}]
        /\ elected \in SUBSET (Nat \X Node)
    BY DEF TypeOK
  <1>2. \A k \in Node \ {n} : /\ current_term'[k] = current_term[k]
                              /\ state'[k] = state[k]
    BY <1>1 DEF Moves
  <1>3. current_term'[n] = t /\ state'[n] = "Leader"
    BY <1>1 DEF Moves
  <1>4. ElectedArePast'
    <2> SUFFICES ASSUME NEW e \in elected' PROVE e[1] <= current_term'[e[2]]
      BY DEF ElectedArePast
    <2>1. CASE e = <<t, n>>
      BY <1>3, <2>1
    <2>2. CASE e \in elected
      <3>1. e[1] \in Nat /\ e[2] \in Node /\ e[1] <= current_term[e[2]]
        BY <1>1, <2>2 DEF LeaderInv, ElectedArePast
      <3> QED BY <1>1, <1>2, <1>3, <3>1
    <2> QED BY <2>1, <2>2
  <1>5. CandidatesAreNew'
    <2> SUFFICES ASSUME NEW k \in Node, state'[k] = "Candidate"
                 PROVE  <<current_term'[k], k>> \notin elected'
      BY DEF CandidatesAreNew
    <2>1. k # n
      BY <1>3
    <2>2. <<current_term[k], k>> \notin elected
      BY <1>2, <2>1 DEF LeaderInv, CandidatesAreNew
    <2> QED BY <1>2, <2>1, <2>2
  <1>6. LeadersHoldTheirTerm'
    <2>1. pending_commit[n] = None
      BY DEF LeaderInv, LeadersHoldTheirTerm
    <2> QED BY <1>2, <1>3, <2>1 DEF LeaderInv, LeadersHoldTheirTerm
  <1>7. LeadersStay
    BY <1>2, <1>3 DEF LeadersStay
  <1> QED BY <1>4, <1>5, <1>6, <1>7 DEF LeaderInv

\* A node that becomes or stays Candidate in its next term.
LEMMA CandidacyKeeps ==
  ASSUME TypeOK, LeaderInv, NEW n \in Node, state[n] # "Leader",
         Moves(n, current_term[n] + 1, "Candidate"),
         UNCHANGED <<elected, pending_commit>>
  PROVE  LeaderInv' /\ LeadersStay
  <1>1. /\ current_term \in [Node -> Nat]
        /\ state \in [Node -> StateType \cup {"Down"}]
        /\ elected \in SUBSET (Nat \X Node)
    BY DEF TypeOK
  <1>2. \A k \in Node \ {n} : /\ current_term'[k] = current_term[k]
                              /\ state'[k] = state[k]
    BY <1>1 DEF Moves
  <1>3. current_term'[n] = current_term[n] + 1 /\ state'[n] = "Candidate"
    BY <1>1 DEF Moves
  <1>4. \A e \in elected : e[1] \in Nat /\ e[2] \in Node /\ e[1] <= current_term[e[2]]
    BY <1>1 DEF LeaderInv, ElectedArePast
  <1>5. <<current_term[n] + 1, n>> \notin elected
    <2>1. ~(current_term[n] + 1 <= current_term[n])
      BY <1>1
    <2> QED BY <1>4, <2>1
  <1>6. ElectedArePast'
    <2> SUFFICES ASSUME NEW e \in elected PROVE e[1] <= current_term'[e[2]]
      BY DEF ElectedArePast
    <2> QED BY <1>1, <1>2, <1>3, <1>4
  <1>7. CandidatesAreNew'
    BY <1>2, <1>3, <1>5 DEF LeaderInv, CandidatesAreNew
  <1>8. LeadersHoldTheirTerm'
    <2>1. pending_commit[n] = None
      BY DEF LeaderInv, LeadersHoldTheirTerm
    <2> QED BY <1>2, <1>3, <2>1 DEF LeaderInv, LeadersHoldTheirTerm
  <1>9. LeadersStay
    BY <1>2, <1>3 DEF LeadersStay
  <1> QED BY <1>6, <1>7, <1>8, <1>9 DEF LeaderInv

\* Candidate::start_election, in a cluster of one node with its success.
LEMMA ElectionLeaders ==
  ASSUME TypeOK, LeaderInv, NEW n \in Node, ElectionTimeout(n)
  PROVE  LeaderInv' /\ LeadersStay
  <1> DEFINE t == current_term[n] + 1
  <1>1. state[n] \in {"Follower", "Candidate"}
    BY DEF ElectionTimeout
  <1>2. /\ handle(state[n], "Timedout") = "Candidate"
        /\ handle("Candidate", "Elected") = "Leader"
    BY <1>1, HandleFacts DEF StateType
  <1>3. \/ Moves(n, t, "Candidate") /\ elected' = elected
        \/ Moves(n, t, "Leader") /\ elected' = elected \cup {<<t, n>>}
    BY <1>2 DEF ElectionTimeout, StartElection, Moves
  <1>4. pending_commit' = pending_commit
    BY DEF ElectionTimeout, StartElection, commitVars
  <1>5. current_term[n] \in Nat /\ t \in Nat /\ t >= current_term[n]
    BY DEF TypeOK
  <1>6. <<t, n>> \notin elected
    <2>1. \A e \in elected : e[1] <= current_term[e[2]]
      BY DEF LeaderInv, ElectedArePast
    <2>2. ~(t <= current_term[n])
      BY <1>5
    <2> QED BY <2>1, <2>2
  <1>7. state[n] # "Leader"
    BY <1>1
  <1> QED BY <1>3, <1>4, <1>5, <1>6, <1>7, CandidacyKeeps, WinKeeps

\* on_request_vote_response with a vote that is counted.
LEMMA VoteLeaders ==
  ASSUME TypeOK, LeaderInv, NEW m \in vote_responses, HandleVoteGranted(m)
  PROVE  LeaderInv' /\ LeadersStay
  <1> DEFINE n == m.to
  <1>1. n \in Node
    BY DEF TypeOK, VoteResponse
  <1>2. /\ current_term \in [Node -> Nat]
        /\ state \in [Node -> StateType \cup {"Down"}]
    BY DEF TypeOK
  <1>3. UNCHANGED <<current_term, pending_commit>>
    BY DEF HandleVoteGranted, commitVars
  <1>4. PICK s \in {state[n], handle(state[n], "Elected")} :
          /\ state' = [state EXCEPT ![n] = s]
          /\ elected' = IF s = "Leader" /\ state[n] # "Leader"
                        THEN elected \cup {<<current_term[n], n>>} ELSE elected
    BY DEF HandleVoteGranted
  <1> HIDE DEF n
  <1>5. CASE s = state[n]
    <2>1. state' = state /\ elected' = elected
      BY <1>1, <1>2, <1>4, <1>5
    <2> QED BY <1>3, <2>1, RolesStay
  <1>6. CASE s # state[n]
    <2>1. state[n] = "Candidate" /\ s = "Leader"
      BY <1>1, <1>2, <1>4, <1>6, HandleFacts
    <2>2. <<current_term[n], n>> \notin elected
      BY <1>1, <2>1 DEF LeaderInv, CandidatesAreNew
    <2>3. Moves(n, current_term[n], "Leader")
      BY <1>1, <1>2, <1>3, <1>4, <2>1 DEF Moves
    <2>4. elected' = elected \cup {<<current_term[n], n>>} /\ state[n] # "Leader"
      BY <1>4, <2>1
    <2>5. current_term[n] \in Nat /\ current_term[n] >= current_term[n]
      BY <1>1, <1>2
    <2> QED BY <1>1, <1>3, <2>2, <2>3, <2>4, <2>5, WinKeeps
  <1> QED BY <1>5, <1>6

\* The handlers that apply the term of a message.
LEMMA MessageLeaders ==
  ASSUME TypeOK, LeaderInv,
         \/ \E m \in vote_requests : HandleRequestVote(m)
         \/ \E m \in vote_responses : HandleVoteRefused(m)
         \/ \E l, n \in Node : HandleAppendEntries(l, n)
  PROVE  LeaderInv' /\ LeadersStay
  <1>1. ASSUME NEW m \in vote_requests, HandleRequestVote(m)
        PROVE  LeaderInv' /\ LeadersStay
    <2> DEFINE u == update_term(m.to, m.term)
    <2>1. m.to \in Node /\ m.term \in Nat
      BY DEF TypeOK, VoteRequest
    <2>2. u \in TermRecord
      BY <2>1, UpdateTermType
    <2> DEFINE w == IF Grants(m.to, u, m)
                    THEN [u EXCEPT !.voted_for = m.from, !.voted = TRUE] ELSE u
    <2>3. ApplyTerm(m.to, w) /\ EnterState(m.to, u.state) /\ elected' = elected
      BY <1>1 DEF HandleRequestVote
    <2>4. w.current_term = u.current_term
      <3> HIDE DEF u
      <3> QED BY <2>2 DEF TermRecord
    <2> HIDE DEF w
    <2>5. current_term' = [current_term EXCEPT ![m.to] = u.current_term]
      BY <2>3, <2>4 DEF ApplyTerm
    <2> QED BY <2>1, <2>3, <2>5, UpdateStepsDown
  <1>2. ASSUME NEW m \in vote_responses, HandleVoteRefused(m)
        PROVE  LeaderInv' /\ LeadersStay
    <2> DEFINE u == update_term(m.to, m.term)
    <2>1. m.to \in Node /\ m.term \in Nat
      BY DEF TypeOK, VoteResponse
    <2>2. ApplyTerm(m.to, u) /\ EnterState(m.to, u.state) /\ elected' = elected
      BY <1>2 DEF HandleVoteRefused, historyVars
    <2>3. current_term' = [current_term EXCEPT ![m.to] = u.current_term]
      BY <2>2 DEF ApplyTerm
    <2> QED BY <2>1, <2>2, <2>3, UpdateStepsDown
  <1>3. ASSUME NEW l \in Node, NEW n \in Node, HandleAppendEntries(l, n)
        PROVE  LeaderInv' /\ LeadersStay
    <2> DEFINE m == Head(append_requests[l][n])
               u == update_term(n, m.term)
    <2>1. append_requests[l][n] \in Seq(AppendRequest)
      BY DEF TypeOK
    <2>2. m \in AppendRequest
      <3>1. append_requests[l][n] # <<>>
        BY <1>3 DEF HandleAppendEntries
      <3> QED BY <2>1, <3>1
    <2>3. m.term \in Nat
      BY <2>2 DEF AppendRequest
    <2>4. /\ ApplyTerm(n, u) /\ elected' = elected
          /\ \/ EnterState(n, u.state)
             \/ EnterState(n, handle(u.state, "LeaderDiscovered"))
      BY <1>3 DEF HandleAppendEntries, historyVars
    <2>5. current_term' = [current_term EXCEPT ![n] = u.current_term]
      BY <2>4 DEF ApplyTerm
    <2>6. PICK s \in {u.state, handle(u.state, "LeaderDiscovered")} : EnterState(n, s)
      BY <2>4
    <2>7. elected' = elected
      BY <2>4
    <2> HIDE DEF m
    <2> QED BY <2>3, <2>5, <2>6, <2>7, UpdateStepsDown
  <1> QED BY <1>1, <1>2, <1>3

\* The answer to append_entries: n steps down, or its commit advances.
LEMMA AnswerLeaders ==
  ASSUME TypeOK, LeaderInv, NEW f \in Node, NEW n \in Node,
         HandleAppendResponse(f, n)
  PROVE  LeaderInv' /\ LeadersStay
  <1> DEFINE r == Head(append_responses[f][n])
             u == update_term(n, r.term)
  <1>1. /\ append_responses[f][n] \in Seq(AppendResponse)
        /\ append_responses[f][n] # <<>>
    BY DEF TypeOK, HandleAppendResponse
  <1>2. r \in AppendResponse
    BY <1>1
  <1>3. r.term \in Nat
    BY <1>2 DEF AppendResponse
  <1>4. /\ ApplyTerm(n, u) /\ elected' = elected
        /\ \/ EnterState(n, u.state)
           \/ /\ r.term <= current_term[n]
              /\ HandlePendingCommit(f, n, r) /\ UNCHANGED state
    BY DEF HandleAppendResponse, historyVars
  <1>5. current_term' = [current_term EXCEPT ![n] = u.current_term]
    BY <1>4 DEF ApplyTerm
  <1>6. CASE EnterState(n, u.state)
    BY <1>3, <1>4, <1>5, <1>6, UpdateStepsDown
  <1>7. CASE /\ r.term <= current_term[n]
             /\ HandlePendingCommit(f, n, r) /\ UNCHANGED state
    <2>1. current_term \in [Node -> Nat]
      BY DEF TypeOK
    <2>2. u.current_term = current_term[n]
      <3> HIDE DEF r
      <3> QED BY <1>3, <1>7, <2>1 DEF update_term
    <2>3. current_term' = current_term
      BY <1>5, <2>1, <2>2
    <2>4. \A k \in Node : pending_commit'[k] # None =>
            /\ pending_commit[k] # None
            /\ pending_commit'[k].term = pending_commit[k].term
      <3>1. pending_commit[n] \in PendingCommit
        BY <1>7 DEF TypeOK, HandlePendingCommit, AnswersPending
      <3>2. pending_commit \in [Node -> PendingCommit \cup {None}]
        BY DEF TypeOK
      <3>3. pending_commit[n] # None
        BY <1>7 DEF HandlePendingCommit, AnswersPending
      <3>4. \/ pending_commit' = [pending_commit EXCEPT ![n] = None]
            \/ \E map : pending_commit' =
                          [pending_commit EXCEPT ![n].result_map = map]
        BY <1>7 DEF HandlePendingCommit
      <3> HIDE DEF r
      <3> QED BY <3>1, <3>2, <3>3, <3>4 DEF PendingCommit
    <2> QED BY <1>4, <1>7, <2>3, <2>4, RolesStay
  <1> QED BY <1>4, <1>6, <1>7

\* The death of a process, at any Put, and its restart.
LEMMA CrashLeaders ==
  ASSUME TypeOK, LeaderInv, NEW n \in Node,
         Crash(n) \/ CrashInHandler(n) \/ Restart(n)
  PROVE  LeaderInv' /\ LeadersStay
  <1>1. /\ current_term \in [Node -> Nat]
        /\ state \in [Node -> StateType \cup {"Down"}]
        /\ pending_commit \in [Node -> PendingCommit \cup {None}]
    BY DEF TypeOK
  <1>2. ASSUME NEW d, Die(n, d), d.current_term \in Nat,
               d.current_term >= current_term[n]
        PROVE  StepsDown(n, d.current_term, "Down")
    BY <1>1, <1>2 DEF Die, StepsDown, Moves, PendingStays, historyVars
  <1>3. CASE Crash(n)
    <2> DEFINE d == Disk(current_term[n], voted_for[n], voted[n], logs[n])
    <2>1. d.current_term = current_term[n]
      BY DEF Disk
    <2>2. Die(n, d)
      BY <1>3 DEF Crash
    <2>3. current_term[n] \in Nat /\ current_term[n] >= current_term[n]
      BY <1>1
    <2> HIDE DEF d
    <2>4. StepsDown(n, d.current_term, "Down")
      BY <1>2, <2>1, <2>2, <2>3
    <2> QED BY <2>1, <2>3, <2>4, StepDownKeeps
  <1>4. CASE CrashInHandler(n)
    <2>1. PICK d \in HandlerDisks(n) : Die(n, d)
      BY <1>4 DEF CrashInHandler
    <2>2. d.current_term \in Nat
      BY HandlerDisksType DEF DiskRecord
    <2>3. d.current_term >= current_term[n]
      BY DisksKeepVotes
    <2> QED BY <1>2, <2>1, <2>2, <2>3, StepDownKeeps
  <1>5. CASE Restart(n)
    <2>1. /\ state' = [state EXCEPT ![n] = "Follower"] /\ state[n] = "Down"
          /\ UNCHANGED <<current_term, elected, pending_commit>>
      BY <1>5, StartedFollows DEF Restart, termVars, commitVars, historyVars
    <2>2. pending_commit[n] = None
      BY <2>1 DEF LeaderInv, LeadersHoldTheirTerm
    <2>3. Moves(n, current_term[n], "Follower") /\ PendingStays
      BY <1>1, <2>1 DEF Moves, PendingStays
    <2>4. StepsDown(n, current_term[n], "Follower")
      BY <1>1, <2>1, <2>2, <2>3 DEF StepsDown
    <2> QED BY <1>1, <2>4, StepDownKeeps
  <1> QED BY <1>3, <1>4, <1>5

\* Every step keeps the leaders to their terms.
LEMMA NextLeaders ==
  ASSUME TypeOK, LeaderInv, [Next]_vars
  PROVE  LeaderInv' /\ LeadersStay
  <1>1. ASSUME NEW n \in Node, ElectionTimeoutIgnored(n)
        PROVE  LeaderInv' /\ LeadersStay
    BY <1>1, RolesStay DEF ElectionTimeoutIgnored, termVars, commitVars, historyVars
  <1>2. ASSUME NEW n \in Node, Broadcast(n)
        PROVE  LeaderInv' /\ LeadersStay
    <2>1. pending_commit \in [Node -> PendingCommit \cup {None}]
      BY DEF TypeOK
    <2>2. UNCHANGED <<current_term, state, elected>>
      BY <1>2 DEF Broadcast, termVars, historyVars
    <2>3. pending_commit' = [pending_commit EXCEPT ![n] =
                               IF PendingIsValid(n) THEN @ ELSE None]
      BY <1>2 DEF Broadcast
    <2>4. \A k \in Node : pending_commit'[k] \in {None, pending_commit[k]}
      BY <2>1, <2>3
    <2> QED BY <2>2, <2>4, RolesStay
  <1>3. ASSUME NEW n \in Node, NEW c \in Command,
               RefuseCommand(n, c) \/ CommitCommand(n, c)
        PROVE  LeaderInv' /\ LeadersStay
    <2>1. pending_commit \in [Node -> PendingCommit \cup {None}]
      BY DEF TypeOK
    <2>2. UNCHANGED <<current_term, state, elected>>
      BY <1>3 DEF RefuseCommand, CommitCommand, termVars, historyVars
    <2>3. \/ pending_commit' = pending_commit
          \/ /\ state[n] = "Leader"
             /\ pending_commit' = [pending_commit EXCEPT ![n] =
                  [id |-> Len(logs[n]), term |-> current_term[n], command |-> c,
                   result_map |-> [f \in Node |-> None]]]
      BY <1>3 DEF RefuseCommand, CommitCommand, TakesCommand
    <2>4. \A k \in Node : \/ pending_commit'[k] = pending_commit[k]
                          \/ /\ state[k] = "Leader"
                             /\ pending_commit'[k].term = current_term[k]
      BY <2>1, <2>3
    <2> QED BY <2>2, <2>4, RolesStay
  <1>4. CASE UNCHANGED vars
    BY <1>4, RolesStay DEF vars
  <1> QED
    BY <1>1, <1>2, <1>3, <1>4, ElectionLeaders, VoteLeaders, MessageLeaders,
       AnswerLeaders, CrashLeaders DEF Next

-----------------------------------------------------------------------------
(* Promises                                                                 *)

\* Nothing is answered: commits stay pending or are forgotten.
LEMMA NoAnswer ==
  ASSUME PromiseInv, UNCHANGED <<submitted, promise>>,
         \A k \in Node : pending_commit'[k] # None =>
           /\ pending_commit[k] # None
           /\ pending_commit'[k].command = pending_commit[k].command
  PROVE  PromiseInv'
  <1>1. PendingIsOpen'
    BY DEF PromiseInv, PendingIsOpen
  <1>2. PendingIsOwn'
    BY DEF PromiseInv, PendingIsOwn
  <1>3. NewCommandsAreOpen' /\ PromiseSetOnce'
    BY DEF PromiseInv, NewCommandsAreOpen, PromiseSetOnce
  <1> QED BY <1>1, <1>2, <1>3 DEF PromiseInv

\* A pending commit gets its answer and is pending no more.
LEMMA PendingAnswered ==
  ASSUME TypeOK, PromiseInv, NEW n \in Node, NEW b \in BOOLEAN,
         submitted' = submitted,
         pending_commit[n] # None,
         pending_commit' = [pending_commit EXCEPT ![n] = None],
         promise' = [promise EXCEPT ![pending_commit[n].command] = Append(@, b)]
  PROVE  PromiseInv'
  <1> DEFINE c == pending_commit[n].command
  <1>1. /\ pending_commit \in [Node -> PendingCommit \cup {None}]
        /\ promise \in [Command -> Seq(BOOLEAN)]
    BY DEF TypeOK
  <1>2. c \in Command /\ c \in submitted /\ promise[c] = <<>>
    BY <1>1 DEF PendingCommit, PromiseInv, PendingIsOpen
  <1>3. /\ pending_commit'[n] = None
        /\ \A k \in Node \ {n} : pending_commit'[k] = pending_commit[k]
    BY <1>1
  <1>4. \A k \in Node : pending_commit'[k] # None =>
          pending_commit'[k] = pending_commit[k] /\ pending_commit'[k].command # c
    BY <1>3 DEF PromiseInv, PendingIsOwn
  <1>5. promise' = [promise EXCEPT ![c] = Append(promise[c], b)]
    OBVIOUS
  <1> HIDE DEF c
  <1>6. Len(promise'[c]) = 1 /\ \A d \in Command \ {c} : promise'[d] = promise[d]
    BY <1>1, <1>2, <1>5
  <1>7. PendingIsOpen'
    <2> SUFFICES ASSUME NEW k \in Node, pending_commit'[k] # None
                 PROVE  /\ pending_commit'[k].command \in submitted
                        /\ promise'[pending_commit'[k].command] = <<>>
      BY DEF PendingIsOpen
    <2>1. pending_commit'[k] = pending_commit[k] /\ pending_commit[k].command # c
      BY <1>4
    <2>2. pending_commit[k].command \in Command
      BY <1>1, <2>1 DEF PendingCommit
    <2> QED BY <1>6, <2>1, <2>2 DEF PromiseInv, PendingIsOpen
  <1>8. PendingIsOwn'
    BY <1>4 DEF PromiseInv, PendingIsOwn
  <1>9. NewCommandsAreOpen'
    BY <1>2, <1>6 DEF PromiseInv, NewCommandsAreOpen
  <1>10. PromiseSetOnce'
    <2> SUFFICES ASSUME NEW d \in Command PROVE Len(promise'[d]) <= 1
      BY DEF PromiseSetOnce
    <2>1. Len(promise[d]) <= 1
      BY DEF PromiseInv, PromiseSetOnce
    <2> QED BY <1>1, <1>2, <1>5, <2>1
  <1> QED BY <1>7, <1>8, <1>9, <1>10 DEF PromiseInv

\* A new command becomes the pending commit of n.
LEMMA CommandTaken ==
  ASSUME TypeOK, PromiseInv, NEW n \in Node, NEW c \in Command, c \notin submitted,
         submitted' = submitted \cup {c}, promise' = promise,
         pending_commit'[n].command = c,
         \A k \in Node \ {n} : pending_commit'[k] = pending_commit[k]
  PROVE  PromiseInv'
  <1>1. promise[c] = <<>>
    BY DEF PromiseInv, NewCommandsAreOpen
  <1>2. \A k \in Node \ {n} : pending_commit'[k] # None =>
          /\ pending_commit'[k].command # c
          /\ pending_commit'[k].command \in submitted
          /\ promise[pending_commit'[k].command] = <<>>
    BY DEF PromiseInv, PendingIsOpen
  <1>3. PendingIsOpen'
    <2> SUFFICES ASSUME NEW k \in Node, pending_commit'[k] # None
                 PROVE  /\ pending_commit'[k].command \in submitted'
                        /\ promise'[pending_commit'[k].command] = <<>>
      BY DEF PendingIsOpen
    <2>1. CASE k = n
      BY <1>1, <2>1
    <2>2. CASE k # n
      BY <1>2, <2>2
    <2> QED BY <2>1, <2>2
  <1>4. PendingIsOwn'
    <2> SUFFICES ASSUME NEW n1 \in Node, NEW n2 \in Node,
                        pending_commit'[n1] # None, pending_commit'[n2] # None,
                        pending_commit'[n1].command = pending_commit'[n2].command
                 PROVE  n1 = n2
      BY DEF PendingIsOwn
    <2>1. n1 = n <=> n2 = n
      BY <1>2
    <2> QED BY <2>1 DEF PromiseInv, PendingIsOwn
  <1>5. NewCommandsAreOpen' /\ PromiseSetOnce'
    BY DEF PromiseInv, NewCommandsAreOpen, PromiseSetOnce
  <1> QED BY <1>3, <1>4, <1>5 DEF PromiseInv

\* A new command is answered at once.
LEMMA CommandAnswered ==
  ASSUME TypeOK, PromiseInv, NEW c \in Command, c \notin submitted,
         NEW b \in BOOLEAN,
         submitted' = submitted \cup {c}, pending_commit' = pending_commit,
         promise' = [promise EXCEPT ![c] = Append(@, b)]
  PROVE  PromiseInv'
  <1>1. /\ pending_commit \in [Node -> PendingCommit \cup {None}]
        /\ promise \in [Command -> Seq(BOOLEAN)]
    BY DEF TypeOK
  <1>2. promise[c] = <<>>
    BY DEF PromiseInv, NewCommandsAreOpen
  <1>3. Len(promise'[c]) = 1 /\ \A d \in Command \ {c} : promise'[d] = promise[d]
    BY <1>1, <1>2
  <1>4. PendingIsOpen'
    <2> SUFFICES ASSUME NEW k \in Node, pending_commit[k] # None
                 PROVE  /\ pending_commit[k].command \in submitted'
                        /\ promise'[pending_commit[k].command] = <<>>
      BY DEF PendingIsOpen
    <2>1. /\ pending_commit[k].command \in submitted
          /\ promise[pending_commit[k].command] = <<>>
      BY DEF PromiseInv, PendingIsOpen
    <2>2. pending_commit[k].command \in Command
      BY <1>1 DEF PendingCommit
    <2> QED BY <1>3, <2>1, <2>2
  <1>5. PendingIsOwn'
    BY DEF PromiseInv, PendingIsOwn
  <1>6. NewCommandsAreOpen'
    BY <1>3 DEF PromiseInv, NewCommandsAreOpen
  <1>7. PromiseSetOnce'
    BY <1>3 DEF PromiseInv, PromiseSetOnce
  <1> QED BY <1>4, <1>5, <1>6, <1>7 DEF PromiseInv

\* Leader::exit, or no transition.
LEMMA EnterStatePromises ==
  ASSUME TypeOK, PromiseInv, NEW n \in Node, NEW s, EnterState(n, s),
         submitted' = submitted
  PROVE  PromiseInv'
  <1>1. CASE UNCHANGED <<pending_commit, promise>>
    BY <1>1, NoAnswer
  <1>2. CASE /\ pending_commit[n] # None
             /\ pending_commit' = [pending_commit EXCEPT ![n] = None]
             /\ promise' = [promise EXCEPT ![pending_commit[n].command] =
                                      Append(@, FALSE)]
    BY <1>2, PendingAnswered
  <1> QED BY <1>1, <1>2 DEF EnterState

\* The answers that complete a commit, and those that do not.
LEMMA AnswerPromises ==
  ASSUME TypeOK, PromiseInv, NEW f \in Node, NEW n \in Node,
         HandleAppendResponse(f, n)
  PROVE  PromiseInv'
  <1> DEFINE r == Head(append_responses[f][n])
             p == pending_commit[n]
  <1>1. submitted' = submitted
    BY DEF HandleAppendResponse
  <1>2. \/ EnterState(n, update_term(n, r.term).state)
        \/ HandlePendingCommit(f, n, r)
    BY DEF HandleAppendResponse
  <1>3. CASE HandlePendingCommit(f, n, r)
    <2>1. p # None
      BY <1>3 DEF HandlePendingCommit, AnswersPending
    <2>2. pending_commit \in [Node -> PendingCommit \cup {None}]
      BY DEF TypeOK
    <2>3. p \in PendingCommit
      BY <2>1, <2>2
    <2>4. \/ /\ pending_commit' = [pending_commit EXCEPT ![n] = None]
             /\ promise' = [promise EXCEPT ![p.command] = Append(@, TRUE)]
          \/ /\ \E map : pending_commit' =
                           [pending_commit EXCEPT ![n].result_map = map]
             /\ UNCHANGED promise
      BY <1>3 DEF HandlePendingCommit, CompleteCommit
    <2>5. ASSUME NEW map, UNCHANGED promise,
                 pending_commit' = [pending_commit EXCEPT ![n].result_map = map]
          PROVE  PromiseInv'
      <3>1. \A k \in Node : pending_commit'[k] # None =>
              /\ pending_commit[k] # None
              /\ pending_commit'[k].command = pending_commit[k].command
        BY <2>1, <2>2, <2>3, <2>5 DEF PendingCommit
      <3> QED BY <1>1, <2>5, <3>1, NoAnswer
    <2>6. CASE /\ pending_commit' = [pending_commit EXCEPT ![n] = None]
               /\ promise' = [promise EXCEPT ![p.command] = Append(@, TRUE)]
      BY <1>1, <2>1, <2>6, PendingAnswered
    <2> QED BY <2>4, <2>5, <2>6
  <1> QED BY <1>1, <1>2, <1>3, EnterStatePromises

\* commit_command: refused, committed at once, or pending.
LEMMA CommandPromises ==
  ASSUME TypeOK, PromiseInv, NEW n \in Node, NEW c \in Command,
         RefuseCommand(n, c) \/ CommitCommand(n, c)
  PROVE  PromiseInv'
  <1>1. c \notin submitted /\ submitted' = submitted \cup {c}
    BY DEF RefuseCommand, CommitCommand
  <1>2. CASE RefuseCommand(n, c)
    BY <1>1, <1>2, CommandAnswered DEF RefuseCommand
  <1>3. CASE CommitCommand(n, c)
    <2> DEFINE commit == [id |-> Len(logs[n]), term |-> current_term[n],
                          command |-> c, result_map |-> [f \in Node |-> None]]
               entry == [term |-> current_term[n], command |-> c]
    <2>1. \/ CompleteCommit(n, Len(logs[n]), entry) /\ UNCHANGED pending_commit
          \/ /\ pending_commit' = [pending_commit EXCEPT ![n] = commit]
             /\ UNCHANGED promise
      BY <1>3 DEF CommitCommand
    <2>2. CASE CompleteCommit(n, Len(logs[n]), entry) /\ UNCHANGED pending_commit
      <3>1. promise' = [promise EXCEPT ![c] = Append(@, TRUE)]
        BY <2>2 DEF CompleteCommit
      <3> QED BY <1>1, <2>2, <3>1, CommandAnswered
    <2>3. CASE /\ pending_commit' = [pending_commit EXCEPT ![n] = commit]
               /\ UNCHANGED promise
      <3>1. pending_commit \in [Node -> PendingCommit \cup {None}]
        BY DEF TypeOK
      <3>2. /\ pending_commit'[n].command = c
            /\ \A k \in Node \ {n} : pending_commit'[k] = pending_commit[k]
        BY <2>3, <3>1
      <3> QED BY <1>1, <2>3, <3>2, CommandTaken
    <2> QED BY <2>1, <2>2, <2>3
  <1> QED BY <1>2, <1>3

\* Every step sets the promises of pending or new commands only.
LEMMA NextPromises ==
  ASSUME TypeOK, PromiseInv, [Next]_vars
  PROVE  PromiseInv'
  <1>1. ASSUME UNCHANGED <<pending_commit, promise, submitted>>
        PROVE  PromiseInv'
    BY <1>1, NoAnswer
  <1>2. ASSUME NEW n \in Node,
               ElectionTimeoutIgnored(n) \/ ElectionTimeout(n) \/ Restart(n)
        PROVE  PromiseInv'
    BY <1>1, <1>2
    DEF ElectionTimeoutIgnored, ElectionTimeout, StartElection, Restart, commitVars
  <1>3. ASSUME NEW n \in Node, Broadcast(n) \/ Crash(n) \/ CrashInHandler(n)
        PROVE  PromiseInv'
    <2>1. pending_commit \in [Node -> PendingCommit \cup {None}]
      BY DEF TypeOK
    <2>2. /\ \E x \in {None, pending_commit[n]} :
               pending_commit' = [pending_commit EXCEPT ![n] = x]
          /\ UNCHANGED <<submitted, promise>>
      BY <1>3 DEF Broadcast, Crash, CrashInHandler, Die
    <2>3. \A k \in Node : pending_commit'[k] \in {None, pending_commit[k]}
      BY <2>1, <2>2
    <2> QED BY <2>2, <2>3, NoAnswer
  <1>4. ASSUME NEW m \in vote_requests, HandleRequestVote(m)
        PROVE  PromiseInv'
    <2>1. m.to \in Node
      BY DEF TypeOK, VoteRequest
    <2> QED BY <1>4, <2>1, EnterStatePromises DEF HandleRequestVote
  <1>5. ASSUME NEW m \in vote_responses, HandleVoteRefused(m)
        PROVE  PromiseInv'
    <2>1. m.to \in Node
      BY DEF TypeOK, VoteResponse
    <2> QED BY <1>5, <2>1, EnterStatePromises DEF HandleVoteRefused
  <1>6. ASSUME NEW m \in vote_responses, HandleVoteGranted(m)
        PROVE  PromiseInv'
    BY <1>1, <1>6 DEF HandleVoteGranted, commitVars
  <1>7. ASSUME NEW l \in Node, NEW n \in Node, HandleAppendEntries(l, n)
        PROVE  PromiseInv'
    BY <1>7, EnterStatePromises DEF HandleAppendEntries
  <1>8. CASE UNCHANGED vars
    BY <1>1, <1>8 DEF vars
  <1> QED
    BY <1>2, <1>3, <1>4, <1>5, <1>6, <1>7, <1>8, AnswerPromises,
       CommandPromises DEF Next

-----------------------------------------------------------------------------

\* No node has a role, and no command was submitted, when the cluster starts.
LEMMA InitCommit == Init => CommitInv
  <1> SUFFICES ASSUME Init PROVE CommitInv
    OBVIOUS
  <1>1. TypeOK
    BY InitType
  <1>2. \A n \in Node : state[n] = "Follower" /\ pending_commit[n] = None
    BY StartedFollows DEF Init
  <1>3. LeaderInv
    BY <1>2 DEF Init, LeaderInv, LeadersHoldTheirTerm, CandidatesAreNew, ElectedArePast
  <1>4. \A c \in Command : promise[c] = <<>>
    BY DEF Init
  <1>5. PromiseInv
    BY <1>2, <1>4 DEF PromiseInv, PendingIsOpen, PendingIsOwn,
                      NewCommandsAreOpen, PromiseSetOnce
  <1> QED BY <1>1, <1>3, <1>5 DEF CommitInv

\* CommitInv is an invariant of the cluster.
THEOREM CommitInvariant == Spec => []CommitInv
  <1>1. CommitInv /\ [Next]_vars => CommitInv'
    BY NextType, NextLeaders, NextPromises DEF CommitInv
  <1> QED BY <1>1, InitCommit, PTL DEF Spec

\* Whatever messages arrive late and wherever the processes crash, a Leader
\* leads in the term it was elected in, and a commit is pending only at a
\* Leader and of its term: Leader::exit has cancelled every other one.
THEOREM LeadershipIsOfATerm == Spec => []LeadersHoldTheirTerm
  <1>1. CommitInv => LeadersHoldTheirTerm
    BY DEF CommitInv, LeaderInv
  <1> QED BY <1>1, CommitInvariant, PTL

\* No promise of commit_command is set a second time, in any cluster: neither
\* a late answer, nor the end of leadership, nor a forgotten pending commit
\* answers a command that was answered before.
THEOREM CommitsAreAnsweredOnce == Spec => []PromiseSetOnce
  <1>1. CommitInv => PromiseSetOnce
    BY DEF CommitInv, PromiseInv
  <1> QED BY <1>1, CommitInvariant, PTL
=============================================================================
