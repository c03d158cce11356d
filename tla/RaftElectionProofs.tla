------------------------- MODULE RaftElectionProofs -------------------------
(***************************************************************************)
(* Type correctness of Raft, one lemma per action, and then the safety of  *)
(* its elections.  The argument: a vote is on disk before it is answered   *)
(* (BallotsAreStored), so a node has one ballot per term; an answer on its *)
(* way stands for a ballot that is not counted yet (ResponsesAreBallots,   *)
(* ResponsesAreFresh), so vote_received is the number of ballots; whoever  *)
(* is elected has the ballots of a majority, and two majorities meet.      *)
(***************************************************************************)
EXTENDS Raft, FiniteSetTheorems, TLAPS

\* StateMachine::handle always ends in a state of the machine.
LEMMA HandleType ==
  ASSUME NEW s \in StateType \cup {"Down"}, NEW e
  PROVE  handle(s, e) \in StateType \cup {"Down"}
  BY DEF handle, StateType

\* A node that was started is a Follower.
LEMMA StartedFollows == handle("Standby", "Started") = "Follower"
  BY DEF handle, StateType, Transitions, StandbyTransitions,
         FollowerTransitions, CandidateTransitions, LeaderTransitions

\* The operations of ContextStore on a log give logs, and LogAt an entry.
LEMMA LogOperations ==
  ASSUME NEW lg \in Seq(LogEntry), NEW id \in Nat
  PROVE  /\ revert_log(lg, id) \in Seq(LogEntry)
         /\ \A entry \in LogEntry : push_log(lg, id, entry) \in Seq(LogEntry)
         /\ HasLog(lg, id) => LogAt(lg, id) \in LogEntry
  <1>1. revert_log(lg, id) \in Seq(LogEntry)
    BY DEF revert_log
  <1>2. \A entry \in LogEntry : push_log(lg, id, entry) \in Seq(LogEntry)
    BY DEF push_log
  <1>3. HasLog(lg, id) => LogAt(lg, id) \in LogEntry
    BY DEF HasLog, LogAt
  <1> QED BY <1>1, <1>2, <1>3

\* Whatever a request says, on_append_entries_requested leaves a log.
LEMMA AppendEntriesType ==
  ASSUME NEW lg \in Seq(LogEntry), NEW m \in AppendRequest
  PROVE  AppendEntries(lg, m) \in [logs : Seq(LogEntry), success : BOOLEAN]
  <1>1. /\ m.leader_commit \in Nat /\ m.prev_log_index \in Nat
        /\ m.entries \in Command \cup {None}
        /\ m.term \in Nat
    BY DEF AppendRequest
  <1>2. CASE m.entries = None
    BY <1>2 DEF AppendEntries
  <1>3. CASE m.entries # None
    <2> DEFINE kept == revert_log(lg, m.leader_commit)
               entry == [term |-> m.term, command |-> m.entries]
    <2>1. kept \in Seq(LogEntry)
      BY <1>1, LogOperations
    <2>2. entry \in LogEntry
      BY <1>1, <1>3 DEF LogEntry
    <2>3. push_log(kept, m.leader_commit, entry) \in Seq(LogEntry)
      BY <2>1, <2>2, <1>1, LogOperations
    <2>4. (m.leader_commit = Len(kept)) \in BOOLEAN
      OBVIOUS
    <2>5. request_local_commit(lg, m) \in [logs : Seq(LogEntry), success : BOOLEAN]
      BY <2>3, <2>4 DEF request_local_commit
    <2>6. revert_log(lg, m.prev_log_index) \in Seq(LogEntry)
      BY <1>1, LogOperations
    <2> QED BY <1>3, <2>5, <2>6 DEF AppendEntries
  <1> QED BY <1>2, <1>3

\* What update_term leaves.
TermRecord ==
  [current_term : Nat, voted_for : Node \cup {None}, voted : BOOLEAN,
   vote_received : Nat, tally : SUBSET Node, state : StateType \cup {"Down"}]

\* update_term gives values of the types of the variables it is stored in.
LEMMA UpdateTermType ==
  ASSUME TypeOK, NEW n \in Node, NEW t \in Nat
  PROVE  update_term(n, t) \in TermRecord
  BY HandleType DEF update_term, TypeOK, TermRecord

\* The log that is offered to the other nodes is a log.
LEMMA OfferedLogType ==
  ASSUME TypeOK, NEW n \in Node
  PROVE  OfferedLog(n) \in Seq(LogEntry)
  <1>1. logs[n] \in Seq(LogEntry)
    BY DEF TypeOK
  <1>2. CASE PendingIsValid(n)
    <2> DEFINE entry == [term |-> pending_commit[n].term,
                         command |-> pending_commit[n].command]
    <2>1. pending_commit[n] \in PendingCommit
      BY <1>2 DEF TypeOK, PendingIsValid
    <2>2. entry \in LogEntry
      BY <2>1 DEF PendingCommit, LogEntry
    <2>3. Append(logs[n], entry) \in Seq(LogEntry)
      BY <1>1, <2>2
    <2> QED BY <1>2, <2>3 DEF OfferedLog
  <1>3. CASE ~PendingIsValid(n)
    BY <1>1, <1>3 DEF OfferedLog
  <1> QED BY <1>2, <1>3

\* OtherNode::broadcast builds well-formed requests: no index is below 0.
LEMMA RequestType ==
  ASSUME TypeOK, NEW n \in Node, NEW f \in Node
  PROVE  AppendEntriesRequest(n, f) \in AppendRequest
  <1> DEFINE lg == OfferedLog(n)
             i == next_index[n][f]
  <1>1. lg \in Seq(LogEntry)
    BY OfferedLogType
  <1>2. i \in Nat
    BY DEF TypeOK
  <1>3. HasLog(lg, i) => LogAt(lg, i) \in LogEntry
    BY <1>1, <1>2, LogOperations
  <1>4. ASSUME i > 0, HasLog(lg, i - 1)
        PROVE  i - 1 \in Nat /\ LogAt(lg, i - 1) \in LogEntry
    <2>1. i - 1 \in Nat
      BY <1>2, <1>4
    <2> HIDE DEF lg, i
    <2>2. \A k \in Nat : HasLog(lg, k) => LogAt(lg, k) \in LogEntry
      BY <1>1, LogOperations
    <2> QED BY <1>4, <2>1, <2>2
  <1>5. current_term[n] \in Nat /\ incarnation[n] \in Nat
    BY DEF TypeOK
  <1>6. RequestTerm(n, lg, i) \in Nat
    BY <1>3, <1>5 DEF RequestTerm, LogEntry
  <1>7. HasLog(lg, i) => Data(SentEntry(lg, i).command) \in Command \cup {None}
    BY <1>3 DEF SentEntry, Data, LogEntry
  <1>8. i > 0 /\ HasLog(lg, i - 1) => i - 1 \in Nat /\ LogAt(lg, i - 1).term \in Nat
    BY <1>4 DEF LogEntry
  <1> HIDE DEF lg, i
  <1> QED
    BY <1>2, <1>5, <1>6, <1>7, <1>8
    DEF AppendEntriesRequest, AppendRequest, lg, i

\* Storing such a record keeps the types of the term variables.
LEMMA ApplyTermType ==
  ASSUME TypeOK, NEW n \in Node, NEW u \in TermRecord, ApplyTerm(n, u)
  PROVE  /\ current_term' \in [Node -> Nat]
         /\ voted_for' \in [Node -> Node \cup {None}]
         /\ voted' \in [Node -> BOOLEAN]
         /\ vote_received' \in [Node -> Nat]
         /\ tally' \in [Node -> SUBSET Node]
  BY DEF TypeOK, TermRecord, ApplyTerm

\* A transition, with the cancellation in Leader::exit, keeps the types.
LEMMA EnterStateType ==
  ASSUME TypeOK, NEW n \in Node, NEW s \in StateType \cup {"Down"},
         EnterState(n, s)
  PROVE  /\ state' \in [Node -> StateType \cup {"Down"}]
         /\ pending_commit' \in [Node -> PendingCommit \cup {None}]
         /\ promise' \in [Command -> Seq(BOOLEAN)]
  <1>1. state' \in [Node -> StateType \cup {"Down"}]
    BY DEF TypeOK, EnterState
  <1>2. CASE UNCHANGED <<pending_commit, promise>>
    BY <1>1, <1>2 DEF TypeOK
  <1>3. CASE /\ pending_commit[n] # None
             /\ pending_commit' = [pending_commit EXCEPT ![n] = None]
             /\ promise' = [promise EXCEPT ![pending_commit[n].command] =
                                      Append(@, FALSE)]
    <2>1. pending_commit' \in [Node -> PendingCommit \cup {None}]
      BY <1>3 DEF TypeOK
    <2>2. pending_commit[n].command \in Command
      BY <1>3 DEF TypeOK, PendingCommit
    <2>3. promise[pending_commit[n].command] \in Seq(BOOLEAN)
      BY <2>2 DEF TypeOK
    <2>4. Append(promise[pending_commit[n].command], FALSE) \in Seq(BOOLEAN)
      BY <2>3
    <2>5. promise' \in [Command -> Seq(BOOLEAN)]
      BY <1>3, <2>4 DEF TypeOK
    <2> QED BY <1>1, <2>1, <2>5
  <1> QED BY <1>2, <1>3 DEF EnterState

\* Candidate::start_election keeps the types.
LEMMA StartElectionType ==
  ASSUME TypeOK, NEW n \in Node, StartElection(n)
  PROVE  TypeOK'
  <1> DEFINE t == current_term[n] + 1
  <1>1. /\ current_term[n] \in Nat /\ t \in Nat
        /\ state[n] \in StateType \cup {"Down"} /\ incarnation[n] \in Nat
        /\ logs[n] \in Seq(LogEntry)
    BY DEF TypeOK
  <1>2. last_data_index(n) \in Nat
    BY <1>1 DEF last_data_index
  <1>3. vote_requests' \in SUBSET VoteRequest
    <2>1. PICK S \in SUBSET {m \in OtherNodes(n) : Up(m)} :
             vote_requests' = vote_requests \cup
               {[from |-> n, to |-> m, term |-> t, client |-> incarnation[n],
                 last_data_index |-> last_data_index(n)] : m \in S}
      BY DEF request_vote, StartElection
    <2>2. S \subseteq Node
      BY DEF OtherNodes
    <2> QED BY <1>1, <1>2, <2>1, <2>2 DEF TypeOK, VoteRequest
  <1>4. state' \in [Node -> StateType \cup {"Down"}]
    BY <1>1, HandleType DEF StartElection, TypeOK
  <1>5. ballots' \in SUBSET (Node \X Nat \X Node) /\ elected' \in SUBSET (Nat \X Node)
    BY <1>1 DEF vote_for_me, StartElection, TypeOK
  <1>6. /\ current_term' \in [Node -> Nat]
        /\ voted_for' \in [Node -> Node \cup {None}]
        /\ voted' \in [Node -> BOOLEAN]
        /\ vote_received' \in [Node -> Nat]
        /\ tally' \in [Node -> SUBSET Node]
    BY <1>1 DEF vote_for_me, StartElection, TypeOK
  <1>7. UNCHANGED <<logs, broadcast_received, next_index, vote_responses,
                    append_requests, append_responses, incarnation,
                    pending_commit, submitted, promise, acknowledged>>
    BY DEF StartElection, appendMsgs, commitVars
  <1> QED
    BY <1>3, <1>4, <1>5, <1>6, <1>7 DEF TypeOK

\* on_request_vote_requested keeps the types.
LEMMA HandleRequestVoteType ==
  ASSUME TypeOK, NEW m \in vote_requests, HandleRequestVote(m)
  PROVE  TypeOK'
  <1> DEFINE n == m.to
             u == update_term(n, m.term)
             granted == Grants(n, u, m)
             w == IF granted
                  THEN [u EXCEPT !.voted_for = m.from, !.voted = TRUE] ELSE u
  <1>1. m \in VoteRequest
    BY DEF TypeOK
  <1>2. n \in Node /\ m.from \in Node /\ m.term \in Nat
    BY <1>1 DEF VoteRequest
  <1>3. u \in TermRecord
    BY <1>2, UpdateTermType
  <1> HIDE DEF u
  <1>4. w \in TermRecord
    BY <1>2, <1>3 DEF TermRecord
  <1>5. granted \in BOOLEAN
    BY DEF Grants
  <1> HIDE DEF granted, n
  <1>6. /\ ApplyTerm(n, w) /\ EnterState(n, u.state)
        /\ ballots' = IF granted THEN ballots \cup {<<n, m.term, m.from>>}
                                 ELSE ballots
        /\ vote_requests' = vote_requests \ {m}
        /\ \/ vote_responses' = vote_responses
           \/ vote_responses' = vote_responses \cup
                {[from |-> n, to |-> m.from, round |-> m.term,
                  term |-> u.current_term, vote_granted |-> granted]}
        /\ UNCHANGED <<logs, broadcast_received, next_index, appendMsgs,
                       incarnation, submitted, acknowledged, elected>>
    BY DEF HandleRequestVote, n, u, granted
  <1> HIDE DEF w
  <1>7. u.state \in StateType \cup {"Down"} /\ u.current_term \in Nat
    BY <1>3 DEF TermRecord
  <1>8. vote_responses' \in SUBSET VoteResponse
    <2>1. [from |-> n, to |-> m.from, round |-> m.term,
           term |-> u.current_term, vote_granted |-> granted] \in VoteResponse
      BY <1>2, <1>5, <1>7 DEF VoteResponse
    <2>2. vote_responses \in SUBSET VoteResponse
      BY DEF TypeOK
    <2> QED BY <1>6, <2>1, <2>2
  <1>9. ballots' \in SUBSET (Node \X Nat \X Node)
    <2>1. ballots \in SUBSET (Node \X Nat \X Node)
      BY DEF TypeOK
    <2> QED BY <1>2, <1>6, <2>1
  <1>10. /\ current_term' \in [Node -> Nat]
         /\ voted_for' \in [Node -> Node \cup {None}]
         /\ voted' \in [Node -> BOOLEAN]
         /\ vote_received' \in [Node -> Nat]
         /\ tally' \in [Node -> SUBSET Node]
    BY <1>2, <1>4, <1>6, ApplyTermType
  <1>11. /\ state' \in [Node -> StateType \cup {"Down"}]
         /\ pending_commit' \in [Node -> PendingCommit \cup {None}]
         /\ promise' \in [Command -> Seq(BOOLEAN)]
    BY <1>2, <1>6, <1>7, EnterStateType
  <1> QED BY <1>6, <1>8, <1>9, <1>10, <1>11 DEF TypeOK, appendMsgs

\* on_request_vote_response keeps the types when no vote is counted.
LEMMA HandleVoteRefusedType ==
  ASSUME TypeOK, NEW m \in vote_responses, HandleVoteRefused(m)
  PROVE  TypeOK'
  <1> DEFINE n == m.to
             u == update_term(n, m.term)
  <1>1. n \in Node /\ m.term \in Nat
    BY DEF TypeOK, VoteResponse
  <1>2. u \in TermRecord
    BY <1>1, UpdateTermType
  <1>3. u.state \in StateType \cup {"Down"}
    BY <1>2 DEF TermRecord
  <1>4. ApplyTerm(n, u) /\ EnterState(n, u.state)
    BY DEF HandleVoteRefused
  <1>5. /\ vote_responses' = vote_responses \ {m}
        /\ UNCHANGED <<logs, broadcast_received, next_index, vote_requests,
                       append_requests, append_responses, incarnation,
                       submitted, acknowledged, ballots, elected>>
    BY DEF HandleVoteRefused, appendMsgs, historyVars
  <1> HIDE DEF n, u
  <1>6. /\ current_term' \in [Node -> Nat]
        /\ voted_for' \in [Node -> Node \cup {None}]
        /\ voted' \in [Node -> BOOLEAN]
        /\ vote_received' \in [Node -> Nat]
        /\ tally' \in [Node -> SUBSET Node]
    BY <1>1, <1>2, <1>4, ApplyTermType
  <1>7. /\ state' \in [Node -> StateType \cup {"Down"}]
        /\ pending_commit' \in [Node -> PendingCommit \cup {None}]
        /\ promise' \in [Command -> Seq(BOOLEAN)]
    BY <1>1, <1>3, <1>4, EnterStateType
  <1> QED BY <1>5, <1>6, <1>7 DEF TypeOK

\* on_request_vote_response keeps the types when a vote is counted.
LEMMA HandleVoteGrantedType ==
  ASSUME TypeOK, NEW m \in vote_responses, HandleVoteGranted(m)
  PROVE  TypeOK'
  <1> DEFINE n == m.to
  <1>1. n \in Node /\ m.from \in Node
    BY DEF TypeOK, VoteResponse
  <1>2. /\ vote_received[n] \in Nat /\ current_term[n] \in Nat
        /\ logs[n] \in Seq(LogEntry) /\ state[n] \in StateType \cup {"Down"}
        /\ tally[n] \in SUBSET Node
    BY <1>1 DEF TypeOK
  <1>3. ElectedIndex(n) \in Nat
    BY <1>2 DEF ElectedIndex, last_data_index
  <1>4. next_index' \in [Node -> [Node -> Nat]]
    BY <1>1, <1>3 DEF HandleVoteGranted, TypeOK
  <1>5. state' \in [Node -> StateType \cup {"Down"}]
    BY <1>1, <1>2, HandleType DEF HandleVoteGranted, TypeOK
  <1>6. elected' \in SUBSET (Nat \X Node)
    <2>1. elected' \in {elected, elected \cup {<<current_term[n], n>>}}
      BY DEF HandleVoteGranted
    <2>2. elected \in SUBSET (Nat \X Node)
      BY DEF TypeOK
    <2> QED BY <1>1, <1>2, <2>1, <2>2
  <1>7. vote_received' \in [Node -> Nat] /\ tally' \in [Node -> SUBSET Node]
    <2>1. /\ vote_received' = [vote_received EXCEPT ![n] = @ + 1]
          /\ tally' = [tally EXCEPT ![n] = @ \cup {m.from}]
      BY DEF HandleVoteGranted
    <2>2. vote_received \in [Node -> Nat] /\ tally \in [Node -> SUBSET Node]
      BY DEF TypeOK
    <2> QED BY <1>1, <1>2, <2>1, <2>2
  <1>8. /\ vote_responses' = vote_responses \ {m}
        /\ UNCHANGED <<current_term, voted_for, voted, logs, broadcast_received,
                       vote_requests, append_requests, append_responses,
                       incarnation, pending_commit, submitted, promise,
                       acknowledged, ballots>>
    BY DEF HandleVoteGranted, appendMsgs, commitVars
  <1> QED BY <1>4, <1>5, <1>6, <1>7, <1>8 DEF TypeOK

\* Context::broadcast keeps the types.
LEMMA BroadcastType ==
  ASSUME TypeOK, NEW n \in Node, Broadcast(n)
  PROVE  TypeOK'
  <1>1. append_requests' \in [Node -> [Node -> Seq(AppendRequest)]]
    <2>1. append_requests \in [Node -> [Node -> Seq(AppendRequest)]]
      BY DEF TypeOK
    <2>2. PICK S \in SUBSET {f \in OtherNodes(n) : Up(f)} :
            append_requests' = [append_requests EXCEPT ![n] =
              [f \in Node |-> IF f \in S
                              THEN Append(@[f], AppendEntriesRequest(n, f))
                              ELSE @[f]]]
      BY DEF Broadcast
    <2>3. \A f \in Node : AppendEntriesRequest(n, f) \in AppendRequest
      BY RequestType
    <2>4. \A f \in Node : append_requests[n][f] \in Seq(AppendRequest)
      BY <2>1
    <2>5. \A f \in Node : Append(append_requests[n][f], AppendEntriesRequest(n, f))
                             \in Seq(AppendRequest)
      BY <2>3, <2>4
    <2> QED BY <2>1, <2>2, <2>4, <2>5
  <1>2. pending_commit' \in [Node -> PendingCommit \cup {None}]
    BY DEF Broadcast, TypeOK
  <1>3. UNCHANGED <<current_term, voted_for, voted, vote_received, tally, logs,
                    state, broadcast_received, next_index, vote_requests,
                    vote_responses, append_responses, incarnation, submitted,
                    promise, acknowledged, ballots, elected>>
    BY DEF Broadcast, termVars, voteMsgs, historyVars
  <1> QED BY <1>1, <1>2, <1>3 DEF TypeOK

\* on_append_entries_requested keeps the types.
LEMMA HandleAppendEntriesType ==
  ASSUME TypeOK, NEW l \in Node, NEW n \in Node, HandleAppendEntries(l, n)
  PROVE  TypeOK'
  <1> DEFINE m == Head(append_requests[l][n])
             u == update_term(n, m.term)
             s == IF m.term >= current_term[n]
                  THEN handle(u.state, "LeaderDiscovered") ELSE u.state
             result == AppendEntries(logs[n], m)
             response == [leader_commit |-> m.leader_commit,
                          term |-> current_term[n], success |-> result.success]
  <1>1. /\ append_requests[l][n] \in Seq(AppendRequest)
        /\ append_requests[l][n] # <<>>
    BY DEF TypeOK, HandleAppendEntries
  <1>2. m \in AppendRequest /\ Tail(append_requests[l][n]) \in Seq(AppendRequest)
    BY <1>1
  <1>3. m.term \in Nat /\ m.leader_commit \in Nat
    BY <1>2 DEF AppendRequest
  <1>4. u \in TermRecord
    BY <1>3, UpdateTermType
  <1>5. logs[n] \in Seq(LogEntry) /\ current_term[n] \in Nat
    BY DEF TypeOK
  <1>6. result \in [logs : Seq(LogEntry), success : BOOLEAN]
    BY <1>2, <1>5, AppendEntriesType
  <1>7. /\ ApplyTerm(n, u) /\ EnterState(n, s)
        /\ broadcast_received' = [broadcast_received EXCEPT ![n] =
                                    @ \/ m.term >= current_term[n]]
        /\ logs' = [logs EXCEPT ![n] = result.logs]
        /\ append_requests' = [append_requests EXCEPT ![l][n] = Tail(@)]
        /\ \/ append_responses' = [append_responses EXCEPT ![n][l] =
                                     Append(@, response)]
           \/ append_responses' = append_responses
        /\ UNCHANGED <<next_index, vote_requests, vote_responses, incarnation,
                       submitted, acknowledged, ballots, elected>>
    BY DEF HandleAppendEntries, voteMsgs, historyVars
  <1> HIDE DEF m, u, result
  <1>8. s \in StateType \cup {"Down"}
    BY <1>4, HandleType DEF TermRecord
  <1>9. response \in AppendResponse
    BY <1>3, <1>5, <1>6 DEF AppendResponse
  <1> HIDE DEF s, response
  <1>10. /\ current_term' \in [Node -> Nat]
         /\ voted_for' \in [Node -> Node \cup {None}]
         /\ voted' \in [Node -> BOOLEAN]
         /\ vote_received' \in [Node -> Nat]
         /\ tally' \in [Node -> SUBSET Node]
    BY <1>4, <1>7, ApplyTermType
  <1>11. /\ state' \in [Node -> StateType \cup {"Down"}]
         /\ pending_commit' \in [Node -> PendingCommit \cup {None}]
         /\ promise' \in [Command -> Seq(BOOLEAN)]
    BY <1>7, <1>8, EnterStateType
  <1>12. logs' \in [Node -> Seq(LogEntry)]
    BY <1>6, <1>7 DEF TypeOK
  <1>13. append_requests' \in [Node -> [Node -> Seq(AppendRequest)]]
    BY <1>2, <1>7 DEF TypeOK
  <1>14. append_responses' \in [Node -> [Node -> Seq(AppendResponse)]]
    <2>1. append_responses \in [Node -> [Node -> Seq(AppendResponse)]]
      BY DEF TypeOK
    <2>2. append_responses[n][l] \in Seq(AppendResponse)
      BY <2>1
    <2>3. Append(append_responses[n][l], response) \in Seq(AppendResponse)
      BY <1>9, <2>2
    <2>4. CASE append_responses' = append_responses
      BY <2>1, <2>4
    <2>5. CASE append_responses' = [append_responses EXCEPT ![n][l] =
                                      Append(@, response)]
      BY <2>1, <2>3, <2>5
    <2> QED BY <1>7, <2>4, <2>5
  <1>15. broadcast_received' \in [Node -> BOOLEAN]
    BY <1>7 DEF TypeOK
  <1> QED
    BY <1>7, <1>10, <1>11, <1>12, <1>13, <1>14, <1>15 DEF TypeOK

\* complete_commit keeps the types of what it writes.
LEMMA CompleteCommitType ==
  ASSUME TypeOK, NEW n \in Node, NEW id \in Nat, NEW entry \in LogEntry,
         CompleteCommit(n, id, entry)
  PROVE  /\ logs' \in [Node -> Seq(LogEntry)]
         /\ promise' \in [Command -> Seq(BOOLEAN)]
         /\ acknowledged' \in SUBSET [id : Nat, term : Nat, command : Command]
  <1>1. entry.term \in Nat /\ entry.command \in Command
    BY DEF LogEntry
  <1>2. logs' \in [Node -> Seq(LogEntry)]
    <2>1. logs' = [logs EXCEPT ![n] = push_log(logs[n], id, entry)]
      BY DEF CompleteCommit
    <2>2. logs \in [Node -> Seq(LogEntry)]
      BY DEF TypeOK
    <2>3. push_log(logs[n], id, entry) \in Seq(LogEntry)
      BY <2>2, LogOperations
    <2> QED BY <2>1, <2>2, <2>3
  <1>3. promise' \in [Command -> Seq(BOOLEAN)]
    <2>1. promise' = [promise EXCEPT ![entry.command] = Append(@, TRUE)]
      BY DEF CompleteCommit
    <2>2. promise \in [Command -> Seq(BOOLEAN)]
      BY DEF TypeOK
    <2>3. Append(promise[entry.command], TRUE) \in Seq(BOOLEAN)
      BY <1>1, <2>2
    <2> QED BY <1>1, <2>1, <2>2, <2>3
  <1>4. acknowledged' \in SUBSET [id : Nat, term : Nat, command : Command]
    <2>1. acknowledged' = acknowledged \cup
            {[id |-> id, term |-> entry.term, command |-> entry.command]}
      BY DEF CompleteCommit
    <2>2. acknowledged \in SUBSET [id : Nat, term : Nat, command : Command]
      BY DEF TypeOK
    <2> QED BY <1>1, <2>1, <2>2
  <1> QED BY <1>2, <1>3, <1>4

\* commit_command keeps the types.
LEMMA CommandType ==
  ASSUME TypeOK, NEW n \in Node, NEW c \in Command,
         RefuseCommand(n, c) \/ CommitCommand(n, c)
  PROVE  TypeOK'
  <1>1. /\ logs[n] \in Seq(LogEntry) /\ current_term[n] \in Nat
        /\ Len(logs[n]) \in Nat
    BY DEF TypeOK
  <1>2. submitted' = submitted \cup {c}
    BY DEF RefuseCommand, CommitCommand
  <1>3. UNCHANGED <<current_term, voted_for, voted, vote_received, tally, state,
                    broadcast_received, next_index, vote_requests,
                    vote_responses, append_requests, append_responses,
                    incarnation, ballots, elected>>
    BY DEF RefuseCommand, CommitCommand, termVars, voteMsgs, appendMsgs,
           historyVars
  <1>4. CASE RefuseCommand(n, c)
    <2>1. promise' = [promise EXCEPT ![c] = Append(@, FALSE)]
      BY <1>4 DEF RefuseCommand
    <2>2. promise \in [Command -> Seq(BOOLEAN)]
      BY DEF TypeOK
    <2>3. Append(promise[c], FALSE) \in Seq(BOOLEAN)
      BY <2>2
    <2>4. promise' \in [Command -> Seq(BOOLEAN)]
      BY <2>1, <2>2, <2>3
    <2>5. UNCHANGED <<logs, pending_commit, acknowledged>>
      BY <1>4 DEF RefuseCommand
    <2> QED BY <1>2, <1>3, <2>4, <2>5 DEF TypeOK
  <1>5. CASE CommitCommand(n, c)
    <2> DEFINE entry == [term |-> current_term[n], command |-> c]
               commit == [id |-> Len(logs[n]), term |-> current_term[n],
                          command |-> c, result_map |-> [f \in Node |-> None]]
    <2>1. entry \in LogEntry
      BY <1>1 DEF LogEntry
    <2>2. commit \in PendingCommit
      BY <1>1 DEF PendingCommit
    <2>3. \/ CompleteCommit(n, Len(logs[n]), entry) /\ UNCHANGED pending_commit
          \/ /\ pending_commit' = [pending_commit EXCEPT ![n] = commit]
             /\ UNCHANGED <<logs, promise, acknowledged>>
      BY <1>5 DEF CommitCommand
    <2> HIDE DEF entry, commit
    <2>4. CASE CompleteCommit(n, Len(logs[n]), entry) /\ UNCHANGED pending_commit
      <3>1. /\ logs' \in [Node -> Seq(LogEntry)]
            /\ promise' \in [Command -> Seq(BOOLEAN)]
            /\ acknowledged' \in SUBSET [id : Nat, term : Nat, command : Command]
        BY <1>1, <2>1, <2>4, CompleteCommitType
      <3> QED BY <1>2, <1>3, <2>4, <3>1 DEF TypeOK
    <2>5. CASE /\ pending_commit' = [pending_commit EXCEPT ![n] = commit]
               /\ UNCHANGED <<logs, promise, acknowledged>>
      <3>1. pending_commit' \in [Node -> PendingCommit \cup {None}]
        BY <2>2, <2>5 DEF TypeOK
      <3> QED BY <1>2, <1>3, <2>5, <3>1 DEF TypeOK
    <2> QED BY <2>3, <2>4, <2>5
  <1> QED BY <1>4, <1>5

\* handle_pending_commit_response keeps the types of what it writes.
LEMMA HandlePendingCommitType ==
  ASSUME TypeOK, NEW f \in Node, NEW n \in Node, NEW r \in AppendResponse,
         HandlePendingCommit(f, n, r)
  PROVE  /\ logs' \in [Node -> Seq(LogEntry)]
         /\ pending_commit' \in [Node -> PendingCommit \cup {None}]
         /\ promise' \in [Command -> Seq(BOOLEAN)]
         /\ acknowledged' \in SUBSET [id : Nat, term : Nat, command : Command]
  <1> DEFINE p == pending_commit[n]
             entry == [term |-> p.term, command |-> p.command]
             map == [p.result_map EXCEPT ![f] = r.success]
  <1>1. p \in PendingCommit
    BY DEF TypeOK, HandlePendingCommit, AnswersPending
  <1>2. entry \in LogEntry /\ p.id \in Nat
    BY <1>1 DEF PendingCommit, LogEntry
  <1>3. map \in [Node -> BOOLEAN \cup {None}]
    BY <1>1 DEF PendingCommit, AppendResponse
  <1>4. \/ /\ pending_commit' = [pending_commit EXCEPT ![n] = None]
           /\ CompleteCommit(n, p.id, entry)
        \/ /\ pending_commit' = [pending_commit EXCEPT ![n].result_map = map]
           /\ UNCHANGED <<logs, promise, acknowledged>>
    BY DEF HandlePendingCommit
  <1> HIDE DEF entry, map
  <1>5. CASE /\ pending_commit' = [pending_commit EXCEPT ![n] = None]
             /\ CompleteCommit(n, p.id, entry)
    <2>1. pending_commit' \in [Node -> PendingCommit \cup {None}]
      BY <1>5 DEF TypeOK
    <2> QED BY <1>2, <1>5, <2>1, CompleteCommitType
  <1>6. CASE /\ pending_commit' = [pending_commit EXCEPT ![n].result_map = map]
             /\ UNCHANGED <<logs, promise, acknowledged>>
    <2>1. [p EXCEPT !.result_map = map] \in PendingCommit
      BY <1>1, <1>3 DEF PendingCommit
    <2>2. pending_commit' \in [Node -> PendingCommit \cup {None}]
      BY <1>6, <2>1 DEF TypeOK
    <2> QED BY <1>6, <2>2 DEF TypeOK
  <1> QED BY <1>4, <1>5, <1>6

\* The callback of send_append_entries keeps the types: next_index stays at
\* 0 or above.
LEMMA HandleAppendResponseType ==
  ASSUME TypeOK, NEW f \in Node, NEW n \in Node, HandleAppendResponse(f, n)
  PROVE  TypeOK'
  <1> DEFINE r == Head(append_responses[f][n])
             u == update_term(n, r.term)
  <1>1. /\ append_responses[f][n] \in Seq(AppendResponse)
        /\ append_responses[f][n] # <<>>
    BY DEF TypeOK, HandleAppendResponse
  <1>2. r \in AppendResponse /\ Tail(append_responses[f][n]) \in Seq(AppendResponse)
    BY <1>1
  <1>3. r.term \in Nat /\ r.leader_commit \in Nat
    BY <1>2 DEF AppendResponse
  <1>4. u \in TermRecord
    BY <1>3, UpdateTermType
  <1>5. u.state \in StateType \cup {"Down"}
    BY <1>4 DEF TermRecord
  <1>6. /\ append_responses' = [append_responses EXCEPT ![f][n] = Tail(@)]
        /\ next_index' = [next_index EXCEPT ![n][f] = NextIndex(@, r)]
        /\ ApplyTerm(n, u)
        /\ \/ EnterState(n, u.state) /\ UNCHANGED <<logs, acknowledged>>
           \/ HandlePendingCommit(f, n, r) /\ UNCHANGED state
        /\ UNCHANGED <<broadcast_received, vote_requests, vote_responses,
                       append_requests, incarnation, submitted, ballots, elected>>
    BY DEF HandleAppendResponse, voteMsgs, historyVars
  <1> HIDE DEF r, u
  <1>7. append_responses' \in [Node -> [Node -> Seq(AppendResponse)]]
    BY <1>2, <1>6 DEF TypeOK
  <1>8. next_index' \in [Node -> [Node -> Nat]]
    <2>1. next_index \in [Node -> [Node -> Nat]]
      BY DEF TypeOK
    <2>2. \A i \in Nat : NextIndex(i, r) \in Nat
      BY <1>3 DEF NextIndex
    <2>3. NextIndex(next_index[n][f], r) \in Nat
      BY <2>1, <2>2
    <2> QED BY <1>6, <2>1, <2>3
  <1>9. /\ current_term' \in [Node -> Nat]
        /\ voted_for' \in [Node -> Node \cup {None}]
        /\ voted' \in [Node -> BOOLEAN]
        /\ vote_received' \in [Node -> Nat]
        /\ tally' \in [Node -> SUBSET Node]
    BY <1>4, <1>6, ApplyTermType
  <1>10. CASE EnterState(n, u.state) /\ UNCHANGED <<logs, acknowledged>>
    <2>1. /\ state' \in [Node -> StateType \cup {"Down"}]
          /\ pending_commit' \in [Node -> PendingCommit \cup {None}]
          /\ promise' \in [Command -> Seq(BOOLEAN)]
      BY <1>5, <1>10, EnterStateType
    <2> QED BY <1>6, <1>7, <1>8, <1>9, <1>10, <2>1 DEF TypeOK
  <1>11. CASE HandlePendingCommit(f, n, r) /\ UNCHANGED state
    <2>1. /\ logs' \in [Node -> Seq(LogEntry)]
          /\ pending_commit' \in [Node -> PendingCommit \cup {None}]
          /\ promise' \in [Command -> Seq(BOOLEAN)]
          /\ acknowledged' \in SUBSET [id : Nat, term : Nat, command : Command]
      BY <1>2, <1>11, HandlePendingCommitType
    <2> QED BY <1>6, <1>7, <1>8, <1>9, <1>11, <2>1 DEF TypeOK
  <1> QED BY <1>6, <1>10, <1>11

\* What a process finds in the store.
DiskRecord ==
  [current_term : Nat, voted_for : Node \cup {None}, voted : BOOLEAN,
   logs : Seq(LogEntry)]

\* The terms a waiting message makes a node adopt are newer than its own.
LEMMA NewerTermsType ==
  ASSUME TypeOK, NEW n \in Node
  PROVE  \A t \in NewerTerms(n) : t \in Nat /\ t > current_term[n]
  <1>1. \A m \in vote_requests \cup vote_responses : m.term \in Nat
    BY DEF TypeOK, VoteRequest, VoteResponse
  <1>2. AppendTerms(append_requests, n) \subseteq Nat
    <2> SUFFICES ASSUME NEW m \in Node, NEW i \in DOMAIN append_requests[m][n]
                 PROVE  append_requests[m][n][i].term \in Nat
      BY DEF AppendTerms
    <2>1. append_requests[m][n] \in Seq(AppendRequest)
      BY DEF TypeOK
    <2>2. append_requests[m][n][i] \in AppendRequest
      BY <2>1
    <2> QED BY <2>2 DEF AppendRequest
  <1>3. AppendTerms(append_responses, n) \subseteq Nat
    <2> SUFFICES ASSUME NEW m \in Node, NEW i \in DOMAIN append_responses[m][n]
                 PROVE  append_responses[m][n][i].term \in Nat
      BY DEF AppendTerms
    <2>1. append_responses[m][n] \in Seq(AppendResponse)
      BY DEF TypeOK
    <2>2. append_responses[m][n][i] \in AppendResponse
      BY <2>1
    <2> QED BY <2>2 DEF AppendResponse
  <1> QED BY <1>1, <1>2, <1>3 DEF NewerTerms

\* The stores that update_term goes through are stores.
LEMMA UpdateTermDisksType ==
  ASSUME TypeOK, NEW n \in Node, NEW t \in Nat
  PROVE  UpdateTermDisks(n, t) \subseteq DiskRecord
  BY DEF TypeOK, UpdateTermDisks, Disk, DiskRecord

\* The stores that on_append_entries_requested goes through are stores.
LEMMA AppendDisksType ==
  ASSUME TypeOK, NEW n \in Node
  PROVE  AppendDisks(n) \subseteq DiskRecord
  <1> SUFFICES ASSUME NEW d \in AppendDisks(n) PROVE d \in DiskRecord
    OBVIOUS
  <1>1. PICK l \in Node :
          /\ append_requests[l][n] # <<>>
          /\ d \in LET m == Head(append_requests[l][n])
                       u == update_term(n, m.term)
                       after == AppendEntries(logs[n], m).logs
                       cut == IF after # logs[n] /\ Len(after) > m.leader_commit
                              THEN revert_log(logs[n], m.leader_commit) ELSE after
                   IN  {Disk(u.current_term, u.voted_for, u.voted, lg) :
                          lg \in {cut, after}}
    BY DEF AppendDisks
  <1> DEFINE m == Head(append_requests[l][n])
             u == update_term(n, m.term)
             after == AppendEntries(logs[n], m).logs
             cut == IF after # logs[n] /\ Len(after) > m.leader_commit
                    THEN revert_log(logs[n], m.leader_commit) ELSE after
  <1>2. append_requests[l][n] \in Seq(AppendRequest)
    BY DEF TypeOK
  <1>3. m \in AppendRequest
    BY <1>1, <1>2
  <1>4. m.term \in Nat /\ m.leader_commit \in Nat
    BY <1>3 DEF AppendRequest
  <1>5. u \in TermRecord
    BY <1>4, UpdateTermType
  <1>6. logs[n] \in Seq(LogEntry)
    BY DEF TypeOK
  <1>7. after \in Seq(LogEntry)
    <2>1. AppendEntries(logs[n], m) \in [logs : Seq(LogEntry), success : BOOLEAN]
      BY <1>3, <1>6, AppendEntriesType
    <2> HIDE DEF m
    <2> QED BY <2>1
  <1>8. revert_log(logs[n], m.leader_commit) \in Seq(LogEntry)
    BY <1>4, <1>6, LogOperations
  <1>9. cut \in Seq(LogEntry)
    BY <1>7, <1>8
  <1>10. PICK lg \in {cut, after} :
           d = Disk(u.current_term, u.voted_for, u.voted, lg)
    BY <1>1
  <1> HIDE DEF m, u, after, cut
  <1> QED BY <1>5, <1>7, <1>9, <1>10 DEF Disk, DiskRecord, TermRecord

\* The stores that granting a vote goes through are stores.
LEMMA GrantDisksType ==
  ASSUME TypeOK, NEW n \in Node
  PROVE  GrantDisks(n) \subseteq DiskRecord
  <1> SUFFICES ASSUME NEW d \in GrantDisks(n) PROVE d \in DiskRecord
    OBVIOUS
  <1>1. PICK m \in vote_requests :
          d \in VoteDisks(n, update_term(n, m.term).current_term, m.from)
    BY DEF GrantDisks
  <1>2. m.term \in Nat /\ m.from \in Node
    BY DEF TypeOK, VoteRequest
  <1>3. update_term(n, m.term).current_term \in Nat
    BY <1>2, UpdateTermType DEF TermRecord
  <1>4. logs[n] \in Seq(LogEntry)
    BY DEF TypeOK
  <1> DEFINE t == update_term(n, m.term).current_term
  <1>5. d = Disk(t, m.from, FALSE, logs[n])
    BY <1>1 DEF VoteDisks
  <1> HIDE DEF t
  <1> QED BY <1>2, <1>3, <1>4, <1>5 DEF Disk, DiskRecord, t

\* Whenever a handler is cut short, a store is left.
LEMMA HandlerDisksType ==
  ASSUME TypeOK, NEW n \in Node
  PROVE  HandlerDisks(n) \subseteq DiskRecord
  <1>1. current_term[n] \in Nat /\ logs[n] \in Seq(LogEntry)
    BY DEF TypeOK
  <1>2. ElectionDisks(n) \subseteq DiskRecord
    <2>1. current_term[n] + 1 \in Nat
      BY <1>1
    <2>2. UpdateTermDisks(n, current_term[n] + 1) \subseteq DiskRecord
      BY <2>1, UpdateTermDisksType
    <2>3. VoteDisks(n, current_term[n] + 1, n) \subseteq DiskRecord
      BY <1>1, <2>1 DEF VoteDisks, Disk, DiskRecord
    <2> QED BY <2>2, <2>3 DEF ElectionDisks
  <1>3. \A t \in NewerTerms(n) : UpdateTermDisks(n, t) \subseteq DiskRecord
    BY NewerTermsType, UpdateTermDisksType
  <1>4. AppendDisks(n) \subseteq DiskRecord
    BY AppendDisksType
  <1>5. GrantDisks(n) \subseteq DiskRecord
    BY GrantDisksType
  <1>6. UNION {UpdateTermDisks(n, t) : t \in NewerTerms(n)} \subseteq DiskRecord
    BY <1>3
  <1> QED BY <1>2, <1>4, <1>5, <1>6 DEF HandlerDisks

\* The death of a process that leaves the store d keeps the types.
LEMMA DieType ==
  ASSUME TypeOK, NEW n \in Node, NEW d \in DiskRecord, Die(n, d)
  PROVE  TypeOK'
  <1>1. /\ current_term' \in [Node -> Nat]
        /\ voted_for' \in [Node -> Node \cup {None}]
        /\ voted' \in [Node -> BOOLEAN]
        /\ logs' \in [Node -> Seq(LogEntry)]
    BY DEF Die, TypeOK, DiskRecord
  <1>2. /\ state' \in [Node -> StateType \cup {"Down"}]
        /\ incarnation' \in [Node -> Nat]
        /\ vote_received' \in [Node -> Nat]
        /\ tally' \in [Node -> SUBSET Node]
        /\ broadcast_received' \in [Node -> BOOLEAN]
        /\ next_index' \in [Node -> [Node -> Nat]]
        /\ pending_commit' \in [Node -> PendingCommit \cup {None}]
    BY DEF Die, TypeOK
  <1>3. /\ vote_requests' \in SUBSET VoteRequest
        /\ vote_responses' \in SUBSET VoteResponse
    BY DEF Die, TypeOK
  <1>4. append_requests' \in [Node -> [Node -> Seq(AppendRequest)]]
    <2>1. append_requests \in [Node -> [Node -> Seq(AppendRequest)]]
      BY DEF TypeOK
    <2>2. append_requests' =
            [l \in Node |-> [append_requests[l] EXCEPT ![n] = <<>>]]
      BY DEF Die
    <2>3. <<>> \in Seq(AppendRequest)
      OBVIOUS
    <2> QED BY <2>1, <2>2, <2>3
  <1>5. append_responses' \in [Node -> [Node -> Seq(AppendResponse)]]
    <2>1. append_responses \in [Node -> [Node -> Seq(AppendResponse)]]
      BY DEF TypeOK
    <2>2. append_responses' =
            [f \in Node |-> [append_responses[f] EXCEPT ![n] = <<>>]]
      BY DEF Die
    <2>3. <<>> \in Seq(AppendResponse)
      OBVIOUS
    <2> QED BY <2>1, <2>2, <2>3
  <1>6. UNCHANGED <<submitted, promise, acknowledged, ballots, elected>>
    BY DEF Die, historyVars
  <1> QED BY <1>1, <1>2, <1>3, <1>4, <1>5, <1>6 DEF TypeOK

\* A crash between or within handlers keeps the types.
LEMMA CrashType ==
  ASSUME TypeOK, NEW n \in Node, Crash(n) \/ CrashInHandler(n)
  PROVE  TypeOK'
  <1>1. CASE Crash(n)
    <2>1. Disk(current_term[n], voted_for[n], voted[n], logs[n]) \in DiskRecord
      BY DEF TypeOK, Disk, DiskRecord
    <2> QED BY <1>1, <2>1, DieType DEF Crash
  <1>2. CASE CrashInHandler(n)
    BY <1>2, HandlerDisksType, DieType DEF CrashInHandler
  <1> QED BY <1>1, <1>2

\* A restart keeps the types.
LEMMA RestartType ==
  ASSUME TypeOK, NEW n \in Node, Restart(n)
  PROVE  TypeOK'
  <1>1. state' \in [Node -> StateType \cup {"Down"}]
    BY StartedFollows DEF Restart, TypeOK, StateType
  <1>2. Len(logs[n]) \in Nat
    BY DEF TypeOK
  <1>3. next_index' \in [Node -> [Node -> Nat]]
    BY <1>2 DEF Restart, OtherNodesStart, TypeOK
  <1> QED
    BY <1>1, <1>3
    DEF Restart, TypeOK, termVars, voteMsgs, appendMsgs, commitVars, historyVars

\* A timer tick that is ignored keeps the types.
LEMMA TimeoutIgnoredType ==
  ASSUME TypeOK, NEW n \in Node, ElectionTimeoutIgnored(n)
  PROVE  TypeOK'
  BY DEF ElectionTimeoutIgnored, TypeOK, termVars, voteMsgs, appendMsgs,
         commitVars, historyVars

\* The initial state has the right types.
LEMMA InitType == Init => TypeOK
  <1> SUFFICES ASSUME Init PROVE TypeOK
    OBVIOUS
  <1>1. /\ logs \in [Node -> Seq(LogEntry)]
        /\ append_requests \in [Node -> [Node -> Seq(AppendRequest)]]
        /\ append_responses \in [Node -> [Node -> Seq(AppendResponse)]]
        /\ promise \in [Command -> Seq(BOOLEAN)]
    <2>1. \A S : <<>> \in Seq(S)
      OBVIOUS
    <2> QED BY <2>1 DEF Init
  <1>2. state \in [Node -> StateType \cup {"Down"}]
    BY StartedFollows DEF Init, StateType
  <1> QED BY <1>1, <1>2 DEF Init, TypeOK

\* Every step keeps the types.
LEMMA NextType == TypeOK /\ [Next]_vars => TypeOK'
  <1> SUFFICES ASSUME TypeOK, [Next]_vars PROVE TypeOK'
    OBVIOUS
  <1>1. ASSUME NEW n \in Node,
               \/ ElectionTimeoutIgnored(n) \/ ElectionTimeout(n) \/ Broadcast(n)
               \/ Crash(n) \/ CrashInHandler(n) \/ Restart(n)
        PROVE  TypeOK'
    BY <1>1, TimeoutIgnoredType, StartElectionType, BroadcastType, CrashType,
       RestartType DEF ElectionTimeout
  <1>2. ASSUME NEW m \in vote_requests, HandleRequestVote(m)
        PROVE  TypeOK'
    BY <1>2, HandleRequestVoteType
  <1>3. ASSUME NEW m \in vote_responses,
               HandleVoteRefused(m) \/ HandleVoteGranted(m)
        PROVE  TypeOK'
    BY <1>3, HandleVoteRefusedType, HandleVoteGrantedType
  <1>4. ASSUME NEW m \in Node, NEW n \in Node,
               HandleAppendEntries(m, n) \/ HandleAppendResponse(m, n)
        PROVE  TypeOK'
    BY <1>4, HandleAppendEntriesType, HandleAppendResponseType
  <1>5. ASSUME NEW n \in Node, NEW c \in Command,
               RefuseCommand(n, c) \/ CommitCommand(n, c)
        PROVE  TypeOK'
    BY <1>5, CommandType
  <1>6. CASE UNCHANGED vars
    BY <1>6 DEF TypeOK, vars
  <1> QED BY <1>1, <1>2, <1>3, <1>4, <1>5, <1>6 DEF Next

\* In every cluster, with any number of elections, crashes and calls in flight,
\* every variable keeps its type; in particular next_index, which
\* other_node.cpp decrements on every refusal, never falls below 0.
THEOREM TypeCorrect == Spec => []TypeOK
  BY InitType, NextType, PTL DEF Spec

-----------------------------------------------------------------------------

\* A vote is on the disk of the voter as long as its term lasts.
BallotsAreStored ==
  \A b \in ballots :
    /\ b[2] <= current_term[b[1]]
    /\ b[2] = current_term[b[1]] => voted[b[1]] /\ voted_for[b[1]] = b[3]

\* Nobody asks for votes in a term that it has not reached.
RequestsArePast == \A m \in vote_requests : m.term <= current_term[m.from]

\* Nor is anybody answered in one, and a granted vote is a ballot.
ResponsesAreBallots ==
  \A r \in vote_responses :
    /\ r.round <= current_term[r.to]
    /\ r.vote_granted => r.term = r.round /\ <<r.from, r.round, r.to>> \in ballots

\* A vote on its way is not counted yet.
ResponsesAreFresh ==
  \A r \in vote_responses :
    r.vote_granted /\ r.round = current_term[r.to] => r.from \notin tally[r.to]

\* Whoever was elected has the ballots of a majority.
ElectedByMajority ==
  \A e \in elected :
    \E Q \in SUBSET Node : /\ Cardinality(Q) >= Majority
                           /\ \A q \in Q : <<q, e[1], e[2]>> \in ballots

\* The inductive invariant of the election.
ElectionInv ==
  /\ TypeOK
  /\ BallotsAreStored
  /\ OneBallotPerTerm
  /\ RequestsArePast
  /\ ResponsesAreBallots
  /\ ResponsesAreFresh
  /\ VotesCountedOnce
  /\ ElectedByMajority

-----------------------------------------------------------------------------

\* A node starts to count again, or keeps its term and its count.
CountsStand ==
  \A n \in Node :
    \/ tally'[n] = {} /\ vote_received'[n] = 0
    \/ /\ tally'[n] = tally[n] /\ vote_received'[n] = vote_received[n]
       /\ current_term'[n] = current_term[n]

\* A step that neither asks for, nor grants, nor counts a vote.
QuietStep ==
  /\ KeepsVotes
  /\ CountsStand
  /\ UNCHANGED <<ballots, elected>>
  /\ vote_requests' \subseteq vote_requests
  /\ vote_responses' \subseteq vote_responses

\* update_term either moves to the newer term and forgets vote and count, or
\* changes nothing.
LEMMA UpdateTermFacts ==
  ASSUME TypeOK, NEW n \in Node, NEW t \in Nat
  PROVE  LET u == update_term(n, t)
         IN  /\ u.current_term >= current_term[n]
             /\ u.current_term >= t
             /\ u.current_term \in Nat
             /\ \/ /\ u.current_term = t /\ t > current_term[n] /\ ~u.voted
                   /\ u.tally = {} /\ u.vote_received = 0
                \/ /\ u.current_term = current_term[n]
                   /\ u.voted = voted[n] /\ u.voted_for = voted_for[n]
                   /\ u.tally = tally[n]
                   /\ u.vote_received = vote_received[n]
  <1>1. current_term[n] \in Nat
    BY DEF TypeOK
  <1>2. CASE t > current_term[n]
    <2>1. update_term(n, t) =
            [current_term |-> t, voted_for |-> None, voted |-> FALSE,
             vote_received |-> 0, tally |-> {},
             state |-> handle(state[n], "NewTermReceived")]
      BY <1>2 DEF update_term
    <2>2. /\ update_term(n, t).current_term = t
          /\ ~update_term(n, t).voted
          /\ update_term(n, t).tally = {}
          /\ update_term(n, t).vote_received = 0
      BY <2>1
    <2> QED BY <1>1, <1>2, <2>2
  <1>3. CASE ~(t > current_term[n])
    <2>1. update_term(n, t) =
            [current_term |-> current_term[n], voted_for |-> voted_for[n],
             voted |-> voted[n], vote_received |-> vote_received[n],
             tally |-> tally[n], state |-> state[n]]
      BY <1>3 DEF update_term
    <2> QED BY <1>1, <1>3, <2>1
  <1> QED BY <1>2, <1>3

\* update_term keeps votes that were cast, and the count of an unchanged term.
LEMMA ApplyUpdate ==
  ASSUME TypeOK, NEW n \in Node, NEW t \in Nat, ApplyTerm(n, update_term(n, t))
  PROVE  KeepsVotes /\ CountsStand
  <1> DEFINE u == update_term(n, t)
  <1>1. /\ u.current_term >= current_term[n]
        /\ \/ u.current_term > current_term[n]
              /\ u.tally = {} /\ u.vote_received = 0
           \/ /\ u.current_term = current_term[n]
              /\ u.voted = voted[n] /\ u.voted_for = voted_for[n]
              /\ u.tally = tally[n]
              /\ u.vote_received = vote_received[n]
    BY UpdateTermFacts
  <1>2. /\ current_term' = [current_term EXCEPT ![n] = u.current_term]
        /\ voted_for' = [voted_for EXCEPT ![n] = u.voted_for]
        /\ voted' = [voted EXCEPT ![n] = u.voted]
        /\ vote_received' = [vote_received EXCEPT ![n] = u.vote_received]
        /\ tally' = [tally EXCEPT ![n] = u.tally]
    BY DEF ApplyTerm
  <1> HIDE DEF u
  <1>3. /\ current_term \in [Node -> Nat]
        /\ voted_for \in [Node -> Node \cup {None}]
        /\ voted \in [Node -> BOOLEAN]
        /\ vote_received \in [Node -> Nat]
        /\ tally \in [Node -> SUBSET Node]
    BY DEF TypeOK
  <1>4. KeepsVotes
    BY <1>1, <1>2, <1>3 DEF KeepsVotes
  <1>5. CountsStand
    BY <1>1, <1>2, <1>3 DEF CountsStand
  <1> QED BY <1>4, <1>5

\* Whichever Put of a handler the process dies after, the store has no older
\* term, and the vote of an unchanged term is the one that was cast.
LEMMA DisksKeepVotes ==
  ASSUME TypeOK, NEW n \in Node, NEW d \in HandlerDisks(n)
  PROVE  /\ d.current_term >= current_term[n]
         /\ d.current_term = current_term[n] /\ voted[n]
              => d.voted /\ d.voted_for = voted_for[n]
  <1>1. current_term[n] \in Nat
    BY DEF TypeOK
  <1>2. ASSUME NEW t \in Nat, t > current_term[n], d \in UpdateTermDisks(n, t)
        PROVE  d.current_term \in Nat /\ d.current_term > current_term[n]
    BY <1>2 DEF UpdateTermDisks, Disk
  <1>3. CASE d \in ElectionDisks(n)
    <2>1. d \in UpdateTermDisks(n, current_term[n] + 1)
            \/ d \in VoteDisks(n, current_term[n] + 1, n)
      BY <1>3 DEF ElectionDisks
    <2>2. current_term[n] + 1 \in Nat /\ current_term[n] + 1 > current_term[n]
      BY <1>1
    <2>3. CASE d \in VoteDisks(n, current_term[n] + 1, n)
      BY <1>1, <2>3 DEF VoteDisks, Disk
    <2> QED BY <1>1, <1>2, <2>1, <2>2, <2>3
  <1>4. CASE d \in GrantDisks(n)
    <2>1. PICK m \in vote_requests :
            /\ Grants(n, update_term(n, m.term), m)
            /\ d \in VoteDisks(n, update_term(n, m.term).current_term, m.from)
      BY <1>4 DEF GrantDisks
    <2>2. m.term \in Nat
      BY DEF TypeOK, VoteRequest
    <2> DEFINE u == update_term(n, m.term)
    <2>3. ~u.voted
      BY <2>1 DEF Grants
    <2>4. d.current_term = u.current_term
      BY <2>1 DEF VoteDisks, Disk
    <2>5. /\ u.current_term >= current_term[n]
          /\ \/ u.current_term > current_term[n]
             \/ u.voted = voted[n]
      BY <2>2, UpdateTermFacts
    <2> HIDE DEF u
    <2> QED BY <1>1, <2>3, <2>4, <2>5
  <1>5. CASE d \in AppendDisks(n)
    <2>1. PICK l \in Node :
            /\ append_requests[l][n] # <<>>
            /\ \E lg : d = Disk(
                 update_term(n, Head(append_requests[l][n]).term).current_term,
                 update_term(n, Head(append_requests[l][n]).term).voted_for,
                 update_term(n, Head(append_requests[l][n]).term).voted, lg)
      BY <1>5 DEF AppendDisks
    <2> DEFINE m == Head(append_requests[l][n])
               u == update_term(n, m.term)
    <2>2. append_requests[l][n] \in Seq(AppendRequest)
      BY DEF TypeOK
    <2>3. m \in AppendRequest
      BY <2>1, <2>2
    <2>4. m.term \in Nat
      BY <2>3 DEF AppendRequest
    <2>5. /\ d.current_term = u.current_term
          /\ d.voted_for = u.voted_for /\ d.voted = u.voted
      BY <2>1 DEF Disk
    <2>6. /\ u.current_term >= current_term[n]
          /\ \/ u.current_term > current_term[n]
             \/ u.voted = voted[n] /\ u.voted_for = voted_for[n]
      BY <2>4, UpdateTermFacts
    <2> HIDE DEF u
    <2> QED BY <1>1, <2>5, <2>6
  <1>6. CASE d \in UNION {UpdateTermDisks(n, t) : t \in NewerTerms(n)}
    <2>1. PICK t \in NewerTerms(n) : d \in UpdateTermDisks(n, t)
      BY <1>6
    <2>2. t \in Nat /\ t > current_term[n]
      BY NewerTermsType
    <2>3. d.current_term > current_term[n]
      BY <1>2, <2>1, <2>2
    <2>4. d.current_term \in Nat
      BY HandlerDisksType DEF DiskRecord
    <2> QED BY <1>1, <2>3, <2>4
  <1> QED BY <1>3, <1>4, <1>5, <1>6 DEF HandlerDisks

\* A crash casts no vote and takes none back.
LEMMA CrashIsQuiet ==
  ASSUME TypeOK, NEW n \in Node, Crash(n) \/ CrashInHandler(n)
  PROVE  QuietStep
  <1>1. PICK d : /\ Die(n, d)
                 /\ d.current_term >= current_term[n]
                 /\ d.current_term = current_term[n] /\ voted[n]
                      => d.voted /\ d.voted_for = voted_for[n]
    <2>1. CASE Crash(n)
      <3> DEFINE d == Disk(current_term[n], voted_for[n], voted[n], logs[n])
      <3>1. /\ d.current_term = current_term[n]
            /\ d.voted = voted[n] /\ d.voted_for = voted_for[n]
        BY DEF Disk
      <3>2. Die(n, d)
        BY <2>1 DEF Crash
      <3>3. current_term[n] \in Nat
        BY DEF TypeOK
      <3> HIDE DEF d
      <3> QED BY <3>1, <3>2, <3>3
    <2>2. CASE CrashInHandler(n)
      BY <2>2, DisksKeepVotes DEF CrashInHandler
    <2> QED BY <2>1, <2>2
  <1>2. /\ current_term' = [current_term EXCEPT ![n] = d.current_term]
        /\ voted_for' = [voted_for EXCEPT ![n] = d.voted_for]
        /\ voted' = [voted EXCEPT ![n] = d.voted]
        /\ vote_received' = [vote_received EXCEPT ![n] = 0]
        /\ tally' = [tally EXCEPT ![n] = {}]
    BY <1>1 DEF Die
  <1>3. /\ current_term \in [Node -> Nat]
        /\ voted_for \in [Node -> Node \cup {None}]
        /\ voted \in [Node -> BOOLEAN]
        /\ vote_received \in [Node -> Nat]
        /\ tally \in [Node -> SUBSET Node]
    BY DEF TypeOK
  <1>4. KeepsVotes
    BY <1>1, <1>2, <1>3 DEF KeepsVotes
  <1>5. CountsStand
    BY <1>2, <1>3 DEF CountsStand
  <1>6. /\ UNCHANGED <<ballots, elected>>
        /\ vote_requests' \subseteq vote_requests
        /\ vote_responses' \subseteq vote_responses
    BY <1>1 DEF Die, historyVars
  <1> QED BY <1>4, <1>5, <1>6 DEF QuietStep

\* Nor does a step that leaves the terms and the vote messages alone.
LEMMA UnchangedTermIsQuiet ==
  ASSUME TypeOK, UNCHANGED <<termVars, voteMsgs, historyVars>>
  PROVE  QuietStep
  BY DEF QuietStep, KeepsVotes, CountsStand, TypeOK, termVars, voteMsgs,
         historyVars

\* Nor does an answer that is not counted.
LEMMA RefusalIsQuiet ==
  ASSUME TypeOK, NEW m \in vote_responses, HandleVoteRefused(m)
  PROVE  QuietStep
  <1>1. m.to \in Node /\ m.term \in Nat
    BY DEF TypeOK, VoteResponse
  <1>2. ApplyTerm(m.to, update_term(m.to, m.term))
    BY DEF HandleVoteRefused
  <1>3. KeepsVotes /\ CountsStand
    BY <1>1, <1>2, ApplyUpdate
  <1> QED BY <1>3 DEF HandleVoteRefused, QuietStep, historyVars

\* Nor does an append_entries call or its answer.
LEMMA AppendIsQuiet ==
  ASSUME TypeOK, NEW l \in Node, NEW n \in Node,
         HandleAppendEntries(l, n) \/ HandleAppendResponse(l, n)
  PROVE  QuietStep
  <1>1. PICK t \in Nat : ApplyTerm(n, update_term(n, t))
    <2>1. CASE HandleAppendEntries(l, n)
      <3>1. append_requests[l][n] \in Seq(AppendRequest)
        BY DEF TypeOK
      <3>2. Head(append_requests[l][n]) \in AppendRequest
        BY <2>1, <3>1 DEF HandleAppendEntries
      <3>3. Head(append_requests[l][n]).term \in Nat
        BY <3>2 DEF AppendRequest
      <3> QED BY <2>1, <3>3 DEF HandleAppendEntries
    <2>2. CASE HandleAppendResponse(l, n)
      <3>1. append_responses[l][n] \in Seq(AppendResponse)
        BY DEF TypeOK
      <3>2. Head(append_responses[l][n]) \in AppendResponse
        BY <2>2, <3>1 DEF HandleAppendResponse
      <3>3. Head(append_responses[l][n]).term \in Nat
        BY <3>2 DEF AppendResponse
      <3> QED BY <2>2, <3>3 DEF HandleAppendResponse
    <2> QED BY <2>1, <2>2
  <1>2. KeepsVotes /\ CountsStand
    BY <1>1, ApplyUpdate
  <1>3. UNCHANGED <<ballots, elected, vote_requests, vote_responses>>
    BY DEF HandleAppendEntries, HandleAppendResponse, voteMsgs, historyVars
  <1> QED BY <1>2, <1>3 DEF QuietStep

\* Where votes and counts stand, the counts stay exact, and requests and
\* answers already on their way stay valid.
LEMMA CountsPreserved ==
  ASSUME ElectionInv, KeepsVotes, CountsStand, TypeOK', ballots \subseteq ballots'
  PROVE  /\ VotesCountedOnce'
         /\ \A m \in vote_requests : m.term <= current_term'[m.from]
         /\ \A r \in vote_responses :
              /\ r.round <= current_term'[r.to]
              /\ r.vote_granted => /\ r.term = r.round
                                   /\ <<r.from, r.round, r.to>> \in ballots'
              /\ r.vote_granted /\ r.round = current_term'[r.to]
                   => r.from \notin tally'[r.to]
  <1>1. /\ current_term \in [Node -> Nat] /\ current_term' \in [Node -> Nat]
        /\ vote_requests \in SUBSET VoteRequest
        /\ vote_responses \in SUBSET VoteResponse
    BY DEF ElectionInv, TypeOK
  <1>2. \A n \in Node : current_term'[n] >= current_term[n]
    BY DEF KeepsVotes
  <1>3. \A m \in vote_requests : m.term <= current_term'[m.from]
    <2> TAKE m \in vote_requests
    <2>1. m.from \in Node /\ m.term \in Nat
      BY <1>1 DEF VoteRequest
    <2>2. m.term <= current_term[m.from]
      BY DEF ElectionInv, RequestsArePast
    <2> QED BY <1>1, <1>2, <2>1, <2>2
  <1>4. ASSUME NEW r \in vote_responses
        PROVE  /\ r.round <= current_term'[r.to]
               /\ r.vote_granted => /\ r.term = r.round
                                    /\ <<r.from, r.round, r.to>> \in ballots'
               /\ r.vote_granted /\ r.round = current_term'[r.to]
                    => r.from \notin tally'[r.to]
    <2>1. r.to \in Node /\ r.round \in Nat
      BY <1>1 DEF VoteResponse
    <2>2. /\ r.round <= current_term[r.to]
          /\ r.vote_granted => /\ r.term = r.round
                               /\ <<r.from, r.round, r.to>> \in ballots
          /\ r.vote_granted /\ r.round = current_term[r.to]
               => r.from \notin tally[r.to]
      BY DEF ElectionInv, ResponsesAreBallots, ResponsesAreFresh
    <2>3. r.round <= current_term'[r.to]
      BY <1>1, <1>2, <2>1, <2>2
    <2>4. tally'[r.to] = {} \/ (/\ tally'[r.to] = tally[r.to]
                                /\ current_term'[r.to] = current_term[r.to])
      BY <2>1 DEF CountsStand
    <2> QED BY <2>2, <2>3, <2>4
  <1>5. VotesCountedOnce'
    <2> SUFFICES ASSUME NEW n \in Node
                 PROVE  /\ vote_received'[n] = Cardinality(tally'[n])
                        /\ \A v \in tally'[n] :
                             <<v, current_term'[n], n>> \in ballots'
      BY DEF VotesCountedOnce
    <2>1. \/ tally'[n] = {} /\ vote_received'[n] = 0
          \/ /\ tally'[n] = tally[n] /\ vote_received'[n] = vote_received[n]
             /\ current_term'[n] = current_term[n]
      BY DEF CountsStand
    <2> QED BY <2>1, FS_EmptySet DEF ElectionInv, VotesCountedOnce
  <1> QED BY <1>3, <1>4, <1>5

\* Where votes stand and none is cast, the stored votes are still the ballots.
LEMMA StoredPreserved ==
  ASSUME ElectionInv, KeepsVotes, TypeOK', ballots' = ballots
  PROVE  BallotsAreStored'
  <1>1. /\ current_term \in [Node -> Nat] /\ current_term' \in [Node -> Nat]
        /\ ballots \in SUBSET (Node \X Nat \X Node)
    BY DEF ElectionInv, TypeOK
  <1> SUFFICES ASSUME NEW b \in ballots
               PROVE  /\ b[2] <= current_term'[b[1]]
                      /\ b[2] = current_term'[b[1]] =>
                           voted'[b[1]] /\ voted_for'[b[1]] = b[3]
    BY DEF BallotsAreStored
  <1>2. b[1] \in Node /\ b[2] \in Nat
    BY <1>1
  <1>3. /\ b[2] <= current_term[b[1]]
        /\ b[2] = current_term[b[1]] => voted[b[1]] /\ voted_for[b[1]] = b[3]
    BY DEF ElectionInv, BallotsAreStored
  <1>4. current_term[b[1]] \in Nat /\ current_term'[b[1]] \in Nat
    BY <1>1, <1>2
  <1>5. /\ current_term'[b[1]] >= current_term[b[1]]
        /\ current_term'[b[1]] = current_term[b[1]] /\ voted[b[1]]
             => voted'[b[1]] /\ voted_for'[b[1]] = voted_for[b[1]]
    BY <1>2 DEF KeepsVotes
  <1>6. b[2] <= current_term'[b[1]]
    BY <1>2, <1>3, <1>4, <1>5
  <1>7. ASSUME b[2] = current_term'[b[1]]
        PROVE  voted'[b[1]] /\ voted_for'[b[1]] = b[3]
    <2>1. current_term'[b[1]] = current_term[b[1]] /\ b[2] = current_term[b[1]]
      BY <1>2, <1>3, <1>4, <1>5, <1>7
    <2> QED BY <1>3, <1>5, <2>1
  <1> QED BY <1>6, <1>7

\* A quiet step preserves the invariant.
LEMMA QuietPreserves ==
  ASSUME ElectionInv, QuietStep, TypeOK'
  PROVE  ElectionInv'
  <1>1. /\ ballots' = ballots /\ elected' = elected
        /\ vote_requests' \subseteq vote_requests
        /\ vote_responses' \subseteq vote_responses
        /\ KeepsVotes /\ CountsStand
    BY DEF QuietStep
  <1>2. BallotsAreStored'
    BY <1>1, StoredPreserved
  <1>3. OneBallotPerTerm'
    BY <1>1 DEF ElectionInv, OneBallotPerTerm
  <1>4. /\ VotesCountedOnce'
        /\ \A m \in vote_requests : m.term <= current_term'[m.from]
        /\ \A r \in vote_responses :
             /\ r.round <= current_term'[r.to]
             /\ r.vote_granted => /\ r.term = r.round
                                  /\ <<r.from, r.round, r.to>> \in ballots'
             /\ r.vote_granted /\ r.round = current_term'[r.to]
                  => r.from \notin tally'[r.to]
    BY <1>1, CountsPreserved
  <1>5. RequestsArePast' /\ ResponsesAreBallots' /\ ResponsesAreFresh'
    BY <1>1, <1>4 DEF RequestsArePast, ResponsesAreBallots, ResponsesAreFresh
  <1>6. ElectedByMajority'
    BY <1>1 DEF ElectionInv, ElectedByMajority
  <1> QED BY <1>2, <1>3, <1>4, <1>5, <1>6 DEF ElectionInv

\* A vote cast in a term that is new to the node, or in which it has not voted,
\* is its only one for that term.
LEMMA NewBallot ==
  ASSUME ElectionInv, KeepsVotes, TypeOK', NEW n \in Node, NEW c \in Node,
         ballots' = ballots \cup {<<n, current_term'[n], c>>},
         current_term'[n] > current_term[n] \/ ~voted[n],
         voted'[n], voted_for'[n] = c
  PROVE  /\ BallotsAreStored' /\ OneBallotPerTerm'
         /\ \A b \in ballots : ~(b[1] = n /\ b[2] = current_term'[n])
  <1>1. /\ current_term \in [Node -> Nat] /\ current_term' \in [Node -> Nat]
        /\ ballots \in SUBSET (Node \X Nat \X Node)
    BY DEF ElectionInv, TypeOK
  <1>2. \A k \in Node :
          /\ current_term'[k] >= current_term[k]
          /\ current_term'[k] = current_term[k] /\ voted[k]
               => voted'[k] /\ voted_for'[k] = voted_for[k]
    BY DEF KeepsVotes
  <1>3. \A b \in ballots :
          /\ b[1] \in Node /\ b[2] \in Nat
          /\ b[2] <= current_term[b[1]]
          /\ b[2] = current_term[b[1]] => voted[b[1]] /\ voted_for[b[1]] = b[3]
    BY <1>1 DEF ElectionInv, BallotsAreStored
  <1>4. ASSUME NEW b \in ballots, b[1] = n, b[2] = current_term'[n] PROVE FALSE
    <2>1. current_term[n] \in Nat /\ current_term'[n] \in Nat
      BY <1>1
    <2>2. current_term'[n] <= current_term[n] /\ current_term'[n] >= current_term[n]
      BY <1>2, <1>3, <1>4
    <2>3. current_term'[n] = current_term[n]
      BY <2>1, <2>2
    <2> QED BY <1>3, <1>4, <2>1, <2>3
  <1>5. BallotsAreStored'
    <2> SUFFICES ASSUME NEW b \in ballots'
                 PROVE  /\ b[2] <= current_term'[b[1]]
                        /\ b[2] = current_term'[b[1]] =>
                             voted'[b[1]] /\ voted_for'[b[1]] = b[3]
      BY DEF BallotsAreStored
    <2>1. CASE b = <<n, current_term'[n], c>>
      BY <1>1, <2>1
    <2>2. CASE b \in ballots
      <3>1. /\ b[1] \in Node /\ b[2] \in Nat /\ b[2] <= current_term[b[1]]
            /\ b[2] = current_term[b[1]] =>
                 voted[b[1]] /\ voted_for[b[1]] = b[3]
        BY <1>3, <2>2
      <3>2. current_term[b[1]] \in Nat /\ current_term'[b[1]] \in Nat
        BY <1>1, <3>1
      <3>3. current_term'[b[1]] >= current_term[b[1]]
        BY <1>2, <3>1
      <3>4. b[2] <= current_term'[b[1]]
        BY <3>1, <3>2, <3>3
      <3>5. ASSUME b[2] = current_term'[b[1]]
            PROVE  voted'[b[1]] /\ voted_for'[b[1]] = b[3]
        <4>1. /\ current_term'[b[1]] = current_term[b[1]]
              /\ b[2] = current_term[b[1]]
          BY <3>1, <3>2, <3>3, <3>5
        <4> QED BY <1>2, <3>1, <4>1
      <3> QED BY <3>4, <3>5
    <2> QED BY <2>1, <2>2
  <1>6. OneBallotPerTerm'
    <2> SUFFICES ASSUME NEW b1 \in ballots', NEW b2 \in ballots',
                        b1[1] = b2[1], b1[2] = b2[2]
                 PROVE  b1[3] = b2[3]
      BY DEF OneBallotPerTerm
    <2>1. CASE b1 \in ballots /\ b2 \in ballots
      BY <2>1 DEF ElectionInv, OneBallotPerTerm
    <2>2. CASE b1 = <<n, current_term'[n], c>>
      <3>1. b2 = <<n, current_term'[n], c>>
        BY <1>4, <2>2
      <3> QED BY <2>2, <3>1
    <2>3. CASE b2 = <<n, current_term'[n], c>>
      <3>1. b1 = <<n, current_term'[n], c>>
        BY <1>4, <2>3
      <3> QED BY <2>3, <3>1
    <2> QED BY <2>1, <2>2, <2>3
  <1> QED BY <1>4, <1>5, <1>6

\* Two majorities are more than the cluster.
LEMMA MajorityType == Majority \in Nat /\ Majority + Majority > Cardinality(Node)
  <1>1. Cardinality(Node) \in Nat
    BY NodeAssumption, FS_CardinalityType
  <1> QED BY <1>1 DEF Majority

\* An elected node keeps its majority: ballots are never withdrawn.
LEMMA KeepsElected ==
  ASSUME ElectedByMajority, ballots \subseteq ballots',
         NEW e \in elected
  PROVE  \E Q \in SUBSET Node : /\ Cardinality(Q) >= Majority
                                /\ \A q \in Q : <<q, e[1], e[2]>> \in ballots'
  BY DEF ElectedByMajority

\* Candidate::start_election preserves the invariant: the new term has no vote
\* of the node yet, and no answer for it is on its way.
LEMMA StartElectionPreserves ==
  ASSUME ElectionInv, NEW n \in Node, StartElection(n)
  PROVE  ElectionInv' /\ KeepsVotes
  <1> DEFINE t == current_term[n] + 1
  <1>1. TypeOK /\ TypeOK'
    BY StartElectionType DEF ElectionInv
  <1>2. /\ current_term \in [Node -> Nat] /\ current_term' \in [Node -> Nat]
        /\ voted \in [Node -> BOOLEAN]
        /\ voted_for \in [Node -> Node \cup {None}]
        /\ tally \in [Node -> SUBSET Node]
        /\ vote_received \in [Node -> Nat]
        /\ vote_requests \in SUBSET VoteRequest
        /\ vote_responses \in SUBSET VoteResponse
    BY <1>1 DEF TypeOK
  <1>3. /\ current_term' = [current_term EXCEPT ![n] = t]
        /\ voted_for' = [voted_for EXCEPT ![n] = n]
        /\ voted' = [voted EXCEPT ![n] = TRUE]
        /\ vote_received' = [vote_received EXCEPT ![n] = 1]
        /\ tally' = [tally EXCEPT ![n] = {n}]
        /\ ballots' = ballots \cup {<<n, t, n>>}
        /\ vote_responses' = vote_responses
        /\ elected' = IF IsElected(1) THEN elected \cup {<<t, n>>} ELSE elected
    BY DEF vote_for_me, StartElection
  <1>4. /\ current_term[n] \in Nat /\ t \in Nat
        /\ current_term'[n] = t /\ t > current_term[n]
    BY <1>2, <1>3
  <1> HIDE DEF t
  <1>5. KeepsVotes
    BY <1>2, <1>3, <1>4 DEF KeepsVotes
  <1>6. /\ BallotsAreStored' /\ OneBallotPerTerm'
    <2>1. voted'[n] /\ voted_for'[n] = n
      BY <1>2, <1>3
    <2> QED BY <1>1, <1>3, <1>4, <1>5, <2>1, NewBallot
  <1>7. RequestsArePast'
    <2>1. PICK S :
            vote_requests' = vote_requests \cup
              {[from |-> n, to |-> m, term |-> t, client |-> incarnation[n],
                last_data_index |-> last_data_index(n)] : m \in S}
      BY DEF request_vote, StartElection, t
    <2> SUFFICES ASSUME NEW m \in vote_requests'
                 PROVE  m.term <= current_term'[m.from]
      BY DEF RequestsArePast
    <2>2. CASE m \in vote_requests
      <3>1. m.from \in Node /\ m.term \in Nat
        BY <1>2, <2>2 DEF VoteRequest
      <3>2. m.term <= current_term[m.from]
        BY <2>2 DEF ElectionInv, RequestsArePast
      <3>3. current_term'[m.from] >= current_term[m.from]
        BY <1>5, <3>1 DEF KeepsVotes
      <3> QED BY <1>2, <3>1, <3>2, <3>3
    <2>3. CASE m \notin vote_requests
      <3>1. m.from = n /\ m.term = t
        BY <2>1, <2>3
      <3> QED BY <1>4, <3>1
    <2> QED BY <2>2, <2>3
  <1>8. ResponsesAreBallots' /\ ResponsesAreFresh'
    <2> SUFFICES ASSUME NEW r \in vote_responses
                 PROVE  /\ r.round <= current_term'[r.to]
                        /\ r.vote_granted => /\ r.term = r.round
                                             /\ <<r.from, r.round, r.to>> \in ballots'
                        /\ r.vote_granted /\ r.round = current_term'[r.to]
                             => r.from \notin tally'[r.to]
      BY <1>3 DEF ResponsesAreBallots, ResponsesAreFresh
    <2>1. r.to \in Node /\ r.round \in Nat
      BY <1>2 DEF VoteResponse
    <2>2. /\ r.round <= current_term[r.to]
          /\ r.vote_granted => /\ r.term = r.round
                               /\ <<r.from, r.round, r.to>> \in ballots
          /\ r.vote_granted /\ r.round = current_term[r.to]
               => r.from \notin tally[r.to]
      BY DEF ElectionInv, ResponsesAreBallots, ResponsesAreFresh
    <2>3. CASE r.to = n
      <3>1. r.round < current_term'[r.to]
        BY <1>4, <2>1, <2>2, <2>3
      <3>2. r.round <= current_term'[r.to] /\ r.round # current_term'[r.to]
        BY <1>4, <2>1, <2>3, <3>1
      <3> QED BY <1>3, <2>2, <3>2
    <2>4. CASE r.to # n
      <3>1. current_term'[r.to] = current_term[r.to] /\ tally'[r.to] = tally[r.to]
        BY <1>2, <1>3, <2>1, <2>4
      <3> QED BY <1>3, <2>2, <3>1
    <2> QED BY <2>3, <2>4
  <1>9. VotesCountedOnce'
    <2> SUFFICES ASSUME NEW k \in Node
                 PROVE  /\ vote_received'[k] = Cardinality(tally'[k])
                        /\ \A v \in tally'[k] :
                             <<v, current_term'[k], k>> \in ballots'
      BY DEF VotesCountedOnce
    <2>1. CASE k = n
      <3>1. vote_received'[n] = 1 /\ tally'[n] = {n}
        BY <1>2, <1>3
      <3>2. Cardinality({n}) = 1
        BY FS_Singleton
      <3> QED BY <1>3, <1>4, <2>1, <3>1, <3>2
    <2>2. CASE k # n
      <3>1. /\ vote_received'[k] = vote_received[k] /\ tally'[k] = tally[k]
            /\ current_term'[k] = current_term[k]
        BY <1>2, <1>3, <2>2
      <3> QED BY <1>3, <3>1 DEF ElectionInv, VotesCountedOnce
    <2> QED BY <2>1, <2>2
  <1>10. ElectedByMajority'
    <2> SUFFICES ASSUME NEW e \in elected'
                 PROVE  \E Q \in SUBSET Node :
                          /\ Cardinality(Q) >= Majority
                          /\ \A q \in Q : <<q, e[1], e[2]>> \in ballots'
      BY DEF ElectedByMajority, Majority
    <2>1. CASE e \in elected
      BY <1>3, <2>1, KeepsElected DEF ElectionInv
    <2>2. CASE e \notin elected
      <3>1. e = <<t, n>> /\ IsElected(1)
        BY <1>3, <2>2
      <3>2. Cardinality({n}) >= Majority
        BY <3>1, FS_Singleton DEF IsElected
      <3>3. \A q \in {n} : <<q, e[1], e[2]>> \in ballots'
        BY <1>3, <3>1
      <3> QED BY <3>2, <3>3
    <2> QED BY <2>1, <2>2
  <1> QED
    BY <1>1, <1>5, <1>6, <1>7, <1>8, <1>9, <1>10 DEF ElectionInv

\* What on_request_vote_requested does to votes: a vote is granted in the term
\* the node then has, and only if it had not voted in it.
LEMMA RequestVoteFacts ==
  ASSUME TypeOK, NEW m \in vote_requests, HandleRequestVote(m)
  PROVE  /\ KeepsVotes /\ CountsStand
         /\ elected' = elected
         /\ vote_requests' \subseteq vote_requests
         /\ \E granted \in BOOLEAN :
              /\ \/ vote_responses' = vote_responses
                 \/ vote_responses' = vote_responses \cup
                      {[from |-> m.to, to |-> m.from, round |-> m.term,
                        term |-> current_term'[m.to], vote_granted |-> granted]}
              /\ ~granted => ballots' = ballots
              /\ granted => /\ ballots' = ballots \cup
                                 {<<m.to, current_term'[m.to], m.from>>}
                            /\ m.term = current_term'[m.to]
                            /\ current_term'[m.to] > current_term[m.to]
                                 \/ ~voted[m.to]
                            /\ voted'[m.to] /\ voted_for'[m.to] = m.from
  <1> DEFINE n == m.to
             u == update_term(n, m.term)
             granted == Grants(n, u, m)
             w == IF granted
                  THEN [u EXCEPT !.voted_for = m.from, !.voted = TRUE] ELSE u
  <1>1. n \in Node /\ m.from \in Node /\ m.term \in Nat
    BY DEF TypeOK, VoteRequest
  <1>2. granted \in BOOLEAN
    BY DEF Grants
  <1>3. granted => m.term >= u.current_term /\ ~u.voted
    BY DEF Grants
  <1>4. /\ ApplyTerm(n, w)
        /\ ballots' = IF granted THEN ballots \cup {<<n, m.term, m.from>>}
                                 ELSE ballots
        /\ vote_requests' = vote_requests \ {m}
        /\ \/ vote_responses' = vote_responses
           \/ vote_responses' = vote_responses \cup
                {[from |-> n, to |-> m.from, round |-> m.term,
                  term |-> u.current_term, vote_granted |-> granted]}
        /\ elected' = elected
    BY DEF HandleRequestVote
  <1>5. /\ u.current_term >= current_term[n]
        /\ u.current_term >= m.term
        /\ u.current_term \in Nat
        /\ \/ u.current_term > current_term[n]
              /\ u.tally = {} /\ u.vote_received = 0
           \/ /\ u.current_term = current_term[n]
              /\ u.voted = voted[n] /\ u.voted_for = voted_for[n]
              /\ u.tally = tally[n]
              /\ u.vote_received = vote_received[n]
    BY <1>1, UpdateTermFacts
  <1>6. u \in TermRecord
    BY <1>1, UpdateTermType
  <1> HIDE DEF u, granted
  <1>7. /\ w.current_term = u.current_term /\ w.tally = u.tally
        /\ w.vote_received = u.vote_received
        /\ granted => w.voted = TRUE /\ w.voted_for = m.from
        /\ ~granted => w.voted = u.voted /\ w.voted_for = u.voted_for
    BY <1>6 DEF TermRecord
  <1> HIDE DEF w, n
  <1>8. /\ current_term' = [current_term EXCEPT ![n] = w.current_term]
        /\ voted_for' = [voted_for EXCEPT ![n] = w.voted_for]
        /\ voted' = [voted EXCEPT ![n] = w.voted]
        /\ vote_received' = [vote_received EXCEPT ![n] = w.vote_received]
        /\ tally' = [tally EXCEPT ![n] = w.tally]
    BY <1>4 DEF ApplyTerm
  <1>9. /\ current_term \in [Node -> Nat]
        /\ voted_for \in [Node -> Node \cup {None}]
        /\ voted \in [Node -> BOOLEAN]
        /\ vote_received \in [Node -> Nat]
        /\ tally \in [Node -> SUBSET Node]
    BY DEF TypeOK
  <1>10. /\ current_term'[n] = u.current_term
         /\ voted'[n] = w.voted /\ voted_for'[n] = w.voted_for
    BY <1>1, <1>7, <1>8, <1>9
  <1>11. CountsStand
    BY <1>1, <1>5, <1>7, <1>8, <1>9 DEF CountsStand
  <1>12. KeepsVotes
    <2> SUFFICES ASSUME NEW k \in Node
                 PROVE  /\ current_term'[k] >= current_term[k]
                        /\ current_term'[k] = current_term[k] /\ voted[k]
                             => voted'[k] /\ voted_for'[k] = voted_for[k]
      BY DEF KeepsVotes
    <2>1. CASE k # n
      BY <1>8, <1>9, <2>1
    <2>2. CASE k = n
      <3>1. current_term[n] \in Nat
        BY <1>1, <1>9
      <3>2. CASE granted
        BY <1>3, <1>5, <1>10, <2>2, <3>1, <3>2
      <3>3. CASE ~granted
        BY <1>5, <1>7, <1>10, <2>2, <3>1, <3>3
      <3> QED BY <3>2, <3>3
    <2> QED BY <2>1, <2>2
  <1>13. granted => /\ m.term = current_term'[n]
                    /\ current_term'[n] > current_term[n] \/ ~voted[n]
                    /\ voted'[n] /\ voted_for'[n] = m.from
    BY <1>1, <1>3, <1>5, <1>7, <1>10
  <1> QED BY <1>2, <1>4, <1>10, <1>11, <1>12, <1>13 DEF n

\* on_request_vote_requested preserves the invariant.
LEMMA RequestVotePreserves ==
  ASSUME ElectionInv, NEW m \in vote_requests, HandleRequestVote(m)
  PROVE  ElectionInv' /\ KeepsVotes
  <1> DEFINE n == m.to
  <1>1. TypeOK /\ TypeOK'
    BY HandleRequestVoteType DEF ElectionInv
  <1>2. n \in Node /\ m.from \in Node /\ m.term \in Nat
    BY <1>1 DEF TypeOK, VoteRequest
  <1>3. /\ KeepsVotes /\ CountsStand
        /\ elected' = elected /\ vote_requests' \subseteq vote_requests
    BY <1>1, RequestVoteFacts
  <1>4. PICK granted \in BOOLEAN :
          /\ \/ vote_responses' = vote_responses
             \/ vote_responses' = vote_responses \cup
                  {[from |-> n, to |-> m.from, round |-> m.term,
                    term |-> current_term'[n], vote_granted |-> granted]}
          /\ ~granted => ballots' = ballots
          /\ granted => /\ ballots' = ballots \cup
                             {<<n, current_term'[n], m.from>>}
                        /\ m.term = current_term'[n]
                        /\ current_term'[n] > current_term[n] \/ ~voted[n]
                        /\ voted'[n] /\ voted_for'[n] = m.from
    BY <1>1, RequestVoteFacts
  <1> HIDE DEF n
  <1>5. ballots \subseteq ballots'
    BY <1>4
  <1>6. /\ VotesCountedOnce'
        /\ \A k \in vote_requests : k.term <= current_term'[k.from]
        /\ \A r \in vote_responses :
             /\ r.round <= current_term'[r.to]
             /\ r.vote_granted => /\ r.term = r.round
                                  /\ <<r.from, r.round, r.to>> \in ballots'
             /\ r.vote_granted /\ r.round = current_term'[r.to]
                  => r.from \notin tally'[r.to]
    BY <1>1, <1>3, <1>5, CountsPreserved
  <1>7. BallotsAreStored' /\ OneBallotPerTerm'
    <2>1. CASE granted
      BY <1>1, <1>2, <1>3, <1>4, <2>1, NewBallot
    <2>2. CASE ~granted
      <3>1. ballots' = ballots
        BY <1>4, <2>2
      <3>2. OneBallotPerTerm'
        BY <3>1 DEF ElectionInv, OneBallotPerTerm
      <3>3. BallotsAreStored'
        BY <1>1, <1>3, <3>1, StoredPreserved
      <3> QED BY <3>2, <3>3
    <2> QED BY <2>1, <2>2
  <1>8. ASSUME granted, m.term = current_term'[m.from]
        PROVE  n \notin tally'[m.from]
    <2> SUFFICES ASSUME n \in tally'[m.from] PROVE FALSE
      OBVIOUS
    <2>1. \A b \in ballots : ~(b[1] = n /\ b[2] = current_term'[n])
      BY <1>1, <1>2, <1>3, <1>4, <1>8, NewBallot
    <2>2. tally'[m.from] = tally[m.from]
            /\ current_term'[m.from] = current_term[m.from]
      BY <1>2, <1>3 DEF CountsStand
    <2>3. <<n, current_term[m.from], m.from>> \in ballots
      BY <1>2, <2>2 DEF ElectionInv, VotesCountedOnce
    <2>4. current_term[m.from] = current_term'[n]
      BY <1>4, <1>8, <2>2
    <2> QED BY <2>1, <2>3, <2>4
  <1>9. ASSUME NEW r \in vote_responses'
        PROVE  /\ r.round <= current_term'[r.to]
               /\ r.vote_granted => /\ r.term = r.round
                                    /\ <<r.from, r.round, r.to>> \in ballots'
               /\ r.vote_granted /\ r.round = current_term'[r.to]
                    => r.from \notin tally'[r.to]
    <2>1. CASE r \in vote_responses
      BY <1>6, <2>1
    <2>2. CASE r \notin vote_responses
      <3>1. r = [from |-> n, to |-> m.from, round |-> m.term,
                 term |-> current_term'[n], vote_granted |-> granted]
        BY <1>4, <2>2
      <3>2. m.term <= current_term'[m.from]
        BY <1>6
      <3>3. granted => <<n, m.term, m.from>> \in ballots'
        BY <1>4
      <3> QED BY <1>4, <1>8, <3>1, <3>2, <3>3
    <2> QED BY <2>1, <2>2
  <1>10. ElectedByMajority'
    BY <1>3, <1>5, KeepsElected DEF ElectionInv, ElectedByMajority, Majority
  <1> QED
    BY <1>1, <1>3, <1>6, <1>7, <1>9, <1>10
    DEF ElectionInv, RequestsArePast, ResponsesAreBallots, ResponsesAreFresh

\* Counting a vote preserves the invariant: the vote was not counted before, so
\* the counter is the number of voters when check_elected compares it.
LEMMA VoteGrantedPreserves ==
  ASSUME ElectionInv, NEW m \in vote_responses, HandleVoteGranted(m)
  PROVE  ElectionInv' /\ KeepsVotes
  <1> DEFINE n == m.to
             voters == tally[n] \cup {m.from}
  <1>1. TypeOK /\ TypeOK'
    BY HandleVoteGrantedType DEF ElectionInv
  <1>2. n \in Node /\ m.from \in Node /\ m.vote_granted \in BOOLEAN
    BY <1>1 DEF TypeOK, VoteResponse
  <1>3. /\ m.term = current_term[n] /\ m.vote_granted
        /\ vote_received' = [vote_received EXCEPT ![n] = @ + 1]
        /\ tally' = [tally EXCEPT ![n] = voters]
        /\ elected' \in {elected, elected \cup {<<current_term[n], n>>}}
        /\ vote_responses' = vote_responses \ {m}
        /\ UNCHANGED <<current_term, voted_for, voted, vote_requests, ballots>>
    BY DEF HandleVoteGranted, CountsVote
  <1>4. elected' # elected => vote_received[n] + 1 >= Majority
    <2> SUFFICES ASSUME ~(vote_received[n] + 1 >= Majority)
                 PROVE  elected' = elected
      OBVIOUS
    <2> QED BY DEF HandleVoteGranted, IsElected
  <1>5. m.round = current_term[n] /\ <<m.from, current_term[n], n>> \in ballots
    BY <1>3 DEF ElectionInv, ResponsesAreBallots
  <1>6. m.from \notin tally[n]
    BY <1>3, <1>5 DEF ElectionInv, ResponsesAreFresh
  <1>7. /\ current_term \in [Node -> Nat] /\ voted \in [Node -> BOOLEAN]
        /\ vote_received \in [Node -> Nat]
        /\ tally \in [Node -> SUBSET Node]
        /\ vote_responses \in SUBSET VoteResponse
    BY <1>1 DEF TypeOK
  <1>8. /\ vote_received[n] = Cardinality(tally[n])
        /\ \A v \in tally[n] : <<v, current_term[n], n>> \in ballots
    BY <1>2 DEF ElectionInv, VotesCountedOnce
  <1>9. /\ voters \subseteq Node
        /\ Cardinality(voters) = vote_received[n] + 1
        /\ \A v \in voters : <<v, current_term[n], n>> \in ballots
    <2>1. tally[n] \in SUBSET Node
      BY <1>2, <1>7
    <2>2. IsFiniteSet(tally[n])
      BY <2>1, NodeAssumption, FS_Subset
    <2>3. Cardinality(voters) = Cardinality(tally[n]) + 1
      BY <1>6, <2>2, FS_AddElement
    <2> QED BY <1>2, <1>5, <1>8, <2>1, <2>3
  <1> HIDE DEF n, voters
  <1>10. KeepsVotes
    BY <1>3, <1>7 DEF KeepsVotes
  <1>11. BallotsAreStored' /\ OneBallotPerTerm' /\ RequestsArePast'
    BY <1>3
    DEF ElectionInv, BallotsAreStored, OneBallotPerTerm, RequestsArePast
  <1>12. ResponsesAreBallots'
    BY <1>3 DEF ElectionInv, ResponsesAreBallots
  <1>13. ResponsesAreFresh'
    <2> SUFFICES ASSUME NEW r \in vote_responses, r # m, r.vote_granted,
                        r.round = current_term[r.to]
                 PROVE  r.from \notin tally'[r.to]
      BY <1>3 DEF ResponsesAreFresh
    <2>1. r \in VoteResponse /\ m \in VoteResponse
      BY <1>7
    <2>2. r.from \notin tally[r.to] /\ r.term = r.round
      BY DEF ElectionInv, ResponsesAreFresh, ResponsesAreBallots
    <2>3. r.to \in Node
      BY <2>1 DEF VoteResponse
    <2>4. CASE r.to # n
      <3>1. tally'[r.to] = tally[r.to]
        BY <1>3, <1>7, <2>3, <2>4
      <3> QED BY <2>2, <3>1
    <2>5. CASE r.to = n
      <3>1. /\ r.to = m.to /\ r.round = m.round /\ r.term = m.term
            /\ r.vote_granted /\ m.vote_granted
        BY <1>3, <1>5, <2>2, <2>5 DEF n
      <3>2. r.from # m.from
        <4> SUFFICES ASSUME r.from = m.from PROVE FALSE
          OBVIOUS
        <4>1. r.vote_granted = m.vote_granted
          BY <2>1, <3>1 DEF VoteResponse
        <4> QED BY <2>1, <3>1, <4>1 DEF VoteResponse
      <3>3. tally'[n] = voters
        BY <1>2, <1>3, <1>7
      <3> QED BY <2>2, <2>5, <3>2, <3>3 DEF voters
    <2> QED BY <2>4, <2>5
  <1>14. VotesCountedOnce'
    <2> SUFFICES ASSUME NEW k \in Node
                 PROVE  /\ vote_received'[k] = Cardinality(tally'[k])
                        /\ \A v \in tally'[k] :
                             <<v, current_term[k], k>> \in ballots
      BY <1>3 DEF VotesCountedOnce
    <2>1. CASE k = n
      <3>1. vote_received'[n] = vote_received[n] + 1 /\ tally'[n] = voters
        BY <1>2, <1>3, <1>7
      <3> QED BY <1>9, <2>1, <3>1
    <2>2. CASE k # n
      <3>1. vote_received'[k] = vote_received[k] /\ tally'[k] = tally[k]
        BY <1>3, <1>7, <2>2
      <3> QED BY <3>1 DEF ElectionInv, VotesCountedOnce
    <2> QED BY <2>1, <2>2
  <1>15. ElectedByMajority'
    <2> SUFFICES ASSUME NEW e \in elected'
                 PROVE  \E Q \in SUBSET Node :
                          /\ Cardinality(Q) >= Majority
                          /\ \A q \in Q : <<q, e[1], e[2]>> \in ballots'
      BY DEF ElectedByMajority, Majority
    <2>1. CASE e \in elected
      BY <1>3, <2>1, KeepsElected DEF ElectionInv
    <2>2. CASE e \notin elected
      <3>1. e = <<current_term[n], n>> /\ elected' # elected
        BY <1>3, <2>2
      <3>2. Cardinality(voters) >= Majority
        BY <1>4, <1>9, <3>1
      <3>3. \A q \in voters : <<q, e[1], e[2]>> \in ballots'
        BY <1>3, <1>9, <3>1
      <3> QED BY <1>9, <3>2, <3>3
    <2> QED BY <2>1, <2>2
  <1> QED
    BY <1>1, <1>10, <1>11, <1>12, <1>13, <1>14, <1>15 DEF ElectionInv

\* The invariant holds at the start.
LEMMA InitElection == Init => ElectionInv
  <1> SUFFICES ASSUME Init PROVE ElectionInv
    OBVIOUS
  <1>1. TypeOK
    BY InitType
  <1>2. VotesCountedOnce
    BY FS_EmptySet DEF Init, VotesCountedOnce
  <1>3. /\ BallotsAreStored /\ OneBallotPerTerm /\ RequestsArePast
        /\ ResponsesAreBallots /\ ResponsesAreFresh /\ ElectedByMajority
    BY DEF Init, BallotsAreStored, OneBallotPerTerm, RequestsArePast,
           ResponsesAreBallots, ResponsesAreFresh, ElectedByMajority
  <1> QED BY <1>1, <1>2, <1>3 DEF ElectionInv

\* Every step preserves the invariant and the votes that were cast.
LEMMA NextElection == ElectionInv /\ [Next]_vars => ElectionInv' /\ KeepsVotes
  <1> SUFFICES ASSUME ElectionInv, [Next]_vars PROVE ElectionInv' /\ KeepsVotes
    OBVIOUS
  <1>1. TypeOK /\ TypeOK'
    BY NextType DEF ElectionInv
  <1>2. CASE QuietStep
    BY <1>1, <1>2, QuietPreserves DEF QuietStep
  <1>3. ASSUME NEW n \in Node, ElectionTimeout(n)
        PROVE  ElectionInv' /\ KeepsVotes
    BY <1>3, StartElectionPreserves DEF ElectionTimeout
  <1>4. ASSUME NEW n \in Node,
               ElectionTimeoutIgnored(n) \/ Broadcast(n) \/ Restart(n)
        PROVE  QuietStep
    <2>1. UNCHANGED <<termVars, voteMsgs, historyVars>>
      BY <1>4 DEF ElectionTimeoutIgnored, Broadcast, Restart
    <2> QED BY <1>1, <2>1, UnchangedTermIsQuiet
  <1>5. ASSUME NEW n \in Node, Crash(n) \/ CrashInHandler(n)
        PROVE  QuietStep
    BY <1>1, <1>5, CrashIsQuiet
  <1>6. ASSUME NEW m \in vote_requests, HandleRequestVote(m)
        PROVE  ElectionInv' /\ KeepsVotes
    BY <1>6, RequestVotePreserves
  <1>7. ASSUME NEW m \in vote_responses, HandleVoteRefused(m)
        PROVE  QuietStep
    BY <1>1, <1>7, RefusalIsQuiet
  <1>8. ASSUME NEW m \in vote_responses, HandleVoteGranted(m)
        PROVE  ElectionInv' /\ KeepsVotes
    BY <1>8, VoteGrantedPreserves
  <1>9. ASSUME NEW m \in Node, NEW n \in Node,
               HandleAppendEntries(m, n) \/ HandleAppendResponse(m, n)
        PROVE  QuietStep
    BY <1>1, <1>9, AppendIsQuiet
  <1>10. ASSUME NEW n \in Node, NEW c \in Command,
                RefuseCommand(n, c) \/ CommitCommand(n, c)
         PROVE  QuietStep
    <2>1. UNCHANGED <<termVars, voteMsgs, historyVars>>
      BY <1>10 DEF RefuseCommand, CommitCommand
    <2> QED BY <1>1, <2>1, UnchangedTermIsQuiet
  <1>11. CASE UNCHANGED vars
    <2>1. UNCHANGED <<termVars, voteMsgs, historyVars>>
      BY <1>11 DEF vars, termVars, voteMsgs, historyVars
    <2>2. QuietStep
      BY <1>1, <2>1, UnchangedTermIsQuiet
    <2> QED BY <1>2, <2>2
  <1> QED
    BY <1>2, <1>3, <1>4, <1>5, <1>6, <1>7, <1>8, <1>9, <1>10, <1>11 DEF Next

\* ElectionInv is an invariant of the cluster.
THEOREM ElectionInvariant == Spec => []ElectionInv
  BY InitElection, NextElection, PTL DEF Spec

\* The invariant implies election safety: two nodes elected in a term have a
\* voter in common, and that voter has one ballot.
LEMMA MajoritiesAgree == ElectionInv => ElectionSafety
  <1> SUFFICES ASSUME ElectionInv, NEW e1 \in elected, NEW e2 \in elected,
                      e1[1] = e2[1]
               PROVE  e1[2] = e2[2]
    BY DEF ElectionSafety
  <1>1. PICK Q1 \in SUBSET Node :
          /\ Cardinality(Q1) >= Majority
          /\ \A q \in Q1 : <<q, e1[1], e1[2]>> \in ballots
    BY DEF ElectionInv, ElectedByMajority
  <1>2. PICK Q2 \in SUBSET Node :
          /\ Cardinality(Q2) >= Majority
          /\ \A q \in Q2 : <<q, e2[1], e2[2]>> \in ballots
    BY DEF ElectionInv, ElectedByMajority
  <1>3. /\ Cardinality(Q1) \in Nat /\ Cardinality(Q2) \in Nat
        /\ Cardinality(Node) \in Nat
    BY NodeAssumption, FS_Subset, FS_CardinalityType
  <1>4. Cardinality(Q1) + Cardinality(Q2) > Cardinality(Node)
    BY <1>1, <1>2, <1>3, MajorityType
  <1>5. Q1 \cap Q2 # {}
    BY <1>4, NodeAssumption, FS_MajoritiesIntersect
  <1>6. PICK q \in Node : q \in Q1 /\ q \in Q2
    BY <1>5
  <1>7. <<q, e1[1], e1[2]>> \in ballots /\ <<q, e1[1], e2[2]>> \in ballots
    BY <1>1, <1>2, <1>6
  <1> QED BY <1>7 DEF ElectionInv, OneBallotPerTerm

\* Election safety: for every cluster size and any number of elections and
\* crashes, also crashes between two Puts, no term has two leaders.
THEOREM OneLeaderPerTerm == Spec => []ElectionSafety
  BY ElectionInvariant, MajoritiesAgree, PTL

\* No node votes for two candidates in a term: the store remembers a vote through
\* every crash.
THEOREM OneVotePerTerm == Spec => []OneBallotPerTerm
  <1>1. ElectionInv => OneBallotPerTerm
    BY DEF ElectionInv
  <1> QED BY <1>1, ElectionInvariant, PTL

\* vote_received is the number of different nodes that voted for the node in its
\* current term: no late, repeated or outdated answer is counted.
THEOREM CountIsExact == Spec => []VotesCountedOnce
  <1>1. ElectionInv => VotesCountedOnce
    BY DEF ElectionInv
  <1> QED BY <1>1, ElectionInvariant, PTL

\* No step takes back a vote in its term or returns to an older term, also not a
\* crash in the middle of update_term, reset_vote or vote.
THEOREM VotesStand == Spec => VotesAreFinal
  <1>1. ElectionInv /\ [Next]_vars => [KeepsVotes]_vars
    BY NextElection
  <1> QED BY <1>1, ElectionInvariant, PTL DEF Spec, VotesAreFinal

\* A step changes the term of one node only, and elects at most that node.
LEMMA OneNodeMoves ==
  ASSUME TypeOK, TypeOK', [Next]_vars
  PROVE  \E n \in Node :
           /\ current_term' = [current_term EXCEPT ![n] = current_term'[n]]
           /\ \/ elected' = elected
              \/ elected' = elected \cup {<<current_term'[n], n>>}
  <1>1. current_term \in [Node -> Nat] /\ current_term' \in [Node -> Nat]
    BY DEF TypeOK
  <1>2. ASSUME NEW n \in Node, NEW x,
               current_term' = [current_term EXCEPT ![n] = x]
        PROVE  current_term' = [current_term EXCEPT ![n] = current_term'[n]]
    BY <1>1, <1>2
  <1>3. ASSUME NEW n \in Node, ElectionTimeout(n)
        PROVE  /\ current_term' = [current_term EXCEPT ![n] = current_term'[n]]
               /\ \/ elected' = elected
                  \/ elected' = elected \cup {<<current_term'[n], n>>}
    BY <1>1, <1>3 DEF ElectionTimeout, StartElection
  <1>4. ASSUME NEW n \in Node, Crash(n) \/ CrashInHandler(n)
        PROVE  /\ current_term' = [current_term EXCEPT ![n] = current_term'[n]]
               /\ elected' = elected
    <2>1. PICK d : Die(n, d)
      BY <1>4 DEF Crash, CrashInHandler
    <2> QED BY <1>1, <2>1 DEF Die, historyVars
  <1>5. ASSUME NEW m \in vote_requests, HandleRequestVote(m)
        PROVE  \E n \in Node :
                 /\ current_term' = [current_term EXCEPT ![n] = current_term'[n]]
                 /\ elected' = elected
    <2>1. m.to \in Node
      BY DEF TypeOK, VoteRequest
    <2>2. \E x : current_term' = [current_term EXCEPT ![m.to] = x]
      BY <1>5 DEF HandleRequestVote, ApplyTerm
    <2>3. elected' = elected
      BY <1>5 DEF HandleRequestVote
    <2> QED BY <1>2, <2>1, <2>2, <2>3
  <1>6. ASSUME NEW m \in vote_responses, HandleVoteRefused(m)
        PROVE  \E n \in Node :
                 /\ current_term' = [current_term EXCEPT ![n] = current_term'[n]]
                 /\ elected' = elected
    <2>1. m.to \in Node
      BY DEF TypeOK, VoteResponse
    <2>2. \E x : current_term' = [current_term EXCEPT ![m.to] = x]
      BY <1>6 DEF HandleVoteRefused, ApplyTerm
    <2>3. elected' = elected
      BY <1>6 DEF HandleVoteRefused, historyVars
    <2> QED BY <1>2, <2>1, <2>2, <2>3
  <1>7. ASSUME NEW m \in vote_responses, HandleVoteGranted(m)
        PROVE  \E n \in Node :
                 /\ current_term' = [current_term EXCEPT ![n] = current_term'[n]]
                 /\ \/ elected' = elected
                    \/ elected' = elected \cup {<<current_term'[n], n>>}
    <2>1. m.to \in Node
      BY DEF TypeOK, VoteResponse
    <2>2. /\ current_term' = current_term
          /\ \/ elected' = elected
             \/ elected' = elected \cup {<<current_term[m.to], m.to>>}
      BY <1>7 DEF HandleVoteGranted
    <2> QED BY <1>1, <2>1, <2>2
  <1>8. ASSUME NEW m \in Node, NEW n \in Node,
               HandleAppendEntries(m, n) \/ HandleAppendResponse(m, n)
        PROVE  /\ current_term' = [current_term EXCEPT ![n] = current_term'[n]]
               /\ elected' = elected
    <2>1. \E x : current_term' = [current_term EXCEPT ![n] = x]
      BY <1>8 DEF HandleAppendEntries, HandleAppendResponse, ApplyTerm
    <2>2. elected' = elected
      BY <1>8 DEF HandleAppendEntries, HandleAppendResponse, historyVars
    <2> QED BY <1>2, <2>1, <2>2
  <1>9. ASSUME UNCHANGED <<current_term, elected>>
        PROVE  \E n \in Node :
                 /\ current_term' = [current_term EXCEPT ![n] = current_term'[n]]
                 /\ elected' = elected
    BY <1>1, <1>9, NodeAssumption
  <1>10. ASSUME NEW n \in Node,
                ElectionTimeoutIgnored(n) \/ Broadcast(n) \/ Restart(n)
         PROVE  UNCHANGED <<current_term, elected>>
    BY <1>10 DEF ElectionTimeoutIgnored, Broadcast, Restart, termVars, historyVars
  <1>11. ASSUME NEW n \in Node, NEW c \in Command,
                RefuseCommand(n, c) \/ CommitCommand(n, c)
         PROVE  UNCHANGED <<current_term, elected>>
    BY <1>11 DEF RefuseCommand, CommitCommand, termVars, historyVars
  <1>12. CASE UNCHANGED vars
    BY <1>9, <1>12 DEF vars
  <1> QED
    BY <1>3, <1>4, <1>5, <1>6, <1>7, <1>8, <1>9, <1>10, <1>11, <1>12 DEF Next

\* Every step of the cluster is a step of the abstract election.
LEMMA StepRefines ==
  ElectionInv /\ ElectionInv' /\ [Next]_vars
    => [Election!Next]_<<current_term, elected>>
  <1> SUFFICES ASSUME ElectionInv, ElectionInv', [Next]_vars
               PROVE  Election!Next
    OBVIOUS
  <1>1. PICK n \in Node :
          /\ current_term' = [current_term EXCEPT ![n] = current_term'[n]]
          /\ \/ elected' = elected
             \/ elected' = elected \cup {<<current_term'[n], n>>}
    BY OneNodeMoves DEF ElectionInv
  <1>2. current_term'[n] >= current_term[n]
    BY NextElection DEF KeepsVotes
  <1>3. ASSUME elected' = elected \cup {<<current_term'[n], n>>},
               NEW e \in elected, e[1] = current_term'[n]
        PROVE  elected' = elected
    <2>1. ElectionSafety'
      BY MajoritiesAgree, PTL
    <2>2. e \in Nat \X Node
      BY DEF ElectionInv, TypeOK
    <2>3. e[2] = n
      BY <1>3, <2>1 DEF ElectionSafety
    <2>4. e = <<current_term'[n], n>>
      BY <1>3, <2>2, <2>3
    <2> QED BY <1>3, <2>4
  <1>4. Election!Step(n)
    BY <1>1, <1>2, <1>3 DEF Election!Step
  <1> QED BY <1>4 DEF Election!Next

\* The cluster implements LeaderElection: terms only grow, and a term gets at
\* most one leader, for every value of the constants.
THEOREM RaftImplementsElection == Spec => ImplementsElection
  <1>1. Init => Election!Init
    BY DEF Init, Election!Init
  <1> QED
    BY <1>1, ElectionInvariant, StepRefines, PTL
    DEF Spec, ImplementsElection, Election!Spec
=============================================================================
