-------------------------------- MODULE Raft --------------------------------
(***************************************************************************)
(* A cluster of foros nodes: leader election and log replication as        *)
(* src/foros/src/raft/ implements them.                                    *)
(*                                                                         *)
(* All services, clients and timers of a node are in its default callback  *)
(* group, which is mutually exclusive, so a handler runs to its end before *)
(* the next one starts: one action is one whole handler.  A handler that   *)
(* the death of its process cuts short is CrashInHandler.                  *)
(*                                                                         *)
(* The two services are ROS 2 services, so a request reaches a service at  *)
(* most once and its response reaches the client that sent it at most      *)
(* once.  A request is not sent when service_is_ready() is false, and      *)
(* whatever is queued at a process dies with it; a response finds only     *)
(* the process that asked.                                                 *)
(***************************************************************************)
EXTENDS RaftStateMachine, Naturals, Sequences, FiniteSets, Functions

CONSTANTS
  Node,            \* the ids of the cluster, known to every node
  Command,         \* the commands the application submits, each at most once
  EmptyCommand,    \* the commands whose data has no bytes
  None,            \* id 0 of voted_for, nullptr, and the payload without bytes
  MaxElections,    \* bound: elections started in the whole cluster
  MaxCrashes,      \* bound: process deaths in the whole cluster
  MaxOutstanding   \* bound: append_entries calls in flight in the cluster

ASSUME NodeAssumption == IsFiniteSet(Node) /\ Node # {} /\ None \notin Node
ASSUME CommandAssumption == EmptyCommand \subseteq Command /\ None \notin Command
ASSUME BoundAssumption ==
  MaxElections \in Nat /\ MaxCrashes \in Nat /\ MaxOutstanding \in Nat

VARIABLES
  \* ContextStore, in leveldb: it survives a crash
  current_term, voted_for, voted, logs,
  \* Context, OtherNode and StateMachine, in memory
  state, vote_received, broadcast_received, next_index, pending_commit,
  \* the two services: calls in flight
  vote_requests, vote_responses, append_requests, append_responses,
  \* which process of a node is running; clients find only their own answers
  incarnation,
  \* the application: commands submitted, and what their promises were set to
  submitted, promise,
  \* history: votes ever granted, nodes ever elected, whose votes
  \* vote_received counts, entries whose commit was reported successful
  ballots, elected, tally, acknowledged

diskVars    == <<current_term, voted_for, voted, logs>>
termVars    == <<current_term, voted_for, voted, vote_received, tally>>
voteMsgs    == <<vote_requests, vote_responses>>
appendMsgs  == <<append_requests, append_responses>>
commitVars  == <<pending_commit, submitted, promise, acknowledged>>
historyVars == <<ballots, elected>>
vars == <<current_term, voted_for, voted, logs, state, vote_received,
          broadcast_received, next_index, pending_commit, vote_requests,
          vote_responses, append_requests, append_responses, incarnation,
          submitted, promise, ballots, elected, tally, acknowledged>>

-----------------------------------------------------------------------------
(* Logs.  ContextStore::logs_ is a vector, and the id of an entry is its    *)
(* position, counted from 0; a sequence counts from 1.                      *)

LogEntry == [term : Nat, command : Command]

\* logs_.size() <= id ? nullptr : logs_[id]
HasLog(lg, id) == id < Len(lg)
LogAt(lg, id) == lg[id + 1]

\* Mutant of push_log: the id is not compared with the size of the log.
push_logAnyId(lg, id, entry) == Append(lg, entry)

\* ContextStore::push_log refuses an id that is not the size of the log.
push_log(lg, id, entry) == IF id = Len(lg) THEN Append(lg, entry) ELSE lg

\* ContextStore::revert_log: drop the entries from id on.
revert_log(lg, id) == IF id < Len(lg) THEN SubSeq(lg, 1, id) ELSE lg

\* Mutant of Majority: half of the cluster is enough.
MajorityHalf == Cardinality(Node) \div 2

\* Context::set_cluster_size
Majority == (Cardinality(Node) \div 2) + 1

Up(n) == state[n] # "Down"

\* Context::is_valid_node: the other members of the cluster.
OtherNodes(n) == Node \ {n}

\* Mutant of update_term: the votes of the old term are still counted.
update_termKeepsCount(n, t) ==
  IF t > current_term[n]
  THEN [current_term |-> t, voted_for |-> None, voted |-> FALSE,
        vote_received |-> vote_received[n], tally |-> {},
        state |-> handle(state[n], "NewTermReceived")]
  ELSE [current_term |-> current_term[n], voted_for |-> voted_for[n],
        voted |-> voted[n], vote_received |-> vote_received[n],
        tally |-> tally[n], state |-> state[n]]

(***************************************************************************)
(* Context::update_term(t) called for a message: what it leaves in the     *)
(* store and in the state machine.  A term that is not newer changes       *)
(* nothing.                                                                *)
(***************************************************************************)
update_term(n, t) ==
  IF t > current_term[n]
  THEN [current_term |-> t, voted_for |-> None, voted |-> FALSE,
        vote_received |-> 0, tally |-> {},
        state |-> handle(state[n], "NewTermReceived")]
  ELSE [current_term |-> current_term[n], voted_for |-> voted_for[n],
        voted |-> voted[n], vote_received |-> vote_received[n],
        tally |-> tally[n], state |-> state[n]]

\* The term, the vote count and the state of n are those of u.
ApplyTerm(n, u) ==
  /\ current_term' = [current_term EXCEPT ![n] = u.current_term]
  /\ voted_for' = [voted_for EXCEPT ![n] = u.voted_for]
  /\ voted' = [voted EXCEPT ![n] = u.voted]
  /\ vote_received' = [vote_received EXCEPT ![n] = u.vote_received]
  /\ tally' = [tally EXCEPT ![n] = u.tally]

\* Mutant of EnterState: Leader::exit keeps the pending commit.
EnterStateNoCancel(n, s) ==
  /\ state' = [state EXCEPT ![n] = s]
  /\ UNCHANGED <<pending_commit, promise>>

(***************************************************************************)
(* The state machine of n moves to s.  Leader::exit cancels the pending    *)
(* commit: its promise is set to a failure.                                *)
(***************************************************************************)
EnterState(n, s) ==
  /\ state' = [state EXCEPT ![n] = s]
  /\ IF state[n] = "Leader" /\ s # "Leader" /\ pending_commit[n] # None
     THEN /\ pending_commit' = [pending_commit EXCEPT ![n] = None]
          /\ promise' = [promise EXCEPT ![pending_commit[n].command] =
                                   Append(@, FALSE)]
     ELSE UNCHANGED <<pending_commit, promise>>

-----------------------------------------------------------------------------
(* Elections                                                                *)

\* The last id a candidate advertises: 0 for an empty log too.
last_data_index(n) == IF logs[n] = <<>> THEN 0 ELSE Len(logs[n]) - 1

\* Context::check_elected: every OtherNode gets match_index = the last id.
ElectedIndex(n) == last_data_index(n) + 1

\* Elections started so far: a candidate votes for itself.
Elections == Cardinality({b \in ballots : b[1] = b[3]})

\* Mutant of IsElected: more than a majority is asked for.
IsElectedStrictly(votes) == votes > Majority

\* Start of check_elected, with votes votes counted.
IsElected(votes) == votes >= Majority

\* Context::vote_for_me in the term t, after increase_term and reset_vote.
vote_for_me(n, t) ==
  /\ voted_for' = [voted_for EXCEPT ![n] = n]
  /\ voted' = [voted EXCEPT ![n] = TRUE]
  /\ vote_received' = [vote_received EXCEPT ![n] = 1]
  /\ tally' = [tally EXCEPT ![n] = {n}]
  /\ ballots' = ballots \cup {<<n, t, n>>}

\* Context::request_vote: the requests to the nodes S, whose service is ready.
request_vote(n, t, S) ==
  {[from |-> n, to |-> m, term |-> t, client |-> incarnation[n],
    last_data_index |-> last_data_index(n)] : m \in S}

(***************************************************************************)
(* Candidate::start_election, on entry of Candidate and on every further   *)
(* timeout.  The request goes to any set of running nodes.  In a cluster   *)
(* of one node, check_elected succeeds inside request_vote.                *)
(***************************************************************************)
StartElection(n) ==
  LET t == current_term[n] + 1
      s == handle(state[n], "Timedout")
      won == IsElected(1)
  IN  /\ Elections < MaxElections
      /\ current_term' = [current_term EXCEPT ![n] = t]
      /\ vote_for_me(n, t)
      /\ \E S \in SUBSET {m \in OtherNodes(n) : Up(m)} :
           vote_requests' = vote_requests \cup request_vote(n, t, S)
      /\ state' = [state EXCEPT ![n] = IF won THEN handle(s, "Elected") ELSE s]
      /\ elected' = IF won THEN elected \cup {<<t, n>>} ELSE elected
      /\ UNCHANGED <<logs, broadcast_received, next_index, vote_responses,
                     appendMsgs, incarnation, commitVars>>

(***************************************************************************)
(* The callback of the periodic election timer: an append_entries request  *)
(* since the last tick spares the node an election.  A Leader stays on     *)
(* Timedout.                                                               *)
(***************************************************************************)
ElectionTimeoutIgnored(n) ==
  /\ Up(n) /\ broadcast_received[n]
  /\ broadcast_received' = [broadcast_received EXCEPT ![n] = FALSE]
  /\ UNCHANGED <<termVars, logs, state, next_index, voteMsgs, appendMsgs,
                 incarnation, commitVars, historyVars>>

ElectionTimeout(n) ==
  /\ state[n] \in {"Follower", "Candidate"} /\ ~broadcast_received[n]
  /\ StartElection(n)

\* Mutant of Grants: the flag voted is not looked at.
GrantsAgain(n, u, m) ==
  /\ m.term >= u.current_term
  /\ logs[n] = <<>> \/ Len(logs[n]) - 1 <= m.last_data_index

\* Context::vote: whether n, after update_term gave u, grants the request m.
Grants(n, u, m) ==
  /\ m.term >= u.current_term
  /\ ~u.voted
  /\ logs[n] = <<>> \/ Len(logs[n]) - 1 <= m.last_data_index

\* A response reaches the process that asked, if it still runs.
Answers(m) == Up(m.from) /\ incarnation[m.from] = m.client

\* Context::on_request_vote_requested
HandleRequestVote(m) ==
  LET n == m.to
      u == update_term(n, m.term)
      granted == Grants(n, u, m)
  IN  /\ ApplyTerm(n, IF granted
                      THEN [u EXCEPT !.voted_for = m.from, !.voted = TRUE]
                      ELSE u)
      /\ EnterState(n, u.state)
      /\ ballots' = IF granted THEN ballots \cup {<<n, m.term, m.from>>}
                               ELSE ballots
      /\ vote_requests' = vote_requests \ {m}
      /\ vote_responses' = IF Answers(m)
           THEN vote_responses \cup
                  {[from |-> n, to |-> m.from, round |-> m.term,
                    term |-> u.current_term, vote_granted |-> granted]}
           ELSE vote_responses
      /\ UNCHANGED <<logs, broadcast_received, next_index, appendMsgs,
                     incarnation, submitted, acknowledged, elected>>

\* Mutant of CountsVote: votes of earlier terms are counted too.
CountsVoteOfAnyTerm(n, m) == m.term <= current_term[n] /\ m.vote_granted

\* The early returns of on_request_vote_response leave only these votes.
CountsVote(n, m) == m.term = current_term[n] /\ m.vote_granted

\* Context::on_request_vote_response, when the vote is not counted.
HandleVoteRefused(m) ==
  LET n == m.to
      u == update_term(n, m.term)
  IN  /\ ~CountsVote(n, m)
      /\ ApplyTerm(n, u)
      /\ EnterState(n, u.state)
      /\ vote_responses' = vote_responses \ {m}
      /\ UNCHANGED <<logs, broadcast_received, next_index, vote_requests,
                     appendMsgs, incarnation, submitted, acknowledged,
                     historyVars>>

(***************************************************************************)
(* Context::on_request_vote_response, when it is counted.  check_elected   *)
(* sets the indices of all other nodes whenever there are enough votes,    *)
(* also for the vote that arrives after the election is decided; only a    *)
(* Candidate reacts to Elected.                                            *)
(***************************************************************************)
HandleVoteGranted(m) ==
  LET n == m.to
      won == IsElected(vote_received[n] + 1)
      s == IF won THEN handle(state[n], "Elected") ELSE state[n]
  IN  /\ CountsVote(n, m)
      /\ vote_received' = [vote_received EXCEPT ![n] = @ + 1]
      /\ tally' = [tally EXCEPT ![n] = @ \cup {m.from}]
      /\ next_index' = IF won
           THEN [next_index EXCEPT ![n] = [f \in Node |-> ElectedIndex(n)]]
           ELSE next_index
      /\ state' = [state EXCEPT ![n] = s]
      /\ elected' = IF s = "Leader" /\ state[n] # "Leader"
           THEN elected \cup {<<current_term[n], n>>} ELSE elected
      /\ vote_responses' = vote_responses \ {m}
      /\ UNCHANGED <<current_term, voted_for, voted, logs, broadcast_received,
                     vote_requests, appendMsgs, incarnation, commitVars,
                     ballots>>

-----------------------------------------------------------------------------
(* Replication                                                              *)

\* PendingCommit of n, unless get_pending_commit has to drop it.
PendingIsValid(n) ==
  pending_commit[n] # None /\ pending_commit[n].id = Len(logs[n])

\* Context::on_log_get_request: the log of n with its pending entry at the end.
OfferedLog(n) ==
  IF PendingIsValid(n)
  THEN Append(logs[n], [term |-> pending_commit[n].term,
                        command |-> pending_commit[n].command])
  ELSE logs[n]

\* Command::data(), with None for no bytes.
Data(c) == IF c \in EmptyCommand THEN None ELSE c

\* Mutant of SentEntry: the newest entry is sent instead of the next one.
SentEntryNewest(lg, i) == lg[Len(lg)]

\* The entry for a node whose next_index is i.
SentEntry(lg, i) == LogAt(lg, i)

\* Mutant of RequestTerm: the term of the entry does not replace the leader's.
RequestTermOfLeader(n, lg, i) == current_term[n]

\* request->term: with an entry to send, the term of that entry.
RequestTerm(n, lg, i) ==
  IF HasLog(lg, i) THEN LogAt(lg, i).term ELSE current_term[n]

(***************************************************************************)
(* OtherNode::broadcast: the request n sends to f.  Without an entry the   *)
(* request is a heartbeat, and leader_commit keeps its default 0.          *)
(***************************************************************************)
AppendEntriesRequest(n, f) ==
  LET lg == OfferedLog(n)
      i == next_index[n][f]
      hasPrev == i > 0 /\ HasLog(lg, i - 1)
  IN  [term |-> RequestTerm(n, lg, i),
       client |-> incarnation[n],
       entries |-> IF HasLog(lg, i) THEN Data(SentEntry(lg, i).command) ELSE None,
       leader_commit |-> IF HasLog(lg, i) THEN i ELSE 0,
       prev_log_index |-> IF hasPrev THEN i - 1 ELSE 0,
       prev_log_term |-> IF hasPrev THEN LogAt(lg, i - 1).term ELSE 0]

\* append_entries calls in flight, requests and responses.
Outstanding ==
  SumFunction([m \in Node |->
    SumFunction([n \in Node |-> Len(append_requests[m][n]) +
                                Len(append_responses[m][n])])])

(***************************************************************************)
(* Leader::on_broadcast_timedout, Context::broadcast.  get_pending_commit  *)
(* forgets a pending commit whose id is no longer the next one.  Any set   *)
(* of running nodes gets its request.                                      *)
(***************************************************************************)
Broadcast(n) ==
  /\ state[n] = "Leader"
  /\ \E S \in SUBSET {f \in OtherNodes(n) : Up(f)} :
       /\ Outstanding + Cardinality(S) <= MaxOutstanding
       /\ append_requests' = [append_requests EXCEPT ![n] =
            [f \in Node |-> IF f \in S
                            THEN Append(@[f], AppendEntriesRequest(n, f))
                            ELSE @[f]]]
  /\ pending_commit' = [pending_commit EXCEPT ![n] =
                          IF PendingIsValid(n) THEN @ ELSE None]
  /\ UNCHANGED <<termVars, logs, state, broadcast_received, next_index,
                 voteMsgs, append_responses, incarnation, submitted, promise,
                 acknowledged, historyVars>>

(***************************************************************************)
(* Context::request_local_commit on the log lg: the log it leaves and what *)
(* it returns.  An entry with the same id and term at the end of the log   *)
(* is taken for the one requested.                                         *)
(***************************************************************************)
request_local_commit(lg, m) ==
  LET kept == revert_log(lg, m.leader_commit)
  IN  IF lg # <<>> /\ Len(lg) - 1 = m.leader_commit /\ lg[Len(lg)].term = m.term
      THEN [logs |-> lg, success |-> TRUE]
      ELSE [logs |-> push_log(kept, m.leader_commit,
                              [term |-> m.term, command |-> m.entries]),
            success |-> m.leader_commit = Len(kept)]

\* Mutant of PrevMatches: the term of the preceding entry is not compared.
PrevMatchesAlways(lg, m) == TRUE

\* The entry before the new one is the one the leader has there.
PrevMatches(lg, m) == LogAt(lg, m.prev_log_index).term = m.prev_log_term

(***************************************************************************)
(* The part of on_append_entries_requested after the term check: the first *)
(* entry needs no predecessor, and a predecessor of another term is rolled *)
(* back (request_local_rollback).                                          *)
(***************************************************************************)
AppendEntries(lg, m) ==
  IF m.entries = None THEN [logs |-> lg, success |-> FALSE]
  ELSE IF m.leader_commit = 0 THEN request_local_commit(lg, m)
  ELSE IF ~HasLog(lg, m.prev_log_index) THEN [logs |-> lg, success |-> FALSE]
  ELSE IF PrevMatches(lg, m) THEN request_local_commit(lg, m)
  ELSE [logs |-> revert_log(lg, m.prev_log_index), success |-> FALSE]

(***************************************************************************)
(* Context::on_append_entries_requested at n for the oldest request of l.  *)
(* A request with an old term is answered but not rejected: its entry is   *)
(* still applied.  The answer carries the term n had before the request.   *)
(***************************************************************************)
HandleAppendEntries(l, n) ==
  LET m == Head(append_requests[l][n])
      current == m.term >= current_term[n]
      u == update_term(n, m.term)
      result == AppendEntries(logs[n], m)
  IN  /\ append_requests[l][n] # <<>>
      /\ ApplyTerm(n, u)
      /\ EnterState(n, IF current THEN handle(u.state, "LeaderDiscovered")
                                  ELSE u.state)
      /\ broadcast_received' = [broadcast_received EXCEPT ![n] = @ \/ current]
      /\ logs' = [logs EXCEPT ![n] = result.logs]
      /\ append_requests' = [append_requests EXCEPT ![l][n] = Tail(@)]
      /\ append_responses' =
           IF Up(l) /\ incarnation[l] = m.client
           THEN [append_responses EXCEPT ![n][l] =
                   Append(@, [leader_commit |-> m.leader_commit,
                              term |-> current_term[n],
                              success |-> result.success])]
           ELSE append_responses
      /\ UNCHANGED <<next_index, voteMsgs, incarnation, submitted,
                     acknowledged, historyVars>>

-----------------------------------------------------------------------------
(* Commits                                                                  *)

(***************************************************************************)
(* Context::complete_commit with result true: the entry is pushed, whether *)
(* push_log refuses it or not, and the promise is set.                     *)
(***************************************************************************)
CompleteCommit(n, id, entry) ==
  /\ logs' = [logs EXCEPT ![n] = push_log(@, id, entry)]
  /\ promise' = [promise EXCEPT ![entry.command] = Append(@, TRUE)]
  /\ acknowledged' = acknowledged \cup
                       {[id |-> id, term |-> entry.term,
                         command |-> entry.command]}

(***************************************************************************)
(* The two conditions at the start of commit_command and the second half   *)
(* of set_pending_commit: only a Leader without a pending commit for the   *)
(* next id takes the command.                                              *)
(***************************************************************************)
TakesCommand(n) == state[n] = "Leader" /\ ~PendingIsValid(n)

\* Context::commit_command on a node that does not take the command.
RefuseCommand(n, c) ==
  /\ Up(n) /\ c \notin submitted /\ ~TakesCommand(n)
  /\ submitted' = submitted \cup {c}
  /\ promise' = [promise EXCEPT ![c] = Append(@, FALSE)]
  /\ UNCHANGED <<termVars, logs, state, broadcast_received, next_index,
                 pending_commit, voteMsgs, appendMsgs, incarnation,
                 acknowledged, historyVars>>

\* Context::commit_command on a Leader: alone it commits at once.
CommitCommand(n, c) ==
  /\ c \notin submitted /\ TakesCommand(n)
  /\ submitted' = submitted \cup {c}
  /\ IF Cardinality(Node) <= 1
     THEN /\ CompleteCommit(n, Len(logs[n]),
                            [term |-> current_term[n], command |-> c])
          /\ UNCHANGED pending_commit
     ELSE /\ pending_commit' = [pending_commit EXCEPT ![n] =
               [id |-> Len(logs[n]), term |-> current_term[n], command |-> c,
                result_map |-> [f \in Node |-> None]]]
          /\ UNCHANGED <<logs, promise, acknowledged>>
  /\ UNCHANGED <<termVars, state, broadcast_received, next_index, voteMsgs,
                 appendMsgs, incarnation, historyVars>>

\* The answer r is about the pending commit of n.
AnswersPending(n, r) ==
  /\ pending_commit[n] # None
  /\ pending_commit[n].id = r.leader_commit
  /\ pending_commit[n].term = r.term

\* handle_pending_commit_response counts the answers equal to this one.
EnoughAnswers(result_map, success) ==
  1 + Cardinality({f \in Node : result_map[f] = success}) >= Majority

\* Mutant of HandlePendingCommit: a completed commit stays pending.
HandlePendingCommitKept(f, n, r) ==
  LET p == pending_commit[n]
      result_map == [p.result_map EXCEPT ![f] = r.success]
  IN  /\ AnswersPending(n, r)
      /\ pending_commit' = [pending_commit EXCEPT ![n].result_map = result_map]
      /\ IF EnoughAnswers(result_map, r.success)
         THEN CompleteCommit(n, p.id, [term |-> p.term, command |-> p.command])
         ELSE UNCHANGED <<logs, promise, acknowledged>>

\* Context::handle_pending_commit_response for the answer r of f.
HandlePendingCommit(f, n, r) ==
  LET p == pending_commit[n]
      result_map == [p.result_map EXCEPT ![f] = r.success]
  IN  /\ AnswersPending(n, r)
      /\ IF EnoughAnswers(result_map, r.success)
         THEN /\ pending_commit' = [pending_commit EXCEPT ![n] = None]
              /\ CompleteCommit(n, p.id, [term |-> p.term, command |-> p.command])
         ELSE /\ pending_commit' =
                   [pending_commit EXCEPT ![n].result_map = result_map]
              /\ UNCHANGED <<logs, promise, acknowledged>>

\* Mutant of NextIndex: the index is decremented without a look at 0.
NextIndexUnchecked(i, r) == IF r.success THEN r.leader_commit + 1 ELSE i - 1

\* The response callback of send_append_entries: the next index to send.
NextIndex(i, r) ==
  IF r.success THEN r.leader_commit + 1 ELSE IF i > 0 THEN i - 1 ELSE 0

(***************************************************************************)
(* The response callback of OtherNode::send_append_entries, followed by    *)
(* Context::on_broadcast_response, at n for the oldest answer of f.        *)
(***************************************************************************)
HandleAppendResponse(f, n) ==
  LET r == Head(append_responses[f][n])
      u == update_term(n, r.term)
  IN  /\ append_responses[f][n] # <<>>
      /\ append_responses' = [append_responses EXCEPT ![f][n] = Tail(@)]
      /\ next_index' = [next_index EXCEPT ![n][f] = NextIndex(@, r)]
      /\ ApplyTerm(n, u)
      /\ \/ /\ r.term > current_term[n] \/ ~AnswersPending(n, r)
            /\ EnterState(n, u.state)
            /\ UNCHANGED <<logs, acknowledged>>
         \/ /\ r.term <= current_term[n]
            /\ HandlePendingCommit(f, n, r)
            /\ UNCHANGED state
      /\ UNCHANGED <<broadcast_received, voteMsgs, append_requests,
                     incarnation, submitted, historyVars>>

-----------------------------------------------------------------------------
(* Crashes.  Every value of ContextStore is a leveldb Put of its own, and   *)
(* the process may die between two of them.  A Put survives the process:    *)
(* it is in the log file of leveldb when Put returns.                       *)

Disk(t, for, v, lg) ==
  [current_term |-> t, voted_for |-> for, voted |-> v, logs |-> lg]

\* Mutant of UpdateTermDisks: voted_for and voted are reset before the new
\* term is stored.
UpdateTermDisksTermLast(n, t) ==
  {Disk(current_term[n], None, voted[n], logs[n]),
   Disk(current_term[n], None, FALSE, logs[n]), Disk(t, None, FALSE, logs[n])}

\* The Puts of update_term and reset_vote: current_term, voted_for, voted.
UpdateTermDisks(n, t) ==
  {Disk(t, voted_for[n], voted[n], logs[n]), Disk(t, None, voted[n], logs[n]),
   Disk(t, None, FALSE, logs[n])}

\* The Puts of a vote for c: voted_for, then voted.  The second completes it.
VoteDisks(n, t, c) == {Disk(t, c, FALSE, logs[n])}

\* Terms of the append_entries calls waiting at n.
AppendTerms(calls, n) ==
  UNION {{calls[m][n][i].term : i \in DOMAIN calls[m][n]} : m \in Node}

\* Terms that a message waiting at n makes it adopt.
NewerTerms(n) ==
  {t \in {m.term : m \in {v \in vote_requests \cup vote_responses : v.to = n}}
           \cup AppendTerms(append_requests, n)
           \cup AppendTerms(append_responses, n) : t > current_term[n]}

\* What the store of n may hold when n dies while it starts an election.
ElectionDisks(n) ==
  LET t == current_term[n] + 1
  IN  IF state[n] \in {"Follower", "Candidate"} /\ Elections < MaxElections
      THEN UpdateTermDisks(n, t) \cup VoteDisks(n, t, n) ELSE {}

\* ... while it handles a vote request that it would grant.
GrantDisks(n) ==
  UNION {VoteDisks(n, update_term(n, m.term).current_term, m.from) :
           m \in {v \in vote_requests :
                    v.to = n /\ Grants(n, update_term(n, v.term), v)}}

(***************************************************************************)
(* ... while it handles an append_entries request.  request_local_commit   *)
(* first reverts, then pushes.  push_log writes the term and the data of   *)
(* the entry above the stored size, and then the size; before the size     *)
(* the entry does not exist, after it the entry is complete.               *)
(***************************************************************************)
AppendDisks(n) ==
  UNION {LET m == Head(append_requests[l][n])
             u == update_term(n, m.term)
             after == AppendEntries(logs[n], m).logs
             cut == IF after # logs[n] /\ Len(after) > m.leader_commit
                    THEN revert_log(logs[n], m.leader_commit) ELSE after
         IN  {Disk(u.current_term, u.voted_for, u.voted, lg) : lg \in {cut, after}} :
           l \in {k \in Node : append_requests[k][n] # <<>>}}

\* Process deaths so far, in the whole cluster.
Crashes == SumFunction(incarnation)

\* n dies and leaves the store d: what it had in memory or in its queues is lost.
Die(n, d) ==
  /\ Up(n) /\ Crashes < MaxCrashes
  /\ current_term' = [current_term EXCEPT ![n] = d.current_term]
  /\ voted_for' = [voted_for EXCEPT ![n] = d.voted_for]
  /\ voted' = [voted EXCEPT ![n] = d.voted]
  /\ logs' = [logs EXCEPT ![n] = d.logs]
  /\ state' = [state EXCEPT ![n] = "Down"]
  /\ incarnation' = [incarnation EXCEPT ![n] = @ + 1]
  /\ vote_received' = [vote_received EXCEPT ![n] = 0]
  /\ tally' = [tally EXCEPT ![n] = {}]
  /\ broadcast_received' = [broadcast_received EXCEPT ![n] = FALSE]
  /\ next_index' = [next_index EXCEPT ![n] = [f \in Node |-> 0]]
  /\ pending_commit' = [pending_commit EXCEPT ![n] = None]
  /\ vote_requests' = {m \in vote_requests : m.to # n}
  /\ vote_responses' = {m \in vote_responses : m.to # n}
  /\ append_requests' = [l \in Node |-> [append_requests[l] EXCEPT ![n] = <<>>]]
  /\ append_responses' = [f \in Node |-> [append_responses[f] EXCEPT ![n] = <<>>]]
  /\ UNCHANGED <<submitted, promise, acknowledged, historyVars>>

\* Between two handlers.
Crash(n) == Die(n, Disk(current_term[n], voted_for[n], voted[n], logs[n]))

\* What the store of n may hold when n dies while it handles something.
HandlerDisks(n) ==
  ElectionDisks(n) \cup GrantDisks(n) \cup AppendDisks(n)
    \cup UNION {UpdateTermDisks(n, t) : t \in NewerTerms(n)}

\* In the middle of a handler, or at its end before its answer is sent.
CrashInHandler(n) == \E d \in HandlerDisks(n) : Die(n, d)

\* OtherNode::OtherNode: next_index_ starts at the size of the log.
OtherNodesStart(n) == [f \in Node |-> Len(logs[n])]

\* Mutant of Restart: the last entry is not loaded.
RestartShortLog(n) ==
  /\ state[n] = "Down"
  /\ state' = [state EXCEPT ![n] = handle("Standby", "Started")]
  /\ logs' = [logs EXCEPT ![n] = IF @ = <<>> THEN @ ELSE SubSeq(@, 1, Len(@) - 1)]
  /\ next_index' = [next_index EXCEPT ![n] = [f \in Node |-> Len(logs'[n])]]
  /\ UNCHANGED <<termVars, broadcast_received, voteMsgs, appendMsgs,
                 incarnation, commitVars, historyVars>>

(***************************************************************************)
(* A new process for n: ContextStore loads the store, every OtherNode      *)
(* starts at the size of the log, and ClusterNodeImpl raises Started.      *)
(***************************************************************************)
Restart(n) ==
  /\ state[n] = "Down"
  /\ state' = [state EXCEPT ![n] = handle("Standby", "Started")]
  /\ next_index' = [next_index EXCEPT ![n] = OtherNodesStart(n)]
  /\ UNCHANGED <<termVars, logs, broadcast_received, voteMsgs, appendMsgs,
                 incarnation, commitVars, historyVars>>

-----------------------------------------------------------------------------
\* All nodes have started with an empty store.
Init ==
  /\ current_term = [n \in Node |-> 0]
  /\ voted_for = [n \in Node |-> None]
  /\ voted = [n \in Node |-> FALSE]
  /\ logs = [n \in Node |-> <<>>]
  /\ state = [n \in Node |-> handle("Standby", "Started")]
  /\ vote_received = [n \in Node |-> 0]
  /\ broadcast_received = [n \in Node |-> FALSE]
  /\ next_index = [n \in Node |-> [f \in Node |-> 0]]
  /\ pending_commit = [n \in Node |-> None]
  /\ vote_requests = {} /\ vote_responses = {}
  /\ append_requests = [l \in Node |-> [f \in Node |-> <<>>]]
  /\ append_responses = [f \in Node |-> [l \in Node |-> <<>>]]
  /\ incarnation = [n \in Node |-> 0]
  /\ submitted = {}
  /\ promise = [c \in Command |-> <<>>]
  /\ ballots = {} /\ elected = {} /\ acknowledged = {}
  /\ tally = [n \in Node |-> {}]

Next ==
  \/ \E n \in Node :
       \/ ElectionTimeoutIgnored(n) \/ ElectionTimeout(n) \/ Broadcast(n)
       \/ Crash(n) \/ CrashInHandler(n) \/ Restart(n)
  \/ \E m \in vote_requests : HandleRequestVote(m)
  \/ \E m \in vote_responses : HandleVoteRefused(m) \/ HandleVoteGranted(m)
  \/ \E m, n \in Node : HandleAppendEntries(m, n) \/ HandleAppendResponse(m, n)
  \/ \E n \in Node, c \in Command : RefuseCommand(n, c) \/ CommitCommand(n, c)

Spec == Init /\ [][Next]_vars

\* The election timer of a running process is periodic: it fires again and again.
TimerFairness ==
  \A n \in Node : WF_vars(ElectionTimeout(n)) /\ WF_vars(ElectionTimeoutIgnored(n))

FairSpec == Spec /\ TimerFairness

-----------------------------------------------------------------------------
(* Properties                                                               *)

VoteRequest ==
  [from : Node, to : Node, term : Nat, client : Nat, last_data_index : Nat]
VoteResponse ==
  [from : Node, to : Node, round : Nat, term : Nat, vote_granted : BOOLEAN]
AppendRequest ==
  [term : Nat, client : Nat, entries : Command \cup {None},
   leader_commit : Nat, prev_log_index : Nat, prev_log_term : Nat]
AppendResponse == [leader_commit : Nat, term : Nat, success : BOOLEAN]
PendingCommit ==
  [id : Nat, term : Nat, command : Command,
   result_map : [Node -> BOOLEAN \cup {None}]]

\* nullptr is no PendingCommit.
ASSUME PendingAssumption == None \notin PendingCommit

\* Every variable has the type the code declares for it.
TypeOK ==
  /\ current_term \in [Node -> Nat]
  /\ voted_for \in [Node -> Node \cup {None}]
  /\ voted \in [Node -> BOOLEAN]
  /\ logs \in [Node -> Seq(LogEntry)]
  /\ state \in [Node -> StateType \cup {"Down"}]
  /\ vote_received \in [Node -> Nat]
  /\ broadcast_received \in [Node -> BOOLEAN]
  /\ next_index \in [Node -> [Node -> Nat]]
  /\ pending_commit \in [Node -> PendingCommit \cup {None}]
  /\ vote_requests \in SUBSET VoteRequest
  /\ vote_responses \in SUBSET VoteResponse
  /\ append_requests \in [Node -> [Node -> Seq(AppendRequest)]]
  /\ append_responses \in [Node -> [Node -> Seq(AppendResponse)]]
  /\ incarnation \in [Node -> Nat]
  /\ submitted \in SUBSET Command
  /\ promise \in [Command -> Seq(BOOLEAN)]
  /\ ballots \in SUBSET (Node \X Nat \X Node)
  /\ elected \in SUBSET (Nat \X Node)
  /\ tally \in [Node -> SUBSET Node]
  /\ acknowledged \in SUBSET [id : Nat, term : Nat, command : Command]

\* The nodes that have the entry e at its id.
Holders(e) ==
  {n \in Node : e.id < Len(logs[n]) /\
                LogAt(logs[n], e.id) = [term |-> e.term, command |-> e.command]}

\* No two nodes are ever elected in the same term.
ElectionSafety ==
  \A e1, e2 \in elected : e1[1] = e2[1] => e1[2] = e2[2]

\* A node grants at most one vote per term, whatever crashes it goes through.
OneBallotPerTerm ==
  \A b1, b2 \in ballots : b1[1] = b2[1] /\ b1[2] = b2[2] => b1[3] = b2[3]

\* The counter vote_received counts each voter once, and only the votes that
\* were granted to the node in its current term.
VotesCountedOnce ==
  \A n \in Node :
    /\ vote_received[n] = Cardinality(tally[n])
    /\ \A v \in tally[n] : <<v, current_term[n], n>> \in ballots

\* A vote that was cast stands for the rest of its term, and no term comes back:
\* also across a crash between the Puts of current_term, voted_for and voted.
KeepsVotes ==
  \A n \in Node :
    /\ current_term'[n] >= current_term[n]
    /\ current_term'[n] = current_term[n] /\ voted[n]
         => voted'[n] /\ voted_for'[n] = voted_for[n]

\* KeepsVotes, of every step.
VotesAreFinal == [][KeepsVotes]_vars

\* A Leader leads in the term it was elected in, and only a Leader has a
\* pending commit, made in that term: Leader::exit cancels it in time.
LeadersHoldTheirTerm ==
  \A n \in Node :
    /\ state[n] = "Leader" => <<current_term[n], n>> \in elected
    /\ pending_commit[n] # None =>
         state[n] = "Leader" /\ pending_commit[n].term = current_term[n]

\* The terms of a log never decrease with the id, in spite of entries that
\* arrive late and of rollbacks, and none exceeds the term of the node.
LogTermsAscend ==
  \A n \in Node : \A i \in DOMAIN logs[n] :
    /\ logs[n][i].term <= current_term[n]
    /\ i > 1 => logs[n][i - 1].term <= logs[n][i].term

\* A command has one id and one term in all logs, and is in a log only under
\* a term that has a leader: no entry is moved, repeated or made up.
OneSlotPerCommand ==
  \A n1, n2 \in Node : \A i \in DOMAIN logs[n1], j \in DOMAIN logs[n2] :
    /\ logs[n1][i].command = logs[n2][j].command
         => i = j /\ logs[n1][i].term = logs[n2][j].term
    /\ \E e \in elected : e[1] = logs[n1][i].term

\* As long as there has been one leader only, the log of every node is a
\* prefix of the log of that leader with its pending entry: refused, repeated
\* and lost requests, heartbeats that move next_index back and crashes of the
\* followers leave no gap and no foreign entry.
FollowersTrailLeader ==
  \A l, f \in Node :
    state[l] = "Leader" /\ elected = {<<current_term[l], l>>} =>
      /\ Len(logs[f]) <= Len(OfferedLog(l))
      /\ \A i \in DOMAIN logs[f] : logs[f][i] = OfferedLog(l)[i]

\* A promise is set at most once: a second set_value would throw.
PromiseSetOnce == \A c \in Command : Len(promise[c]) <= 1

\* The cluster implements the abstract election: a step of a node never goes
\* back to an older term and never elects a second leader for a term.
Election == INSTANCE LeaderElection WITH term <- current_term, leaders <- elected
ImplementsElection == Election!Spec

\* A cluster of one node loses nothing: a command that was reported as
\* committed is in the log under its id, also after crashes and restarts.
AloneIsDurable ==
  Cardinality(Node) = 1 =>
    \A e \in acknowledged : Cardinality(Holders(e)) = 1

\* A cluster of one node does not wait for anyone: a process that keeps
\* running becomes leader.
AloneLeads ==
  Cardinality(Node) = 1 =>
    \A n \in Node : Up(n) ~> (state[n] = "Leader" \/ ~Up(n))

-----------------------------------------------------------------------------
(* Claims of the documentation that the code does not meet                  *)

\* When the response of commit_command reports success, a majority of the
\* nodes has the entry: "This API need to make a consensus in the cluster."
CommitHasMajority ==
  [][\A e \in acknowledged' \ acknowledged :
       Cardinality(Holders(e)') >= Majority]_vars

\* A command that was committed, and that a majority has, stays on a majority:
\* the cluster "can tolerate fail-stop failures equal to the cluster size minus
\* the quorum".
CommitIsDurable ==
  [][\A e \in acknowledged :
       Cardinality(Holders(e)) >= Majority =>
         Cardinality(Holders(e)') >= Majority]_vars
=============================================================================
