---------------------------- MODULE RaftLogProofs ----------------------------
(***************************************************************************)
(* The logs of Raft.  An entry is made once, by commit_command at a leader *)
(* for the next id of its log, and from there it is only copied: into the  *)
(* pending commit, into requests, into logs, always under its id and term. *)
(* Slots is the set of all these copies.                                   *)
(***************************************************************************)
EXTENDS RaftCommitProofs

\* The append_entries requests of l that wait at f.
Waiting(l, f) == {append_requests[l][f][i] : i \in DOMAIN append_requests[l][f]}

\* The entry of a request, and the one of a pending commit.
Entry(m) == [term |-> m.term, command |-> m.entries]
PendingEntry(n) == [term |-> pending_commit[n].term,
                    command |-> pending_commit[n].command]

\* An entry with its id; the copies of entries that n is responsible for.
Slot(id, e) == [id |-> id, term |-> e.term, command |-> e.command]
LogSlots(n) == {Slot(i - 1, logs[n][i]) : i \in DOMAIN logs[n]}
PendingSlots(n) ==
  IF pending_commit[n] = None THEN {}
  ELSE {Slot(pending_commit[n].id, PendingEntry(n))}
RequestSlots(l, f) ==
  {Slot(m.leader_commit, Entry(m)) : m \in {r \in Waiting(l, f) : r.entries # None}}
SlotsOf(n) ==
  LogSlots(n) \cup PendingSlots(n) \cup UNION {RequestSlots(n, f) : f \in Node}
Slots == UNION {SlotsOf(n) : n \in Node}

\* All copies of a command are equal.
SlotsAgree == \A a, b \in Slots : a.command = b.command => a = b

\* What is copied was submitted, and in a term that has a leader.
SlotsAreSubmitted ==
  \A a \in Slots : a.command \in submitted /\ \E e \in elected : e[1] = a.term

\* A request names the id before its entry, and the term there is not newer.
RequestsAscend ==
  \A l, f \in Node : \A m \in Waiting(l, f) :
    m.entries # None /\ m.leader_commit > 0 =>
      m.prev_log_index = m.leader_commit - 1 /\ m.prev_log_term <= m.term

\* Requests come from nodes that were elected, and never from the node itself.
SendersWereElected ==
  \A l, f \in Node : append_requests[l][f] # <<>> =>
    l # f /\ \E e \in elected : e[2] = l

\* The only leader there has been offers what is in the requests.
OnlyLeader(l) == state[l] = "Leader" /\ elected = {<<current_term[l], l>>}
RequestsTrailLeader ==
  \A l \in Node : OnlyLeader(l) =>
    \A k, f \in Node : \A m \in Waiting(k, f) : m.entries # None =>
      /\ m.leader_commit < Len(OfferedLog(l))
      /\ OfferedLog(l)[m.leader_commit + 1] = Entry(m)

\* A cluster of one node has nothing pending, and keeps what it acknowledged.
AloneKeepsAll ==
  Cardinality(Node) = 1 =>
    \A n \in Node : /\ pending_commit[n] = None
                    /\ \A e \in acknowledged : n \in Holders(e)

\* The inductive invariant of the logs, on top of CommitInv.
LogInv ==
  /\ LogTermsAscend /\ RequestsAscend
  /\ SlotsAgree /\ SlotsAreSubmitted
  /\ SendersWereElected
  /\ FollowersTrailLeader /\ RequestsTrailLeader
  /\ AloneKeepsAll

-----------------------------------------------------------------------------
(* What happens to a log                                                    *)

\* r is a prefix of lg.
Cut(r, lg) == Len(r) <= Len(lg) /\ \A i \in 1..Len(r) : r[i] = lg[i]

\* r is lg up to id, and then e.
Put(r, lg, id, e) ==
  /\ id <= Len(lg) /\ Len(r) = id + 1
  /\ r[id + 1] = e /\ \A i \in 1..id : r[i] = lg[i]

\* r is what the request m leaves of lg.
Applied(r, lg, m) ==
  \/ Cut(r, lg)
  \/ /\ m.entries # None /\ Put(r, lg, m.leader_commit, Entry(m))
     /\ m.leader_commit > 0 => HasLog(lg, m.prev_log_index) /\ PrevMatches(lg, m)

\* revert_log cuts.
LEMMA RevertCuts ==
  ASSUME NEW lg \in Seq(LogEntry), NEW id \in Nat
  PROVE  /\ Cut(revert_log(lg, id), lg)
         /\ Len(revert_log(lg, id)) <= id
         /\ id <= Len(lg) => Len(revert_log(lg, id)) = id
  <1>1. CASE id < Len(lg)
    <2>1. revert_log(lg, id) = SubSeq(lg, 1, id)
      BY <1>1 DEF revert_log
    <2>2. /\ Len(SubSeq(lg, 1, id)) = id
          /\ \A i \in 1..id : SubSeq(lg, 1, id)[i] = lg[i]
      BY <1>1
    <2> QED BY <1>1, <2>1, <2>2 DEF Cut
  <1>2. CASE ~(id < Len(lg))
    <2>1. revert_log(lg, id) = lg
      BY <1>2 DEF revert_log
    <2> QED BY <1>2, <2>1 DEF Cut
  <1> QED BY <1>1, <1>2

\* request_local_commit cuts, or puts the entry at its id.
LEMMA LocalCommitApplies ==
  ASSUME NEW lg \in Seq(LogEntry), NEW m \in AppendRequest, m.entries # None
  PROVE  LET r == request_local_commit(lg, m).logs
         IN  Cut(r, lg) \/ Put(r, lg, m.leader_commit, Entry(m))
  <1> DEFINE kept == revert_log(lg, m.leader_commit)
             r == request_local_commit(lg, m).logs
  <1>1. m.leader_commit \in Nat /\ Entry(m) \in LogEntry
    BY DEF AppendRequest, Entry, LogEntry
  <1>2. /\ Cut(kept, lg) /\ Len(kept) <= m.leader_commit
        /\ m.leader_commit <= Len(lg) => Len(kept) = m.leader_commit
    BY <1>1, RevertCuts
  <1>3. kept \in Seq(LogEntry)
    BY <1>1, LogOperations
  <1>4. r = lg \/ r = push_log(kept, m.leader_commit, Entry(m))
    BY DEF request_local_commit, Entry
  <1> HIDE DEF kept, r
  <1>5. r = lg => Cut(r, lg)
    BY DEF Cut
  <1>6. ASSUME r = Append(kept, Entry(m)), Len(kept) = m.leader_commit
        PROVE  Put(r, lg, m.leader_commit, Entry(m))
    <2>1. Len(r) = m.leader_commit + 1 /\ r[m.leader_commit + 1] = Entry(m)
      BY <1>1, <1>3, <1>6
    <2>2. \A i \in 1..m.leader_commit : r[i] = kept[i]
      BY <1>1, <1>3, <1>6
    <2>3. m.leader_commit <= Len(lg)
      BY <1>2, <1>6 DEF Cut
    <2>4. \A i \in 1..m.leader_commit : kept[i] = lg[i]
      BY <1>2, <1>6 DEF Cut
    <2> QED BY <2>1, <2>2, <2>3, <2>4 DEF Put
  <1>7. push_log(kept, m.leader_commit, Entry(m)) =
          IF m.leader_commit = Len(kept) THEN Append(kept, Entry(m)) ELSE kept
    BY DEF push_log
  <1>8. Cut(r, lg) \/ Put(r, lg, m.leader_commit, Entry(m))
    BY <1>2, <1>4, <1>5, <1>6, <1>7
  <1> QED BY <1>8 DEF r

\* on_append_entries_requested cuts the log, or puts the entry at its id
\* behind the predecessor that the request names.
LEMMA AppendEntriesApplies ==
  ASSUME NEW lg \in Seq(LogEntry), NEW m \in AppendRequest
  PROVE  Applied(AppendEntries(lg, m).logs, lg, m)
  <1> DEFINE r == AppendEntries(lg, m).logs
  <1>1. /\ m.leader_commit \in Nat /\ m.prev_log_index \in Nat
    BY DEF AppendRequest
  <1>2. Cut(lg, lg)
    BY DEF Cut
  <1>3. Cut(revert_log(lg, m.prev_log_index), lg)
    BY <1>1, RevertCuts
  <1>4. CASE r = request_local_commit(lg, m).logs /\ m.entries # None /\
             (m.leader_commit > 0 => HasLog(lg, m.prev_log_index) /\ PrevMatches(lg, m))
    <2>1. Cut(r, lg) \/ Put(r, lg, m.leader_commit, Entry(m))
      BY <1>4, LocalCommitApplies
    <2> HIDE DEF r
    <2>2. Applied(r, lg, m)
      BY <1>4, <2>1 DEF Applied
    <2> QED BY <2>2 DEF r
  <1>5. \/ r = lg
        \/ r = revert_log(lg, m.prev_log_index)
        \/ r = request_local_commit(lg, m).logs /\ m.entries # None /\
             (m.leader_commit > 0 => HasLog(lg, m.prev_log_index) /\ PrevMatches(lg, m))
    BY <1>1 DEF AppendEntries
  <1> HIDE DEF r
  <1>6. Cut(r, lg) => Applied(r, lg, m)
    BY DEF Applied
  <1> QED BY <1>2, <1>3, <1>4, <1>5, <1>6 DEF r

-----------------------------------------------------------------------------
(* What a step does                                                         *)

\* The pending commit of k stays or goes; a Leader forgets no valid one.
PendingKept(k) ==
  \/ pending_commit'[k] = None /\ (state'[k] = "Leader" => ~PendingIsValid(k))
  \/ /\ pending_commit[k] # None /\ pending_commit'[k] # None
     /\ pending_commit'[k].id = pending_commit[k].id
     /\ pending_commit'[k].term = pending_commit[k].term
     /\ pending_commit'[k].command = pending_commit[k].command

\* No request is made up; and: those of a Leader are made from what it offers.
NothingSent == \A l, f \in Node : Waiting(l, f)' \subseteq Waiting(l, f)
LeadersSend ==
  \A l, f \in Node : \A m \in Waiting(l, f)' :
    \/ m \in Waiting(l, f)
    \/ l # f /\ state[l] = "Leader" /\ m = AppendEntriesRequest(l, f)

\* The logs stay.
Quiet ==
  /\ UNCHANGED <<logs, acknowledged>>
  /\ LeadersSend
  /\ \A k \in Node : PendingKept(k)

\* n applies a request, wholly or up to its death.
Applies(n) ==
  /\ \A k \in Node \ {n} : logs'[k] = logs[k]
  /\ \E l \in Node : \E m \in Waiting(l, n) :
       m.term <= current_term'[n] /\ Applied(logs'[n], logs[n], m)
  /\ NothingSent /\ acknowledged' = acknowledged
  /\ \A k \in Node : PendingKept(k)

\* The pending commit of n is completed.
Completes(n) ==
  /\ pending_commit[n] # None
  /\ pending_commit' = [pending_commit EXCEPT ![n] = None]
  /\ logs' = [logs EXCEPT ![n] = push_log(@, pending_commit[n].id, PendingEntry(n))]
  /\ UNCHANGED append_requests

\* n takes the new command c.
Takes(n, c) ==
  /\ state[n] = "Leader" /\ c \notin submitted /\ submitted' = submitted \cup {c}
  /\ ~PendingIsValid(n)
  /\ \/ /\ Cardinality(Node) <= 1 /\ UNCHANGED pending_commit
        /\ logs' = [logs EXCEPT ![n] =
                      Append(@, [term |-> current_term[n], command |-> c])]
        /\ acknowledged' = acknowledged \cup
             {[id |-> Len(logs[n]), term |-> current_term[n], command |-> c]}
     \/ /\ Cardinality(Node) > 1 /\ UNCHANGED logs
        /\ pending_commit' = [pending_commit EXCEPT ![n] =
             [id |-> Len(logs[n]), term |-> current_term[n], command |-> c,
              result_map |-> [f \in Node |-> None]]]
  /\ UNCHANGED append_requests

LogStep ==
  \/ Quiet
  \/ \E n \in Node : Applies(n) \/ Completes(n) \/ \E c \in Command : Takes(n, c)

\* A request that waits is a request, and the oldest one waits.
LEMMA WaitingType ==
  ASSUME TypeOK, NEW l \in Node, NEW f \in Node
  PROVE  /\ Waiting(l, f) \subseteq AppendRequest
         /\ append_requests[l][f] # <<>> => Head(append_requests[l][f]) \in Waiting(l, f)
         /\ append_requests[l][f] = <<>> => Waiting(l, f) = {}
  <1> DEFINE q == append_requests[l][f]
  <1>1. q \in Seq(AppendRequest)
    BY DEF TypeOK
  <1> HIDE DEF q
  <1>2. {q[i] : i \in DOMAIN q} \subseteq AppendRequest
    BY <1>1
  <1>3. q # <<>> => Head(q) \in {q[i] : i \in DOMAIN q}
    BY <1>1
  <1>4. q = <<>> => {q[i] : i \in DOMAIN q} = {}
    BY <1>1
  <1> QED BY <1>2, <1>3, <1>4 DEF Waiting, q

\* The store that a dying process leaves has the log as it was, or as a
\* request makes it.
LEMMA DiskLogs ==
  ASSUME TypeOK, NEW n \in Node, NEW d \in HandlerDisks(n)
  PROVE  \/ d.logs = logs[n]
         \/ \E l \in Node : \E m \in Waiting(l, n) :
              m.term <= d.current_term /\ Applied(d.logs, logs[n], m)
  <1>1. CASE d \in AppendDisks(n)
    <2>1. PICK l \in Node :
            /\ append_requests[l][n] # <<>>
            /\ d \in LET m == Head(append_requests[l][n])
                         u == update_term(n, m.term)
                         after == AppendEntries(logs[n], m).logs
                         cut == IF after # logs[n] /\ Len(after) > m.leader_commit
                                THEN revert_log(logs[n], m.leader_commit) ELSE after
                     IN  {Disk(u.current_term, u.voted_for, u.voted, lg) :
                            lg \in {cut, after}}
      BY <1>1 DEF AppendDisks
    <2> DEFINE m == Head(append_requests[l][n])
               u == update_term(n, m.term)
               after == AppendEntries(logs[n], m).logs
               cut == revert_log(logs[n], m.leader_commit)
    <2>2. m \in Waiting(l, n) /\ m \in AppendRequest
      BY <2>1, WaitingType
    <2>3. m.term \in Nat /\ m.leader_commit \in Nat
      BY <2>2 DEF AppendRequest
    <2>4. u.current_term >= m.term /\ u.current_term \in Nat
      BY <2>3, UpdateTermFacts
    <2>5. logs[n] \in Seq(LogEntry)
      BY DEF TypeOK
    <2>6. Applied(after, logs[n], m)
      BY <2>2, <2>5, AppendEntriesApplies
    <2>7. Applied(cut, logs[n], m)
      BY <2>3, <2>5, RevertCuts DEF Applied
    <2>8. PICK lg \in {cut, after} : d = Disk(u.current_term, u.voted_for, u.voted, lg)
      BY <2>1
    <2> HIDE DEF m, u, after, cut
    <2>9. d.logs = lg /\ d.current_term = u.current_term
      BY <2>8 DEF Disk
    <2>10. m.term <= d.current_term /\ Applied(d.logs, logs[n], m)
      BY <2>3, <2>4, <2>6, <2>7, <2>8, <2>9
    <2> QED BY <2>2, <2>10
  <1>2. CASE d \in ElectionDisks(n)
    BY <1>2 DEF ElectionDisks, UpdateTermDisks, VoteDisks, Disk
  <1>3. CASE d \in GrantDisks(n)
    BY <1>3 DEF GrantDisks, VoteDisks, Disk
  <1>4. CASE d \in UNION {UpdateTermDisks(n, t) : t \in NewerTerms(n)}
    BY <1>4 DEF UpdateTermDisks, Disk
  <1> QED BY <1>1, <1>2, <1>3, <1>4 DEF HandlerDisks

\* A step that leaves requests and logs alone.
LEMMA UnchangedIsQuiet ==
  ASSUME UNCHANGED <<logs, acknowledged, append_requests>>,
         \A k \in Node : PendingKept(k)
  PROVE  Quiet
  BY DEF Quiet, LeadersSend, Waiting

\* Pending commits that do not change, and those that Leader::exit cancels.
LEMMA PendingAlike ==
  ASSUME pending_commit' = pending_commit
  PROVE  \A k \in Node : PendingKept(k)
  BY DEF PendingKept, PendingIsValid

LEMMA EnterStateKeepsPending ==
  ASSUME TypeOK, NEW n \in Node, NEW s, EnterState(n, s)
  PROVE  \A k \in Node : PendingKept(k)
  <1>1. CASE pending_commit' = pending_commit
    BY <1>1, PendingAlike
  <1>2. CASE /\ pending_commit' = [pending_commit EXCEPT ![n] = None]
             /\ s # "Leader" /\ state' = [state EXCEPT ![n] = s]
    <2>1. /\ pending_commit \in [Node -> PendingCommit \cup {None}]
          /\ state \in [Node -> StateType \cup {"Down"}]
      BY DEF TypeOK
    <2>2. pending_commit'[n] = None /\ state'[n] # "Leader"
      BY <1>2, <2>1
    <2>3. \A k \in Node \ {n} : pending_commit'[k] = pending_commit[k]
      BY <1>2, <2>1
    <2> QED BY <2>2, <2>3 DEF PendingKept, PendingIsValid
  <1> QED BY <1>1, <1>2 DEF EnterState

\* The handlers of elections.
LEMMA ElectionLogs ==
  ASSUME TypeOK,
         \/ \E n \in Node : \/ ElectionTimeoutIgnored(n) \/ ElectionTimeout(n)
                            \/ Restart(n)
         \/ \E m \in vote_requests : HandleRequestVote(m)
         \/ \E m \in vote_responses : HandleVoteRefused(m) \/ HandleVoteGranted(m)
         \/ \E n \in Node, c \in Command : RefuseCommand(n, c)
         \/ UNCHANGED vars
  PROVE  Quiet
  <1>1. UNCHANGED <<logs, acknowledged, append_requests>>
    BY DEF ElectionTimeoutIgnored, ElectionTimeout, StartElection, Restart,
           HandleRequestVote, HandleVoteRefused, HandleVoteGranted,
           RefuseCommand, appendMsgs, commitVars, vars
  <1>2. \/ pending_commit' = pending_commit
        \/ \E m \in vote_requests : HandleRequestVote(m)
        \/ \E m \in vote_responses : HandleVoteRefused(m)
    BY DEF ElectionTimeoutIgnored, ElectionTimeout, StartElection, Restart,
           HandleVoteGranted, RefuseCommand, commitVars, vars
  <1>3. ASSUME NEW m \in vote_requests, HandleRequestVote(m)
        PROVE  \A k \in Node : PendingKept(k)
    <2>1. m.to \in Node
      BY DEF TypeOK, VoteRequest
    <2> QED BY <1>3, <2>1, EnterStateKeepsPending DEF HandleRequestVote
  <1>4. ASSUME NEW m \in vote_responses, HandleVoteRefused(m)
        PROVE  \A k \in Node : PendingKept(k)
    <2>1. m.to \in Node
      BY DEF TypeOK, VoteResponse
    <2> QED BY <1>4, <2>1, EnterStateKeepsPending DEF HandleVoteRefused
  <1>5. \A k \in Node : PendingKept(k)
    BY <1>2, <1>3, <1>4, PendingAlike
  <1> QED BY <1>1, <1>5, UnchangedIsQuiet

\* Context::broadcast.
LEMMA BroadcastLogs ==
  ASSUME TypeOK, NEW n \in Node, Broadcast(n)
  PROVE  Quiet
  <1>1. /\ pending_commit \in [Node -> PendingCommit \cup {None}]
        /\ append_requests \in [Node -> [Node -> Seq(AppendRequest)]]
    BY DEF TypeOK
  <1>2. /\ UNCHANGED <<logs, acknowledged>> /\ state[n] = "Leader"
        /\ pending_commit' = [pending_commit EXCEPT ![n] =
                                IF PendingIsValid(n) THEN @ ELSE None]
    BY DEF Broadcast
  <1>3. \A k \in Node : PendingKept(k)
    <2>1. \A k \in Node \ {n} : pending_commit'[k] = pending_commit[k]
      BY <1>1, <1>2
    <2>2. pending_commit'[n] = IF PendingIsValid(n) THEN pending_commit[n] ELSE None
      BY <1>1, <1>2
    <2> QED BY <2>1, <2>2 DEF PendingKept, PendingIsValid
  <1>4. LeadersSend
    <2>1. PICK S \in SUBSET {f \in OtherNodes(n) : Up(f)} :
            append_requests' = [append_requests EXCEPT ![n] =
              [f \in Node |-> IF f \in S
                              THEN Append(@[f], AppendEntriesRequest(n, f))
                              ELSE @[f]]]
      BY DEF Broadcast
    <2>2. n \notin S
      BY DEF OtherNodes
    <2> SUFFICES ASSUME NEW l \in Node, NEW f \in Node, NEW m \in Waiting(l, f)'
                 PROVE  \/ m \in Waiting(l, f)
                        \/ /\ l # f /\ state[l] = "Leader"
                           /\ m = AppendEntriesRequest(l, f)
      BY DEF LeadersSend
    <2>3. CASE append_requests'[l][f] = append_requests[l][f]
      BY <2>3 DEF Waiting
    <2>4. CASE l = n /\ f \in S
      <3> DEFINE q == append_requests[n][f]
                 r == AppendEntriesRequest(n, f)
      <3>1. append_requests'[n][f] = Append(q, r)
        BY <1>1, <2>1, <2>4
      <3>2. q \in Seq(AppendRequest)
        BY <1>1
      <3>3. r \in AppendRequest
        BY RequestType
      <3> HIDE DEF q, r
      <3>4. PICK i \in DOMAIN Append(q, r) : m = Append(q, r)[i]
        BY <2>4, <3>1 DEF Waiting
      <3>5. m = r \/ \E j \in DOMAIN q : m = q[j]
        BY <3>2, <3>3, <3>4
      <3>6. m = AppendEntriesRequest(n, f) \/ m \in Waiting(n, f)
        BY <3>5 DEF q, r, Waiting
      <3> QED BY <1>2, <2>2, <2>4, <3>6
    <2>5. append_requests'[l][f] = append_requests[l][f] \/ (l = n /\ f \in S)
      BY <1>1, <2>1
    <2> QED BY <2>3, <2>4, <2>5
  <1> QED BY <1>2, <1>3, <1>4 DEF Quiet

\* on_append_entries_requested.
LEMMA AppendLogs ==
  ASSUME TypeOK, NEW l \in Node, NEW n \in Node, HandleAppendEntries(l, n)
  PROVE  Applies(n)
  <1> DEFINE m == Head(append_requests[l][n])
             u == update_term(n, m.term)
  <1>1. append_requests[l][n] # <<>>
    BY DEF HandleAppendEntries
  <1>2. m \in Waiting(l, n) /\ m \in AppendRequest
    BY <1>1, WaitingType
  <1>3. m.term \in Nat
    BY <1>2 DEF AppendRequest
  <1>4. u.current_term >= m.term /\ u.current_term \in Nat
    BY <1>3, UpdateTermFacts
  <1>5. /\ logs \in [Node -> Seq(LogEntry)]
        /\ current_term \in [Node -> Nat]
        /\ append_requests \in [Node -> [Node -> Seq(AppendRequest)]]
    BY DEF TypeOK
  <1>6. /\ current_term' = [current_term EXCEPT ![n] = u.current_term]
        /\ logs' = [logs EXCEPT ![n] = AppendEntries(logs[n], m).logs]
        /\ append_requests' = [append_requests EXCEPT ![l][n] = Tail(@)]
        /\ acknowledged' = acknowledged
        /\ \E s : EnterState(n, s)
    BY DEF HandleAppendEntries, ApplyTerm
  <1>7. Applied(AppendEntries(logs[n], m).logs, logs[n], m)
    BY <1>2, <1>5, AppendEntriesApplies
  <1> HIDE DEF m, u
  <1>8. m.term <= current_term'[n]
    BY <1>3, <1>4, <1>5, <1>6
  <1>9. /\ Applied(logs'[n], logs[n], m)
        /\ \A k \in Node \ {n} : logs'[k] = logs[k]
    BY <1>5, <1>6, <1>7
  <1>10. NothingSent
    <2> SUFFICES ASSUME NEW k \in Node, NEW f \in Node
                 PROVE  Waiting(k, f)' \subseteq Waiting(k, f)
      BY DEF NothingSent
    <2>1. CASE append_requests'[k][f] = append_requests[k][f]
      BY <2>1 DEF Waiting
    <2>2. CASE k = l /\ f = n
      <3> DEFINE q == append_requests[l][n]
      <3>1. q \in Seq(AppendRequest) /\ q # <<>> /\ append_requests'[l][n] = Tail(q)
        BY <1>1, <1>5, <1>6
      <3> HIDE DEF q
      <3>2. {Tail(q)[i] : i \in DOMAIN Tail(q)} \subseteq {q[i] : i \in DOMAIN q}
        BY <3>1
      <3> QED BY <2>2, <3>1, <3>2 DEF Waiting, q
    <2>3. append_requests'[k][f] = append_requests[k][f] \/ (k = l /\ f = n)
      BY <1>5, <1>6
    <2> QED BY <2>1, <2>2, <2>3
  <1>11. \A k \in Node : PendingKept(k)
    BY <1>6, EnterStateKeepsPending
  <1> QED BY <1>2, <1>6, <1>8, <1>9, <1>10, <1>11 DEF Applies

\* A death.
LEMMA CrashLogs ==
  ASSUME TypeOK, NEW n \in Node, Crash(n) \/ CrashInHandler(n)
  PROVE  Quiet \/ Applies(n)
  <1>1. PICK d :
          /\ Die(n, d)
          /\ \/ d.logs = logs[n]
             \/ \E l \in Node : \E m \in Waiting(l, n) :
                  m.term <= d.current_term /\ Applied(d.logs, logs[n], m)
    <2>1. CASE Crash(n)
      <3> DEFINE d == Disk(current_term[n], voted_for[n], voted[n], logs[n])
      <3>1. Die(n, d) /\ d.logs = logs[n]
        BY <2>1 DEF Crash, Disk
      <3> QED BY <3>1
    <2>2. CASE CrashInHandler(n)
      BY <2>2, DiskLogs DEF CrashInHandler
    <2> QED BY <2>1, <2>2
  <1>2. /\ logs \in [Node -> Seq(LogEntry)]
        /\ current_term \in [Node -> Nat]
        /\ state \in [Node -> StateType \cup {"Down"}]
        /\ pending_commit \in [Node -> PendingCommit \cup {None}]
        /\ append_requests \in [Node -> [Node -> Seq(AppendRequest)]]
    BY DEF TypeOK
  <1>3. /\ logs' = [logs EXCEPT ![n] = d.logs]
        /\ current_term' = [current_term EXCEPT ![n] = d.current_term]
        /\ state' = [state EXCEPT ![n] = "Down"]
        /\ pending_commit' = [pending_commit EXCEPT ![n] = None]
        /\ append_requests' = [l \in Node |-> [append_requests[l] EXCEPT ![n] = <<>>]]
        /\ acknowledged' = acknowledged
    BY <1>1 DEF Die
  <1>4. \A k \in Node : PendingKept(k)
    <2>1. \A k \in Node \ {n} : pending_commit'[k] = pending_commit[k]
      BY <1>2, <1>3
    <2>2. pending_commit'[n] = None /\ state'[n] # "Leader"
      BY <1>2, <1>3
    <2> QED BY <2>1, <2>2 DEF PendingKept, PendingIsValid
  <1>5. NothingSent
    <2> SUFFICES ASSUME NEW k \in Node, NEW f \in Node
                 PROVE  Waiting(k, f)' \subseteq Waiting(k, f)
      BY DEF NothingSent
    <2>1. append_requests'[k][f] \in {append_requests[k][f], <<>>}
      BY <1>2, <1>3
    <2>2. CASE append_requests'[k][f] = append_requests[k][f]
      BY <2>2 DEF Waiting
    <2>3. CASE append_requests'[k][f] = <<>>
      <3>1. DOMAIN append_requests'[k][f] = {}
        BY <2>3
      <3> QED BY <3>1 DEF Waiting
    <2> QED BY <2>1, <2>2, <2>3
  <1>6. CASE d.logs = logs[n]
    <2>1. logs' = logs
      BY <1>2, <1>3, <1>6
    <2> QED BY <1>3, <1>4, <1>5, <2>1 DEF Quiet, LeadersSend, NothingSent
  <1>7. ASSUME NEW l \in Node, NEW m \in Waiting(l, n),
               m.term <= d.current_term, Applied(d.logs, logs[n], m)
        PROVE  Applies(n)
    <2>1. logs'[n] = d.logs /\ current_term'[n] = d.current_term
      BY <1>2, <1>3
    <2>2. \A k \in Node \ {n} : logs'[k] = logs[k]
      BY <1>2, <1>3
    <2> QED BY <1>3, <1>4, <1>5, <1>7, <2>1, <2>2 DEF Applies
  <1> QED BY <1>1, <1>6, <1>7

\* The answer to append_entries.
LEMMA AnswerLogs ==
  ASSUME TypeOK, NEW f \in Node, NEW n \in Node, HandleAppendResponse(f, n)
  PROVE  Quiet \/ Completes(n)
  <1> DEFINE r == Head(append_responses[f][n])
             p == pending_commit[n]
  <1>1. append_requests' = append_requests
    BY DEF HandleAppendResponse
  <1>2. \/ /\ EnterState(n, update_term(n, r.term).state)
           /\ UNCHANGED <<logs, acknowledged>>
        \/ HandlePendingCommit(f, n, r)
    BY DEF HandleAppendResponse
  <1>3. ASSUME HandlePendingCommit(f, n, r)
        PROVE  Quiet \/ Completes(n)
    <2>1. p # None
      BY <1>3 DEF HandlePendingCommit, AnswersPending
    <2>2. pending_commit \in [Node -> PendingCommit \cup {None}]
      BY DEF TypeOK
    <2>3. p \in PendingCommit
      BY <2>1, <2>2
    <2> DEFINE map == [p.result_map EXCEPT ![f] = r.success]
    <2>4. \/ /\ pending_commit' = [pending_commit EXCEPT ![n] = None]
             /\ logs' = [logs EXCEPT ![n] = push_log(@, p.id, PendingEntry(n))]
          \/ /\ pending_commit' = [pending_commit EXCEPT ![n].result_map = map]
             /\ UNCHANGED <<logs, acknowledged>>
      BY <1>3 DEF HandlePendingCommit, CompleteCommit, PendingEntry
    <2>5. ASSUME UNCHANGED <<logs, acknowledged>>,
                 pending_commit' = [pending_commit EXCEPT ![n].result_map = map]
          PROVE  Quiet
      <3>1. pending_commit'[n] = [p EXCEPT !.result_map = map]
        BY <2>2, <2>5
      <3>2. /\ pending_commit'[n].id = p.id /\ pending_commit'[n].term = p.term
            /\ pending_commit'[n].command = p.command
        BY <2>3, <3>1 DEF PendingCommit
      <3>3. \A k \in Node \ {n} : pending_commit'[k] = pending_commit[k]
        BY <2>2, <2>5
      <3>4. pending_commit'[n] # None
        <4>1. p.result_map \in [Node -> BOOLEAN \cup {None}]
          BY <2>3 DEF PendingCommit
        <4>2. map \in [Node -> BOOLEAN \cup {None}]
          <5>1. /\ append_responses[f][n] \in Seq(AppendResponse)
                /\ append_responses[f][n] # <<>>
            BY DEF TypeOK, HandleAppendResponse
          <5>2. r \in AppendResponse
            BY <5>1
          <5>3. r.success \in BOOLEAN
            BY <5>2 DEF AppendResponse
          <5> HIDE DEF r, p
          <5> QED BY <4>1, <5>3
        <4>3. [p EXCEPT !.result_map = map] \in PendingCommit
          BY <2>3, <4>2 DEF PendingCommit
        <4> QED BY <3>1, <4>3, PendingAssumption
      <3>5. \A k \in Node : PendingKept(k)
        BY <2>1, <3>2, <3>3, <3>4 DEF PendingKept, PendingIsValid
      <3> QED BY <1>1, <2>5, <3>5, UnchangedIsQuiet
    <2> QED BY <1>1, <2>1, <2>4, <2>5 DEF Completes
  <1>4. ASSUME EnterState(n, update_term(n, r.term).state),
               UNCHANGED <<logs, acknowledged>>
        PROVE  Quiet
    BY <1>1, <1>4, EnterStateKeepsPending, UnchangedIsQuiet
  <1> QED BY <1>2, <1>3, <1>4

\* commit_command at a leader.
LEMMA CommandLogs ==
  ASSUME TypeOK, NEW n \in Node, NEW c \in Command, CommitCommand(n, c)
  PROVE  Takes(n, c)
  <1>1. /\ state[n] = "Leader" /\ ~PendingIsValid(n)
        /\ c \notin submitted /\ submitted' = submitted \cup {c}
        /\ append_requests' = append_requests
    BY DEF CommitCommand, TakesCommand, appendMsgs
  <1>2. Cardinality(Node) \in Nat
    BY NodeAssumption, FS_CardinalityType
  <1>3. CASE Cardinality(Node) <= 1
    <2> DEFINE entry == [term |-> current_term[n], command |-> c]
    <2>1. CompleteCommit(n, Len(logs[n]), entry) /\ UNCHANGED pending_commit
      BY <1>3 DEF CommitCommand
    <2>2. push_log(logs[n], Len(logs[n]), entry) = Append(logs[n], entry)
      BY DEF push_log
    <2>3. logs' = [logs EXCEPT ![n] = push_log(logs[n], Len(logs[n]), entry)]
      BY <2>1 DEF CompleteCommit
    <2>4. acknowledged' = acknowledged \cup
            {[id |-> Len(logs[n]), term |-> current_term[n], command |-> c]}
      BY <2>1 DEF CompleteCommit
    <2> QED BY <1>1, <1>3, <2>1, <2>2, <2>3, <2>4 DEF Takes
  <1>4. CASE ~(Cardinality(Node) <= 1)
    <2>1. Cardinality(Node) > 1
      BY <1>2, <1>4
    <2> QED BY <1>1, <1>4, <2>1 DEF Takes, CommitCommand
  <1> QED BY <1>3, <1>4

\* Every step is one of these, and submits, elects and forgets no less.
LEMMA NextLog ==
  ASSUME TypeOK, [Next]_vars
  PROVE  LogStep /\ submitted \subseteq submitted' /\ elected \subseteq elected'
  <1>1. LogStep
    <2>1. ASSUME NEW n \in Node,
                 \/ ElectionTimeoutIgnored(n) \/ ElectionTimeout(n) \/ Broadcast(n)
                 \/ Crash(n) \/ CrashInHandler(n) \/ Restart(n)
          PROVE  LogStep
      BY <2>1, ElectionLogs, BroadcastLogs, CrashLogs DEF LogStep
    <2>2. ASSUME NEW m \in vote_requests, HandleRequestVote(m)
          PROVE  LogStep
      BY <2>2, ElectionLogs DEF LogStep
    <2>3. ASSUME NEW m \in vote_responses, HandleVoteRefused(m) \/ HandleVoteGranted(m)
          PROVE  LogStep
      BY <2>3, ElectionLogs DEF LogStep
    <2>4. ASSUME NEW m \in Node, NEW n \in Node,
                 HandleAppendEntries(m, n) \/ HandleAppendResponse(m, n)
          PROVE  LogStep
      BY <2>4, AppendLogs, AnswerLogs DEF LogStep
    <2>5. ASSUME NEW n \in Node, NEW c \in Command,
                 RefuseCommand(n, c) \/ CommitCommand(n, c)
          PROVE  LogStep
      BY <2>5, ElectionLogs, CommandLogs DEF LogStep
    <2>6. CASE UNCHANGED vars
      BY <2>6, ElectionLogs DEF LogStep
    <2> QED BY <2>1, <2>2, <2>3, <2>4, <2>5, <2>6 DEF Next
  <1>2. elected \subseteq elected'
    <2>1. TypeOK'
      BY NextType
    <2> QED BY <2>1, OneNodeMoves
  <1>3. submitted \subseteq submitted'
    <2>1. ASSUME NEW n \in Node,
                 \/ ElectionTimeoutIgnored(n) \/ ElectionTimeout(n) \/ Broadcast(n)
                 \/ Crash(n) \/ CrashInHandler(n) \/ Restart(n)
          PROVE  submitted' = submitted
      BY <2>1 DEF ElectionTimeoutIgnored, ElectionTimeout, StartElection, Broadcast,
                  Crash, CrashInHandler, Die, Restart, commitVars
    <2>2. ASSUME NEW m, \/ HandleRequestVote(m) \/ HandleVoteRefused(m)
                        \/ HandleVoteGranted(m)
          PROVE  submitted' = submitted
      BY <2>2 DEF HandleRequestVote, HandleVoteRefused, HandleVoteGranted, commitVars
    <2>3. ASSUME NEW m, NEW n, HandleAppendEntries(m, n) \/ HandleAppendResponse(m, n)
          PROVE  submitted' = submitted
      BY <2>3 DEF HandleAppendEntries, HandleAppendResponse
    <2>4. ASSUME NEW n, NEW c, RefuseCommand(n, c) \/ CommitCommand(n, c)
          PROVE  submitted' = submitted \cup {c}
      BY <2>4 DEF RefuseCommand, CommitCommand
    <2>5. CASE UNCHANGED vars
      BY <2>5 DEF vars
    <2> QED BY <2>1, <2>2, <2>3, <2>4, <2>5 DEF Next
  <1> QED BY <1>1, <1>2, <1>3

-----------------------------------------------------------------------------
(* Requests                                                                 *)

\* The entry of a request is the one that its sender offers under that id.
LEMMA RequestEntry ==
  ASSUME TypeOK, NEW n \in Node, NEW f \in Node,
         AppendEntriesRequest(n, f).entries # None
  PROVE  LET m == AppendEntriesRequest(n, f)
             lg == OfferedLog(n)
         IN  /\ m.leader_commit \in Nat /\ m.leader_commit < Len(lg)
             /\ lg[m.leader_commit + 1] = Entry(m)
             /\ m.leader_commit > 0 =>
                  /\ m.prev_log_index = m.leader_commit - 1
                  /\ m.prev_log_term = lg[m.leader_commit].term
  <1> DEFINE m == AppendEntriesRequest(n, f)
             lg == OfferedLog(n)
             i == next_index[n][f]
  <1>1. lg \in Seq(LogEntry)
    BY OfferedLogType
  <1>2. i \in Nat
    BY DEF TypeOK
  <1>3. /\ m.term = RequestTerm(n, lg, i)
        /\ m.entries = IF HasLog(lg, i) THEN Data(SentEntry(lg, i).command) ELSE None
        /\ m.leader_commit = IF HasLog(lg, i) THEN i ELSE 0
        /\ m.prev_log_index = IF i > 0 /\ HasLog(lg, i - 1) THEN i - 1 ELSE 0
        /\ m.prev_log_term = IF i > 0 /\ HasLog(lg, i - 1)
                             THEN LogAt(lg, i - 1).term ELSE 0
    BY DEF AppendEntriesRequest
  <1> HIDE DEF m, lg, i
  <1>4. HasLog(lg, i) /\ m.entries = lg[i + 1].command /\ m.leader_commit = i
    BY <1>3 DEF m, Data, SentEntry, LogAt
  <1>5. i < Len(lg) /\ lg[i + 1] \in LogEntry
    BY <1>1, <1>2, <1>4 DEF HasLog
  <1>6. m.term = lg[i + 1].term
    BY <1>3, <1>4 DEF RequestTerm, LogAt
  <1>7. lg[i + 1] = Entry(m)
    BY <1>4, <1>5, <1>6 DEF Entry, LogEntry
  <1>8. i > 0 => /\ m.prev_log_index = i - 1 /\ m.prev_log_term = lg[i].term
    <2> SUFFICES ASSUME i > 0
                 PROVE  m.prev_log_index = i - 1 /\ m.prev_log_term = lg[i].term
      OBVIOUS
    <2>1. HasLog(lg, i - 1) /\ (i - 1) + 1 = i
      BY <1>1, <1>2, <1>5 DEF HasLog
    <2> QED BY <1>3, <2>1 DEF LogAt
  <1> QED BY <1>2, <1>4, <1>5, <1>7, <1>8 DEF m, lg

\* The log of n is what it offers, but for a valid pending entry at the end.
OfferedIsLog(n) ==
  /\ \A i \in 1..Len(logs[n]) : OfferedLog(n)[i] = logs[n][i]
  /\ \/ OfferedLog(n) = logs[n] /\ ~PendingIsValid(n)
     \/ /\ PendingIsValid(n) /\ Len(OfferedLog(n)) = Len(logs[n]) + 1
        /\ OfferedLog(n)[Len(logs[n]) + 1] = PendingEntry(n)

LEMMA OfferedTypes == TypeOK => \A n \in Node : OfferedLog(n) \in Seq(LogEntry)
  BY OfferedLogType

LEMMA OfferedFacts == TypeOK => \A n \in Node : OfferedIsLog(n)
  <1> SUFFICES ASSUME TypeOK, NEW n \in Node PROVE OfferedIsLog(n)
    OBVIOUS
  <1> DEFINE lg == logs[n]
  <1>1. lg \in Seq(LogEntry)
    BY DEF TypeOK
  <1>2. CASE PendingIsValid(n)
    <2> DEFINE e == PendingEntry(n)
    <2>1. OfferedLog(n) = Append(lg, e)
      BY <1>2 DEF OfferedLog, PendingEntry
    <2> HIDE DEF lg, e
    <2>2. /\ Len(Append(lg, e)) = Len(lg) + 1 /\ Append(lg, e)[Len(lg) + 1] = e
          /\ \A i \in 1..Len(lg) : Append(lg, e)[i] = lg[i]
      BY <1>1
    <2> QED BY <1>2, <2>1, <2>2 DEF lg, e, OfferedIsLog
  <1>3. CASE ~PendingIsValid(n)
    BY <1>3 DEF OfferedLog, OfferedIsLog
  <1> QED BY <1>2, <1>3

-----------------------------------------------------------------------------
(* Terms ascend                                                             *)

\* The terms of lg ascend up to t.
Ascends(lg, t) ==
  \A i \in DOMAIN lg : lg[i].term <= t /\ (i > 1 => lg[i - 1].term <= lg[i].term)

\* So do those of its prefixes, and those with one more entry.
LEMMA CutAscends ==
  ASSUME NEW lg \in Seq(LogEntry), NEW r \in Seq(LogEntry), NEW t \in Nat,
         NEW u \in Nat, t <= u, Ascends(lg, t), Cut(r, lg)
  PROVE  Ascends(r, u)
  <1> SUFFICES ASSUME NEW i \in DOMAIN r
               PROVE  r[i].term <= u /\ (i > 1 => r[i - 1].term <= r[i].term)
    BY DEF Ascends
  <1>1. i \in DOMAIN lg /\ r[i] = lg[i]
    BY DEF Cut
  <1>2. i > 1 => r[i - 1] = lg[i - 1]
    BY <1>1 DEF Cut
  <1>3. lg[i].term \in Nat
    <2>1. lg[i] \in LogEntry
      BY <1>1
    <2> QED BY <2>1 DEF LogEntry
  <1> QED BY <1>1, <1>2, <1>3 DEF Ascends

LEMMA PutAscends ==
  ASSUME NEW lg \in Seq(LogEntry), NEW r \in Seq(LogEntry), NEW t \in Nat,
         NEW u \in Nat, t <= u, Ascends(lg, t), NEW id \in Nat, NEW e \in LogEntry,
         Put(r, lg, id, e), e.term <= u, id > 0 => lg[id].term <= e.term
  PROVE  Ascends(r, u)
  <1> SUFFICES ASSUME NEW i \in DOMAIN r
               PROVE  r[i].term <= u /\ (i > 1 => r[i - 1].term <= r[i].term)
    BY DEF Ascends
  <1>1. i \in 1..(id + 1) /\ id <= Len(lg)
    BY DEF Put
  <1>2. CASE i = id + 1
    <2>1. r[i] = e
      BY <1>2 DEF Put
    <2>2. i > 1 => id > 0 /\ r[i - 1] = lg[id]
      BY <1>2 DEF Put
    <2> QED BY <2>1, <2>2
  <1>3. CASE i \in 1..id
    <2>1. i \in DOMAIN lg /\ r[i] = lg[i]
      BY <1>1, <1>3 DEF Put
    <2>2. i > 1 => r[i - 1] = lg[i - 1]
      BY <1>3 DEF Put
    <2>3. lg[i].term \in Nat
      <3>1. lg[i] \in LogEntry
        BY <2>1
      <3> QED BY <3>1 DEF LogEntry
    <2> QED BY <2>1, <2>2, <2>3 DEF Ascends
  <1> QED BY <1>1, <1>2, <1>3

\* A request keeps the terms of the log it is applied to in order.
LEMMA AppliedAscends ==
  ASSUME NEW lg \in Seq(LogEntry), NEW r \in Seq(LogEntry), NEW t \in Nat,
         NEW u \in Nat, t <= u, Ascends(lg, t), NEW m \in AppendRequest,
         Applied(r, lg, m), m.term <= u,
         m.entries # None /\ m.leader_commit > 0 =>
           m.prev_log_index = m.leader_commit - 1 /\ m.prev_log_term <= m.term
  PROVE  Ascends(r, u)
  <1>1. CASE Cut(r, lg)
    BY <1>1, CutAscends
  <1>2. CASE ~Cut(r, lg)
    <2>1. /\ m.entries # None /\ Put(r, lg, m.leader_commit, Entry(m))
          /\ m.leader_commit > 0 => HasLog(lg, m.prev_log_index) /\ PrevMatches(lg, m)
      BY <1>2 DEF Applied
    <2>2. /\ m.leader_commit \in Nat /\ m.prev_log_term \in Nat /\ m.term \in Nat
          /\ Entry(m) \in LogEntry /\ Entry(m).term = m.term
      BY <2>1 DEF AppendRequest, Entry, LogEntry
    <2>3. m.leader_commit > 0 => lg[m.leader_commit].term <= m.term
      <3> SUFFICES ASSUME m.leader_commit > 0
                   PROVE  lg[m.leader_commit].term <= m.term
        OBVIOUS
      <3>1. m.prev_log_index + 1 = m.leader_commit /\ m.prev_log_term <= m.term
        BY <2>1, <2>2
      <3>2. lg[m.prev_log_index + 1].term = m.prev_log_term
        BY <2>1 DEF PrevMatches, LogAt
      <3> QED BY <3>1, <3>2
    <2> QED BY <2>1, <2>2, <2>3, PutAscends
  <1> QED BY <1>1, <1>2

\* An entry of the current term keeps them in order at the end of the log.
LEMMA AppendAscends ==
  ASSUME NEW lg \in Seq(LogEntry), NEW t \in Nat, NEW u \in Nat, t <= u,
         Ascends(lg, t), NEW e \in LogEntry, e.term = t
  PROVE  Append(lg, e) \in Seq(LogEntry) /\ Ascends(Append(lg, e), u)
  <1> DEFINE r == Append(lg, e)
             id == Len(lg)
  <1>1. r \in Seq(LogEntry) /\ id \in Nat
    OBVIOUS
  <1>2. Len(r) = id + 1 /\ r[id + 1] = e /\ \A i \in 1..id : r[i] = lg[i]
    OBVIOUS
  <1>3. Put(r, lg, id, e)
    BY <1>1, <1>2 DEF Put
  <1>4. id > 0 => lg[id].term <= e.term
    BY DEF Ascends
  <1> HIDE DEF r, id
  <1>5. Ascends(r, u)
    BY <1>1, <1>3, <1>4, PutAscends
  <1> QED BY <1>1, <1>5 DEF r

\* Terms never go back, and every step keeps them in order in all logs.
LEMMA LogsAscend ==
  ASSUME TypeOK, TypeOK', LeaderInv, LogInv, LogStep,
         \A k \in Node : current_term'[k] >= current_term[k]
  PROVE  LogTermsAscend'
  <1>1. /\ logs \in [Node -> Seq(LogEntry)] /\ logs' \in [Node -> Seq(LogEntry)]
        /\ current_term \in [Node -> Nat] /\ current_term' \in [Node -> Nat]
        /\ pending_commit \in [Node -> PendingCommit \cup {None}]
    BY DEF TypeOK
  <1> SUFFICES ASSUME NEW k \in Node
               PROVE  Ascends(logs'[k], current_term'[k])
    BY DEF LogTermsAscend, Ascends
  <1>2. Ascends(logs[k], current_term[k])
    BY DEF LogInv, LogTermsAscend, Ascends
  <1>3. current_term[k] \in Nat /\ current_term'[k] \in Nat
        /\ current_term[k] <= current_term'[k]
    BY <1>1
  <1>4. logs[k] \in Seq(LogEntry) /\ logs'[k] \in Seq(LogEntry)
    BY <1>1
  <1>5. CASE logs'[k] = logs[k]
    <2>1. Cut(logs'[k], logs[k])
      BY <1>4, <1>5 DEF Cut
    <2> QED BY <1>2, <1>3, <1>4, <2>1, CutAscends
  <1>6. CASE Applies(k)
    <2>1. PICK l \in Node : \E m \in Waiting(l, k) :
            m.term <= current_term'[k] /\ Applied(logs'[k], logs[k], m)
      BY <1>6 DEF Applies
    <2>2. PICK m \in Waiting(l, k) :
            m.term <= current_term'[k] /\ Applied(logs'[k], logs[k], m)
      BY <2>1
    <2>3. m \in AppendRequest
      BY WaitingType
    <2>4. m.entries # None /\ m.leader_commit > 0 =>
            m.prev_log_index = m.leader_commit - 1 /\ m.prev_log_term <= m.term
      BY DEF LogInv, RequestsAscend
    <2> QED BY <1>2, <1>3, <1>4, <2>2, <2>3, <2>4, AppliedAscends
  <1>7. CASE Completes(k)
    <2> DEFINE e == PendingEntry(k)
    <2>1. pending_commit[k] \in PendingCommit
      BY <1>1, <1>7 DEF Completes
    <2>2. e \in LogEntry /\ e.term = current_term[k]
      BY <1>7, <2>1
      DEF Completes, PendingEntry, PendingCommit, LogEntry, LeaderInv,
          LeadersHoldTheirTerm
    <2>3. logs'[k] = push_log(logs[k], pending_commit[k].id, e)
      BY <1>1, <1>7 DEF Completes
    <2> HIDE DEF e
    <2>4. logs'[k] = logs[k] \/ logs'[k] = Append(logs[k], e)
      BY <2>3 DEF push_log
    <2> QED BY <1>2, <1>3, <1>4, <1>5, <2>2, <2>4, AppendAscends
  <1>8. ASSUME NEW c \in Command, Takes(k, c)
        PROVE  Ascends(logs'[k], current_term'[k])
    <2> DEFINE e == [term |-> current_term[k], command |-> c]
    <2>1. e \in LogEntry /\ e.term = current_term[k]
      BY <1>3 DEF LogEntry
    <2>2. logs'[k] = logs[k] \/ logs'[k] = Append(logs[k], e)
      BY <1>1, <1>8 DEF Takes
    <2> HIDE DEF e
    <2> QED BY <1>2, <1>3, <1>4, <1>5, <2>1, <2>2, AppendAscends
  <1>9. \/ logs'[k] = logs[k] \/ Applies(k) \/ Completes(k)
        \/ \E c \in Command : Takes(k, c)
    <2>1. ASSUME NEW n \in Node, n # k,
                 Applies(n) \/ Completes(n) \/ \E c \in Command : Takes(n, c)
          PROVE  logs'[k] = logs[k]
      BY <1>1, <2>1 DEF Applies, Completes, Takes
    <2> QED BY <2>1 DEF LogStep, Quiet
  <1> QED BY <1>5, <1>6, <1>7, <1>8, <1>9

\* What a leader offers ascends as well.
LEMMA OfferedAscends ==
  ASSUME TypeOK, LeaderInv, LogTermsAscend, NEW n \in Node
  PROVE  Ascends(OfferedLog(n), current_term[n])
  <1>1. logs[n] \in Seq(LogEntry) /\ current_term[n] \in Nat
    BY DEF TypeOK
  <1>2. Ascends(logs[n], current_term[n])
    BY DEF LogTermsAscend, Ascends
  <1>3. CASE PendingIsValid(n)
    <2> DEFINE e == PendingEntry(n)
    <2>1. pending_commit[n] \in PendingCommit /\ pending_commit[n] # None
      BY <1>3 DEF TypeOK, PendingIsValid
    <2>2. e \in LogEntry /\ e.term = current_term[n]
      BY <2>1 DEF PendingEntry, PendingCommit, LogEntry, LeaderInv,
                  LeadersHoldTheirTerm
    <2>3. OfferedLog(n) = Append(logs[n], e)
      BY <1>3 DEF OfferedLog, PendingEntry
    <2> HIDE DEF e
    <2>4. current_term[n] <= current_term[n]
      BY <1>1
    <2> QED BY <1>1, <1>2, <2>2, <2>3, <2>4, AppendAscends
  <1>4. CASE ~PendingIsValid(n)
    BY <1>2, <1>4 DEF OfferedLog
  <1> QED BY <1>3, <1>4

\* In every step, a request is an old one or comes from a leader.
LEMMA OnlyLeadersSend ==
  ASSUME LogStep
  PROVE  LeadersSend
  BY DEF LogStep, Quiet, Applies, Completes, Takes, NothingSent, LeadersSend, Waiting

\* The requests stay in order.
LEMMA RequestsStayAscending ==
  ASSUME TypeOK, LeaderInv, LogInv, LogStep
  PROVE  RequestsAscend'
  <1> SUFFICES ASSUME NEW l \in Node, NEW f \in Node, NEW m \in Waiting(l, f)',
                      m.entries # None, m.leader_commit > 0
               PROVE  /\ m.prev_log_index = m.leader_commit - 1
                      /\ m.prev_log_term <= m.term
    BY DEF RequestsAscend
  <1>1. CASE m \in Waiting(l, f)
    BY <1>1 DEF LogInv, RequestsAscend
  <1>2. CASE m = AppendEntriesRequest(l, f)
    <2> DEFINE lg == OfferedLog(l)
               i == m.leader_commit
    <2>1. /\ i \in Nat /\ i < Len(lg) /\ lg[i + 1] = Entry(m)
          /\ m.prev_log_index = i - 1 /\ m.prev_log_term = lg[i].term
      BY <1>2, RequestEntry
    <2>2. Ascends(lg, current_term[l])
      BY OfferedAscends DEF LogInv
    <2>3. lg \in Seq(LogEntry)
      BY OfferedLogType
    <2> HIDE DEF lg
    <2>4. i + 1 \in DOMAIN lg /\ i + 1 > 1 /\ (i + 1) - 1 = i
      BY <2>1, <2>3
    <2>5. lg[i].term <= lg[i + 1].term
      BY <2>2, <2>4 DEF Ascends
    <2>6. lg[i + 1].term = m.term
      BY <2>1 DEF Entry
    <2> QED BY <2>1, <2>5, <2>6
  <1> QED BY <1>1, <1>2, OnlyLeadersSend DEF LeadersSend

\* Only elected nodes send, and not to themselves.
LEMMA SendersStayElected ==
  ASSUME TypeOK, TypeOK', LeaderInv, LogInv, LogStep, elected \subseteq elected'
  PROVE  SendersWereElected'
  <1> SUFFICES ASSUME NEW l \in Node, NEW f \in Node, append_requests'[l][f] # <<>>
               PROVE  l # f /\ \E e \in elected' : e[2] = l
    BY DEF SendersWereElected
  <1> DEFINE q == append_requests'[l][f]
  <1>1. q \in Seq(AppendRequest)
    BY DEF TypeOK
  <1>2. 1 \in DOMAIN q
    BY <1>1
  <1>3. q[1] \in Waiting(l, f)'
    BY <1>2 DEF Waiting
  <1>4. CASE q[1] \in Waiting(l, f)
    <2>1. append_requests[l][f] # <<>>
      BY <1>4, WaitingType
    <2> QED BY <2>1 DEF LogInv, SendersWereElected
  <1>5. CASE l # f /\ state[l] = "Leader"
    <2>1. <<current_term[l], l>> \in elected'
      BY <1>5 DEF LeaderInv, LeadersHoldTheirTerm
    <2> QED BY <1>5, <2>1
  <1> QED BY <1>3, <1>4, <1>5, OnlyLeadersSend DEF LeadersSend

-----------------------------------------------------------------------------
(* Slots                                                                    *)

\* The copies of entries.
LEMMA SlotMembers ==
  ASSUME NEW n \in Node
  PROVE  /\ \A i \in DOMAIN logs[n] : Slot(i - 1, logs[n][i]) \in Slots
         /\ pending_commit[n] # None =>
              Slot(pending_commit[n].id, PendingEntry(n)) \in Slots
         /\ \A f \in Node : \A m \in Waiting(n, f) : m.entries # None =>
              Slot(m.leader_commit, Entry(m)) \in Slots
  BY DEF Slots, SlotsOf, LogSlots, PendingSlots, RequestSlots

\* What a leader offers is a copy.
LEMMA OfferedSlot ==
  ASSUME TypeOK, NEW n \in Node, NEW i \in Nat, i < Len(OfferedLog(n))
  PROVE  Slot(i, OfferedLog(n)[i + 1]) \in Slots
  <1>1. logs[n] \in Seq(LogEntry)
    BY DEF TypeOK
  <1>2. CASE i < Len(logs[n])
    <2>1. i + 1 \in DOMAIN logs[n] /\ (i + 1) - 1 = i
      BY <1>1, <1>2
    <2>2. OfferedLog(n)[i + 1] = logs[n][i + 1]
      BY <1>1, <1>2, OfferedFacts DEF OfferedIsLog
    <2>3. Slot((i + 1) - 1, logs[n][i + 1]) \in Slots
      BY <2>1, SlotMembers
    <2> QED BY <2>1, <2>2, <2>3
  <1>3. CASE ~(i < Len(logs[n]))
    <2>1. PendingIsValid(n) /\ i = Len(logs[n]) /\ OfferedLog(n)[i + 1] = PendingEntry(n)
      BY <1>1, <1>3, OfferedFacts DEF OfferedIsLog
    <2> QED BY <2>1, SlotMembers DEF PendingIsValid
  <1> QED BY <1>2, <1>3

\* What waits after a step is a copy of what there was.
LEMMA RequestSlotsKept ==
  ASSUME TypeOK, LogStep, NEW l \in Node, NEW f \in Node
  PROVE  RequestSlots(l, f)' \subseteq Slots
  <1> SUFFICES ASSUME NEW m \in Waiting(l, f)', m.entries # None
               PROVE  Slot(m.leader_commit, Entry(m)) \in Slots
    BY DEF RequestSlots, Slot, Entry
  <1>1. CASE m \in Waiting(l, f)
    BY <1>1, SlotMembers
  <1>2. CASE m = AppendEntriesRequest(l, f)
    <2>1. /\ m.leader_commit \in Nat /\ m.leader_commit < Len(OfferedLog(l))
          /\ OfferedLog(l)[m.leader_commit + 1] = Entry(m)
      BY <1>2, RequestEntry
    <2>2. Slot(m.leader_commit, OfferedLog(l)[m.leader_commit + 1]) \in Slots
      BY <2>1, OfferedSlot
    <2> QED BY <2>1, <2>2
  <1> QED BY <1>1, <1>2, OnlyLeadersSend DEF LeadersSend

\* The slot that commit_command gives the command c.
NewSlot(n, c) == Slot(Len(logs[n]), [term |-> current_term[n], command |-> c])

\* The last entry of a log may be new, the others were there.
LEMMA AppendedSlots ==
  ASSUME TypeOK, NEW k \in Node, NEW e, logs'[k] = Append(logs[k], e),
         NEW i \in DOMAIN logs'[k]
  PROVE  Slot(i - 1, logs'[k][i]) \in Slots \cup {Slot(Len(logs[k]), e)}
  <1> DEFINE lg == logs[k]
  <1>1. lg \in Seq(LogEntry)
    BY DEF TypeOK
  <1>2. i \in DOMAIN Append(lg, e) /\ logs'[k][i] = Append(lg, e)[i]
    OBVIOUS
  <1> HIDE DEF lg
  <1>3. CASE i \in DOMAIN lg
    <2>1. Append(lg, e)[i] = lg[i]
      BY <1>1, <1>3
    <2> QED BY <1>2, <1>3, <2>1, SlotMembers DEF lg
  <1>4. CASE i \notin DOMAIN lg
    <2>1. i = Len(lg) + 1 /\ Append(lg, e)[i] = e /\ i - 1 = Len(lg)
      BY <1>1, <1>2, <1>4
    <2>2. Slot(i - 1, logs'[k][i]) = Slot(Len(lg), e)
      BY <1>2, <2>1
    <2> QED BY <2>2 DEF lg
  <1> QED BY <1>3, <1>4

\* What is in a log after a step is a copy, or the command just taken.
LEMMA LogSlotsKept ==
  ASSUME TypeOK, TypeOK', LogStep, NEW k \in Node, NEW i \in DOMAIN logs'[k]
  PROVE  \/ Slot(i - 1, logs'[k][i]) \in Slots
         \/ \E c \in Command :
              Takes(k, c) /\ Slot(i - 1, logs'[k][i]) = NewSlot(k, c)
  <1>1. /\ logs \in [Node -> Seq(LogEntry)] /\ logs' \in [Node -> Seq(LogEntry)]
        /\ pending_commit \in [Node -> PendingCommit \cup {None}]
    BY DEF TypeOK
  <1>2. logs[k] \in Seq(LogEntry) /\ logs'[k] \in Seq(LogEntry)
    BY <1>1
  <1>3. CASE logs'[k] = logs[k]
    BY <1>3, SlotMembers
  <1>4. CASE Applies(k)
    <2>1. PICK l \in Node : \E m \in Waiting(l, k) : Applied(logs'[k], logs[k], m)
      BY <1>4 DEF Applies
    <2>2. PICK m \in Waiting(l, k) : Applied(logs'[k], logs[k], m)
      BY <2>1
    <2>3. ASSUME i \in DOMAIN logs[k], logs'[k][i] = logs[k][i]
          PROVE  Slot(i - 1, logs'[k][i]) \in Slots
      BY <2>3, SlotMembers
    <2>4. CASE Cut(logs'[k], logs[k])
      <3>1. i \in DOMAIN logs[k] /\ logs'[k][i] = logs[k][i]
        BY <1>2, <2>4 DEF Cut
      <3> QED BY <2>3, <3>1
    <2>5. CASE m.entries # None /\ Put(logs'[k], logs[k], m.leader_commit, Entry(m))
      <3>1. m \in AppendRequest
        BY WaitingType
      <3>2. m.leader_commit \in Nat
        BY <3>1 DEF AppendRequest
      <3>3. CASE i = m.leader_commit + 1
        <4>1. logs'[k][i] = Entry(m) /\ i - 1 = m.leader_commit
          BY <2>5, <3>2, <3>3 DEF Put
        <4> QED BY <2>5, <4>1, SlotMembers
      <3>4. CASE i # m.leader_commit + 1
        <4>1. i \in 1..m.leader_commit /\ m.leader_commit <= Len(logs[k])
          BY <1>2, <2>5, <3>2, <3>4 DEF Put
        <4>2. i \in DOMAIN logs[k] /\ logs'[k][i] = logs[k][i]
          BY <1>2, <2>5, <3>2, <4>1 DEF Put
        <4> QED BY <2>3, <4>2
      <3> QED BY <3>3, <3>4
    <2> QED BY <2>2, <2>4, <2>5 DEF Applied
  <1>5. CASE Completes(k)
    <2> DEFINE e == PendingEntry(k)
               id == pending_commit[k].id
    <2>1. logs'[k] = push_log(logs[k], id, e) /\ pending_commit[k] # None
      BY <1>1, <1>5 DEF Completes
    <2>2. Slot(id, e) \in Slots
      BY <2>1, SlotMembers
    <2> HIDE DEF e, id
    <2>3. logs'[k] = logs[k] \/ (logs'[k] = Append(logs[k], e) /\ id = Len(logs[k]))
      BY <2>1 DEF push_log
    <2>4. CASE logs'[k] = Append(logs[k], e) /\ id = Len(logs[k])
      <3>1. Slot(i - 1, logs'[k][i]) \in Slots \cup {Slot(Len(logs[k]), e)}
        BY <2>4, AppendedSlots
      <3> QED BY <2>2, <2>4, <3>1
    <2> QED BY <1>3, <2>3, <2>4
  <1>6. ASSUME NEW c \in Command, Takes(k, c)
        PROVE  Slot(i - 1, logs'[k][i]) \in Slots \cup {NewSlot(k, c)}
    <2> DEFINE e == [term |-> current_term[k], command |-> c]
    <2>1. logs'[k] = logs[k] \/ logs'[k] = Append(logs[k], e)
      BY <1>1, <1>6 DEF Takes
    <2>2. NewSlot(k, c) = Slot(Len(logs[k]), e)
      BY DEF NewSlot
    <2> HIDE DEF e
    <2>3. CASE logs'[k] = Append(logs[k], e)
      BY <2>2, <2>3, AppendedSlots
    <2>4. CASE logs'[k] = logs[k]
      BY <2>4, SlotMembers
    <2> QED BY <2>1, <2>3, <2>4
  <1>7. \/ logs'[k] = logs[k] \/ Applies(k) \/ Completes(k)
        \/ \E c \in Command : Takes(k, c)
    <2>1. ASSUME NEW n \in Node, n # k,
                 Applies(n) \/ Completes(n) \/ \E c \in Command : Takes(n, c)
          PROVE  logs'[k] = logs[k]
      BY <1>1, <2>1 DEF Applies, Completes, Takes
    <2> QED BY <2>1 DEF LogStep, Quiet
  <1> QED BY <1>3, <1>4, <1>5, <1>6, <1>7

\* The same of the pending commits.
LEMMA PendingSlotsKept ==
  ASSUME TypeOK, LogStep, NEW k \in Node, pending_commit'[k] # None
  PROVE  LET a == Slot(pending_commit'[k].id, PendingEntry(k)')
         IN  a \in Slots \/ \E c \in Command : Takes(k, c) /\ a = NewSlot(k, c)
  <1> DEFINE a == Slot(pending_commit'[k].id, PendingEntry(k)')
  <1>1. pending_commit \in [Node -> PendingCommit \cup {None}]
    BY DEF TypeOK
  <1>2. CASE PendingKept(k)
    <2>1. /\ pending_commit[k] # None
          /\ a = Slot(pending_commit[k].id, PendingEntry(k))
      BY <1>2 DEF PendingKept, Slot, PendingEntry
    <2> QED BY <2>1, SlotMembers
  <1>3. ASSUME NEW c \in Command, Takes(k, c), pending_commit'[k] # pending_commit[k]
        PROVE  a = NewSlot(k, c)
    <2>1. pending_commit'[k] =
            [id |-> Len(logs[k]), term |-> current_term[k], command |-> c,
             result_map |-> [f \in Node |-> None]]
      BY <1>1, <1>3 DEF Takes
    <2> QED BY <2>1 DEF Slot, PendingEntry, NewSlot
  <1>4. CASE pending_commit'[k] = pending_commit[k]
    <2>1. a = Slot(pending_commit[k].id, PendingEntry(k)) /\ pending_commit[k] # None
      BY <1>4 DEF Slot, PendingEntry
    <2> QED BY <2>1, SlotMembers
  <1>5. \/ PendingKept(k) \/ pending_commit'[k] = pending_commit[k]
        \/ \E c \in Command : Takes(k, c)
    <2>1. ASSUME NEW n \in Node, Completes(n)
          PROVE  pending_commit'[k] = pending_commit[k]
      BY <1>1, <2>1 DEF Completes
    <2>2. ASSUME NEW n \in Node, n # k, NEW c \in Command, Takes(n, c)
          PROVE  pending_commit'[k] = pending_commit[k]
      BY <1>1, <2>2 DEF Takes
    <2> QED BY <2>1, <2>2 DEF LogStep, Quiet, Applies
  <1> QED BY <1>2, <1>3, <1>4, <1>5

\* A step copies, or takes one new command.
LEMMA SlotsGrow ==
  ASSUME TypeOK, TypeOK', LogStep
  PROVE  \A a \in Slots' : \/ a \in Slots
                           \/ \E n \in Node, c \in Command :
                                Takes(n, c) /\ a = NewSlot(n, c)
  <1> SUFFICES ASSUME NEW a \in Slots', a \notin Slots
               PROVE  \E n \in Node, c \in Command : Takes(n, c) /\ a = NewSlot(n, c)
    OBVIOUS
  <1>1. PICK k \in Node : a \in SlotsOf(k)'
    BY DEF Slots
  <1>2. CASE a \in LogSlots(k)'
    <2>1. PICK i \in DOMAIN logs'[k] : a = Slot(i - 1, logs'[k][i])
      BY <1>2 DEF LogSlots, Slot
    <2> QED BY <2>1, LogSlotsKept
  <1>3. CASE a \in PendingSlots(k)'
    <2>1. pending_commit'[k] # None /\ a = Slot(pending_commit'[k].id, PendingEntry(k)')
      BY <1>3 DEF PendingSlots, Slot, PendingEntry
    <2> QED BY <2>1, PendingSlotsKept
  <1>4. ASSUME NEW f \in Node, a \in RequestSlots(k, f)'
        PROVE  FALSE
    BY <1>4, RequestSlotsKept
  <1>5. \/ a \in LogSlots(k)' \/ a \in PendingSlots(k)'
        \/ \E f \in Node : a \in RequestSlots(k, f)'
    BY <1>1 DEF SlotsOf
  <1> QED BY <1>2, <1>3, <1>4, <1>5

\* One node takes one command.
LEMMA TakesOnce ==
  ASSUME TypeOK, PromiseInv, NEW n1 \in Node, NEW c1 \in Command, Takes(n1, c1),
         NEW n2 \in Node, NEW c2 \in Command, Takes(n2, c2)
  PROVE  n1 = n2 /\ c1 = c2
  <1>1. c1 = c2
    BY DEF Takes
  <1> SUFFICES ASSUME n1 # n2 PROVE FALSE
    BY <1>1
  <1>2. /\ logs \in [Node -> Seq(LogEntry)]
        /\ pending_commit \in [Node -> PendingCommit \cup {None}]
        /\ current_term \in [Node -> Nat]
    BY DEF TypeOK
  <1>3. Cardinality(Node) \in Nat
    BY NodeAssumption, FS_CardinalityType
  <1>4. CASE Cardinality(Node) <= 1
    <2> DEFINE e == [term |-> current_term[n1], command |-> c1]
    <2>1. logs' = [logs EXCEPT ![n1] = Append(@, e)]
      BY <1>3, <1>4 DEF Takes
    <2>2. logs'[n1] = Append(logs[n1], e)
      BY <1>2, <2>1
    <2>3. \E x : logs' = [logs EXCEPT ![n2] = x]
      BY <1>3, <1>4 DEF Takes
    <2>4. logs'[n1] = logs[n1]
      BY <1>2, <2>3
    <2>5. logs[n1] \in Seq(LogEntry) /\ e \in LogEntry
      BY <1>2 DEF LogEntry
    <2> HIDE DEF e
    <2>6. Len(Append(logs[n1], e)) = Len(logs[n1]) + 1 /\ Len(logs[n1]) \in Nat
      BY <2>5
    <2> QED BY <2>2, <2>4, <2>6
  <1>5. CASE Cardinality(Node) > 1
    <2> DEFINE commit == [id |-> Len(logs[n1]), term |-> current_term[n1],
                          command |-> c1, result_map |-> [f \in Node |-> None]]
    <2>1. pending_commit' = [pending_commit EXCEPT ![n1] = commit]
      BY <1>3, <1>5 DEF Takes
    <2>2. \E x : pending_commit' = [pending_commit EXCEPT ![n2] = x]
      BY <1>3, <1>5 DEF Takes
    <2>3. pending_commit[n1] = commit
      BY <1>2, <2>1, <2>2
    <2>4. commit \in PendingCommit /\ commit.command = c1
      BY <1>2 DEF PendingCommit
    <2> HIDE DEF commit
    <2>5. pending_commit[n1] # None
      BY <2>3, <2>4, PendingAssumption
    <2>6. c1 \in submitted
      BY <2>3, <2>4, <2>5 DEF PromiseInv, PendingIsOpen
    <2> QED BY <2>6 DEF Takes
  <1> QED BY <1>3, <1>4, <1>5

\* All copies stay equal: a new command has no copy yet.
LEMMA SlotsStayOne ==
  ASSUME TypeOK, TypeOK', LeaderInv, PromiseInv, LogInv, LogStep,
         submitted \subseteq submitted', elected \subseteq elected'
  PROVE  SlotsAgree' /\ SlotsAreSubmitted'
  <1>1. \A a \in Slots' : \/ a \in Slots
                          \/ \E n \in Node, c \in Command :
                               Takes(n, c) /\ a = NewSlot(n, c)
    BY SlotsGrow
  <1>2. \A n \in Node, c \in Command : NewSlot(n, c).command = c
                                      /\ NewSlot(n, c).term = current_term[n]
    BY DEF NewSlot, Slot
  <1>3. SlotsAgree'
    <2> SUFFICES ASSUME NEW a \in Slots', NEW b \in Slots', a.command = b.command
                 PROVE  a = b
      BY DEF SlotsAgree
    <2>1. CASE a \in Slots /\ b \in Slots
      BY <2>1 DEF LogInv, SlotsAgree
    <2>2. ASSUME NEW x \in Slots, NEW n \in Node, NEW c \in Command, Takes(n, c)
          PROVE  x.command # c
      BY <2>2 DEF LogInv, SlotsAreSubmitted, Takes
    <2>3. CASE a \notin Slots /\ b \notin Slots
      <3>1. PICK n1 \in Node, c1 \in Command : Takes(n1, c1) /\ a = NewSlot(n1, c1)
        BY <1>1, <2>3
      <3>2. PICK n2 \in Node, c2 \in Command : Takes(n2, c2) /\ b = NewSlot(n2, c2)
        BY <1>1, <2>3
      <3> QED BY <3>1, <3>2, TakesOnce
    <2> QED BY <1>1, <1>2, <2>1, <2>2, <2>3
  <1>4. SlotsAreSubmitted'
    <2> SUFFICES ASSUME NEW a \in Slots'
                 PROVE  a.command \in submitted' /\ \E e \in elected' : e[1] = a.term
      BY DEF SlotsAreSubmitted
    <2>1. CASE a \in Slots
      BY <2>1 DEF LogInv, SlotsAreSubmitted
    <2>2. ASSUME NEW n \in Node, NEW c \in Command, Takes(n, c), a = NewSlot(n, c)
          PROVE  a.command \in submitted' /\ \E e \in elected' : e[1] = a.term
      <3>1. state[n] = "Leader" /\ c \in submitted'
        BY <2>2 DEF Takes
      <3>2. <<current_term[n], n>> \in elected'
        BY <3>1 DEF LeaderInv, LeadersHoldTheirTerm
      <3>3. a.command = c /\ a.term = current_term[n]
        BY <1>2, <2>2
      <3> QED BY <3>1, <3>2, <3>3
    <2> QED BY <1>1, <2>1, <2>2
  <1> QED BY <1>3, <1>4

\* So a command has one id and one term in all logs.
LEMMA SlotsGiveOneId ==
  ASSUME TypeOK, SlotsAgree, SlotsAreSubmitted
  PROVE  OneSlotPerCommand
  <1> SUFFICES ASSUME NEW n1 \in Node, NEW n2 \in Node,
                      NEW i \in DOMAIN logs[n1], NEW j \in DOMAIN logs[n2]
               PROVE  /\ logs[n1][i].command = logs[n2][j].command
                           => i = j /\ logs[n1][i].term = logs[n2][j].term
                      /\ \E e \in elected : e[1] = logs[n1][i].term
    BY DEF OneSlotPerCommand
  <1> DEFINE a == Slot(i - 1, logs[n1][i])
             b == Slot(j - 1, logs[n2][j])
  <1>1. a \in Slots /\ b \in Slots
    BY SlotMembers
  <1>2. /\ a.id = i - 1 /\ a.term = logs[n1][i].term /\ a.command = logs[n1][i].command
        /\ b.id = j - 1 /\ b.term = logs[n2][j].term /\ b.command = logs[n2][j].command
    BY DEF Slot
  <1>3. i \in Nat /\ j \in Nat
    <2>1. logs[n1] \in Seq(LogEntry) /\ logs[n2] \in Seq(LogEntry)
      BY DEF TypeOK
    <2> QED BY <2>1
  <1>4. i - 1 = j - 1 => i = j
    BY <1>3
  <1> HIDE DEF a, b
  <1> QED BY <1>1, <1>2, <1>4 DEF SlotsAgree, SlotsAreSubmitted

-----------------------------------------------------------------------------
(* The logs of the followers                                                *)

\* Before the first election there is nothing to copy.
LEMMA NoLeaderNoSlots ==
  ASSUME TypeOK, TypeOK', LeaderInv, LogInv, LogStep, elected = {}
  PROVE  Slots' = {}
  <1>1. Slots = {}
    BY DEF LogInv, SlotsAreSubmitted
  <1>2. \A n \in Node, c \in Command : ~Takes(n, c)
    BY DEF Takes, LeaderInv, LeadersHoldTheirTerm
  <1> QED BY <1>1, <1>2, SlotsGrow

\* The only leader there has been goes on offering what it offered.
LEMMA OfferGrows ==
  ASSUME TypeOK, TypeOK', LogInv, LogStep, NEW l \in Node,
         OnlyLeader(l), state'[l] = "Leader"
  PROVE  /\ Len(OfferedLog(l)) <= Len(OfferedLog(l)')
         /\ \A i \in 1..Len(OfferedLog(l)) : OfferedLog(l)'[i] = OfferedLog(l)[i]
  <1>1. OfferedIsLog(l) /\ OfferedIsLog(l)'
    <2>1. (\A n \in Node : OfferedIsLog(n)) /\ (\A n \in Node : OfferedIsLog(n))'
      BY OfferedFacts, PTL
    <2> QED BY <2>1
  <1>2. /\ logs \in [Node -> Seq(LogEntry)] /\ logs' \in [Node -> Seq(LogEntry)]
        /\ pending_commit \in [Node -> PendingCommit \cup {None}]
    BY DEF TypeOK
  <1>3. logs[l] \in Seq(LogEntry) /\ logs'[l] \in Seq(LogEntry)
    BY <1>2
  <1>4. Len(logs[l]) \in Nat /\ Len(logs'[l]) \in Nat
    BY <1>3
  <1>5. OfferedLog(l) \in Seq(LogEntry)
    BY OfferedLogType
  <1>6. CASE OfferedLog(l)' = OfferedLog(l)
    BY <1>5, <1>6
  <1>7. CASE logs'[l] = logs[l] /\ ~PendingIsValid(l)
    <2>1. OfferedLog(l) = logs[l]
      BY <1>7 DEF OfferedLog
    <2>2. /\ Len(OfferedLog(l)') >= Len(logs'[l])
          /\ \A i \in 1..Len(logs'[l]) : OfferedLog(l)'[i] = logs'[l][i]
      BY <1>1, <1>4 DEF OfferedIsLog
    <2> QED BY <1>4, <1>7, <2>1, <2>2
  <1>8. CASE logs'[l] = logs[l] /\ PendingKept(l)
    <2>1. CASE PendingIsValid(l)
      <3>1. /\ pending_commit[l] # None /\ pending_commit'[l] # None
            /\ pending_commit'[l].id = pending_commit[l].id
            /\ pending_commit'[l].term = pending_commit[l].term
            /\ pending_commit'[l].command = pending_commit[l].command
        BY <1>8, <2>1 DEF PendingKept
      <3>2. OfferedLog(l)' = OfferedLog(l)
        BY <1>8, <3>1 DEF OfferedLog, PendingIsValid
      <3> QED BY <1>6, <3>2
    <2> QED BY <1>7, <1>8, <2>1
  <1>9. ASSUME NEW n \in Node, Applies(n)
        PROVE  logs'[l] = logs[l] /\ PendingKept(l)
    <2>1. n # l
      <3> SUFFICES ASSUME n = l PROVE FALSE
        OBVIOUS
      <3>1. PICK k \in Node : Waiting(k, l) # {}
        BY <1>9 DEF Applies
      <3>2. append_requests[k][l] # <<>>
        BY <3>1, WaitingType
      <3>3. k # l /\ \E e \in elected : e[2] = k
        BY <3>2 DEF LogInv, SendersWereElected
      <3> QED BY <3>3 DEF OnlyLeader
    <2> QED BY <1>9, <2>1 DEF Applies
  <1>10. CASE logs'[l] = logs[l] /\ pending_commit'[l] = pending_commit[l]
    <2>1. OfferedLog(l)' = OfferedLog(l)
      BY <1>10 DEF OfferedLog, PendingIsValid
    <2> QED BY <1>6, <2>1
  <1>11. CASE Completes(l)
    <2> DEFINE e == PendingEntry(l)
    <2>1. /\ pending_commit'[l] = None /\ pending_commit[l] # None
          /\ logs'[l] = push_log(logs[l], pending_commit[l].id, e)
      BY <1>2, <1>11 DEF Completes
    <2>2. OfferedLog(l)' = logs'[l]
      BY <2>1 DEF OfferedLog, PendingIsValid
    <2>3. OfferedLog(l) = logs'[l]
      BY <2>1 DEF OfferedLog, PendingIsValid, push_log, PendingEntry
    <2> QED BY <1>6, <2>2, <2>3
  <1>12. ASSUME NEW c \in Command, Takes(l, c)
         PROVE  /\ Len(OfferedLog(l)) <= Len(OfferedLog(l)')
                /\ \A i \in 1..Len(OfferedLog(l)) :
                     OfferedLog(l)'[i] = OfferedLog(l)[i]
    <2> DEFINE e == [term |-> current_term[l], command |-> c]
    <2>1. ~PendingIsValid(l)
      BY <1>12 DEF Takes
    <2>2. OfferedLog(l) = logs[l]
      BY <2>1 DEF OfferedLog
    <2>3. logs'[l] = logs[l] \/ logs'[l] = Append(logs[l], e)
      BY <1>2, <1>12 DEF Takes
    <2> HIDE DEF e
    <2>4. CASE logs'[l] = Append(logs[l], e)
      <3>1. /\ Len(logs'[l]) = Len(logs[l]) + 1
            /\ \A i \in 1..Len(logs[l]) : logs'[l][i] = logs[l][i]
        BY <1>3, <2>4
      <3>2. /\ Len(OfferedLog(l)') >= Len(logs'[l])
            /\ \A i \in 1..Len(logs'[l]) : OfferedLog(l)'[i] = logs'[l][i]
        BY <1>1, <1>4 DEF OfferedIsLog
      <3>3. Len(OfferedLog(l)') \in Nat
        BY <1>1, <1>4 DEF OfferedIsLog
      <3> QED BY <1>4, <2>2, <3>1, <3>2, <3>3
    <2> QED BY <1>7, <2>1, <2>3, <2>4
  <1>13. ASSUME NEW n \in Node, n # l,
                Completes(n) \/ \E c \in Command : Takes(n, c)
         PROVE  logs'[l] = logs[l] /\ pending_commit'[l] = pending_commit[l]
    BY <1>2, <1>13 DEF Completes, Takes
  <1> QED
    BY <1>8, <1>9, <1>10, <1>11, <1>12, <1>13 DEF LogStep, Quiet

\* While there is one leader only, logs and requests keep to what it offers.
LEMMA OneLeaderIsFollowed ==
  ASSUME TypeOK, TypeOK', LeaderInv, LogInv, LogStep, NEW l \in Node,
         OnlyLeader(l), state'[l] = "Leader"
  PROVE  /\ \A f \in Node :
              /\ Len(logs'[f]) <= Len(OfferedLog(l)')
              /\ \A i \in DOMAIN logs'[f] : logs'[f][i] = OfferedLog(l)'[i]
         /\ \A k, f \in Node : \A m \in Waiting(k, f)' : m.entries # None =>
              /\ m.leader_commit < Len(OfferedLog(l)')
              /\ OfferedLog(l)'[m.leader_commit + 1] = Entry(m)
  <1> DEFINE off == OfferedLog(l)
             new == OfferedLog(l)'
  <1>1. Len(off) <= Len(new) /\ \A i \in 1..Len(off) : new[i] = off[i]
    BY OfferGrows
  <1>2. off \in Seq(LogEntry)
    BY OfferedLogType
  <1>4. new \in Seq(LogEntry)
    <2>1. (\A n \in Node : OfferedLog(n) \in Seq(LogEntry))'
      BY OfferedTypes, PTL
    <2> QED BY <2>1
  <1>5. OfferedIsLog(l)'
    <2>1. (\A n \in Node : OfferedIsLog(n))'
      BY OfferedFacts, PTL
    <2> QED BY <2>1
  <1>6. /\ logs \in [Node -> Seq(LogEntry)] /\ logs' \in [Node -> Seq(LogEntry)]
    BY DEF TypeOK
  <1>7. ASSUME NEW k \in Node, state[k] = "Leader"
        PROVE  k = l
    BY <1>7 DEF OnlyLeader, LeaderInv, LeadersHoldTheirTerm
  <1>8. \A f \in Node : /\ Len(logs[f]) <= Len(off)
                       /\ \A i \in DOMAIN logs[f] : logs[f][i] = off[i]
    BY DEF LogInv, FollowersTrailLeader, OnlyLeader
  <1>9. \A k, f \in Node : \A m \in Waiting(k, f) : m.entries # None =>
          m.leader_commit < Len(off) /\ off[m.leader_commit + 1] = Entry(m)
    BY DEF LogInv, RequestsTrailLeader
  <1> HIDE DEF off, new
  <1>10. ASSUME NEW f \in Node
         PROVE  /\ Len(logs'[f]) <= Len(new)
                /\ \A i \in DOMAIN logs'[f] : logs'[f][i] = new[i]
    <2>1. logs[f] \in Seq(LogEntry) /\ logs'[f] \in Seq(LogEntry)
      BY <1>6
    <2>2. CASE Cut(logs'[f], logs[f])
      <3>1. Len(logs'[f]) <= Len(logs[f]) /\ Len(logs[f]) <= Len(off)
        BY <1>8, <2>2 DEF Cut
      <3>2. Len(logs'[f]) <= Len(off)
        BY <1>2, <2>1, <3>1
      <3>3. \A i \in DOMAIN logs'[f] :
              /\ i \in DOMAIN logs[f] /\ i \in 1..Len(off)
              /\ logs'[f][i] = logs[f][i]
        BY <1>2, <2>1, <2>2, <3>1, <3>2 DEF Cut
      <3> QED BY <1>1, <1>2, <1>4, <1>8, <2>1, <3>2, <3>3
    <2>3. CASE logs'[f] = logs[f]
      <3>1. Cut(logs'[f], logs[f])
        BY <2>1, <2>3 DEF Cut
      <3> QED BY <2>2, <3>1
    <2>4. CASE Applies(f)
      <3>1. PICK k \in Node : \E m \in Waiting(k, f) : Applied(logs'[f], logs[f], m)
        BY <2>4 DEF Applies
      <3>2. PICK m \in Waiting(k, f) : Applied(logs'[f], logs[f], m)
        BY <3>1
      <3>3. CASE m.entries # None /\ Put(logs'[f], logs[f], m.leader_commit, Entry(m))
        <4> DEFINE id == m.leader_commit
        <4>1. m \in AppendRequest
          BY WaitingType
        <4>2. id \in Nat
          BY <4>1 DEF AppendRequest
        <4>3. id < Len(off) /\ off[id + 1] = Entry(m)
          BY <1>9, <3>3
        <4>4. /\ id <= Len(logs[f]) /\ Len(logs'[f]) = id + 1
              /\ logs'[f][id + 1] = Entry(m)
              /\ \A i \in 1..id : logs'[f][i] = logs[f][i]
          BY <3>3 DEF Put
        <4> HIDE DEF id
        <4>5. Len(logs'[f]) <= Len(off)
          BY <1>2, <4>2, <4>3, <4>4
        <4>6. ASSUME NEW i \in DOMAIN logs'[f]
              PROVE  i \in 1..Len(off) /\ logs'[f][i] = off[i]
          <5>1. i \in 1..(id + 1) /\ i \in 1..Len(off)
            BY <1>2, <2>1, <4>2, <4>4, <4>5
          <5>2. CASE i = id + 1
            BY <4>3, <4>4, <5>1, <5>2
          <5>3. CASE i # id + 1
            <6>1. i \in 1..id /\ i \in DOMAIN logs[f]
              BY <2>1, <4>2, <4>4, <5>1, <5>3
            <6> QED BY <1>8, <4>4, <5>1, <6>1
          <5> QED BY <5>2, <5>3
        <4> QED BY <1>1, <1>2, <1>4, <2>1, <4>5, <4>6
      <3> QED BY <2>2, <3>2, <3>3 DEF Applied
    <2>5. CASE f = l
      <3>1. /\ Len(logs'[l]) <= Len(new)
            /\ \A i \in 1..Len(logs'[l]) : new[i] = logs'[l][i]
        BY <1>5, <2>1, <2>5 DEF OfferedIsLog, new
      <3> QED BY <2>1, <2>5, <3>1
    <2>6. ASSUME Completes(f) \/ \E c \in Command : Takes(f, c)
          PROVE  f = l
      <3>1. state[f] = "Leader"
        BY <2>6 DEF Completes, Takes, LeaderInv, LeadersHoldTheirTerm
      <3> QED BY <1>7, <3>1
    <2>7. \/ logs'[f] = logs[f] \/ Applies(f) \/ Completes(f)
          \/ \E c \in Command : Takes(f, c)
      <3>1. ASSUME NEW n \in Node, n # f,
                   Applies(n) \/ Completes(n) \/ \E c \in Command : Takes(n, c)
            PROVE  logs'[f] = logs[f]
        BY <1>6, <3>1 DEF Applies, Completes, Takes
      <3> QED BY <3>1 DEF LogStep, Quiet
    <2> QED BY <2>3, <2>4, <2>5, <2>6, <2>7
  <1>11. ASSUME NEW k \in Node, NEW f \in Node, NEW m \in Waiting(k, f)',
                m.entries # None
         PROVE  m.leader_commit < Len(new) /\ new[m.leader_commit + 1] = Entry(m)
    <2>1. /\ m.leader_commit \in Nat /\ m.leader_commit < Len(off)
          /\ off[m.leader_commit + 1] = Entry(m)
      <3>1. CASE m \in Waiting(k, f)
        <4>1. m \in AppendRequest
          BY <3>1, WaitingType
        <4>2. m.leader_commit \in Nat
          BY <4>1 DEF AppendRequest
        <4> QED BY <1>9, <1>11, <3>1, <4>2
      <3>2. CASE state[k] = "Leader" /\ m = AppendEntriesRequest(k, f)
        <4>1. k = l
          BY <1>7, <3>2
        <4> QED BY <1>11, <3>2, <4>1, RequestEntry DEF off
      <3> QED BY <3>1, <3>2, OnlyLeadersSend DEF LeadersSend
    <2>2. m.leader_commit + 1 \in 1..Len(off) /\ m.leader_commit < Len(new)
      BY <1>1, <1>2, <1>4, <2>1
    <2> QED BY <1>1, <2>1, <2>2
  <1> QED BY <1>10, <1>11 DEF new

\* As long as there has been one leader only, everybody trails it.
LEMMA TrailsKept ==
  ASSUME TypeOK, TypeOK', LeaderInv, LogInv, LogStep, LeadersStay,
         elected \subseteq elected'
  PROVE  FollowersTrailLeader' /\ RequestsTrailLeader'
  <1> SUFFICES ASSUME NEW l \in Node, OnlyLeader(l)'
               PROVE  /\ \A f \in Node :
                           /\ Len(logs'[f]) <= Len(OfferedLog(l)')
                           /\ \A i \in DOMAIN logs'[f] :
                                logs'[f][i] = OfferedLog(l)'[i]
                      /\ \A k, f \in Node : \A m \in Waiting(k, f)' :
                           m.entries # None =>
                             /\ m.leader_commit < Len(OfferedLog(l)')
                             /\ OfferedLog(l)'[m.leader_commit + 1] = Entry(m)
    BY DEF FollowersTrailLeader, RequestsTrailLeader, OnlyLeader, Entry
  <1>1. state'[l] = "Leader" /\ elected' = {<<current_term'[l], l>>}
    BY DEF OnlyLeader
  <1>2. CASE state[l] = "Leader" /\ current_term'[l] = current_term[l]
    <2>1. <<current_term[l], l>> \in elected
      BY <1>2 DEF LeaderInv, LeadersHoldTheirTerm
    <2>2. OnlyLeader(l)
      BY <1>1, <1>2, <2>1 DEF OnlyLeader
    <2> QED BY <1>1, <2>2, OneLeaderIsFollowed
  <1>3. CASE <<current_term'[l], l>> \in elected' \ elected
    <2>1. elected = {}
      BY <1>1, <1>3
    <2>2. Slots' = {}
      BY <2>1, NoLeaderNoSlots
    <2>3. ASSUME NEW f \in Node
          PROVE  logs'[f] = <<>>
      <3>1. logs'[f] \in Seq(LogEntry)
        BY DEF TypeOK
      <3>2. \A i \in DOMAIN logs'[f] : Slot(i - 1, logs'[f][i]) \in Slots'
        BY DEF Slots, SlotsOf, LogSlots, Slot
      <3>3. DOMAIN logs'[f] = 1..Len(logs'[f]) /\ Len(logs'[f]) \in Nat
        BY <3>1
      <3>4. Len(logs'[f]) = 0
        <4> SUFFICES ASSUME Len(logs'[f]) # 0 PROVE FALSE
          OBVIOUS
        <4>1. 1 \in DOMAIN logs'[f]
          BY <3>3
        <4> QED BY <2>2, <3>2, <4>1
      <3> QED BY <3>1, <3>4
    <2>4. ASSUME NEW k \in Node, NEW f \in Node, NEW m \in Waiting(k, f)'
          PROVE  m.entries = None
      <3> SUFFICES ASSUME m.entries # None PROVE FALSE
        OBVIOUS
      <3>1. Slot(m.leader_commit, Entry(m)) \in RequestSlots(k, f)'
        BY DEF RequestSlots, Slot, Entry
      <3> QED BY <2>2, <3>1 DEF Slots, SlotsOf
    <2>5. Len(OfferedLog(l)') >= 0
      <3>1. (\A n \in Node : OfferedLog(n) \in Seq(LogEntry))'
        BY OfferedTypes, PTL
      <3>2. OfferedLog(l)' \in Seq(LogEntry)
        BY <3>1
      <3> QED BY <3>2
    <2> QED BY <2>3, <2>4, <2>5
  <1> QED BY <1>1, <1>2, <1>3 DEF LeadersStay

-----------------------------------------------------------------------------
(* A cluster of one node                                                    *)

\* Nobody asks the only node to change its log, so it keeps what it has.
LEMMA AloneKept ==
  ASSUME TypeOK, TypeOK', LogInv, LogStep
  PROVE  AloneKeepsAll'
  <1> SUFFICES ASSUME Cardinality(Node) = 1, NEW n \in Node
               PROVE  /\ pending_commit'[n] = None
                      /\ \A e \in acknowledged' : n \in Holders(e)'
    BY DEF AloneKeepsAll, Holders
  <1>1. \A k \in Node : k = n
    <2>1. PICK x : Node = {x}
      BY NodeAssumption, FS_Singleton
    <2> QED BY <2>1
  <1>2. pending_commit[n] = None /\ \A e \in acknowledged : n \in Holders(e)
    BY DEF LogInv, AloneKeepsAll
  <1>3. \A k, f \in Node : Waiting(k, f) = {}
    <2>1. \A k, f \in Node : append_requests[k][f] = <<>>
      BY <1>1 DEF LogInv, SendersWereElected
    <2> QED BY <2>1, WaitingType
  <1>4. CASE Quiet
    BY <1>2, <1>4 DEF Quiet, PendingKept, Holders
  <1>5. ASSUME NEW c \in Command, Takes(n, c)
        PROVE  /\ pending_commit'[n] = None
               /\ \A e \in acknowledged' : n \in Holders(e)'
    <2> DEFINE lg == logs[n]
               entry == [term |-> current_term[n], command |-> c]
    <2>1. /\ logs \in [Node -> Seq(LogEntry)] /\ current_term \in [Node -> Nat]
          /\ acknowledged \in SUBSET [id : Nat, term : Nat, command : Command]
      BY DEF TypeOK
    <2>2. /\ UNCHANGED pending_commit
          /\ logs' = [logs EXCEPT ![n] = Append(lg, entry)]
          /\ acknowledged' = acknowledged \cup
               {[id |-> Len(lg), term |-> current_term[n], command |-> c]}
      BY <1>5 DEF Takes
    <2>3. logs'[n] = Append(lg, entry)
      BY <2>1, <2>2
    <2>4. lg \in Seq(LogEntry) /\ entry \in LogEntry
      BY <2>1 DEF LogEntry
    <2>5. ASSUME NEW e \in acknowledged
          PROVE  n \in Holders(e)'
      <3>1. e.id \in Nat
        BY <2>1
      <3>2. e.id < Len(lg) /\ lg[e.id + 1] = [term |-> e.term, command |-> e.command]
        BY <1>2 DEF Holders, LogAt
      <3> HIDE DEF lg, entry
      <3>3. /\ e.id < Len(Append(lg, entry))
            /\ Append(lg, entry)[e.id + 1] = lg[e.id + 1]
        BY <2>4, <3>1, <3>2
      <3> QED BY <2>3, <3>2, <3>3 DEF Holders, LogAt
    <2>6. ASSUME NEW e, e = [id |-> Len(lg), term |-> current_term[n], command |-> c]
          PROVE  n \in Holders(e)'
      <3>1. e.id = Len(lg) /\ [term |-> e.term, command |-> e.command] = entry
        BY <2>6
      <3> HIDE DEF lg, entry
      <3>2. Len(lg) < Len(Append(lg, entry)) /\ Append(lg, entry)[Len(lg) + 1] = entry
        BY <2>4
      <3> QED BY <2>3, <3>1, <3>2 DEF Holders, LogAt
    <2> QED BY <1>2, <2>2, <2>5, <2>6
  <1>6. \A k \in Node : ~Applies(k) /\ ~Completes(k)
    BY <1>1, <1>2, <1>3 DEF Applies, Completes
  <1> QED BY <1>1, <1>4, <1>5, <1>6 DEF LogStep

-----------------------------------------------------------------------------

\* The cluster starts without entries.
LEMMA InitLog == Init => LogInv
  <1> SUFFICES ASSUME Init PROVE LogInv
    OBVIOUS
  <1>1. /\ \A n \in Node : logs[n] = <<>> /\ pending_commit[n] = None
        /\ \A l, f \in Node : append_requests[l][f] = <<>>
        /\ acknowledged = {} /\ elected = {}
    BY DEF Init
  <1>2. TypeOK
    BY InitType
  <1>3. \A l, f \in Node : Waiting(l, f) = {}
    BY <1>1, <1>2, WaitingType
  <1>4. \A n \in Node : DOMAIN logs[n] = {}
    BY <1>1
  <1>5. Slots = {}
    BY <1>1, <1>3, <1>4 DEF Slots, SlotsOf, LogSlots, PendingSlots, RequestSlots
  <1>6. LogTermsAscend /\ RequestsAscend /\ SendersWereElected
    BY <1>1, <1>3, <1>4 DEF LogTermsAscend, RequestsAscend, SendersWereElected
  <1>7. SlotsAgree /\ SlotsAreSubmitted
    BY <1>5 DEF SlotsAgree, SlotsAreSubmitted
  <1>8. FollowersTrailLeader /\ RequestsTrailLeader
    BY <1>1 DEF FollowersTrailLeader, RequestsTrailLeader, OnlyLeader
  <1>9. AloneKeepsAll
    BY <1>1 DEF AloneKeepsAll
  <1> QED BY <1>6, <1>7, <1>8, <1>9 DEF LogInv

\* Every step preserves the invariant.
LEMMA NextLogInv ==
  ElectionInv /\ CommitInv /\ LogInv /\ [Next]_vars => LogInv'
  <1> SUFFICES ASSUME ElectionInv, CommitInv, LogInv, [Next]_vars PROVE LogInv'
    OBVIOUS
  <1>1. TypeOK /\ TypeOK' /\ LeaderInv /\ PromiseInv
    BY NextType DEF CommitInv
  <1>2. LeadersStay
    BY <1>1, NextLeaders
  <1>3. LogStep /\ submitted \subseteq submitted' /\ elected \subseteq elected'
    BY <1>1, NextLog
  <1>4. \A k \in Node : current_term'[k] >= current_term[k]
    BY NextElection DEF KeepsVotes
  <1>5. LogTermsAscend'
    BY <1>1, <1>3, <1>4, LogsAscend
  <1>6. RequestsAscend'
    BY <1>1, <1>3, RequestsStayAscending
  <1>7. SlotsAgree' /\ SlotsAreSubmitted'
    BY <1>1, <1>3, SlotsStayOne
  <1>8. SendersWereElected'
    BY <1>1, <1>3, SendersStayElected
  <1>9. FollowersTrailLeader' /\ RequestsTrailLeader'
    BY <1>1, <1>2, <1>3, TrailsKept
  <1>10. AloneKeepsAll'
    BY <1>1, <1>3, AloneKept
  <1> QED BY <1>5, <1>6, <1>7, <1>8, <1>9, <1>10 DEF LogInv

\* LogInv is an invariant of the cluster.
THEOREM LogInvariant == Spec => []LogInv
  BY InitLog, NextLogInv, ElectionInvariant, CommitInvariant, PTL DEF Spec

\* In every cluster, the terms of a log ascend with the ids and stay at or
\* below the term of the node: also where on_append_entries_requested applies
\* entries of old requests, and where a crash cuts it short.
THEOREM TermsAscend == Spec => []LogTermsAscend
  <1>1. LogInv => LogTermsAscend
    BY DEF LogInv
  <1> QED BY <1>1, LogInvariant, PTL

\* In every cluster, a command has one id and one term in all logs, whatever
\* requests are late and whatever is rolled back.
THEOREM CommandsHaveOneSlot == Spec => []OneSlotPerCommand
  <1>1. TypeOK /\ LogInv => OneSlotPerCommand
    BY SlotsGiveOneId DEF LogInv
  <1> QED BY <1>1, LogInvariant, TypeCorrect, PTL

\* In every cluster, while there has been one leader only, the log of every
\* node is a prefix of what that leader offers.
THEOREM LeaderIsTrailed == Spec => []FollowersTrailLeader
  <1>1. LogInv => FollowersTrailLeader
    BY DEF LogInv
  <1> QED BY <1>1, LogInvariant, PTL

\* A cluster of one node keeps every command that it acknowledged, whatever
\* crashes it goes through.
THEOREM AloneLosesNothing == Spec => []AloneIsDurable
  <1>1. LogInv => AloneIsDurable
    <2> SUFFICES ASSUME LogInv, Cardinality(Node) = 1, NEW e \in acknowledged
                 PROVE  Cardinality(Holders(e)) = 1
      BY DEF AloneIsDurable
    <2>1. Holders(e) = Node
      BY DEF LogInv, AloneKeepsAll, Holders
    <2> QED BY <2>1
  <1> QED BY <1>1, LogInvariant, PTL
=============================================================================
