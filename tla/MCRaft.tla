------------------------------- MODULE MCRaft -------------------------------
(* Instances of Raft for TLC: see the MCRaft*.cfg files.                  *)
EXTENDS Raft, TLC

\* Neither the order of node ids nor that of commands matters anywhere.
Symmetry == Permutations(Node) \cup Permutations(Command \ EmptyCommand)

(***************************************************************************)
(* A state of Spec from which logs diverge soon: l was elected in term 1   *)
(* by all nodes, the command c was committed on l alone (the refusal of a  *)
(* heartbeat is enough for that), and all processes were then restarted.   *)
(***************************************************************************)
RestartedInit ==
  \E l \in Node, c \in Command \ EmptyCommand :
    /\ current_term = [n \in Node |-> 1]
    /\ voted_for = [n \in Node |-> l]
    /\ voted = [n \in Node |-> TRUE]
    /\ logs = [n \in Node |-> IF n = l THEN <<[term |-> 1, command |-> c]>>
                                       ELSE <<>>]
    /\ state = [n \in Node |-> "Follower"]
    /\ vote_received = [n \in Node |-> 0]
    /\ broadcast_received = [n \in Node |-> FALSE]
    /\ next_index = [n \in Node |-> [f \in Node |-> Len(logs[n])]]
    /\ pending_commit = [n \in Node |-> None]
    /\ vote_requests = {} /\ vote_responses = {}
    /\ append_requests = [m \in Node |-> [f \in Node |-> <<>>]]
    /\ append_responses = [f \in Node |-> [m \in Node |-> <<>>]]
    /\ incarnation = [n \in Node |-> 1]
    /\ submitted = {c}
    /\ promise = [k \in Command |-> IF k = c THEN <<TRUE>> ELSE <<>>]
    /\ ballots = {<<n, 1, l>> : n \in Node}
    /\ elected = {<<1, l>>}
    /\ acknowledged = {[id |-> 0, term |-> 1, command |-> c]}
    /\ tally = [n \in Node |-> {}]

RestartedSpec == RestartedInit /\ [][Next]_vars
=============================================================================
