--------------------------- MODULE LeaderElection ---------------------------
(***************************************************************************)
(* What an election promises, without votes and messages: every node is in *)
(* some term, terms only grow, and a term makes at most one node leader.   *)
(***************************************************************************)
EXTENDS Naturals

CONSTANT Node

VARIABLES term,    \* the term of every node
          leaders  \* the pairs <<t, n>> such that n became leader in term t

Init == term = [n \in Node |-> 0] /\ leaders = {}

\* n moves to a term that is not older, and may become the leader of a term
\* that has none.  A node that elects itself alone does both at once.
Step(n) ==
  /\ term'[n] >= term[n]
  /\ term' = [term EXCEPT ![n] = term'[n]]
  /\ \/ leaders' = leaders
     \/ /\ \A e \in leaders : e[1] # term'[n]
        /\ leaders' = leaders \cup {<<term'[n], n>>}

Next == \E n \in Node : Step(n)

Spec == Init /\ [][Next]_<<term, leaders>>
=============================================================================
