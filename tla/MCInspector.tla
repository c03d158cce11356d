---------------------------- MODULE MCInspector ----------------------------
(***************************************************************************)
(* An instance of Inspector for TLC: the inspector timers of the nodes and *)
(* the tool start after a node was elected leader of term 1.               *)
(***************************************************************************)
EXTENDS Inspector

\* A state of Spec after one election, before any inspector timer fired.
ElectedInit ==
  \E l \in Node :
    /\ timely \in Timely /\ up = Node
    /\ term = [n \in Node |-> 1] /\ leaders = {<<1, l>>}
    /\ state = [n \in Node |-> IF n = l THEN "LEADER" ELSE "OTHER"]
    /\ timer \in [Node -> 0 .. NodePeriod]
    /\ messages = {} /\ cluster = None /\ newest = [n \in Node |-> Outdated]

ElectedSpec == ElectedInit /\ [][Next]_vars
=============================================================================
