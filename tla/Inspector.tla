----------------------------- MODULE Inspector -----------------------------
(***************************************************************************)
(* The inspector: every node of a cluster publishes its state from a timer *)
(* (src/foros/src/raft/inspector.cpp), and the tool foros_inspector keeps  *)
(* and shows what it hears.  The cluster behind it is any one that keeps   *)
(* the promise of LeaderElection.                                          *)
(*                                                                         *)
(* Time goes in ticks.  A stamp is represented by its age, now() - stamp,  *)
(* which is all that the tool compares; ages stop growing once outdated.   *)
(* Clusters do not share anything but the screen, so there is one.         *)
(***************************************************************************)
EXTENDS Integers, FiniteSetsExt

CONSTANTS
  Node,           \* ids of the nodes with FOROS_INSPECTOR=1
  Misconfigured,  \* nodes that were given one node too many
  Stoppable,      \* nodes that may stop
  NodeSetting,    \* FOROS_INSPECTOR_PERIOD of the nodes, in ticks; 0 if not set
  ToolSetting,    \* the same for the tool
  DefaultPeriod,  \* default_period_ of both: one second
  Timely,         \* whether timers are on time and messages neither late nor lost:
                  \* TRUE, FALSE or both
  Delay,          \* how old a message is at most when it arrives, if in time
  MaxTerm,        \* bound: terms
  MaxFlight       \* bound: messages on their way

\* get_period of the node, and of the tool: a setting that is not positive
\* does not count.
NodePeriod == IF NodeSetting <= 0 THEN DefaultPeriod ELSE NodeSetting
ToolPeriod == IF ToolSetting <= 0 THEN DefaultPeriod ELSE ToolSetting

ASSUME InspectorConstants ==
  /\ Node \subseteq Nat /\ IsFiniteSet(Node) /\ Misconfigured \cup Stoppable \subseteq Node
  /\ NodeSetting \in Int /\ ToolSetting \in Int /\ DefaultPeriod \in Nat \ {0}
  /\ ToolPeriod % 2 = 0
  /\ Timely \subseteq BOOLEAN /\ Delay \in Nat /\ MaxTerm \in Nat /\ MaxFlight \in Nat

\* In time means that the next message of a node comes before the last one is
\* outdated: with equal periods, a delay of less than half a period.
ASSUME DelayAssumption == NodePeriod + Delay < (ToolPeriod * 3) \div 2

VARIABLES
  timely,        \* one of Timely; it never changes
  up,            \* the nodes that run
  state,         \* raft state of every node: "LEADER", or one of the others,
                 \* which the tool does not tell apart but for their names
  term, leaders, \* what LeaderElection says of the cluster
  timer,         \* per node, ticks since its inspector timer fired
  messages,      \* on their way to the tool
  cluster,       \* Inspector::clusters_
  newest         \* history: per node, the age of the newest message that
                 \* arrived, whether the tool took note of it or not

clusterVars == <<timely, up, state, term, leaders>>
vars == <<clusterVars, timer, messages, cluster, newest>>

Election == INSTANCE LeaderElection

-----------------------------------------------------------------------------
(* The nodes                                                                *)

\* The raft state, term and leadership of n change as an election allows.
RaftStep(n) ==
  /\ n \in up
  /\ \E t \in term[n] .. MaxTerm : term' = [term EXCEPT ![n] = t]
  /\ Election!Step(n)
  /\ leaders' # leaders => term'[n] > 0
  /\ state' = [state EXCEPT ![n] = IF leaders' # leaders THEN "LEADER" ELSE "OTHER"]
  /\ UNCHANGED <<timely, up, timer, messages, cluster, newest>>

Stop(n) ==
  /\ n \in up \cap Stoppable
  /\ up' = up \ {n}
  /\ UNCHANGED <<timely, state, term, leaders, timer, messages, cluster, newest>>

\* A node restarts as a follower in its stored term; its timer starts anew.
Start(n) ==
  /\ n \notin up /\ ~timely
  /\ up' = up \cup {n}
  /\ state' = [state EXCEPT ![n] = "OTHER"]
  /\ timer' = [timer EXCEPT ![n] = 0]
  /\ UNCHANGED <<timely, term, leaders, messages, cluster, newest>>

\* The cluster_size of n.
ClusterSize(n) == Cardinality(Node) + (IF n \in Misconfigured THEN 1 ELSE 0)

\* Mutant of Message: the id is not filled in.
MessageNoId(n) ==
  [id |-> 0, size |-> ClusterSize(n), state |-> state[n], term |-> term[n], age |-> 0]

\* Context::inspector_message_requested, just now.
Message(n) ==
  [id |-> n, size |-> ClusterSize(n), state |-> state[n], term |-> term[n], age |-> 0]

\* The timer of raft::Inspector fires: late if the executor is busy.
Publish(n) ==
  /\ n \in up /\ timer[n] = NodePeriod
  /\ Cardinality(messages) < MaxFlight
  /\ timer' = [timer EXCEPT ![n] = 0]
  /\ messages' = messages \cup {Message(n)}
  /\ UNCHANGED <<clusterVars, cluster, newest>>

\* A message is lost.
Lose(m) ==
  /\ ~timely
  /\ messages' = messages \ {m}
  /\ UNCHANGED <<clusterVars, timer, cluster, newest>>

-----------------------------------------------------------------------------
(* The tool                                                                 *)

\* Mutant of Outdated: one period.
OutdatedEarly == ToolPeriod

\* period_ * 1.5
Outdated == (ToolPeriod * 3) \div 2

is_outdated(age) == age >= Outdated

\* clusters_ has no entry for the cluster: no node is listed.
None == [nodes |-> <<>>]

\* ClusterInfo(): last_updated_ is 0, so it is outdated.
NewCluster == [size |-> 0, term |-> 0, leader |-> 0, leader_exist |-> FALSE,
               size_mismatched |-> FALSE, age |-> Outdated, nodes |-> <<>>]

get_cluster_info ==
  IF cluster = None \/ is_outdated(cluster.age) THEN NewCluster ELSE cluster

\* The row of a node; a new NodeInfo was last updated at 0 as well.
get_node_info(c, id) ==
  IF id \in DOMAIN c.nodes THEN c.nodes[id] ELSE [id |-> id, age |-> Outdated]

\* Mutant of update_cluster_info: the leader is not forgotten with its node.
UpdateKeepsLeader(c) ==
  IF is_outdated(c.age) THEN None
  ELSE LET live == {n \in DOMAIN c.nodes : ~is_outdated(c.nodes[n].age)}
       IN  [c EXCEPT !.nodes = [n \in live |-> c.nodes[n]],
                     !.size_mismatched = FALSE,
                     !.size = c.nodes[Max(live)].size]

(***************************************************************************)
(* update_cluster_info goes through the nodes in the order of their ids.   *)
(* The size of the first one is not compared; the size of each other one   *)
(* is compared with the size_ that the last update left, that of its last  *)
(* node.                                                                   *)
(***************************************************************************)
update_cluster_info(c) ==
  IF is_outdated(c.age) THEN None
  ELSE LET live == {n \in DOMAIN c.nodes : ~is_outdated(c.nodes[n].age)}
       IN  [c EXCEPT !.nodes = [n \in live |-> c.nodes[n]],
                     !.leader_exist = @ /\ c.leader \notin DOMAIN c.nodes \ live,
                     !.size_mismatched = \E n \in live \ {Min(live)} :
                                           c.nodes[n].size # c.size,
                     !.size = c.nodes[Max(live)].size]

\* Mutant of Learn: a leader of the term that is known already is not noted.
LearnNewerTerm(c, m) ==
  LET newer == c.term < m.term
  IN  [c EXCEPT !.nodes = [n \in DOMAIN c.nodes \cup {m.id} |->
                             IF n = m.id THEN m ELSE c.nodes[n]],
                !.age = Min({c.age, m.age}),
                !.term = IF newer THEN m.term ELSE @,
                !.leader = IF newer /\ m.state = "LEADER" THEN m.id ELSE @,
                !.leader_exist = @ \/ (newer /\ m.state = "LEADER")]

\* What inspector_message_received notes of a message.
Learn(c, m) ==
  LET newer == c.term <= m.term
  IN  [c EXCEPT !.nodes = [n \in DOMAIN c.nodes \cup {m.id} |->
                             IF n = m.id THEN m ELSE c.nodes[n]],
                !.age = Min({c.age, m.age}),
                !.term = IF newer THEN m.term ELSE @,
                !.leader = IF newer /\ m.state = "LEADER" THEN m.id ELSE @,
                !.leader_exist = @ \/ (newer /\ m.state = "LEADER")]

\* Mutant of IsOld: the row of the node is not looked at.
IsOldByClock(c, m) == is_outdated(m.age)

\* A message that is ignored: outdated, or older than the row of its node.
IsOld(c, m) == is_outdated(m.age) \/ get_node_info(c, m.id).age < m.age

\* inspector_message_received, with the update of the screen at its end.
Receive(m) ==
  /\ messages' = messages \ {m}
  /\ cluster' = IF IsOld(get_cluster_info, m) THEN cluster
                ELSE update_cluster_info(Learn(get_cluster_info, m))
  /\ newest' = [newest EXCEPT ![m.id] = Min({@, m.age})]
  /\ UNCHANGED <<clusterVars, timer>>

\* The refresh timer: update_screen.
Refresh ==
  /\ cluster # None
  /\ cluster' = update_cluster_info(cluster)
  /\ UNCHANGED <<clusterVars, timer, messages, newest>>

-----------------------------------------------------------------------------
(* What the screen shows, without its layout                                *)

Known == cluster # None

\* add_details and add_node_item: a row per node, with what its message said.
Details == cluster.nodes
Listed == DOMAIN Details

\* add_summary and add_cluster_item: the line of the cluster.
Summary ==
  [term   |-> cluster.term,
   active |-> Listed,
   size   |-> IF cluster.size_mismatched THEN "mis." ELSE cluster.size,
   leader |-> IF cluster.leader_exist THEN cluster.leader ELSE "N/A"]

\* A leader is shown, not N/A.
LeaderShown == Known /\ cluster.leader_exist

-----------------------------------------------------------------------------
\* An age one tick later.
Older(age) == Min({age + 1, Outdated})

\* A tick waits for what is due, where everything is on time.
Tick ==
  /\ timely => /\ \A n \in up : timer[n] < NodePeriod
               /\ \A m \in messages : m.age < Delay
  /\ timer' = [n \in Node |-> Min({timer[n] + 1, NodePeriod})]
  /\ messages' = {[m EXCEPT !.age = Older(@)] : m \in messages}
  /\ cluster' = IF cluster = None THEN None
                ELSE [cluster EXCEPT !.age = Older(@),
                        !.nodes = [n \in Listed |-> [Details[n] EXCEPT !.age = Older(@)]]]
  /\ newest' = [n \in Node |-> Older(newest[n])]
  /\ UNCHANGED clusterVars

\* Nodes start as followers in term 0, each at some time, like the tool.
Init ==
  /\ timely \in Timely
  /\ up = Node /\ state = [n \in Node |-> "OTHER"] /\ Election!Init
  /\ timer \in [Node -> 0 .. NodePeriod]
  /\ messages = {} /\ cluster = None /\ newest = [n \in Node |-> Outdated]

Next ==
  \/ \E n \in Node : RaftStep(n) \/ Stop(n) \/ Start(n) \/ Publish(n)
  \/ \E m \in messages : Receive(m) \/ Lose(m)
  \/ Refresh
  \/ Tick

Spec == Init /\ [][Next]_vars

-----------------------------------------------------------------------------
Row == [id : Node, size : Nat, term : 0 .. MaxTerm, age : 0 .. Outdated,
        state : {"OTHER", "LEADER"}]

\* Type invariant.
InspectorTypeOK ==
  /\ up \subseteq Node /\ messages \subseteq Row
  /\ timer \in [Node -> 0 .. NodePeriod] /\ newest \in [Node -> 0 .. Outdated]
  /\ Known => /\ Listed # {} /\ Listed \subseteq Node
              /\ \A n \in Listed : Details[n] \in Row /\ Details[n].id = n
              /\ cluster.term \in 0 .. MaxTerm /\ cluster.age \in 0 .. Outdated

(***************************************************************************)
(* The row of a node shows the newest of its messages that ever arrived:   *)
(* no message that comes late replaces it, not even after the node or the  *)
(* whole cluster was dropped from the screen and is listed again.          *)
(***************************************************************************)
NewestIsShown == \A n \in Listed : Details[n].age = newest[n]

(***************************************************************************)
(* A leader in the summary is one of the listed nodes and did become       *)
(* leader, in a term that is not newer than the one shown.                 *)
(***************************************************************************)
ShownLeaderLed ==
  LeaderShown =>
    /\ Summary.leader \in Listed
    /\ \E e \in leaders : e[1] <= Summary.term /\ e[2] = Summary.leader

(***************************************************************************)
(* A node that is listed as leader in the term of the summary is its       *)
(* leader, in whatever order the messages of the nodes arrived.            *)
(***************************************************************************)
CurrentLeaderIsShown ==
  \A n \in Listed :
    Details[n].state = "LEADER" /\ Details[n].term = Summary.term
      => LeaderShown /\ Summary.leader = n

(***************************************************************************)
(* With timers on time and messages late by less than half a period, a     *)
(* running node that is listed stays listed: is_outdated leaves room.      *)
(***************************************************************************)
StaysListed == [][timely => \A n \in up' \cap Listed : n \in Listed']_vars
=============================================================================
