--------------------------- MODULE InspectorProofs ---------------------------
(***************************************************************************)
(* What the inspector shows, for every number of nodes and every order in  *)
(* which their messages arrive, and that it keeps showing a node whose     *)
(* messages are in time.                                                   *)
(***************************************************************************)
EXTENDS Inspector, FiniteSetTheorems, TLAPS

\* What LeaderElection keeps of the cluster: a term has one leader, and a node
\* that leads was made leader of its term.
ClusterIsElected ==
  /\ timely \in BOOLEAN /\ up \subseteq Node
  /\ state \in [Node -> {"OTHER", "LEADER"}] /\ term \in [Node -> 0 .. MaxTerm]
  /\ leaders \subseteq (0 .. MaxTerm) \X Node
  /\ \A e, f \in leaders : e[1] = f[1] => e = f
  /\ \A n \in Node : state[n] = "LEADER" => <<term[n], n>> \in leaders

\* A message or a row that says LEADER tells of an election.
TellsOfElection(m) == m.state = "LEADER" => <<m.term, m.id>> \in leaders

MessagesAreTrue ==
  /\ timer \in [Node -> 0 .. NodePeriod]
  /\ messages \subseteq Row
  /\ \A m \in messages : TellsOfElection(m)

\* The fields of a ClusterInfo.
Fields == {"size", "term", "leader", "leader_exist", "size_mismatched", "age", "nodes"}

ClusterShape(c) ==
  /\ c = [f \in Fields |-> c[f]]
  /\ c.term \in 0 .. MaxTerm /\ c.age \in 0 .. Outdated /\ c.leader_exist \in BOOLEAN
  /\ DOMAIN c.nodes \subseteq Node
  /\ \A n \in DOMAIN c.nodes : c.nodes[n] \in Row /\ c.nodes[n].id = n

\* No row is newer than the cluster, in age or in term, and rows are true.
RowsOK(c) ==
  \A n \in DOMAIN c.nodes : /\ c.age <= c.nodes[n].age /\ c.nodes[n].term <= c.term
                            /\ TellsOfElection(c.nodes[n])

\* The leader of a ClusterInfo was elected, and is the node whose row says that
\* it leads in the newest term.
LeaderOK(c) ==
  /\ c.leader_exist => /\ c.leader \in DOMAIN c.nodes
                       /\ \E e \in leaders : e[1] <= c.term /\ e[2] = c.leader
  /\ \A n \in DOMAIN c.nodes :
       c.nodes[n].state = "LEADER" /\ c.nodes[n].term = c.term
         => c.leader_exist /\ c.leader = n

ClusterOK(c) == ClusterShape(c) /\ RowsOK(c) /\ LeaderOK(c)

\* The age of a ClusterInfo is that of its newest row.
AgeIsOfRow(c) == \E n \in DOMAIN c.nodes : c.nodes[n].age <= c.age

\* newest is the age of the row of every listed node, and nothing else is known.
NewestOf(c, ages) ==
  \A n \in Node : ages[n] = IF n \in DOMAIN c.nodes THEN c.nodes[n].age ELSE Outdated

InspectorInv ==
  /\ ClusterIsElected /\ MessagesAreTrue
  /\ newest \in [Node -> 0 .. Outdated]
  /\ NewestOf(cluster, newest)
  /\ Known => ClusterOK(cluster) /\ AgeIsOfRow(cluster)

-----------------------------------------------------------------------------
LEMMA Min2 ==
  ASSUME NEW a \in Nat, NEW b \in Nat
  PROVE  Min({a, b}) = IF a <= b THEN a ELSE b
  BY DEF Min

\* get_period returns a positive number.
LEMMA PeriodsType == NodePeriod \in Nat \ {0} /\ ToolPeriod \in Nat \ {0}
  BY InspectorConstants DEF NodePeriod, ToolPeriod

LEMMA OutdatedType == Outdated \in Nat /\ Outdated > 0 /\ NodePeriod + Delay < Outdated
  BY InspectorConstants, PeriodsType, DelayAssumption DEF Outdated

\* Ages grow together until they are outdated.
LEMMA OlderAge ==
  ASSUME NEW a \in 0 .. Outdated
  PROVE  /\ Older(a) \in 0 .. Outdated
         /\ Older(a) = IF a < Outdated THEN a + 1 ELSE Outdated
  BY OutdatedType, Min2 DEF Older

\* A ClusterInfo is not None: its fields are others.
LEMMA ShapeIsKnown ==
  ASSUME NEW c, ClusterShape(c)
  PROVE  c # None
  BY DEF ClusterShape, None, Fields

\* get_cluster_info gives the ClusterInfo that is shown, or a new one.
LEMMA InfoIsOK ==
  ASSUME InspectorInv
  PROVE  /\ ClusterOK(get_cluster_info)
         /\ ~is_outdated(get_cluster_info.age) => AgeIsOfRow(get_cluster_info)
         /\ NewestOf(get_cluster_info, newest)
  <1>1. CASE cluster = None \/ is_outdated(cluster.age)
    <2>1. get_cluster_info = NewCluster
      BY <1>1 DEF get_cluster_info
    <2>2. /\ NewCluster.term = 0 /\ NewCluster.age = Outdated
          /\ NewCluster.leader_exist = FALSE /\ NewCluster.nodes = <<>>
          /\ DOMAIN NewCluster.nodes = {}
      BY DEF NewCluster
    <2>3. NewCluster = [f \in Fields |-> NewCluster[f]]
      BY DEF NewCluster, Fields
    <2>4. ClusterShape(NewCluster)
      <3>1. NewCluster.term \in 0 .. MaxTerm /\ NewCluster.age \in 0 .. Outdated
        BY <2>2, OutdatedType, InspectorConstants, PeriodsType
      <3>2. NewCluster.leader_exist \in BOOLEAN
        BY <2>2
      <3> QED BY <2>2, <2>3, <3>1, <3>2 DEF ClusterShape
    <2>5. RowsOK(NewCluster) /\ LeaderOK(NewCluster)
      BY <2>2 DEF RowsOK, LeaderOK
    <2>6. \A n \in Node : newest[n] = Outdated
      <3>1. CASE cluster = None
        BY <3>1 DEF InspectorInv, NewestOf, None
      <3>2. CASE cluster # None
        BY <1>1, <3>2, OutdatedType
        DEF InspectorInv, NewestOf, Known, ClusterOK, ClusterShape, RowsOK, Row,
            is_outdated
      <3> QED BY <3>1, <3>2
    <2>7. NewestOf(NewCluster, newest)
      BY <2>2, <2>6 DEF NewestOf
    <2> QED
      BY <2>1, <2>2, <2>4, <2>5, <2>7, OutdatedType DEF ClusterOK, is_outdated
  <1>2. CASE ~(cluster = None \/ is_outdated(cluster.age))
    BY <1>2 DEF get_cluster_info, InspectorInv, Known
  <1> QED BY <1>1, <1>2

\* A message that is not old is noted in the row of its node.
LEMMA LearnIsOK ==
  ASSUME ClusterIsElected, NEW c, NEW m \in Row, ClusterOK(c), ~IsOld(c, m),
         ~is_outdated(c.age) => AgeIsOfRow(c), TellsOfElection(m)
  PROVE  /\ ClusterOK(Learn(c, m)) /\ AgeIsOfRow(Learn(c, m))
         /\ Learn(c, m).nodes[m.id] = m
         /\ DOMAIN Learn(c, m).nodes = DOMAIN c.nodes \cup {m.id}
         /\ \A n \in DOMAIN c.nodes : n # m.id => Learn(c, m).nodes[n] = c.nodes[n]
         /\ ~is_outdated(Learn(c, m).age)
  <1> DEFINE d == Learn(c, m)
             newer == c.term <= m.term
             rows == [n \in DOMAIN c.nodes \cup {m.id} |->
                        IF n = m.id THEN m ELSE c.nodes[n]]
  <1>1. /\ ClusterShape(c) /\ RowsOK(c) /\ LeaderOK(c)
        /\ m.id \in Node /\ m.age \in 0 .. Outdated /\ m.term \in 0 .. MaxTerm
        /\ c.age \in 0 .. Outdated /\ c.term \in 0 .. MaxTerm
    BY DEF ClusterOK, ClusterShape, Row
  <1>2. /\ ~is_outdated(m.age)
        /\ m.id \in DOMAIN c.nodes => m.age <= c.nodes[m.id].age
    BY <1>1 DEF IsOld, get_node_info, ClusterShape, Row
  <1>3. /\ d.nodes = rows
        /\ d.age = Min({c.age, m.age})
        /\ d.term = (IF newer THEN m.term ELSE c.term)
        /\ d.leader = (IF newer /\ m.state = "LEADER" THEN m.id ELSE c.leader)
        /\ d.leader_exist = (c.leader_exist \/ (newer /\ m.state = "LEADER"))
        /\ d = [f \in Fields |-> d[f]]
    <2>1. c = [f \in Fields |-> c[f]]
      BY <1>1 DEF ClusterShape
    <2>2. d.nodes = rows /\ d.age = Min({c.age, m.age})
      BY <2>1 DEF Learn, Fields
    <2>3. /\ d.term = (IF newer THEN m.term ELSE c.term)
          /\ d.leader = (IF newer /\ m.state = "LEADER" THEN m.id ELSE c.leader)
      BY <2>1 DEF Learn, Fields
    <2>4. d.leader_exist = (c.leader_exist \/ (newer /\ m.state = "LEADER"))
      BY <2>1 DEF Learn, Fields
    <2>5. d = [f \in Fields |-> d[f]]
      BY <2>1 DEF Learn, Fields
    <2> QED BY <2>2, <2>3, <2>4, <2>5
  <1>4. d.age = (IF c.age <= m.age THEN c.age ELSE m.age)
    BY <1>1, <1>3, Min2
  <1> HIDE DEF d
  <1>5. /\ DOMAIN d.nodes = DOMAIN c.nodes \cup {m.id} /\ d.nodes[m.id] = m
        /\ \A n \in DOMAIN c.nodes : n # m.id => d.nodes[n] = c.nodes[n]
    BY <1>3
  <1>6. ClusterShape(d)
    <2>1. d.term \in 0 .. MaxTerm /\ d.age \in 0 .. Outdated
      BY <1>1, <1>3, <1>4
    <2>2. d.leader_exist \in BOOLEAN
      BY <1>3
    <2>3. DOMAIN d.nodes \subseteq Node
      BY <1>1, <1>5 DEF ClusterShape
    <2>4. \A n \in DOMAIN d.nodes : d.nodes[n] \in Row /\ d.nodes[n].id = n
      BY <1>1, <1>5 DEF ClusterShape
    <2> QED BY <1>3, <2>1, <2>2, <2>3, <2>4 DEF ClusterShape
  <1>7. RowsOK(d)
    <2>1. c.term <= d.term /\ m.term <= d.term /\ d.age <= m.age /\ d.age <= c.age
      BY <1>1, <1>3, <1>4
    <2>2. ASSUME NEW n \in DOMAIN d.nodes
          PROVE  /\ d.age <= d.nodes[n].age /\ d.nodes[n].term <= d.term
                 /\ TellsOfElection(d.nodes[n])
      <3>1. CASE n = m.id
        BY <1>5, <2>1, <3>1
      <3>2. CASE n # m.id
        <4>1. n \in DOMAIN c.nodes /\ d.nodes[n] = c.nodes[n]
          BY <1>5, <3>2
        <4>2. /\ c.age <= c.nodes[n].age /\ c.nodes[n].term <= c.term
              /\ TellsOfElection(c.nodes[n]) /\ c.nodes[n] \in Row
          BY <1>1, <4>1 DEF RowsOK, ClusterShape
        <4>3. d.age <= c.nodes[n].age /\ c.nodes[n].term <= d.term
          BY <1>1, <1>6, <2>1, <4>2 DEF Row, ClusterShape
        <4> QED BY <4>1, <4>2, <4>3
      <3> QED BY <3>1, <3>2
    <2> QED BY <2>2 DEF RowsOK
  <1>8. AgeIsOfRow(d) /\ ~is_outdated(d.age)
    <2>1. CASE d.age = m.age
      BY <1>1, <1>2, <1>5, <2>1 DEF AgeIsOfRow
    <2>2. CASE d.age # m.age
      <3>1. d.age = c.age /\ c.age < m.age /\ ~is_outdated(c.age)
        BY <1>1, <1>2, <1>4, <2>2, OutdatedType DEF is_outdated
      <3>2. PICK n \in DOMAIN c.nodes : c.nodes[n].age <= c.age
        BY <3>1 DEF AgeIsOfRow
      <3>3. n # m.id
        BY <1>1, <1>2, <3>1, <3>2 DEF ClusterShape, Row
      <3> QED BY <1>5, <3>1, <3>2, <3>3 DEF AgeIsOfRow
    <2> QED BY <2>1, <2>2
  <1>9. LeaderOK(d)
    <2>1. ASSUME d.leader_exist
          PROVE  /\ d.leader \in DOMAIN d.nodes
                 /\ \E e \in leaders : e[1] <= d.term /\ e[2] = d.leader
      <3>1. CASE newer /\ m.state = "LEADER"
        <4>1. <<m.term, m.id>> \in leaders /\ d.leader = m.id /\ d.term = m.term
          BY <1>3, <3>1 DEF TellsOfElection
        <4>2. <<m.term, m.id>>[1] <= d.term /\ <<m.term, m.id>>[2] = d.leader
          BY <1>1, <4>1
        <4> QED BY <1>5, <4>1, <4>2
      <3>2. CASE ~(newer /\ m.state = "LEADER")
        <4>1. c.leader_exist /\ d.leader = c.leader
          BY <1>3, <2>1, <3>2
        <4>2. PICK e \in leaders : e[1] <= c.term /\ e[2] = c.leader
          BY <1>1, <4>1 DEF LeaderOK
        <4>3. e[1] \in 0 .. MaxTerm
          BY DEF ClusterIsElected
        <4>4. e[1] <= d.term
          BY <1>1, <1>3, <4>2, <4>3
        <4> QED BY <1>1, <1>5, <4>1, <4>2, <4>4 DEF LeaderOK
      <3> QED BY <3>1, <3>2
    <2>2. ASSUME NEW n \in DOMAIN d.nodes,
                 d.nodes[n].state = "LEADER", d.nodes[n].term = d.term
          PROVE  d.leader_exist /\ d.leader = n
      <3>1. CASE n = m.id
        <4>1. m.state = "LEADER" /\ newer
          BY <1>1, <1>3, <1>5, <2>2, <3>1
        <4> QED BY <1>3, <3>1, <4>1
      <3>2. CASE n # m.id
        <4>1. /\ n \in DOMAIN c.nodes /\ d.nodes[n] = c.nodes[n]
              /\ c.nodes[n].term <= c.term /\ TellsOfElection(c.nodes[n])
              /\ c.nodes[n].id = n /\ c.nodes[n] \in Row
          BY <1>1, <1>5, <3>2 DEF RowsOK, ClusterShape
        <4>2. c.nodes[n].term \in 0 .. MaxTerm
          BY <4>1 DEF Row
        <4>3. d.term = c.term /\ c.nodes[n].term = c.term
          BY <1>1, <1>3, <2>2, <4>1, <4>2
        <4>4. c.leader_exist /\ c.leader = n
          BY <1>1, <2>2, <4>1, <4>3 DEF LeaderOK
        <4>5. ~(newer /\ m.state = "LEADER")
          <5>1. ASSUME newer, m.state = "LEADER" PROVE FALSE
            <6>1. m.term = c.term
              BY <1>3, <4>3, <5>1
            <6>2. <<c.term, m.id>> \in leaders /\ <<c.term, n>> \in leaders
              BY <2>2, <4>1, <4>3, <5>1, <6>1 DEF TellsOfElection
            <6> QED BY <3>2, <6>2 DEF ClusterIsElected
          <5> QED BY <5>1
        <4> QED BY <1>3, <4>4, <4>5
      <3> QED BY <3>1, <3>2
    <2> QED BY <2>1, <2>2 DEF LeaderOK
  <1> QED BY <1>5, <1>6, <1>7, <1>8, <1>9 DEF ClusterOK, d

\* update_cluster_info drops outdated rows, and the leader with its row.
LEMMA UpdateIsOK ==
  ASSUME NEW c, ClusterOK(c), AgeIsOfRow(c), ~is_outdated(c.age)
  PROVE  LET d == update_cluster_info(c)
         IN  /\ ClusterOK(d) /\ AgeIsOfRow(d)
             /\ DOMAIN d.nodes = {n \in DOMAIN c.nodes : ~is_outdated(c.nodes[n].age)}
             /\ \A n \in DOMAIN d.nodes : d.nodes[n] = c.nodes[n]
             /\ d.age = c.age
  <1> DEFINE d == update_cluster_info(c)
             live == {n \in DOMAIN c.nodes : ~is_outdated(c.nodes[n].age)}
  <1>1. /\ ClusterShape(c) /\ RowsOK(c) /\ LeaderOK(c)
        /\ c = [f \in Fields |-> c[f]]
        /\ c.age \in 0 .. Outdated /\ c.term \in 0 .. MaxTerm
    BY DEF ClusterOK, ClusterShape
  <1>2. d = [c EXCEPT !.nodes = [n \in live |-> c.nodes[n]],
                      !.leader_exist = @ /\ c.leader \notin DOMAIN c.nodes \ live,
                      !.size_mismatched = \E n \in live \ {Min(live)} :
                                            c.nodes[n].size # c.size,
                      !.size = c.nodes[Max(live)].size]
    BY DEF update_cluster_info
  <1> HIDE DEF d
  <1>3. /\ d.nodes = [n \in live |-> c.nodes[n]] /\ d.age = c.age
        /\ d.term = c.term /\ d.leader = c.leader
    BY <1>1, <1>2 DEF Fields
  <1>4. d.leader_exist = (c.leader_exist /\ c.leader \notin DOMAIN c.nodes \ live)
    BY <1>1, <1>2 DEF Fields
  <1>5. d = [f \in Fields |-> d[f]]
    BY <1>1, <1>2 DEF Fields
  <1>6. DOMAIN d.nodes = live /\ \A n \in DOMAIN d.nodes : d.nodes[n] = c.nodes[n]
    BY <1>3
  <1>7. d.leader_exist \in BOOLEAN
    BY <1>4
  <1>8. ClusterShape(d)
    BY <1>1, <1>3, <1>5, <1>6, <1>7 DEF ClusterShape
  <1>9. RowsOK(d)
    BY <1>1, <1>3, <1>6 DEF RowsOK
  <1>10. AgeIsOfRow(d)
    <2>1. PICK n \in DOMAIN c.nodes : c.nodes[n].age <= c.age
      BY DEF AgeIsOfRow
    <2>2. c.nodes[n].age \in 0 .. Outdated
      BY <1>1 DEF ClusterShape, Row
    <2>3. n \in live
      BY <1>1, <2>1, <2>2, OutdatedType DEF is_outdated
    <2> QED BY <1>3, <1>6, <2>1, <2>3 DEF AgeIsOfRow
  <1>11. LeaderOK(d)
    <2>1. d.leader_exist => c.leader_exist /\ c.leader \in DOMAIN d.nodes
      BY <1>1, <1>4, <1>6 DEF LeaderOK
    <2>2. ASSUME NEW n \in DOMAIN d.nodes,
                 d.nodes[n].state = "LEADER", d.nodes[n].term = d.term
          PROVE  d.leader_exist /\ d.leader = n
      <3>1. c.leader_exist /\ c.leader = n
        BY <1>1, <1>3, <1>6, <2>2 DEF LeaderOK
      <3> QED BY <1>3, <1>4, <1>6, <3>1
    <2> QED BY <1>1, <1>3, <2>1, <2>2 DEF LeaderOK
  <1> QED BY <1>3, <1>6, <1>8, <1>9, <1>10, <1>11 DEF ClusterOK, d

-----------------------------------------------------------------------------
(* The steps of the nodes                                                   *)

\* Where the tool does nothing and leaders only grows, what it knows stays true.
LEMMA KnowledgeStays ==
  ASSUME InspectorInv, leaders \subseteq leaders', UNCHANGED <<cluster, newest>>
  PROVE  /\ newest' \in [Node -> 0 .. Outdated] /\ NewestOf(cluster, newest)'
         /\ Known' => ClusterOK(cluster)' /\ AgeIsOfRow(cluster)'
  <1>1. newest' \in [Node -> 0 .. Outdated] /\ NewestOf(cluster, newest)'
    BY DEF InspectorInv, NewestOf
  <1>2. ASSUME Known PROVE ClusterOK(cluster)' /\ AgeIsOfRow(cluster)'
    <2>1. /\ ClusterShape(cluster) /\ RowsOK(cluster) /\ LeaderOK(cluster)
          /\ AgeIsOfRow(cluster)
      BY <1>2 DEF InspectorInv, ClusterOK
    <2>2. ClusterShape(cluster)' /\ AgeIsOfRow(cluster)'
      BY <2>1 DEF ClusterShape, AgeIsOfRow
    <2>3. RowsOK(cluster)'
      BY <2>1 DEF RowsOK, TellsOfElection
    <2>4. LeaderOK(cluster)'
      BY <2>1 DEF LeaderOK
    <2> QED BY <2>2, <2>3, <2>4 DEF ClusterOK
  <1> QED BY <1>1, <1>2 DEF Known

\* An election gives a new term its leader.
LEMMA RaftStepKeeps ==
  ASSUME InspectorInv, NEW n \in Node, RaftStep(n)
  PROVE  InspectorInv'
  <1>1. PICK t \in term[n] .. MaxTerm : term' = [term EXCEPT ![n] = t]
    BY DEF RaftStep
  <1>2. /\ term \in [Node -> 0 .. MaxTerm] /\ t \in 0 .. MaxTerm /\ term'[n] = t
        /\ term' \in [Node -> 0 .. MaxTerm]
    <2>1. term \in [Node -> 0 .. MaxTerm] /\ MaxTerm \in Nat
      BY InspectorConstants, PeriodsType DEF InspectorInv, ClusterIsElected
    <2>2. t \in 0 .. MaxTerm
      BY <2>1
    <2> QED BY <1>1, <2>1, <2>2
  <1>3. \/ leaders' = leaders
        \/ /\ \A e \in leaders : e[1] # t
           /\ leaders' = leaders \cup {<<t, n>>}
    BY <1>2 DEF RaftStep, Election!Step
  <1>4. ClusterIsElected'
    <2>1. leaders' \subseteq (0 .. MaxTerm) \X Node
      BY <1>2, <1>3 DEF InspectorInv, ClusterIsElected
    <2>2. \A e, f \in leaders' : e[1] = f[1] => e = f
      BY <1>3 DEF InspectorInv, ClusterIsElected
    <2>3. state' \in [Node -> {"OTHER", "LEADER"}]
      BY DEF InspectorInv, ClusterIsElected, RaftStep
    <2>4. \A i \in Node : state'[i] = "LEADER" => <<term'[i], i>> \in leaders'
      <3>1. state' = [state EXCEPT ![n] = IF leaders' # leaders THEN "LEADER" ELSE "OTHER"]
        BY DEF RaftStep
      <3>2. state'[n] = "LEADER" => <<term'[n], n>> \in leaders'
        BY <1>2, <1>3, <3>1 DEF InspectorInv, ClusterIsElected
      <3>3. ASSUME NEW i \in Node, i # n, state'[i] = "LEADER"
            PROVE  <<term'[i], i>> \in leaders'
        <4>1. state[i] = "LEADER" /\ term'[i] = term[i]
          BY <1>1, <1>2, <3>1, <3>3 DEF InspectorInv, ClusterIsElected
        <4> QED BY <1>3, <4>1 DEF InspectorInv, ClusterIsElected
      <3> QED BY <3>2, <3>3
    <2>5. timely' = timely /\ up' = up
      BY DEF RaftStep
    <2> QED BY <1>2, <2>1, <2>2, <2>3, <2>4, <2>5 DEF InspectorInv, ClusterIsElected
  <1>5. MessagesAreTrue'
    BY <1>3 DEF RaftStep, InspectorInv, MessagesAreTrue, TellsOfElection
  <1>6. leaders \subseteq leaders' /\ UNCHANGED <<cluster, newest>>
    BY <1>3 DEF RaftStep
  <1> QED BY <1>4, <1>5, <1>6, KnowledgeStays DEF InspectorInv

\* A node that stops or starts, a message that is sent or lost.
LEMMA NodesKeep ==
  ASSUME InspectorInv,
         \/ \E n \in Node : Stop(n) \/ Start(n) \/ Publish(n)
         \/ \E m \in messages : Lose(m)
  PROVE  InspectorInv'
  <1>1. UNCHANGED <<cluster, newest, leaders, term>>
    BY DEF Stop, Start, Publish, Lose, clusterVars
  <1>2. ClusterIsElected'
    <2>1. ASSUME NEW n \in Node, Stop(n) \/ Start(n) PROVE ClusterIsElected'
      BY <2>1 DEF Stop, Start, InspectorInv, ClusterIsElected
    <2>2. ASSUME UNCHANGED clusterVars PROVE ClusterIsElected'
      BY <2>2 DEF clusterVars, InspectorInv, ClusterIsElected
    <2> QED BY <2>1, <2>2 DEF Publish, Lose
  <1>3. MessagesAreTrue'
    <2> USE DEF InspectorInv, MessagesAreTrue, TellsOfElection
    <2>1. ASSUME NEW n \in Node, Stop(n) PROVE MessagesAreTrue'
      BY <2>1 DEF Stop
    <2>2. ASSUME NEW n \in Node, Start(n) PROVE MessagesAreTrue'
      <3>1. 0 \in 0 .. NodePeriod
        BY InspectorConstants, PeriodsType
      <3> QED BY <2>2, <3>1 DEF Start
    <2>3. ASSUME NEW n \in Node, Publish(n) PROVE MessagesAreTrue'
      <3>1. ClusterSize(n) \in Nat
        <4>1. Cardinality(Node) \in Nat
          BY InspectorConstants, PeriodsType, FS_CardinalityType
        <4> QED BY <4>1 DEF ClusterSize
      <3>2. 0 \in 0 .. NodePeriod /\ 0 \in 0 .. Outdated
        BY InspectorConstants, PeriodsType, OutdatedType
      <3>3. Message(n) \in Row
        BY <3>1, <3>2 DEF Message, Row, ClusterIsElected
      <3>4. TellsOfElection(Message(n))
        BY DEF Message, ClusterIsElected
      <3>5. messages' = messages \cup {Message(n)} /\ timer' = [timer EXCEPT ![n] = 0]
        BY <2>3 DEF Publish
      <3> QED BY <1>1, <3>2, <3>3, <3>4, <3>5
    <2>4. ASSUME NEW m \in messages, Lose(m) PROVE MessagesAreTrue'
      BY <1>1, <2>4 DEF Lose
    <2> QED BY <2>1, <2>2, <2>3, <2>4
  <1> QED BY <1>1, <1>2, <1>3, KnowledgeStays DEF InspectorInv

-----------------------------------------------------------------------------
(* The steps of the tool, and time                                          *)

LEMMA ReceiveKeeps ==
  ASSUME InspectorInv, NEW m \in messages, Receive(m)
  PROVE  InspectorInv'
  <1>1. ClusterIsElected'
    BY DEF Receive, clusterVars, InspectorInv, ClusterIsElected
  <1>2. MessagesAreTrue'
    BY DEF Receive, clusterVars, InspectorInv, MessagesAreTrue, TellsOfElection
  <1>3. leaders' = leaders
    BY DEF Receive, clusterVars
  <1>4. CASE IsOld(get_cluster_info, m)
    <2>1. m.id \in Node /\ m.age \in 0 .. Outdated /\ newest \in [Node -> 0 .. Outdated]
      BY DEF InspectorInv, MessagesAreTrue, Row
    <2>2. newest[m.id] <= m.age
      BY <1>4, <2>1, InfoIsOK, OutdatedType
      DEF IsOld, NewestOf, get_node_info, is_outdated
    <2>3. Min({newest[m.id], m.age}) = newest[m.id]
      <3>1. newest[m.id] \in Nat /\ m.age \in Nat
        BY <2>1, OutdatedType
      <3> QED BY <2>2, <3>1, Min2
    <2>4. cluster' = cluster /\ newest' = newest
      BY <1>4, <2>1, <2>3 DEF Receive
    <2> QED BY <1>1, <1>2, <1>3, <2>4, KnowledgeStays DEF InspectorInv
  <1>5. CASE ~IsOld(get_cluster_info, m)
    <2> DEFINE i == get_cluster_info
               c == Learn(i, m)
               d == update_cluster_info(c)
    <2>1. m \in Row /\ TellsOfElection(m) /\ ClusterIsElected
      BY DEF InspectorInv, MessagesAreTrue
    <2>2. /\ ClusterOK(i) /\ NewestOf(i, newest)
          /\ ~is_outdated(i.age) => AgeIsOfRow(i)
      BY InfoIsOK
    <2> HIDE DEF i
    <2>3. /\ ClusterOK(c) /\ AgeIsOfRow(c) /\ ~is_outdated(c.age)
          /\ DOMAIN c.nodes = DOMAIN i.nodes \cup {m.id} /\ c.nodes[m.id] = m
          /\ \A n \in DOMAIN i.nodes : n # m.id => c.nodes[n] = i.nodes[n]
      BY <1>5, <2>1, <2>2, LearnIsOK DEF i
    <2> HIDE DEF c
    <2>4. /\ ClusterOK(d) /\ AgeIsOfRow(d)
          /\ DOMAIN d.nodes = {n \in DOMAIN c.nodes : ~is_outdated(c.nodes[n].age)}
          /\ \A n \in DOMAIN d.nodes : d.nodes[n] = c.nodes[n]
      BY <2>3, UpdateIsOK
    <2> HIDE DEF d
    <2>5. cluster' = d /\ newest' = [newest EXCEPT ![m.id] = Min({@, m.age})]
      BY <1>5 DEF Receive, i, c, d
    <2>6. m.id \in Node /\ m.age \in 0 .. Outdated /\ newest \in [Node -> 0 .. Outdated]
      BY <2>1 DEF Row, InspectorInv
    <2>7. newest'[m.id] = m.age
      <3>1. m.age <= newest[m.id]
        BY <1>5, <2>2, <2>6, OutdatedType DEF IsOld, NewestOf, get_node_info, i
      <3>2. newest[m.id] \in Nat /\ m.age \in Nat
        BY <2>6, OutdatedType
      <3>3. Min({newest[m.id], m.age}) = m.age
        BY <3>1, <3>2, Min2
      <3> QED BY <2>5, <2>6, <3>3
    <2>8. \A n \in Node : n # m.id => newest'[n] = newest[n]
      BY <2>5, <2>6
    <2>9. newest' \in [Node -> 0 .. Outdated]
      BY <2>5, <2>6, <2>7
    <2>10. NewestOf(d, newest')
      <3>1. ASSUME NEW n \in Node, n # m.id
            PROVE  newest'[n] = IF n \in DOMAIN d.nodes THEN d.nodes[n].age ELSE Outdated
        <4>1. n \in DOMAIN c.nodes <=> n \in DOMAIN i.nodes
          BY <2>3, <3>1
        <4>2. CASE n \in DOMAIN d.nodes
          BY <2>2, <2>3, <2>4, <2>8, <3>1, <4>1, <4>2 DEF NewestOf
        <4>3. CASE n \notin DOMAIN c.nodes
          BY <2>2, <2>4, <2>8, <3>1, <4>1, <4>3 DEF NewestOf
        <4>4. CASE n \in DOMAIN c.nodes /\ n \notin DOMAIN d.nodes
          <5>1. is_outdated(newest[n])
            BY <2>2, <2>3, <2>4, <3>1, <4>1, <4>4 DEF NewestOf
          <5> QED BY <2>6, <2>8, <3>1, <4>4, <5>1, OutdatedType DEF is_outdated
        <4> QED BY <4>2, <4>3, <4>4
      <3>2. m.id \in DOMAIN d.nodes /\ d.nodes[m.id] = m
        BY <1>5, <2>3, <2>4 DEF IsOld
      <3> QED BY <2>7, <3>1, <3>2 DEF NewestOf
    <2>11. ClusterOK(cluster)' /\ AgeIsOfRow(cluster)'
      BY <1>3, <2>4, <2>5 DEF ClusterOK, ClusterShape, RowsOK, LeaderOK, AgeIsOfRow,
                              TellsOfElection
    <2>12. NewestOf(cluster, newest)'
      BY <2>5, <2>10 DEF NewestOf
    <2> QED BY <1>1, <1>2, <2>9, <2>11, <2>12 DEF InspectorInv
  <1> QED BY <1>4, <1>5

LEMMA RefreshKeeps ==
  ASSUME InspectorInv, Refresh
  PROVE  InspectorInv'
  <1>1. ClusterIsElected' /\ MessagesAreTrue'
    BY DEF Refresh, clusterVars, InspectorInv, ClusterIsElected, MessagesAreTrue,
           TellsOfElection
  <1>2. leaders' = leaders /\ newest' = newest /\ newest \in [Node -> 0 .. Outdated]
    BY DEF Refresh, clusterVars, InspectorInv
  <1>3. ClusterOK(cluster) /\ AgeIsOfRow(cluster)
    BY DEF Refresh, InspectorInv, Known
  <1>4. ASSUME NEW n \in DOMAIN cluster.nodes, is_outdated(cluster.nodes[n].age)
        PROVE  cluster.nodes[n].age = Outdated
    BY <1>3, <1>4, OutdatedType DEF ClusterOK, ClusterShape, Row, is_outdated
  <1>5. CASE is_outdated(cluster.age)
    <2>1. cluster' = None
      BY <1>5 DEF Refresh, update_cluster_info
    <2>2. \A n \in DOMAIN cluster.nodes : cluster.nodes[n].age = Outdated
      BY <1>3, <1>5, OutdatedType DEF ClusterOK, ClusterShape, RowsOK, Row, is_outdated
    <2>3. NewestOf(cluster, newest)'
      BY <1>2, <2>1, <2>2 DEF InspectorInv, NewestOf, None
    <2> QED BY <1>1, <1>2, <2>1, <2>3 DEF InspectorInv, Known
  <1>6. CASE ~is_outdated(cluster.age)
    <2> DEFINE d == update_cluster_info(cluster)
    <2>1. /\ ClusterOK(d) /\ AgeIsOfRow(d)
          /\ DOMAIN d.nodes =
               {n \in DOMAIN cluster.nodes : ~is_outdated(cluster.nodes[n].age)}
          /\ \A n \in DOMAIN d.nodes : d.nodes[n] = cluster.nodes[n]
      BY <1>3, <1>6, UpdateIsOK
    <2>2. cluster' = d
      BY DEF Refresh
    <2> HIDE DEF d
    <2>3. NewestOf(d, newest)
      BY <1>4, <2>1 DEF InspectorInv, NewestOf
    <2>4. ClusterOK(cluster)' /\ AgeIsOfRow(cluster)'
      BY <1>2, <2>1, <2>2 DEF ClusterOK, ClusterShape, RowsOK, LeaderOK, AgeIsOfRow,
                              TellsOfElection
    <2>5. NewestOf(cluster, newest)'
      BY <1>2, <2>2, <2>3 DEF NewestOf
    <2> QED BY <1>1, <1>2, <2>4, <2>5 DEF InspectorInv
  <1> QED BY <1>5, <1>6

\* All ages grow by a tick, so their order stays.
LEMMA TickedCluster ==
  ASSUME InspectorInv, Tick, Known
  PROVE  /\ ClusterShape(cluster')
         /\ DOMAIN cluster'.nodes = DOMAIN cluster.nodes
         /\ cluster'.age = Older(cluster.age)
         /\ cluster'.term = cluster.term /\ cluster'.leader = cluster.leader
         /\ cluster'.leader_exist = cluster.leader_exist
         /\ \A n \in DOMAIN cluster.nodes :
              /\ cluster'.nodes[n].age = Older(cluster.nodes[n].age)
              /\ cluster'.nodes[n].term = cluster.nodes[n].term
              /\ cluster'.nodes[n].state = cluster.nodes[n].state
              /\ cluster'.nodes[n].id = n
  <1> DEFINE rows == [n \in DOMAIN cluster.nodes |->
                        [cluster.nodes[n] EXCEPT !.age = Older(cluster.nodes[n].age)]]
  <1>1. ClusterShape(cluster) /\ cluster = [f \in Fields |-> cluster[f]]
    BY DEF InspectorInv, ClusterOK, ClusterShape
  <1>2. cluster' = [cluster EXCEPT !.age = Older(cluster.age), !.nodes = rows]
    BY <1>1 DEF Tick, Known, Listed, Details
  <1> HIDE DEF rows
  <1>3. /\ cluster'.nodes = rows /\ cluster'.age = Older(cluster.age)
        /\ cluster'.term = cluster.term /\ cluster'.leader = cluster.leader
        /\ cluster'.leader_exist = cluster.leader_exist
        /\ cluster' = [f \in Fields |-> cluster'[f]]
    <2>1. cluster'.nodes = rows /\ cluster'.age = Older(cluster.age)
      BY <1>1, <1>2 DEF Fields
    <2>2. /\ cluster'.term = cluster.term /\ cluster'.leader = cluster.leader
          /\ cluster'.leader_exist = cluster.leader_exist
      BY <1>1, <1>2 DEF Fields
    <2>3. cluster' = [f \in Fields |-> cluster'[f]]
      BY <1>1, <1>2
    <2> QED BY <2>1, <2>2, <2>3
  <1>4. \A n \in DOMAIN cluster.nodes :
          /\ cluster.nodes[n] \in Row /\ cluster.nodes[n].id = n
          /\ Older(cluster.nodes[n].age) \in 0 .. Outdated
    BY <1>1, OlderAge DEF ClusterShape, Row
  <1>5. DOMAIN rows = DOMAIN cluster.nodes
    BY DEF rows
  <1>6. \A n \in DOMAIN cluster.nodes :
          /\ rows[n] \in Row /\ rows[n].id = n
          /\ rows[n].age = Older(cluster.nodes[n].age)
          /\ rows[n].term = cluster.nodes[n].term
          /\ rows[n].state = cluster.nodes[n].state
    BY <1>4 DEF rows, Row
  <1>7. Older(cluster.age) \in 0 .. Outdated
    BY <1>1, OlderAge DEF ClusterShape
  <1>8. ClusterShape(cluster')
    BY <1>1, <1>3, <1>5, <1>6, <1>7 DEF ClusterShape
  <1> QED BY <1>3, <1>5, <1>6, <1>8

LEMMA TickKeeps ==
  ASSUME InspectorInv, Tick
  PROVE  InspectorInv'
  <1>1. ClusterIsElected' /\ leaders' = leaders
    BY DEF Tick, clusterVars, InspectorInv, ClusterIsElected
  <1>2. MessagesAreTrue'
    <2>1. timer' \in [Node -> 0 .. NodePeriod]
      <3>1. ASSUME NEW n \in Node PROVE Min({timer[n] + 1, NodePeriod}) \in 0 .. NodePeriod
        <4>1. timer[n] + 1 \in Nat /\ NodePeriod \in Nat
          BY InspectorConstants, PeriodsType DEF InspectorInv, MessagesAreTrue
        <4> QED BY <4>1, Min2
      <3> QED BY <3>1 DEF Tick
    <2>2. ASSUME NEW k \in messages' PROVE k \in Row /\ TellsOfElection(k)'
      <3>1. PICK m \in messages : k = [m EXCEPT !.age = Older(m.age)]
        BY DEF Tick
      <3>2. m \in Row /\ TellsOfElection(m) /\ Older(m.age) \in 0 .. Outdated
        BY OlderAge DEF InspectorInv, MessagesAreTrue, Row
      <3>3. k \in Row /\ k.state = m.state /\ k.term = m.term /\ k.id = m.id
        BY <3>1, <3>2 DEF Row
      <3> QED BY <1>1, <3>2, <3>3 DEF TellsOfElection
    <2> QED BY <2>1, <2>2 DEF MessagesAreTrue, TellsOfElection
  <1>3. /\ newest' \in [Node -> 0 .. Outdated]
        /\ \A n \in Node : newest'[n] = Older(newest[n])
    BY OlderAge DEF Tick, InspectorInv
  <1>4. Older(Outdated) = Outdated
    BY OlderAge, OutdatedType
  <1>5. CASE cluster = None
    <2>1. cluster' = None
      BY <1>5 DEF Tick
    <2>2. NewestOf(cluster, newest)'
      BY <1>3, <1>4, <1>5, <2>1 DEF InspectorInv, NewestOf, None
    <2> QED BY <1>1, <1>2, <1>3, <2>1, <2>2 DEF InspectorInv, Known
  <1>6. CASE Known
    <2>1. ClusterOK(cluster) /\ AgeIsOfRow(cluster)
      BY <1>6 DEF InspectorInv
    <2>2. ClusterShape(cluster')
      BY <1>6, TickedCluster
    <2>3. /\ DOMAIN cluster'.nodes = DOMAIN cluster.nodes
          /\ cluster'.age = Older(cluster.age)
          /\ cluster'.term = cluster.term /\ cluster'.leader = cluster.leader
          /\ cluster'.leader_exist = cluster.leader_exist
          /\ \A n \in DOMAIN cluster.nodes :
               /\ cluster'.nodes[n].age = Older(cluster.nodes[n].age)
               /\ cluster'.nodes[n].term = cluster.nodes[n].term
               /\ cluster'.nodes[n].state = cluster.nodes[n].state
               /\ cluster'.nodes[n].id = n
      BY <1>6, TickedCluster
    <2>4. /\ cluster.age \in 0 .. Outdated
          /\ \A n \in DOMAIN cluster.nodes : /\ cluster.nodes[n].age \in 0 .. Outdated
                                             /\ cluster.nodes[n].id = n
      BY <2>1 DEF ClusterOK, ClusterShape, Row
    <2>5. \A a, b \in 0 .. Outdated : a <= b => Older(a) <= Older(b)
      BY OlderAge, OutdatedType
    <2>6. NewestOf(cluster, newest)'
      BY <1>3, <1>4, <2>3 DEF InspectorInv, NewestOf
    <2>7. RowsOK(cluster)'
      BY <1>1, <2>1, <2>3, <2>4, <2>5 DEF ClusterOK, RowsOK, TellsOfElection
    <2>8. AgeIsOfRow(cluster)'
      BY <2>1, <2>3, <2>4, <2>5 DEF AgeIsOfRow
    <2>9. LeaderOK(cluster)'
      BY <1>1, <2>1, <2>3 DEF ClusterOK, LeaderOK
    <2>10. ClusterShape(cluster)'
      BY <2>2 DEF ClusterShape
    <2> QED BY <1>1, <1>2, <1>3, <2>6, <2>7, <2>8, <2>9, <2>10 DEF InspectorInv, ClusterOK
  <1> QED BY <1>5, <1>6 DEF Known

LEMMA InspectorInitial == Init => InspectorInv
  <1> SUFFICES ASSUME Init PROVE InspectorInv
    OBVIOUS
  <1>1. ClusterIsElected
    BY InspectorConstants, PeriodsType DEF Init, Election!Init, ClusterIsElected
  <1>2. MessagesAreTrue
    BY DEF Init, MessagesAreTrue
  <1>3. newest \in [Node -> 0 .. Outdated] /\ NewestOf(cluster, newest)
    BY OutdatedType DEF Init, NewestOf, None
  <1> QED BY <1>1, <1>2, <1>3 DEF Init, InspectorInv, Known

LEMMA InspectorInvariant == Spec => []InspectorInv
  <1>1. InspectorInv /\ [Next]_vars => InspectorInv'
    <2> SUFFICES ASSUME InspectorInv, [Next]_vars PROVE InspectorInv'
      OBVIOUS
    <2>1. CASE UNCHANGED vars
      <3>1. leaders \subseteq leaders' /\ UNCHANGED <<cluster, newest>>
        BY <2>1 DEF vars, clusterVars
      <3>2. ClusterIsElected' /\ MessagesAreTrue'
        BY <2>1 DEF vars, clusterVars, InspectorInv, ClusterIsElected, MessagesAreTrue,
                    TellsOfElection
      <3> QED BY <3>1, <3>2, KnowledgeStays DEF InspectorInv
    <2> QED
      BY <2>1, RaftStepKeeps, NodesKeep, ReceiveKeeps, RefreshKeeps, TickKeeps DEF Next
  <1> QED BY <1>1, InspectorInitial, PTL DEF Spec

-----------------------------------------------------------------------------
\* The type invariant, whatever messages arrive.
THEOREM InspectorTypeCorrect == Spec => []InspectorTypeOK
  <1>1. InspectorInv => InspectorTypeOK
    <2> SUFFICES ASSUME InspectorInv PROVE InspectorTypeOK
      OBVIOUS
    <2>1. Known => /\ Listed # {} /\ Listed \subseteq Node
                   /\ \A n \in Listed : Details[n] \in Row /\ Details[n].id = n
                   /\ cluster.term \in 0 .. MaxTerm /\ cluster.age \in 0 .. Outdated
      BY DEF InspectorInv, ClusterOK, ClusterShape, AgeIsOfRow, Listed, Details
    <2> QED BY <2>1 DEF InspectorInv, ClusterIsElected, MessagesAreTrue, InspectorTypeOK
  <1> QED BY <1>1, InspectorInvariant, PTL

\* No message that comes late replaces a newer row, not even after
\* update_cluster_info dropped the node or the cluster and it is listed again.
THEOREM RowsAreNewest == Spec => []NewestIsShown
  <1>1. InspectorInv => NewestIsShown
    <2> SUFFICES ASSUME InspectorInv, NEW n \in Listed
                 PROVE  Details[n].age = newest[n]
      BY DEF NewestIsShown
    <2>1. n \in Node
      BY DEF InspectorInv, Known, ClusterOK, ClusterShape, Listed, Details, None
    <2> QED BY <2>1 DEF InspectorInv, NewestOf, Listed, Details
  <1> QED BY <1>1, InspectorInvariant, PTL

\* A leader in the summary is listed and was elected.
THEOREM SummaryIsTrue == Spec => []ShownLeaderLed
  <1>1. InspectorInv => ShownLeaderLed
    BY DEF InspectorInv, Known, LeaderShown, ClusterOK, LeaderOK, ShownLeaderLed,
           Summary, Listed, Details
  <1> QED BY <1>1, InspectorInvariant, PTL

\* A node that is listed as leader in the newest term is the leader shown.
THEOREM SummaryIsCurrent == Spec => []CurrentLeaderIsShown
  <1>1. InspectorInv => CurrentLeaderIsShown
    <2> SUFFICES ASSUME InspectorInv, NEW n \in Listed,
                        Details[n].state = "LEADER", Details[n].term = Summary.term
                 PROVE  LeaderShown /\ Summary.leader = n
      BY DEF CurrentLeaderIsShown
    <2>1. Known
      BY DEF Known, None, Listed, Details
    <2>2. cluster.leader_exist /\ cluster.leader = n
      BY <2>1 DEF InspectorInv, ClusterOK, LeaderOK, Summary, Listed, Details
    <2> QED BY <2>1, <2>2 DEF LeaderShown, Summary
  <1> QED BY <1>1, InspectorInvariant, PTL

-----------------------------------------------------------------------------
(* A node whose messages are in time stays listed                           *)

\* After a message of n with this age, the next one is not due yet, or on its
\* way and at most a period younger.
NextIsComing(n, age) ==
  \/ age <= timer[n]
  \/ \E m \in messages : m.id = n /\ m.age < age /\ age <= m.age + NodePeriod

\* So it is for the row of n and for its messages that are still news.
InTime(n) ==
  /\ n \in Listed => NextIsComing(n, Details[n].age)
  /\ \A m \in messages :
       m.id = n => NextIsComing(n, m.age) \/ (n \in Listed /\ Details[n].age < m.age)

TimelyInv ==
  timely => /\ \A m \in messages : m.age <= Delay
            /\ \A n \in up : InTime(n)

\* A row is not outdated before the next message has arrived.
LEMMA RowIsFresh ==
  ASSUME InspectorInv, TimelyInv, timely, NEW n \in up, n \in Listed
  PROVE  /\ n \in Node /\ Known /\ Details[n].age \in Nat
         /\ ~is_outdated(Details[n].age) /\ ~is_outdated(cluster.age)
         /\ get_cluster_info = cluster
  <1>1. Known
    BY DEF Known, None, Listed, Details
  <1>2. /\ n \in Node /\ Details[n].age \in 0 .. Outdated
        /\ cluster.age \in 0 .. Outdated /\ cluster.age <= Details[n].age
    BY <1>1 DEF InspectorInv, ClusterOK, ClusterShape, RowsOK, Row, Listed, Details
  <1>3. NextIsComing(n, Details[n].age)
    BY DEF TimelyInv, InTime
  <1>4. Details[n].age < Outdated
    <2>1. CASE Details[n].age <= timer[n]
      <3>1. timer[n] \in 0 .. NodePeriod
        BY <1>2 DEF InspectorInv, MessagesAreTrue
      <3> QED BY <1>2, <2>1, <3>1, OutdatedType, InspectorConstants, PeriodsType
    <2>2. ASSUME NEW m \in messages, Details[n].age <= m.age + NodePeriod
          PROVE  Details[n].age < Outdated
      <3>1. m.age <= Delay /\ m.age \in 0 .. Outdated
        BY DEF TimelyInv, InspectorInv, MessagesAreTrue, Row
      <3> QED BY <1>2, <2>2, <3>1, OutdatedType, InspectorConstants, PeriodsType
    <2> QED BY <1>3, <2>1, <2>2 DEF NextIsComing
  <1>5. ~is_outdated(Details[n].age) /\ ~is_outdated(cluster.age)
    BY <1>2, <1>4, OutdatedType DEF is_outdated
  <1> QED BY <1>1, <1>2, <1>5, OutdatedType DEF get_cluster_info, Known

\* Ages of messages and timers are numbers.
LEMMA AgeTypes ==
  ASSUME InspectorInv
  PROVE  /\ \A m \in messages : /\ m.id \in Node /\ m.age \in 0 .. Outdated
                                /\ m.age \in Nat
         /\ \A n \in Node : timer[n] \in 0 .. NodePeriod /\ timer[n] \in Nat
         /\ NodePeriod \in Nat /\ NodePeriod > 0 /\ Delay \in Nat
         /\ up \subseteq Node
  BY InspectorConstants, PeriodsType, OutdatedType DEF InspectorInv, MessagesAreTrue,
     ClusterIsElected, Row

\* Nodes publish in time.
LEMMA PublishInTime ==
  ASSUME InspectorInv, TimelyInv, timely, NEW i \in Node, Publish(i)
  PROVE  TimelyInv'
  <1>1. /\ messages' = messages \cup {Message(i)} /\ timer[i] = NodePeriod
        /\ timer' = [timer EXCEPT ![i] = 0] /\ timer \in [Node -> 0 .. NodePeriod]
        /\ up' = up /\ cluster' = cluster /\ timely' = timely
        /\ Listed' = Listed /\ Details' = Details
    BY DEF Publish, clusterVars, InspectorInv, MessagesAreTrue, Listed, Details
  <1>2. Message(i).id = i /\ Message(i).age = 0
    BY DEF Message
  <1>3. \A m \in messages' : m.age <= Delay
    BY <1>1, <1>2, AgeTypes DEF TimelyInv
  <1>4. ASSUME NEW n \in up, NEW age \in Nat, NextIsComing(n, age)
        PROVE  NextIsComing(n, age)'
    <2>1. CASE age <= timer[n] /\ n = i
      <3>1. CASE age = 0
        BY <1>1, <2>1, <3>1, AgeTypes DEF NextIsComing
      <3>2. CASE age > 0
        <4>1. /\ Message(i) \in messages' /\ Message(i).id = n
              /\ Message(i).age < age /\ age <= Message(i).age + NodePeriod
          BY <1>1, <1>2, <2>1, <3>2, AgeTypes
        <4> QED BY <4>1 DEF NextIsComing
      <3> QED BY <3>1, <3>2
    <2>2. CASE age <= timer[n] /\ n # i
      BY <1>1, <2>2, AgeTypes DEF NextIsComing
    <2>3. CASE \E m \in messages : m.id = n /\ m.age < age /\ age <= m.age + NodePeriod
      BY <1>1, <2>3 DEF NextIsComing
    <2> QED BY <1>4, <2>1, <2>2, <2>3 DEF NextIsComing
  <1>5. ASSUME NEW n \in up PROVE InTime(n)'
    <2>1. InTime(n)
      BY <1>5 DEF TimelyInv
    <2>2. n \in Listed => NextIsComing(n, Details[n].age)'
      BY <1>1, <1>4, <2>1, RowIsFresh DEF InTime
    <2>3. ASSUME NEW m \in messages', m.id = n
          PROVE  NextIsComing(n, m.age)' \/ (n \in Listed /\ Details[n].age < m.age)
      <3>1. CASE m \in messages
        BY <1>4, <2>1, <2>3, <3>1, AgeTypes DEF InTime
      <3>2. CASE m = Message(i)
        BY <1>1, <1>2, <2>3, <3>2, AgeTypes DEF NextIsComing
      <3> QED BY <1>1, <3>1, <3>2
    <2> QED BY <1>1, <2>2, <2>3 DEF InTime
  <1> QED BY <1>1, <1>3, <1>5 DEF TimelyInv

\* A message that is received has a follower, or is followed by what is shown.
LEMMA ReceiveInTime ==
  ASSUME InspectorInv, TimelyInv, timely, NEW k \in messages, Receive(k)
  PROVE  /\ TimelyInv'
         /\ \A n \in up \cap Listed : n \in Listed'
  <1> DEFINE i == get_cluster_info
             id == k.id
  <1>1. /\ messages' = messages \ {k} /\ timer' = timer /\ up' = up /\ timely' = timely
    BY DEF Receive, clusterVars
  <1>2. \A m \in messages' : m.age <= Delay
    BY <1>1 DEF TimelyInv
  <1>3. /\ id \in Node /\ k.age \in Nat /\ k.age <= Delay /\ k.age < Outdated
        /\ ~is_outdated(k.age)
    BY AgeTypes, OutdatedType DEF TimelyInv, is_outdated
  <1>4. \A n \in up \cap Listed : i = cluster /\ Details[n].age \in Nat
    BY RowIsFresh
  \* What follows k, or what k follows, in the row of its node.
  <1>5. ASSUME NEW n \in up, NEW age \in Nat, NextIsComing(n, age)
        PROVE  NextIsComing(n, age)' \/ (n = id /\ k.age < age)
    BY <1>1, <1>5 DEF NextIsComing
  <1>6. CASE IsOld(i, k)
    <2>1. cluster' = cluster /\ Listed' = Listed /\ Details' = Details
      BY <1>6 DEF Receive, Listed, Details
    <2>2. id \in up => id \in Listed /\ Details[id].age < k.age
      <3>1. get_node_info(i, id).age < k.age
        BY <1>3, <1>6 DEF IsOld
      <3>2. id \in DOMAIN i.nodes
        BY <1>3, <3>1, OutdatedType DEF get_node_info
      <3>3. i = cluster
        BY <3>2 DEF get_cluster_info, NewCluster
      <3> QED BY <3>1, <3>2, <3>3 DEF get_node_info, Listed, Details
    <2>3. ASSUME NEW n \in up PROVE InTime(n)'
      <3>1. InTime(n)
        BY DEF TimelyInv
      <3>2. n \in Listed => NextIsComing(n, Details[n].age)'
        <4> SUFFICES ASSUME n \in Listed PROVE NextIsComing(n, Details[n].age)'
          OBVIOUS
        <4>1. \/ NextIsComing(n, Details[n].age)'
              \/ (n = id /\ k.age < Details[n].age)
          BY <1>4, <1>5, <2>1, <3>1 DEF InTime
        <4>2. n = id => Details[n].age < k.age
          BY <2>2
        <4> QED BY <1>3, <1>4, <4>1, <4>2
      <3>3. ASSUME NEW m \in messages', m.id = n
            PROVE  NextIsComing(n, m.age)' \/ (n \in Listed /\ Details[n].age < m.age)
        <4>1. m \in messages /\ m.age \in Nat
          BY <1>1, AgeTypes
        <4>2. NextIsComing(n, m.age) \/ (n \in Listed /\ Details[n].age < m.age)
          BY <3>1, <3>3, <4>1 DEF InTime
        <4>3. CASE n = id /\ k.age < m.age
          BY <1>3, <1>4, <2>2, <4>1, <4>3
        <4> QED BY <1>5, <4>1, <4>2, <4>3
      <3> QED BY <2>1, <3>2, <3>3 DEF InTime
    <2> QED BY <1>1, <1>2, <2>1, <2>3 DEF TimelyInv
  <1>7. CASE ~IsOld(i, k)
    <2> DEFINE c == Learn(i, k)
               d == update_cluster_info(c)
    <2>1. k \in Row /\ TellsOfElection(k) /\ ClusterIsElected
      BY DEF InspectorInv, MessagesAreTrue
    <2>2. /\ ClusterOK(i) /\ (~is_outdated(i.age) => AgeIsOfRow(i))
      BY InfoIsOK
    <2> HIDE DEF i
    <2>3. /\ ClusterOK(c) /\ AgeIsOfRow(c) /\ ~is_outdated(c.age)
          /\ DOMAIN c.nodes = DOMAIN i.nodes \cup {id} /\ c.nodes[id] = k
          /\ \A n \in DOMAIN i.nodes : n # id => c.nodes[n] = i.nodes[n]
      BY <1>7, <2>1, <2>2, LearnIsOK
    <2> HIDE DEF c
    <2>4. /\ DOMAIN d.nodes = {n \in DOMAIN c.nodes : ~is_outdated(c.nodes[n].age)}
          /\ \A n \in DOMAIN d.nodes : d.nodes[n] = c.nodes[n]
      BY <2>3, UpdateIsOK
    <2> HIDE DEF d
    <2>5. cluster' = d /\ Listed' = DOMAIN d.nodes /\ Details' = d.nodes
      BY <1>7 DEF Receive, i, c, d, Listed, Details
    <2>6. id \in Listed' /\ Details'[id] = k
      BY <1>3, <2>3, <2>4, <2>5
    <2>7. ASSUME NEW n \in up, n \in Listed
          PROVE  n \in Listed' /\ (n # id => Details'[n] = Details[n])
      <3>1. i = cluster /\ ~is_outdated(Details[n].age)
        BY <2>7, RowIsFresh DEF i
      <3>2. CASE n = id
        BY <2>6, <3>2
      <3>3. CASE n # id
        <4>1. c.nodes[n] = Details[n] /\ n \in DOMAIN c.nodes
          BY <2>3, <2>7, <3>1, <3>3 DEF Listed, Details
        <4> QED BY <2>4, <2>5, <3>1, <4>1
      <3> QED BY <3>2, <3>3
    <2>8. id \in up /\ id \in Listed => k.age <= Details[id].age
      <3> SUFFICES ASSUME id \in up, id \in Listed PROVE k.age <= Details[id].age
        OBVIOUS
      <3>1. i = cluster /\ Details[id].age \in Nat
        BY RowIsFresh DEF i
      <3>2. get_node_info(i, id) = Details[id]
        BY <3>1 DEF get_node_info, Listed, Details
      <3> QED BY <1>3, <1>7, <3>1, <3>2 DEF IsOld
    <2>9. ASSUME NEW n \in up, n # id PROVE n \in Listed' => n \in Listed
      <3>1. ASSUME n \in Listed' PROVE n \in Listed
        <4>1. n \in DOMAIN i.nodes
          BY <2>3, <2>4, <2>5, <2>9, <3>1
        <4>2. i = cluster
          BY <4>1 DEF i, get_cluster_info, NewCluster
        <4> QED BY <4>1, <4>2 DEF Listed, Details
      <3> QED BY <3>1
    <2>10. ASSUME NEW n \in up PROVE InTime(n)'
      <3>1. InTime(n)
        BY DEF TimelyInv
      <3>2. ASSUME NEW m \in messages', m.id = n
            PROVE  NextIsComing(n, m.age)' \/ (n \in Listed' /\ Details'[n].age < m.age)
        <4>1. m \in messages /\ m.age \in Nat
          BY <1>1, AgeTypes
        <4>2. NextIsComing(n, m.age) \/ (n \in Listed /\ Details[n].age < m.age)
          BY <3>1, <3>2, <4>1 DEF InTime
        <4>3. CASE n = id /\ k.age < m.age
          BY <2>6, <4>3
        <4>4. CASE n \in Listed /\ Details[n].age < m.age
          <5>1. CASE n = id
            BY <1>3, <1>4, <2>6, <2>8, <4>1, <4>4, <5>1
          <5>2. CASE n # id
            BY <2>7, <4>4, <5>2
          <5> QED BY <5>1, <5>2
        <4> QED BY <1>5, <4>1, <4>2, <4>3, <4>4
      <3>3. ASSUME n \in Listed' PROVE NextIsComing(n, Details[n].age)'
        <4>1. CASE n = id
          <5>1. NextIsComing(n, k.age) \/ (n \in Listed /\ Details[n].age < k.age)
            BY <3>1, <4>1 DEF InTime
          <5>2. NextIsComing(n, k.age)
            BY <1>3, <1>4, <2>8, <4>1, <5>1
          <5>3. NextIsComing(n, k.age)'
            BY <1>3, <1>5, <5>2
          <5> QED BY <2>6, <4>1, <5>3
        <4>2. CASE n # id
          <5>1. n \in Listed /\ Details'[n] = Details[n]
            BY <2>7, <2>9, <3>3, <4>2
          <5>2. NextIsComing(n, Details[n].age) /\ Details[n].age \in Nat
            BY <1>4, <3>1, <5>1 DEF InTime
          <5> QED BY <1>5, <4>2, <5>1, <5>2
        <4> QED BY <4>1, <4>2
      <3> QED BY <3>2, <3>3 DEF InTime
    <2> QED BY <1>1, <1>2, <2>7, <2>10 DEF TimelyInv
  <1> QED BY <1>6, <1>7

\* The refresh of the screen drops no row of a node that runs.
LEMMA RefreshInTime ==
  ASSUME InspectorInv, TimelyInv, timely, Refresh
  PROVE  /\ TimelyInv'
         /\ \A n \in up \cap Listed : n \in Listed'
  <1> DEFINE d == update_cluster_info(cluster)
  <1>1. /\ messages' = messages /\ timer' = timer /\ up' = up /\ timely' = timely
        /\ cluster' = d
    BY DEF Refresh, clusterVars
  <1>2. ClusterOK(cluster) /\ AgeIsOfRow(cluster)
    BY DEF Refresh, InspectorInv, Known
  <1>3. Listed' = DOMAIN d.nodes /\ Details' = d.nodes
    BY <1>1 DEF Listed, Details
  <1>4. CASE is_outdated(cluster.age)
    <2>1. d = None
      BY <1>4 DEF update_cluster_info
    <2>2. Listed' = {}
      BY <1>3, <2>1 DEF None
    <2>3. \A n \in up : n \notin Listed
      BY <1>4, RowIsFresh
    <2>4. \A n \in up : InTime(n)'
      BY <1>1, <2>2, <2>3 DEF TimelyInv, InTime, NextIsComing
    <2> QED BY <1>1, <2>3, <2>4 DEF TimelyInv
  <1>5. CASE ~is_outdated(cluster.age)
    <2>1. /\ DOMAIN d.nodes =
               {n \in DOMAIN cluster.nodes : ~is_outdated(cluster.nodes[n].age)}
          /\ \A n \in DOMAIN d.nodes : d.nodes[n] = cluster.nodes[n]
      BY <1>2, <1>5, UpdateIsOK
    <2> HIDE DEF d
    <2>2. ASSUME NEW n \in up
          PROVE  /\ n \in Listed <=> n \in Listed'
                 /\ n \in Listed => Details'[n] = Details[n]
      <3>1. n \in Listed => ~is_outdated(Details[n].age)
        BY RowIsFresh
      <3> QED BY <1>3, <2>1, <3>1 DEF Listed, Details
    <2>3. \A n \in up : InTime(n)'
      BY <1>1, <2>2 DEF TimelyInv, InTime, NextIsComing
    <2> QED BY <1>1, <2>2, <2>3 DEF TimelyInv
  <1> QED BY <1>4, <1>5

\* A tick makes timers, messages and rows older alike.
LEMMA TickInTime ==
  ASSUME InspectorInv, TimelyInv, timely, Tick
  PROVE  /\ TimelyInv'
         /\ \A n \in up \cap Listed : n \in Listed'
  <1>1. /\ messages' = {[m EXCEPT !.age = Older(m.age)] : m \in messages}
        /\ up' = up /\ timely' = timely
        /\ \A n \in up : timer[n] < NodePeriod
        /\ \A m \in messages : m.age < Delay
    BY DEF Tick, clusterVars
  <1>2. ASSUME NEW n \in up PROVE timer'[n] = timer[n] + 1 /\ timer[n] \in Nat
    <2>1. n \in Node /\ timer[n] \in Nat /\ timer[n] + 1 \in Nat /\ NodePeriod \in Nat
      BY AgeTypes
    <2>2. timer'[n] = Min({timer[n] + 1, NodePeriod})
      BY <2>1 DEF Tick
    <2> QED BY <1>1, <2>1, <2>2, Min2
  <1>3. ASSUME NEW m \in messages
        PROVE  LET k == [m EXCEPT !.age = Older(m.age)]
               IN  k \in messages' /\ k.id = m.id /\ k.age = m.age + 1
    <2>1. Older(m.age) = m.age + 1
      BY <1>1, AgeTypes, OlderAge, OutdatedType
    <2>2. m \in Row
      BY DEF InspectorInv, MessagesAreTrue
    <2> QED BY <1>1, <2>1, <2>2 DEF Row
  <1>4. ASSUME NEW k \in messages'
        PROVE  \E m \in messages : k.id = m.id /\ k.age = m.age + 1
    BY <1>1, <1>3
  <1>5. \A k \in messages' : k.age <= Delay
    BY <1>1, <1>4, AgeTypes
  <1>6. ASSUME NEW n \in up, NEW age \in Nat, NextIsComing(n, age)
        PROVE  NextIsComing(n, age + 1)'
    <2>1. CASE age <= timer[n]
      <3>1. age + 1 <= timer'[n]
        BY <1>2, <2>1
      <3> QED BY <3>1 DEF NextIsComing
    <2>2. ASSUME NEW m \in messages, m.id = n, m.age < age, age <= m.age + NodePeriod
          PROVE  NextIsComing(n, age + 1)'
      <3>1. PICK k \in messages' : k.id = n /\ k.age = m.age + 1
        BY <1>3, <2>2
      <3>2. k.age < age + 1 /\ age + 1 <= k.age + NodePeriod
        BY <2>2, <3>1, AgeTypes
      <3> QED BY <3>1, <3>2 DEF NextIsComing
    <2> QED BY <1>6, <2>1, <2>2 DEF NextIsComing
  <1>7. Listed' = Listed
    <2>1. CASE cluster = None
      BY <2>1 DEF Tick, Listed, Details
    <2>2. CASE Known
      BY <2>2, TickedCluster DEF Listed, Details
    <2> QED BY <2>1, <2>2 DEF Known
  <1>8. ASSUME NEW n \in up, n \in Listed
        PROVE  Details'[n].age = Details[n].age + 1 /\ Details[n].age \in Nat
    <2>1. /\ Known /\ Details[n].age \in Nat /\ Details[n].age < Outdated
      BY <1>8, RowIsFresh, OutdatedType DEF is_outdated
    <2>2. Details'[n].age = Older(Details[n].age)
      BY <1>8, <2>1, TickedCluster DEF Listed, Details
    <2> QED BY <2>1, <2>2, OlderAge, OutdatedType
  <1>9. ASSUME NEW n \in up PROVE InTime(n)'
    <2>1. InTime(n)
      BY DEF TimelyInv
    <2>2. n \in Listed => NextIsComing(n, Details[n].age)'
      <3> SUFFICES ASSUME n \in Listed PROVE NextIsComing(n, Details[n].age)'
        OBVIOUS
      <3>1. NextIsComing(n, Details[n].age) /\ Details[n].age \in Nat
        BY <1>8, <2>1 DEF InTime
      <3>2. PICK age \in Nat : age = Details[n].age
        BY <3>1
      <3>3. NextIsComing(n, age + 1)'
        BY <1>6, <3>1, <3>2
      <3>4. Details'[n].age = age + 1
        BY <1>8, <3>2
      <3> QED BY <3>3, <3>4
    <2>3. ASSUME NEW k \in messages', k.id = n
          PROVE  NextIsComing(n, k.age)' \/ (n \in Listed' /\ Details'[n].age < k.age)
      <3>1. PICK m \in messages : m.id = n /\ k.age = m.age + 1
        BY <1>4, <2>3
      <3>2. m.age \in Nat
        BY AgeTypes
      <3>3. NextIsComing(n, m.age) \/ (n \in Listed /\ Details[n].age < m.age)
        BY <2>1, <3>1 DEF InTime
      <3>4. CASE NextIsComing(n, m.age)
        BY <1>6, <3>1, <3>2, <3>4
      <3>5. CASE n \in Listed /\ Details[n].age < m.age
        BY <1>7, <1>8, <3>1, <3>2, <3>5
      <3> QED BY <3>3, <3>4, <3>5
    <2> QED BY <1>7, <2>2, <2>3 DEF InTime
  <1> QED BY <1>1, <1>5, <1>7, <1>9 DEF TimelyInv

\* What the step of a node leaves of it, while everything is in time.
LEMMA StepInTime ==
  ASSUME InspectorInv, TimelyInv, timely, [Next]_vars
  PROVE  /\ TimelyInv'
         /\ \A n \in up' \cap Listed : n \in Listed'
  <1>1. ASSUME UNCHANGED <<timely, timer, messages, cluster>>, up' \subseteq up
        PROVE  /\ TimelyInv'
               /\ \A n \in up' \cap Listed : n \in Listed'
    <2>1. Listed' = Listed /\ Details' = Details
      BY <1>1 DEF Listed, Details
    <2>2. \A n \in up : InTime(n)'
      BY <1>1, <2>1 DEF TimelyInv, InTime, NextIsComing
    <2> QED BY <1>1, <2>1, <2>2 DEF TimelyInv
  <1>2. ASSUME NEW n \in Node, RaftStep(n) \/ Stop(n)
        PROVE  UNCHANGED <<timely, timer, messages, cluster>> /\ up' \subseteq up
    BY <1>2 DEF RaftStep, Stop
  <1>3. ASSUME NEW n \in Node, Publish(n)
        PROVE  TimelyInv' /\ \A i \in up' \cap Listed : i \in Listed'
    <2>1. Listed' = Listed
      BY <1>3 DEF Publish, Listed, Details
    <2> QED BY <1>3, <2>1, PublishInTime
  <1>4. \A n \in Node : ~Start(n)
    BY DEF Start
  <1>5. \A m \in messages : ~Lose(m)
    BY DEF Lose
  <1>6. ASSUME NEW m \in messages, Receive(m)
        PROVE  TimelyInv' /\ \A i \in up' \cap Listed : i \in Listed'
    BY <1>6, ReceiveInTime DEF Receive, clusterVars
  <1>7. ASSUME Refresh \/ Tick
        PROVE  TimelyInv' /\ \A i \in up' \cap Listed : i \in Listed'
    BY <1>7, RefreshInTime, TickInTime DEF Refresh, Tick, clusterVars
  <1>8. CASE UNCHANGED vars
    BY <1>1, <1>8 DEF vars, clusterVars
  <1>9. CASE Next
    BY <1>1, <1>2, <1>3, <1>4, <1>5, <1>6, <1>7, <1>9 DEF Next
  <1> QED BY <1>8, <1>9

\* Whether everything is in time never changes.
LEMMA TimelyStays == [Next]_vars => timely' = timely
  BY DEF Next, vars, clusterVars, RaftStep, Stop, Start, Publish, Lose, Receive,
         Refresh, Tick

LEMMA TimelyInvariant == Spec => []TimelyInv
  <1>1. Init => TimelyInv
    BY DEF Init, TimelyInv, InTime, Listed, Details, None
  <1>2. InspectorInv /\ TimelyInv /\ [Next]_vars => TimelyInv'
    <2> SUFFICES ASSUME InspectorInv, TimelyInv, [Next]_vars PROVE TimelyInv'
      OBVIOUS
    <2>1. CASE timely
      BY <2>1, StepInTime
    <2>2. CASE ~timely
      BY <2>2, TimelyStays DEF TimelyInv
    <2> QED BY <2>1, <2>2
  <1> QED BY <1>1, <1>2, InspectorInvariant, PTL DEF Spec

\* With timers on time and messages late by at most Delay, is_outdated never
\* drops the row of a node that runs: the next message comes before.
THEOREM RunningNodesStay == Spec => StaysListed
  <1>1. InspectorInv /\ TimelyInv /\ [Next]_vars
          => [timely => \A n \in up' \cap Listed : n \in Listed']_vars
    BY StepInTime
  <1> QED BY <1>1, InspectorInvariant, TimelyInvariant, PTL DEF Spec, StaysListed
=============================================================================
