------------------------ MODULE LifecycleStateMachine ------------------------
(***************************************************************************)
(* The lifecycle of a cluster node (src/foros/src/lifecycle/ on top of     *)
(* common/state_machine.hpp), which follows the raft state machine.  The   *)
(* entry, exit and event methods of its three states are empty.            *)
(***************************************************************************)

\* lifecycle::StateType, without kUnknown, which is never current.
StateType == {"Inactive", "Standby", "Active"}

\* lifecycle::Event
Event == {"Activate", "Deactivate", "Standby"}

InactiveTransitions == {<<"Inactive", "Standby", "Standby">>,
                        <<"Inactive", "Activate", "Active">>}
StandbyTransitions  == {<<"Standby", "Activate", "Active">>,
                        <<"Standby", "Deactivate", "Inactive">>}
\* Mutant of ActiveTransitions: an active node stays so when it loses the lead.
ActiveTransitionsNoStandby == {<<"Active", "Deactivate", "Inactive">>}
ActiveTransitions   == {<<"Active", "Standby", "Standby">>,
                        <<"Active", "Deactivate", "Inactive">>}

Transitions == InactiveTransitions \cup StandbyTransitions \cup ActiveTransitions

\* An event that is not in the map of the state gives kUnknown: the state stays.
handle(s, e) ==
  LET next == {t \in StateType : <<s, e, t>> \in Transitions}
  IN  IF next = {} THEN s ELSE CHOOSE t \in next : TRUE

\* ClusterNodeImpl::handle(raft state): the event that a raft state raises.
EventOf(raft_state) ==
  CASE raft_state = "Standby" -> "Deactivate"
    [] raft_state \in {"Follower", "Candidate"} -> "Standby"
    [] raft_state = "Leader" -> "Activate"
=============================================================================
