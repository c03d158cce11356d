-------------------------- MODULE RaftStateMachine --------------------------
(***************************************************************************)
(* The event-driven state machine that every cluster node runs (src/foros/ *)
(* src/raft/state_machine.cpp on top of common/state_machine.hpp).  Each   *)
(* state owns a map from events to next states; an event that is missing   *)
(* from the map of the current state, or that maps to kStay, leaves the    *)
(* state as it is.  What a state does on entry, on exit and on an event it *)
(* stays on is part of the handler that raises the event: see Raft.        *)
(***************************************************************************)

\* enum class StateType, without kUnknown and kStay, which are never current.
StateType == {"Standby", "Follower", "Candidate", "Leader"}

\* enum class Event.  kTerminated is declared but the library never raises it.
Event == {"Started", "Timedout", "BroadcastTimedout", "LeaderDiscovered",
          "NewTermReceived", "Elected", "Terminated"}

(***************************************************************************)
(* The transition maps of the four states, without their kStay entries:    *)
(* Candidate on Timedout and Leader on BroadcastTimedout run a callback    *)
(* and stay.                                                               *)
(***************************************************************************)
StandbyTransitions   == {<<"Standby", "Started", "Follower">>}
FollowerTransitions  == {<<"Follower", "Terminated", "Standby">>,
                         <<"Follower", "Timedout", "Candidate">>}
CandidateTransitions == {<<"Candidate", "Terminated", "Standby">>,
                         <<"Candidate", "Elected", "Leader">>,
                         <<"Candidate", "LeaderDiscovered", "Follower">>,
                         <<"Candidate", "NewTermReceived", "Follower">>}
LeaderTransitions    == {<<"Leader", "Terminated", "Standby">>,
                         <<"Leader", "LeaderDiscovered", "Follower">>,
                         <<"Leader", "NewTermReceived", "Follower">>}

Transitions == StandbyTransitions \cup FollowerTransitions
                 \cup CandidateTransitions \cup LeaderTransitions

\* StateMachine::handle(event) in state s: the state that is current afterwards.
handle(s, e) ==
  LET next == {t \in StateType : <<s, e, t>> \in Transitions}
  IN  IF next = {} THEN s ELSE CHOOSE t \in next : TRUE
=============================================================================
