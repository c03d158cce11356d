---------------------------- MODULE ClusterNode ----------------------------
(***************************************************************************)
(* One process of a cluster node, with its threads.  The executor runs the *)
(* handlers of timers, services and clients, one at a time; within a       *)
(* handler it drives the raft state machine, which drives the lifecycle,   *)
(* which calls the application, which may call commit_command from there.  *)
(* Threads of the application call commit_command at any time.             *)
(*                                                                         *)
(* What a handler still has to do is the sequence work; a step of it is    *)
(* one access to what the threads share: current_state_, the store, and    *)
(* pending_commit_ under its mutex.  The rest of the cluster (see Raft)    *)
(* is represented by the messages it may send.                             *)
(***************************************************************************)
EXTENDS Naturals, Sequences, FiniteSetsExt

CONSTANTS
  Command,      \* the commands of this application, each submitted at most once
  Remote,       \* commands that other nodes put in the log
  Caller,       \* threads of the application that call commit_command
  Executor,     \* the thread that runs the handlers
  Recommits,    \* whether a callback of the application may commit a command
  Alone,        \* whether the cluster has one node only: TRUE, FALSE or both
  OldEntries,   \* whether a leader may get entries of a smaller term
  PutMayFail,   \* whether a push_log may fail to store its entry
  None,         \* no pending commit
  MaxTerm,      \* bound: terms
  MaxLog        \* bound: entries in the log

ASSUME NodeConstants ==
  /\ Executor \notin Caller /\ None \notin Command /\ Command \cap Remote = {}
  /\ {Recommits, OldEntries, PutMayFail} \cup Alone \subseteq BOOLEAN
  /\ MaxTerm \in Nat \ {0} /\ MaxLog \in Nat
  /\ None \notin [id : Nat, term : 1 .. MaxTerm, command : Command]

VARIABLES
  alone,            \* cluster_size_ <= 1; it never changes
  raft, lifecycle,  \* current_state_ of the two state machines
  election_timer, broadcast_timer,  \* which timers are armed
  term, log,        \* ContextStore
  pending,          \* Context::pending_commit_
  asked,            \* requests were sent for entries with ids below asked
  work,             \* what the executor has to do in the current handler
  call,             \* per thread, its commit_command under way
  registered,       \* the application has registered its callbacks
  told,             \* the last lifecycle callback the application got
  applied,          \* the log as its commit and revert callbacks describe it
  submitted, promise,  \* commands submitted, and what their promises were set to
  led,              \* history: the terms this node was elected in
  acknowledged      \* history: the commits reported successful, and whether
                    \* their entry was stored

raftVars == <<raft, election_timer, broadcast_timer, term, led>>
lifeVars == <<alone, lifecycle, registered, told>>
dataVars == <<log, applied, asked, acknowledged>>
callVars == <<call, submitted>>
vars == <<raftVars, lifeVars, dataVars, callVars, pending, work, promise>>

RaftMachine == INSTANCE RaftStateMachine
Lifecycle == INSTANCE LifecycleStateMachine

Thread == Caller \cup {Executor}
Idle == [pc |-> "idle"]

-----------------------------------------------------------------------------
(* The executor.  An item of work is a tuple with the name of a step first. *)

\* The executor is in its own code, and its next step is the step named op.
Doing(op) == /\ work # <<>> /\ Head(work)[1] = op /\ call[Executor] = Idle

\* The item is done; it is followed by the items of steps.
Then(steps) == work' = steps \o Tail(work)

\* Code of the application runs here, and may call the library.
Callback == IF Recommits THEN <<<<"callback">>>> ELSE <<>>

\* Mutant of Transition: the observers are notified after entry().
TransitionNotifiedLast(s) ==
  <<<<"exit">>, <<"enter", s>>, <<"entry", s>>, <<"notify", s>>>>

\* common::StateMachine::handle, when the state changes to s.
Transition(s) ==
  <<<<"exit">>, <<"enter", s>>, <<"notify", s>>, <<"entry", s>>>>

\* What a state does on an event that it stays on.
OnEvent(s, e) ==
  CASE s = "Candidate" /\ e = "Timedout" -> <<<<"start_election">>>>
    [] s = "Leader" /\ e = "BroadcastTimedout" -> <<<<"broadcast">>>>
    [] OTHER -> <<>>

\* StateMachine::handle(event)
HandleEvent ==
  /\ Doing("handle")
  /\ LET e == Head(work)[2]
         s == RaftMachine!handle(raft, e)
     IN  Then(IF s = raft THEN OnEvent(raft, e) ELSE Transition(s))
  /\ UNCHANGED <<raftVars, lifeVars, dataVars, callVars, pending, promise>>

\* Mutant of Exit: Leader::exit leaves the broadcast timer armed.
ExitTimerRuns ==
  /\ Doing("exit")
  /\ Then(IF raft = "Leader" THEN <<<<"cancel">>>> ELSE <<>>)
  /\ UNCHANGED <<raftVars, lifeVars, dataVars, callVars, pending, promise>>

\* Mutant of Exit: the pending commit of a leader survives its leadership.
ExitNoCancel ==
  /\ Doing("exit")
  /\ broadcast_timer' = (broadcast_timer /\ raft # "Leader")
  /\ Then(<<>>)
  /\ UNCHANGED <<raft, election_timer, term, led, lifeVars, dataVars, callVars,
                 pending, promise>>

\* exit(): only Leader::exit does anything.
Exit ==
  /\ Doing("exit")
  /\ broadcast_timer' = (broadcast_timer /\ raft # "Leader")
  /\ Then(IF raft = "Leader" THEN <<<<"cancel">>>> ELSE <<>>)
  /\ UNCHANGED <<raft, election_timer, term, led, lifeVars, dataVars, callVars,
                 pending, promise>>

\* Mutant of Cancel: the pending commit is dropped without an answer.
CancelSilently ==
  /\ Doing("cancel")
  /\ pending' = None
  /\ Then(<<>>)
  /\ UNCHANGED <<raftVars, lifeVars, dataVars, callVars, promise>>

\* Mutant of Cancel: clear_pending_commit does not reset pending_commit_.
CancelKeeps ==
  /\ Doing("cancel")
  /\ Then(IF pending = None THEN <<>>
          ELSE <<<<"respond", pending.command, FALSE>>>>)
  /\ UNCHANGED <<raftVars, lifeVars, dataVars, callVars, pending, promise>>

\* Context::cancel_pending_commit, up to complete_commit.
Cancel ==
  /\ Doing("cancel")
  /\ pending' = None
  /\ Then(IF pending = None THEN <<>>
          ELSE <<<<"respond", pending.command, FALSE>>>>)
  /\ UNCHANGED <<raftVars, lifeVars, dataVars, callVars, promise>>

\* current_state_ = next_state
Enter ==
  /\ Doing("enter")
  /\ raft' = Head(work)[2]
  /\ led' = IF raft' = "Leader" THEN led \cup {term} ELSE led
  /\ Then(<<>>)
  /\ UNCHANGED <<election_timer, broadcast_timer, term, lifeVars, dataVars,
                 callVars, pending, promise>>

(***************************************************************************)
(* current_state_notifier_.notify: ClusterNodeImpl::handle passes the raft *)
(* state on to the lifecycle, which notifies ClusterNodeImpl in turn.      *)
(***************************************************************************)
Notify ==
  /\ Doing("notify")
  /\ LET next == Lifecycle!handle(lifecycle, Lifecycle!EventOf(Head(work)[2]))
     IN  /\ lifecycle' = next
         /\ Then(IF next = lifecycle THEN <<>> ELSE <<<<"tell", next>>>>)
  /\ UNCHANGED <<raftVars, alone, registered, told, dataVars, callVars, pending,
                 promise>>

\* ClusterNodeImpl::handle(lifecycle state): the callback, if there is one.
Tell ==
  /\ Doing("tell")
  /\ told' = IF registered THEN Head(work)[2] ELSE told
  /\ Then(IF registered THEN Callback ELSE <<>>)
  /\ UNCHANGED <<raftVars, alone, lifecycle, registered, dataVars, callVars, pending,
                 promise>>

\* entry() of the four states.
Entry ==
  /\ Doing("entry")
  /\ LET s == Head(work)[2]
     IN  /\ election_timer' = (s = "Follower" \/ (s # "Standby" /\ election_timer))
         /\ broadcast_timer' = (s = "Leader" \/ broadcast_timer)
         /\ Then(IF s = "Candidate" THEN <<<<"start_election">>>> ELSE <<>>)
  /\ UNCHANGED <<raft, term, led, lifeVars, dataVars, callVars, pending, promise>>

\* Mutant of StartElection: no increase_term.
StartElectionSameTerm ==
  /\ Doing("start_election")
  /\ election_timer' = TRUE
  /\ Then(IF alone THEN <<<<"handle", "Elected">>>> ELSE <<>>)
  /\ UNCHANGED <<raft, term, broadcast_timer, led, lifeVars, dataVars, callVars,
                 pending, promise>>

(***************************************************************************)
(* Candidate::start_election.  A node alone has its majority in            *)
(* request_vote and raises Elected from inside entry() or on_timedout().   *)
(***************************************************************************)
StartElection ==
  /\ Doing("start_election")
  /\ term' = term + 1
  /\ election_timer' = TRUE
  /\ Then(IF alone THEN <<<<"handle", "Elected">>>> ELSE <<>>)
  /\ UNCHANGED <<raft, broadcast_timer, led, lifeVars, dataVars, callVars,
                 pending, promise>>

(***************************************************************************)
(* Context::broadcast: get_pending_commit forgets a commit with a passed   *)
(* id.  A request without an entry asks for id 0, the others for the       *)
(* pending entry or for one of the log, as the other node needs it.        *)
(***************************************************************************)
Broadcast ==
  /\ Doing("broadcast")
  /\ pending' = IF pending # None /\ pending.id # Len(log) THEN None ELSE pending
  /\ LET ids == 1 .. Len(log) + (IF pending' = None THEN 0 ELSE 1)
     IN  asked' = Max({1, asked} \cup ids)
  /\ Then(<<>>)
  /\ UNCHANGED <<raftVars, lifeVars, log, applied, acknowledged, callVars, promise>>

\* update_term: store_->current_term(term)
SetTerm ==
  /\ Doing("set_term")
  /\ term' = Head(work)[2]
  /\ Then(<<>>)
  /\ UNCHANGED <<raft, election_timer, broadcast_timer, led, lifeVars, dataVars,
                 callVars, pending, promise>>

-----------------------------------------------------------------------------
(* The log and the copy of it that the callbacks give to the application    *)

\* invoke_commit_callback(id, c): what the application then knows of the log.
CommitCallback(id, c) ==
  applied' = IF registered
             THEN [i \in DOMAIN applied \cup {id} |-> IF i = id THEN c ELSE applied[i]]
             ELSE applied

\* push_log of the entry e at id stores it, or not.
Pushes(id, e) ==
  \/ id = Len(log) /\ log' = Append(log, e)
  \/ id # Len(log) /\ UNCHANGED log
  \/ PutMayFail /\ UNCHANGED log

\* store_->revert_log and the revert callback of request_local_commit.
Revert ==
  /\ Doing("revert")
  /\ LET id == Head(work)[2]
     IN  /\ log' = SubSeq(log, 1, id)
         /\ applied' = [i \in {j \in DOMAIN applied : j < id} |-> applied[i]]
  /\ Then(Callback)
  /\ UNCHANGED <<raftVars, lifeVars, asked, acknowledged, callVars, pending, promise>>

\* Context::request_local_rollback: no callback.
Rollback ==
  /\ Doing("rollback")
  /\ log' = SubSeq(log, 1, Head(work)[2])
  /\ Then(<<>>)
  /\ UNCHANGED <<raftVars, lifeVars, applied, asked, acknowledged, callVars,
                 pending, promise>>

\* Mutant of Push: no commit callback.
PushUntold ==
  /\ Doing("push")
  /\ Pushes(Head(work)[2], Head(work)[3])
  /\ Then(<<>>)
  /\ UNCHANGED <<raftVars, lifeVars, applied, asked, acknowledged, callVars,
                 pending, promise>>

\* The end of request_local_commit: the callback only if the entry was stored.
Push ==
  /\ Doing("push")
  /\ LET id == Head(work)[2]
         e == Head(work)[3]
     IN  /\ Pushes(id, e)
         /\ IF log' = log THEN UNCHANGED applied /\ Then(<<>>)
            ELSE CommitCallback(id, e.command) /\ Then(Callback)
  /\ UNCHANGED <<raftVars, lifeVars, asked, acknowledged, callVars, pending, promise>>

(***************************************************************************)
(* complete_commit with result true, up to the promise.  What push_log     *)
(* returns is not looked at: the commit callback and the answer follow.    *)
(***************************************************************************)
CompleteCommit(c) ==
  /\ Pushes(c.id, [term |-> c.term, command |-> c.command])
  /\ CommitCallback(c.id, c.command)
  /\ acknowledged' = acknowledged \cup
       {[term |-> c.term, command |-> c.command, stored |-> log' # log]}

\* promise->set_value
SetValue(c, result) == promise' = [promise EXCEPT ![c] = Append(@, result)]

\* The executor completes a pending commit that has its majority.
Commit ==
  /\ Doing("commit")
  /\ CompleteCommit(Head(work)[2])
  /\ Then(Callback \o <<<<"respond", Head(work)[2].command, TRUE>>>>)
  /\ UNCHANGED <<raftVars, lifeVars, asked, callVars, pending, promise>>

\* The end of complete_commit: the promise, and the callback of the response.
Respond ==
  /\ Doing("respond")
  /\ SetValue(Head(work)[2], Head(work)[3])
  /\ Then(Callback)
  /\ UNCHANGED <<raftVars, lifeVars, dataVars, callVars, pending>>

\* The application returns from its callback.
CallbackReturns ==
  /\ Doing("callback")
  /\ Then(<<>>)
  /\ UNCHANGED <<raftVars, lifeVars, dataVars, callVars, pending, promise>>

(***************************************************************************)
(* handle_pending_commit_response(id, term): answers to the pending entry  *)
(* are counted, and one of them makes the majority.                        *)
(***************************************************************************)
Answer ==
  /\ Doing("answer")
  /\ \/ /\ pending # None /\ pending.id = Head(work)[2] /\ pending.term = Head(work)[3]
        /\ pending' = None
        /\ Then(<<<<"commit", pending>>>>)
     \/ /\ Then(<<>>)
        /\ UNCHANGED pending
  /\ UNCHANGED <<raftVars, lifeVars, dataVars, callVars, promise>>

\* request_local_commit, up to what it does to the log.
LocalCommit(id, e) ==
  IF log # <<>> /\ Len(log) - 1 = id /\ log[Len(log)].term = e.term THEN <<>>
  ELSE (IF Len(log) > id THEN <<<<"revert", id>>>> ELSE <<>>) \o <<<<"push", id, e>>>>

\* on_append_entries_requested with an entry, once the term is dealt with.
AppendEntry ==
  /\ Doing("append")
  /\ LET id == Head(work)[2]
         e == Head(work)[3]
         prev_log_term == Head(work)[4]
     IN  Then(IF id = 0 THEN LocalCommit(id, e)
              ELSE IF id > Len(log) THEN <<>>
              ELSE IF log[id].term # prev_log_term THEN <<<<"rollback", id - 1>>>>
              ELSE LocalCommit(id, e))
  /\ UNCHANGED <<raftVars, lifeVars, dataVars, callVars, pending, promise>>

ExecutorStep ==
  \/ HandleEvent \/ Exit \/ Cancel \/ Enter \/ Notify \/ Tell \/ Entry
  \/ StartElection \/ Broadcast \/ SetTerm \/ Revert \/ Rollback \/ Push
  \/ Commit \/ Respond \/ CallbackReturns \/ Answer \/ AppendEntry

-----------------------------------------------------------------------------
(* What the executor picks when it waits: timers, requests and answers      *)

Waiting == work = <<>> /\ call[Executor] = Idle

Run(items) ==
  /\ Waiting
  /\ work' = items
  /\ UNCHANGED <<raftVars, lifeVars, dataVars, callVars, pending, promise>>

\* Mutant of ElectionTimer: broadcast_received_ is never reset.
ElectionTimerSkips == election_timer /\ Run(<<>>)

\* The election timer, unless broadcast_received_ makes it skip this period.
ElectionTimer ==
  /\ election_timer
  /\ raft \in {"Follower", "Candidate"} => term < MaxTerm
  /\ Run(<<<<"handle", "Timedout">>>>)

BroadcastTimer ==
  /\ broadcast_timer
  /\ Run(<<<<"handle", "BroadcastTimedout">>>>)

\* update_term(t)
UpdateTerm(t) ==
  IF t > term THEN <<<<"set_term", t>>, <<"handle", "NewTermReceived">>>> ELSE <<>>

\* A vote request, or the answer to one, with a newer term.
NewTerm(t) == ~alone /\ t > term /\ Run(UpdateTerm(t))

\* A vote that makes the majority: check_elected.  Only a Candidate listens.
Votes == ~alone /\ raft = "Candidate" /\ Run(<<<<"handle", "Elected">>>>)

\* What a request of term t does before its entry is looked at.
Discover(t) ==
  IF t < term THEN <<>> ELSE UpdateTerm(t) \o <<<<"handle", "LeaderDiscovered">>>>

Heartbeat(t) == ~alone /\ Run(Discover(t))

(***************************************************************************)
(* A request with an entry has the term of the entry, which may be smaller *)
(* than the one of its leader; the term of the entry before it is any.  A  *)
(* node that does not lead gets such requests from its leader, which fills *)
(* its log with older entries, as well as from deposed leaders.  A leader  *)
(* gets them only from one that it deposed, or from a newer one that it    *)
(* has not heard of yet.                                                   *)
(***************************************************************************)
AppendEntries(t, id, c, prev_log_term) ==
  /\ ~alone
  /\ OldEntries \/ raft # "Leader" \/ t >= term
  /\ Run(Discover(t) \o
         <<<<"append", id, [term |-> t, command |-> c], prev_log_term>>>>)

\* on_broadcast_response
BroadcastResponse(id, t) ==
  /\ ~alone
  /\ Run(UpdateTerm(t) \o <<<<"answer", id, t>>>>)

\* get_commands_size and get_command: the log as the application can read it.
Commands == [i \in 0 .. Len(log) - 1 |-> log[i + 1].command]

\* The callbacks are set, by an application that looks at is_activated first.
RegisterCallbacks == registered' = TRUE /\ told' = lifecycle

\* The application has its node, reads the log and registers its callbacks.
Register ==
  /\ Waiting /\ ~registered
  /\ RegisterCallbacks
  /\ applied' = Commands
  /\ UNCHANGED <<raftVars, alone, lifecycle, log, asked, acknowledged, callVars,
                 pending, work, promise>>

ExecutorHandler ==
  \/ ElectionTimer \/ BroadcastTimer \/ Votes \/ Register
  \/ \E t \in 1 .. MaxTerm : NewTerm(t) \/ Heartbeat(t)
  \/ \E t, p \in 1 .. MaxTerm, id \in 0 .. MaxLog - 1, c \in Remote :
       AppendEntries(t, id, c, p)
  \/ \E t \in 1 .. MaxTerm, id \in 0 .. asked - 1 : BroadcastResponse(id, t)

-----------------------------------------------------------------------------
(* commit_command, in the thread that calls it                              *)

\* The thread t is in code of the application.
InApplication(t) ==
  /\ registered /\ call[t] = Idle
  /\ t = Executor => work = <<>> \/ Doing("callback")

\* cancel_commit: the promise is set to false, and the call returns.
CancelCommit(t, c) ==
  /\ SetValue(c, FALSE)
  /\ call' = [call EXCEPT ![t] = Idle]

\* Mutant of CommitCommand: the state of the node is not looked at.
CommitCommandAnywhere(t, c) ==
  /\ InApplication(t) /\ c \notin submitted /\ Len(log) < MaxLog
  /\ submitted' = submitted \cup {c}
  /\ call' = [call EXCEPT ![t] =
                [pc |-> "read", command |-> c, id |-> None, term |-> None]]
  /\ UNCHANGED <<raftVars, lifeVars, dataVars, pending, work, promise>>

\* is_leader() is read without the mutex of the state machine.
CommitCommand(t, c) ==
  /\ InApplication(t) /\ c \notin submitted /\ Len(log) < MaxLog
  /\ submitted' = submitted \cup {c}
  /\ IF raft = "Leader"
     THEN /\ call' = [call EXCEPT ![t] =
                        [pc |-> "read", command |-> c, id |-> None, term |-> None]]
          /\ UNCHANGED promise
     ELSE CancelCommit(t, c)
  /\ UNCHANGED <<raftVars, lifeVars, dataVars, pending, work>>

\* The entry of the command: logs_size() and current_term(), in either order.
ReadSize(t) ==
  /\ call[t].pc = "read" /\ call[t].id = None
  /\ call' = [call EXCEPT ![t].id = Len(log)]
  /\ UNCHANGED <<raftVars, lifeVars, dataVars, submitted, pending, work, promise>>

ReadTerm(t) ==
  /\ call[t].pc = "read" /\ call[t].term = None
  /\ call' = [call EXCEPT ![t].term = term]
  /\ UNCHANGED <<raftVars, lifeVars, dataVars, submitted, pending, work, promise>>

\* The entry of the call of t is made.
HasEntry(t) == call[t].pc = "read" /\ call[t].id # None /\ call[t].term # None

\* Mutant of CompleteAlone: the promise is not set.
CompleteAloneUnanswered(t) ==
  /\ alone /\ HasEntry(t)
  /\ CompleteCommit(call[t])
  /\ call' = [call EXCEPT ![t] = Idle]
  /\ UNCHANGED <<raftVars, lifeVars, asked, submitted, pending, work, promise>>

\* A cluster of one node: complete_commit in the thread of the caller.  What its
\* callbacks commit are further calls of this thread.
CompleteAlone(t) ==
  /\ alone /\ HasEntry(t)
  /\ CompleteCommit(call[t])
  /\ SetValue(call[t].command, TRUE)
  /\ call' = [call EXCEPT ![t] = Idle]
  /\ UNCHANGED <<raftVars, lifeVars, asked, submitted, pending, work>>

\* set_pending_commit, up to the mutex.
CheckSize(t) ==
  /\ ~alone /\ HasEntry(t)
  /\ IF call[t].id # Len(log) THEN CancelCommit(t, call[t].command)
     ELSE call' = [call EXCEPT ![t].pc = "set"] /\ UNCHANGED promise
  /\ UNCHANGED <<raftVars, lifeVars, dataVars, submitted, pending, work>>

\* set_pending_commit under the mutex: a commit with a passed id is replaced.
SetPending(t) ==
  /\ call[t].pc = "set"
  /\ IF pending # None /\ pending.id = Len(log)
     THEN CancelCommit(t, call[t].command) /\ UNCHANGED pending
     ELSE /\ pending' = [id |-> call[t].id, term |-> call[t].term,
                         command |-> call[t].command]
          /\ call' = [call EXCEPT ![t] = Idle]
          /\ UNCHANGED promise
  /\ UNCHANGED <<raftVars, lifeVars, dataVars, submitted, work>>

CallStep(t) ==
  ReadSize(t) \/ ReadTerm(t) \/ CompleteAlone(t) \/ CheckSize(t) \/ SetPending(t)

-----------------------------------------------------------------------------
(* The constructor of ClusterNodeImpl raises Started.  The store may hold   *)
(* an entry of an earlier life of the node.                                 *)
Init ==
  /\ alone \in Alone
  /\ raft = "Standby" /\ lifecycle = "Inactive"
  /\ election_timer = FALSE /\ broadcast_timer = FALSE
  /\ \/ log = <<>> /\ term = 0
     \/ \E c \in Remote : log = <<[term |-> 1, command |-> c]>> /\ term = 1
  /\ pending = None
  /\ work = <<<<"handle", "Started">>>>
  /\ call = [t \in Thread |-> Idle]
  /\ registered = FALSE /\ told = "Inactive" /\ applied = <<>>
  /\ submitted = {} /\ promise = [c \in Command |-> <<>>]
  /\ asked = 0 /\ led = {} /\ acknowledged = {}

Next ==
  \/ ExecutorStep
  \/ ExecutorHandler
  \/ \E t \in Thread, c \in Command : CommitCommand(t, c)
  \/ \E t \in Thread : CallStep(t)

Spec == Init /\ [][Next]_vars

(***************************************************************************)
(* The executor goes on with the handler it runs, threads go on with their *)
(* calls, and an armed timer fires.                                        *)
(***************************************************************************)
FairSpec ==
  /\ Spec
  /\ WF_vars(ExecutorStep)
  /\ WF_vars(ElectionTimer)
  /\ \A t \in Thread : WF_vars(CallStep(t))

-----------------------------------------------------------------------------
Entries == [term : 1 .. MaxTerm, command : Command \cup Remote]

\* Type invariant.
NodeTypeOK ==
  /\ raft \in RaftMachine!StateType /\ lifecycle \in Lifecycle!StateType
  /\ {election_timer, broadcast_timer, registered} \subseteq BOOLEAN
  /\ term \in 0 .. MaxTerm /\ led \subseteq 1 .. MaxTerm
  /\ log \in Seq(Entries)
  /\ pending = None \/ pending \in [id : Nat, term : 1 .. MaxTerm, command : Command]
  /\ \A t \in Thread : call[t].pc \in {"idle", "read", "set"}
  /\ told \in Lifecycle!StateType
  /\ DOMAIN applied \subseteq Nat /\ asked \in Nat
  /\ submitted \subseteq Command /\ promise \in [Command -> Seq(BOOLEAN)]
  /\ acknowledged \subseteq
       [term : 1 .. MaxTerm, command : Command, stored : BOOLEAN]

\* ClusterNodeImpl::is_activated
is_activated == lifecycle = "Active"

\* Whether ClusterNodePublisher::publish passes a message on.
publish == is_activated

\* Whether ClusterNodeService::handle_request passes a request on.
handle_request == is_activated

(***************************************************************************)
(* Whenever the executor waits, the node is active exactly if it leads,    *)
(* and standby otherwise, and the last callback the application got says   *)
(* so.  Transitions nest: a node alone is elected inside entry() of        *)
(* Candidate, so the order of the notification and entry() matters.        *)
(***************************************************************************)
LifecycleFollowsRaft ==
  Waiting => /\ is_activated <=> raft = "Leader"
             /\ lifecycle # "Active" => lifecycle = "Standby"
             /\ registered => told = lifecycle

(***************************************************************************)
(* A thread that publishes or answers a request does so on behalf of a     *)
(* leader, or of a node whose notification of the end of its leadership    *)
(* is still to come in the handler that the executor runs.                 *)
(***************************************************************************)
OnlyLeadersServe ==
  publish \/ handle_request
    => \/ raft = "Leader"
       \/ \E i \in DOMAIN work : work[i][1] = "notify"

(***************************************************************************)
(* Whenever the executor waits, the broadcast timer is armed exactly on a  *)
(* leader, and the election timer always: a node that lost it, in whatever *)
(* sequence of elections, would never stand for election again.            *)
(***************************************************************************)
TimersFollowState ==
  Waiting => (broadcast_timer <=> raft = "Leader") /\ election_timer

(***************************************************************************)
(* The promise of a command is set at most once (a second set_value would  *)
(* throw), whatever thread answers it and whoever else holds it.           *)
(***************************************************************************)
AnsweredOnce == \A c \in Command : Len(promise[c]) <= 1

(***************************************************************************)
(* A command that was submitted has its answer, or somebody is going to    *)
(* give it: the call under way, the handler under way, or the pending      *)
(* commit of a leader, which ends in a majority or in Leader::exit.        *)
(***************************************************************************)
AnswerIsOwed ==
  \A c \in submitted :
    \/ promise[c] # <<>>
    \/ \E t \in Thread : call[t] # Idle /\ call[t].command = c
    \/ \E i \in DOMAIN work :
         \/ work[i][1] = "respond" /\ work[i][2] = c
         \/ work[i][1] = "commit" /\ work[i][2].command = c
    \/ /\ pending # None /\ pending.command = c
       /\ raft = "Leader" \/ work # <<>>

\* A commit that is reported as successful has its entry in the log.
SuccessIsStored == \A a \in acknowledged : a.stored

\* A commit is reported as successful only in a term this node was leader of.
SuccessIsOfLeader == \A a \in acknowledged : a.term \in led

(***************************************************************************)
(* The application that keeps a copy of the log with the commit and revert *)
(* callbacks has the command of every entry of the log right.              *)
(***************************************************************************)
CopyFollowsLog ==
  registered => \A i \in DOMAIN log :
                  i - 1 \in DOMAIN applied /\ applied[i - 1] = log[i].command

(***************************************************************************)
(* A node that is alone in its cluster becomes its leader, tells the       *)
(* application, and stays; every commit is answered.                       *)
(***************************************************************************)
AloneLeads == alone => <>[](raft = "Leader" /\ is_activated)

EveryCommitIsAnswered ==
  \A c \in Command : alone /\ c \in submitted ~> promise[c] # <<>>
=============================================================================
