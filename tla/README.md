# foros: a TLA+ model of the cluster, its checks and its proofs

foros makes several ROS 2 nodes work as one: they elect a leader, the leader's
lifecycle is *active* and the others stand by, and commands given to the leader are
replicated to a log on every node.  The library (`src/foros`) implements its own variant
of Raft.  This directory models that variant as the code has it, from the cluster down to
the threads of one node, its timers in time, and the inspector that watches a cluster.
It is model-checked on small instances with TLC, and every invariant that the runs check
is proved with TLAPS for all values of the constants.

## Inventory

| component | state | operations | talks to | hard to test |
|---|---|---|---|---|
| raft state machine (`raft/state_machine.cpp`, `raft/state/*`, `common/state_machine.hpp`) | current state: Standby, Follower, Candidate, Leader | `handle(event)`: transition map, then exit, notification, entry | raised by `Context`; observed by `ClusterNodeImpl` | events raised from inside `entry()` (a node alone is elected within `start_election`) |
| election (`raft/context.cpp`, `raft/other_node.cpp`) | `current_term`, `voted_for`, `voted`, `vote_received`, `broadcast_received_` | election timer, `start_election`, `vote`, `on_request_vote_response`, `check_elected`, `update_term` | `request_vote` service of the other nodes | late answers, answers of earlier terms, a crash between the writes of term and vote |
| replication and commit (`raft/context.cpp`, `raft/other_node.cpp`) | log, `next_index_` per node, `pending_commit_` | `broadcast`, `on_append_entries_requested`, `on_broadcast_response`, `commit_command`, `cancel_pending_commit` | `append_entries` service; promises and callbacks of the application | several calls to a node in flight, old requests after a change of leader, heartbeats that look like entries, step-down with a pending commit |
| context store (`raft/context_store.cpp`) | term, vote, log, in memory and as keys of a leveldb | setters, `push_log`, `revert_log`, loading | called by `Context` | a crash between two Puts, a Put that fails |
| timers (`raft/context.cpp`, `cluster_node_options.cpp`) | which timers are armed, `broadcast_received_` | created and cancelled by `entry()` and `exit()`; a heartbeat sets the flag | raft state machine | a timer that is not restarted, a flag that is stale, timers lost in a sequence of elections |
| lifecycle (`lifecycle/*`, `cluster_node_impl.cpp`) | Inactive, Standby, Active | follows the raft state; calls the application | raft state machine | transitions nest, the application runs inside them |
| `ClusterNode`, publishers, services (`cluster_node*.{cpp,hpp}`) | callbacks of the application | `publish` and service callbacks only while active; `commit_command` | rclcpp | `commit_command` from threads and from callbacks |
| inspector (`raft/inspector.cpp`, `src/foros_inspector`) | last snapshot of every node, leader and size per cluster | publish, receive, forget outdated nodes | Inspector topic | lost, late and reordered snapshots |

What makes each correct: a term has at most one leader and a node one vote per term
(election); logs agree and a command keeps its id and term, a promise is set once, a
commit that was reported is on a majority and stays there (replication); a
restart finds what was stored, whole entries only (store); only a leader is active
(lifecycle); every `commit_command` is answered once, and truthfully (threads); a live leader
is kept and a dead one noticed (timers); the leader shown is the leader of the newest
term seen (inspector).

## Modules

- `RaftStateMachine`: the transition maps of the four states and `handle`.
- `Raft`: a cluster.  One variable per member of `Context`, `ContextStore` and
  `OtherNode`, per node; the calls in flight of both services; one action per handler.
- `LeaderElection`: what an election promises.  `Raft` implements it with
  `term <- current_term, leaders <- elected`.
- `ContextStore`: the store of one node, Put by Put.  `DurableStore` is what it promises.
- `LifecycleStateMachine`: the transition maps of the lifecycle and the events that raft
  states raise.
- `ClusterNode`: one process with its threads.  It composes `RaftStateMachine` and
  `LifecycleStateMachine` with the commit path of `Context` and an application; the other
  nodes are the messages they may send.
- `ElectionTimer`: the election and broadcast timers in time, for one follower and its
  leader.
- `Inspector`: the publishers of the nodes and the tool, on top of a cluster that does
  what `LeaderElection` allows.
- `MCRaft`, `MCContextStore`, `MCClusterNode`, `MCElectionTimer`, `MCInspector`: the modules
  TLC runs, with the symmetry of node ids (not in `Inspector`, which orders them) and of
  command names, which are nowhere ordered or distinguished.
- `RaftElectionProofs`, `RaftCommitProofs`, `RaftLogProofs`: the theorems on
  `Raft`, each module on top of the one before it.
- `ClusterNodeProofs`, and `ClusterNodeCommitProofs` on top of it: the theorems on `ClusterNode`.
- `ContextStoreProofs`, `ElectionTimerProofs`, `InspectorProofs`: the theorems on these modules.

Operators whose comment starts with "Mutant of" are plausible bugs of the definition
they follow.  Nothing uses them: replacing the original by one makes the
property named in `PROJECT.json` fail, which shows that the property depends on
that code.

### How Raft corresponds to the code

| action | code |
|---|---|
| `ElectionTimeout`, `ElectionTimeoutIgnored` | callback of the election timer; `Follower`/`Candidate` on Timedout; `Candidate::start_election` |
| `HandleRequestVote` | `on_request_vote_requested`, `vote` |
| `HandleVoteRefused`, `HandleVoteGranted` | `on_request_vote_response` with its early returns; `check_elected` |
| `Broadcast` | `Leader::on_broadcast_timedout`, `Context::broadcast`, `OtherNode::broadcast` |
| `HandleAppendEntries` | `on_append_entries_requested`, `request_local_commit`, `request_local_rollback` |
| `HandleAppendResponse` | callback of `send_append_entries`, `on_broadcast_response`, `handle_pending_commit_response`, `complete_commit` |
| `RefuseCommand`, `CommitCommand` | `commit_command`, `set_pending_commit`, `cancel_commit` |
| `Crash`, `CrashInHandler` | the process dies between two handlers, or after any Put of one |
| `Restart` | constructors of `ContextStore`, `Context` and `ClusterNodeImpl` |

All services, clients and timers of a node are in its default callback group, which is
mutually exclusive, so a handler is one step.  The exceptions are deaths: the
`...Disks` operators list the stores a handler passes through, one per Put.

Requests and answers of `append_entries` are queues per pair of nodes, since a ROS 2
service keeps the order of one client.  Vote requests and answers are sets, so they
may also be reordered, and a message that stays in its set for ever is a lost one.
A broadcast or a vote request reaches any subset of the running nodes
(`service_is_ready()`).  Whatever waits at a process dies with it, and an answer to
a process that is gone is dropped (`incarnation`).

`ballots`, `elected`, `tally` and `acknowledged` are history: no guard of an action
reads them except the bound on elections.

Left out of `Raft`: `match_index_`, which is only written; a request with an
unknown `leader_id`, which no member of the cluster sends; logging, names
and the values of timeouts; a database that cannot be opened; `loat_data_term`, which
`vote` does not read.

### How ClusterNode corresponds to the code

`Raft` has atomic handlers, which is right for the handlers of one callback group among
themselves and wrong for `commit_command`, which any thread may call, and for callbacks,
which run in the middle of a handler.  `ClusterNode` keeps one node and takes its
handlers apart.  `work` is what the executor still has to do in the handler it runs, a
stack of steps; each step is one access to what threads share.  `call[t]` is the
`commit_command` under way in thread `t`.

| step | code |
|---|---|
| `HandleEvent`, then `Exit`, `Enter`, `Notify`, `Entry` | `common::StateMachine::handle` in its order; an event raised in `entry()` nests |
| `Cancel`, `Respond` | `cancel_pending_commit`, and the end of `complete_commit`: promise, then callback |
| `Tell` | `ClusterNodeImpl::handle` of a lifecycle state: the callback of the application |
| `StartElection`, `Broadcast`, `SetTerm` | `Candidate::start_election`, `Context::broadcast`, `update_term` |
| `AppendEntry`, `Revert`, `Rollback`, `Push` | `on_append_entries_requested`, `request_local_commit`, `request_local_rollback` |
| `Answer`, `Commit` | `handle_pending_commit_response`, up to and after the unlock |
| `ElectionTimer`, `BroadcastTimer`, `NewTerm`, `Votes`, `Heartbeat`, `AppendEntries`, `BroadcastResponse` | what the executor picks next: timers, requests and answers |
| `CommitCommand`, `ReadSize`, `ReadTerm`, `CompleteAlone`, `CheckSize`, `SetPending` | `commit_command` and `set_pending_commit`, access by access |
| `Register` | the `register_on_*` methods, `get_commands_size`, `get_command` |

A callback is the item `"callback"`; while it is on top, the executor may call
`commit_command` like any other thread (`InApplication`).  `state_mutex_` and
`callback_mutex_` are recursive and only the executor takes them together with anything
else, so they add no order beyond this.  `CompleteAlone` is one step although its callbacks may
commit again: such a commit is the next call of the same thread, and only the order in which the two
promises are set differs.  `publish` and `handle_request` are what a
thread sees when it asks `is_activated`.

`alone`, chosen at the start, says whether the node is the whole cluster.  Otherwise the
cluster around the node is weaker than a real one: any newer term, heartbeat, entry
or answer may arrive at any time, and the refusals and majorities of `Raft` are one
nondeterministic choice in `Answer`.  What holds here holds for every cluster of that
shape; the run that is expected to fail was checked to need only messages that `Raft`
produces.  `led`, `acknowledged`, `applied` and `told` are history, or what
the application knows.

### ElectionTimer and Inspector

Both count time in ticks.  `ElectionTimer`: the follower's timer draws its period from
`ElectionTimeoutMin .. ElectionTimeoutMax`, fires every period, and looks at
`broadcast_received`; the leader broadcasts every tenth of the minimum.  A request counts
as a sign of life only if its term is not below the follower's (`Counts`).  A request with
an entry has the term of the entry, so a leader that repairs a follower with entries of older
terms sends requests that do not count.  The model loses any requests and sends any others
with an older term; those that remain are late by at most `Delay`.  `missed` counts the
broadcasts in a row that were lost or outdated, and `TimerConstants` says how many a
follower can do without (`Tolerated`): they and the delay of the next one must fit into
the smallest timeout.

`Inspector`: `Publish` is the timer of `raft/inspector.cpp` with the snapshot of
`inspector_message_requested`; `Receive` is the whole of `inspector_message_received`, the
update of the screen at its end included; `Refresh` is the timer of the tool.  A time stamp is
kept as its age, which is all the tool compares.  `Summary` and `Details` are what
the screen says.  One cluster is enough, because clusters share nothing but the screen.  `timely`,
chosen at the start, says whether messages arrive within `Delay`, or at any time, in any order
or never; `DelayAssumption` says how late in time may be.  `NodePeriod` and `ToolPeriod` are
`get_period` of the nodes and the tool, from the setting of each process.  A state other than
leader is `"OTHER"`, since the tool distinguishes the others only by name.

### ContextStore

`db` has one field per key, `mem` the members, `pushing` the Put that a `push_log`
under way does next.  Any Put may fail.  A missing data key makes `load_log` use the
bytes of the term it read before, which is `LeftOver`; `StoreTypeOK` does not admit it as
the data of an entry in memory.

## What is checked

Bounds are constants named `Max...` and appear in guards only.  When they are used
up a behaviour ends, so the runs of `Raft` do not check deadlock: a process
waits for the next timer tick, and timers never end.

| run | bounds | what it shows |
|---|---|---|
| `election` | 3 nodes, 3 elections, 1 crash | `ElectionSafety`, `OneBallotPerTerm`, `VotesCountedOnce`, `VotesAreFinal`, `ImplementsElection`: three elections allow two rival candidates and a third term that makes their answers outdated; the crash can fall between any two Puts |
| `one_leader` | 3 nodes, 2 commands and 1 empty one, 2 calls in flight | `TypeOK`, `FollowersTrailLeader`, `PromiseSetOnce`: two calls in flight are the least with which a refusal can be outdated |
| `restarted` | 2 nodes, 3 commands, 2 calls in flight, from the restart of a cluster whose logs already differ, 2 more elections, 1 more crash | `LogTermsAscend`, `OneSlotPerCommand`, `LeadersHoldTheirTerm`: a leader is replaced while a commit is pending, the diverging logs are repaired while requests of the deposed leader still arrive, and a process dies within any handler.  The initial state `RestartedInit` of `MCRaft` is a state that `Spec` reaches in 11 steps |
| `alone` | 1 node, 2 commands and 1 empty one, 3 elections, 2 crashes | `AloneIsDurable`, and `AloneLeads` under fairness |
| `store` | 2 entries | `StoreTypeOK`, `StoredLogIsComplete`, `ImplementsDurableStore` |
| `node` | 2 commands, 1 foreign command, alone or in a cluster, 3 terms, 2 entries | the application commits from handlers of the executor only, and the node gets no entries of older terms while it leads (as a follower or candidate it does): `NodeTypeOK`, `LifecycleFollowsRaft`, `TimersFollowState`, `AnswerIsOwed`, `SuccessIsStored`, `SuccessIsOfLeader`, `CopyFollowsLog`, and under fairness `AloneLeads` and `EveryCommitIsAnswered`.  Three terms let a node lead, follow and lead again, two entries let one be reverted while another stays; alone, the transitions of one election nest |
| `node_threads` | as above with 1 entry, 1 thread, callbacks that commit, entries of older terms at a leader, failing pushes | everything at once: `OnlyLeadersServe`, `AnsweredOnce`.  One entry suffices for every race on the pending commit, whose id is the end of the log |
| `election_timer` | timeouts 10 to 20 ticks, delay 2, 6 broadcasts tolerated | `NoNeedlessElection`, `FailureIsDetected`, `FailureLeadsToElection`: any requests are lost or outdated; 6 and the delay are the most that `TimerConstants` allows, and longer rows, after which followers do time out, are part of the run |
| `inspector` | 2 nodes, terms up to 2, 2 messages on their way, periods of 2 ticks, set for the nodes and the default of the tool; node 1 stops and starts, node 2 has another cluster size | `InspectorTypeOK`, `NewestIsShown`, `ShownLeaderLed`, `CurrentLeaderIsShown`, and `StaysListed` where messages arrive within the tick: two terms of two nodes give an old and a new leader, two messages the least that can change places.  The initial state `ElectedInit` of `MCInspector` is one that `Spec` reaches by an election before the first inspector timer |

The runs of `ContextStore`, `ClusterNode`, `ElectionTimer` and `Inspector` check deadlock.

Fairness: `FairSpec` of `Raft` assumes weak fairness of the two outcomes of the election timer
and nothing else.  The timer is periodic and re-created in `reset_election_timer`, so a
running process ticks again and again.  Delivery of messages and restarts
are never assumed.  With more than one node nothing
forces a leader to emerge: votes may split for ever and only random
timeouts work against it, so liveness is stated for a cluster of one node.
`FairSpec` of `ClusterNode` adds that the executor finishes the handler it runs and a
thread the call it is in: neither waits for anything but locks that are held for a few
instructions.  `Fairness` of `ElectionTimer` is that time passes and that what is due
happens, which is what an executor that is not overloaded does; the messages of
the model that are not lost arrive within their delay.

### Where the code and its documentation disagree

Three runs are expected to fail, and `PROJECT.json` quotes the lines.

- `commit_majority`: `handle_pending_commit_response` counts the answers equal to the
  newest one.  A majority of refusals therefore completes a commit, and
  `commit_command` reports success for an entry only the leader has.
- `commit_durable`: a heartbeat is always answered with `success = false`, and each such
  answer moves `next_index_` back.  After two heartbeats the leader sends an entry
  the follower has; the follower reverts from there on, which drops a later committed
  entry until it is sent again.
- `node_abandoned`: `commit_command` sees the leader, the executor steps down and cancels
  what is pending, and the call then leaves its commit pending on a follower.

The other constants of `ClusterNode` switch on more of what the application and the cluster
may do, and properties that `node` checks then fail too, without a run of their own:

- `OldEntries = TRUE`: a leader gets an entry of an older term.  The request is answered with
  false and applied all the same.  It comes late from a leader that this one replaced, or
  from a newer leader of which it has not heard, since that one sends the term of
  the entry.
  `AnswerIsOwed` fails: the next broadcast finds that the pending commit no longer has the next
  id and forgets it, and its promise is never set.  `SuccessIsStored` and `CopyFollowsLog` fail: a
  majority of answers arrives before that broadcast, the push is refused for its id, and
  `complete_commit` still calls the commit callback and reports success, so the
  application has its own command where the log has the other one.  `SuccessIsOfLeader` holds.
- two callers: all four fail.  For `SuccessIsStored` and `CopyFollowsLog` a node alone suffices: both
  threads take the same id, the push of the second is refused, its commit callback is called and
  success is reported.
- `Recommits = TRUE`: all four fail.  For `SuccessIsOfLeader`, the callback of a commit that
  `Leader::exit` cancels commits again, while the state is still Leader and the term the new one; the
  response that carried the new term then completes it.

`node` is the other side: without threads, without callbacks that commit, and without
entries of older terms at a leader these properties hold.

Two more peculiarities are kept in the
models: `OtherNode::broadcast` replaces the leader's term in a request by the term of the
entry it carries (`Broadcast` of `Raft`), and the inspector compares the sizes of nodes with
the size its last update left, so a mismatch it reported disappears (`update_cluster_info`
of `Inspector`).  The former has a consequence in time: a follower that lacks more entries of
older terms than the broadcasts in a row it tolerates gives up a leader that runs, with nothing
lost or late, because `broadcast_received_` stays unset while its log is repaired
(`context.cpp:170`, `other_node.cpp:87`).  With `ElectionTimer` and requests that are
all delivered at once TLC finds this in about 30 steps; `NoNeedlessElection` says that it takes that
many.

Because of these, the properties of the passing runs say what does hold of
replication in this code, not log matching or leader completeness as Raft has them.

## What is proved

The theorems hold for every value of the constants that the named assumptions admit: any
number of nodes, commands, threads, messages in flight and entries, not only the bounds
of the runs.  Every inductive invariant was also checked by TLC with the bounds of the runs of
its module.

### Elections (`RaftElectionProofs`)

From `NodeAssumption`, `CommandAssumption`, `BoundAssumption`:

- `TypeCorrect`: `Spec => []TypeOK`.
- `OneLeaderPerTerm`: `Spec => []ElectionSafety`.
- `OneVotePerTerm`: `Spec => []OneBallotPerTerm`.
- `CountIsExact`: `Spec => []VotesCountedOnce`.
- `VotesStand`: `Spec => VotesAreFinal`, an action property.
- `RaftImplementsElection`: `Spec => ImplementsElection`, the refinement.

`ElectionSafety` is not inductive.  `ElectionInv` strengthens it step by step.
Two elected nodes share a voter if each has the ballots of a majority
(`ElectedByMajority`).  That needs the counter to be the number of ballots
(`VotesCountedOnce`), which needs every granted answer on its way to be a ballot
(`ResponsesAreBallots`) that is not counted yet (`ResponsesAreFresh`).  A new candidate
finds no such answer for its new term because nobody is ahead of its own term
(`RequestsArePast`).  And a voter has one ballot per term (`OneBallotPerTerm`) because its
vote is on disk while the term lasts (`BallotsAreStored`).  The crash case rests on
`DisksKeepVotes`: whichever Put is the last, the store has a newer term or the old
vote; the order of the Puts in `update_term` matters here.  Steps that neither ask for,
grant nor count votes are treated at once (`QuietStep`, `QuietPreserves`).

### Leadership and commits (`RaftCommitProofs`)

From the same assumptions, and `ElectionInv`:

- `LeadershipIsOfATerm`: `Spec => []LeadersHoldTheirTerm`.
- `CommitsAreAnsweredOnce`: `Spec => []PromiseSetOnce`.

Every step that raises a term also leaves Leader, so a Leader has the term it was elected in;
for the converse, that a fresh election is not an old one, a Candidate must not have been
elected in its term (`CandidatesAreNew`) and nobody in a term it has not reached
(`ElectedArePast`).  The promise of a pending commit is open (`PendingIsOpen`) and pending at one
node only (`PendingIsOwn`).  Completing and cancelling forget the commit in the step in which
they set its promise; that is why no answer that comes later finds it.

### Replication (`RaftLogProofs`)

From the same assumptions and `PendingAssumption` (`nullptr` is no pending commit):

- `TermsAscend`: `Spec => []LogTermsAscend`.
- `CommandsHaveOneSlot`: `Spec => []OneSlotPerCommand`.
- `LeaderIsTrailed`: `Spec => []FollowersTrailLeader`.
- `AloneLosesNothing`: `Spec => []AloneIsDurable`.

None of them is inductive, because entries also travel.  `Slots` is the set of all copies of
entries with their ids: in logs, in pending commits and in requests on their way.  All
copies of a command are equal (`SlotsAgree`), and all were submitted in a term with a leader
(`SlotsAreSubmitted`), so `commit_command` adds the first copy and everything else copies.
Requests name the id before their entry with a term that is not newer (`RequestsAscend`), so the
test of `prev_log_term` keeps the terms of a log in order although `Broadcast` sends the term of
the entry instead of the leader's.  As long as one leader was elected, nobody else has sent
anything (`SendersWereElected`), and what waits at the followers is what that leader offers
(`RequestsTrailLeader`).  Steps have four shapes: they leave the logs alone, apply a request at a
follower, complete the pending commit, or take a new command (`LogStep`), and each shape is shown
to preserve each part once.

### The store (`ContextStoreProofs`)

From `StoreAssumption` and `DownAssumption`, which keep the values that stand for a missing key,
for the left-over bytes and for no process apart from real data:

- `StoreTypeCorrect`: `Spec => []StoreTypeOK`.
- `NoLeftOverBytes`: `Spec => []StoredLogIsComplete`, also where Puts fail.
- `StoreImplementsDurableStore`: `Spec => ImplementsDurableStore`.

The stored size never exceeds what has its keys because `push_log` writes it last
(`PushIsUnderWay`), and because the entries in memory have their keys even where the stored size
is another after a Put has failed (`MemoryIsStored`).  The refinement needs that, until a
Put fails, the members are what a restart would load (`MemoryIsLoaded`).

### One node with its threads (`ClusterNodeProofs`)

From `NodeConstants`, with any number of threads, callbacks that commit, failing Puts and
entries of older terms allowed:

- `LifecycleIsInStep`: `Spec => []LifecycleFollowsRaft`.
- `TimersAreInStep`: `Spec => []TimersFollowState`.
- `ServesAsLeader`: `Spec => []OnlyLeadersServe`.
- `PromisesAreSetOnce`: `Spec => []AnsweredOnce`.

The first three speak of moments between handlers and of what a handler still has to do.
`PhaseInv` says in which phase of a transition the executor is, read from the first
items of `work`, and for each phase which of raft state, lifecycle, callbacks and timers
already agree.  `entry()` runs last and leaves a phase without a transition, which
is why a nested one finds everything settled.  `HolderInv` says that a command without an answer
has one holder: a call under way, an item of `work`, or the pending commit.

### Commits of one node (`ClusterNodeCommitProofs`)

From `NodeConstants`, for any threads, callbacks that commit, failing Puts and entries of older
terms:

- `NodeTypeCorrect`: `Spec => []NodeTypeOK`.

From `NodeConstants` and `Serial`, which says that there are no other threads, no callbacks that commit
and no entries of older terms at a node that leads, with any number of commands, terms and entries,
alone or not:

- `CommandsAreOwedAnAnswer`: `Spec => []AnswerIsOwed`.
- `SuccessesAreStored`: `Spec => []SuccessIsStored`, if also no Put fails.
- `SuccessesAreOfLeaders`: `Spec => []SuccessIsOfLeader`.
- `CopiesFollowTheLog`: `Spec => []CopyFollowsLog`.

`Serial` is what `MCClusterNode.cfg` sets.  Code that uses the library can keep to it on its side (commit from
timers and subscriptions of the node's executor).  Its last part is an assumption on the
cluster: no request of a leader that this one replaced is that late, and no newer leader reaches
this one with an entry of an older term before anything else tells it of the newer term.  It does not touch
the repair of followers and candidates, who get entries of any term in any order; that is the
traffic `CopyFollowsLog` is about.  Each part is needed by some theorem: "Where the code and its documentation
disagree" lists what fails without it.  `NodeConstants` also keeps `None`, which stands for no pending commit,
apart from commits.

The types are not inductive.  A term stays within its bound only if whoever will start an election
still has a newer one (`ElectionsFit`), and a commit has a term above 0 only because whoever
is elected has increased its term (`ElectedHaveTerm`); a cut leaves a log because its
index was compared with the size by the step before it (`CutsFit`, `FirstOnly`).
`NodeTypeInv` collects these, with the arguments of every step of `work` (`ItemsOK`) and the reads of every
call (`CallsOK`), on top of `PhaseInv`.

`SerialInv` follows a commit.  A call runs while no handler does, so the size and the term it
read are still right when it is set (`CallsRunAlone`).  What is pending is for the next id, of a
leader, from a term it led (`PendingFits`): every step that changes the log or
the state has a `handle`, `exit` or `cancel` before it in `work` that ends the leadership, or
nothing is pending (`PendingIsCancelled`).  So a commit whose majority is there still
fits (`CommitFits`), its push is not refused, and its callback tells the application what was stored.
`LeaderIsOfTerm` covers the moments in which a leader has already stored a newer term and
has not stepped down.  `HoldersExist` is the other half of `HolderInv`: a command without an answer has at
least one holder.

### The timers (`ElectionTimerProofs`)

From `TimerConstants`:

- `LeaderIsKept`: `Spec => []NoNeedlessElection`.
- `FailureIsNoticed`: `Spec => []FailureIsDetected`.

`FlagTellsSilence` says what `broadcast_received` means: the silence, in requests that count, is no
longer than the timer has run, or at least that long and no longer than one more period.
`HeartbeatsArrive` bounds the silence while the leader runs and no more than `Tolerated` broadcasts in a
row were missed, by the missed ones or by a request on its way that will count.

### The inspector (`InspectorProofs`)

From `InspectorConstants` and `DelayAssumption`:

- `InspectorTypeCorrect`: `Spec => []InspectorTypeOK`.
- `RowsAreNewest`: `Spec => []NewestIsShown`.
- `SummaryIsTrue`: `Spec => []ShownLeaderLed`.
- `SummaryIsCurrent`: `Spec => []CurrentLeaderIsShown`.
- `RunningNodesStay`: `Spec => StaysListed`, an action property.

Every message and every row that says LEADER tells of an election (`TellsOfElection`), terms have
one leader, and the summary is what the newest rows say (`InspectorInv`).  `StaysListed` needs
time: for a running node the next message is on its way, or due, before the last one is
outdated (`TimelyInv`).

### Only model-checked

Liveness (`AloneLeads` of both modules, `EveryCommitIsAnswered`, `FailureLeadsToElection`) is out of the prover's
reach.  Every other property of a passing run is a theorem.  The sums of `Outstanding` and `Crashes`
are folds, which the proofs never need to expand.

## Not modelled, and the plan

Left to do: a property of its own for the vote rule, which compares indices and not terms.

Not modelled: the curses calls of the inspector (layout); example programs; parameters,
graph, subscription and client methods of `ClusterNode`, which forward to rclcpp and keep
no state of the cluster; names of nodes and services; `election_timeout_min` above
`election_timeout_max`, which is undefined behaviour in `uniform_int_distribution`; a
database that cannot be opened.  Two threads that read and write the term or the state at
the same time are a data race of one word in this code; the model gives such a read
the old or the new value, which is what the supported processors do.  The race on the vector
of the log itself (`get_command` in a thread while the executor pushes) is not modelled.
