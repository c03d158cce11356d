---------------------------- MODULE ContextStore ----------------------------
(***************************************************************************)
(* The store of one node (src/foros/src/raft/context_store.cpp): members   *)
(* in memory, and a leveldb database with one key per value.  Every write  *)
(* is a Put of its own; the process may die between two Puts and a Put may *)
(* fail.  store_mutex_ keeps other operations out of a push_log that is    *)
(* under way.                                                              *)
(***************************************************************************)
EXTENDS Naturals, Sequences

CONSTANTS
  Term,     \* terms of the node and of its entries
  Voter,    \* node ids
  Data,     \* the data of commands
  Absent,   \* leveldb: NotFound
  LeftOver, \* the bytes of the term, which load_log reads when data is missing
  NoVote,   \* id 0 of voted_for_
  Down,     \* there is no process
  MaxSize   \* bound: entries in the log

ASSUME StoreAssumption ==
  /\ MaxSize \in Nat /\ Term \subseteq Nat
  /\ LeftOver \notin Data /\ Absent \notin Data /\ Absent \notin Term
  /\ Absent \notin Nat \cup BOOLEAN \cup Voter \cup {NoVote}

VARIABLES
  db,       \* the database: a value or Absent per key
  mem,      \* the members current_term_, voted_for_, voted_, logs_, or Down
  pushing,  \* the entry push_log is writing, with the Put that comes next
  failed    \* a Put has failed

vars == <<db, mem, pushing, failed>>

Id == 0 .. MaxSize - 1
Idle == [next |-> "none"]

\* load_logs_size: a size that was never stored is 0.
load_logs_size(d) == IF d.logs_size = Absent THEN 0 ELSE d.logs_size

\* load_log reads the term, then the data; the second status is not checked.
load_log(d, id) ==
  [term |-> d.log_term[id],
   data |-> IF d.log_data[id] = Absent THEN LeftOver ELSE d.log_data[id]]

\* init_logs stops at the first id below the size that has no term.
LoadedSize(d) ==
  CHOOSE k \in 0 .. load_logs_size(d) :
    /\ \A i \in 0 .. k - 1 : d.log_term[i] # Absent
    /\ k < load_logs_size(d) => d.log_term[k] = Absent

init_logs(d) == [i \in 1 .. LoadedSize(d) |-> load_log(d, i - 1)]

\* A key that was never stored gives the default of its member.
init_current_term(d) == IF d.current_term = Absent THEN 0 ELSE d.current_term
init_voted_for(d) == IF d.voted_for = Absent THEN NoVote ELSE d.voted_for
init_voted(d) == IF d.voted = Absent THEN FALSE ELSE d.voted

\* Mutant of Loaded: a missing key is not replaced by its default.
LoadedNoDefault(d) ==
  [current_term |-> d.current_term, voted_for |-> d.voted_for,
   voted |-> d.voted, logs |-> init_logs(d)]

\* The constructor: what it reads from the database.
Loaded(d) ==
  [current_term |-> init_current_term(d), voted_for |-> init_voted_for(d),
   voted |-> init_voted(d), logs |-> init_logs(d)]

-----------------------------------------------------------------------------
\* leveldb::DB::Put: the database becomes d, or the Put fails and is reported.
PutOk(d) == db' = d /\ UNCHANGED failed
PutFails == failed' = TRUE /\ UNCHANGED db
Put(d) == PutOk(d) \/ PutFails

Running == mem # Down /\ pushing = Idle

\* The setters current_term, voted_for and voted: the member, then its key.
SetCurrentTerm(t) ==
  /\ Running
  /\ mem' = [mem EXCEPT !.current_term = t]
  /\ Put([db EXCEPT !.current_term = t])
  /\ UNCHANGED pushing

SetVotedFor(v) ==
  /\ Running
  /\ mem' = [mem EXCEPT !.voted_for = v]
  /\ Put([db EXCEPT !.voted_for = v])
  /\ UNCHANGED pushing

SetVoted(b) ==
  /\ Running
  /\ mem' = [mem EXCEPT !.voted = b]
  /\ Put([db EXCEPT !.voted = b])
  /\ UNCHANGED pushing

(***************************************************************************)
(* push_log of an entry whose id is the size of the log: store_log_term,   *)
(* store_log_data, store_logs_size, and only then logs_.  It gives up at   *)
(* the first Put that fails.                                               *)
(***************************************************************************)
PushTerm(t, c) ==
  /\ Running /\ Len(mem.logs) < MaxSize
  /\ \/ /\ PutOk([db EXCEPT !.log_term[Len(mem.logs)] = t])
        /\ pushing' = [next |-> "data", term |-> t, data |-> c]
     \/ PutFails /\ UNCHANGED pushing
  /\ UNCHANGED mem

\* Mutant of PushData: a Put of the data that fails is not noticed.
PushDataUnchecked ==
  /\ pushing.next = "data"
  /\ Put([db EXCEPT !.log_data[Len(mem.logs)] = pushing.data])
  /\ pushing' = [pushing EXCEPT !.next = "size"]
  /\ UNCHANGED mem

PushData ==
  /\ pushing.next = "data"
  /\ \/ /\ PutOk([db EXCEPT !.log_data[Len(mem.logs)] = pushing.data])
        /\ pushing' = [pushing EXCEPT !.next = "size"]
     \/ PutFails /\ pushing' = Idle
  /\ UNCHANGED mem

PushSize ==
  /\ pushing.next = "size"
  /\ \/ /\ PutOk([db EXCEPT !.logs_size = Len(mem.logs) + 1])
        /\ mem' = [mem EXCEPT !.logs = Append(@, [term |-> pushing.term,
                                                  data |-> pushing.data])]
     \/ PutFails /\ UNCHANGED mem
  /\ pushing' = Idle

\* Mutant of RevertLog: the size is not stored.
RevertLogInMemory(id) ==
  /\ Running /\ id < Len(mem.logs)
  /\ mem' = [mem EXCEPT !.logs = SubSeq(@, 1, id)]
  /\ UNCHANGED <<db, pushing, failed>>

\* revert_log: logs_ is cut, then the size is stored, whether that works or not.
RevertLog(id) ==
  /\ Running /\ id < Len(mem.logs)
  /\ mem' = [mem EXCEPT !.logs = SubSeq(@, 1, id)]
  /\ Put([db EXCEPT !.logs_size = id])
  /\ UNCHANGED pushing

Crash ==
  /\ mem # Down
  /\ mem' = Down /\ pushing' = Idle
  /\ UNCHANGED <<db, failed>>

\* The constructor; init_logs stores the size where it stopped.
Open ==
  /\ mem = Down
  /\ mem' = Loaded(db)
  /\ db' = IF LoadedSize(db) < load_logs_size(db)
           THEN [db EXCEPT !.logs_size = LoadedSize(db)] ELSE db
  /\ UNCHANGED <<pushing, failed>>

EmptyDb ==
  [current_term |-> Absent, voted_for |-> Absent, voted |-> Absent,
   logs_size |-> Absent, log_term |-> [i \in Id |-> Absent],
   log_data |-> [i \in Id |-> Absent]]

Init == db = EmptyDb /\ mem = Loaded(EmptyDb) /\ pushing = Idle /\ failed = FALSE

Next ==
  \/ \E t \in Term : SetCurrentTerm(t)
  \/ \E v \in Voter \cup {NoVote} : SetVotedFor(v)
  \/ \E b \in BOOLEAN : SetVoted(b)
  \/ \E t \in Term, c \in Data : PushTerm(t, c)
  \/ PushData \/ PushSize
  \/ \E id \in Id : RevertLog(id)
  \/ Crash \/ Open

Spec == Init /\ [][Next]_vars

-----------------------------------------------------------------------------
\* An entry as push_log takes it: left-over bytes are not data of a command.
Entry == [term : Term, data : Data]

\* The keys, and the members of a running process, with the types of the code.
Databases ==
  [current_term : Term \cup {Absent}, voted_for : Voter \cup {NoVote, Absent},
   voted : BOOLEAN \cup {Absent}, logs_size : 0 .. MaxSize \cup {Absent},
   log_term : [Id -> Term \cup {Absent}], log_data : [Id -> Data \cup {Absent}]]
Members == [current_term : Term \cup {0}, voted_for : Voter \cup {NoVote},
            voted : BOOLEAN, logs : Seq(Entry)]

ASSUME DownAssumption == Down \notin Members

\* Type invariant: members and keys have the types the code declares for them,
\* and the entries in memory have data that somebody pushed.
StoreTypeOK ==
  /\ db \in Databases /\ mem \in Members \cup {Down}
  /\ pushing \in {Idle} \cup [next : {"data", "size"}, term : Term, data : Data]
  /\ failed \in BOOLEAN

\* Every id below the stored size has its term and its data, whichever Puts
\* failed and wherever the process died: load_log never reads left-over bytes.
StoredLogIsComplete ==
  \A i \in Id : i < load_logs_size(db) =>
    db.log_term[i] # Absent /\ db.log_data[i] # Absent

\* Until a Put fails, the store is an atomic durable store: what the process
\* sees is what a restart would find, a push_log that was cut short leaves no
\* trace, and an entry that was reverted does not come back.
Durable == INSTANCE DurableStore
  WITH Empty <- Loaded(EmptyDb), Down <- Down, disk <- Loaded(db), view <- mem,
       failed <- failed
ImplementsDurableStore == Durable!Spec
=============================================================================
