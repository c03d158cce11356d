-------------------------- MODULE ContextStoreProofs --------------------------
(***************************************************************************)
(* The store never loads left-over bytes, whichever Puts fail and wherever *)
(* the process dies, and until a Put fails it is an atomic durable store.  *)
(***************************************************************************)
EXTENDS ContextStore, TLAPS

\* Both keys of the entry with this id are in the database.
Stored(d, id) == d.log_term[id] # Absent /\ d.log_data[id] # Absent

\* Every entry in memory has its keys, also where the stored size is another.
MemoryIsStored ==
  mem # Down => /\ Len(mem.logs) <= MaxSize
                /\ \A i \in Id : i < Len(mem.logs) => Stored(db, i)

\* push_log under way has stored what comes before its next Put.
PushIsUnderWay ==
  pushing # Idle =>
    /\ mem # Down /\ Len(mem.logs) < MaxSize
    /\ db.log_term[Len(mem.logs)] = pushing.term
    /\ pushing.next = "size" => db.log_data[Len(mem.logs)] = pushing.data

\* Until a Put fails, the members are what a restart would load.
MemoryIsLoaded == ~failed /\ mem # Down => mem = Loaded(db)

StoreInv == /\ StoreTypeOK /\ StoredLogIsComplete /\ MemoryIsStored
            /\ PushIsUnderWay /\ MemoryIsLoaded

\* Every entry of the database has its keys.
Complete(d) == \A i \in Id : i < load_logs_size(d) => Stored(d, i)

-----------------------------------------------------------------------------
\* The size of a database is a number of entries.
LEMMA SizeType ==
  ASSUME NEW d \in Databases
  PROVE  load_logs_size(d) \in 0 .. MaxSize
  BY StoreAssumption DEF Databases, load_logs_size

\* init_logs finds every entry of a complete database.
LEMMA CompleteIsLoaded ==
  ASSUME NEW d \in Databases, Complete(d)
  PROVE  LoadedSize(d) = load_logs_size(d)
  <1> DEFINE size == load_logs_size(d)
             Stop(k) == /\ \A i \in 0 .. k - 1 : d.log_term[i] # Absent
                        /\ k < size => d.log_term[k] = Absent
  <1>1. size \in Nat /\ size <= MaxSize
    BY SizeType, StoreAssumption
  <1>2. \A i \in 0 .. size - 1 : d.log_term[i] # Absent
    BY <1>1, StoreAssumption DEF Complete, Stored, Id
  <1>3. Stop(size)
    BY <1>1, <1>2
  <1>4. \A k \in 0 .. size : Stop(k) => k = size
    BY <1>1, <1>2
  <1>5. LoadedSize(d) = CHOOSE k \in 0 .. size : Stop(k)
    BY DEF LoadedSize
  <1>6. size \in 0 .. size
    BY <1>1
  <1> HIDE DEF Stop, size
  <1>7. LoadedSize(d) = size
    BY <1>3, <1>4, <1>5, <1>6
  <1> QED BY <1>7 DEF size

\* A complete database is loaded as entries with their own data.
LEMMA LoadedType ==
  ASSUME NEW d \in Databases, Complete(d)
  PROVE  /\ Loaded(d) \in Members
         /\ Loaded(d).logs = [i \in 1 .. load_logs_size(d) |->
                                [term |-> d.log_term[i - 1], data |-> d.log_data[i - 1]]]
         /\ Len(Loaded(d).logs) = load_logs_size(d)
  <1> DEFINE size == load_logs_size(d)
  <1>1. size \in Nat /\ size <= MaxSize
    BY SizeType, StoreAssumption
  <1>2. \A i \in 1 .. size : i - 1 \in Id /\ Stored(d, i - 1)
    BY <1>1, StoreAssumption DEF Complete, Id
  <1>3. \A i \in 1 .. size : load_log(d, i - 1) \in Entry
    BY <1>2 DEF load_log, Entry, Stored, Databases
  <1>4. \A i \in 1 .. size :
          load_log(d, i - 1) = [term |-> d.log_term[i - 1], data |-> d.log_data[i - 1]]
    BY <1>2 DEF load_log, Stored
  <1>5. init_logs(d) = [i \in 1 .. size |-> load_log(d, i - 1)]
    BY CompleteIsLoaded DEF init_logs
  <1> HIDE DEF size
  <1>6. init_logs(d) \in Seq(Entry) /\ Len(init_logs(d)) = size
    BY <1>1, <1>3, <1>5
  <1>7. init_logs(d) = [i \in 1 .. size |->
                          [term |-> d.log_term[i - 1], data |-> d.log_data[i - 1]]]
    BY <1>4, <1>5
  <1>8. /\ (IF d.current_term = Absent THEN 0 ELSE d.current_term) \in Term \cup {0}
        /\ (IF d.voted_for = Absent THEN NoVote ELSE d.voted_for) \in Voter \cup {NoVote}
        /\ (IF d.voted = Absent THEN FALSE ELSE d.voted) \in BOOLEAN
    BY DEF Databases
  <1> QED BY <1>6, <1>7, <1>8
    DEF Loaded, init_current_term, init_voted_for, init_voted, Members, size

\* What is loaded of the log depends on the keys below the size only.
LEMMA LoadedSame ==
  ASSUME NEW d \in Databases, NEW e \in Databases, Complete(d),
         load_logs_size(e) = load_logs_size(d),
         \A i \in Id : i < load_logs_size(d) =>
           e.log_term[i] = d.log_term[i] /\ e.log_data[i] = d.log_data[i]
  PROVE  Complete(e) /\ Loaded(e).logs = Loaded(d).logs
  <1> DEFINE size == load_logs_size(d)
  <1>1. Complete(e)
    BY DEF Complete, Stored
  <1>2. size \in Nat /\ size <= MaxSize
    BY SizeType, StoreAssumption
  <1>3. \A i \in 1 .. size : i - 1 \in Id /\ i - 1 < size
    BY <1>2, StoreAssumption DEF Id
  <1>4. \A i \in 1 .. size : /\ e.log_term[i - 1] = d.log_term[i - 1]
                             /\ e.log_data[i - 1] = d.log_data[i - 1]
    BY <1>3
  <1> HIDE DEF size
  <1>5. [i \in 1 .. size |-> [term |-> e.log_term[i - 1], data |-> e.log_data[i - 1]]]
          = [i \in 1 .. size |-> [term |-> d.log_term[i - 1], data |-> d.log_data[i - 1]]]
    BY <1>4
  <1>6. Loaded(e).logs = [i \in 1 .. size |-> [term |-> e.log_term[i - 1],
                                               data |-> e.log_data[i - 1]]]
    BY <1>1, LoadedType DEF size
  <1>7. Loaded(d).logs = [i \in 1 .. size |-> [term |-> d.log_term[i - 1],
                                               data |-> d.log_data[i - 1]]]
    BY LoadedType DEF size
  <1> QED BY <1>1, <1>5, <1>6, <1>7

\* StoreTypeOK and StoredLogIsComplete in the words of this module.
LEMMA StoreFacts ==
  /\ StoreTypeOK => /\ db \in Databases /\ (mem # Down => mem \in Members)
                    /\ pushing # Idle =>
                         /\ pushing \in [next : {"data", "size"}, term : Term, data : Data]
                         /\ pushing.next \in {"data", "size"}
                         /\ pushing.term \in Term /\ pushing.data \in Data
  /\ StoredLogIsComplete <=> Complete(db)
  BY DEF StoreTypeOK, Databases, Members, StoredLogIsComplete, Complete, Stored

-----------------------------------------------------------------------------
\* The setters write one key that the log does not depend on.
LEMMA SettersKeep ==
  ASSUME StoreInv,
         \/ \E t \in Term : SetCurrentTerm(t)
         \/ \E v \in Voter \cup {NoVote} : SetVotedFor(v)
         \/ \E b \in BOOLEAN : SetVoted(b)
  PROVE  StoreInv'
  <1>1. /\ db \in Databases /\ Complete(db) /\ mem \in Members /\ mem # Down
        /\ pushing = Idle /\ pushing' = Idle
    BY StoreFacts DEF StoreInv, SetCurrentTerm, SetVotedFor, SetVoted, Running
  <1>2. /\ mem' \in Members /\ mem'.logs = mem.logs
        /\ db' \in Databases /\ db'.logs_size = db.logs_size
        /\ db'.log_term = db.log_term /\ db'.log_data = db.log_data
    <2>1. ASSUME NEW t \in Term, SetCurrentTerm(t) PROVE <1>2
      BY <1>1, <2>1 DEF SetCurrentTerm, Put, PutOk, PutFails, Members, Databases
    <2>2. ASSUME NEW v \in Voter \cup {NoVote}, SetVotedFor(v) PROVE <1>2
      BY <1>1, <2>2 DEF SetVotedFor, Put, PutOk, PutFails, Members, Databases
    <2>3. ASSUME NEW b \in BOOLEAN, SetVoted(b) PROVE <1>2
      BY <1>1, <2>3 DEF SetVoted, Put, PutOk, PutFails, Members, Databases
    <2> QED BY <2>1, <2>2, <2>3
  <1>3. Complete(db') /\ Loaded(db').logs = Loaded(db).logs
    BY <1>1, <1>2, LoadedSame DEF load_logs_size
  <1>4. ~failed' => mem' = Loaded(db')
    <2> SUFFICES ASSUME ~failed' PROVE mem' = Loaded(db')
      OBVIOUS
    <2>1. ~failed /\ mem = Loaded(db)
      BY <1>1 DEF StoreInv, MemoryIsLoaded, SetCurrentTerm, SetVotedFor, SetVoted,
                  Put, PutOk, PutFails
    <2>2. init_logs(db') = init_logs(db)
      BY <1>3 DEF Loaded, init_current_term, init_voted_for, init_voted
    <2>3. ASSUME NEW t \in Term, SetCurrentTerm(t) PROVE mem' = Loaded(db')
      BY <1>1, <2>1, <2>2, <2>3, StoreAssumption
        DEF SetCurrentTerm, Put, PutOk, PutFails, Databases,
            Loaded, init_current_term, init_voted_for, init_voted
    <2>4. ASSUME NEW v \in Voter \cup {NoVote}, SetVotedFor(v) PROVE mem' = Loaded(db')
      <3>1. v # Absent
        BY StoreAssumption
      <3>2. db' = [db EXCEPT !.voted_for = v] /\ mem' = [mem EXCEPT !.voted_for = v]
        BY <2>1, <2>4 DEF SetVotedFor, Put, PutOk, PutFails
      <3> QED BY <1>1, <2>1, <2>2, <3>1, <3>2
        DEF Loaded, init_current_term, init_voted_for, init_voted, Databases
    <2>5. ASSUME NEW b \in BOOLEAN, SetVoted(b) PROVE mem' = Loaded(db')
      BY <1>1, <2>1, <2>2, <2>5, StoreAssumption
        DEF SetVoted, Put, PutOk, PutFails, Databases,
            Loaded, init_current_term, init_voted_for, init_voted
    <2> QED BY <2>3, <2>4, <2>5
  <1>5. failed' \in BOOLEAN
    BY DEF StoreInv, StoreTypeOK, SetCurrentTerm, SetVotedFor, SetVoted, Put, PutOk,
           PutFails
  <1>6. StoreTypeOK'
    BY <1>1, <1>2, <1>5 DEF StoreTypeOK, Members, Databases
  <1>7. StoredLogIsComplete'
    BY <1>3 DEF StoredLogIsComplete, Complete, Stored
  <1>8. MemoryIsStored'
    BY <1>1, <1>2 DEF StoreInv, MemoryIsStored, Stored
  <1> QED BY <1>1, <1>4, <1>6, <1>7, <1>8 DEF StoreInv, PushIsUnderWay, MemoryIsLoaded

\* store_log_term writes beyond the size: nothing of what is loaded changes.
LEMMA PushTermKeeps ==
  ASSUME StoreInv, NEW t \in Term, NEW c \in Data, PushTerm(t, c)
  PROVE  StoreInv'
  <1> DEFINE len == Len(mem.logs)
  <1>1. /\ db \in Databases /\ Complete(db) /\ mem \in Members /\ mem # Down
        /\ pushing = Idle /\ mem' = mem
        /\ len \in Nat /\ len < MaxSize /\ len \in Id
        /\ \A i \in Id : i < len => Stored(db, i)
    BY StoreFacts, StoreAssumption
    DEF StoreInv, MemoryIsStored, PushTerm, Running, Members, Id
  <1>2. CASE PutFails /\ UNCHANGED pushing
    BY <1>1, <1>2 DEF PutFails, StoreInv, StoreTypeOK, StoredLogIsComplete, Stored,
      MemoryIsStored, PushIsUnderWay, MemoryIsLoaded, load_logs_size
  <1>3. CASE /\ PutOk([db EXCEPT !.log_term[len] = t])
             /\ pushing' = [next |-> "data", term |-> t, data |-> c]
    <2> HIDE DEF len
    <2>1. /\ db' = [db EXCEPT !.log_term[len] = t] /\ failed' = failed
      BY <1>3 DEF PutOk
    <2>2. /\ db' \in Databases /\ load_logs_size(db') = load_logs_size(db)
          /\ db'.log_term[len] = t
          /\ \A i \in Id : /\ i # len => db'.log_term[i] = db.log_term[i]
                           /\ db'.log_data[i] = db.log_data[i]
      BY <1>1, <2>1 DEF Databases, load_logs_size
    <2>3. t # Absent
      BY StoreAssumption
    <2>4. \A i \in Id : Stored(db, i) => Stored(db', i)
      BY <2>2, <2>3 DEF Stored
    <2>5. Complete(db')
      BY <1>1, <2>2, <2>4 DEF Complete
    <2>6. MemoryIsLoaded'
      <3> SUFFICES ASSUME ~failed' PROVE mem' = Loaded(db')
        BY DEF MemoryIsLoaded
      <3>1. mem = Loaded(db)
        BY <1>1, <2>1 DEF StoreInv, MemoryIsLoaded
      <3>2. len = load_logs_size(db)
        BY <1>1, <3>1, LoadedType DEF len
      <3>3. Loaded(db').logs = Loaded(db).logs
        BY <1>1, <2>2, <3>2, LoadedSame
      <3>4. /\ db'.current_term = db.current_term /\ db'.voted_for = db.voted_for
            /\ db'.voted = db.voted
        BY <1>1, <2>1 DEF Databases
      <3> QED BY <1>1, <3>1, <3>3, <3>4
        DEF Loaded, init_current_term, init_voted_for, init_voted
    <2>7. pushing' \in [next : {"data", "size"}, term : Term, data : Data]
      BY <1>3
    <2>8. StoreTypeOK'
      BY <1>1, <2>1, <2>2, <2>7 DEF StoreInv, StoreTypeOK, Databases, Members
    <2>9. StoredLogIsComplete'
      BY <2>5 DEF StoredLogIsComplete, Complete, Stored
    <2>10. MemoryIsStored'
      BY <1>1, <2>4, StoreAssumption DEF MemoryIsStored, Stored, len
    <2>11. PushIsUnderWay'
      <3>1. Len(mem'.logs) = len /\ mem' # Down
        BY <1>1 DEF len
      <3>2. pushing'.term = t /\ pushing'.next # "size"
        BY <1>3
      <3> QED BY <1>1, <2>2, <3>1, <3>2 DEF PushIsUnderWay
    <2> QED BY <2>6, <2>8, <2>9, <2>10, <2>11 DEF StoreInv
  <1> QED BY <1>2, <1>3 DEF PushTerm

\* store_log_data, likewise.
LEMMA PushDataKeeps ==
  ASSUME StoreInv, PushData
  PROVE  StoreInv'
  <1> DEFINE len == Len(mem.logs)
             dat == pushing.data
  <1>1. pushing # Idle
    BY DEF PushData, Idle
  <1>2. /\ db \in Databases /\ Complete(db) /\ mem \in Members /\ mem # Down
        /\ pushing \in [next : {"data", "size"}, term : Term, data : Data]
        /\ pushing.next = "data" /\ dat \in Data /\ mem' = mem
        /\ db.log_term[len] = pushing.term
        /\ len \in Nat /\ len < MaxSize /\ len \in Id
        /\ \A i \in Id : i < len => Stored(db, i)
    BY <1>1, StoreFacts, StoreAssumption
    DEF StoreInv, MemoryIsStored, PushIsUnderWay, PushData, Members, Id
  <1>3. CASE PutFails /\ pushing' = Idle
    BY <1>2, <1>3 DEF PutFails, StoreInv, StoreTypeOK, StoredLogIsComplete, Stored,
      MemoryIsStored, PushIsUnderWay, MemoryIsLoaded, load_logs_size
  <1>4. CASE /\ PutOk([db EXCEPT !.log_data[len] = dat])
             /\ pushing' = [pushing EXCEPT !.next = "size"]
    <2> HIDE DEF len, dat
    <2>1. /\ db' = [db EXCEPT !.log_data[len] = dat] /\ failed' = failed
      BY <1>4 DEF PutOk
    <2>2. /\ db' \in Databases /\ load_logs_size(db') = load_logs_size(db)
          /\ db'.log_data[len] = dat
          /\ \A i \in Id : /\ i # len => db'.log_data[i] = db.log_data[i]
                           /\ db'.log_term[i] = db.log_term[i]
      BY <1>2, <2>1 DEF Databases, load_logs_size
    <2>3. dat # Absent
      BY <1>2, StoreAssumption
    <2>4. \A i \in Id : Stored(db, i) => Stored(db', i)
      BY <2>2, <2>3 DEF Stored
    <2>5. Complete(db')
      BY <1>2, <2>2, <2>4 DEF Complete
    <2>6. MemoryIsLoaded'
      <3> SUFFICES ASSUME ~failed' PROVE mem' = Loaded(db')
        BY DEF MemoryIsLoaded
      <3>1. mem = Loaded(db)
        BY <1>2, <2>1 DEF StoreInv, MemoryIsLoaded
      <3>2. len = load_logs_size(db)
        BY <1>2, <3>1, LoadedType DEF len
      <3>3. Loaded(db').logs = Loaded(db).logs
        BY <1>2, <2>2, <3>2, LoadedSame
      <3>4. /\ db'.current_term = db.current_term /\ db'.voted_for = db.voted_for
            /\ db'.voted = db.voted
        BY <1>2, <2>1 DEF Databases
      <3> QED BY <1>2, <3>1, <3>3, <3>4
        DEF Loaded, init_current_term, init_voted_for, init_voted
    <2>7. /\ pushing' \in [next : {"data", "size"}, term : Term, data : Data]
          /\ pushing'.term = pushing.term /\ pushing'.data = dat
      BY <1>2, <1>4 DEF dat
    <2>8. StoreTypeOK'
      BY <1>2, <2>1, <2>2, <2>7 DEF StoreInv, StoreTypeOK, Databases, Members
    <2>9. StoredLogIsComplete'
      BY <2>5 DEF StoredLogIsComplete, Complete, Stored
    <2>10. MemoryIsStored'
      BY <1>2, <2>4, StoreAssumption DEF MemoryIsStored, Stored, len
    <2>11. PushIsUnderWay'
      <3>1. Len(mem'.logs) = len /\ mem' # Down
        BY <1>2 DEF len
      <3> QED BY <1>2, <2>2, <2>7, <3>1 DEF PushIsUnderWay
    <2> QED BY <2>6, <2>8, <2>9, <2>10, <2>11 DEF StoreInv
  <1> QED BY <1>3, <1>4 DEF PushData

\* store_logs_size makes the entry part of the log, on disk and in memory.
LEMMA PushSizeKeeps ==
  ASSUME StoreInv, PushSize
  PROVE  StoreInv'
  <1> DEFINE len == Len(mem.logs)
             entry == [term |-> pushing.term, data |-> pushing.data]
  <1>1. pushing # Idle
    BY DEF PushSize, Idle
  <1>2. /\ db \in Databases /\ Complete(db) /\ mem \in Members /\ mem # Down
        /\ pushing.term \in Term /\ pushing.data \in Data
        /\ db.log_term[len] = pushing.term /\ db.log_data[len] = pushing.data
        /\ len \in Nat /\ len < MaxSize /\ len \in Id
        /\ mem.logs \in Seq(Entry) /\ entry \in Entry
        /\ \A i \in Id : i < len => Stored(db, i)
        /\ pushing' = Idle
    BY <1>1, StoreFacts, StoreAssumption
    DEF StoreInv, MemoryIsStored, PushIsUnderWay, PushSize, Members, Id, Entry
  <1>3. CASE PutFails /\ UNCHANGED mem
    BY <1>2, <1>3 DEF PutFails, StoreInv, StoreTypeOK, StoredLogIsComplete, Stored,
      MemoryIsStored, PushIsUnderWay, MemoryIsLoaded, load_logs_size
  <1>4. CASE /\ PutOk([db EXCEPT !.logs_size = len + 1])
             /\ mem' = [mem EXCEPT !.logs = Append(@, entry)]
    <2> HIDE DEF len, entry
    <2>1. /\ db' = [db EXCEPT !.logs_size = len + 1] /\ failed' = failed
      BY <1>4 DEF PutOk
    <2>2. /\ db'.logs_size = len + 1 /\ len + 1 \in 0 .. MaxSize
          /\ db'.log_term = db.log_term /\ db'.log_data = db.log_data
          /\ db'.current_term = db.current_term /\ db'.voted_for = db.voted_for
          /\ db'.voted = db.voted
      BY <1>2, <2>1, StoreAssumption DEF Databases
    <2>3. db' \in Databases
      BY <1>2, <2>1, <2>2 DEF Databases
    <2>4. load_logs_size(db') = len + 1
      BY <1>2, <2>2, StoreAssumption DEF load_logs_size
    <2>5. /\ mem'.logs = Append(mem.logs, entry) /\ Len(mem'.logs) = len + 1
          /\ mem' \in Members
      <3>1. Append(mem.logs, entry) \in Seq(Entry)
        BY <1>2
      <3>2. Len(Append(mem.logs, entry)) = len + 1
        BY <1>2 DEF len
      <3>3. mem'.logs = Append(mem.logs, entry) /\ mem' \in Members
        BY <1>2, <1>4, <3>1 DEF Members
      <3> QED BY <3>2, <3>3
    <2>6. \A i \in Id : i < len + 1 => Stored(db', i)
      <3>1. pushing.term # Absent /\ pushing.data # Absent
        BY <1>2, StoreAssumption
      <3>2. \A i \in Id : i < len + 1 => i < len \/ i = len
        BY <1>2 DEF Id
      <3> QED BY <1>2, <2>2, <3>1, <3>2 DEF Stored
    <2>7. Complete(db')
      BY <2>4, <2>6 DEF Complete
    <2>8. MemoryIsLoaded'
      <3> SUFFICES ASSUME ~failed' PROVE mem' = Loaded(db')
        BY DEF MemoryIsLoaded
      <3>1. mem = Loaded(db)
        BY <1>2, <2>1 DEF StoreInv, MemoryIsLoaded
      <3>2. /\ len = load_logs_size(db)
            /\ mem.logs = [i \in 1 .. len |-> [term |-> db.log_term[i - 1],
                                               data |-> db.log_data[i - 1]]]
        BY <1>2, <3>1, LoadedType DEF len
      <3>3. Loaded(db').logs = [i \in 1 .. len + 1 |->
                                  [term |-> db.log_term[i - 1],
                                   data |-> db.log_data[i - 1]]]
        BY <2>2, <2>3, <2>4, <2>7, LoadedType
      <3>4. Append(mem.logs, entry) = [i \in 1 .. len + 1 |->
                                         [term |-> db.log_term[i - 1],
                                          data |-> db.log_data[i - 1]]]
        <4> DEFINE F == [i \in 1 .. len + 1 |-> [term |-> db.log_term[i - 1],
                                                 data |-> db.log_data[i - 1]]]
        <4>1. F[len + 1] = entry
          BY <1>2 DEF entry
        <4>2. \A i \in 1 .. len : F[i] = mem.logs[i]
          BY <1>2, <3>2
        <4>3. DOMAIN F = 1 .. len + 1 /\ F = [i \in 1 .. len + 1 |-> F[i]]
          OBVIOUS
        <4> HIDE DEF F
        <4>4. Append(mem.logs, entry) = [i \in 1 .. len + 1 |-> F[i]]
          BY <1>2, <4>1, <4>2 DEF len
        <4> QED BY <4>3, <4>4 DEF F
      <3>5. Loaded(db').logs = mem'.logs
        BY <2>5, <3>3, <3>4
      <3>6. mem' = [mem EXCEPT !.logs = mem'.logs]
        BY <1>2, <1>4 DEF Members
      <3> QED BY <1>2, <2>2, <3>1, <3>5, <3>6
        DEF Loaded, init_current_term, init_voted_for, init_voted
    <2>9. StoreTypeOK'
      BY <1>2, <2>1, <2>3, <2>5 DEF StoreInv, StoreTypeOK, Databases, Members
    <2>10. StoredLogIsComplete'
      BY <2>7 DEF StoredLogIsComplete, Complete, Stored
    <2>11. MemoryIsStored'
      BY <2>2, <2>5, <2>6, StoreAssumption DEF MemoryIsStored, Stored
    <2> QED BY <1>2, <2>8, <2>9, <2>10, <2>11 DEF StoreInv, PushIsUnderWay
  <1> QED BY <1>2, <1>3, <1>4 DEF PushSize

\* revert_log cuts what is in memory; the size on disk follows, or its Put fails.
LEMMA RevertKeeps ==
  ASSUME StoreInv, NEW id \in Id, RevertLog(id)
  PROVE  StoreInv'
  <1> DEFINE len == Len(mem.logs)
             cut == SubSeq(mem.logs, 1, id)
  <1>1. /\ db \in Databases /\ Complete(db) /\ mem \in Members /\ mem # Down
        /\ pushing = Idle /\ pushing' = Idle
        /\ mem.logs \in Seq(Entry) /\ len \in Nat /\ len <= MaxSize
        /\ \A i \in Id : i < len => Stored(db, i)
        /\ id \in Nat /\ id < len
    BY StoreFacts DEF StoreInv, MemoryIsStored, RevertLog, Running, Members, Id
  <1>2. cut \in Seq(Entry) /\ Len(cut) = id /\ \A i \in 1 .. id : cut[i] = mem.logs[i]
    BY <1>1
  <1> HIDE DEF len, cut
  <1>3. mem' = [mem EXCEPT !.logs = cut] /\ mem' \in Members /\ mem'.logs = cut
    BY <1>1, <1>2 DEF RevertLog, Members, cut
  <1>4. CASE PutFails
    <2>1. failed' /\ failed' \in BOOLEAN /\ db' = db
      BY <1>4 DEF PutFails
    <2>2. StoreTypeOK' /\ StoredLogIsComplete'
      BY <1>1, <1>3, <2>1 DEF StoreInv, StoreTypeOK, Members, StoredLogIsComplete,
                              load_logs_size
    <2>3. MemoryIsStored'
      BY <1>1, <1>2, <1>3, <2>1, StoreAssumption DEF MemoryIsStored, Stored, Id
    <2> QED BY <1>1, <2>1, <2>2, <2>3 DEF StoreInv, PushIsUnderWay, MemoryIsLoaded
  <1>5. CASE PutOk([db EXCEPT !.logs_size = id])
    <2>1. /\ db' = [db EXCEPT !.logs_size = id] /\ failed' = failed
      BY <1>5 DEF PutOk
    <2>2. /\ db'.logs_size = id /\ id \in 0 .. MaxSize
          /\ db'.log_term = db.log_term /\ db'.log_data = db.log_data
          /\ db'.current_term = db.current_term /\ db'.voted_for = db.voted_for
          /\ db'.voted = db.voted
      BY <1>1, <2>1, StoreAssumption DEF Databases
    <2>3. db' \in Databases
      BY <1>1, <2>1, <2>2 DEF Databases
    <2>4. load_logs_size(db') = id
      BY <1>1, <2>2, StoreAssumption DEF load_logs_size
    <2>5. \A i \in Id : i < id => Stored(db', i)
      BY <1>1, <2>2 DEF Stored, Id
    <2>6. Complete(db')
      BY <2>4, <2>5 DEF Complete
    <2>7. MemoryIsLoaded'
      <3> SUFFICES ASSUME ~failed' PROVE mem' = Loaded(db')
        BY DEF MemoryIsLoaded
      <3>1. mem = Loaded(db)
        BY <1>1, <2>1 DEF StoreInv, MemoryIsLoaded
      <3>2. /\ len = load_logs_size(db)
            /\ mem.logs = [i \in 1 .. len |-> [term |-> db.log_term[i - 1],
                                               data |-> db.log_data[i - 1]]]
        BY <1>1, <3>1, LoadedType DEF len
      <3>3. Loaded(db').logs = [i \in 1 .. id |-> [term |-> db.log_term[i - 1],
                                                   data |-> db.log_data[i - 1]]]
        BY <2>2, <2>3, <2>4, <2>6, LoadedType
      <3>4. cut = [i \in 1 .. id |-> cut[i]]
        BY <1>2
      <3>5. \A i \in 1 .. id : cut[i] = [term |-> db.log_term[i - 1],
                                         data |-> db.log_data[i - 1]]
        <4>1. \A i \in 1 .. len : mem.logs[i] = [term |-> db.log_term[i - 1],
                                                data |-> db.log_data[i - 1]]
          BY <3>2
        <4>2. \A i \in 1 .. id : i \in 1 .. len
          BY <1>1
        <4> QED BY <1>2, <4>1, <4>2
      <3>6. Loaded(db').logs = cut
        BY <3>3, <3>4, <3>5
      <3>7. mem' = [mem EXCEPT !.logs = Loaded(db').logs]
        BY <1>3, <3>6
      <3> QED BY <1>1, <2>2, <3>1, <3>7
        DEF Loaded, init_current_term, init_voted_for, init_voted
    <2>8. StoreTypeOK'
      BY <1>1, <1>3, <2>1, <2>3 DEF StoreInv, StoreTypeOK, Databases, Members
    <2>9. StoredLogIsComplete'
      BY <2>6 DEF StoredLogIsComplete, Complete, Stored
    <2>10. MemoryIsStored'
      BY <1>1, <1>2, <1>3, <2>2, <2>5, StoreAssumption DEF MemoryIsStored, Stored
    <2> QED BY <1>1, <2>7, <2>8, <2>9, <2>10 DEF StoreInv, PushIsUnderWay
  <1> QED BY <1>4, <1>5 DEF RevertLog, Put

\* A process that dies leaves the database; the next one loads all of it.
LEMMA RestartKeeps ==
  ASSUME StoreInv, Crash \/ Open
  PROVE  StoreInv'
  <1>1. CASE Crash
    BY <1>1 DEF Crash, StoreInv, StoreTypeOK, StoredLogIsComplete, MemoryIsStored,
                PushIsUnderWay, MemoryIsLoaded, load_logs_size
  <1>2. CASE Open
    <2>1. db \in Databases /\ Complete(db) /\ mem = Down /\ pushing = Idle
      BY <1>2, StoreFacts DEF Open, StoreInv, PushIsUnderWay
    <2>2. load_logs_size(db) \in Nat /\ load_logs_size(db) <= MaxSize
      BY <2>1, SizeType, StoreAssumption
    <2>3. db' = db /\ mem' = Loaded(db) /\ pushing' = Idle /\ failed' = failed
      BY <1>2, <2>1, <2>2, CompleteIsLoaded DEF Open
    <2>4. Loaded(db) \in Members /\ Len(Loaded(db).logs) = load_logs_size(db)
      BY <2>1, LoadedType
    <2>5. StoreTypeOK' /\ StoredLogIsComplete'
      BY <2>3, <2>4 DEF StoreInv, StoreTypeOK, Members, StoredLogIsComplete,
                        load_logs_size
    <2>6. MemoryIsStored'
      BY <2>1, <2>2, <2>3, <2>4 DEF MemoryIsStored, Complete, Stored
    <2>7. MemoryIsLoaded'
      BY <2>3 DEF MemoryIsLoaded
    <2> QED BY <2>3, <2>5, <2>6, <2>7 DEF StoreInv, PushIsUnderWay
  <1> QED BY <1>1, <1>2

LEMMA StoreInitial == Init => StoreInv
  <1> SUFFICES ASSUME Init PROVE StoreInv
    OBVIOUS
  <1>1. EmptyDb \in Databases /\ load_logs_size(EmptyDb) = 0
    BY StoreAssumption DEF EmptyDb, Databases, load_logs_size
  <1>2. Complete(EmptyDb)
    BY <1>1, StoreAssumption DEF Complete, Id
  <1>3. Loaded(EmptyDb) \in Members /\ Len(Loaded(EmptyDb).logs) = 0
    BY <1>1, <1>2, LoadedType
  <1>4. db = EmptyDb /\ mem = Loaded(EmptyDb) /\ pushing = Idle /\ failed = FALSE
    BY DEF Init
  <1>5. StoreTypeOK
    BY <1>1, <1>3, <1>4 DEF StoreTypeOK, Members, Databases
  <1>6. StoredLogIsComplete
    BY <1>2, <1>4 DEF StoredLogIsComplete, Complete, Stored
  <1>7. MemoryIsStored
    BY <1>3, <1>4, StoreAssumption DEF MemoryIsStored, Id
  <1> QED BY <1>4, <1>5, <1>6, <1>7 DEF StoreInv, PushIsUnderWay, MemoryIsLoaded

LEMMA StoreInvariant == Spec => []StoreInv
  <1>1. StoreInv /\ [Next]_vars => StoreInv'
    <2> SUFFICES ASSUME StoreInv, [Next]_vars PROVE StoreInv'
      OBVIOUS
    <2>1. CASE UNCHANGED vars
      BY <2>1 DEF vars, StoreInv, StoreTypeOK, StoredLogIsComplete, MemoryIsStored,
                  PushIsUnderWay, MemoryIsLoaded, Stored, load_logs_size
    <2> QED
      BY <2>1, SettersKeep, PushTermKeeps, PushDataKeeps, PushSizeKeeps, RevertKeeps,
         RestartKeeps DEF Next
  <1> QED BY <1>1, StoreInitial, PTL DEF Spec

-----------------------------------------------------------------------------
\* Members and keys keep the types the code declares for them; in particular no
\* restart makes the left-over bytes of load_log the data of an entry.
THEOREM StoreTypeCorrect == Spec => []StoreTypeOK
  <1>1. StoreInv => StoreTypeOK
    BY DEF StoreInv
  <1> QED BY <1>1, StoreInvariant, PTL

\* Whichever Puts fail and wherever the process dies, every id below the stored
\* size has both of its keys, so load_log never reads left-over bytes.
THEOREM NoLeftOverBytes == Spec => []StoredLogIsComplete
  <1>1. StoreInv => StoredLogIsComplete
    BY DEF StoreInv
  <1> QED BY <1>1, StoreInvariant, PTL

-----------------------------------------------------------------------------
\* Where no Put has failed, a step of a running process changes one value, and
\* the process sees what is stored.
LEMMA StepRefines ==
  StoreInv /\ StoreInv' /\ [Next]_vars
    => [Durable!Next]_<<Loaded(db), mem, failed>>
  <1> SUFFICES ASSUME StoreInv, StoreInv', [Next]_vars,
                      ~failed', ~UNCHANGED <<Loaded(db), mem, failed>>
               PROVE  Durable!Next
    BY DEF Durable!Next
  <1>1. /\ mem # Down => mem = Loaded(db)
        /\ mem' # Down => mem' = Loaded(db')
        /\ ~failed
    <2>1. ~failed
      BY DEF Next, vars, SetCurrentTerm, SetVotedFor, SetVoted, PushTerm, PushData,
             PushSize, RevertLog, Crash, Open, Put, PutOk, PutFails
    <2> QED BY <2>1 DEF StoreInv, MemoryIsLoaded
  <1>2. failed' = failed
    BY DEF StoreInv, StoreTypeOK, Next, vars, SetCurrentTerm, SetVotedFor, SetVoted,
           PushTerm, PushData, PushSize, RevertLog, Crash, Open, Put, PutOk, PutFails
  <1>3. ASSUME NEW t \in Term, SetCurrentTerm(t) PROVE Durable!Next
    <2>1. mem # Down /\ mem' = [mem EXCEPT !.current_term = t] /\ mem' \in Members
      BY <1>3, StoreFacts DEF StoreInv, SetCurrentTerm, Running, Members
    <2>2. mem'.current_term = t /\ mem' # Down
      BY <2>1, StoreFacts, DownAssumption DEF StoreInv, Members
    <2> QED BY <1>1, <1>2, <2>1, <2>2 DEF Durable!Next, Durable!Write
  <1>4. ASSUME NEW v \in Voter \cup {NoVote}, SetVotedFor(v) PROVE Durable!Next
    <2>1. mem # Down /\ mem' = [mem EXCEPT !.voted_for = v] /\ mem' \in Members
      BY <1>4, StoreFacts DEF StoreInv, SetVotedFor, Running, Members
    <2>2. mem'.voted_for = v /\ mem' # Down
      BY <2>1, StoreFacts, DownAssumption DEF StoreInv, Members
    <2> QED BY <1>1, <1>2, <2>1, <2>2 DEF Durable!Next, Durable!Write
  <1>5. ASSUME NEW b \in BOOLEAN, SetVoted(b) PROVE Durable!Next
    <2>1. mem # Down /\ mem' = [mem EXCEPT !.voted = b] /\ mem' \in Members
      BY <1>5, StoreFacts DEF StoreInv, SetVoted, Running, Members
    <2>2. mem'.voted = b /\ mem' # Down
      BY <2>1, StoreFacts, DownAssumption DEF StoreInv, Members
    <2> QED BY <1>1, <1>2, <2>1, <2>2 DEF Durable!Next, Durable!Write
  <1>6. ASSUME (\E t \in Term, c \in Data : PushTerm(t, c)) \/ PushData PROVE FALSE
    <2>1. mem' = mem
      BY <1>6 DEF PushTerm, PushData
    <2>2. ASSUME PushData PROVE pushing # Idle
      BY <2>2 DEF PushData, Idle
    <2>3. mem # Down
      BY <1>6, <2>2 DEF PushTerm, Running, StoreInv, PushIsUnderWay
    <2> QED BY <1>1, <1>2, <2>1, <2>3
  <1>7. CASE PushSize
    <2>1. pushing # Idle
      BY <1>7 DEF PushSize, Idle
    <2>2. /\ mem # Down /\ mem \in Members /\ mem.logs \in Seq(Entry)
          /\ pushing.term \in Term /\ pushing.data \in Data
      BY <2>1, StoreFacts DEF StoreInv, PushIsUnderWay, Members
    <2> DEFINE entry == [term |-> pushing.term, data |-> pushing.data]
    <2>3. entry \in Entry
      BY <2>2 DEF Entry
    <2> HIDE DEF entry
    <2>4. mem' = [mem EXCEPT !.logs = Append(@, entry)]
      BY <1>1, <1>2, <1>7, <2>2 DEF PushSize, PutOk, PutFails, entry
    <2>5. /\ Append(mem.logs, entry) \in Seq(Entry)
          /\ Len(Append(mem.logs, entry)) = Len(mem.logs) + 1
          /\ mem.logs = SubSeq(Append(mem.logs, entry), 1, Len(mem.logs))
      BY <2>2, <2>3
    <2>6. mem' \in Members /\ mem' # Down /\ mem'.logs = Append(mem.logs, entry)
      BY <2>2, <2>4, <2>5, DownAssumption DEF Members
    <2>7. Durable!LogChange(mem.logs, mem'.logs)
      BY <2>5, <2>6 DEF Durable!LogChange
    <2> QED BY <1>1, <1>2, <2>2, <2>4, <2>6, <2>7 DEF Durable!Next, Durable!Write
  <1>8. ASSUME NEW id \in Id, RevertLog(id) PROVE Durable!Next
    <2>1. /\ mem # Down /\ mem \in Members /\ mem.logs \in Seq(Entry)
          /\ id \in Nat /\ id < Len(mem.logs)
          /\ mem' = [mem EXCEPT !.logs = SubSeq(@, 1, id)]
      BY <1>8, StoreFacts DEF StoreInv, RevertLog, Running, Members, Id
    <2>2. SubSeq(mem.logs, 1, id) \in Seq(Entry) /\ id \in 0 .. Len(mem.logs) - 1
      BY <2>1
    <2>3. mem' \in Members /\ mem' # Down /\ mem'.logs = SubSeq(mem.logs, 1, id)
      BY <2>1, <2>2, DownAssumption DEF Members
    <2>4. Durable!LogChange(mem.logs, mem'.logs)
      BY <2>2, <2>3 DEF Durable!LogChange
    <2> QED BY <1>1, <1>2, <2>1, <2>3, <2>4 DEF Durable!Next, Durable!Write
  <1>9. CASE Crash
    BY <1>2, <1>9 DEF Crash, Durable!Next, Durable!Crash
  <1>10. CASE Open
    <2>1. db \in Databases /\ Complete(db)
      BY StoreFacts DEF StoreInv
    <2>2. load_logs_size(db) \in Nat
      BY <2>1, SizeType
    <2>3. db' = db /\ mem = Down /\ mem' = Loaded(db)
      BY <1>10, <2>1, <2>2, CompleteIsLoaded DEF Open
    <2> QED BY <1>2, <2>3 DEF Durable!Next, Durable!Recover
  <1>11. CASE UNCHANGED vars
    BY <1>11 DEF vars
  <1> QED BY <1>3, <1>4, <1>5, <1>6, <1>7, <1>8, <1>9, <1>10, <1>11 DEF Next

\* Until a Put fails, the store implements DurableStore: every operation is
\* atomic, a push_log that is cut short leaves no trace, a restart finds what the
\* last process saw.
THEOREM StoreImplementsDurableStore == Spec => ImplementsDurableStore
  <1>1. Init => Durable!Init
    BY DEF Init, Durable!Init
  <1> QED
    BY <1>1, StoreInvariant, StepRefines, PTL
    DEF Spec, ImplementsDurableStore, Durable!Spec
=============================================================================
