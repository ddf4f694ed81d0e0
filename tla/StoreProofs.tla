---------------------------- MODULE StoreProofs ----------------------------
(***************************************************************************)
(* Safety of Store for any threads, kinds, keys, values and batch size.    *)
(***************************************************************************)
EXTENDS Store, FiniteSetTheorems, TLAPS

-----------------------------------------------------------------------------
(* Open and closed. *)

(* The pointer to the database is set exactly while the store is open, and *)
(* the map of kinds then lists the families.                               *)
OpenInv ==
  /\ open \in BOOLEAN
  /\ txnDb = open
  /\ kinds = (IF open THEN cfs ELSE {})

(* A thread's call leaves the map of kinds and the pointer alone, and      *)
(* follows the pointer only when the store is open.                        *)
LEMMA CallKeepsStore ==
  ASSUME NEW t \in Threads, CallStep(t)
  PROVE  /\ UNCHANGED <<cfs, open, kinds, txnDb>>
         /\ alive' = alive \/ (open /\ alive' = (alive /\ txnDb))
  BY DEF CallStep, Check, CheckFails, Closed, Put, Remove, RemoveRange, Get,
         UpdateIfPresent, RemoveIfPresent, PutIfAbsent, FindKey, Compact, Enter,
         dbVars, openVars

(* Open, closed or crashed, the pointer and the list of kinds fit. *)
LEMMA OpenInvariance == Spec => []OpenInv
<1>1. Init => OpenInv
  BY Zenon DEF Init, OpenInv
<1>2. OpenInv /\ [Next]_vars => OpenInv'
  <2> SUFFICES ASSUME OpenInv, [Next]_vars PROVE OpenInv'
    OBVIOUS
  <2> USE DEF OpenInv, openVars, dbVars, walVars
  <2>1. CASE UNCHANGED vars
    BY <2>1 DEF vars
  <2>2. CASE Open
    BY <2>2 DEF Open
  <2>3. CASE ListFails
    BY <2>3 DEF ListFails
  <2>4. CASE OpenFails
    BY <2>4 DEF OpenFails
  <2>5. CASE Close
    BY Zenon, <2>5 DEF Close
  <2>6. CASE GetOrCreateKind
    BY <2>6 DEF GetOrCreateKind, CreateKind
  <2>7. CASE SyncWAL
    BY <2>7 DEF SyncWAL
  <2>8. CASE Flush
    BY <2>8 DEF Flush
  <2>9. CASE Tick
    BY <2>9 DEF Tick
  <2>10. CASE PowerFailure
    BY Zenon, <2>10 DEF PowerFailure
  <2>11. ASSUME NEW t \in Threads, CallStep(t) PROVE OpenInv'
    BY <2>11, CallKeepsStore
  <2> QED
    BY <2>1, <2>2, <2>3, <2>4, <2>5, <2>6, <2>7, <2>8, <2>9, <2>10, <2>11
       DEF Next, StoreStep
<1> QED
  BY <1>1, <1>2, PTL DEF Spec

(* An open store lists every column family, so that getOrCreateKind never  *)
(* tries to create one that exists.                                        *)
THEOREM KindsSafe == Spec => []KindsAreFamilies
<1>1. OpenInv => KindsAreFamilies
  BY DEF OpenInv, KindsAreFamilies
<1> QED
  BY <1>1, OpenInvariance, PTL

(* When TransactionDB::Open does not fail, no call of any thread follows   *)
(* the null txnDb, wherever close falls between a call's argument check    *)
(* and its monitor.                                                        *)
THEOREM NullSafe ==
  ASSUME ~OpenMayFail
  PROVE  Spec => []NullNeverFollowed
<1> DEFINE Alive == alive = TRUE
<1>1. Init => Alive
  BY DEF Init
<1>2. OpenInv /\ Alive /\ [Next]_vars => Alive'
  <2> SUFFICES ASSUME OpenInv, Alive, [Next]_vars PROVE Alive'
    OBVIOUS
  <2>1. CASE alive' = alive
    BY <2>1
  <2>2. CASE open /\ alive' = (alive /\ txnDb)
    <3>1. txnDb = TRUE
      BY <2>2 DEF OpenInv
    <3> QED
      BY Zenon, <2>2, <3>1
  <2>3. CASE \E t \in Threads : CallStep(t)
    BY Zenon, <2>1, <2>2, <2>3, CallKeepsStore
  <2>4. CASE UNCHANGED vars
    BY <2>1, <2>4 DEF vars
  <2>5. CASE StoreStep \/ Tick \/ PowerFailure
    BY Zenon, <2>1, <2>2, <2>5
       DEF StoreStep, Open, ListFails, OpenFails, Close, GetOrCreateKind, SyncWAL,
           Flush, Tick, PowerFailure
  <2> QED
    BY Zenon, <2>3, <2>4, <2>5 DEF Next
<1>3. Alive => NullNeverFollowed
  BY DEF NullNeverFollowed
<1> QED
  BY <1>1, <1>2, <1>3, OpenInvariance, PTL DEF Spec

-----------------------------------------------------------------------------
(* The write-ahead log. *)

(* A full batch is a multiple of the batch size. *)
LEMMA FullBatch == BatchSize % BatchSize = 0
  BY StoreAssumption

(* Counters add up. *)
LEMMA SumIsNatural ==
  ASSUME NEW a \in Nat, NEW b \in Nat
  PROVE  a + b \in Nat
  OBVIOUS

(* One counted write keeps the counter in its range, and leaves no more    *)
(* writes unsynced than are counted or excused.                            *)
LEMMA WalStep ==
  ASSUME TypeOK, NEW log \in Seq(Contents), OccasionalWalSync(log)
  PROVE  /\ unsynced' \in Seq(Contents)
         /\ totalSinceLastSync' \in 0 .. (BatchSize - 1)
         /\ timeUp' \in BOOLEAN
         /\ excused' \in Nat
         /\ Len(log) <= totalSinceLastSync + 1 + excused
              => Len(unsynced') <= totalSinceLastSync' + excused'
<1> DEFINE n == totalSinceLastSync + 1
<1>1. n \in 1 .. BatchSize /\ BatchSize \in Nat \ {0}
  BY StoreAssumption DEF TypeOK
<1>2. CASE timeUp \/ n % BatchSize = 0
  <2>1. totalSinceLastSync' = 0 /\ timeUp' = FALSE
    BY <1>2 DEF OccasionalWalSync, SyncAndReset
  <2>2. \/ unsynced' = << >> /\ excused' = 0
        \/ unsynced' = log /\ excused' = excused + BatchSize
    BY <1>2 DEF OccasionalWalSync, SyncAndReset, FlushWAL
  <2>3. timeUp' \in BOOLEAN
    BY Zenon, <2>1
  <2>4. totalSinceLastSync' \in 0 .. (BatchSize - 1) /\ excused' \in Nat
    BY <1>1, <2>1, <2>2 DEF TypeOK
  <2>5. << >> \in Seq(Contents) /\ Len(<< >>) = 0 /\ Len(log) \in Nat
    OBVIOUS
  <2>6. unsynced' \in Seq(Contents)
    BY Zenon, <2>2, <2>5
  <2>7. Len(log) <= n + excused => Len(unsynced') <= totalSinceLastSync' + excused'
    BY <1>1, <2>1, <2>2, <2>5 DEF TypeOK
  <2> QED
    BY <2>3, <2>4, <2>6, <2>7
<1>3. CASE ~(timeUp \/ n % BatchSize = 0)
  <2>1. /\ totalSinceLastSync' = n /\ unsynced' = log
        /\ timeUp' = timeUp /\ excused' = excused
    BY <1>3 DEF OccasionalWalSync, CountWrite
  <2>2. n # BatchSize
    BY <1>3, FullBatch
  <2>3. timeUp' \in BOOLEAN
    BY <2>1 DEF TypeOK
  <2> QED
    BY <1>1, <2>1, <2>2, <2>3 DEF TypeOK
<1> QED
  BY <1>2, <1>3

(* What a thread's call does to the data and the log: nothing, one counted *)
(* write, or the uncounted write of removeRange.                           *)
LEMMA CallShape ==
  ASSUME TypeOK, NEW t \in Threads, CallStep(t)
  PROVE  \/ NoCommit
         \/ \E content \in Contents : Commit(content)
         \/ /\ data' \in Contents
            /\ unsynced' = Append(unsynced, data)
            /\ excused' = excused + 1
            /\ UNCHANGED <<totalSinceLastSync, timeUp>>
<1> USE StoreAssumption DEF TypeOK
<1>1. CASE Check(t) \/ CheckFails(t) \/ Closed(t) \/ Get(t) \/ FindKey(t) \/ Compact(t)
  BY <1>1 DEF Check, CheckFails, Closed, Get, FindKey, Compact, NoCommit,
              dbVars, walVars
<1>2. ASSUME req[t] # NoKind, NEW k \in Keys, NEW v \in Values \cup {NoValue}
      PROVE  Content(req[t], k, v) \in Contents
  BY <1>2 DEF Content, Contents
<1>3. CASE Put(t)
  BY <1>2, <1>3 DEF Put, Enter, WriteAndReturn
<1>4. CASE Remove(t)
  BY <1>2, <1>4 DEF Remove, Enter, WriteAndReturn
<1>5. CASE RemoveRange(t)
  <2>1. CASE NoCommit
    BY <2>1
  <2>2. CASE ~NoCommit
    <3>1. PICK from \in Keys, to \in Keys \cup {Max(Keys) + 1} :
            /\ data' = [data EXCEPT ![req[t]] =
                          [k \in Keys |-> IF from <= k /\ k < to THEN NoValue ELSE @[k]]]
            /\ unsynced' = Append(unsynced, data)
            /\ excused' = excused + 1
            /\ UNCHANGED <<totalSinceLastSync, timeUp>>
      BY Zenon, <1>5, <2>2 DEF RemoveRange
    <3>2. req[t] \in Kinds
      BY <1>5 DEF RemoveRange, Enter
    <3> DEFINE content == [k \in Keys |-> IF from <= k /\ k < to THEN NoValue
                                          ELSE data[req[t]][k]]
    <3>3. content \in [Keys -> Values \cup {NoValue}]
      BY <3>2 DEF Contents
    <3>4. data' = [data EXCEPT ![req[t]] = content]
      BY <3>1
    <3> HIDE DEF content
    <3>5. data' \in Contents
      BY <3>2, <3>3, <3>4 DEF Contents
    <3> QED
      BY <3>1, <3>5
  <2> QED
    BY <2>1, <2>2
<1>6. CASE UpdateIfPresent(t)
  BY <1>2, <1>6 DEF UpdateIfPresent, Enter, ChangeIfPresent, WriteAndReturn,
                    ReadFails
<1>7. CASE RemoveIfPresent(t)
  BY <1>2, <1>7 DEF RemoveIfPresent, Enter, ChangeIfPresent, WriteAndReturn,
                    ReadFails
<1>8. CASE PutIfAbsent(t)
  BY <1>2, <1>8 DEF PutIfAbsent, Enter, WriteAndReturn, ReadFails
<1> QED
  BY <1>1, <1>3, <1>4, <1>5, <1>6, <1>7, <1>8 DEF CallStep

(* What a call does to the rest. *)
LEMMA CallResult ==
  ASSUME TypeOK, NEW t \in Threads, CallStep(t)
  PROVE  /\ req' \in [Threads -> Kinds \cup {NoKind}]
         /\ last'.status \in Statuses
         /\ code' \in Statuses
<1> USE DEF TypeOK, Return, Statuses
<1>1. CASE Check(t)
  BY <1>1 DEF Check
<1>2. CASE CheckFails(t)
  BY <1>2 DEF CheckFails
<1>3. CASE Closed(t)
  BY <1>3 DEF Closed
<1>4. CASE Put(t)
  BY <1>4 DEF Put, Enter, WriteAndReturn
<1>5. CASE Remove(t)
  BY <1>5 DEF Remove, Enter, WriteAndReturn
<1>6. CASE RemoveRange(t)
  BY <1>6 DEF RemoveRange, Enter
<1>7. CASE Get(t)
  BY <1>7 DEF Get, Enter, ReadFails
<1>8. CASE UpdateIfPresent(t)
  BY <1>8 DEF UpdateIfPresent, Enter, ChangeIfPresent, WriteAndReturn, ReadFails
<1>9. CASE RemoveIfPresent(t)
  BY <1>9 DEF RemoveIfPresent, Enter, ChangeIfPresent, WriteAndReturn, ReadFails
<1>10. CASE PutIfAbsent(t)
  BY <1>10 DEF PutIfAbsent, Enter, WriteAndReturn, ReadFails
<1>11. CASE FindKey(t)
  BY <1>11 DEF FindKey, Enter, ReadFails
<1>12. CASE Compact(t)
  BY <1>12 DEF Compact, Enter, ReadFails
<1> QED
  BY <1>1, <1>2, <1>3, <1>4, <1>5, <1>6, <1>7, <1>8, <1>9, <1>10, <1>11, <1>12
     DEF CallStep

(* A counted write keeps data, log and counter in their types. *)
LEMMA CommitTypes ==
  ASSUME TypeOK, NEW content \in Contents, Commit(content)
  PROVE  /\ data' \in Contents
         /\ unsynced' \in Seq(Contents)
         /\ totalSinceLastSync' \in 0 .. (BatchSize - 1)
         /\ timeUp' \in BOOLEAN
         /\ excused' \in Nat
<1>1. Append(unsynced, data) \in Seq(Contents)
  BY DEF TypeOK, Contents
<1> QED
  BY Zenon, <1>1, WalStep DEF Commit

(* A thread's call keeps all types. *)
LEMMA CallTypes ==
  ASSUME TypeOK, NEW t \in Threads, CallStep(t)
  PROVE  TypeOK'
<1>1. /\ data' \in Contents
      /\ unsynced' \in Seq(Contents)
      /\ totalSinceLastSync' \in 0 .. (BatchSize - 1)
      /\ timeUp' \in BOOLEAN
      /\ excused' \in Nat
  <2>1. CASE NoCommit
    BY <2>1 DEF NoCommit, walVars, TypeOK, Contents
  <2>2. CASE \E content \in Contents : Commit(content)
    BY <2>2, CommitTypes
  <2>3. CASE /\ data' \in Contents
             /\ unsynced' = Append(unsynced, data)
             /\ excused' = excused + 1
             /\ UNCHANGED <<totalSinceLastSync, timeUp>>
    BY <2>3 DEF TypeOK, Contents
  <2> QED
    BY <2>1, <2>2, <2>3, CallShape
<1>2. alive' \in BOOLEAN /\ UNCHANGED <<cfs, open, kinds, txnDb>>
  BY CallKeepsStore DEF TypeOK
<1> QED
  BY <1>1, <1>2, CallResult DEF TypeOK, Contents

(* StoreImpl's fields keep their ranges for any number of threads, keys    *)
(* and kinds and any batch size, whatever fails.                           *)
THEOREM StoreTypeCorrect == Spec => []TypeOK
<1> USE StoreAssumption
<1>0. << >> \in Seq(Contents)
  OBVIOUS
<1>1. Init => TypeOK
  <2> SUFFICES ASSUME Init PROVE TypeOK
    OBVIOUS
  <2>1. data \in Contents
    BY DEF Init, Contents
  <2>2. totalSinceLastSync \in 0 .. (BatchSize - 1)
    BY DEF Init
  <2>3. last.status \in Statuses /\ code \in Statuses
    BY DEF Init, Statuses
  <2>4. open \in BOOLEAN /\ txnDb \in BOOLEAN /\ timeUp \in BOOLEAN
        /\ alive \in BOOLEAN
    BY Zenon DEF Init
  <2> QED
    BY <1>0, <2>1, <2>2, <2>3, <2>4 DEF Init, TypeOK
<1>2. TypeOK /\ [Next]_vars => TypeOK'
  <2> SUFFICES ASSUME TypeOK, [Next]_vars
               PROVE  TypeOK'
    OBVIOUS
  <2>1. ASSUME NEW t \in Threads, CallStep(t)
        PROVE  TypeOK'
    BY <2>1, CallTypes
  <2>2. CASE Open
    <3>1. open' \in BOOLEAN /\ txnDb' \in BOOLEAN /\ timeUp' \in BOOLEAN
      BY Zenon, <2>2 DEF Open
    <3>2. totalSinceLastSync' \in 0 .. (BatchSize - 1) /\ code' \in Statuses
      BY <2>2 DEF Open, Statuses
    <3>3. cfs' \in SUBSET Kinds /\ kinds' \in SUBSET Kinds
      BY <2>2 DEF Open, TypeOK
    <3> QED
      BY <1>0, <2>2, <3>1, <3>2, <3>3 DEF Open, TypeOK
  <2>3. CASE ListFails \/ OpenFails
    BY <2>3 DEF ListFails, OpenFails, dbVars, walVars, openVars, TypeOK, Statuses
  <2>4. FlushWAL(unsynced, excused) => unsynced' \in Seq(Contents) /\ excused' \in Nat
    <3>1. excused \in Nat /\ unsynced \in Seq(Contents) /\ 0 \in Nat
      BY DEF TypeOK
    <3> QED
      BY <1>0, <3>1, Zenon DEF FlushWAL
  <2>5. CASE Close
    BY Zenon, <2>4, <2>5 DEF Close, SyncWALNoLock, dbVars, TypeOK, Contents
  <2>6. CASE GetOrCreateKind
    BY <2>6 DEF GetOrCreateKind, CreateKind, walVars, TypeOK, Statuses
  <2>7. CASE SyncWAL
    BY <2>4, <2>7 DEF SyncWAL, SyncWALNoLock, dbVars, openVars, TypeOK, Contents
  <2>8. CASE Flush
    BY <2>8 DEF Flush, dbVars, openVars, TypeOK, Contents
  <2>9. CASE Tick
    BY <2>9 DEF Tick, dbVars, openVars, TypeOK
  <2>10. CASE PowerFailure
    <3>1. data' \in Contents
      BY <2>10 DEF PowerFailure, TypeOK
    <3>2. open' \in BOOLEAN /\ txnDb' \in BOOLEAN
      BY Zenon, <2>10 DEF PowerFailure
    <3>3. req' \in [Threads -> Kinds \cup {NoKind}] /\ kinds' \in SUBSET Kinds
      BY <2>10 DEF PowerFailure
    <3> QED
      BY <1>0, <2>10, <3>1, <3>2, <3>3 DEF PowerFailure, TypeOK
  <2>11. CASE UNCHANGED vars
    BY <2>11 DEF vars, dbVars, walVars, openVars, TypeOK
  <2> QED
    BY <2>1, <2>2, <2>3, <2>5, <2>6, <2>7, <2>8, <2>9, <2>10, <2>11
       DEF Next, StoreStep
<1> QED
  BY <1>1, <1>2, PTL DEF Spec

(* The counter counts every unsynced write but the excused ones. *)
Counted == Len(unsynced) <= totalSinceLastSync + excused

(* A power failure loses fewer than BatchSize answered writes, for every   *)
(* batch size: occasionalWalSync counts each write, nothing but a sync     *)
(* lowers the counter.  The excused ones come on top: removeRange does not *)
(* count its write, and syncAndReset ignores that FlushWAL failed.         *)
THEOREM LossSafe == Spec => []LossBounded
<1>1. Init => Counted
  BY DEF Init, Counted
<1>2. TypeOK /\ Counted /\ [Next]_vars => Counted'
  <2> SUFFICES ASSUME TypeOK, Counted, [Next]_vars
               PROVE  Counted'
    OBVIOUS
  <2>1. CASE UNCHANGED <<unsynced, excused, totalSinceLastSync>>
    BY <2>1 DEF Counted
  <2>2. CASE /\ unsynced' = << >> /\ excused' = 0
             /\ totalSinceLastSync' \in {0, totalSinceLastSync}
    <3>1. Len(<< >>) = 0 /\ totalSinceLastSync \in Nat
      BY StoreAssumption DEF TypeOK
    <3>2. Len(unsynced') = 0
      BY <2>2, <3>1
    <3>3. totalSinceLastSync' \in Nat
      BY <2>2, <3>1
    <3>4. excused' \in Nat
      BY <2>2
    <3>5. totalSinceLastSync' + excused' \in Nat
      BY Zenon, <3>3, <3>4, SumIsNatural
    <3> QED
      BY <3>2, <3>5 DEF Counted
  <2>3. ASSUME NEW t \in Threads, CallStep(t)
        PROVE  Counted'
    <3>1. CASE NoCommit
      BY <2>1, <3>1 DEF NoCommit, walVars
    <3>2. ASSUME NEW content \in Contents, Commit(content)
          PROVE  Counted'
      <4> DEFINE log == Append(unsynced, data)
      <4>1. log \in Seq(Contents) /\ Len(log) = Len(unsynced) + 1
        BY DEF TypeOK
      <4>2. Len(unsynced) \in Nat /\ totalSinceLastSync \in Nat /\ excused \in Nat
        BY StoreAssumption DEF TypeOK
      <4>3. Len(log) <= totalSinceLastSync + 1 + excused
        BY <4>1, <4>2 DEF Counted
      <4>4. OccasionalWalSync(log)
        BY <3>2 DEF Commit
      <4> HIDE DEF log
      <4> QED
        BY <4>1, <4>3, <4>4, WalStep DEF Counted
    <3>3. CASE /\ unsynced' = Append(unsynced, data)
               /\ excused' = excused + 1
               /\ UNCHANGED <<totalSinceLastSync, timeUp>>
      <4>1. Len(unsynced') = Len(unsynced) + 1 /\ Len(unsynced) \in Nat
        BY <3>3 DEF TypeOK
      <4>2. totalSinceLastSync \in Nat /\ excused \in Nat
        BY StoreAssumption DEF TypeOK
      <4> QED
        BY <3>3, <4>1, <4>2 DEF Counted
    <3> QED
      BY <2>3, <3>1, <3>2, <3>3, CallShape
  <2>4. CASE Open
    BY <2>2, <2>4 DEF Open
  <2>5. CASE PowerFailure
    BY <2>2, <2>5 DEF PowerFailure
  <2>6. CASE Close \/ SyncWAL
    BY <2>1, <2>2, <2>6 DEF Close, SyncWAL, SyncWALNoLock, FlushWAL
  <2>7. CASE Flush
    <3>1. Len(unsynced') = Len(unsynced)
      BY <2>7 DEF Flush, TypeOK
    <3> QED
      BY <2>7, <3>1 DEF Flush, Counted
  <2>8. CASE ListFails \/ OpenFails \/ GetOrCreateKind \/ Tick \/ UNCHANGED vars
    BY <2>1, <2>8 DEF ListFails, OpenFails, GetOrCreateKind, Tick, vars, walVars
  <2> QED
    BY <2>3, <2>4, <2>5, <2>6, <2>7, <2>8 DEF Next, StoreStep
<1>3. TypeOK /\ Counted => LossBounded
  BY StoreAssumption DEF TypeOK, Counted, LossBounded
<1> QED
  BY <1>1, <1>2, <1>3, StoreTypeCorrect, PTL DEF Spec

-----------------------------------------------------------------------------
(* Calls and the pointer. *)

(* Whatever fails, no call of any thread follows the null txnDb, wherever  *)
(* close falls between a call's argument check and its monitor.            *)
THEOREM CallsSafe == Spec => CallsFollowNoNull
<1>1. TypeOK /\ OpenInv /\ [Next]_vars
        => (open \/ (\E t \in Threads : req[t] # NoKind) => alive' = alive)
  <2> SUFFICES ASSUME TypeOK, OpenInv, [Next]_vars,
                      open \/ (\E t \in Threads : req[t] # NoKind)
               PROVE  alive' = alive
    OBVIOUS
  <2>1. ASSUME open, alive' = (alive /\ txnDb) PROVE alive' = alive
    <3>1. txnDb = TRUE /\ alive \in BOOLEAN
      BY <2>1 DEF OpenInv, TypeOK
    <3> QED
      BY <2>1, <3>1
  <2>2. CASE \E t \in Threads : CallStep(t)
    BY <2>1, <2>2, CallKeepsStore
  <2>3. CASE UNCHANGED vars
    BY <2>3 DEF vars
  <2>4. CASE Open \/ ListFails \/ OpenFails
    BY <2>4 DEF Open, ListFails, OpenFails, MayOpen
  <2>5. CASE Close \/ GetOrCreateKind \/ SyncWAL \/ Flush \/ Tick \/ PowerFailure
    BY <2>1, <2>5 DEF Close, GetOrCreateKind, SyncWAL, Flush, Tick, PowerFailure
  <2> QED
    BY <2>2, <2>3, <2>4, <2>5 DEF Next, StoreStep
<1> QED
  BY <1>1, OpenInvariance, StoreTypeCorrect, PTL DEF Spec, CallsFollowNoNull

-----------------------------------------------------------------------------
(* What a status tells. *)

(* One key of one kind changes. *)
Changes(kind, k, v) ==
  /\ kind \in Kinds /\ k \in Keys
  /\ data' = Content(kind, k, v)

(* What a call that returns did, by its name and its status: nothing, or   *)
(* what it was asked to do to one key in the state it was asked for.       *)
Effect ==
  \/ data' = data /\ last'.status # "Ok"
  \/ data' = data /\ last'.op \in Reads \cup {"createKind"}
  \/ last'.status = "Ok" /\ last'.op \in {"put", "remove", "singleRemove", "removeRange"}
  \/ /\ last'.status = "Ok" /\ last'.op = "putIfAbsent"
     /\ \E kind, k : \E v \in Values : Changes(kind, k, v) /\ data[kind][k] = NoValue
  \/ /\ last'.status = "Ok" /\ last'.op = "updateIfPresent"
     /\ \E kind, k : \E v \in Values : Changes(kind, k, v) /\ data[kind][k] # NoValue
  \/ /\ last'.status = "Ok" /\ last'.op \in {"removeIfPresent", "singleRemoveIfPresent"}
     /\ \E kind, k : Changes(kind, k, NoValue) /\ data[kind][k] # NoValue

(* Every step of a call, and every creation of a kind, has such an effect, *)
(* or changes no data and returns nothing.                                 *)
LEMMA CallEffect ==
  ASSUME TypeOK, NEW t \in Threads, CallStep(t)
  PROVE  Effect \/ (data' = data /\ ~Returns)
<1> USE DEF Return, Effect
<1>0. ASSUME NEW op, Enter(t, op) PROVE req[t] \in Kinds
  BY <1>0 DEF Enter, TypeOK
<1>1. CASE Check(t)
  <2>1. data' = data /\ req[t] = NoKind /\ \A u \in Threads : u # t => req'[u] = req[u]
    BY <1>1 DEF Check, dbVars, TypeOK
  <2> QED
    BY Zenon, <2>1 DEF Returns
<1>2. CASE CheckFails(t)
  BY <1>2 DEF CheckFails, dbVars
<1>3. CASE Closed(t)
  BY <1>3 DEF Closed, dbVars
<1>4. CASE Put(t)
  BY <1>4 DEF Put, WriteAndReturn, NoCommit
<1>5. CASE Remove(t)
  BY <1>5 DEF Remove, WriteAndReturn, NoCommit
<1>6. CASE RemoveRange(t)
  <2>1. \/ data' = data /\ last' = [op |-> "removeRange", status |-> "IOError"]
        \/ last' = [op |-> "removeRange", status |-> "Ok"]
    BY Zenon, <1>6 DEF RemoveRange, NoCommit
  <2> QED
    BY <2>1
<1>7. CASE Get(t)
  BY <1>7 DEF Get, NoCommit, ReadFails, Reads
<1>8. CASE UpdateIfPresent(t)
  BY <1>0, <1>8 DEF UpdateIfPresent, ChangeIfPresent, WriteAndReturn, Commit,
                    ReadFails, NoCommit, Changes
<1>9. CASE RemoveIfPresent(t)
  BY <1>0, <1>9 DEF RemoveIfPresent, ChangeIfPresent, WriteAndReturn, Commit,
                    ReadFails, NoCommit, Changes
<1>10. CASE PutIfAbsent(t)
  BY <1>0, <1>10 DEF PutIfAbsent, WriteAndReturn, Commit, ReadFails, NoCommit, Changes
<1>11. CASE FindKey(t)
  BY <1>11 DEF FindKey, NoCommit, ReadFails, Reads
<1>12. CASE Compact(t)
  BY <1>12 DEF Compact, NoCommit, ReadFails, Reads
<1> QED
  BY Zenon, <1>1, <1>2, <1>3, <1>4, <1>5, <1>6, <1>7, <1>8, <1>9, <1>10, <1>11, <1>12
     DEF CallStep

(* The status of a call tells what it did, for any kinds, keys and values  *)
(* and any number of threads, whatever reads, writes and syncs fail.       *)
THEOREM StatusSafe == Spec => StatusTellsEffect
<1> DEFINE Gone  == Present(data) \ Present(data')
           Added == Present(data') \ Present(data)
           Told  ==
             /\ last'.status # "Ok" => data' = data
             /\ last'.op = "putIfAbsent" =>
                  \A kind \in Kinds, k \in Keys :
                    data[kind][k] \in {NoValue, data'[kind][k]}
             /\ last'.op = "updateIfPresent" => Gone = {} /\ Added = {}
             /\ last'.op \in {"removeIfPresent", "singleRemoveIfPresent"} =>
                  /\ Added = {}
                  /\ Cardinality(Gone) = IF last'.status = "Ok" THEN 1 ELSE 0
<1>1. ASSUME TypeOK, Effect PROVE Told
  <2>0. data \in Contents
    BY <1>1 DEF TypeOK
  <2>1. CASE data' = data /\ last'.status # "Ok"
    <3>1. Gone = {} /\ Added = {}
      BY <2>1
    <3>2. Cardinality(Gone) = 0
      BY <3>1, FS_EmptySet
    <3> QED
      BY Zenon, <2>1, <3>1, <3>2
  <2>2. CASE data' = data /\ last'.op \in Reads \cup {"createKind"}
    BY <2>2 DEF Reads
  <2>3. CASE last'.status = "Ok" /\ last'.op \in {"put", "remove", "singleRemove", "removeRange"}
    BY <2>3
  <2>4. ASSUME last'.status = "Ok", last'.op = "putIfAbsent",
               NEW kind, NEW k, NEW v \in Values,
               Changes(kind, k, v), data[kind][k] = NoValue
        PROVE  Told
    <3>1. ASSUME NEW i \in Kinds, NEW j \in Keys
          PROVE  data[i][j] \in {NoValue, data'[i][j]}
      BY <2>0, <2>4 DEF Contents, Changes, Content
    <3> QED
      BY <2>4, <3>1
  <2>5. ASSUME last'.status = "Ok", last'.op = "updateIfPresent",
               NEW kind, NEW k, NEW v \in Values,
               Changes(kind, k, v), data[kind][k] # NoValue
        PROVE  Told
    <3>0. v # NoValue /\ v \in Values \cup {NoValue}
      BY <2>5, StoreAssumption
    <3>1. \A p \in Kinds \X Keys :
            data'[p[1]][p[2]] = IF p = <<kind, k>> THEN v ELSE data[p[1]][p[2]]
      BY <2>0, <2>5, <3>0 DEF Contents, Changes, Content
    <3>2. \A p \in Kinds \X Keys :
            data'[p[1]][p[2]] # NoValue <=> data[p[1]][p[2]] # NoValue
      BY <2>5, <3>0, <3>1
    <3>3. Present(data') = Present(data)
      BY <3>2 DEF Present
    <3> QED
      BY Zenon, <2>5, <3>3
  <2>6. ASSUME last'.status = "Ok",
               last'.op \in {"removeIfPresent", "singleRemoveIfPresent"},
               NEW kind, NEW k,
               Changes(kind, k, NoValue), data[kind][k] # NoValue
        PROVE  Told
    <3>0. /\ \A p \in Kinds \X Keys :
               data'[p[1]][p[2]] = IF p = <<kind, k>> THEN NoValue ELSE data[p[1]][p[2]]
          /\ <<kind, k>> \in Kinds \X Keys
      BY <2>0, <2>6 DEF Contents, Changes, Content
    <3>1. Present(data') = Present(data) \ {<<kind, k>>} /\ <<kind, k>> \in Present(data)
      BY <2>6, <3>0 DEF Present
    <3>2. Gone = {<<kind, k>>} /\ Added = {}
      BY <3>1
    <3>3. Cardinality(Gone) = 1
      BY Zenon, <3>2, FS_Singleton
    <3> QED
      BY <2>6, <3>2, <3>3
  <2> QED
    BY Zenon, <1>1, <2>1, <2>2, <2>3, <2>4, <2>5, <2>6 DEF Effect
<1>2. TypeOK /\ [Next]_vars
        => ((Returns \/ data' # data) /\ open /\ open' => Told)
  <2> SUFFICES ASSUME TypeOK, [Next]_vars, Returns \/ data' # data, open, open'
               PROVE  Effect
    BY Zenon, <1>1
  <2>1. CASE \E t \in Threads : CallStep(t)
    BY Zenon, <2>1, CallEffect
  <2>2. CASE GetOrCreateKind
    BY <2>2 DEF GetOrCreateKind, Returns
  <2>3. CASE Close \/ PowerFailure
    BY <2>3 DEF Close, PowerFailure
  <2>4. CASE Open \/ ListFails \/ OpenFails
    BY <2>4 DEF Open, ListFails, OpenFails, MayOpen
  <2>5. CASE SyncWAL \/ Flush \/ Tick \/ UNCHANGED vars
    BY Zenon, <2>5 DEF SyncWAL, Flush, Tick, vars, dbVars, Returns
  <2> QED
    BY Zenon, <2>1, <2>2, <2>3, <2>4, <2>5 DEF Next, StoreStep
<1> QED
  BY <1>2, StoreTypeCorrect, PTL DEF Spec, StatusTellsEffect
=============================================================================
