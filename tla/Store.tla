------------------------------- MODULE Store -------------------------------
(***************************************************************************)
(* StoreImpl: a key-value store of kinds (RocksDB column families).  The   *)
(* body of every call runs under one monitor and is one step; the check of *)
(* the caller's Kind before it is a step of its own, so the store can be   *)
(* closed in between.  Writes reach the disk in their order, but only a    *)
(* sync of the WAL makes them survive a power failure; the store syncs     *)
(* every BatchSize writes, or with the first write after the time window.  *)
(* SingleDelete is modelled as Delete, as it is for keys put once.         *)
(***************************************************************************)
EXTENDS Integers, Sequences, FiniteSetsExt

CONSTANTS
  Threads,
  Calls,         (* the operations the client calls                         *)
  Kinds,
  DefaultKind,
  Keys,
  Values,
  EmptyValue,    (* the value of length 0                                   *)
  NoValue,       (* nullptr, and the content of a key that is not stored    *)
  NoKind,        (* a thread that has no call past its argument check       *)
  BatchSize,     (* FLUSH_BATCH_SIZE + 1                                    *)
  MaxUnsynced,   (* bound on the unsynced writes of removeRange and failed syncs *)
  DbMayFail,     (* may RocksDB answer a read or write with an error?       *)
  SyncMayFail,   (* may FlushWAL and Flush fail?                            *)
  OpenMayFail    (* may TransactionDB::Open fail?                           *)

Writes   == {"put", "remove", "singleRemove", "removeRange", "updateIfPresent",
             "removeIfPresent", "singleRemoveIfPresent", "putIfAbsent"}
Reads    == {"get", "findMinKey", "findMaxKey", "compact"}
Ops      == Writes \cup Reads

ASSUME StoreAssumption ==
  /\ Keys \subseteq Int
  /\ DefaultKind \in Kinds
  /\ NoKind \notin Kinds
  /\ EmptyValue \in Values
  /\ NoValue \notin Values
  /\ BatchSize \in Nat \ {0}
  /\ MaxUnsynced \in Nat
  /\ Calls \subseteq Ops
  /\ {DbMayFail, SyncMayFail, OpenMayFail} \subseteq BOOLEAN

VARIABLES
  cfs,                 (* the column families of the database               *)
  data,                (* their content                                     *)
  unsynced,            (* earlier contents a power failure may fall back to *)
  open,
  code,
  kinds,               (* the kinds the map holds                           *)
  txnDb,               (* is the pointer to the database set?               *)
  totalSinceLastSync,
  timeUp,              (* has the time window since lastSync passed?        *)
  req,                 (* the Kind each thread's call was admitted with     *)
  last,                (* what the call that returned last returned         *)
  excused,             (* unsynced writes the counter does not count        *)
  alive                (* FALSE once a null pointer has been followed       *)

dbVars   == <<cfs, data>>
walVars  == <<unsynced, excused, totalSinceLastSync, timeUp>>
openVars == <<open, kinds, txnDb>>
vars     == <<dbVars, walVars, openVars, code, req, last, alive>>

Statuses == {"Ok", "NotFound", "AlreadyExists", "Closed", "InvalidArgument",
             "IOError"}

Contents == [Kinds -> [Keys -> Values \cup {NoValue}]]

Return(t, op, status) ==
  /\ req' = [req EXCEPT ![t] = NoKind]
  /\ last' = [op |-> op, status |-> status]

-----------------------------------------------------------------------------
(* The write-ahead log. *)
FlushWAL(log, missed) ==
  \/ unsynced' = << >> /\ excused' = 0
  \/ SyncMayFail /\ Len(log) <= MaxUnsynced /\ unsynced' = log /\ excused' = missed

(* syncAndReset ignores whether the sync succeeded. *)
SyncAndReset(log) ==
  /\ totalSinceLastSync' = 0
  /\ timeUp' = FALSE
  /\ FlushWAL(log, excused + BatchSize)

CountWrite(log, n) ==
  /\ totalSinceLastSync' = n
  /\ unsynced' = log
  /\ UNCHANGED <<excused, timeUp>>

OccasionalWalSyncLate(log) ==
  LET n == totalSinceLastSync + 1
  IN  IF timeUp \/ n > BatchSize THEN SyncAndReset(log) ELSE CountWrite(log, n)

OccasionalWalSync(log) ==
  LET n == totalSinceLastSync + 1
  IN  IF timeUp \/ n % BatchSize = 0 THEN SyncAndReset(log) ELSE CountWrite(log, n)

Commit(content) ==
  /\ data' = content
  /\ OccasionalWalSync(Append(unsynced, data))

NoCommit == UNCHANGED <<data, walVars>>

(* put_, remove_ and singleRemove_: a transaction of one write. *)
WriteAndReturn(t, op, content) ==
  \/ Commit(content) /\ Return(t, op, "Ok")
  \/ DbMayFail /\ NoCommit /\ Return(t, op, "IOError")

Content(kind, k, v) == [data EXCEPT ![kind][k] = v]

-----------------------------------------------------------------------------
(* openStore, close. *)
Init ==
  /\ cfs = {}
  /\ data = [kind \in Kinds |-> [k \in Keys |-> NoValue]]
  /\ unsynced = << >>
  /\ open = FALSE
  /\ code = "Ok"
  /\ kinds = {}
  /\ txnDb = FALSE
  /\ totalSinceLastSync = 0
  /\ timeUp = FALSE
  /\ req = [t \in Threads |-> NoKind]
  /\ last = [op |-> "none", status |-> "Ok"]
  /\ excused = 0
  /\ alive = TRUE

(* A closed StoreImpl stays closed: opening makes a new one, after the     *)
(* client's calls on the old one have returned.                            *)
MayOpen == ~open /\ alive /\ \A t \in Threads : req[t] = NoKind

(* RocksDB replays the WAL and writes what it finds to table files. *)
Open ==
  /\ MayOpen
  /\ cfs' = IF cfs = {} THEN {DefaultKind} ELSE cfs
  /\ kinds' = cfs'
  /\ open' = TRUE
  /\ txnDb' = TRUE
  /\ code' = "Ok"
  /\ unsynced' = << >>
  /\ excused' = 0
  /\ totalSinceLastSync' = 0
  /\ timeUp' = FALSE
  /\ UNCHANGED <<data, req, last, alive>>

(* ListColumnFamilies fails: openStore reports its code. *)
ListFails ==
  /\ MayOpen
  /\ DbMayFail
  /\ code' = "IOError"
  /\ UNCHANGED <<dbVars, walVars, openVars, req, last, alive>>

(* TransactionDB::Open fails: txnDb is still null when EnableFileDeletions *)
(* is called on it.                                                        *)
OpenFails ==
  /\ MayOpen
  /\ OpenMayFail
  /\ alive' = txnDb
  /\ code' = "IOError"
  /\ UNCHANGED <<dbVars, walVars, openVars, req, last>>

SyncWALNoLock(isOpen) ==
  IF isOpen THEN FlushWAL(unsynced, excused) ELSE UNCHANGED <<unsynced, excused>>

(* open is cleared first, so that the sync and the flush find it FALSE. *)
Close ==
  /\ open
  /\ open' = FALSE
  /\ SyncWALNoLock(open')
  /\ kinds' = {}
  /\ txnDb' = FALSE
  /\ UNCHANGED <<dbVars, code, totalSinceLastSync, timeUp, req, last, alive>>

-----------------------------------------------------------------------------
(* Calls without a Kind. *)
CreateKindUnlisted(kind) ==
  /\ cfs' = cfs \cup {kind}
  /\ UNCHANGED kinds

CreateKind(kind) ==
  /\ cfs' = cfs \cup {kind}
  /\ kinds' = kinds \cup {kind}

(* Looking up a kind that is there changes nothing. *)
GetOrCreateKind ==
  /\ open
  /\ \E kind \in Kinds \ kinds :
       \/ /\ kind \notin cfs
          /\ CreateKind(kind)
          /\ last' = [op |-> "createKind", status |-> "Ok"]
       \/ /\ DbMayFail
          /\ UNCHANGED <<cfs, kinds>>
          /\ last' = [op |-> "createKind", status |-> "IOError"]
  /\ alive' = (alive /\ txnDb)
  /\ UNCHANGED <<data, walVars, open, txnDb, code, req>>

SyncWALResets ==
  /\ SyncWALNoLock(open)
  /\ totalSinceLastSync' = 0
  /\ UNCHANGED <<dbVars, openVars, code, timeUp, req, last, alive>>

(* syncWAL syncs, and leaves the counter and lastSync as they are. *)
SyncWAL ==
  /\ SyncWALNoLock(open)
  /\ UNCHANGED <<dbVars, openVars, code, totalSinceLastSync, timeUp, req, last, alive>>

(* flush writes the memtable of the default kind to disk, and no other. *)
Flush ==
  /\ open
  /\ unsynced' = [i \in 1 .. Len(unsynced) |->
                    [unsynced[i] EXCEPT ![DefaultKind] = data[DefaultKind]]]
  /\ UNCHANGED <<dbVars, openVars, code, excused, totalSinceLastSync, timeUp, req, last, alive>>

-----------------------------------------------------------------------------
(* The argument check, before the monitor: a Kind of this store passes,    *)
(* the empty Kind that a failed lookup returned does not.  A client starts *)
(* no call on a store that it has closed; one may be under way.            *)
Check(t) ==
  /\ req[t] = NoKind
  /\ \E kind \in kinds : req' = [req EXCEPT ![t] = kind]
  /\ UNCHANGED <<dbVars, walVars, openVars, code, last, alive>>

CheckFails(t) ==
  /\ req[t] = NoKind
  /\ open
  /\ \E op \in Calls : Return(t, op, "InvalidArgument")
  /\ UNCHANGED <<dbVars, walVars, openVars, code, alive>>

(* validateOpen under the monitor, when it fails. *)
Closed(t) ==
  /\ req[t] # NoKind
  /\ ~open
  /\ code' = "Closed"
  /\ \E op \in Calls : Return(t, op, "Closed")
  /\ UNCHANGED <<dbVars, walVars, openVars, alive>>

EnterUnvalidated(t, op) ==
  /\ req[t] # NoKind
  /\ op \in Calls
  /\ alive' = (alive /\ txnDb)
  /\ UNCHANGED <<cfs, openVars, code>>

(* The call holds the monitor, the store is open, and it uses txnDb. *)
Enter(t, op) ==
  /\ req[t] # NoKind
  /\ op \in Calls
  /\ open
  /\ alive' = (alive /\ txnDb)
  /\ UNCHANGED <<cfs, openVars, code>>

Put(t) ==
  /\ Enter(t, "put")
  /\ \E k \in Keys, v \in Values :
       WriteAndReturn(t, "put", Content(req[t], k, v))

Remove(t) ==
  /\ \E op \in {"remove", "singleRemove"}, k \in Keys :
       /\ Enter(t, op)
       /\ WriteAndReturn(t, op, Content(req[t], k, NoValue))

(* removeRange writes past the transactions and does not count its write. *)
RemoveRange(t) ==
  /\ Enter(t, "removeRange")
  /\ \/ \E from \in Keys, to \in Keys \cup {Max(Keys) + 1} :
          /\ Len(unsynced) < MaxUnsynced
          /\ data' = [data EXCEPT ![req[t]] =
                        [k \in Keys |-> IF from <= k /\ k < to THEN NoValue ELSE @[k]]]
          /\ unsynced' = Append(unsynced, data)
          /\ excused' = excused + 1
          /\ UNCHANGED <<totalSinceLastSync, timeUp>>
          /\ Return(t, "removeRange", "Ok")
     \/ DbMayFail /\ NoCommit /\ Return(t, "removeRange", "IOError")

(* The read at the start of a conditional write, when it fails. *)
ReadFails(t, op) ==
  /\ DbMayFail
  /\ NoCommit
  /\ Return(t, op, "IOError")

Get(t) ==
  /\ Enter(t, "get")
  /\ \E k \in Keys :
       LET v == data[req[t]][k]
       IN  \/ Return(t, "get", IF v = NoValue THEN "NotFound" ELSE "Ok")
           \/ ReadFails(t, "get")
  /\ NoCommit

(* The three calls that change a key only if it is there and return its    *)
(* old value.                                                              *)
ChangeIfPresent(t, op, k, v) ==
  LET old == data[req[t]][k]
  IN  \/ /\ old = NoValue
         /\ NoCommit
         /\ Return(t, op, "NotFound")
      \/ /\ old # NoValue
         /\ WriteAndReturn(t, op, Content(req[t], k, v))
      \/ ReadFails(t, op)

UpdateIfPresent(t) ==
  /\ Enter(t, "updateIfPresent")
  /\ \E k \in Keys, v \in Values : ChangeIfPresent(t, "updateIfPresent", k, v)

RemoveIfPresent(t) ==
  /\ \E op \in {"removeIfPresent", "singleRemoveIfPresent"}, k \in Keys :
       Enter(t, op) /\ ChangeIfPresent(t, op, k, NoValue)

PutIfBufferNull(t) ==
  /\ Enter(t, "putIfAbsent")
  /\ \E k \in Keys, v \in Values :
       LET old == data[req[t]][k]
       IN  \/ /\ old \in {NoValue, EmptyValue}
              /\ WriteAndReturn(t, "putIfAbsent", Content(req[t], k, v))
           \/ /\ old \notin {NoValue, EmptyValue}
              /\ NoCommit
              /\ Return(t, "putIfAbsent", "AlreadyExists")

(* putIfAbsent decides by the status of get_ and drops the buffer. *)
PutIfAbsent(t) ==
  /\ Enter(t, "putIfAbsent")
  /\ \E k \in Keys, v \in Values :
       LET old == data[req[t]][k]
       IN  \/ /\ old = NoValue
              /\ WriteAndReturn(t, "putIfAbsent", Content(req[t], k, v))
           \/ /\ old # NoValue
              /\ NoCommit
              /\ Return(t, "putIfAbsent", "AlreadyExists")
           \/ ReadFails(t, "putIfAbsent")

(* An iterator on the first or the last key; its status is not read, so    *)
(* that only a missing iterator is an error.                               *)
FindKey(t) ==
  /\ \E op \in {"findMinKey", "findMaxKey"} :
       Enter(t, op) /\ (Return(t, op, "Ok") \/ ReadFails(t, op))
  /\ NoCommit

Compact(t) ==
  /\ Enter(t, "compact")
  /\ Return(t, "compact", "Ok") \/ ReadFails(t, "compact")
  /\ NoCommit

-----------------------------------------------------------------------------
(* The environment: time passes, the power fails. *)
Tick ==
  /\ open
  /\ ~timeUp
  /\ timeUp' = TRUE
  /\ UNCHANGED <<dbVars, unsynced, excused, totalSinceLastSync, openVars, code, req, last, alive>>

PowerFailure ==
  /\ \/ UNCHANGED data
     \/ \E i \in 1 .. Len(unsynced) : data' = unsynced[i]
  /\ unsynced' = << >>
  /\ excused' = 0
  /\ open' = FALSE
  /\ kinds' = {}
  /\ txnDb' = FALSE
  /\ req' = [t \in Threads |-> NoKind]
  /\ UNCHANGED <<cfs, code, totalSinceLastSync, timeUp, last, alive>>

StoreStep == Open \/ ListFails \/ OpenFails \/ Close
             \/ GetOrCreateKind \/ SyncWAL \/ Flush
CallStep(t) == \/ Check(t) \/ CheckFails(t) \/ Closed(t)
               \/ Put(t) \/ Remove(t) \/ RemoveRange(t) \/ Get(t)
               \/ UpdateIfPresent(t) \/ RemoveIfPresent(t) \/ PutIfAbsent(t)
               \/ FindKey(t) \/ Compact(t)

Next == StoreStep \/ Tick \/ PowerFailure \/ \E t \in Threads : CallStep(t)

Spec == Init /\ [][Next]_vars

-----------------------------------------------------------------------------
(* Every variable has values of the kind its C++ counterpart can hold; the *)
(* counter of writes stays below the batch size.                           *)
TypeOK ==
  /\ cfs \in SUBSET Kinds
  /\ data \in Contents
  /\ unsynced \in Seq(Contents)
  /\ open \in BOOLEAN
  /\ code \in Statuses
  /\ kinds \in SUBSET Kinds
  /\ txnDb \in BOOLEAN
  /\ totalSinceLastSync \in 0 .. (BatchSize - 1)
  /\ timeUp \in BOOLEAN
  /\ req \in [Threads -> Kinds \cup {NoKind}]
  /\ last.status \in Statuses
  /\ excused \in Nat
  /\ alive \in BOOLEAN

(* An open store lists every column family of the database, the ones made  *)
(* before a restart and by other threads included, so that getOrCreateKind *)
(* never tries to create a family that exists.                             *)
KindsAreFamilies == kinds = IF open THEN cfs ELSE {}

(* A power failure loses fewer than BatchSize writes that were answered    *)
(* with Ok, and one more for each removeRange and BatchSize more for each  *)
(* failed batch sync since the last sync, wherever syncs, flushes and      *)
(* restarts fall.                                                          *)
LossBounded == Len(unsynced) < BatchSize + excused

(* No call follows the null txnDb, not after a close that came between the *)
(* argument check and the monitor.                                         *)
CallsFollowNoNull ==
  [][open \/ (\E t \in Threads : req[t] # NoKind) => alive' = alive]_vars

(* Neither does opening a store. *)
NullNeverFollowed == alive

Present(content) == {p \in Kinds \X Keys : content[p[1]][p[2]] # NoValue}

(* A call that was admitted returns. *)
Returns == \E t \in Threads : req[t] # NoKind /\ req'[t] = NoKind

(* The status a call returns tells what it did: an error or NotFound means *)
(* nothing changed; putIfAbsent leaves what is stored, empty values too;   *)
(* updateIfPresent adds no key; a conditional removal takes one key away,  *)
(* or none when it does not say Ok.                                        *)
StatusTellsEffect ==
  [][(Returns \/ data' # data) /\ open /\ open' =>
       LET gone == Present(data) \ Present(data')
           new  == Present(data') \ Present(data)
       IN  /\ last'.status # "Ok" => data' = data
           /\ last'.op = "putIfAbsent" =>
                \A kind \in Kinds, k \in Keys :
                  data[kind][k] \in {NoValue, data'[kind][k]}
           /\ last'.op = "updateIfPresent" => gone = {} /\ new = {}
           /\ last'.op \in {"removeIfPresent", "singleRemoveIfPresent"} =>
                /\ new = {}
                /\ Cardinality(gone) = IF last'.status = "Ok" THEN 1 ELSE 0
    ]_vars

(* What was written is on disk once close has returned: the WAL is synced  *)
(* before the database is deleted.                                         *)
CloseSyncs == ~open => unsynced = << >>
=============================================================================
