------------------------------- MODULE Kueue -------------------------------
(***************************************************************************)
(* KueueImpl: a persistent FIFO queue of messages on top of one Kind       *)
(* (column family) of the store.  Puts run under putLock, takes, reads and *)
(* erases under takeLock; the atomic counter `count` is the only state     *)
(* they share, and the condition variable notEmpty connects them.  Every   *)
(* call into the store is atomic because StoreImpl runs it under its own   *)
(* monitor.                                                                *)
(***************************************************************************)
EXTENDS Integers, FiniteSetsExt

CONSTANTS
  Threads,       (* the client's threads                                    *)
  Calls,         (* which operations each thread calls                      *)
  Values,        (* the messages                                            *)
  Recovered,     (* the key sets the constructor may find in the Kind       *)
  KeyLimit,      (* bound: keys are below it, standing for MAX_KEY          *)
  StoreMayFail,  (* may a store operation end in an error?                  *)
  EraseAnyKey,   (* may erase be called with a key no readNext returned?    *)
  NoThread,      (* the owner of a free mutex                               *)
  NoValue        (* nullptr, and the content of a key that is not stored    *)

TakeOps  == {"take", "takeFor", "takeForZero"}
ReadOps  == {"readNext", "readNextFor"}
TimedOps == {"takeFor", "readNextFor"}
Ops      == TakeOps \cup ReadOps \cup {"put", "erase", "clear"}

Keys  == 0 .. KeyLimit
NoKey == -1

ASSUME KueueAssumption ==
  /\ KeyLimit \in Nat
  /\ Calls \in [Threads -> SUBSET Ops]
  /\ StoreMayFail \in BOOLEAN
  /\ EraseAnyKey \in BOOLEAN
  /\ NoThread \notin Threads
  /\ NoValue \notin Values
  /\ \A keys \in Recovered : \E lo, hi \in Keys : keys = lo .. (hi - 1)

VARIABLES
  db,          (* the Kind: key -> message, NoValue where nothing is stored *)
  isValid,     (* isValid_                                                  *)
  count,       (* the atomic counter                                        *)
  minKey,      (* key of the next message to take                           *)
  maxKey,      (* key of the next message to put                            *)
  totalPuts,
  totalTakes,
  putLock,     (* owner of the mutex                                        *)
  takeLock,    (* owner of the mutex                                        *)
  waiters,     (* threads blocked in notEmpty, not notified yet             *)
  pc,          (* where each thread is                                      *)
  call,        (* the operation it is in                                    *)
  status,      (* the *status it got; for erase, "Ok" is true               *)
  got,         (* the buffer its last take or readNext returned             *)
  key          (* the *pKey of its last readNext, the argument of erase     *)

queueVars  == <<isValid, count, minKey, maxKey, totalPuts, totalTakes>>
lockVars   == <<putLock, takeLock, waiters>>
threadVars == <<pc, call, status, got, key>>
vars       == <<db, queueVars, lockVars, threadVars>>

Labels == {"idle", "put_store", "put_count", "put_signal",
           "to_wait", "wait", "timed_out", "fetch", "removed",
           "erase_lock", "erase_store", "clear_lock", "clear_loop"}

Statuses == {"Ok", "NotFound", "TimedOut", "IOError", "Invalid", "Refused"}

(***************************************************************************)
(* Moving a thread, and ending its call.                                   *)
(***************************************************************************)
Goto(t, label) == pc' = [pc EXCEPT ![t] = label]

Start(t, op, label) ==
  /\ pc[t] = "idle"
  /\ isValid
  /\ op \in Calls[t]
  /\ call' = [call EXCEPT ![t] = op]
  /\ Goto(t, label)

ReturnStatus(t, st) ==
  /\ Goto(t, "idle")
  /\ call' = [call EXCEPT ![t] = "none"]
  /\ status' = [status EXCEPT ![t] = st]

Return(t, st, value) ==
  /\ ReturnStatus(t, st)
  /\ got' = [got EXCEPT ![t] = value]

(***************************************************************************)
(* The store, as the queue uses it.                                        *)
(***************************************************************************)
Stored == {k \in Keys : db[k] # NoValue}

StorePut(k, v) == db' = [db EXCEPT ![k] = v]

StoreSingleRemove(k) == db' = [db EXCEPT ![k] = NoValue]

StoreFails == StoreMayFail /\ UNCHANGED db

(***************************************************************************)
(* The constructor: findMinKey and findMaxKey give the bounds of the keys  *)
(* already stored.                                                         *)
(***************************************************************************)
FindMinKey == IF Stored = {} THEN 0 ELSE Min(Stored)

Construct ==
  LET lastMax == IF Stored = {} THEN 0 ELSE Max(Stored)
      nextKey == IF Stored = {} THEN 0 ELSE lastMax + 1
  IN  /\ minKey = FindMinKey
      /\ maxKey = nextKey
      /\ count = IF lastMax >= minKey THEN maxKey - minKey ELSE 0
      /\ isValid = (lastMax >= minKey /\ count >= 0)

(* A store call of the constructor failed: getOrCreateKind or findMinKey,  *)
(* or only findMaxKey, after minKey was set.                               *)
ConstructFails ==
  /\ StoreMayFail
  /\ minKey \in {0, FindMinKey}
  /\ maxKey = 0
  /\ count = 0
  /\ isValid = FALSE

Init ==
  /\ db \in [Keys -> Values \cup {NoValue}]
  /\ Stored \in Recovered
  /\ Construct \/ ConstructFails
  /\ totalPuts = 0
  /\ totalTakes = 0
  /\ putLock = NoThread
  /\ takeLock = NoThread
  /\ waiters = {}
  /\ pc = [t \in Threads |-> "idle"]
  /\ call = [t \in Threads |-> "none"]
  /\ status = [t \in Threads |-> "Ok"]
  /\ got = [t \in Threads |-> NoValue]
  /\ key = [t \in Threads |-> NoKey]

(* Every call on a queue that is not valid only reports so. *)
RejectInvalid(t) ==
  /\ pc[t] = "idle"
  /\ ~isValid
  /\ \/ /\ Calls[t] \cap (TakeOps \cup ReadOps) # {}
        /\ Return(t, "Invalid", NoValue)
     \/ /\ Calls[t] \cap {"put", "clear"} # {}
        /\ ReturnStatus(t, "Invalid")
        /\ UNCHANGED got
     \/ /\ "erase" \in Calls[t]
        /\ ReturnStatus(t, "Refused")
        /\ UNCHANGED got
  /\ UNCHANGED <<db, queueVars, lockVars, key>>

(***************************************************************************)
(* notEmpty.notify_one()                                                   *)
(***************************************************************************)
NotifyOne ==
  \/ waiters = {} /\ UNCHANGED waiters
  \/ \E w \in waiters : waiters' = waiters \ {w}

(***************************************************************************)
(* put                                                                     *)
(***************************************************************************)
PutLockNotExclusive(t) ==
  /\ Start(t, "put", "put_store")
  /\ maxKey < KeyLimit
  /\ putLock' = t
  /\ maxKey' = maxKey + 1
  /\ UNCHANGED <<db, isValid, count, minKey, totalPuts, totalTakes,
                 takeLock, waiters, status, got, key>>

PutLock(t) ==
  /\ Start(t, "put", "put_store")
  /\ putLock = NoThread
  /\ maxKey < KeyLimit
  /\ putLock' = t
  /\ maxKey' = maxKey + 1
  /\ UNCHANGED <<db, isValid, count, minKey, totalPuts, totalTakes,
                 takeLock, waiters, status, got, key>>

PutStoreNextKey(t) ==
  /\ pc[t] = "put_store"
  /\ \E v \in Values : StorePut(maxKey, v)
  /\ Goto(t, "put_count")
  /\ UNCHANGED <<queueVars, lockVars, call, status, got, key>>

PutStore(t) ==
  /\ pc[t] = "put_store"
  /\ \E v \in Values : StorePut(maxKey - 1, v)
  /\ Goto(t, "put_count")
  /\ UNCHANGED <<queueVars, lockVars, call, status, got, key>>

PutStoreFailsNoRollback(t) ==
  /\ pc[t] = "put_store"
  /\ StoreFails
  /\ putLock' = NoThread
  /\ ReturnStatus(t, "IOError")
  /\ UNCHANGED <<queueVars, takeLock, waiters, got, key>>

PutStoreFails(t) ==
  /\ pc[t] = "put_store"
  /\ StoreFails
  /\ maxKey' = maxKey - 1
  /\ putLock' = NoThread
  /\ ReturnStatus(t, "IOError")
  /\ UNCHANGED <<isValid, count, minKey, totalPuts, totalTakes,
                 takeLock, waiters, got, key>>

PutCount(t) ==
  /\ pc[t] = "put_count"
  /\ count' = count + 1
  /\ totalPuts' = totalPuts + 1
  /\ putLock' = NoThread
  /\ IF count = 0
       THEN Goto(t, "put_signal") /\ UNCHANGED <<call, status>>
       ELSE ReturnStatus(t, "Ok")
  /\ UNCHANGED <<db, isValid, minKey, maxKey, totalTakes,
                 takeLock, waiters, got, key>>

PutSignalUnlocked(t) ==
  /\ pc[t] = "put_signal"
  /\ NotifyOne
  /\ ReturnStatus(t, "Ok")
  /\ UNCHANGED <<db, queueVars, putLock, takeLock, got, key>>

(* signalNotEmpty takes takeLock only to notify. *)
PutSignal(t) ==
  /\ pc[t] = "put_signal"
  /\ takeLock = NoThread
  /\ NotifyOne
  /\ ReturnStatus(t, "Ok")
  /\ UNCHANGED <<db, queueVars, putLock, takeLock, got, key>>

(***************************************************************************)
(* Waiting, common to both takes and to readNext.  take() loops while      *)
(* count is zero, the others wait until it is positive.                    *)
(***************************************************************************)
MustWait(op) == IF op = "take" THEN count = 0 ELSE ~(count > 0)

Enter(t) ==
  /\ takeLock = NoThread
  /\ takeLock' = t
  /\ \E op \in TakeOps \cup ReadOps :
       Start(t, op, IF MustWait(op) THEN "to_wait" ELSE "fetch")
  /\ UNCHANGED <<db, queueVars, putLock, waiters, status, got, key>>

Block(t) ==
  /\ pc[t] = "to_wait"
  /\ takeLock' = NoThread
  /\ waiters' = waiters \cup {t}
  /\ Goto(t, "wait")
  /\ UNCHANGED <<db, queueVars, putLock, call, status, got, key>>

SpuriousWakeup(t) ==
  /\ t \in waiters
  /\ waiters' = waiters \ {t}
  /\ UNCHANGED <<db, queueVars, putLock, takeLock, threadVars>>

ResumeUnchecked(t) ==
  /\ pc[t] = "wait"
  /\ t \notin waiters
  /\ takeLock = NoThread
  /\ takeLock' = t
  /\ Goto(t, "fetch")
  /\ UNCHANGED <<db, queueVars, putLock, waiters, call, status, got, key>>

(* A thread that is no longer in the wait set reacquires takeLock and      *)
(* evaluates its condition again.                                          *)
Resume(t) ==
  /\ pc[t] = "wait"
  /\ t \notin waiters
  /\ takeLock = NoThread
  /\ takeLock' = t
  /\ Goto(t, IF MustWait(call[t]) THEN "to_wait" ELSE "fetch")
  /\ UNCHANGED <<db, queueVars, putLock, waiters, call, status, got, key>>

(* wait_for passes its deadline, possibly just after a notification. *)
Timeout(t) ==
  /\ pc[t] = "wait"
  /\ call[t] \in TimedOps
  /\ waiters' = waiters \ {t}
  /\ Goto(t, "timed_out")
  /\ UNCHANGED <<db, queueVars, putLock, takeLock, call, status, got, key>>

AfterTimeoutWaitsAgain(t) ==
  /\ pc[t] = "timed_out"
  /\ takeLock = NoThread
  /\ takeLock' = t
  /\ Goto(t, IF count > 0 THEN "fetch" ELSE "to_wait")
  /\ UNCHANGED <<db, queueVars, putLock, waiters, call, status, got, key>>

AfterTimeoutKeepsLock(t) ==
  /\ pc[t] = "timed_out"
  /\ takeLock = NoThread
  /\ takeLock' = t
  /\ IF count > 0
       THEN Goto(t, "fetch") /\ UNCHANGED <<call, status, got>>
       ELSE Return(t, "TimedOut", NoValue)
  /\ UNCHANGED <<db, queueVars, putLock, waiters, key>>

(* After the deadline wait_for evaluates its predicate once more. *)
AfterTimeout(t) ==
  /\ pc[t] = "timed_out"
  /\ takeLock = NoThread
  /\ IF count > 0
       THEN /\ takeLock' = t
            /\ Goto(t, "fetch")
            /\ UNCHANGED <<call, status, got>>
       ELSE /\ Return(t, "TimedOut", NoValue)
            /\ UNCHANGED takeLock
  /\ UNCHANGED <<db, queueVars, putLock, waiters, key>>

(***************************************************************************)
(* take: singleRemoveIfPresent(minKey), then the counters.                 *)
(***************************************************************************)
TakeStore(t) ==
  /\ pc[t] = "fetch"
  /\ call[t] \in TakeOps
  /\ db[minKey] # NoValue
  /\ StoreSingleRemove(minKey)
  /\ got' = [got EXCEPT ![t] = db[minKey]]
  /\ Goto(t, "removed")
  /\ UNCHANGED <<queueVars, lockVars, call, status, key>>

(* No such key, or a failing get_, or a failing singleRemove_ after get_   *)
(* had delivered the value: the call returns without notifying anyone.     *)
TakeErrors == (IF db[minKey] = NoValue THEN {"NotFound"} ELSE {})
              \cup (IF StoreMayFail THEN {"IOError"} ELSE {})

TakeStoreFails(t) ==
  /\ pc[t] = "fetch"
  /\ call[t] \in TakeOps
  /\ \E st \in TakeErrors, v \in {NoValue, db[minKey]} : Return(t, st, v)
  /\ takeLock' = NoThread
  /\ UNCHANGED <<db, queueVars, putLock, waiters, key>>

TakeCountSilent(t) ==
  /\ pc[t] = "removed"
  /\ minKey' = minKey + 1
  /\ count' = count - 1
  /\ totalTakes' = totalTakes + 1
  /\ takeLock' = NoThread
  /\ ReturnStatus(t, "Ok")
  /\ UNCHANGED <<db, isValid, maxKey, totalPuts, putLock, waiters, got, key>>

TakeCountNoTotal(t) ==
  /\ pc[t] = "removed"
  /\ minKey' = minKey + 1
  /\ count' = count - 1
  /\ IF count > 1 THEN NotifyOne ELSE UNCHANGED waiters
  /\ takeLock' = NoThread
  /\ ReturnStatus(t, "Ok")
  /\ UNCHANGED <<db, isValid, maxKey, totalPuts, totalTakes, putLock, got, key>>

(* Shared by take and erase: the key is gone from the store. *)
TakeCount(t) ==
  /\ pc[t] = "removed"
  /\ minKey' = minKey + 1
  /\ count' = count - 1
  /\ totalTakes' = totalTakes + 1
  /\ IF count > 1 THEN NotifyOne ELSE UNCHANGED waiters
  /\ takeLock' = NoThread
  /\ ReturnStatus(t, "Ok")
  /\ UNCHANGED <<db, isValid, maxKey, totalPuts, putLock, got, key>>

(***************************************************************************)
(* readNext: get(minKey); the message stays.                               *)
(***************************************************************************)
ReadStore(t) ==
  /\ pc[t] = "fetch"
  /\ call[t] \in ReadOps
  /\ \/ LET found == db[minKey] # NoValue
        IN  /\ Return(t, IF found THEN "Ok" ELSE "NotFound", db[minKey])
            /\ key' = [key EXCEPT ![t] = IF found THEN minKey ELSE @]
     \/ /\ StoreMayFail
        /\ Return(t, "IOError", NoValue)
        /\ UNCHANGED key
  /\ takeLock' = NoThread
  /\ UNCHANGED <<db, queueVars, putLock, waiters>>

(***************************************************************************)
(* erase(key): minKey is compared once without and once with takeLock.     *)
(***************************************************************************)
EraseKeys(t) == IF EraseAnyKey THEN Keys \ {KeyLimit} ELSE {key[t]} \ {NoKey}

EraseCheck(t) ==
  /\ \E k \in EraseKeys(t) :
       /\ k = minKey
       /\ key' = [key EXCEPT ![t] = k]
  /\ Start(t, "erase", "erase_lock")
  /\ UNCHANGED <<db, queueVars, lockVars, status, got>>

EraseRefused(t) ==
  /\ pc[t] = "idle"
  /\ isValid
  /\ "erase" \in Calls[t]
  /\ \E k \in EraseKeys(t) : k # minKey
  /\ ReturnStatus(t, "Refused")
  /\ UNCHANGED <<db, queueVars, lockVars, got, key>>

EraseLockOneCheck(t) ==
  /\ pc[t] = "erase_lock"
  /\ takeLock = NoThread
  /\ takeLock' = t
  /\ Goto(t, "erase_store")
  /\ UNCHANGED <<db, queueVars, putLock, waiters, call, status, got, key>>

(* When the second comparison fails nothing is removed, state is still Ok  *)
(* and the call returns true.                                              *)
EraseLock(t) ==
  /\ pc[t] = "erase_lock"
  /\ takeLock = NoThread
  /\ IF key[t] = minKey
       THEN /\ takeLock' = t
            /\ Goto(t, "erase_store")
            /\ UNCHANGED <<call, status>>
       ELSE /\ ReturnStatus(t, "Ok")
            /\ UNCHANGED takeLock
  /\ UNCHANGED <<db, queueVars, putLock, waiters, got, key>>

EraseStoreUncounted(t) ==
  /\ pc[t] = "erase_store"
  /\ StoreSingleRemove(key[t])
  /\ takeLock' = NoThread
  /\ ReturnStatus(t, "Ok")
  /\ UNCHANGED <<queueVars, putLock, waiters, got, key>>

EraseStore(t) ==
  /\ pc[t] = "erase_store"
  /\ \/ /\ StoreSingleRemove(key[t])
        /\ Goto(t, "removed")
        /\ UNCHANGED <<takeLock, call, status>>
     \/ /\ StoreFails
        /\ takeLock' = NoThread
        /\ ReturnStatus(t, "Refused")
  /\ UNCHANGED <<queueVars, putLock, waiters, got, key>>

(***************************************************************************)
(* clear: both locks, then one singleRemove per message.                   *)
(***************************************************************************)
ClearPutLock(t) ==
  /\ Start(t, "clear", "clear_lock")
  /\ putLock = NoThread
  /\ putLock' = t
  /\ UNCHANGED <<db, queueVars, takeLock, waiters, status, got, key>>

ClearTakeLock(t) ==
  /\ pc[t] = "clear_lock"
  /\ takeLock = NoThread
  /\ takeLock' = t
  /\ Goto(t, "clear_loop")
  /\ UNCHANGED <<db, queueVars, putLock, waiters, call, status, got, key>>

ClearRemoveUnbounded(t) ==
  /\ pc[t] = "clear_loop"
  /\ StoreSingleRemove(minKey)
  /\ minKey' = minKey + 1
  /\ count' = count - 1
  /\ totalTakes' = totalTakes + 1
  /\ status' = [status EXCEPT ![t] = "Ok"]
  /\ UNCHANGED <<isValid, maxKey, totalPuts, lockVars, pc, call, got, key>>

ClearRemove(t) ==
  /\ pc[t] = "clear_loop"
  /\ count > 0
  /\ StoreSingleRemove(minKey)
  /\ minKey' = minKey + 1
  /\ count' = count - 1
  /\ totalTakes' = totalTakes + 1
  /\ status' = [status EXCEPT ![t] = "Ok"]
  /\ UNCHANGED <<isValid, maxKey, totalPuts, lockVars, pc, call, got, key>>

(* The loop ends, or breaks on an error.  clear on an empty queue leaves   *)
(* *status as it was.                                                      *)
ClearEnd(t) ==
  /\ pc[t] = "clear_loop"
  /\ \/ /\ ~(count > 0)
        /\ ReturnStatus(t, status[t])
        /\ UNCHANGED db
     \/ /\ count > 0
        /\ StoreFails
        /\ ReturnStatus(t, "IOError")
  /\ putLock' = NoThread
  /\ takeLock' = NoThread
  /\ UNCHANGED <<queueVars, waiters, got, key>>

-----------------------------------------------------------------------------
PutStep(t)   == \/ PutLock(t) \/ PutStore(t) \/ PutStoreFails(t)
                \/ PutCount(t) \/ PutSignal(t)
WaitStep(t)  == \/ Enter(t) \/ Block(t) \/ SpuriousWakeup(t) \/ Resume(t)
                \/ Timeout(t) \/ AfterTimeout(t)
TakeStep(t)  == \/ TakeStore(t) \/ TakeStoreFails(t) \/ TakeCount(t)
                \/ ReadStore(t)
EraseStep(t) == \/ EraseCheck(t) \/ EraseRefused(t) \/ EraseLock(t)
                \/ EraseStore(t)
ClearStep(t) == \/ ClearPutLock(t) \/ ClearTakeLock(t) \/ ClearRemove(t)
                \/ ClearEnd(t)

Next == \E t \in Threads :
          \/ RejectInvalid(t)
          \/ PutStep(t)
          \/ WaitStep(t)
          \/ TakeStep(t)
          \/ EraseStep(t)
          \/ ClearStep(t)

Spec == Init /\ [][Next]_vars

(***************************************************************************)
(* Fairness.  Starting a call is the client's choice.  A thread in a call  *)
(* keeps running (WF); a thread that asks for takeLock over and over gets  *)
(* it (SF, every holder releases it); the deadline of wait_for is absolute *)
(* and passes (SF).                                                        *)
(***************************************************************************)
Callers(ops) == {t \in Threads : Calls[t] \cap ops # {}}

Running(t)   == \/ PutStore(t) \/ PutStoreFails(t) \/ PutCount(t)
                \/ Block(t)
                \/ TakeStore(t) \/ TakeStoreFails(t) \/ TakeCount(t)
                \/ ReadStore(t) \/ EraseStore(t)
                \/ ClearRemove(t) \/ ClearEnd(t)
Acquiring(t) == \/ PutSignal(t) \/ Resume(t) \/ AfterTimeout(t)
                \/ EraseLock(t) \/ ClearTakeLock(t)

FairSpec ==
  /\ Spec
  /\ \A t \in Threads : WF_vars(Running(t)) /\ SF_vars(Acquiring(t))
  /\ \A t \in Callers(TimedOps) : SF_vars(Timeout(t))

-----------------------------------------------------------------------------
(* Every variable has values of the kind its C++ counterpart can hold. *)
TypeOK ==
  /\ db \in [Keys -> Values \cup {NoValue}]
  /\ isValid \in BOOLEAN
  /\ count \in Int
  /\ minKey \in Keys
  /\ maxKey \in Keys
  /\ totalPuts \in Nat
  /\ totalTakes \in Nat
  /\ putLock \in Threads \cup {NoThread}
  /\ takeLock \in Threads \cup {NoThread}
  /\ waiters \in SUBSET Threads
  /\ pc \in [Threads -> Labels]
  /\ call \in [Threads -> Ops \cup {"none"}]
  /\ status \in [Threads -> Statuses]
  /\ got \in [Threads -> Values \cup {NoValue}]
  /\ key \in [Threads -> Keys \cup {NoKey}]

(***************************************************************************)
(* The calls in flight: at most one thread is past putLock, at most one    *)
(* past takeLock.                                                          *)
(***************************************************************************)
PutAt(labels)  == putLock # NoThread /\ pc[putLock] \in labels
TakeAt(labels) == takeLock # NoThread /\ pc[takeLock] \in labels

(* About to lock takeLock, be it to come back from notEmpty.  (putLock is  *)
(* always the first thing a call locks.)                                   *)
AwaitsTakeLock(t) ==
  \/ pc[t] \in {"put_signal", "timed_out", "erase_lock", "clear_lock"}
  \/ pc[t] = "wait" /\ t \notin waiters

(* Every lock that is held comes free: its holder is inside a call and not *)
(* asleep, the holder of takeLock waits for no lock, and the holder of     *)
(* putLock for none but takeLock.  No threads can wait in a circle.        *)
LocksComeFree ==
  /\ takeLock # NoThread => pc[takeLock] \notin {"idle", "wait"} /\ ~AwaitsTakeLock(takeLock)
  /\ putLock # NoThread => pc[putLock] \notin {"idle", "wait"}

FirstKey == IF TakeAt({"removed"}) THEN minKey + 1 ELSE minKey
EndKey   == IF PutAt({"put_store"}) THEN maxKey - 1 ELSE maxKey

(* The stored keys are exactly the window between minKey and maxKey, with  *)
(* no gap at any point of any interleaving, failed puts included.  The     *)
(* constructor's count = maxKey - minKey relies on it after a restart.     *)
StoredIsWindow == isValid => Stored = FirstKey .. (EndKey - 1)

(* count is "Current number of messages": it differs from the number of    *)
(* stored messages only while a put or a removal is between its store call *)
(* and its counter update.                                                 *)
CountIsMessages ==
  isValid =>
    count = Cardinality(Stored) + (IF TakeAt({"removed"}) THEN 1 ELSE 0)
                                - (IF PutAt({"put_count"}) THEN 1 ELSE 0)

(* count, "Current number of messages", is never negative, whatever keys   *)
(* erase is called with.                                                   *)
CountNotNegative == count >= 0

(* size() is what the constructor found, plus totalPuts(), less            *)
(* totalTakes(), whether messages left by take, erase or clear: taking the *)
(* totals back from count and minKey gives the messages the constructor    *)
(* found and the key of the first.                                         *)
TotalsBalance ==
  LET found == count - totalPuts + totalTakes
      first == minKey - totalTakes
  IN  isValid => /\ first .. (first + found - 1) \in Recovered
                 /\ found > 0 \/ (found = 0 /\ first = 0)

(* A take or readNext that got past its wait finds a message under minKey, *)
(* whatever other threads take, erase or clear: singleRemoveIfPresent and  *)
(* get never answer NotFound.                                              *)
FetchFindsMessage == \A t \in Threads : pc[t] = "fetch" => db[minKey] # NoValue

(* erase removes the message its caller was shown by readNext, not one     *)
(* that moved to the front since.  It is stated for threads that do not    *)
(* take, whose last message is the one they read.                          *)
ErasesWhatWasRead ==
  \A t \in Threads :
    (pc[t] = "erase_store" /\ Calls[t] \cap TakeOps = {} /\ got[t] # NoValue)
      => db[key[t]] = got[t]

(* An erase that returns true leaves its key behind: the caller, or the    *)
(* thread that came between the two comparisons, removed the message.      *)
TrueEraseRemoves ==
  [][\A t \in Threads :
       (call[t] = "erase" /\ call'[t] = "none" /\ status'[t] = "Ok")
         => key[t] < minKey' /\ key[t] \notin Stored']_vars

(* A stored message is never overwritten, so that each key is put once     *)
(* before its SingleDelete, as RocksDB requires.                           *)
NoOverwrite ==
  [][\A k \in Keys : db[k] # NoValue => db'[k] \in {db[k], NoValue}]_vars

(***************************************************************************)
(* Wakeups.                                                                *)
(***************************************************************************)
(* Someone will look at count, or notify, before the queue comes to rest:  *)
(* a put about to signal, a thread woken but not yet holding takeLock, a   *)
(* take in its critical section.                                           *)
Awake(t) ==
  \/ pc[t] \in {"put_signal", "timed_out", "fetch", "removed"}
  \/ pc[t] = "wait" /\ t \notin waiters

(* A take that a failing store ended: its client knows, and takes again. *)
GaveUp(t) ==
  t \in Callers(TakeOps) /\ pc[t] = "idle" /\ status[t] = "IOError"

(* No lost wakeup: while messages are there and threads sleep in notEmpty, *)
(* some thread is on its way to take one or to pass the signal on, or its  *)
(* take was told of an error.                                              *)
NoLostWakeup ==
  (isValid /\ count > 0 /\ waiters # {})
    => \E t \in Threads : Awake(t) \/ GaveUp(t)

(* A take asleep on a queue with messages does not stay so: it is woken,   *)
(* or others take the messages, or fail to.                                *)
SleepingTakeIsWoken ==
  \A t \in Callers(TakeOps) :
    (t \in waiters /\ call[t] \in TakeOps /\ count > 0)
      ~> (t \notin waiters \/ count = 0 \/ \E u \in Threads : GaveUp(u))

(* A take or readNext with a timeout returns. *)
TimedCallReturns ==
  \A t \in Callers(TimedOps) : call[t] \in TimedOps ~> call[t] = "none"

(* A put or a clear returns: neither waits for the other's lock forever. *)
PutAndClearReturn ==
  \A t \in Callers({"put", "clear"}) :
    call[t] \in {"put", "clear"} ~> call[t] = "none"

(***************************************************************************)
(* The queue implements FifoQueue: the abstract sequence is the window of  *)
(* stored messages in key order.                                           *)
(***************************************************************************)
Messages ==
  IF isValid THEN [i \in 1 .. (EndKey - FirstKey) |-> db[FirstKey + i - 1]]
             ELSE << >>

Fifo == INSTANCE FifoQueue WITH q <- Messages

(* Every step of the queue is a step of a FIFO queue, or none: messages    *)
(* leave in the order they came in, each exactly once, and calls that fail *)
(* or time out change nothing.                                             *)
ImplementsFifo == Fifo!Spec

=============================================================================
