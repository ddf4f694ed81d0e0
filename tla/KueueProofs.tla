---------------------------- MODULE KueueProofs ----------------------------
(***************************************************************************)
(* Safety of Kueue for any threads, calls, messages and key limit, for     *)
(* clients that erase only keys readNext gave them, from the invariant of  *)
(* KueueInvariantProofs.  The last part is the handover of wakeups.        *)
(***************************************************************************)
EXTENDS KueueInvariantProofs

(* The operation a thread is in is one it calls, and fits where it is. *)
CallInv ==
  \A t \in Threads :
    /\ call[t] \in Calls[t] \cup {"none"}
    /\ pc[t] \in {"put_store", "put_count", "put_signal"} => call[t] = "put"
    /\ pc[t] \in {"clear_lock", "clear_loop"} => call[t] = "clear"

(* While the message a thread was shown last is in the queue, the thread   *)
(* holds a copy of it.                                                     *)
ReadInv ==
  isValid =>
    \A t \in Threads :
      (Calls[t] \cap TakeOps = {} /\ got[t] # NoValue /\ FirstKey <= key[t])
        => db[key[t]] = got[t]

-----------------------------------------------------------------------------
(* Every step keeps each thread in a call it makes. *)
LEMMA CallStep ==
  ASSUME IInv, CallInv, [Next]_vars
  PROVE  CallInv'
<1> USE KueueAssumption
    DEF IInv, TypeOK, CallInv,
        Goto, Start, ReturnStatus, Return,
        queueVars, lockVars, threadVars
<1>1. CASE UNCHANGED vars
  BY SMTT(30), <1>1 DEF vars
<1>2. ASSUME NEW t \in Threads, RejectInvalid(t) \/ PutStep(t) \/ WaitStep(t)
              \/ TakeStep(t) \/ EraseStep(t) \/ ClearStep(t)
      PROVE  CallInv'
  <2>1. CASE RejectInvalid(t)
    BY <2>1 DEF RejectInvalid
  <2>2. CASE PutLock(t)
    BY <2>2 DEF PutLock
  <2>3. CASE PutStore(t)
    BY <2>3 DEF PutStore, StorePut
  <2>4. CASE PutStoreFails(t)
    BY <2>4 DEF PutStoreFails, StoreFails
  <2>5. CASE PutCount(t)
    BY <2>5 DEF PutCount
  <2>6. CASE PutSignal(t)
    BY <2>6 DEF PutSignal, NotifyOne
  <2>7. CASE Enter(t)
    BY <2>7 DEF Enter, MustWait
  <2>8. CASE Block(t)
    BY <2>8 DEF Block
  <2>9. CASE SpuriousWakeup(t)
    BY <2>9 DEF SpuriousWakeup
  <2>10. CASE Resume(t)
    BY <2>10 DEF Resume, MustWait
  <2>11. CASE Timeout(t)
    BY <2>11 DEF Timeout
  <2>12. CASE AfterTimeout(t)
    BY <2>12 DEF AfterTimeout
  <2>13. CASE TakeStore(t)
    BY <2>13 DEF TakeStore, StoreSingleRemove
  <2>14. CASE TakeStoreFails(t)
    BY <2>14 DEF TakeStoreFails
  <2>15. CASE TakeCount(t)
    BY <2>15 DEF TakeCount, NotifyOne
  <2>16. CASE ReadStore(t)
    BY <2>16 DEF ReadStore
  <2>17. CASE EraseCheck(t)
    BY <2>17 DEF EraseCheck, EraseKeys
  <2>18. CASE EraseRefused(t)
    BY <2>18 DEF EraseRefused
  <2>19. CASE EraseLock(t)
    BY <2>19 DEF EraseLock
  <2>20. CASE EraseStore(t)
    BY <2>20 DEF EraseStore, StoreSingleRemove, StoreFails
  <2>21. CASE ClearPutLock(t)
    BY <2>21 DEF ClearPutLock
  <2>22. CASE ClearTakeLock(t)
    BY <2>22 DEF ClearTakeLock
  <2>23. CASE ClearRemove(t)
    BY <2>23 DEF ClearRemove, StoreSingleRemove
  <2>24. CASE ClearEnd(t)
    BY <2>24 DEF ClearEnd, StoreFails
  <2> QED
    BY Zenon, <1>2, <2>1, <2>2, <2>3, <2>4, <2>5, <2>6, <2>7, <2>8, <2>9, <2>10, <2>11, <2>12,
       <2>13, <2>14, <2>15, <2>16, <2>17, <2>18, <2>19, <2>20, <2>21, <2>22, <2>23, <2>24
       DEF PutStep, WaitStep, TakeStep, EraseStep, ClearStep
<1> QED
  BY <1>1, <1>2 DEF Next

(* Every step keeps the copies of the messages that are still queued. *)
LEMMA ReadStep ==
  ASSUME IInv, ~EraseAnyKey, CallInv, ReadInv, [Next]_vars
  PROVE  ReadInv'
<1> USE KueueAssumption
    DEF IInv, TypeOK, LockInv, PutHeld, TakeHeld, Keys, NoKey, CallInv,
        Goto, Start, ReturnStatus, Return,
        queueVars, lockVars, threadVars,
        CountInv, PutAt, TakeAt, KeyInv, ReadInv, FirstKey
<1>1. CASE UNCHANGED vars
  BY SMTT(30), <1>1 DEF vars
<1>2. ASSUME NEW t \in Threads, RejectInvalid(t) \/ PutStep(t) \/ WaitStep(t)
              \/ TakeStep(t) \/ EraseStep(t) \/ ClearStep(t)
      PROVE  ReadInv'
  <2>1. CASE RejectInvalid(t)
    BY SMTT(30), <2>1 DEF RejectInvalid
  <2>2. CASE PutLock(t)
    BY SMTT(30), <2>2 DEF PutLock
  <2>3. CASE PutStore(t)
    BY SMTT(30), <2>3 DEF PutStore, StorePut
  <2>4. CASE PutStoreFails(t)
    BY SMTT(30), <2>4 DEF PutStoreFails, StoreFails
  <2>5. CASE PutCount(t)
    BY SMTT(30), <2>5 DEF PutCount
  <2>6. CASE PutSignal(t)
    BY SMTT(30), <2>6 DEF PutSignal, NotifyOne
  <2>7. CASE Enter(t)
    BY SMTT(30), <2>7 DEF Enter, MustWait
  <2>8. CASE Block(t)
    BY SMTT(30), <2>8 DEF Block
  <2>9. CASE SpuriousWakeup(t)
    BY SMTT(30), <2>9 DEF SpuriousWakeup
  <2>10. CASE Resume(t)
    BY SMTT(30), <2>10 DEF Resume, MustWait
  <2>11. CASE Timeout(t)
    BY SMTT(30), <2>11 DEF Timeout
  <2>12. CASE AfterTimeout(t)
    BY SMTT(30), <2>12 DEF AfterTimeout
  <2>13. CASE TakeStore(t)
    BY SMTT(30), <2>13 DEF TakeStore, StoreSingleRemove
  <2>14. CASE TakeStoreFails(t)
    BY SMTT(30), <2>14 DEF TakeStoreFails
  <2>15. CASE TakeCount(t)
    BY SMTT(30), <2>15 DEF TakeCount, NotifyOne
  <2>16. CASE ReadStore(t)
    BY SMTT(30), <2>16 DEF ReadStore
  <2>17. CASE EraseCheck(t)
    BY SMTT(30), <2>17 DEF EraseCheck, EraseKeys
  <2>18. CASE EraseRefused(t)
    BY SMTT(30), <2>18 DEF EraseRefused
  <2>19. CASE EraseLock(t)
    BY SMTT(30), <2>19 DEF EraseLock
  <2>20. CASE EraseStore(t)
    BY SMTT(30), <2>20 DEF EraseStore, StoreSingleRemove, StoreFails
  <2>21. CASE ClearPutLock(t)
    BY SMTT(30), <2>21 DEF ClearPutLock
  <2>22. CASE ClearTakeLock(t)
    BY SMTT(30), <2>22 DEF ClearTakeLock
  <2>23. CASE ClearRemove(t)
    BY SMTT(30), <2>23 DEF ClearRemove, StoreSingleRemove
  <2>24. CASE ClearEnd(t)
    BY SMTT(30), <2>24 DEF ClearEnd, StoreFails
  <2> QED
    BY Zenon, <1>2, <2>1, <2>2, <2>3, <2>4, <2>5, <2>6, <2>7, <2>8, <2>9, <2>10, <2>11, <2>12,
       <2>13, <2>14, <2>15, <2>16, <2>17, <2>18, <2>19, <2>20, <2>21, <2>22, <2>23, <2>24
       DEF PutStep, WaitStep, TakeStep, EraseStep, ClearStep
<1> QED
  BY <1>1, <1>2 DEF Next

-----------------------------------------------------------------------------
(* Type correctness, for clients that erase only keys readNext gave them:  *)
(* in particular minKey never runs past the last key put.                  *)
THEOREM TypeCorrect ==
  ASSUME ~EraseAnyKey
  PROVE  Spec => []TypeOK
  BY Invariance, PTL DEF IInv

(* The stored keys are a window without gaps in every interleaving of any  *)
(* number of threads, failing store calls included.                        *)
THEOREM WindowSafe ==
  ASSUME ~EraseAnyKey
  PROVE  Spec => []StoredIsWindow
<1>1. IInv => StoredIsWindow
  BY SMTT(30), KueueAssumption
     DEF IInv, TypeOK, LockInv, CountInv, WindowInv, StoredIsWindow, Stored,
         Keys, FirstKey, EndKey, PutAt, TakeAt
<1> QED
  BY <1>1, Invariance, PTL

(* No threads wait in a circle, however many there are: whoever holds a    *)
(* lock of the queue can go on, or waits for takeLock, whose holder can.   *)
THEOREM LocksSafe ==
  ASSUME ~EraseAnyKey
  PROVE  Spec => []LocksComeFree
<1>1. IInv => LocksComeFree
  BY KueueAssumption
     DEF IInv, TypeOK, LockInv, PutHeld, TakeHeld, LocksComeFree, AwaitsTakeLock
<1> QED
  BY <1>1, Invariance, PTL

(* No take or readNext that passed its wait misses its message.            *)
THEOREM FetchSafe ==
  ASSUME ~EraseAnyKey
  PROVE  Spec => []FetchFindsMessage
<1>1. IInv => FetchFindsMessage
  BY KueueAssumption
     DEF IInv, TypeOK, LockInv, TakeHeld, CountInv, WindowInv, Keys,
         FetchFindsMessage, FirstKey, EndKey, PutAt, TakeAt
<1> QED
  BY <1>1, Invariance, PTL

(* No put overwrites a message: each key is put once before it is removed. *)
THEOREM OverwriteSafe ==
  ASSUME ~EraseAnyKey
  PROVE  Spec => NoOverwrite
<1> DEFINE Kept == \A k \in Keys : db[k] # NoValue => db'[k] \in {db[k], NoValue}
<1>1. IInv /\ [Next]_vars => [Kept]_vars
  <2> SUFFICES ASSUME IInv, NEW t \in Threads,
                      \/ RejectInvalid(t) \/ PutStep(t) \/ WaitStep(t)
                      \/ TakeStep(t) \/ EraseStep(t) \/ ClearStep(t)
               PROVE  Kept
    BY Zenon DEF Next
  <2>1. CASE PutStore(t)
    <3>1. db[maxKey - 1] = NoValue /\ db \in [Keys -> Values \cup {NoValue}]
      BY <2>1, KueueAssumption
         DEF PutStore, IInv, TypeOK, LockInv, PutHeld, CountInv, WindowInv,
             Keys, FirstKey, EndKey, PutAt, TakeAt
    <3> QED
      BY <2>1, <3>1 DEF PutStore, StorePut
  <2>2. CASE db' = db
    BY <2>2
  <2>3. CASE \E k : StoreSingleRemove(k)
    BY SMTT(30), <2>3 DEF StoreSingleRemove, IInv, TypeOK
  <2>4. \/ PutStore(t) \/ db' = db \/ \E k : StoreSingleRemove(k)
    BY Zenon DEF RejectInvalid, PutStep, PutLock, PutStoreFails, PutCount, PutSignal,
           WaitStep, Enter, Block, SpuriousWakeup, Resume, Timeout, AfterTimeout,
           TakeStep, TakeStore, TakeStoreFails, TakeCount, ReadStore,
           EraseStep, EraseCheck, EraseRefused, EraseLock, EraseStore,
           ClearStep, ClearPutLock, ClearTakeLock, ClearRemove, ClearEnd,
           StoreFails
  <2> QED
    BY <2>1, <2>2, <2>3, <2>4
<1> QED
  BY <1>1, Invariance, PTL DEF NoOverwrite, Spec

-----------------------------------------------------------------------------
(* Every thread is in a call it makes. *)
LEMMA CallInvariance ==
  ASSUME ~EraseAnyKey
  PROVE  Spec => []CallInv
<1>1. Init => CallInv
  BY DEF Init, CallInv
<1>2. IInv /\ CallInv /\ [Next]_vars => CallInv'
  BY CallStep
<1> QED
  BY <1>1, <1>2, Invariance, PTL DEF Spec

(* No thread that reads and then erases removes a message it was not       *)
(* shown, however often the front of the queue moved in between.           *)
THEOREM EraseSafe ==
  ASSUME ~EraseAnyKey
  PROVE  Spec => []ErasesWhatWasRead
<1>1. Init => ReadInv
  BY DEF Init, ReadInv
<1>2. IInv /\ CallInv /\ ReadInv /\ [Next]_vars => ReadInv'
  BY ReadStep
<1>3. IInv /\ ReadInv => ErasesWhatWasRead
  BY KueueAssumption
     DEF IInv, TypeOK, LockInv, TakeHeld, KeyInv, ReadInv, ErasesWhatWasRead,
         FirstKey, TakeAt, Keys, NoKey
<1> QED
  BY <1>1, <1>2, <1>3, Invariance, CallInvariance, PTL DEF Spec

(* An erase that returns true leaves its key behind, also when another     *)
(* thread removed the message between its two comparisons.                 *)
THEOREM TrueEraseSafe ==
  ASSUME ~EraseAnyKey
  PROVE  Spec => TrueEraseRemoves
<1> DEFINE Removed ==
      \A t \in Threads :
        (call[t] = "erase" /\ call'[t] = "none" /\ status'[t] = "Ok")
          => key[t] < minKey' /\ key[t] \notin Stored'
<1>1. IInv /\ CallInv /\ [Next]_vars => [Removed]_vars
  <2> SUFFICES ASSUME IInv, CallInv, NEW t \in Threads, NEW u \in Threads,
                      \/ RejectInvalid(u) \/ PutStep(u) \/ WaitStep(u)
                      \/ TakeStep(u) \/ EraseStep(u) \/ ClearStep(u),
                      call[t] = "erase", call'[t] = "none", status'[t] = "Ok"
               PROVE  key[t] < minKey' /\ key[t] \notin Stored'
    BY DEF Next
  <2>1. (EraseLock(t) /\ key[t] # minKey) \/ (TakeCount(t) /\ call[t] = "erase")
    <3> USE KueueAssumption
        DEF IInv, TypeOK, CallInv, Goto, Start, ReturnStatus, Return, threadVars,
            TakeOps, ReadOps, TimedOps
    <3>1. CASE RejectInvalid(u)
      BY <3>1 DEF RejectInvalid
    <3>2. CASE PutStep(u)
      BY Zenon, <3>2 DEF PutStep, PutLock, PutStore, PutStoreFails, PutCount, PutSignal
    <3>3. CASE WaitStep(u)
      BY Zenon, <3>3 DEF WaitStep, Enter, Block, SpuriousWakeup, Resume, Timeout, AfterTimeout
    <3>4. CASE TakeStep(u)
      BY Zenon, <3>4 DEF TakeStep, TakeStore, TakeStoreFails, TakeCount, ReadStore
    <3>5. CASE EraseStep(u)
      BY Zenon, <3>5 DEF EraseStep, EraseCheck, EraseRefused, EraseLock, EraseStore
    <3>6. CASE ClearStep(u)
      BY Zenon, <3>6 DEF ClearStep, ClearPutLock, ClearTakeLock, ClearRemove, ClearEnd
    <3> QED
      BY Zenon, <3>1, <3>2, <3>3, <3>4, <3>5, <3>6
  <2>a. minKey \in Int /\ key[t] \in Int
    <3>1. /\ minKey \in Keys
          /\ key \in [Threads -> Keys \cup {NoKey}]
      BY Zenon DEF IInv, TypeOK
    <3>2. key[t] \in Keys \cup {NoKey}
      BY Zenon, <3>1
    <3>3. Keys \cup {NoKey} \subseteq Int
      BY KueueAssumption DEF Keys, NoKey
    <3> QED
      BY <3>1, <3>2, <3>3
  <2>b. isValid => /\ key[t] <= minKey
                   /\ \A k \in Keys : db[k] # NoValue => FirstKey <= k
    <3>1. isValid => key[t] < minKey \/ key[t] = minKey
      BY Zenon DEF IInv, KeyInv
    <3>2. isValid => \A k \in Keys : db[k] # NoValue => FirstKey <= k
      BY Zenon DEF IInv, WindowInv
    <3>3. key[t] < minKey \/ key[t] = minKey => key[t] <= minKey
      BY <2>a
    <3> QED
      BY Zenon, <3>1, <3>2, <3>3
  <2>2. CASE EraseLock(t) /\ key[t] # minKey
    <3>1. isValid /\ FirstKey \in {minKey, minKey + 1}
      BY Zenon, KueueAssumption, <2>2 DEF EraseLock, IInv, LockInv, FirstKey
    <3>2. minKey' = minKey /\ db' = db
      BY Zenon, <2>2 DEF EraseLock, queueVars
    <3>3. key[t] < minKey
      <4>1. key[t] <= minKey /\ key[t] # minKey
        BY Zenon, <2>2, <2>b, <3>1
      <4> QED
        BY <2>a, <4>1
    <3>4. ~(FirstKey <= key[t])
      BY <2>a, <3>1, <3>3
    <3>5. Stored' = Stored
      BY Zenon, <3>2 DEF Stored
    <3>6. key[t] \notin Stored
      BY Zenon, <2>b, <3>1, <3>4 DEF Stored
    <3> QED
      BY Zenon, <3>2, <3>3, <3>5, <3>6
  <2>3. CASE TakeCount(t)
    <3>1. isValid /\ takeLock = t /\ pc[t] = "removed"
      BY KueueAssumption, <2>3 DEF TakeCount, IInv, LockInv, TakeHeld
    <3>2. FirstKey = minKey + 1
      BY KueueAssumption, <3>1 DEF FirstKey, TakeAt
    <3>3. minKey' = minKey + 1 /\ db' = db
      BY Zenon, <2>3 DEF TakeCount
    <3>4. key[t] < minKey' /\ ~(FirstKey <= key[t])
      <4>1. key[t] <= minKey
        BY Zenon, <2>b, <3>1
      <4>2. key[t] < minKey + 1 /\ ~(minKey + 1 <= key[t])
        BY <2>a, <4>1
      <4> QED
        BY Zenon, <4>2, <3>2, <3>3
    <3>5. Stored' = Stored
      BY Zenon, <3>3 DEF Stored
    <3>6. key[t] \notin Stored
      BY Zenon, <2>b, <3>1, <3>4 DEF Stored
    <3> QED
      BY Zenon, <3>4, <3>5, <3>6
  <2> QED
    BY Zenon, <2>1, <2>2, <2>3
<1> QED
  BY <1>1, Invariance, CallInvariance, PTL DEF TrueEraseRemoves, Spec

(* No step changes isValid_, and count moves with one of the totals, down  *)
(* only in a call and together with minKey.                                *)
LEMMA BalanceStep ==
  ASSUME [Next]_vars
  PROVE  /\ isValid' = isValid
         /\ \/ UNCHANGED <<count, minKey, totalPuts, totalTakes>>
            \/ /\ count' = count + 1 /\ totalPuts' = totalPuts + 1
               /\ UNCHANGED <<minKey, totalTakes>>
            \/ /\ count' = count - 1 /\ totalTakes' = totalTakes + 1
               /\ minKey' = minKey + 1 /\ totalPuts' = totalPuts
               /\ \E t \in Threads : pc[t] = "removed" \/ pc[t] = "clear_loop"
  BY ZenonT(30) DEF Next, vars, queueVars, Start,
         RejectInvalid, PutStep, PutLock, PutStore, PutStoreFails, PutCount, PutSignal,
         WaitStep, Enter, Block, SpuriousWakeup, Resume, Timeout, AfterTimeout,
         TakeStep, TakeStore, TakeStoreFails, TakeCount, ReadStore,
         EraseStep, EraseCheck, EraseRefused, EraseLock, EraseStore,
         ClearStep, ClearPutLock, ClearTakeLock, ClearRemove, ClearEnd

(* Clients that erase only what readNext gave them never see a negative    *)
(* count: nothing else takes it below zero.                                *)
THEOREM CountNeverNegative ==
  ASSUME ~EraseAnyKey
  PROVE  Spec => []CountNotNegative
<1>1. Init => CountNotNegative
  BY InitHolds DEF CountNotNegative
<1>2. IInv /\ IInv' /\ CountNotNegative /\ [Next]_vars => CountNotNegative'
  <2> SUFFICES ASSUME IInv, IInv', CountNotNegative, [Next]_vars PROVE CountNotNegative'
    OBVIOUS
  <2>1. CASE isValid'
    BY <2>1 DEF IInv, CountInv, CountNotNegative
  <2>2. CASE ~isValid'
    <3>1. \A t \in Threads : pc[t] = "idle"
      BY <2>2, BalanceStep DEF IInv, LockInv
    <3>2. count' = count \/ count' = count + 1
      BY <3>1, BalanceStep
    <3> QED
      BY <3>2 DEF IInv, TypeOK, CountNotNegative
  <2> QED
    BY <2>1, <2>2
<1> QED
  BY <1>1, <1>2, Invariance, PTL DEF Spec

-----------------------------------------------------------------------------
(***************************************************************************)
(* No lost wakeup, for any number of producers and takers, when nobody     *)
(* calls readNext: without that assumption the theorem is false, since     *)
(* readNext consumes a notification and passes it to nobody.  So does a    *)
(* take that fails, whose client has the error to act upon.                *)
(***************************************************************************)
NoReaders == \A t \in Threads : Calls[t] \cap ReadOps = {}

(* A thread that takes calls nothing else, so that its last status is the  *)
(* one of a take.                                                          *)
TakersOnlyTake == \A t \in Callers(TakeOps) : Calls[t] \subseteq TakeOps

(* A thread that found the queue empty and has not begun to wait yet is    *)
(* safe from a message put since: that put still has to signal, and cannot *)
(* before the thread waits.                                                *)
SignalPending ==
  (isValid /\ count > 0 /\ \E t \in Threads : pc[t] = "to_wait")
    => \E u \in Threads : pc[u] = "put_signal"

WakeInv == SignalPending /\ NoLostWakeup

-----------------------------------------------------------------------------
(* Every step keeps the pending signal of a put to an empty queue. *)
LEMMA PendingStep ==
  ASSUME IInv, SignalPending, [Next]_vars
  PROVE  SignalPending'
<1> USE KueueAssumption
    DEF Goto, Start, ReturnStatus, Return,
        queueVars, lockVars, threadVars,
        IInv, TypeOK, LockInv, PutHeld, TakeHeld, CountInv, PutAt, TakeAt, Keys,
        SignalPending
<1>1. CASE UNCHANGED vars
  BY SMTT(30), <1>1 DEF vars
<1>2. ASSUME NEW t \in Threads, RejectInvalid(t) \/ PutStep(t) \/ WaitStep(t)
              \/ TakeStep(t) \/ EraseStep(t) \/ ClearStep(t)
      PROVE  SignalPending'
  <2>1. CASE RejectInvalid(t)
    BY <2>1 DEF RejectInvalid
  <2>2. CASE PutLock(t)
    BY <2>2 DEF PutLock
  <2>3. CASE PutStore(t)
    BY <2>3 DEF PutStore
  <2>4. CASE PutStoreFails(t)
    BY <2>4 DEF PutStoreFails, StoreFails
  <2>5. CASE PutCount(t)
    BY <2>5 DEF PutCount
  <2>6. CASE PutSignal(t)
    BY <2>6 DEF PutSignal, NotifyOne
  <2>7. CASE Enter(t)
    BY <2>7 DEF Enter, MustWait
  <2>8. CASE Block(t)
    BY <2>8 DEF Block
  <2>9. CASE SpuriousWakeup(t)
    BY <2>9 DEF SpuriousWakeup
  <2>10. CASE Resume(t)
    BY <2>10 DEF Resume, MustWait
  <2>11. CASE Timeout(t)
    BY <2>11 DEF Timeout
  <2>12. CASE AfterTimeout(t)
    BY <2>12 DEF AfterTimeout
  <2>13. CASE TakeStore(t)
    BY <2>13 DEF TakeStore
  <2>14. CASE TakeStoreFails(t)
    BY <2>14 DEF TakeStoreFails, TakeErrors, FetchFindsMessage
  <2>15. CASE TakeCount(t)
    BY <2>15 DEF TakeCount, NotifyOne
  <2>16. CASE ReadStore(t)
    BY <2>16 DEF ReadStore
  <2>17. CASE EraseCheck(t)
    BY <2>17 DEF EraseCheck
  <2>18. CASE EraseRefused(t)
    BY <2>18 DEF EraseRefused
  <2>19. CASE EraseLock(t)
    BY <2>19 DEF EraseLock
  <2>20. CASE EraseStore(t)
    BY <2>20 DEF EraseStore, StoreFails
  <2>21. CASE ClearPutLock(t)
    BY <2>21 DEF ClearPutLock
  <2>22. CASE ClearTakeLock(t)
    BY <2>22 DEF ClearTakeLock
  <2>23. CASE ClearRemove(t)
    BY <2>23 DEF ClearRemove
  <2>24. CASE ClearEnd(t)
    BY <2>24 DEF ClearEnd, StoreFails
  <2> QED
    BY Zenon, <1>2, <2>1, <2>2, <2>3, <2>4, <2>5, <2>6, <2>7, <2>8, <2>9, <2>10, <2>11, <2>12,
       <2>13, <2>14, <2>15, <2>16, <2>17, <2>18, <2>19, <2>20, <2>21, <2>22, <2>23, <2>24
       DEF PutStep, WaitStep, TakeStep, EraseStep, ClearStep
<1> QED
  BY <1>1, <1>2 DEF Next

(* A thread that puts, erases or clears, which no taker does, and is idle  *)
(* is neither awake nor excused: whoever is, is another thread.            *)
LEMMA IdleCaller ==
  ASSUME NEW t \in Threads, pc[t] = "idle", TakersOnlyTake,
         NEW op \in {"put", "erase", "clear"}, op \in Calls[t]
  PROVE  ~Awake(t) /\ ~GaveUp(t)
<1>1. ~Awake(t)
  BY DEF Awake
<1>2. op \notin TakeOps
  BY DEF TakeOps
<1>3. t \notin Callers(TakeOps)
  BY Zenon, <1>2 DEF TakersOnlyTake
<1> QED
  BY Zenon, <1>1, <1>3 DEF GaveUp

(* Such a call, when it starts, takes nobody's place. *)
LEMMA StartKeepsAwake ==
  ASSUME TypeOK, NoLostWakeup, NEW t \in Threads, TakersOnlyTake,
         NEW op \in {"put", "erase", "clear"}, NEW label, Start(t, op, label),
         UNCHANGED <<isValid, count, waiters, status>>
  PROVE  NoLostWakeup'
<1>1. ~Awake(t) /\ ~GaveUp(t)
  BY IdleCaller DEF Start
<1>2. \A u \in Threads : u # t => pc'[u] = pc[u]
  BY DEF Start, Goto, TypeOK
<1>3. \A u \in Threads : u # t /\ (Awake(u) \/ GaveUp(u)) => Awake(u)' \/ GaveUp(u)'
  BY <1>2 DEF Awake, GaveUp
<1> QED
  BY Zenon, <1>1, <1>3 DEF NoLostWakeup

(* Every step keeps someone awake while messages and sleepers are there. *)
LEMMA WakeStep ==
  ASSUME IInv, CallInv, WakeInv, NoReaders, TakersOnlyTake,
         FetchFindsMessage, [Next]_vars
  PROVE  NoLostWakeup'
<1> USE KueueAssumption
    DEF Goto, Start, ReturnStatus, Return,
        queueVars, lockVars, threadVars,
        IInv, TypeOK, LockInv, PutHeld, TakeHeld, CountInv, PutAt, TakeAt, Keys,
        WakeInv, CallInv, SignalPending, NoLostWakeup, Awake, GaveUp, Callers,
        NoReaders, TakersOnlyTake, ReadOps, TakeOps
<1>1. CASE UNCHANGED vars
  BY SMTT(30), <1>1 DEF vars
<1>2. ASSUME NEW t \in Threads, RejectInvalid(t) \/ PutStep(t) \/ WaitStep(t)
              \/ TakeStep(t) \/ EraseStep(t) \/ ClearStep(t)
      PROVE  NoLostWakeup'
  <2>1. CASE RejectInvalid(t)
    BY <2>1 DEF RejectInvalid
  <2>2. CASE PutLock(t)
    <3>1. Start(t, "put", "put_store") /\ UNCHANGED <<isValid, count, waiters, status>>
      BY Zenon, <2>2 DEF PutLock, queueVars, lockVars
    <3> QED
      BY Zenon, <3>1, StartKeepsAwake DEF IInv, WakeInv
  <2>3. CASE PutStore(t)
    BY <2>3 DEF PutStore
  <2>4. CASE PutStoreFails(t)
    BY <2>4 DEF PutStoreFails, StoreFails
  <2>5. CASE PutCount(t)
    BY <2>5 DEF PutCount
  <2>6. CASE PutSignal(t)
    BY <2>6 DEF PutSignal, NotifyOne
  <2>7. CASE Enter(t)
    BY <2>7 DEF Enter, MustWait
  <2>8. CASE Block(t)
    BY <2>8 DEF Block
  <2>9. CASE SpuriousWakeup(t)
    BY <2>9 DEF SpuriousWakeup
  <2>10. CASE Resume(t)
    BY <2>10 DEF Resume, MustWait
  <2>11. CASE Timeout(t)
    BY <2>11 DEF Timeout
  <2>12. CASE AfterTimeout(t)
    BY <2>12 DEF AfterTimeout
  <2>13. CASE TakeStore(t)
    BY <2>13 DEF TakeStore
  <2>14. CASE TakeStoreFails(t)
    BY <2>14 DEF TakeStoreFails, TakeErrors, FetchFindsMessage
  <2>15. CASE TakeCount(t)
    BY <2>15 DEF TakeCount, NotifyOne
  <2>16. CASE ReadStore(t)
    BY <2>16 DEF ReadStore
  <2>17. CASE EraseCheck(t)
    <3>1. Start(t, "erase", "erase_lock") /\ UNCHANGED <<isValid, count, waiters, status>>
      BY Zenon, <2>17 DEF EraseCheck, queueVars, lockVars
    <3> QED
      BY Zenon, <3>1, StartKeepsAwake DEF IInv, WakeInv
  <2>18. CASE EraseRefused(t)
    BY <2>18 DEF EraseRefused
  <2>19. CASE EraseLock(t)
    BY <2>19 DEF EraseLock
  <2>20. CASE EraseStore(t)
    BY <2>20 DEF EraseStore, StoreFails
  <2>21. CASE ClearPutLock(t)
    <3>1. Start(t, "clear", "clear_lock") /\ UNCHANGED <<isValid, count, waiters, status>>
      BY Zenon, <2>21 DEF ClearPutLock, queueVars, lockVars
    <3> QED
      BY Zenon, <3>1, StartKeepsAwake DEF IInv, WakeInv
  <2>22. CASE ClearTakeLock(t)
    BY <2>22 DEF ClearTakeLock
  <2>23. CASE ClearRemove(t)
    BY <2>23 DEF ClearRemove
  <2>24. CASE ClearEnd(t)
    BY <2>24 DEF ClearEnd, StoreFails
  <2> QED
    BY Zenon, <1>2, <2>1, <2>2, <2>3, <2>4, <2>5, <2>6, <2>7, <2>8, <2>9, <2>10, <2>11, <2>12,
       <2>13, <2>14, <2>15, <2>16, <2>17, <2>18, <2>19, <2>20, <2>21, <2>22, <2>23, <2>24
       DEF PutStep, WaitStep, TakeStep, EraseStep, ClearStep
<1> QED
  BY <1>1, <1>2 DEF Next

-----------------------------------------------------------------------------
(* No lost wakeup: with takers and producers only, while messages are      *)
(* there and takes sleep in notEmpty, some thread is on its way to take    *)
(* one or to pass the signal on, or was told that the store failed.        *)
THEOREM WakeupSafe ==
  ASSUME ~EraseAnyKey, NoReaders, TakersOnlyTake
  PROVE  Spec => []NoLostWakeup
<1>1. Init => WakeInv
  BY DEF Init, WakeInv, SignalPending, NoLostWakeup
<1>2. IInv /\ CallInv /\ FetchFindsMessage /\ WakeInv /\ [Next]_vars => WakeInv'
  BY PendingStep, WakeStep DEF WakeInv
<1>3. WakeInv => NoLostWakeup
  BY DEF WakeInv
<1> QED
  BY <1>1, <1>2, <1>3, Invariance, CallInvariance, FetchSafe, PTL DEF Spec
=============================================================================
