----------------------- MODULE KueueInvariantProofs ------------------------
(***************************************************************************)
(* The inductive invariant of Kueue for any threads, calls, messages and   *)
(* key limit, for clients that erase only keys readNext gave them.         *)
(***************************************************************************)
EXTENDS Kueue, TLAPS

(* Between these labels a thread holds putLock, or takeLock. *)
PutHeld  == {"put_store", "put_count", "clear_lock", "clear_loop"}
TakeHeld == {"to_wait", "fetch", "removed", "erase_store", "clear_loop"}

LockInv ==
  /\ \A t \in Threads : pc[t] \in PutHeld <=> putLock = t
  /\ \A t \in Threads : pc[t] \in TakeHeld <=> takeLock = t
  /\ \A t \in waiters : pc[t] = "wait"
  /\ \A t \in Threads : pc[t] # "idle" => isValid

CountInv ==
  isValid =>
    /\ count = (IF PutAt({"put_store", "put_count"}) THEN maxKey - 1 ELSE maxKey)
                 - minKey
    /\ count >= 0
    /\ TakeAt({"fetch", "removed", "erase_store"}) => count > 0

WindowInv ==
  isValid =>
    \A k \in Keys : db[k] # NoValue <=> (FirstKey <= k /\ k < EndKey)

KeyInv ==
  isValid =>
    \A t \in Threads :
      /\ key[t] < minKey \/ (key[t] = minKey /\ count > 0)
      /\ pc[t] = "erase_store" => key[t] = minKey

IInv == TypeOK /\ LockInv /\ CountInv /\ WindowInv /\ KeyInv

-----------------------------------------------------------------------------
(* Every step keeps the types.  That minKey and maxKey stay in Keys when   *)
(* they are moved rests on CountInv.                                       *)
LEMMA TypeStep ==
  ASSUME IInv, ~EraseAnyKey, [Next]_vars
  PROVE  TypeOK'
<1> USE KueueAssumption
    DEF IInv, TypeOK, Keys, NoKey,
        Goto, Start, ReturnStatus, Return,
           queueVars, lockVars, threadVars,
        Labels, Statuses, Ops, TakeOps, ReadOps
<1>1. CASE UNCHANGED vars
  BY SMTT(30), <1>1 DEF vars
<1>2. ASSUME NEW t \in Threads, RejectInvalid(t) \/ PutStep(t) \/ WaitStep(t)
              \/ TakeStep(t) \/ EraseStep(t) \/ ClearStep(t)
      PROVE  TypeOK'
  <2>1. CASE RejectInvalid(t)
    <3>1. PICK st \in {"Invalid", "Refused"} : ReturnStatus(t, st)
      BY Zenon, <2>1 DEF RejectInvalid
    <3>2. /\ pc' \in [Threads -> Labels]
          /\ call' \in [Threads -> Ops \cup {"none"}]
          /\ status' \in [Threads -> Statuses]
      BY <3>1
    <3>3. got' \in [Threads -> Values \cup {NoValue}]
      BY <2>1 DEF RejectInvalid
    <3> HIDE DEF Labels, Statuses, Ops
    <3> QED
      BY <2>1, <3>2, <3>3 DEF RejectInvalid
  <2>2. CASE PutLock(t)
    BY <2>2 DEF PutLock
  <2>3. CASE PutStore(t)
    BY <2>3 DEF PutStore, StorePut,
                LockInv, PutHeld, TakeHeld, CountInv, PutAt, TakeAt
  <2>4. CASE PutStoreFails(t)
    BY <2>4 DEF PutStoreFails, StoreFails,
                LockInv, PutHeld, TakeHeld, CountInv, PutAt, TakeAt
  <2>5. CASE PutCount(t)
    <3>1. /\ count' \in Int
          /\ totalPuts' \in Nat
          /\ putLock' \in Threads \cup {NoThread}
      BY <2>5 DEF PutCount
    <3>2. /\ pc' \in [Threads -> Labels]
          /\ call' \in [Threads -> Ops \cup {"none"}]
          /\ status' \in [Threads -> Statuses]
      <4>1. CASE count = 0
        BY <2>5, <4>1 DEF PutCount
      <4>2. CASE count # 0
        BY Zenon, <2>5, <4>2 DEF PutCount
      <4> QED
        BY <4>1, <4>2
    <3> HIDE DEF Labels, Statuses, Ops
    <3> QED
      BY <2>5, <3>1, <3>2 DEF PutCount
  <2>6. CASE PutSignal(t)
    BY <2>6 DEF PutSignal, NotifyOne
  <2>7. CASE Enter(t)
    BY <2>7 DEF Enter, MustWait
  <2>8. CASE Block(t)
    BY <2>8 DEF Block
  <2>9. CASE SpuriousWakeup(t)
    BY <2>9 DEF SpuriousWakeup
  <2>10. CASE Resume(t)
    BY <2>10 DEF Resume, MustWait
  <2>11. CASE Timeout(t)
    BY <2>11 DEF Timeout
  <2>12. CASE AfterTimeout(t)
    <3>1. CASE count > 0
      BY <2>12, <3>1 DEF AfterTimeout
    <3>2. CASE ~(count > 0)
      <4>1. Return(t, "TimedOut", NoValue) /\ UNCHANGED takeLock
        BY Zenon, <2>12, <3>2 DEF AfterTimeout
      <4>2. /\ pc' \in [Threads -> Labels]
            /\ call' \in [Threads -> Ops \cup {"none"}]
            /\ status' \in [Threads -> Statuses]
            /\ got' \in [Threads -> Values \cup {NoValue}]
        BY <4>1
      <4> HIDE DEF Labels, Statuses, Ops
      <4> QED
        BY <2>12, <4>1, <4>2 DEF AfterTimeout
    <3> QED
      BY <3>1, <3>2
  <2>13. CASE TakeStore(t)
    <3>1. db' \in [Keys -> Values \cup {NoValue}]
      BY <2>13 DEF TakeStore, StoreSingleRemove
    <3>2. got' \in [Threads -> Values \cup {NoValue}] /\ pc' \in [Threads -> Labels]
      BY <2>13 DEF TakeStore
    <3> HIDE DEF Labels, Statuses, Ops
    <3> QED
      BY <2>13, <3>1, <3>2 DEF TakeStore
  <2>14. CASE TakeStoreFails(t)
    <3> HIDE DEF Return
    <3>1. db[minKey] \in Values \cup {NoValue}
      OBVIOUS
    <3>2. PICK st \in Statuses, v \in Values \cup {NoValue} : Return(t, st, v)
      BY <2>14, <3>1 DEF TakeStoreFails, TakeErrors
    <3>3. key' \in [Threads -> Keys \cup {NoKey}]
      BY <2>14 DEF TakeStoreFails
    <3>4. /\ UNCHANGED <<db, queueVars, putLock, waiters>>
          /\ takeLock' = NoThread
      BY <2>14 DEF TakeStoreFails
    <3> HIDE DEF Statuses
    <3>5. "idle" \in Labels
      OBVIOUS
    <3> QED
      BY Zenon, <3>2, <3>3, <3>4, <3>5 DEF Return
  <2>15. CASE TakeCount(t)
    BY <2>15 DEF TakeCount, NotifyOne,
                LockInv, PutHeld, TakeHeld, CountInv, PutAt, TakeAt
  <2>16. CASE ReadStore(t)
    <3> HIDE DEF Return
    <3>1. db[minKey] \in Values \cup {NoValue}
      OBVIOUS
    <3>2. PICK st \in Statuses, v \in Values \cup {NoValue} : Return(t, st, v)
      BY <2>16, <3>1 DEF ReadStore
    <3>3. key' \in [Threads -> Keys \cup {NoKey}]
      BY <2>16 DEF ReadStore
    <3>4. /\ UNCHANGED <<db, queueVars, putLock, waiters>>
          /\ takeLock' = NoThread
      BY <2>16 DEF ReadStore
    <3> HIDE DEF Statuses
    <3>5. "idle" \in Labels
      OBVIOUS
    <3> QED
      BY Zenon, <3>2, <3>3, <3>4, <3>5 DEF Return
  <2>17. CASE EraseCheck(t)
    BY <2>17 DEF EraseCheck, EraseKeys
  <2>18. CASE EraseRefused(t)
    BY <2>18 DEF EraseRefused
  <2>19. CASE EraseLock(t)
    BY SMTT(30), <2>19 DEF EraseLock
  <2>20. CASE EraseStore(t)
    BY <2>20 DEF EraseStore, StoreSingleRemove, StoreFails
  <2>21. CASE ClearPutLock(t)
    BY <2>21 DEF ClearPutLock
  <2>22. CASE ClearTakeLock(t)
    BY <2>22 DEF ClearTakeLock
  <2>23. CASE ClearRemove(t)
    BY <2>23 DEF ClearRemove, StoreSingleRemove,
                LockInv, PutHeld, TakeHeld, CountInv, PutAt, TakeAt
  <2>24. CASE ClearEnd(t)
    BY Zenon, <2>24 DEF ClearEnd, StoreFails
  <2> QED
    BY Zenon, <1>2, <2>1, <2>2, <2>3, <2>4, <2>5, <2>6, <2>7, <2>8, <2>9, <2>10, <2>11, <2>12,
       <2>13, <2>14, <2>15, <2>16, <2>17, <2>18, <2>19, <2>20, <2>21, <2>22, <2>23, <2>24
       DEF PutStep, WaitStep, TakeStep, EraseStep, ClearStep
<1> QED
  BY <1>1, <1>2 DEF Next

(* Every step keeps the mutexes with the threads that are past them.       *)
LEMMA LockStep ==
  ASSUME IInv, ~EraseAnyKey, [Next]_vars
  PROVE  LockInv'
<1> USE KueueAssumption
    DEF IInv, TypeOK, LockInv, PutHeld, TakeHeld, Keys, NoKey,
        Goto, Start, ReturnStatus, Return,
           queueVars, lockVars, threadVars
<1>1. CASE UNCHANGED vars
  BY <1>1 DEF vars
<1>2. ASSUME NEW t \in Threads, RejectInvalid(t) \/ PutStep(t) \/ WaitStep(t)
              \/ TakeStep(t) \/ EraseStep(t) \/ ClearStep(t)
      PROVE  LockInv'
  <2>1. CASE RejectInvalid(t)
    BY <2>1 DEF RejectInvalid
  <2>2. CASE PutLock(t)
    BY <2>2 DEF PutLock
  <2>3. CASE PutStore(t)
    BY <2>3 DEF PutStore, StorePut
  <2>4. CASE PutStoreFails(t)
    BY <2>4 DEF PutStoreFails, StoreFails
  <2>5. CASE PutCount(t)
    BY <2>5 DEF PutCount
  <2>6. CASE PutSignal(t)
    BY <2>6 DEF PutSignal, NotifyOne
  <2>7. CASE Enter(t)
    BY <2>7 DEF Enter, MustWait
  <2>8. CASE Block(t)
    BY <2>8 DEF Block
  <2>9. CASE SpuriousWakeup(t)
    BY <2>9 DEF SpuriousWakeup
  <2>10. CASE Resume(t)
    BY <2>10 DEF Resume, MustWait
  <2>11. CASE Timeout(t)
    BY <2>11 DEF Timeout
  <2>12. CASE AfterTimeout(t)
    BY <2>12 DEF AfterTimeout
  <2>13. CASE TakeStore(t)
    BY <2>13 DEF TakeStore, StoreSingleRemove
  <2>14. CASE TakeStoreFails(t)
    BY <2>14 DEF TakeStoreFails
  <2>15. CASE TakeCount(t)
    BY <2>15 DEF TakeCount, NotifyOne
  <2>16. CASE ReadStore(t)
    BY SMTT(30), <2>16 DEF ReadStore
  <2>17. CASE EraseCheck(t)
    BY <2>17 DEF EraseCheck, EraseKeys
  <2>18. CASE EraseRefused(t)
    BY <2>18 DEF EraseRefused
  <2>19. CASE EraseLock(t)
    BY <2>19 DEF EraseLock
  <2>20. CASE EraseStore(t)
    BY <2>20 DEF EraseStore, StoreSingleRemove, StoreFails
  <2>21. CASE ClearPutLock(t)
    BY <2>21 DEF ClearPutLock
  <2>22. CASE ClearTakeLock(t)
    BY <2>22 DEF ClearTakeLock
  <2>23. CASE ClearRemove(t)
    BY <2>23 DEF ClearRemove, StoreSingleRemove
  <2>24. CASE ClearEnd(t)
    BY SMTT(30), <2>24 DEF ClearEnd, StoreFails
  <2> QED
    BY Zenon, <1>2, <2>1, <2>2, <2>3, <2>4, <2>5, <2>6, <2>7, <2>8, <2>9, <2>10, <2>11, <2>12,
       <2>13, <2>14, <2>15, <2>16, <2>17, <2>18, <2>19, <2>20, <2>21, <2>22, <2>23, <2>24
       DEF PutStep, WaitStep, TakeStep, EraseStep, ClearStep
<1> QED
  BY <1>1, <1>2 DEF Next

(* Every step keeps count the distance of the keys, and positive while a   *)
(* removal is in its critical section.                                     *)
LEMMA CountStep ==
  ASSUME IInv, ~EraseAnyKey, [Next]_vars
  PROVE  CountInv'
<1> USE KueueAssumption
    DEF IInv, TypeOK, LockInv, PutHeld, TakeHeld, Keys, NoKey,
        Goto, Start, ReturnStatus, Return,
           queueVars, lockVars, threadVars,
        CountInv, PutAt, TakeAt, KeyInv
<1>1. CASE UNCHANGED vars
  BY <1>1 DEF vars
<1>2. ASSUME NEW t \in Threads, RejectInvalid(t) \/ PutStep(t) \/ WaitStep(t)
              \/ TakeStep(t) \/ EraseStep(t) \/ ClearStep(t)
      PROVE  CountInv'
  <2>1. CASE RejectInvalid(t)
    BY <2>1 DEF RejectInvalid
  <2>2. CASE PutLock(t)
    BY <2>2 DEF PutLock
  <2>3. CASE PutStore(t)
    BY <2>3 DEF PutStore, StorePut
  <2>4. CASE PutStoreFails(t)
    BY <2>4 DEF PutStoreFails, StoreFails
  <2>5. CASE PutCount(t)
    BY <2>5 DEF PutCount
  <2>6. CASE PutSignal(t)
    BY <2>6 DEF PutSignal, NotifyOne
  <2>7. CASE Enter(t)
    BY <2>7 DEF Enter, MustWait
  <2>8. CASE Block(t)
    BY <2>8 DEF Block
  <2>9. CASE SpuriousWakeup(t)
    BY <2>9 DEF SpuriousWakeup
  <2>10. CASE Resume(t)
    BY <2>10 DEF Resume, MustWait
  <2>11. CASE Timeout(t)
    BY <2>11 DEF Timeout
  <2>12. CASE AfterTimeout(t)
    BY <2>12 DEF AfterTimeout
  <2>13. CASE TakeStore(t)
    BY <2>13 DEF TakeStore, StoreSingleRemove
  <2>14. CASE TakeStoreFails(t)
    BY <2>14 DEF TakeStoreFails
  <2>15. CASE TakeCount(t)
    BY <2>15 DEF TakeCount, NotifyOne
  <2>16. CASE ReadStore(t)
    BY <2>16 DEF ReadStore
  <2>17. CASE EraseCheck(t)
    BY <2>17 DEF EraseCheck, EraseKeys
  <2>18. CASE EraseRefused(t)
    BY <2>18 DEF EraseRefused
  <2>19. CASE EraseLock(t)
    BY <2>19 DEF EraseLock
  <2>20. CASE EraseStore(t)
    BY <2>20 DEF EraseStore, StoreSingleRemove, StoreFails
  <2>21. CASE ClearPutLock(t)
    BY <2>21 DEF ClearPutLock
  <2>22. CASE ClearTakeLock(t)
    BY <2>22 DEF ClearTakeLock
  <2>23. CASE ClearRemove(t)
    BY <2>23 DEF ClearRemove, StoreSingleRemove
  <2>24. CASE ClearEnd(t)
    BY <2>24 DEF ClearEnd, StoreFails
  <2> QED
    BY Zenon, <1>2, <2>1, <2>2, <2>3, <2>4, <2>5, <2>6, <2>7, <2>8, <2>9, <2>10, <2>11, <2>12,
       <2>13, <2>14, <2>15, <2>16, <2>17, <2>18, <2>19, <2>20, <2>21, <2>22, <2>23, <2>24
       DEF PutStep, WaitStep, TakeStep, EraseStep, ClearStep
<1> QED
  BY <1>1, <1>2 DEF Next

(* Every step keeps the stored keys a window.                              *)
LEMMA WindowStep ==
  ASSUME IInv, ~EraseAnyKey, [Next]_vars
  PROVE  WindowInv'
<1> USE KueueAssumption
    DEF IInv, TypeOK, LockInv, PutHeld, TakeHeld, Keys, NoKey,
        Goto, Start, ReturnStatus, Return,
           queueVars, lockVars, threadVars,
        CountInv, PutAt, TakeAt, WindowInv, KeyInv, FirstKey, EndKey
<1>1. CASE UNCHANGED vars
  BY SMTT(30), <1>1 DEF vars
<1>2. ASSUME NEW t \in Threads, RejectInvalid(t) \/ PutStep(t) \/ WaitStep(t)
              \/ TakeStep(t) \/ EraseStep(t) \/ ClearStep(t)
      PROVE  WindowInv'
  <2>1. CASE RejectInvalid(t)
    BY <2>1 DEF RejectInvalid
  <2>2. CASE PutLock(t)
    BY <2>2 DEF PutLock
  <2>3. CASE PutStore(t)
    BY <2>3 DEF PutStore, StorePut
  <2>4. CASE PutStoreFails(t)
    BY <2>4 DEF PutStoreFails, StoreFails
  <2>5. CASE PutCount(t)
    BY <2>5 DEF PutCount
  <2>6. CASE PutSignal(t)
    BY <2>6 DEF PutSignal, NotifyOne
  <2>7. CASE Enter(t)
    BY <2>7 DEF Enter, MustWait
  <2>8. CASE Block(t)
    BY <2>8 DEF Block
  <2>9. CASE SpuriousWakeup(t)
    BY <2>9 DEF SpuriousWakeup
  <2>10. CASE Resume(t)
    BY <2>10 DEF Resume, MustWait
  <2>11. CASE Timeout(t)
    BY <2>11 DEF Timeout
  <2>12. CASE AfterTimeout(t)
    BY <2>12 DEF AfterTimeout
  <2>13. CASE TakeStore(t)
    BY <2>13 DEF TakeStore, StoreSingleRemove
  <2>14. CASE TakeStoreFails(t)
    BY <2>14 DEF TakeStoreFails
  <2>15. CASE TakeCount(t)
    BY <2>15 DEF TakeCount, NotifyOne
  <2>16. CASE ReadStore(t)
    BY <2>16 DEF ReadStore
  <2>17. CASE EraseCheck(t)
    BY <2>17 DEF EraseCheck, EraseKeys
  <2>18. CASE EraseRefused(t)
    BY <2>18 DEF EraseRefused
  <2>19. CASE EraseLock(t)
    BY <2>19 DEF EraseLock
  <2>20. CASE EraseStore(t)
    BY <2>20 DEF EraseStore, StoreSingleRemove, StoreFails
  <2>21. CASE ClearPutLock(t)
    BY <2>21 DEF ClearPutLock
  <2>22. CASE ClearTakeLock(t)
    BY <2>22 DEF ClearTakeLock
  <2>23. CASE ClearRemove(t)
    BY <2>23 DEF ClearRemove, StoreSingleRemove
  <2>24. CASE ClearEnd(t)
    BY SMTT(30), <2>24 DEF ClearEnd, StoreFails
  <2> QED
    BY Zenon, <1>2, <2>1, <2>2, <2>3, <2>4, <2>5, <2>6, <2>7, <2>8, <2>9, <2>10, <2>11, <2>12,
       <2>13, <2>14, <2>15, <2>16, <2>17, <2>18, <2>19, <2>20, <2>21, <2>22, <2>23, <2>24
       DEF PutStep, WaitStep, TakeStep, EraseStep, ClearStep
<1> QED
  BY <1>1, <1>2 DEF Next

(* Every step keeps the keys readNext gave out at or before minKey.        *)
LEMMA KeyStep ==
  ASSUME IInv, ~EraseAnyKey, [Next]_vars
  PROVE  KeyInv'
<1> USE KueueAssumption
    DEF IInv, TypeOK, LockInv, PutHeld, TakeHeld, Keys, NoKey,
        Goto, Start, ReturnStatus, Return,
           queueVars, lockVars, threadVars,
        CountInv, PutAt, TakeAt, KeyInv
<1>1. CASE UNCHANGED vars
  BY SMTT(30), <1>1 DEF vars
<1>2. ASSUME NEW t \in Threads, RejectInvalid(t) \/ PutStep(t) \/ WaitStep(t)
              \/ TakeStep(t) \/ EraseStep(t) \/ ClearStep(t)
      PROVE  KeyInv'
  <2>1. CASE RejectInvalid(t)
    BY <2>1 DEF RejectInvalid
  <2>2. CASE PutLock(t)
    BY <2>2 DEF PutLock
  <2>3. CASE PutStore(t)
    BY <2>3 DEF PutStore, StorePut
  <2>4. CASE PutStoreFails(t)
    BY <2>4 DEF PutStoreFails, StoreFails
  <2>5. CASE PutCount(t)
    BY <2>5 DEF PutCount
  <2>6. CASE PutSignal(t)
    BY <2>6 DEF PutSignal, NotifyOne
  <2>7. CASE Enter(t)
    BY <2>7 DEF Enter, MustWait
  <2>8. CASE Block(t)
    BY <2>8 DEF Block
  <2>9. CASE SpuriousWakeup(t)
    BY <2>9 DEF SpuriousWakeup
  <2>10. CASE Resume(t)
    BY <2>10 DEF Resume, MustWait
  <2>11. CASE Timeout(t)
    BY <2>11 DEF Timeout
  <2>12. CASE AfterTimeout(t)
    BY <2>12 DEF AfterTimeout
  <2>13. CASE TakeStore(t)
    BY <2>13 DEF TakeStore, StoreSingleRemove
  <2>14. CASE TakeStoreFails(t)
    BY <2>14 DEF TakeStoreFails
  <2>15. CASE TakeCount(t)
    BY <2>15 DEF TakeCount, NotifyOne
  <2>16. CASE ReadStore(t)
    BY <2>16 DEF ReadStore
  <2>17. CASE EraseCheck(t)
    BY <2>17 DEF EraseCheck, EraseKeys
  <2>18. CASE EraseRefused(t)
    BY <2>18 DEF EraseRefused
  <2>19. CASE EraseLock(t)
    BY <2>19 DEF EraseLock
  <2>20. CASE EraseStore(t)
    BY <2>20 DEF EraseStore, StoreSingleRemove, StoreFails
  <2>21. CASE ClearPutLock(t)
    BY <2>21 DEF ClearPutLock
  <2>22. CASE ClearTakeLock(t)
    BY <2>22 DEF ClearTakeLock
  <2>23. CASE ClearRemove(t)
    <3>1. \A u \in Threads : pc[u] # "erase_store"
      BY <2>23 DEF ClearRemove
    <3>2. \A u \in Threads : key[u] < minKey + 1
      BY <2>23 DEF ClearRemove
    <3> QED
      BY <2>23, <3>1, <3>2 DEF ClearRemove
  <2>24. CASE ClearEnd(t)
    BY <2>24 DEF ClearEnd, StoreFails
  <2> QED
    BY Zenon, <1>2, <2>1, <2>2, <2>3, <2>4, <2>5, <2>6, <2>7, <2>8, <2>9, <2>10, <2>11, <2>12,
       <2>13, <2>14, <2>15, <2>16, <2>17, <2>18, <2>19, <2>20, <2>21, <2>22, <2>23, <2>24
       DEF PutStep, WaitStep, TakeStep, EraseStep, ClearStep
<1> QED
  BY <1>1, <1>2 DEF Next

-----------------------------------------------------------------------------
(* The least and the greatest element of an interval, which findMinKey and *)
(* findMaxKey look up in the Kind.                                         *)
LEMMA IntervalBounds ==
  ASSUME NEW lo \in Int, NEW hi \in Int, lo < hi
  PROVE  Min(lo .. (hi - 1)) = lo /\ Max(lo .. (hi - 1)) = hi - 1
<1> DEFINE S == lo .. (hi - 1)
<1>1. lo \in S /\ \A y \in S : lo <= y
  OBVIOUS
<1>2. hi - 1 \in S /\ \A y \in S : hi - 1 >= y
  OBVIOUS
<1>3. Min(S) \in S /\ \A y \in S : Min(S) <= y
  BY Zenon, <1>1 DEF Min
<1>4. Max(S) \in S /\ \A y \in S : Max(S) >= y
  BY <1>2 DEF Max
<1> QED
  BY <1>1, <1>2, <1>3, <1>4

(* The constructor establishes the invariant on a Kind that holds a window *)
(* of keys, and on one it failed to read.                                  *)
LEMMA InitHolds == Init => IInv /\ count >= 0
<1> SUFFICES ASSUME Init PROVE IInv /\ count >= 0
  OBVIOUS
<1> USE KueueAssumption
<1>1. PICK lo, hi \in Keys : Stored = lo .. (hi - 1)
  BY DEF Init
<1>2. FindMinKey \in Keys
  <2>1. CASE Stored = {}
    BY <2>1 DEF FindMinKey, Keys
  <2>2. CASE Stored # {}
    BY <1>1, <2>2, IntervalBounds DEF FindMinKey, Keys
  <2> QED
    BY <2>1, <2>2
<1>3. ASSUME Construct
      PROVE  /\ isValid \in BOOLEAN /\ minKey \in Keys /\ maxKey \in Keys
             /\ count = maxKey - minKey /\ count \in Nat
             /\ Stored = minKey .. (maxKey - 1)
  <2>1. CASE Stored = {}
    <3>1. minKey = 0 /\ maxKey = 0
      BY <1>3, <2>1, Zenon DEF Construct, FindMinKey
    <3>2. count = 0
      BY <1>3, <2>1, <3>1 DEF Construct
    <3> QED
      BY <1>3, <2>1, <3>1, <3>2 DEF Construct, Keys
  <2>2. CASE Stored # {}
    <3>1. lo < hi
      BY <1>1, <2>2 DEF Keys
    <3>2. Min(Stored) = lo /\ Max(Stored) = hi - 1
      BY <1>1, <3>1, IntervalBounds DEF Keys
    <3>3. minKey = lo /\ maxKey = hi - 1 + 1
      BY <1>3, <2>2, <3>2, Zenon DEF Construct, FindMinKey
    <3>4. count = IF hi - 1 >= lo THEN maxKey - minKey ELSE 0
      BY <1>3, <2>2, <3>2, <3>3, Zenon DEF Construct
    <3>5. isValid \in BOOLEAN
      BY <1>3, Zenon DEF Construct
    <3> QED
      BY <1>1, <3>1, <3>3, <3>4, <3>5 DEF Keys
  <2> QED
    BY <2>1, <2>2
<1>4. ASSUME ConstructFails
      PROVE  ~isValid /\ isValid \in BOOLEAN /\ minKey \in Keys /\ maxKey \in Keys
             /\ count \in Nat
  <2>1. ~isValid /\ isValid \in BOOLEAN
    BY <1>4, Zenon DEF ConstructFails
  <2>2. (minKey = 0 \/ minKey = FindMinKey) /\ maxKey = 0 /\ count = 0
    BY <1>4, Zenon DEF ConstructFails
  <2> QED
    BY <1>2, <2>1, <2>2 DEF Keys
<1>5. Construct \/ ConstructFails
  BY DEF Init
<1>6. /\ isValid \in BOOLEAN /\ minKey \in Keys /\ maxKey \in Keys
      /\ count \in Nat
  BY <1>3, <1>4, <1>5
<1>7. isValid => count = maxKey - minKey /\ Stored = minKey .. (maxKey - 1)
  BY <1>3, <1>4, <1>5
<1>8. TypeOK
  BY <1>6 DEF Init, TypeOK, Labels, Statuses
<1>9. LockInv
  BY DEF Init, LockInv, PutHeld, TakeHeld
<1>10. CountInv
  BY <1>6, <1>7 DEF Init, CountInv, PutAt, TakeAt, Keys
<1>11. WindowInv
  BY <1>6, <1>7 DEF Init, WindowInv, PutAt, TakeAt, FirstKey, EndKey, Stored, Keys
<1>12. KeyInv
  BY <1>6 DEF Init, KeyInv, Keys, NoKey
<1> QED
  BY <1>6, <1>8, <1>9, <1>10, <1>11, <1>12 DEF IInv

(* The invariant holds in every reachable state. *)
THEOREM Invariance ==
  ASSUME ~EraseAnyKey
  PROVE  Spec => []IInv
<1>1. Init => IInv
  BY InitHolds
<1>2. IInv /\ [Next]_vars => IInv'
  BY TypeStep, LockStep, CountStep, WindowStep, KeyStep DEF IInv
<1> QED
  BY <1>1, <1>2, PTL DEF Spec
=============================================================================
