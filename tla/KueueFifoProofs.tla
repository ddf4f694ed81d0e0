-------------------------- MODULE KueueFifoProofs --------------------------
(***************************************************************************)
(* The counters of Kueue agree with its content, and Kueue implements      *)
(* FifoQueue, for any threads, calls, messages and key limit, failing      *)
(* store calls included, for clients that erase only keys readNext gave    *)
(* them.                                                                   *)
(***************************************************************************)
EXTENDS KueueProofs, WindowProofs, FiniteSetTheorems

(* The invariant makes count the number of stored messages, put and        *)
(* removals in flight aside.                                               *)
LEMMA CountFact == IInv => CountIsMessages
<1> SUFFICES ASSUME IInv, isValid PROVE CountIsMessages
  BY DEF CountIsMessages
<1> USE KueueAssumption
<1>1. /\ FirstKey \in Int /\ EndKey \in Int /\ FirstKey <= EndKey
      /\ Stored = FirstKey .. (EndKey - 1)
  BY SMTT(30)
     DEF IInv, TypeOK, LockInv, CountInv, WindowInv, Stored,
         Keys, FirstKey, EndKey, PutAt, TakeAt
<1>2. Cardinality(Stored) = EndKey - FirstKey
  BY <1>1, FS_Interval
<1> QED
  BY <1>2 DEF IInv, TypeOK, LockInv, CountInv, CountIsMessages,
              Keys, FirstKey, EndKey, PutAt, TakeAt

(* count is the number of stored messages, whatever calls are in flight    *)
(* and whatever store calls fail.                                          *)
THEOREM CountSafe ==
  ASSUME ~EraseAnyKey
  PROVE  Spec => []CountIsMessages
  BY CountFact, Invariance, PTL

(* size() agrees with the totals and with what the constructor found. *)
THEOREM TotalsSafe ==
  ASSUME ~EraseAnyKey
  PROVE  Spec => []TotalsBalance
<1> DEFINE found == count - totalPuts + totalTakes
           first == minKey - totalTakes
<1>1. Init => TotalsBalance
  <2> SUFFICES ASSUME Init, isValid PROVE TotalsBalance
    BY DEF TotalsBalance
  <2>1. /\ Stored \in Recovered /\ totalPuts = 0 /\ totalTakes = 0
        /\ \A t \in Threads : pc[t] = "idle"
        /\ putLock = NoThread /\ takeLock = NoThread
        /\ Stored = {} => minKey = 0
    BY Zenon DEF Init, Construct, ConstructFails, FindMinKey
  <2>2. /\ count \in Int /\ minKey \in Int /\ count >= 0
        /\ Stored = minKey .. (minKey + count - 1)
    <3>1. /\ FirstKey = minKey /\ EndKey = maxKey /\ minKey \in Int /\ maxKey \in Int
          /\ count \in Int
      BY <2>1, InitHolds, KueueAssumption
         DEF IInv, TypeOK, Keys, FirstKey, EndKey, PutAt, TakeAt
    <3>2. Stored = minKey .. (maxKey - 1) /\ count = maxKey - minKey /\ count >= 0
      BY <2>1, <3>1, InitHolds, KueueAssumption
         DEF IInv, TypeOK, CountInv, WindowInv, Stored, Keys, PutAt, TakeAt
    <3> QED
      BY <3>1, <3>2
  <2>3. found = count /\ first = minKey
    BY <2>1, <2>2
  <2>4. count > 0 \/ (count = 0 /\ minKey = 0)
    BY <2>1, <2>2
  <2> HIDE DEF found, first
  <2>5. /\ first .. (first + found - 1) \in Recovered
        /\ found > 0 \/ (found = 0 /\ first = 0)
    BY Zenon, <2>1, <2>2, <2>3, <2>4
  <2> QED
    BY Zenon, <2>5 DEF TotalsBalance, found, first
<1>2. TypeOK /\ TotalsBalance /\ [Next]_vars => TotalsBalance'
  <2> SUFFICES ASSUME TypeOK, TotalsBalance, [Next]_vars, isValid'
               PROVE  TotalsBalance'
    BY DEF TotalsBalance
  <2>1. count \in Int /\ minKey \in Int /\ totalPuts \in Int /\ totalTakes \in Int
    BY KueueAssumption DEF TypeOK, Keys
  <2>2. found' = found /\ first' = first
    <3>1. CASE UNCHANGED <<count, minKey, totalPuts, totalTakes>>
      BY <3>1
    <3>2. CASE /\ count' = count + 1 /\ totalPuts' = totalPuts + 1
               /\ UNCHANGED <<minKey, totalTakes>>
      BY <2>1, <3>2
    <3>3. CASE /\ count' = count - 1 /\ totalTakes' = totalTakes + 1
               /\ minKey' = minKey + 1 /\ totalPuts' = totalPuts
      BY <2>1, <3>3
    <3> QED
      BY Zenon, <3>1, <3>2, <3>3, BalanceStep
  <2>3. /\ first .. (first + found - 1) \in Recovered
        /\ found > 0 \/ (found = 0 /\ first = 0)
    BY Zenon, BalanceStep DEF TotalsBalance
  <2>4. /\ first' .. (first' + found' - 1) \in Recovered
        /\ found' > 0 \/ (found' = 0 /\ first' = 0)
    <3> HIDE DEF found, first
    <3> QED
      BY Zenon, <2>2, <2>3
  <2> QED
    BY Zenon, <2>4 DEF TotalsBalance
<1> QED
  BY <1>1, <1>2, TypeCorrect, PTL DEF Spec

-----------------------------------------------------------------------------
(* What a step does to the window and to the messages handed out. *)
Hands(v) == \E t \in Threads : got' = [got EXCEPT ![t] = v]

Stays ==
  /\ db' = db /\ FirstKey' = FirstKey /\ EndKey' = EndKey
  /\ \/ got' = got
     \/ Hands(NoValue)
     \/ isValid /\ FirstKey < EndKey /\ Hands(db[FirstKey])

Grows ==
  /\ isValid
  /\ \E v \in Values : db' = [db EXCEPT ![EndKey] = v]
  /\ FirstKey' = FirstKey /\ EndKey' = EndKey + 1 /\ EndKey \in Keys
  /\ got' = got

Shrinks ==
  /\ isValid /\ FirstKey < EndKey
  /\ db' = [db EXCEPT ![FirstKey] = NoValue]
  /\ FirstKey' = FirstKey + 1 /\ EndKey' = EndKey
  /\ got' = got \/ Hands(db[FirstKey])

(* Every step leaves the window, appends to it, or drops its first key. *)
LEMMA WindowChange ==
  ASSUME IInv, FetchFindsMessage, ~EraseAnyKey, [Next]_vars
  PROVE  Stays \/ Grows \/ Shrinks
<1> USE KueueAssumption
    DEF IInv, TypeOK, LockInv, PutHeld, TakeHeld, Keys, NoKey,
        Goto, Start, ReturnStatus, Return,
        queueVars, lockVars, threadVars,
        CountInv, KeyInv, PutAt, TakeAt, FirstKey, EndKey, FetchFindsMessage,
        Stays, Grows, Shrinks, Hands
<1>1. CASE UNCHANGED vars
  BY SMTT(30), <1>1 DEF vars
<1>2. ASSUME NEW t \in Threads, RejectInvalid(t) \/ PutStep(t) \/ WaitStep(t)
              \/ TakeStep(t) \/ EraseStep(t) \/ ClearStep(t)
      PROVE  Stays \/ Grows \/ Shrinks
  <2>1. CASE RejectInvalid(t)
    BY <2>1 DEF RejectInvalid
  <2>2. CASE PutLock(t)
    BY <2>2 DEF PutLock
  <2>3. CASE PutStore(t)
    <3>1. isValid /\ putLock = t /\ pc[t] = "put_store" /\ t # NoThread
      BY <2>3 DEF PutStore
    <3>2. EndKey = maxKey - 1 /\ EndKey \in Keys
      BY <3>1
    <3>3. EndKey' = maxKey
      BY <2>3, <3>1 DEF PutStore
    <3>4. FirstKey' = FirstKey
      BY <2>3, <3>1 DEF PutStore
    <3>5. \E v \in Values : db' = [db EXCEPT ![maxKey - 1] = v]
      BY Zenon, <2>3 DEF PutStore, StorePut
    <3>6. got' = got
      BY <2>3 DEF PutStore
    <3>7. EndKey' = EndKey + 1
      BY <3>2, <3>3
    <3> HIDE DEF EndKey, FirstKey
    <3> QED
      BY Zenon, <3>1, <3>2, <3>4, <3>5, <3>6, <3>7 DEF Grows
  <2>4. CASE PutStoreFails(t)
    BY <2>4 DEF PutStoreFails, StoreFails
  <2>5. CASE PutCount(t)
    BY <2>5 DEF PutCount
  <2>6. CASE PutSignal(t)
    BY <2>6 DEF PutSignal, NotifyOne
  <2>7. CASE Enter(t)
    BY <2>7 DEF Enter, MustWait
  <2>8. CASE Block(t)
    BY <2>8 DEF Block
  <2>9. CASE SpuriousWakeup(t)
    BY <2>9 DEF SpuriousWakeup
  <2>10. CASE Resume(t)
    BY <2>10 DEF Resume, MustWait
  <2>11. CASE Timeout(t)
    BY <2>11 DEF Timeout
  <2>12. CASE AfterTimeout(t)
    BY <2>12 DEF AfterTimeout
  <2>13. CASE TakeStore(t)
    <3>1. isValid /\ takeLock = t /\ pc[t] = "fetch" /\ t # NoThread
      BY <2>13 DEF TakeStore
    <3>2. FirstKey = minKey /\ FirstKey' = minKey + 1
      BY <2>13, <3>1 DEF TakeStore
    <3>3. EndKey' = EndKey
      BY <2>13, <3>1 DEF TakeStore
    <3>4. FirstKey < EndKey
      BY <3>1, <3>2
    <3>5. db' = [db EXCEPT ![minKey] = NoValue] /\ got' = [got EXCEPT ![t] = db[minKey]]
      BY <2>13 DEF TakeStore, StoreSingleRemove
    <3> HIDE DEF EndKey, FirstKey
    <3> QED
      BY Zenon, <3>1, <3>2, <3>3, <3>4, <3>5 DEF Shrinks, Hands
  <2>14. CASE TakeStoreFails(t)
    <3>1. isValid /\ takeLock = t /\ pc[t] = "fetch" /\ t # NoThread
      BY <2>14 DEF TakeStoreFails
    <3>2. FirstKey = minKey /\ FirstKey' = FirstKey /\ EndKey' = EndKey
      BY <2>14, <3>1 DEF TakeStoreFails
    <3>3. FirstKey < EndKey
      BY <3>1, <3>2
    <3>4. PICK v \in {NoValue, db[minKey]} : got' = [got EXCEPT ![t] = v]
      BY Zenon, <2>14 DEF TakeStoreFails
    <3>5. db' = db
      BY <2>14 DEF TakeStoreFails
    <3> HIDE DEF EndKey, FirstKey
    <3> QED
      BY Zenon, <3>1, <3>2, <3>3, <3>4, <3>5 DEF Stays, Hands
  <2>15. CASE TakeCount(t)
    BY <2>15 DEF TakeCount, NotifyOne
  <2>16. CASE ReadStore(t)
    BY <2>16 DEF ReadStore
  <2>17. CASE EraseCheck(t)
    BY SMTT(30), <2>17 DEF EraseCheck, EraseKeys
  <2>18. CASE EraseRefused(t)
    BY SMTT(30), <2>18 DEF EraseRefused
  <2>19. CASE EraseLock(t)
    BY <2>19 DEF EraseLock
  <2>20. CASE EraseStore(t)
    BY SMTT(30), <2>20 DEF EraseStore, StoreSingleRemove, StoreFails
  <2>21. CASE ClearPutLock(t)
    BY SMTT(30), <2>21 DEF ClearPutLock
  <2>22. CASE ClearTakeLock(t)
    BY <2>22 DEF ClearTakeLock
  <2>23. CASE ClearRemove(t)
    <3>1. /\ isValid /\ takeLock = t /\ putLock = t /\ pc[t] = "clear_loop"
          /\ t # NoThread
      BY <2>23 DEF ClearRemove
    <3>2. FirstKey = minKey /\ FirstKey' = minKey + 1
      BY <2>23, <3>1 DEF ClearRemove
    <3>3. EndKey' = EndKey
      BY <2>23, <3>1 DEF ClearRemove
    <3>4. FirstKey < EndKey
      BY SMTT(30), <2>23, <3>1, <3>2 DEF ClearRemove
    <3>5. db' = [db EXCEPT ![minKey] = NoValue] /\ got' = got
      BY SMTT(30), <2>23 DEF ClearRemove, StoreSingleRemove
    <3> HIDE DEF EndKey, FirstKey
    <3> QED
      BY SMTT(30), <3>1, <3>2, <3>3, <3>4, <3>5 DEF Shrinks
  <2>24. CASE ClearEnd(t)
    BY <2>24 DEF ClearEnd, StoreFails
  <2> QED
    BY Zenon, <1>2, <2>1, <2>2, <2>3, <2>4, <2>5, <2>6, <2>7, <2>8, <2>9, <2>10, <2>11, <2>12,
       <2>13, <2>14, <2>15, <2>16, <2>17, <2>18, <2>19, <2>20, <2>21, <2>22, <2>23, <2>24
       DEF PutStep, WaitStep, TakeStep, EraseStep, ClearStep
<1> QED
  BY <1>1, <1>2 DEF Next

-----------------------------------------------------------------------------
(* The refinement. *)

(* On a valid queue the abstract sequence is the window, which is full. *)
LEMMA MessagesFact ==
  ASSUME IInv, isValid
  PROVE  /\ Messages = Window(db, FirstKey, EndKey)
         /\ FirstKey \in Int /\ EndKey \in Int /\ FirstKey <= EndKey
         /\ FirstKey >= 0 /\ EndKey <= KeyLimit
         /\ Filled(db, FirstKey, EndKey, Values)
<1> USE KueueAssumption
<1>1. Messages = Window(db, FirstKey, EndKey)
  BY DEF Messages, Window
<1>2. /\ FirstKey \in Int /\ EndKey \in Int /\ FirstKey <= EndKey
      /\ FirstKey >= 0 /\ EndKey <= KeyLimit
  BY DEF IInv, TypeOK, LockInv, CountInv, Keys, FirstKey, EndKey, PutAt, TakeAt
<1>3. ASSUME NEW k \in FirstKey .. (EndKey - 1) PROVE db[k] \in Values
  <2>1. k \in Keys /\ FirstKey <= k /\ k < EndKey
    BY <1>2 DEF Keys
  <2> QED
    BY <2>1 DEF IInv, TypeOK, WindowInv
<1> QED
  BY <1>1, <1>2, <1>3 DEF Filled

(* The constructor starts with a sequence of messages. *)
LEMMA FifoInit == Init => Fifo!Init
<1> SUFFICES ASSUME Init PROVE Fifo!Init
  OBVIOUS
<1>1. IInv
  BY InitHolds
<1>2. Messages \in Seq(Values)
  <2>1. CASE isValid
    BY <1>1, <2>1, MessagesFact, WindowSeq
  <2>2. CASE ~isValid
    BY <2>2 DEF Messages
  <2> QED
    BY <2>1, <2>2
<1> QED
  BY <1>2 DEF Init, Fifo!Init

(* Every step is a step of the FIFO queue, or none. *)
LEMMA FifoStep ==
  ASSUME IInv, IInv', FetchFindsMessage, ~EraseAnyKey, [Next]_vars
  PROVE  Fifo!Next \/ (Messages' = Messages /\ got' = got)
<1> USE KueueAssumption
<1>0. isValid' = isValid
  BY BalanceStep
<1>1. CASE Stays
  <2>1. Messages' = Messages
    BY <1>0, <1>1 DEF Stays, Messages
  <2>2. ASSUME isValid, FirstKey < EndKey
        PROVE  Messages # << >> /\ Head(Messages) = db[FirstKey]
    <3>1. Agree(db, db, FirstKey + 1, EndKey)
      BY DEF Agree
    <3> QED
      BY <2>2, <3>1, MessagesFact, WindowTail
  <2>3. CASE got' = got
    BY <2>1, <2>3
  <2>4. CASE Hands(NoValue)
    BY Zenon, <2>1, <2>4 DEF Hands, Fifo!Next, Fifo!Nothing, Fifo!Hand
  <2>5. CASE isValid /\ FirstKey < EndKey /\ Hands(db[FirstKey])
    BY Zenon, <2>1, <2>2, <2>5 DEF Hands, Fifo!Next, Fifo!Peek, Fifo!Hand
  <2> QED
    BY <1>1, <2>3, <2>4, <2>5 DEF Stays
<1>2. CASE Grows
  <2>1. PICK v \in Values : db' = [db EXCEPT ![EndKey] = v]
    BY Zenon, <1>2 DEF Grows
  <2>2. isValid /\ isValid' /\ FirstKey' = FirstKey /\ EndKey' = EndKey + 1
        /\ EndKey \in Keys /\ got' = got
    BY <1>0, <1>2 DEF Grows
  <2>3. Messages' = Window(db', FirstKey, EndKey + 1)
    BY <2>2 DEF Messages, Window
  <2>4. db'[EndKey] = v
    BY <2>1, <2>2 DEF IInv, TypeOK
  <2>5. Agree(db, db', FirstKey, EndKey)
    <3> SUFFICES ASSUME NEW k \in FirstKey .. (EndKey - 1) PROVE db'[k] = db[k]
      BY DEF Agree
    <3>1. k \in Keys /\ k # EndKey
      BY <2>2, MessagesFact DEF Keys
    <3> QED
      BY <2>1, <3>1 DEF IInv, TypeOK
  <2>6. Messages' = Append(Messages, v)
    BY <2>2, <2>3, <2>4, <2>5, MessagesFact, WindowAppend
  <2> QED
    BY <2>2, <2>6 DEF Fifo!Next, Fifo!Put
<1>3. CASE Shrinks
  <2>1. /\ isValid /\ isValid' /\ FirstKey < EndKey
        /\ FirstKey' = FirstKey + 1 /\ EndKey' = EndKey
        /\ db' = [db EXCEPT ![FirstKey] = NoValue]
    BY <1>0, <1>3 DEF Shrinks
  <2>2. Messages' = Window(db', FirstKey + 1, EndKey)
    BY <2>1 DEF Messages, Window
  <2>3. Agree(db, db', FirstKey + 1, EndKey)
    <3> SUFFICES ASSUME NEW k \in (FirstKey + 1) .. (EndKey - 1) PROVE db'[k] = db[k]
      BY DEF Agree
    <3>1. k \in Keys /\ k # FirstKey
      BY <2>1, MessagesFact DEF Keys
    <3> QED
      BY <2>1, <3>1 DEF IInv, TypeOK
  <2>4. Messages # << >> /\ Head(Messages) = db[FirstKey] /\ Messages' = Tail(Messages)
    <3> DEFINE w == Window(db, FirstKey, EndKey)
    <3>1. /\ Messages = w /\ FirstKey \in Int /\ EndKey \in Int /\ FirstKey < EndKey
          /\ Filled(db, FirstKey, EndKey, Values)
      BY <2>1, MessagesFact
    <3>2. /\ w # << >> /\ Head(w) = db[FirstKey]
          /\ Window(db', FirstKey + 1, EndKey) = Tail(w)
      BY <2>3, <3>1, WindowTail
    <3> HIDE DEF w
    <3> QED
      BY <2>2, <3>1, <3>2
  <2>5. CASE got' = got
    BY <2>4, <2>5 DEF Fifo!Next, Fifo!Drop
  <2>6. CASE Hands(db[FirstKey])
    BY Zenon, <2>4, <2>6 DEF Hands, Fifo!Next, Fifo!Take, Fifo!Hand
  <2> QED
    BY <1>3, <2>5, <2>6 DEF Shrinks
<1> QED
  BY <1>1, <1>2, <1>3, WindowChange

(* KueueImpl is a FIFO queue: in every interleaving of any number of       *)
(* threads messages leave in the order of their puts, each exactly once,   *)
(* and calls that fail or time out change nothing.                         *)
THEOREM KueueRefinesFifo ==
  ASSUME ~EraseAnyKey
  PROVE  Spec => ImplementsFifo
<1>1. Init => Fifo!Init
  BY FifoInit
<1>2. IInv /\ IInv' /\ FetchFindsMessage /\ [Next]_vars => [Fifo!Next]_<<Messages, got>>
  BY FifoStep
<1> QED
  BY <1>1, <1>2, Invariance, FetchSafe, PTL DEF Spec, ImplementsFifo, Fifo!Spec, Fifo!vars
=============================================================================
