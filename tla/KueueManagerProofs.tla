------------------------ MODULE KueueManagerProofs ------------------------
(***************************************************************************)
(* Safety of KueueManager for any number of threads, identifiers and       *)
(* queue objects.                                                          *)
(***************************************************************************)
EXTENDS KueueManager, TLAPS

(* Between these labels a thread holds the monitor; at the first group the *)
(* store is there as well.                                                 *)
StoreUsers == {"get_new", "close_queues", "close_store", "compactAll", "syncWal"}
Held       == StoreUsers \cup {"close_null"}

MonitorInv ==
  /\ \A t \in Threads : pc[t] \in Held => monitor = t
  /\ ~mgr => \A t \in Threads : pc[t] = "idle"

StoreInv ==
  /\ \A t \in Threads : pc[t] \in StoreUsers => store
  /\ store /\ storeMem # "live" => \E t \in Threads : pc[t] = "close_null"
  /\ \A t \in Threads : pc[t] = "close_null" => storeMem # "live"
  /\ ~store => storeMem # "live"
  /\ ~mgr => ~store

(* The live queues are the mapped ones, under their own identifiers, until *)
(* close has deleted them.                                                 *)
MapInv ==
  /\ \A q \in live : id[q] \in Ids /\ queues[id[q]] = q
  /\ \A i \in Ids : queues[i] # NoQueue =>
       \/ queues[i] \in live
       \/ \E t \in Threads : pc[t] = "close_store"
  /\ \A t \in Threads : pc[t] \in {"close_store", "close_null"} => live = {}
  /\ ~store => live = {} /\ \A i \in Ids : queues[i] = NoQueue
  /\ \A t \in Threads : pc[t] = "get_new" => arg[t] \in Ids /\ queues[arg[t]] = NoQueue
  /\ \A q \in Queues : id[q] = NoId => q \notin live \cup valid

(* Whether or not a queue is open, the keys of its Kind have no gap. *)
WindowInv ==
  /\ \A i \in Ids : \E lo, hi \in Keys : lo <= hi /\ stored[i] = lo .. (hi - 1)
  /\ \A q \in live \cap valid : minKey[q] <= maxKey[q]
  /\ BoundsAgree

MInv == TypeOK /\ MonitorInv /\ StoreInv /\ MapInv /\ WindowInv

-----------------------------------------------------------------------------
(* Min and Max of the keys between two bounds. *)
LEMMA IntervalBounds ==
  ASSUME NEW lo \in Int, NEW hi \in Int, lo < hi
  PROVE  Min(lo .. (hi - 1)) = lo /\ Max(lo .. (hi - 1)) = hi - 1
<1> DEFINE S == lo .. (hi - 1)
<1>1. \E x \in S : \A y \in S : x <= y
  <2>1. lo \in S
    OBVIOUS
  <2> QED
    BY <2>1
<1>2. \E x \in S : \A y \in S : x >= y
  <2>1. hi - 1 \in S
    OBVIOUS
  <2> QED
    BY <2>1
<1>3. Min(S) \in S /\ \A y \in S : Min(S) <= y
  BY <1>1 DEF Min
<1>4. Max(S) \in S /\ \A y \in S : Max(S) >= y
  BY <1>2 DEF Max
<1>5. lo \in S /\ hi - 1 \in S
  OBVIOUS
<1> QED
  BY <1>3, <1>4, <1>5

(* The constructor's bounds are keys, and enclose what is stored. *)
LEMMA ConstructBounds ==
  ASSUME TypeOK, WindowInv, NEW i \in Ids
  PROVE  LET lo == IF stored[i] = {} THEN 0 ELSE Min(stored[i])
             hi == IF stored[i] = {} THEN 0 ELSE Max(stored[i]) + 1
         IN  lo \in Keys /\ hi \in Keys /\ lo <= hi /\ stored[i] = lo .. (hi - 1)
<1> USE ManagerAssumption DEF Keys
<1>1. PICK lo, hi \in Keys : lo <= hi /\ stored[i] = lo .. (hi - 1)
  BY DEF WindowInv
<1>2. CASE lo = hi
  BY <1>1, <1>2
<1>3. CASE lo < hi
  <2>1. Min(stored[i]) = lo /\ Max(stored[i]) = hi - 1
    BY <1>1, <1>3, IntervalBounds
  <2>2. lo \in lo .. (hi - 1)
    BY <1>3
  <2> QED
    BY <1>1, <2>1, <2>2
<1>4. lo = hi \/ lo < hi
  BY <1>1
<1> QED
  BY <1>2, <1>3, <1>4

(* Every step keeps the types. *)
LEMMA TypeStep ==
  ASSUME MInv, [Next]_vars
  PROVE  TypeOK'
<1> USE ManagerAssumption DEF Goto, ownVars, objVars, clientVars, ghostVars,
        MInv, TypeOK, Keys, Labels, MonitorCalls
<1>1. CASE UNCHANGED vars
  BY <1>1 DEF vars
<1>2. CASE Open
  BY <1>2 DEF Open
<1>3. CASE OpenFails
  BY <1>3 DEF OpenFails, FailedOpen
<1>4. CASE Destroy
  <2>1. CASE store
    <3>1. live' \in SUBSET Queues /\ twice' \in SUBSET Queues
      BY <1>4, <2>1 DEF Destroy, DeleteQueues, Mapped
    <3> QED
      BY Zenon, <1>4, <2>1, <3>1 DEF Destroy, UseStore
  <2>2. CASE ~store
    BY Zenon, <1>4, <2>2 DEF Destroy
  <2> QED
    BY <2>1, <2>2
<1>5. ASSUME NEW t \in Threads, ManagerStep(t) \/ QueueStep(t)
      PROVE  TypeOK'
  <2>1. CASE GetFound(t)
    BY Zenon, <2>1 DEF GetFound, UseStore
  <2>2. CASE Get(t)
    BY <2>2 DEF Get, NotFound, Lock, UseStore
  <2>3. CASE GetNew(t)
    <3> DEFINE i  == arg[t]
               lo == IF stored[i] = {} THEN 0 ELSE Min(stored[i])
               hi == IF stored[i] = {} THEN 0 ELSE Max(stored[i]) + 1
    <3>1. i \in Ids
      BY <2>3 DEF GetNew, MakeQueue, MapInv
    <3>2. lo \in Keys /\ hi \in Keys /\ lo <= hi /\ stored[i] = lo .. (hi - 1)
      BY Zenon, <3>1, ConstructBounds
    <3> HIDE DEF lo, hi, i
    <3>3. PICK q \in Queues :
            /\ id[q] = NoId
            /\ id' = [id EXCEPT ![q] = i]
            /\ live' = live \cup {q}
            /\ handle' = [handle EXCEPT ![t] = q]
            /\ queues' = [queues EXCEPT ![i] = q]
            /\ \/ /\ valid' = valid \cup {q}
                  /\ minKey' = [minKey EXCEPT ![q] = lo]
                  /\ maxKey' = [maxKey EXCEPT ![q] = hi]
               \/ /\ \E k \in {0, lo} : minKey' = [minKey EXCEPT ![q] = k]
                  /\ UNCHANGED <<valid, maxKey>>
      BY Zenon, <2>3 DEF GetNew, MakeQueue, Construct, i, lo, hi
    <3>4. valid' \in SUBSET Queues
      BY <3>3
    <3>5. maxKey' \in [Queues -> Keys]
      <4>1. maxKey' = [maxKey EXCEPT ![q] = hi] \/ maxKey' = maxKey
        BY Zenon, <3>3
      <4> QED
        BY Zenon, <3>2, <4>1
    <3>6. minKey' \in [Queues -> Keys]
      <4>1. 0 \in Keys /\ lo \in Keys
        BY <3>2
      <4>2. \E k \in {0, lo} : minKey' = [minKey EXCEPT ![q] = k]
        BY Zenon, <3>3
      <4>3. PICK k \in Keys : minKey' = [minKey EXCEPT ![q] = k]
        BY Zenon, <4>1, <4>2
      <4> QED
        BY <4>3
    <3>7. /\ pc' \in [Threads -> Labels]
          /\ arg' \in [Threads -> Ids \cup {NoId}]
          /\ monitor' \in Threads \cup {NoThread}
          /\ dangling' \in SUBSET (MonitorCalls \cup {"isOpen", "queue"})
          /\ UNCHANGED <<mgr, store, storeMem, stored, twice>>
      BY <2>3 DEF GetNew, MakeQueue, UseStore, Unlock
    <3>8. /\ queues' \in [Ids -> Queues \cup {NoQueue}]
          /\ id' \in [Queues -> Ids \cup {NoId}]
          /\ live' \in SUBSET Queues
          /\ handle' \in [Threads -> Queues \cup {NoQueue}]
      BY <3>1, <3>3
    <3> QED
      BY <3>4, <3>5, <3>6, <3>7, <3>8
  <2>4. CASE Close(t)
    BY <2>4 DEF Close, StartClose, Lock, UseStore
  <2>5. CASE CloseQueues(t)
    BY <2>5 DEF CloseQueues, DeleteQueues, Mapped
  <2>6. CASE CloseStore(t)
    BY <2>6 DEF CloseStore, UseStore
  <2>7. CASE CloseNull(t)
    BY Zenon, <2>7 DEF CloseNull, EndClose, Unlock
  <2>8. CASE Admin(t)
    BY <2>8 DEF Admin, Lock, UseStore
  <2>9. CASE AdminStore(t)
    BY Zenon, <2>9 DEF AdminStore, UseStore, Unlock
  <2>10. CASE IsOpen(t)
    BY <2>10 DEF IsOpen
  <2>11. CASE IsOpenStore(t)
    BY <2>11 DEF IsOpenStore, UseStore
  <2>12. CASE QueueDeleted(t)
    BY <2>12 DEF QueueDeleted
  <2>13. CASE Put(t)
    BY <2>13 DEF Put, MapInv
  <2>14. CASE TakeWaits(t)
    BY <2>14 DEF TakeWaits
  <2>15. CASE Take(t)
    BY <2>15 DEF Take, TakeFirst, MapInv
  <2> QED
    BY Zenon, <1>5, <2>1, <2>2, <2>3, <2>4, <2>5, <2>6, <2>7, <2>8, <2>9, <2>10, <2>11, <2>12, <2>13, <2>14, <2>15
       DEF ManagerStep, QueueStep
<1> QED
  BY <1>1, <1>2, <1>3, <1>4, <1>5 DEF Next

(* One thread at a time is between the locking and the unlocking of the    *)
(* monitor.                                                                *)
LEMMA MonitorStep ==
  ASSUME MInv, [Next]_vars
  PROVE  MonitorInv'
<1> USE ManagerAssumption DEF Goto, ownVars, objVars, clientVars, ghostVars,
        MInv, TypeOK, MonitorInv, Held, StoreUsers
<1>1. CASE UNCHANGED vars
  BY <1>1 DEF vars
<1>2. CASE Open
  BY <1>2 DEF Open
<1>3. CASE OpenFails
  BY <1>3 DEF OpenFails, FailedOpen
<1>4. CASE Destroy
  BY SMTT(30), <1>4 DEF Destroy, DeleteQueues, Mapped, UseStore
<1>5. ASSUME NEW t \in Threads, ManagerStep(t) \/ QueueStep(t)
      PROVE  MonitorInv'
  <2>1. CASE GetFound(t)
    BY <2>1 DEF GetFound, UseStore
  <2>2. CASE Get(t)
    BY <2>2 DEF Get, NotFound, Lock, UseStore
  <2>3. CASE GetNew(t)
    BY <2>3 DEF GetNew, MakeQueue, Construct, UseStore, Unlock
  <2>4. CASE Close(t)
    BY <2>4 DEF Close, StartClose, Lock, UseStore
  <2>5. CASE CloseQueues(t)
    BY <2>5 DEF CloseQueues, DeleteQueues, Mapped
  <2>6. CASE CloseStore(t)
    BY <2>6 DEF CloseStore, UseStore
  <2>7. CASE CloseNull(t)
    BY <2>7 DEF CloseNull, EndClose, Unlock
  <2>8. CASE Admin(t)
    BY <2>8 DEF Admin, Lock, UseStore
  <2>9. CASE AdminStore(t)
    BY <2>9 DEF AdminStore, UseStore, Unlock
  <2>10. CASE IsOpen(t)
    BY <2>10 DEF IsOpen
  <2>11. CASE IsOpenStore(t)
    BY <2>11 DEF IsOpenStore, UseStore
  <2>12. CASE QueueDeleted(t)
    BY <2>12 DEF QueueDeleted
  <2>13. CASE Put(t)
    BY <2>13 DEF Put
  <2>14. CASE TakeWaits(t)
    BY <2>14 DEF TakeWaits, MapInv, StoreInv
  <2>15. CASE Take(t)
    BY <2>15 DEF Take, TakeFirst
  <2> QED
    BY <1>5, <2>1, <2>2, <2>3, <2>4, <2>5, <2>6, <2>7, <2>8, <2>9, <2>10, <2>11, <2>12, <2>13, <2>14, <2>15
       DEF ManagerStep, QueueStep
<1> QED
  BY <1>1, <1>2, <1>3, <1>4, <1>5 DEF Next

(* The pointer to the store is followed only while the store is there. *)
LEMMA StoreStep ==
  ASSUME MInv, [Next]_vars
  PROVE  StoreInv'
<1> USE ManagerAssumption DEF Goto, ownVars, objVars, clientVars, ghostVars,
        MInv, TypeOK, MonitorInv, StoreInv, Held, StoreUsers
<1>1. CASE UNCHANGED vars
  BY <1>1 DEF vars
<1>2. CASE Open
  BY <1>2 DEF Open
<1>3. CASE OpenFails
  BY <1>3 DEF OpenFails, FailedOpen
<1>4. CASE Destroy
  BY SMTT(30), <1>4 DEF Destroy, DeleteQueues, Mapped, UseStore
<1>5. ASSUME NEW t \in Threads, ManagerStep(t) \/ QueueStep(t)
      PROVE  StoreInv'
  <2>1. CASE GetFound(t)
    BY <2>1 DEF GetFound, UseStore
  <2>2. CASE Get(t)
    BY <2>2 DEF Get, NotFound, Lock, UseStore
  <2>3. CASE GetNew(t)
    BY <2>3 DEF GetNew, MakeQueue, Construct, UseStore, Unlock
  <2>4. CASE Close(t)
    BY <2>4 DEF Close, StartClose, Lock, UseStore
  <2>5. CASE CloseQueues(t)
    BY <2>5 DEF CloseQueues, DeleteQueues, Mapped
  <2>6. CASE CloseStore(t)
    BY <2>6 DEF CloseStore, UseStore
  <2>7. CASE CloseNull(t)
    BY <2>7 DEF CloseNull, EndClose, Unlock
  <2>8. CASE Admin(t)
    BY <2>8 DEF Admin, Lock, UseStore
  <2>9. CASE AdminStore(t)
    BY <2>9 DEF AdminStore, UseStore, Unlock
  <2>10. CASE IsOpen(t)
    BY <2>10 DEF IsOpen
  <2>11. CASE IsOpenStore(t)
    BY <2>11 DEF IsOpenStore, UseStore
  <2>12. CASE QueueDeleted(t)
    BY <2>12 DEF QueueDeleted
  <2>13. CASE Put(t)
    BY <2>13 DEF Put
  <2>14. CASE TakeWaits(t)
    BY <2>14 DEF TakeWaits
  <2>15. CASE Take(t)
    BY SMTT(30), <2>15 DEF Take, TakeFirst
  <2> QED
    BY Zenon, <1>5, <2>1, <2>2, <2>3, <2>4, <2>5, <2>6, <2>7, <2>8, <2>9, <2>10, <2>11, <2>12, <2>13, <2>14, <2>15
       DEF ManagerStep, QueueStep
<1> QED
  BY <1>1, <1>2, <1>3, <1>4, <1>5 DEF Next

(* The map and the live queues stay in step. *)
LEMMA MapStep ==
  ASSUME MInv, [Next]_vars
  PROVE  MapInv'
<1> USE ManagerAssumption DEF Goto, ownVars, objVars, clientVars, ghostVars,
        MInv, TypeOK, MonitorInv, StoreInv, MapInv, Held, StoreUsers
<1>1. CASE UNCHANGED vars
  BY <1>1 DEF vars
<1>2. CASE Open
  BY <1>2 DEF Open
<1>3. CASE OpenFails
  BY <1>3 DEF OpenFails, FailedOpen
<1>4. CASE Destroy
  BY SMTT(30), <1>4 DEF Destroy, DeleteQueues, Mapped, UseStore
<1>5. ASSUME NEW t \in Threads, ManagerStep(t) \/ QueueStep(t)
      PROVE  MapInv'
  <2>1. CASE GetFound(t)
    BY <2>1 DEF GetFound, UseStore
  <2>2. CASE Get(t)
    BY <2>2 DEF Get, NotFound, Lock, UseStore
  <2>3. CASE GetNew(t)
    BY <2>3 DEF GetNew, MakeQueue, Construct, UseStore, Unlock
  <2>4. CASE Close(t)
    BY <2>4 DEF Close, StartClose, Lock, UseStore
  <2>5. CASE CloseQueues(t)
    BY <2>5 DEF CloseQueues, DeleteQueues, Mapped
  <2>6. CASE CloseStore(t)
    BY <2>6 DEF CloseStore, UseStore
  <2>7. CASE CloseNull(t)
    BY <2>7 DEF CloseNull, EndClose, Unlock
  <2>8. CASE Admin(t)
    BY <2>8 DEF Admin, Lock, UseStore
  <2>9. CASE AdminStore(t)
    BY <2>9 DEF AdminStore, UseStore, Unlock
  <2>10. CASE IsOpen(t)
    BY <2>10 DEF IsOpen
  <2>11. CASE IsOpenStore(t)
    BY <2>11 DEF IsOpenStore, UseStore
  <2>12. CASE QueueDeleted(t)
    BY <2>12 DEF QueueDeleted
  <2>13. CASE Put(t)
    BY <2>13 DEF Put
  <2>14. CASE TakeWaits(t)
    BY <2>14 DEF TakeWaits
  <2>15. CASE Take(t)
    BY SMTT(30), <2>15 DEF Take, TakeFirst
  <2> QED
    BY Zenon, <1>5, <2>1, <2>2, <2>3, <2>4, <2>5, <2>6, <2>7, <2>8, <2>9, <2>10, <2>11, <2>12, <2>13, <2>14, <2>15
       DEF ManagerStep, QueueStep
<1> QED
  BY <1>1, <1>2, <1>3, <1>4, <1>5 DEF Next

(* Every step keeps the cached bounds true. *)
LEMMA WindowStep ==
  ASSUME MInv, [Next]_vars
  PROVE  WindowInv'
<1> USE ManagerAssumption DEF Goto, ownVars, objVars, clientVars, ghostVars,
        MInv, TypeOK, WindowInv, BoundsAgree, Keys
<1>1. CASE UNCHANGED vars
  BY <1>1 DEF vars
<1>2. CASE Open
  BY <1>2 DEF Open
<1>3. CASE OpenFails
  BY <1>3 DEF OpenFails, FailedOpen
<1>4. CASE Destroy
  BY SMTT(30), <1>4 DEF Destroy, DeleteQueues, Mapped, UseStore
<1>5. ASSUME NEW t \in Threads, ManagerStep(t) \/ QueueStep(t)
      PROVE  WindowInv'
  <2>1. CASE GetFound(t)
    BY <2>1 DEF GetFound, UseStore
  <2>2. CASE Get(t)
    BY <2>2 DEF Get, NotFound, Lock, UseStore
  <2>3. CASE GetNew(t)
    <3> DEFINE i  == arg[t]
               lo == IF stored[i] = {} THEN 0 ELSE Min(stored[i])
               hi == IF stored[i] = {} THEN 0 ELSE Max(stored[i]) + 1
    <3>1. i \in Ids
      BY <2>3 DEF GetNew, MakeQueue, MapInv
    <3>2. lo \in Keys /\ hi \in Keys /\ lo <= hi /\ stored[i] = lo .. (hi - 1)
      BY Zenon, <3>1, ConstructBounds
    <3> HIDE DEF lo, hi, i
    <3>3. PICK q \in Queues :
            /\ id[q] = NoId
            /\ id' = [id EXCEPT ![q] = i]
            /\ live' = live \cup {q}
            /\ handle' = [handle EXCEPT ![t] = q]
            /\ queues' = [queues EXCEPT ![i] = q]
            /\ \/ /\ valid' = valid \cup {q}
                  /\ minKey' = [minKey EXCEPT ![q] = lo]
                  /\ maxKey' = [maxKey EXCEPT ![q] = hi]
               \/ /\ \E k \in {0, lo} : minKey' = [minKey EXCEPT ![q] = k]
                  /\ UNCHANGED <<valid, maxKey>>
      BY Zenon, <2>3 DEF GetNew, MakeQueue, Construct, i, lo, hi
    <3>4. UNCHANGED stored
      BY <2>3 DEF GetNew, MakeQueue
    <3>5. q \notin live \cup valid
      BY <3>3 DEF MapInv
    <3>6. ASSUME NEW r \in (live \cap valid)'
          PROVE  /\ minKey'[r] <= maxKey'[r]
                 /\ stored'[id'[r]] = minKey'[r] .. (maxKey'[r] - 1)
      <4>1. CASE r = q
        BY <4>1, <3>1, <3>2, <3>3, <3>4, <3>5
      <4>2. CASE r # q
        BY <4>2, <3>3, <3>4
      <4> QED
        BY <4>1, <4>2
    <3> QED
      BY <3>4, <3>6
  <2>4. CASE Close(t)
    BY <2>4 DEF Close, StartClose, Lock, UseStore
  <2>5. CASE CloseQueues(t)
    BY <2>5 DEF CloseQueues, DeleteQueues, Mapped
  <2>6. CASE CloseStore(t)
    BY <2>6 DEF CloseStore, UseStore
  <2>7. CASE CloseNull(t)
    BY <2>7 DEF CloseNull, EndClose, Unlock
  <2>8. CASE Admin(t)
    BY <2>8 DEF Admin, Lock, UseStore
  <2>9. CASE AdminStore(t)
    BY <2>9 DEF AdminStore, UseStore, Unlock
  <2>10. CASE IsOpen(t)
    BY <2>10 DEF IsOpen
  <2>11. CASE IsOpenStore(t)
    BY <2>11 DEF IsOpenStore, UseStore
  <2>12. CASE QueueDeleted(t)
    BY SMTT(30), <2>12 DEF QueueDeleted
  <2>13. CASE Put(t)
    <3> DEFINE q == handle[t]
    <3>1. /\ q \in live \cap valid /\ q \in Queues /\ id[q] \in Ids
          /\ minKey[q] \in Keys /\ maxKey[q] \in Keys
          /\ minKey[q] <= maxKey[q]
          /\ stored[id[q]] = minKey[q] .. (maxKey[q] - 1)
      BY <2>13 DEF Put, MapInv
    <3>2. /\ maxKey[q] < KeyLimit
          /\ stored' = [stored EXCEPT ![id[q]] = @ \cup {maxKey[q]}]
          /\ UNCHANGED <<id, live, valid, minKey>>
          /\ maxKey' = [maxKey EXCEPT ![q] = maxKey[q] + 1]
      BY <2>13 DEF Put
    <3> HIDE DEF q
    <3>3. stored'[id[q]] = minKey'[q] .. (maxKey'[q] - 1)
      BY <3>1, <3>2
    <3>4. minKey'[q] \in Keys /\ maxKey'[q] \in Keys /\ minKey'[q] <= maxKey'[q]
      BY <3>1, <3>2
    <3>5. \A r \in live \cap valid : r # q => id[r] # id[q]
      BY <3>1 DEF MapInv
    <3>6. \A r \in (live \cap valid)' :
            /\ minKey'[r] <= maxKey'[r]
            /\ stored'[id'[r]] = minKey'[r] .. (maxKey'[r] - 1)
      <4> SUFFICES ASSUME NEW r \in live \cap valid
                   PROVE  /\ minKey'[r] <= maxKey'[r]
                          /\ stored'[id[r]] = minKey'[r] .. (maxKey'[r] - 1)
        BY Zenon, <3>2
      <4>1. CASE r = q
        BY <4>1, <3>3, <3>4
      <4>2. CASE r # q
        <5>1. id[r] \in Ids /\ id[r] # id[q] /\ r \in Queues
          BY <4>2, <3>5 DEF MapInv
        <5> QED
          BY <4>2, <5>1, <3>2
      <4> QED
        BY <4>1, <4>2
    <3>7. \A i \in Ids : \E lo, hi \in Keys : lo <= hi /\ stored'[i] = lo .. (hi - 1)
      <4> SUFFICES ASSUME NEW i \in Ids
                   PROVE  \E lo, hi \in Keys : lo <= hi /\ stored'[i] = lo .. (hi - 1)
        OBVIOUS
      <4>1. CASE i = id[q]
        BY <4>1, <3>3, <3>4
      <4>2. CASE i # id[q]
        <5>1. stored'[i] = stored[i]
          BY <4>2, <3>2
        <5>2. PICK lo, hi \in Keys : lo <= hi /\ stored[i] = lo .. (hi - 1)
          OBVIOUS
        <5> QED
          BY <5>1, <5>2
      <4> QED
        BY <4>1, <4>2
    <3> QED
      BY <3>6, <3>7
  <2>14. CASE TakeWaits(t)
    BY <2>14 DEF TakeWaits
  <2>15. CASE Take(t)
    <3> DEFINE q == handle[t]
    <3>1. /\ q \in live \cap valid /\ q \in Queues /\ id[q] \in Ids
          /\ minKey[q] \in Keys /\ maxKey[q] \in Keys
          /\ minKey[q] <= maxKey[q]
          /\ stored[id[q]] = minKey[q] .. (maxKey[q] - 1)
      BY <2>15 DEF Take, TakeFirst, MapInv
    <3>2. /\ minKey[q] < maxKey[q]
          /\ stored' = [stored EXCEPT ![id[q]] = @ \ {minKey[q]}]
          /\ UNCHANGED <<id, live, valid, maxKey>>
          /\ minKey' = [minKey EXCEPT ![q] = minKey[q] + 1]
      BY <2>15 DEF Take, TakeFirst
    <3> HIDE DEF q
    <3>3. stored'[id[q]] = minKey'[q] .. (maxKey'[q] - 1)
      BY <3>1, <3>2
    <3>4. minKey'[q] \in Keys /\ maxKey'[q] \in Keys /\ minKey'[q] <= maxKey'[q]
      BY <3>1, <3>2
    <3>5. \A r \in live \cap valid : r # q => id[r] # id[q]
      BY <3>1 DEF MapInv
    <3>6. \A r \in (live \cap valid)' :
            /\ minKey'[r] <= maxKey'[r]
            /\ stored'[id'[r]] = minKey'[r] .. (maxKey'[r] - 1)
      <4> SUFFICES ASSUME NEW r \in live \cap valid
                   PROVE  /\ minKey'[r] <= maxKey'[r]
                          /\ stored'[id[r]] = minKey'[r] .. (maxKey'[r] - 1)
        BY Zenon, <3>2
      <4>1. CASE r = q
        BY <4>1, <3>3, <3>4
      <4>2. CASE r # q
        <5>1. id[r] \in Ids /\ id[r] # id[q] /\ r \in Queues
          BY <4>2, <3>5 DEF MapInv
        <5> QED
          BY <4>2, <5>1, <3>2
      <4> QED
        BY <4>1, <4>2
    <3>7. \A i \in Ids : \E lo, hi \in Keys : lo <= hi /\ stored'[i] = lo .. (hi - 1)
      <4> SUFFICES ASSUME NEW i \in Ids
                   PROVE  \E lo, hi \in Keys : lo <= hi /\ stored'[i] = lo .. (hi - 1)
        OBVIOUS
      <4>1. CASE i = id[q]
        BY <4>1, <3>3, <3>4
      <4>2. CASE i # id[q]
        <5>1. stored'[i] = stored[i]
          BY <4>2, <3>2
        <5>2. PICK lo, hi \in Keys : lo <= hi /\ stored[i] = lo .. (hi - 1)
          OBVIOUS
        <5> QED
          BY <5>1, <5>2
      <4> QED
        BY <4>1, <4>2
    <3> QED
      BY <3>6, <3>7
  <2> QED
    BY Zenon, <1>5, <2>1, <2>2, <2>3, <2>4, <2>5, <2>6, <2>7, <2>8, <2>9, <2>10, <2>11, <2>12, <2>13, <2>14, <2>15
       DEF ManagerStep, QueueStep
<1> QED
  BY <1>1, <1>2, <1>3, <1>4, <1>5 DEF Next

(* Every step of a call that holds the monitor finds the store there, and  *)
(* every queue is deleted by the step that takes it out of the live ones.  *)
LEMMA GhostStep ==
  ASSUME MInv, MonitorCallsSafe, DeletedOnce, [Next]_vars
  PROVE  (MonitorCallsSafe /\ DeletedOnce)'
<1> USE ManagerAssumption DEF Goto, ownVars, objVars, clientVars, ghostVars,
        MInv, TypeOK, MonitorInv, StoreInv, MapInv, Held, StoreUsers, MonitorCalls,
        MonitorCallsSafe, DeletedOnce
<1>1. CASE UNCHANGED vars
  BY <1>1 DEF vars
<1>2. CASE Open
  BY <1>2 DEF Open
<1>3. CASE OpenFails
  BY <1>3 DEF OpenFails, FailedOpen
<1>4. CASE Destroy
  BY SMTT(30), <1>4 DEF Destroy, DeleteQueues, Mapped, UseStore
<1>5. ASSUME NEW t \in Threads, ManagerStep(t) \/ QueueStep(t)
      PROVE  (MonitorCallsSafe /\ DeletedOnce)'
  <2>1. CASE GetFound(t)
    BY <2>1 DEF GetFound, UseStore
  <2>2. CASE Get(t)
    BY <2>2 DEF Get, NotFound, Lock, UseStore
  <2>3. CASE GetNew(t)
    BY <2>3 DEF GetNew, MakeQueue, Construct, UseStore, Unlock
  <2>4. CASE Close(t)
    BY <2>4 DEF Close, StartClose, Lock, UseStore
  <2>5. CASE CloseQueues(t)
    BY <2>5 DEF CloseQueues, DeleteQueues, Mapped
  <2>6. CASE CloseStore(t)
    BY <2>6 DEF CloseStore, UseStore
  <2>7. CASE CloseNull(t)
    BY <2>7 DEF CloseNull, EndClose, Unlock
  <2>8. CASE Admin(t)
    BY <2>8 DEF Admin, Lock, UseStore
  <2>9. CASE AdminStore(t)
    BY <2>9 DEF AdminStore, UseStore, Unlock
  <2>10. CASE IsOpen(t)
    BY <2>10 DEF IsOpen
  <2>11. CASE IsOpenStore(t)
    BY <2>11 DEF IsOpenStore, UseStore
  <2>12. CASE QueueDeleted(t)
    BY <2>12 DEF QueueDeleted
  <2>13. CASE Put(t)
    BY <2>13 DEF Put
  <2>14. CASE TakeWaits(t)
    BY <2>14 DEF TakeWaits
  <2>15. CASE Take(t)
    BY <2>15 DEF Take, TakeFirst
  <2> QED
    BY <1>5, <2>1, <2>2, <2>3, <2>4, <2>5, <2>6, <2>7, <2>8, <2>9, <2>10, <2>11, <2>12, <2>13, <2>14, <2>15
       DEF ManagerStep, QueueStep
<1> QED
  BY <1>1, <1>2, <1>3, <1>4, <1>5 DEF Next

-----------------------------------------------------------------------------
(* MInv holds always: the monitor serialises get and close, the pointer    *)
(* tells whether the store is there, the map holds the live queues.        *)
THEOREM ManagerInvariance == Spec => []MInv
<1>1. Init => MInv
  <2> SUFFICES ASSUME Init PROVE MInv
    OBVIOUS
  <2>1. TypeOK
    <3>1. mgr \in BOOLEAN /\ store \in BOOLEAN
      BY Zenon DEF Init
    <3>2. minKey \in [Queues -> Keys] /\ maxKey \in [Queues -> Keys]
      BY ManagerAssumption DEF Init, Keys
    <3> QED
      BY <3>1, <3>2 DEF Init, TypeOK, Labels
  <2>2. MonitorInv /\ StoreInv
    BY DEF Init, MonitorInv, StoreInv, Held, StoreUsers
  <2>3. MapInv
    BY DEF Init, MapInv
  <2>4. WindowInv
    <3>1. 0 \in Keys /\ 0 <= 0 /\ {} = 0 .. (0 - 1)
      BY ManagerAssumption DEF Keys
    <3> QED
      BY <3>1 DEF Init, WindowInv, BoundsAgree
  <2> QED
    BY <2>1, <2>2, <2>3, <2>4 DEF MInv
<1>2. MInv /\ [Next]_vars => MInv'
  BY TypeStep, MonitorStep, StoreStep, MapStep, WindowStep DEF MInv
<1> QED
  BY <1>1, <1>2, PTL DEF Spec

(* Type correctness of the manager. *)
THEOREM ManagerTypeCorrect == Spec => []TypeOK
<1>1. MInv => TypeOK
  BY DEF MInv
<1> QED
  BY <1>1, ManagerInvariance, PTL

(* The bounds a live queue cached in its constructor stay those of the     *)
(* keys stored in its Kind, for any number of threads and identifiers.     *)
THEOREM BoundsSafe == Spec => []BoundsAgree
<1>1. MInv => BoundsAgree
  BY DEF MInv, WindowInv
<1> QED
  BY <1>1, ManagerInvariance, PTL

(* No identifier ever has two live queues. *)
THEOREM OneQueueSafe == Spec => []OneQueuePerId
<1>1. MInv => OneQueuePerId
  BY DEF MInv, MapInv, OneQueuePerId
<1> QED
  BY <1>1, ManagerInvariance, PTL

(* Neither a use of a deleted store nor a second deletion was recorded. *)
LEMMA RecordsSafe == Spec => [](MonitorCallsSafe /\ DeletedOnce)
<1>1. Init => MonitorCallsSafe /\ DeletedOnce
  BY DEF Init, MonitorCallsSafe, DeletedOnce
<1>2. MInv /\ MonitorCallsSafe /\ DeletedOnce /\ [Next]_vars
        => (MonitorCallsSafe /\ DeletedOnce)'
  BY GhostStep
<1> QED
  BY <1>1, <1>2, ManagerInvariance, PTL DEF Spec

(* No call that takes the monitor uses a deleted store. *)
THEOREM MonitorSafe == Spec => []MonitorCallsSafe
BY RecordsSafe, PTL

(* close, a second close and the destructor, in any order and from any     *)
(* threads, delete each queue at most once.                                *)
THEOREM DeletedOnceSafe == Spec => []DeletedOnce
BY RecordsSafe, PTL

(* A client without a manager has no memory of one left. *)
THEOREM NothingLeftSafe == Spec => []NothingLeft
<1>1. MInv => NothingLeft
  BY DEF MInv, StoreInv, MapInv, NothingLeft
<1> QED
  BY <1>1, ManagerInvariance, PTL
=============================================================================
