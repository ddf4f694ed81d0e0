---------------------------- MODULE KueueManager ----------------------------
(***************************************************************************)
(* KueueManagerImpl: it owns the store and one KueueImpl per identifier.   *)
(* get, close, compactAll and syncWal run under the monitor; isOpen and    *)
(* the destructor do not.  Clients keep the pointers get returned, use     *)
(* them without the monitor, and may still do so after close.  Calls on a  *)
(* queue are single steps here (Kueue has their detail): what matters is   *)
(* that each KueueImpl caches the bounds of the keys stored in its Kind.   *)
(***************************************************************************)
EXTENDS Integers, FiniteSetsExt

CONSTANTS
  Threads,
  Ids,           (* the identifiers of queues: names of Kinds               *)
  Queues,        (* the KueueImpl objects one manager may allocate          *)
  KeyLimit,      (* bound: keys are below it                                *)
  StoreMayFail,  (* may opening the store or a queue's constructor fail?    *)
  NoThread,      (* the owner of a free monitor                             *)
  NoQueue,       (* nullptr                                                 *)
  NoId           (* the identifier of memory that was never allocated       *)

Keys == 0 .. KeyLimit

ASSUME ManagerAssumption ==
  /\ KeyLimit \in Nat
  /\ StoreMayFail \in BOOLEAN
  /\ NoThread \notin Threads
  /\ NoQueue \notin Queues
  /\ NoId \notin Ids

VARIABLES
  mgr,       (* does the client have a manager?                             *)
  store,     (* is the manager's pointer to the store set?                  *)
  storeMem,  (* the StoreImpl: "none", "live" or "deleted"                  *)
  queues,    (* the map: identifier -> KueueImpl                            *)
  monitor,   (* owner of the mutex                                          *)
  id,        (* identifier each KueueImpl was constructed with              *)
  live,      (* the KueueImpls not deleted yet                              *)
  valid,     (* their isValid_                                              *)
  minKey,    (* the bounds they cache                                       *)
  maxKey,
  stored,    (* the keys stored in each Kind                                *)
  pc,
  arg,       (* the identifier of the get a thread is in                    *)
  handle,    (* the queue pointer each thread was given last                *)
  twice,     (* KueueImpls deleted more than once                           *)
  dangling   (* the calls that have used a deleted object                   *)

ownVars    == <<mgr, store, storeMem, queues, monitor>>
objVars    == <<id, live, valid, minKey, maxKey>>
clientVars == <<pc, arg, handle>>
ghostVars  == <<twice, dangling>>
vars       == <<ownVars, objVars, stored, clientVars, ghostVars>>

Goto(t, label) == pc' = [pc EXCEPT ![t] = label]

(* The object a call uses is gone: what the call then does is undefined,   *)
(* and recorded as such.                                                   *)
UseStore(call) ==
  dangling' = IF storeMem = "live" THEN dangling ELSE dangling \cup {call}

Lock(t)   == monitor = NoThread /\ monitor' = t

(* The end of a call that holds the monitor. *)
Unlock(t) == monitor' = NoThread /\ Goto(t, "idle")

-----------------------------------------------------------------------------
Init ==
  /\ mgr = FALSE
  /\ store = FALSE
  /\ storeMem = "none"
  /\ queues = [i \in Ids |-> NoQueue]
  /\ monitor = NoThread
  /\ id = [q \in Queues |-> NoId]
  /\ live = {}
  /\ valid = {}
  /\ minKey = [q \in Queues |-> 0]
  /\ maxKey = [q \in Queues |-> 0]
  /\ stored = [i \in Ids |-> {}]
  /\ pc = [t \in Threads |-> "idle"]
  /\ arg = [t \in Threads |-> NoId]
  /\ handle = [t \in Threads |-> NoQueue]
  /\ twice = {}
  /\ dangling = {}

(* openKueueManager: the constructor opens the store, in new memory. *)
Open ==
  /\ ~mgr
  /\ mgr' = TRUE
  /\ store' = TRUE
  /\ storeMem' = "live"
  /\ queues' = [i \in Ids |-> NoQueue]
  /\ id' = [q \in Queues |-> NoId]
  /\ live' = {}
  /\ valid' = {}
  /\ minKey' = [q \in Queues |-> 0]
  /\ maxKey' = [q \in Queues |-> 0]
  /\ handle' = [t \in Threads |-> NoQueue]
  /\ UNCHANGED <<monitor, stored, pc, arg, ghostVars>>

FailedOpen(mem) ==
  /\ ~mgr
  /\ StoreMayFail
  /\ storeMem' = mem
  /\ UNCHANGED <<mgr, store, queues, monitor, objVars, stored, clientVars, ghostVars>>

OpenFailsKeepsStore == FailedOpen("live")

(* The constructor deletes the store that did not open, openKueueManager   *)
(* the manager.                                                            *)
OpenFails == FailedOpen("deleted")

(***************************************************************************)
(* get                                                                     *)
(***************************************************************************)
GetFound(t) ==
  /\ mgr /\ pc[t] = "idle"
  /\ monitor = NoThread
  /\ \E i \in Ids : handle' = [handle EXCEPT ![t] = IF store THEN queues[i] ELSE NoQueue]
  /\ handle'[t] # NoQueue \/ ~store
  /\ IF store THEN UseStore("get") ELSE UNCHANGED dangling
  /\ UNCHANGED <<ownVars, objVars, stored, pc, arg, twice>>

NotFound(t) ==
  /\ mgr /\ pc[t] = "idle"
  /\ store
  /\ \E i \in Ids : queues[i] = NoQueue /\ arg' = [arg EXCEPT ![t] = i]
  /\ Goto(t, "get_new")
  /\ UseStore("get")
  /\ UNCHANGED <<mgr, store, storeMem, queues, objVars, stored, handle, twice>>

GetUnlocked(t) == NotFound(t) /\ monitor = NoThread /\ UNCHANGED monitor

(* The identifier is not in the map: the thread keeps the monitor. *)
Get(t) == NotFound(t) /\ Lock(t)

(* new KueueImpl: the constructor reads the bounds of the stored keys. *)
Construct(q, i) ==
  LET lo == IF stored[i] = {} THEN 0 ELSE Min(stored[i])
      hi == IF stored[i] = {} THEN 0 ELSE Max(stored[i]) + 1
  IN  /\ id[q] = NoId
      /\ id' = [id EXCEPT ![q] = i]
      /\ live' = live \cup {q}
      /\ \/ /\ valid' = valid \cup {q}
            /\ minKey' = [minKey EXCEPT ![q] = lo]
            /\ maxKey' = [maxKey EXCEPT ![q] = hi]
         \/ /\ StoreMayFail
            /\ \E k \in {0, lo} : minKey' = [minKey EXCEPT ![q] = k]
            /\ UNCHANGED <<valid, maxKey>>

MakeQueue(t) ==
  /\ pc[t] = "get_new"
  /\ \E q \in Queues : Construct(q, arg[t]) /\ handle' = [handle EXCEPT ![t] = q]
  /\ UseStore("get")
  /\ Unlock(t)
  /\ arg' = [arg EXCEPT ![t] = NoId]
  /\ UNCHANGED <<mgr, store, storeMem, stored, twice>>

GetNewValidOnly(t) ==
  /\ MakeQueue(t)
  /\ queues' = IF handle'[t] \in valid' THEN [queues EXCEPT ![arg[t]] = handle'[t]]
                                        ELSE queues

(* The new queue goes into the map whether or not it is valid. *)
GetNew(t) ==
  /\ MakeQueue(t)
  /\ queues' = [queues EXCEPT ![arg[t]] = handle'[t]]

(***************************************************************************)
(* close: delete the queues, clear the map, delete the store, reset the    *)
(* pointer.  A second close finds the pointer null.                        *)
(***************************************************************************)
Mapped == {queues[i] : i \in Ids} \ {NoQueue}

DeleteQueues ==
  /\ live' = live \ Mapped
  /\ twice' = twice \cup (Mapped \ live)

StartClose(t) ==
  /\ mgr /\ pc[t] = "idle"
  /\ store
  /\ Goto(t, "close_queues")
  /\ UseStore("close")
  /\ UNCHANGED <<mgr, store, storeMem, queues, objVars, stored, arg, handle, twice>>

CloseUnlocked(t) == StartClose(t) /\ UNCHANGED monitor

Close(t) == StartClose(t) /\ Lock(t)

CloseQueues(t) ==
  /\ pc[t] = "close_queues"
  /\ DeleteQueues
  /\ Goto(t, "close_store")
  /\ UNCHANGED <<ownVars, id, valid, minKey, maxKey, stored, arg, handle, dangling>>

CloseStore(t) ==
  /\ pc[t] = "close_store"
  /\ queues' = [i \in Ids |-> NoQueue]
  /\ storeMem' = "deleted"
  /\ UseStore("close")
  /\ Goto(t, "close_null")
  /\ UNCHANGED <<mgr, store, monitor, objVars, stored, arg, handle, twice>>

EndClose(t, pointer) ==
  /\ pc[t] = "close_null"
  /\ store' = pointer
  /\ Unlock(t)
  /\ UNCHANGED <<mgr, storeMem, queues, objVars, stored, arg, handle, ghostVars>>

CloseNullForgotten(t) == EndClose(t, store)

CloseNull(t) == EndClose(t, FALSE)

(* The destructor, once no call on the manager or its queues is under way. *)
Destroy ==
  /\ mgr
  /\ \A t \in Threads : pc[t] = "idle"
  /\ mgr' = FALSE
  /\ store' = FALSE
  /\ IF store THEN DeleteQueues /\ storeMem' = "deleted" /\ UseStore("close")
              ELSE UNCHANGED <<live, ghostVars, storeMem>>
  /\ queues' = [i \in Ids |-> NoQueue]
  /\ UNCHANGED <<monitor, id, valid, minKey, maxKey, stored, clientVars>>

(***************************************************************************)
(* The calls that change nothing here, and isOpen, which reads the pointer *)
(* in one step and follows it in the next.                                 *)
(***************************************************************************)
Admin(t) ==
  /\ mgr /\ pc[t] = "idle"
  /\ store
  /\ Lock(t)
  /\ \E call \in {"compactAll", "syncWal"} : Goto(t, call) /\ UseStore(call)
  /\ UNCHANGED <<mgr, store, storeMem, queues, objVars, stored, arg, handle, twice>>

AdminStore(t) ==
  /\ pc[t] \in {"compactAll", "syncWal"}
  /\ UseStore(pc[t])
  /\ Unlock(t)
  /\ UNCHANGED <<mgr, store, storeMem, queues, objVars, stored, arg, handle, twice>>

IsOpen(t) ==
  /\ mgr /\ pc[t] = "idle"
  /\ store
  /\ Goto(t, "is_open")
  /\ UNCHANGED <<ownVars, objVars, stored, arg, handle, ghostVars>>

IsOpenStore(t) ==
  /\ pc[t] = "is_open"
  /\ UseStore("isOpen")
  /\ Goto(t, "idle")
  /\ UNCHANGED <<ownVars, objVars, stored, arg, handle, twice>>

(***************************************************************************)
(* Calls on a queue.                                                       *)
(***************************************************************************)
QueueDeleted(t) ==
  /\ pc[t] \in {"idle", "waiting"}
  /\ handle[t] \in Queues \ live
  /\ dangling' = dangling \cup {"queue"}
  /\ Goto(t, "idle")
  /\ UNCHANGED <<ownVars, objVars, stored, arg, handle, twice>>

Put(t) ==
  /\ pc[t] = "idle"
  /\ handle[t] \in live \cap valid
  /\ LET q == handle[t]
     IN  /\ maxKey[q] < KeyLimit
         /\ stored' = [stored EXCEPT ![id[q]] = @ \cup {maxKey[q]}]
         /\ maxKey' = [maxKey EXCEPT ![q] = @ + 1]
  /\ UNCHANGED <<ownVars, id, live, valid, minKey, clientVars, ghostVars>>

TakeWaits(t) ==
  /\ pc[t] = "idle"
  /\ handle[t] \in live \cap valid
  /\ minKey[handle[t]] = maxKey[handle[t]]
  /\ Goto(t, "waiting")
  /\ UNCHANGED <<ownVars, objVars, stored, arg, handle, ghostVars>>

TakeFirst(t) ==
  /\ pc[t] \in {"idle", "waiting"}
  /\ handle[t] \in live \cap valid
  /\ LET q == handle[t]
     IN  /\ stored' = [stored EXCEPT ![id[q]] = @ \ {minKey[q]}]
         /\ minKey' = [minKey EXCEPT ![q] = @ + 1]
  /\ Goto(t, "idle")
  /\ UNCHANGED <<ownVars, id, live, valid, maxKey, arg, handle, ghostVars>>

Take(t) == TakeFirst(t) /\ minKey[handle[t]] < maxKey[handle[t]]

(* A client that deletes the queue get returned. *)
ClientDelete(t) ==
  /\ pc[t] = "idle"
  /\ handle[t] \in live
  /\ live' = live \ {handle[t]}
  /\ handle' = [handle EXCEPT ![t] = NoQueue]
  /\ UNCHANGED <<ownVars, id, valid, minKey, maxKey, stored, pc, arg, ghostVars>>

-----------------------------------------------------------------------------
ManagerStep(t) == \/ GetFound(t) \/ Get(t) \/ GetNew(t)
                  \/ Close(t) \/ CloseQueues(t) \/ CloseStore(t) \/ CloseNull(t)
                  \/ Admin(t) \/ AdminStore(t) \/ IsOpen(t) \/ IsOpenStore(t)
QueueStep(t)   == QueueDeleted(t) \/ Put(t) \/ TakeWaits(t) \/ Take(t)

Next == \/ Open \/ OpenFails \/ Destroy
        \/ \E t \in Threads : ManagerStep(t) \/ QueueStep(t)

Spec == Init /\ [][Next]_vars

(* The same with clients that follow the declaration of get. *)
DeletingSpec == Init /\ [][Next \/ \E t \in Threads : ClientDelete(t)]_vars

-----------------------------------------------------------------------------
Labels == {"idle", "get_new", "close_queues", "close_store", "close_null",
           "compactAll", "syncWal", "is_open", "waiting"}
MonitorCalls == {"get", "close", "compactAll", "syncWal"}

(* Every variable has values of the kind its C++ counterpart can hold. *)
TypeOK ==
  /\ mgr \in BOOLEAN
  /\ store \in BOOLEAN
  /\ storeMem \in {"none", "live", "deleted"}
  /\ queues \in [Ids -> Queues \cup {NoQueue}]
  /\ monitor \in Threads \cup {NoThread}
  /\ id \in [Queues -> Ids \cup {NoId}]
  /\ live \in SUBSET Queues
  /\ valid \in SUBSET Queues
  /\ minKey \in [Queues -> Keys]
  /\ maxKey \in [Queues -> Keys]
  /\ stored \in [Ids -> SUBSET Keys]
  /\ pc \in [Threads -> Labels]
  /\ arg \in [Threads -> Ids \cup {NoId}]
  /\ handle \in [Threads -> Queues \cup {NoQueue}]
  /\ twice \in SUBSET Queues
  /\ dangling \in SUBSET (MonitorCalls \cup {"isOpen", "queue"})

(* Every queue a client can use knows which keys its Kind holds, although  *)
(* it read them only once, in its constructor: no second KueueImpl ever    *)
(* writes to the same Kind, however the threads' gets interleave.          *)
BoundsAgree ==
  \A q \in live \cap valid : stored[id[q]] = minKey[q] .. (maxKey[q] - 1)

(* Two threads that ask for the same identifier share one KueueImpl, also  *)
(* one whose constructor failed.                                           *)
OneQueuePerId == \A q, r \in live : id[q] = id[r] => q = r

(* A close under way never takes the store away from a get, compactAll,    *)
(* syncWal or second close.  (isOpen and the calls on a queue have no such *)
(* protection: they may use deleted objects.)                              *)
MonitorCallsSafe == dangling \cap MonitorCalls = {}

(* close and the destructor, in any order and by any number of threads,    *)
(* delete each queue at most once.                                         *)
DeletedOnce == twice = {}

(* When the client has no manager, neither queues nor a store are left in  *)
(* memory: close, the destructor and a failed open leave nothing behind.   *)
NothingLeft == ~mgr => live = {} /\ storeMem # "live"
=============================================================================
