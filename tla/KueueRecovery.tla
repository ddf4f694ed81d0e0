--------------------------- MODULE KueueRecovery ---------------------------
(***************************************************************************)
(* One queue over many lives of its process.  The constructor of KueueImpl *)
(* finds its place again from the stored keys, which are big-endian byte   *)
(* strings in a store that orders byte strings; the store syncs its log    *)
(* every BatchSize writes only, so that a power failure takes back writes  *)
(* the client was told of.  A message is the number of its put, 0 is none. *)
(* Calls are single steps (Kueue has their interleavings), without errors. *)
(***************************************************************************)
EXTENDS KeyCodec, Integers, Sequences, FiniteSets

CONSTANTS
  BatchSize,       (* FLUSH_BATCH_SIZE + 1                                  *)
  MaxPuts,         (* bound on the number of puts                           *)
  IteratorMayFail  (* may an iterator of the constructor meet a read error? *)

ASSUME RecoveryAssumption ==
  /\ BatchSize \in Nat \ {0}
  /\ MaxPuts \in Nat /\ MaxPuts <= MAX_KEY
  /\ IteratorMayFail \in BOOLEAN

VARIABLES
  db,        (* the Kind: key -> message                                    *)
  unsynced,  (* earlier contents a power failure may fall back to           *)
  sinceSync, (* totalSinceLastSync                                          *)
  up,        (* is there a KueueImpl?                                       *)
  isValid, count, minKey, maxKey,
  puts,      (* the number of puts answered with Ok                         *)
  gone,      (* the messages that take, erase or clear removed              *)
  lost       (* the messages taken back by power failures                   *)

storeVars == <<db, unsynced, sinceSync>>
queueVars == <<isValid, count, minKey, maxKey>>
vars      == <<storeVars, up, queueVars, puts, gone, lost>>

StoredIn(content)   == {k \in Keys : content[k] # 0}
MessagesIn(content) == {content[k] : k \in Keys} \ {0}

-----------------------------------------------------------------------------
(* The iterator of findMinKey and of findMaxKey on a set of byte strings. *)
SeekToFirst(S) == CHOOSE a \in S : \A b \in S \ {a} : Before(a, b)
SeekToLast(S)  == CHOOSE a \in S : \A b \in S \ {a} : Before(b, a)

(***************************************************************************)
(* The constructor.  An iterator that is not Valid means no key to it,     *)
(* whether nothing is stored or the read failed.                           *)
(***************************************************************************)
NextMaxSame(first, lastMax) == lastMax

NextMaxByCount(first, lastMax) == lastMax - first + 1

NextMax(first, lastMax) == (lastMax + 1) % (MAX_KEY + 1)

Construct(minFound, maxFound) ==
  LET slices  == {putU64BE(k) : k \in StoredIn(db)}
      first   == IF minFound THEN getU64BE(SeekToFirst(slices)) ELSE 0
      lastMax == IF maxFound THEN getU64BE(SeekToLast(slices)) ELSE 0
  IN  /\ minKey' = first
      /\ maxKey' = IF maxFound THEN NextMax(first, lastMax) ELSE 0
      /\ count' = IF lastMax >= first THEN maxKey' - first ELSE 0
      /\ isValid' = (lastMax >= first /\ count' >= 0)

Init ==
  /\ db = [k \in Keys |-> 0]
  /\ unsynced = << >>
  /\ sinceSync = 0
  /\ up = FALSE
  /\ isValid = FALSE
  /\ count = 0
  /\ minKey = 0
  /\ maxKey = 0
  /\ puts = 0
  /\ gone = {}
  /\ lost = {}

(* The store replays its log into table files, then get makes the queue. *)
Open ==
  /\ ~up
  /\ up' = TRUE
  /\ unsynced' = << >>
  /\ sinceSync' = 0
  /\ LET stored == StoredIn(db) # {}
     IN  \E minFound, maxFound \in (IF IteratorMayFail THEN {stored, FALSE} ELSE {stored}) :
           Construct(minFound, maxFound)
  /\ UNCHANGED <<db, puts, gone, lost>>

(* The process ends, with or without close, which syncs nothing. *)
Exit ==
  /\ up
  /\ up' = FALSE
  /\ UNCHANGED <<storeVars, queueVars, puts, gone, lost>>

PowerFailure ==
  /\ \/ UNCHANGED db
     \/ \E i \in 1 .. Len(unsynced) : db' = unsynced[i]
  /\ unsynced' = << >>
  /\ up' = FALSE
  /\ lost' = lost \cup (MessagesIn(db) \ MessagesIn(db'))
  /\ UNCHANGED <<sinceSync, queueVars, puts, gone>>

(***************************************************************************)
(* A committed write.  The log is synced when the batch is full, or before *)
(* that when the time window has passed.                                   *)
(***************************************************************************)
WriteLate(k, m) ==
  /\ db' = [db EXCEPT ![k] = m]
  /\ IF sinceSync = BatchSize
       THEN unsynced' = << >> /\ sinceSync' = 0
       ELSE unsynced' = Append(unsynced, db) /\ sinceSync' = sinceSync + 1

Write(k, m) ==
  /\ db' = [db EXCEPT ![k] = m]
  /\ \/ unsynced' = << >> /\ sinceSync' = 0
     \/ /\ sinceSync + 1 < BatchSize
        /\ unsynced' = Append(unsynced, db)
        /\ sinceSync' = sinceSync + 1

Put ==
  /\ up /\ isValid
  /\ puts < MaxPuts /\ maxKey < MAX_KEY
  /\ Write(maxKey, puts + 1)
  /\ maxKey' = maxKey + 1
  /\ count' = count + 1
  /\ puts' = puts + 1
  /\ UNCHANGED <<up, isValid, minKey, gone, lost>>

TakeOut ==
  /\ up /\ isValid
  /\ count > 0
  /\ db[minKey] # 0
  /\ gone' = gone \cup {db[minKey]}
  /\ minKey' = minKey + 1
  /\ count' = count - 1
  /\ UNCHANGED <<up, isValid, maxKey, puts, lost>>

RemoveUncounted ==
  /\ TakeOut
  /\ db' = [db EXCEPT ![minKey] = 0]
  /\ unsynced' = Append(unsynced, db)
  /\ UNCHANGED sinceSync

(* take, a round of clear, or an erase of the first message. *)
Remove == TakeOut /\ Write(minKey, 0)

Next == Open \/ Exit \/ PowerFailure \/ Put \/ Remove

Spec == Init /\ [][Next]_vars

-----------------------------------------------------------------------------
(* Every variable has values of the kind its C++ counterpart can hold. *)
TypeOK ==
  /\ db \in [Keys -> Nat]
  /\ unsynced \in Seq([Keys -> Nat])
  /\ sinceSync \in 0 .. (BatchSize - 1)
  /\ up \in BOOLEAN
  /\ isValid \in BOOLEAN
  /\ count \in Int
  /\ minKey \in Keys
  /\ maxKey \in Keys
  /\ puts \in Nat
  /\ gone \in SUBSET Nat
  /\ lost \in SUBSET Nat

(* The byte order of the stored keys is the order of the integers, and the *)
(* decoder undoes the encoder: findMinKey and findMaxKey find the oldest   *)
(* and the newest message.                                                 *)
KeyOrder == \A k \in StoredIn(db) : CodecAt(k)

(* The queue a process has opened is valid and spans exactly the stored    *)
(* keys, whatever earlier processes did and wherever the power failed.     *)
BoundsRecovered ==
  up => /\ isValid
        /\ StoredIn(db) = minKey .. (maxKey - 1)
        /\ count = maxKey - minKey

(* isValid_ is "true if Kueue initialization succeeds, otherwise false":   *)
(* on a valid queue minKey and maxKey enclose what is stored.              *)
ValidIsInitialized == (up /\ isValid) => StoredIn(db) = minKey .. (maxKey - 1)

(* Across restarts and failures the messages stay in the order of their    *)
(* puts, although an emptied queue starts again with key 0.                *)
InOrder == \A j, k \in StoredIn(db) : j < k => db[j] < db[k]

(* No message vanishes: one that was put is stored, was removed by a call, *)
(* or was taken back by a power failure.                                   *)
NoneVanishes == \A m \in 1 .. puts : m \in gone \cup lost \cup MessagesIn(db)

(* Fewer than BatchSize messages that were taken are ever in the queue     *)
(* again at the same time, however many failures there were.               *)
ReappearBounded == Cardinality(gone \cap MessagesIn(db)) < BatchSize

(* One power failure takes back fewer than BatchSize calls: the messages   *)
(* it loses and the ones it brings back together.                          *)
FailureUndoesFew ==
  [][Cardinality(lost' \ lost) + Cardinality(gone \cap (MessagesIn(db') \ MessagesIn(db)))
       < BatchSize]_vars

(***************************************************************************)
(* The queue over its lives implements DurableQueue: the abstract sequence *)
(* is what is stored, in key order.                                        *)
(***************************************************************************)
FirstOf(S) == CHOOSE k \in S : \A j \in S : k <= j

QueueIn(content) ==
  LET S == StoredIn(content)
  IN  [i \in 1 .. Cardinality(S) |-> content[FirstOf(S) + i - 1]]

QueuesIn(contents) == [i \in 1 .. Len(contents) |-> QueueIn(contents[i])]

Durable == INSTANCE DurableQueue
             WITH Messages <- 1 .. MaxPuts, q <- QueueIn(db),
                  past <- QueuesIn(unsynced), out <- gone

(* Every step is one of a durable queue, or none: whatever process runs, a *)
(* put appends to what the earlier ones left and a take hands out its      *)
(* oldest message; an exit changes nothing; and a power failure takes the  *)
(* whole queue back to one moment fewer than BatchSize calls ago.          *)
ImplementsDurable == Durable!Spec
=============================================================================
