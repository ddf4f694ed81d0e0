# A TLA+ model of librocks

librocks wraps RocksDB in a small C++ API: a key-value `Store` whose column
families are called kinds, persistent FIFO queues (`Kueue`) built on it, a
manager that owns the queues, and a C++ client. This directory holds the
specifications kept beside that code: what is modelled, what TLC checks on
small instances, and what TLAPS proves for all instances.

## The system

| part | source | state | operations |
|---|---|---|---|
| queue | `include/impl/KueueImpl.h` | `count` (atomic), `minKey`, `maxKey`, two totals, `putLock`, `takeLock`, the condition variable `notEmpty`, `isValid_` | constructor, `put`, `take`, timed `take`, `readNext`, `erase`, `clear`, getters |
| queue manager | `include/impl/KueueManagerImpl.h` | the store, the map of queues, a monitor | `get`, `close`, `isOpen`, `compactAll`, `syncWal`, destructor |
| store | `src/impl/StoreImpl.cpp` | `open`, `code`, `txnDb`, `reusableTx_`, `kinds`, `totalSinceLastSync`, `lastSync`, a monitor | open, `close`, kind lookup and creation, reads, writes, conditional writes, min/max key, sync, flush, compaction |
| kind | `src/impl/KindImpl.cpp` | name, column family handle | `isValid`, `closeHandle`, comparison |
| C entry points | `src/impl/librocks.cpp` | none | `openStore`, `openKueueManager` |
| client | `src/client/KVStore.cpp`, `bytes.cpp` | a store, owned buffers | status codes turned into exceptions; copy, move, assignment, `swap`, `clear` of results |
| logger | `src/impl/SimpleLogger.cpp` | a global stream and level | output |

How they interact: a queue calls the store for each message, the store runs each
call under one monitor, so a store call is one atomic step for the queue. Puts
run under `putLock`, takes, reads and erases under `takeLock`; the only state
the two sides share is `count`. The manager owns the queues and the store and
deletes both on `close`. The client owns the buffers that store calls return.

What is hard to test in it: the handover of wakeups through one condition
variable that takes, timed takes and reads all wait on; `count` changed after
the store and outside the other side's lock; a put that failed and has to give
its key back; `erase`, which compares `minKey` once without the lock; the
constructor, which recomputes `count` from the stored keys after any crash and
so depends on there being no gaps; the WAL, which is synced only now and then;
objects deleted while other threads use them; buffers on paths that throw.
`PROJECT.json` lists these hazards at their lines.

## Modules

| module | models | proofs |
|---|---|---|
| `Kueue` | `KueueImpl`, one step per lock, store call and counter update | `KueueInvariantProofs`, `KueueProofs`, `KueueFifoProofs` |
| `FifoQueue` | the abstract queue that `Kueue` implements | |
| `KeyCodec` | the encoding of keys and the store's comparison of them | `KueueRecoveryProofs` |
| `KueueRecovery` | one queue over restarts and power failures | `KueueRecoveryProofs` |
| `DurableQueue` | the abstract queue with power failures that `KueueRecovery` implements | |
| `WindowProofs` | lemmas on the messages under successive keys as a sequence, used by both refinements | |
| `KueueManager` | `KueueManagerImpl`, its queues and the threads that hold them | `KueueManagerProofs` |
| `Store` | `StoreImpl`, its WAL, restarts and power failures | `StoreProofs` |
| `KVStore` | the C++ client and class `bytes` | `KVStoreProofs` |
| `ByteValues` | the value type that `bytes` implements | |
| `MCKueue`, `MCManager`, `MCStore` | instances for TLC | |

### Kueue

One variable per field, `db` for the kind, and per thread a program counter
`pc`, the call it is in, and what it returned. A step ends where another thread
can observe the difference: the lock is taken, the store call is made, the
counters are updated and the lock released. The condition variable is a set
`waiters`; a thread at label `wait` that is not in it has been notified (or woke
spuriously, or timed out) and competes for `takeLock`.

| code | actions |
|---|---|
| constructor | `Init`: `Construct`, `ConstructFails` |
| any call when `!isValid_` | `RejectInvalid` |
| `put` | `PutLock`, `PutStore` or `PutStoreFails`, `PutCount`, `PutSignal` |
| waiting in `take`, `readNext` | `Enter`, `Block`, `SpuriousWakeup`, `Resume`, `Timeout`, `AfterTimeout` |
| `take` | `TakeStore` or `TakeStoreFails`, `TakeCount` |
| `readNext` | `ReadStore` |
| `erase` | `EraseCheck` or `EraseRefused`, `EraseLock`, `EraseStore`, `TakeCount` |
| `clear` | `ClearPutLock`, `ClearTakeLock`, `ClearRemove`, `ClearEnd` |

`FifoQueue` is the abstract queue: a sequence written at one end, read and
removed at the other. `Kueue` instantiates it with the window of stored
messages in key order as the sequence.

Abstractions. Messages are model values and not empty (`get_` returns a null
pointer for an empty one). The 64-bit keys are integers below `KeyLimit`; 2^64
puts to one queue, after which a key would wrap, are out of any program's reach.
Every error of a store call is one status, `IOError`. `EraseAnyKey` chooses the
client: FALSE is one that erases only keys `readNext` gave it, TRUE one that
passes any key. A `put` or `clear` starts with the step that takes `putLock`, so
that `PutAndClearReturn` speaks of a call from then on. The unlocked read of `minKey` in `erase` is one atomic read, as
an aligned 64-bit load is on x64. The constructor's iterators meet no read
error; `KueueRecovery` has those.

### KeyCodec and KueueRecovery

Calls are single steps here, and processes end and start: `Open` replays the log
and runs the constructor, `Exit` ends the process, `PowerFailure` also falls back
to an earlier content. In `KeyCodec` keys are strings of `Width` bytes in base `Base`:
`putU64BE` and `getU64BE` encode and decode, `Before` is RocksDB's comparison,
`SeekToFirst` and `SeekToLast` are what the iterators find, and `Construct`
follows the constructor's arithmetic on what it decoded. A message is the number
of its put; `gone` holds what calls removed, `lost` what failures took back.
Every call succeeds, except that with `IteratorMayFail` an iterator may meet a
read error, which `findMinKey` and `findMaxKey` report as an empty kind.

`DurableQueue` is what a client may rely on over all of that: a sequence that is
appended to and taken from, together with the earlier sequences that are still at
risk (`past`, shorter than `BatchSize`). A failure returns to one of these. The
mapping reads the stored messages in key order out of `db` and of each entry of
`unsynced`; restarts, keys, counters and the encoding are not visible in it.

### KueueManager

The manager's pointer (`store`) and the object behind it (`storeMem`) are apart,
as are the map and the queues that are still allocated (`live`). `close` is four
steps (enter, delete the queues, delete the store, reset the pointer), `get` of a
new identifier two, all under the monitor; `isOpen` reads the pointer in one step
and follows it in the next, without it. Threads keep the queue they were given
and call it at any time, after `close` too. Using a deleted object is undefined:
the model notes the call in `dangling`, and goes on.

| code | actions |
|---|---|
| `openKueueManager`, constructor | `Open`, `OpenFails` |
| `get` | `GetFound`; `Get`, `GetNew` |
| `close`, destructor | `Close`, `CloseQueues`, `CloseStore`, `CloseNull`; `Destroy` |
| `compactAll`, `syncWal`; `isOpen` | `Admin`, `AdminStore`; `IsOpen`, `IsOpenStore` |
| calls on a queue | `Put`, `TakeWaits`, `Take`, `QueueDeleted` |

Destroying a manager while a call on it or on one of its queues is under way is a
client error and is left out; closing it then is not.

### Store

The body of a call runs under the monitor and is one step. The check of the
caller's `Kind` comes before the monitor and is a step of its own (`Check`), so a
close can fall in between.

| code | actions |
|---|---|
| `openStore`, constructor, `openDatabase` | `Open`, `ListFails`, `OpenFails` |
| `close`, destructor | `Close` |
| `getOrCreateKind`, `createKind` | `GetOrCreateKind` |
| `syncWAL`; `flush`, `flushNoWait` | `SyncWAL`; `Flush` |
| argument check; `validateOpen` failing under the monitor | `Check`, `CheckFails`; `Closed` |
| `put`; `remove`, `singleRemove`; `removeRange` | `Put`; `Remove`; `RemoveRange` |
| `get`; `findMinKey`, `findMaxKey`; `compact`, `compactAll` | `Get`; `FindKey`; `Compact` |
| `updateIfPresent`; `removeIfPresent`, `singleRemoveIfPresent`; `putIfAbsent` | `UpdateIfPresent`; `RemoveIfPresent`; `PutIfAbsent` |
| `occasionalWalSync`, `syncAndReset` | `OccasionalWalSync`, part of every counted write |
| time, power | `Tick`, `PowerFailure` |

`unsynced` holds, oldest first, the contents before each write that is not yet on
disk; a power failure falls back to one of them, or to none. `excused` counts the
unsynced writes that the code's own counter does not know of: one for each
`removeRange`, a batch for each batch sync that failed, since `syncAndReset`
resets the counter all the same. `alive` turns FALSE when the null `txnDb` is
followed.

Abstractions. `SingleDelete` is a delete, which is what RocksDB promises for keys
written once (`NoOverwrite` of `Kueue` shows that the queue keeps to that). All
errors of RocksDB are `IOError`, and a failed write changes nothing. A flush puts
the default kind's content on disk and no other. A background flush is a `Flush`
at some later point. Opening replays the WAL into table files. A client starts no
call on a store it has closed. `compactAll` differs from `compact` in nothing the
model can tell apart.

### KVStore

The client works on one key; a value is its length, which is what decides whether
`get_` allocates. `heap` has the length of each allocated buffer, `size` and
`data` are the fields of the `bytes` objects. Each call is one step, its throwing
paths included. `dropped` holds the buffers whose only pointer went out of scope:
in `StoreImpl::putIfAbsent`, and in the three conditional changes when the write
fails after the read (`throwForStatus` leaves before `bytes` is made). `torn`
holds the objects whose copy assignment ran out of memory after `size_` was set.

`ByteValues` is what a client relies on: every object has a byte string of its
own, and an operation on one leaves the others alone.

Abstractions. The byte strings are told apart by their length only. A torn object
may be assigned to, moved, cleared and destroyed, but is not read. Memory runs
out in `bytes::copy` only: the store's own functions are `noexcept`, so that
`bad_alloc` there ends the process.

## Runs

| run | question | answer |
|---|---|---|
| `kueue_safety` | do all operations together, with failing store calls, keep keys, count, totals and messages consistent, free every lock, and implement `FifoQueue`? | yes |
| `kueue_wakeup` | among producers and takers, with a store that fails, do sleepers wake and calls return? | yes, a take that was told of an error aside |
| `kueue_readnext_wakeup` | and when a thread calls `readNext`? | no: it consumes the notification and a take sleeps on a non-empty queue |
| `kueue_erase_empty` | is `count` never negative? | no: `erase(minKey)` on an empty queue makes it -1 |
| `store_calls` | with every call, closes, restarts, power failures and errors: is the null pointer followed by a call, does the status tell what a call did, how many writes are at risk, are all families listed? | no; yes; fewer than a batch, and what is excused; yes |
| `store_open_fails` | and when opening the database fails? | the null `txnDb` is followed |
| `store_close_sync` | is everything on disk once `close` returned? | no: `open` is cleared before the sync and the flush test it |
| `manager_calls` | do gets, closes, destructor and queue calls of several threads leave one queue per identifier with the right bounds, and delete everything once? | yes |
| `manager_delete` | and when a client deletes the queue, as `KueueManager.h` says it must? | no: `close` deletes it again |
| `recovery_crash` | does the constructor find the queue again after any restart and power failure, in order, how much is undone, and does the whole implement `DurableQueue`? | yes; less than a batch; yes |
| `recovery_read_error` | and when an iterator of the constructor meets a read error? | no: the queue is valid, with bounds that hide or overwrite messages |
| `client_buffers` | has every buffer one owner, and do `bytes` objects behave as values? | yes, what is in `dropped` aside |

Three behaviours are part of the model and of passing runs, and deserve a
reader's attention. A take that a failing store ends does not pass its
notification on; the wakeup properties hold only because they excuse the time
until that client takes again (`GaveUp`). The loser of two racing erases of one
key gets `true` without removing anything; `TrueEraseRemoves` says what `true`
does mean, that the message is gone. Buffers are lost in the places that
`dropped` names; `OneOwner` says that there are no others.

Deadlock is not checked by TLC for the queue, the store and the manager: clients
may stop calling, a take may wait forever on an empty queue, and the bounds stop
puts. For the two locks of the queue `LocksComeFree` says what deadlock freedom
means: a holder is in a call and awake, and only the holder of `putLock` waits for
a lock, `takeLock`.
It is checked for `recovery_crash` and `client_buffers`.

Bounds. Three threads (four in `kueue_wakeup`) let two puts, two removals, or a
put, a removal and a sleeper overlap; puts, takes, reads, erases and `clear` each
meet every other of these kinds in another thread. `KeyLimit` 2 or 3 allows the queue to go empty, hold one and
hold two messages, which are the cases the code tells apart (`c == 0`, `c > 1`).
Two messages suffice to see a swap; who is woken does not depend on them, so
that `kueue_wakeup` has one. The constructor starts on an empty kind and on one
whose only key is not zero.

`store_calls` has two threads, two kinds, one key, an ordinary and an empty value.
`BatchSize` 2 stands for 16384: the code only tests whether the counter is a
multiple of it. `MaxUnsynced` bounds the log that `removeRange` and failed syncs
let grow; with 2 the sync of a full batch can fail, and the next batch is then
written on top of it. `LossSafe` needs no bound. The run's `VIEW` leaves out
`last`, what was returned last: no action reads it, and `StatusTellsEffect` reads
only its new value, in steps in which a call returns.

`manager_calls` has three threads, two identifiers and three queue objects: one
object more than identifiers, so that a second queue for one identifier would be
constructed if `get` allowed it. `recovery_crash` has keys of three binary digits,
enough for byte order and integer order to differ if the encoding were the other
way round, seven puts, and a batch of four. `client_buffers` has three objects
and four buffers, so that all objects can hold one and one more can be lost.

Symmetry is used on messages, threads, identifiers and queue objects, which are
only compared with each other, and in no run with a liveness property.

Fairness (`kueue_wakeup`, `kueue_readnext_wakeup`). Starting a call is up to the
client and is never fair. A running thread keeps running (weak fairness). A
thread that asks for `takeLock` gets it eventually (strong fairness: no holder
keeps it, and a mutex does not starve a thread forever). The deadline of
`wait_for` is absolute and passes (strong fairness). Spurious wakeups are possible
and never relied on.

## Proofs

All theorems hold for any number of threads, keys, messages, objects or buffers.
They rest on the `ASSUME` of each module, which TLC evaluates in the runs, and on
the assumptions named here.

**Queue** (`KueueInvariantProofs`, `KueueProofs`). Each theorem assumes that erase
is called only with keys that were read (`~EraseAnyKey`); `kueue_erase_empty` shows
that it is needed. None of the properties is inductive alone. `IInv` is: the types;
who holds which lock follows from where each thread is (`LockInv`); `count` is the
distance of the keys, less a put in flight, and positive while a removal is in its
critical section (`CountInv`); a key is stored exactly if it lies in the window
(`WindowInv`); a key a reader holds is below `minKey`, or is `minKey` and the queue
is not empty (`KeyInv`, which is what keeps `erase` from running on an empty
queue). One lemma per conjunct of `KueueInvariantProofs` shows it preserved, with a
case per action. From it, in `KueueProofs`, follow `TypeCorrect`, `LocksSafe`,
`WindowSafe`, `FetchSafe` and `OverwriteSafe`. `EraseSafe` adds `CallInv` (which
call a thread at a label is in) and `ReadInv`: a key that was read and is still in
the window still holds the message that was shown. `TrueEraseSafe` follows from the
same invariants. `BalanceStep` says how `count` and the totals move in each step;
from it come `CountNeverNegative` (the property that `kueue_erase_empty` refutes
for other clients) and, in `KueueFifoProofs`, `TotalsSafe`.

**Wakeups** (last part of `KueueProofs`). `WakeupSafe` proves `NoLostWakeup` when
nobody calls `readNext` (`NoReaders`) and threads that take do nothing else
(`TakersOnlyTake`); the store may fail. The extra invariant is that a put to an
empty queue still has its signal pending while a taker stands between finding the
queue empty and waiting. `kueue_readnext_wakeup` shows that the first assumption is
needed. The second one is about the excuse only: a thread that failed a take and
then puts would overwrite the status that the property looks at.

**FIFO** (`KueueFifoProofs`, `WindowProofs`). `CountSafe` counts the window.
`KueueRefinesFifo` proves that `Kueue` implements `FifoQueue`, with `~EraseAnyKey`.
From `IInv`, each step leaves the window of messages alone, appends one at its end,
or removes the first; `WindowProofs` turns that into the step on sequences.

**Store** (`StoreProofs`). `StoreTypeCorrect` rests on what one call may do to the
log (`CallShape`). `KindsSafe`, `CallsSafe` and `NullSafe` follow from `OpenInv`:
the pointer is set exactly while the store is open, and the map then lists the
families. `NullSafe` assumes that opening does not fail (`store_open_fails` shows
why). `LossSafe` needs the strengthening that no more writes are unsynced than the
counter and `excused` say together; it assumes nothing of syncs. `StatusSafe` proves
the action property `StatusTellsEffect` call by call.

**Key encoding** (first part of `KueueRecoveryProofs`). `CodecCorrect` holds for
every `Base` above 1 and every `Width`, 256 and 8 among them. `Prefixes` says that
the first i bytes of a key are the quotient by the weight of the rest; then
decoding is that fact at i = `Width`, and two keys differ first at the byte where
their prefixes do. The inductions over the bytes are by least counterexample
(`Least`, `IntervalInduction`): the set of the bytes at which a claim fails has a
least element. `KeyOrderSafe` follows without any assumption.

**Recovery** (`KueueRecoveryProofs`). The theorems assume that no iterator fails
(`~IteratorMayFail`; `recovery_read_error` shows why). `RInv` says of the content of
the store, and of every content a failure may fall back to, that its keys are a
window, its messages are in order, the removed ones among them come first and are
fewer than a batch (`Sound`); and that an earlier content differs from the present
one by at most one message per write since (`Near`). The bounds of the constructor,
`ValidSafe`, the order, and both bounds on what a failure undoes follow.
`RecoveryRefines` proves that `KueueRecovery` implements `DurableQueue`: by
`QueueWindow` the stored messages are the window from `minKey` to `maxKey`, so that
a put appends and a removal takes the head; `LogStep` maps the unsynced contents; a
power failure returns to one of them, or is a sync.

**Manager** (`KueueManagerProofs`). `MInv` ties together who holds the monitor and
where each thread is, which queues are allocated, mapped and named by handles, and
the bounds each queue caches. `ManagerTypeCorrect`, `BoundsSafe`, `OneQueueSafe`,
`MonitorSafe`, `DeletedOnceSafe` and `NothingLeftSafe` follow without further
assumptions on the calls of the manager. That a client does not delete a queue
itself is part of `Spec`; `manager_delete` has the specification in which it does.

**Client** (`KVStoreProofs`). `CInv` is the types, the ownership relation and the
sizes of buffers together; none is inductive without the others. From it follow
`OneOwnerSafe`, `DeletesSafe`, `SizeSafe`, and the refinement `ClientRefines`.

Every safety property and action property of a passing run is thus proved. Only
model-checked are the three liveness properties of `kueue_wakeup`
(`SleepingTakeIsWoken`, `TimedCallReturns`, `PutAndClearReturn`): the prover does
not reason about fairness and ENABLED.

## Not modelled

- RocksDB. `src/include/rocksdb` is the header set of the release the library
  links to, about 40000 of the repository's 43000 lines; it declares a database
  whose code is not in the repository. The models take from it what librocks
  relies on: `Slice::compare`, the loss of unsynced log entries, the statuses.
- The logger: formatting and output, used while a store opens and read by nothing.
- Option values (`open_`, `BlockBasedTableConfig`), exception texts, the getters,
  comparison and hashing of kinds, and the pure interfaces: no state changes.
- The lookups of kinds in `StoreImpl` and `KVStore` that change nothing.
- A Kind's memory after `close`: the model's clients start no call on a store
  they closed.
- The reusable transaction of the store, and the two key buffers the queue's
  constructor receives. Neither is ever deleted; nothing else depends on them.
- Queue, store and manager as one composed state machine: the queue's view of a
  store call is one atomic step that succeeds or changes nothing, which is what
  `StatusTellsEffect` shows of `Store`; `KueueManager` and `KueueRecovery` each
  take from the queue the window that `StoredIsWindow` shows of `Kueue`.
