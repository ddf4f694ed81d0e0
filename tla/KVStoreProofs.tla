--------------------------- MODULE KVStoreProofs ---------------------------
(***************************************************************************)
(* KVStore and bytes for any number of objects and buffers and values of   *)
(* any length: every buffer has one owner, nothing is deleted twice, and   *)
(* bytes objects behave as values.                                         *)
(***************************************************************************)
EXTENDS KVStore, FiniteSetTheorems, TLAPS

(* What holds of pointers and buffers. *)
Memory ==
  /\ \A o \in exists : data[o] # Null =>
       size[o] > 0 /\ heap[data[o]] = size[o] /\ data[o] \notin dropped
  /\ \A o, p \in exists : data[o] # Null /\ data[o] = data[p] => o = p
  /\ \A o \in exists : data[o] = Null => (size[o] = 0 \/ o \in torn)
  /\ \A b \in Buffers : heap[b] # 0 /\ b \notin dropped => \E o \in exists : data[o] = b
  /\ \A b \in dropped : heap[b] # 0

(* The types, without the status of the KVStore and what is stored. *)
Fields ==
  /\ heap \in [Buffers -> Lengths]
  /\ exists \in SUBSET Objects
  /\ size \in [Objects -> Lengths]
  /\ data \in [Objects -> Buffers \cup {Null}]
  /\ dropped \in SUBSET Buffers
  /\ torn \in SUBSET exists

(* The inductive invariant. *)
CInv ==
  /\ kv \in {"none", "open", "closed"}
  /\ stored \in Lengths \cup {NoValue}
  /\ Fields
  /\ Memory
  /\ badDelete = FALSE

(* A read leaves nothing, or a fresh buffer of the length it reports. *)
LEMMA FetchResult ==
  ASSUME NEW b, NEW n \in Lengths \cup {NoValue}, Fetch(b, n)
  PROVE  \/ b = Null /\ heap' = heap /\ Length(n) = 0
         \/ /\ b \in Buffers /\ heap[b] = 0 /\ n \in Lengths /\ n > 0 /\ Length(n) = n
            /\ heap' = [heap EXCEPT ![b] = n]
  BY ClientAssumption DEF Fetch, Allocate, Length, Lengths

(* An object that takes a fetched buffer over is its only owner. *)
LEMMA FetchWrap ==
  ASSUME Fields, Memory, NEW o \in Objects, o \notin exists,
         NEW b, NEW n \in Lengths \cup {NoValue}, Fetch(b, n),
         exists' = exists \cup {o},
         size' = [size EXCEPT ![o] = Length(n)],
         data' = [data EXCEPT ![o] = b],
         torn' = torn, dropped' = dropped
  PROVE  Fields' /\ Memory'
<1> USE ClientAssumption
<1>1. CASE b = Null /\ heap' = heap /\ Length(n) = 0
  <2>1. Fields'
    BY <1>1 DEF Fields, Lengths
  <2>2. Memory'
    BY <1>1 DEF Fields, Memory, Lengths
  <2> QED
    BY <2>1, <2>2
<1>2. CASE /\ b \in Buffers /\ heap[b] = 0 /\ n \in Lengths /\ n > 0 /\ Length(n) = n
           /\ heap' = [heap EXCEPT ![b] = n]
  <2>1. Fields'
    BY <1>2 DEF Fields
  <2>2. b \notin dropped /\ \A p \in exists : data[p] # b
    BY <1>2 DEF Fields, Memory, Lengths
  <2>3. Memory'
    BY <1>2, <2>2 DEF Fields, Memory, Lengths
  <2> QED
    BY <2>1, <2>3
<1> QED
  BY <1>1, <1>2, FetchResult

(* A fetched buffer that is dropped is recorded as such. *)
LEMMA FetchDrop ==
  ASSUME Fields, Memory, NEW b, NEW n \in Lengths \cup {NoValue}, Fetch(b, n),
         dropped' = dropped \cup ({b} \ {Null}), UNCHANGED objVars
  PROVE  Fields' /\ Memory'
<1> USE ClientAssumption
<1>0. exists' = exists /\ size' = size /\ data' = data /\ torn' = torn
  BY DEF objVars
<1>1. CASE b = Null /\ heap' = heap
  BY <1>0, <1>1 DEF Fields, Memory
<1>2. CASE /\ b \in Buffers /\ heap[b] = 0 /\ n \in Lengths /\ n > 0
           /\ heap' = [heap EXCEPT ![b] = n]
  <2>1. Fields'
    BY <1>0, <1>2 DEF Fields
  <2>2. b \notin dropped /\ \A p \in exists : data[p] # b
    BY <1>2 DEF Fields, Memory, Lengths
  <2>3. Memory'
    BY <1>0, <1>2, <2>2 DEF Fields, Memory, Lengths
  <2> QED
    BY <2>1, <2>3
<1> QED
  BY <1>1, <1>2, FetchResult

(* clear deletes a buffer that is allocated and held by no other object. *)
LEMMA ClearSafe ==
  ASSUME Fields, Memory, NEW o \in exists, badDelete = FALSE, Clear(o)
  PROVE  /\ badDelete' = FALSE
         /\ \/ data[o] = Null /\ ClearedHeap(o) = heap
            \/ /\ data[o] \in Buffers /\ heap[data[o]] # 0
               /\ ClearedHeap(o) = [heap EXCEPT ![data[o]] = 0]
<1> USE ClientAssumption
<1>1. CASE data[o] = Null
  <2>1. ClearedHeap(o) = heap
    BY <1>1 DEF ClearedHeap
  <2>2. badDelete' = FALSE
    BY Zenon, <1>1 DEF Clear
  <2> QED
    BY <1>1, <2>1, <2>2
<1>2. CASE data[o] # Null
  <2>1. data[o] \in Buffers /\ size[o] > 0 /\ heap[data[o]] # 0
    BY <1>2 DEF Fields, Memory, Lengths
  <2>2. ClearedHeap(o) = [heap EXCEPT ![data[o]] = 0]
    BY <1>2, <2>1 DEF ClearedHeap
  <2>3. badDelete' = FALSE
    BY Zenon, <2>1 DEF Clear
  <2> QED
    BY <2>1, <2>2, <2>3
<1> QED
  BY Zenon, <1>1, <1>2

(***************************************************************************)
(* The steps of bytes preserve the types and what holds of the pointers.   *)
(***************************************************************************)
(* A copy has a buffer of its own. *)
LEMMA StepConstruct ==
  ASSUME Fields, Memory, NEW o \in Objects, NEW p \in Objects, Construct(o, p)
  PROVE  Fields' /\ Memory'
<1> USE ClientAssumption
<1>1. PICK b : Fetch(b, size[p]) /\ data' = [data EXCEPT ![o] = b]
  BY Zenon DEF Construct
<1>2. /\ o \notin exists /\ exists' = exists \cup {o} /\ torn' = torn
      /\ size' = [size EXCEPT ![o] = size[p]] /\ dropped' = dropped
  BY DEF Construct, NewCopy, Bytes
<1>3. size[p] \in Lengths /\ Length(size[p]) = size[p]
  BY DEF Fields, Length
<1> QED
  BY Zenon, <1>1, <1>2, <1>3, FetchWrap

(* A move passes the buffer on. *)
LEMMA StepMoveConstruct ==
  ASSUME Fields, Memory, NEW o \in Objects, NEW p \in Objects, MoveConstruct(o, p)
  PROVE  Fields' /\ Memory'
<1> USE ClientAssumption
<1>1. /\ o \notin exists /\ p \in exists /\ o # p /\ exists' = exists \cup {o}
      /\ size' = [size EXCEPT ![o] = size[p], ![p] = 0]
      /\ data' = [data EXCEPT ![o] = data[p], ![p] = Null]
      /\ torn' = IF p \in torn THEN (torn \ {p}) \cup {o} ELSE torn
      /\ dropped' = dropped /\ heap' = heap
  BY DEF MoveConstruct, Bytes
<1>2. 0 \in Lengths
  BY DEF Lengths
<1>3. Fields'
  BY <1>1, <1>2 DEF Fields
<1>4. /\ data'[o] = data[p] /\ data'[p] = Null /\ size'[o] = size[p] /\ size'[p] = 0
      /\ \A q \in exists : q # p => data'[q] = data[q] /\ size'[q] = size[q]
  BY <1>1 DEF Fields
<1>5. Memory'
  <2>1. \A q \in exists' : data'[q] # Null =>
          size'[q] > 0 /\ heap'[data'[q]] = size'[q] /\ data'[q] \notin dropped'
    BY <1>1, <1>4 DEF Fields, Memory
  <2>2. \A q, r \in exists' : data'[q] # Null /\ data'[q] = data'[r] => q = r
    BY <1>1, <1>4 DEF Fields, Memory
  <2>3. \A q \in exists' : data'[q] = Null => (size'[q] = 0 \/ q \in torn')
    BY <1>1, <1>4 DEF Fields, Memory
  <2>4. \A b \in Buffers : heap'[b] # 0 /\ b \notin dropped' => \E q \in exists' : data'[q] = b
    BY <1>1, <1>4 DEF Fields, Memory
  <2>5. \A b \in dropped' : heap'[b] # 0
    BY <1>1 DEF Memory
  <2> QED
    BY <2>1, <2>2, <2>3, <2>4, <2>5 DEF Memory
<1> QED
  BY <1>3, <1>5

(* An assignment gives up the old buffer and takes a new one. *)
LEMMA StepAssign ==
  ASSUME Fields, Memory, badDelete = FALSE,
         NEW o \in Objects, NEW p \in Objects, Assign(o, p)
  PROVE  Fields' /\ Memory' /\ badDelete' = FALSE
<1> USE ClientAssumption
<1> DEFINE freed == ClearedHeap(o)
<1>1. /\ o # p /\ o \in exists /\ p \in exists /\ p \notin torn /\ Clear(o)
      /\ CopyFrom(o, p, freed) /\ exists' = exists /\ dropped' = dropped
  BY DEF Assign, AssignSelf, Bytes
<1>2. /\ badDelete' = FALSE
      /\ \/ data[o] = Null /\ freed = heap
         \/ /\ data[o] \in Buffers /\ heap[data[o]] # 0
            /\ freed = [heap EXCEPT ![data[o]] = 0]
  BY Zenon, <1>1, ClearSafe
<1> HIDE DEF freed
<1>3. size' = [size EXCEPT ![o] = size[p]]
  BY <1>1 DEF CopyFrom
<1>4. freed \in [Buffers -> Lengths]
  BY <1>2 DEF Fields, Lengths
<1>5. /\ \A q \in exists \ {o} : data[q] # Null => freed[data[q]] = heap[data[q]]
      /\ \A b \in Buffers : freed[b] # 0 => freed[b] = heap[b] /\ b # data[o]
      /\ \A b \in dropped : freed[b] # 0
  BY <1>1, <1>2 DEF Fields, Memory
<1>6. CASE /\ data' = [data EXCEPT ![o] = Null] /\ heap' = freed
           /\ (size[p] = 0 /\ torn' = torn \ {o}) \/ torn' = torn \cup {o}
  <2>1. Fields'
    BY <1>1, <1>3, <1>4, <1>6 DEF Fields
  <2>2. /\ data'[o] = Null /\ size'[o] = size[p]
        /\ \A q \in exists : q # o => data'[q] = data[q] /\ size'[q] = size[q]
    BY <1>1, <1>3, <1>6 DEF Fields
  <2>3. Memory'
    <3>1. \A q \in exists' : data'[q] # Null =>
            size'[q] > 0 /\ heap'[data'[q]] = size'[q] /\ data'[q] \notin dropped'
      BY <1>1, <1>5, <1>6, <2>2 DEF Fields, Memory
    <3>2. \A q, r \in exists' : data'[q] # Null /\ data'[q] = data'[r] => q = r
      BY <1>1, <2>2 DEF Memory
    <3>3. \A q \in exists' : data'[q] = Null => (size'[q] = 0 \/ q \in torn')
      BY <1>1, <1>6, <2>2 DEF Memory
    <3>4. \A b \in Buffers : heap'[b] # 0 /\ b \notin dropped' => \E q \in exists' : data'[q] = b
      BY <1>1, <1>5, <1>6, <2>2 DEF Memory
    <3>5. \A b \in dropped' : heap'[b] # 0
      BY <1>1, <1>5, <1>6
    <3> QED
      BY <3>1, <3>2, <3>3, <3>4, <3>5 DEF Memory
  <2> QED
    BY <1>2, <2>1, <2>3
<1>7. ASSUME NEW b \in Buffers, size[p] > 0, freed[b] = 0,
             heap' = [freed EXCEPT ![b] = freed[data[p]]],
             data' = [data EXCEPT ![o] = b], torn' = torn \ {o}
      PROVE  Fields' /\ Memory'
  <2>0. data[p] # Null /\ data[p] \in Buffers
    BY <1>1, <1>7 DEF Fields, Memory, Lengths
  <2>1. Fields'
    BY <1>1, <1>3, <1>4, <1>7, <2>0 DEF Fields
  <2>2. /\ data'[o] = b /\ size'[o] = size[p]
        /\ \A q \in exists : q # o => data'[q] = data[q] /\ size'[q] = size[q]
    BY <1>1, <1>3, <1>7 DEF Fields
  <2>3. b \notin dropped /\ \A q \in exists \ {o} : data[q] # b
    <3>1. \A q \in exists \ {o} : data[q] # Null => freed[data[q]] # 0
      BY <1>5 DEF Fields, Memory, Lengths
    <3> QED
      BY <1>5, <1>7, <3>1
  <2>4. /\ heap'[b] = size[p] /\ \A c \in Buffers : c # b => heap'[c] = freed[c]
    BY <1>1, <1>4, <1>5, <1>7, <2>0 DEF Memory
  <2>5. Memory'
    <3>1. \A q \in exists' : data'[q] # Null =>
            size'[q] > 0 /\ heap'[data'[q]] = size'[q] /\ data'[q] \notin dropped'
      BY <1>1, <1>5, <1>7, <2>2, <2>3, <2>4 DEF Fields, Memory
    <3>2. \A q, r \in exists' : data'[q] # Null /\ data'[q] = data'[r] => q = r
      BY <1>1, <2>2, <2>3 DEF Memory
    <3>3. \A q \in exists' : data'[q] = Null => (size'[q] = 0 \/ q \in torn')
      BY <1>1, <1>7, <2>2 DEF Memory
    <3>4. \A c \in Buffers : heap'[c] # 0 /\ c \notin dropped' => \E q \in exists' : data'[q] = c
      BY <1>1, <1>5, <2>2, <2>4 DEF Memory
    <3>5. \A c \in dropped' : heap'[c] # 0
      BY <1>1, <1>5, <2>3, <2>4 DEF Fields
    <3> QED
      BY <3>1, <3>2, <3>3, <3>4, <3>5 DEF Memory
  <2> QED
    BY <2>1, <2>5
<1>8. Fields' /\ Memory'
  BY Zenon, <1>1, <1>6, <1>7 DEF CopyFrom
<1> QED
  BY <1>2, <1>8

(* A swap exchanges two owners. *)
LEMMA StepSwap ==
  ASSUME Fields, Memory, NEW o \in Objects, NEW p \in Objects, Swap(o, p)
  PROVE  Fields' /\ Memory'
<1> USE ClientAssumption
<1>1. /\ o \in exists /\ p \in exists /\ exists' = exists
      /\ size' = [size EXCEPT ![o] = size[p], ![p] = size[o]]
      /\ data' = [data EXCEPT ![o] = data[p], ![p] = data[o]]
      /\ torn' = {q \in exists : (IF q = o THEN p ELSE IF q = p THEN o ELSE q) \in torn}
      /\ dropped' = dropped /\ heap' = heap
  BY DEF Swap, Bytes
<1>2. Fields'
  BY <1>1 DEF Fields
<1> DEFINE other(q) == IF q = o THEN p ELSE IF q = p THEN o ELSE q
<1>3. \A q \in exists :
        /\ other(q) \in exists /\ other(other(q)) = q
        /\ data'[q] = data[other(q)] /\ size'[q] = size[other(q)]
        /\ other(q) \in torn => q \in torn'
  BY <1>1 DEF Fields
<1>4. exists' = exists /\ dropped' = dropped /\ heap' = heap
  BY <1>1
<1> HIDE DEF other
<1>5. Memory'
  <2>1. \A q \in exists' : data'[q] # Null =>
          size'[q] > 0 /\ heap'[data'[q]] = size'[q] /\ data'[q] \notin dropped'
    BY <1>3, <1>4 DEF Memory
  <2>2. ASSUME NEW q \in exists, NEW r \in exists, data'[q] # Null, data'[q] = data'[r]
        PROVE  q = r
    <3>1. other(q) = other(r)
      BY <1>3, <2>2 DEF Memory
    <3> QED
      BY <1>3, <3>1
  <2>3. \A q \in exists' : data'[q] = Null => (size'[q] = 0 \/ q \in torn')
    BY <1>3, <1>4 DEF Memory
  <2>4. ASSUME NEW b \in Buffers, heap[b] # 0, b \notin dropped
        PROVE  \E q \in exists : data'[q] = b
    <3>1. PICK r \in exists : data[r] = b
      BY <2>4 DEF Memory
    <3>2. other(r) \in exists /\ data'[other(r)] = b
      BY <1>3, <3>1
    <3> QED
      BY <3>2
  <2>5. \A b \in dropped' : heap'[b] # 0
    BY <1>4 DEF Memory
  <2> QED
    BY <1>4, <2>1, <2>2, <2>3, <2>4, <2>5 DEF Memory
<1> QED
  BY <1>2, <1>5

(* clear and ~bytes free the buffer with its only pointer. *)
LEMMA StepEmpty ==
  ASSUME Fields, Memory, badDelete = FALSE, NEW o \in Objects, Empty(o)
  PROVE  Fields' /\ Memory' /\ badDelete' = FALSE
<1> USE ClientAssumption
<1>1. /\ o \in exists /\ Clear(o) /\ heap' = ClearedHeap(o)
      /\ size' = [size EXCEPT ![o] = 0] /\ data' = [data EXCEPT ![o] = Null]
      /\ torn' = torn \ {o} /\ (exists' = exists \/ exists' = exists \ {o})
      /\ dropped' = dropped
  BY DEF Empty, Bytes
<1>2. /\ badDelete' = FALSE
      /\ \/ data[o] = Null /\ heap' = heap
         \/ /\ data[o] \in Buffers /\ heap[data[o]] # 0
            /\ heap' = [heap EXCEPT ![data[o]] = 0]
  BY Zenon, <1>1, ClearSafe
<1>3. Fields'
  <2>1. heap' \in [Buffers -> Lengths] /\ 0 \in Lengths
    BY <1>2 DEF Fields, Lengths
  <2> QED
    BY <1>1, <2>1 DEF Fields
<1>4. /\ data'[o] = Null /\ size'[o] = 0
      /\ \A q \in exists \ {o} : data'[q] = data[q] /\ size'[q] = size[q]
  BY <1>1 DEF Fields
<1>5. /\ \A q \in exists \ {o} : data[q] # Null => heap'[data[q]] = heap[data[q]]
      /\ \A b \in Buffers : heap'[b] # 0 => heap'[b] = heap[b] /\ b # data[o]
      /\ \A b \in dropped : heap'[b] # 0
  BY <1>1, <1>2 DEF Fields, Memory
<1>6. Memory'
  <2>1. \A q \in exists' : data'[q] # Null =>
          size'[q] > 0 /\ heap'[data'[q]] = size'[q] /\ data'[q] \notin dropped'
    BY <1>1, <1>4, <1>5 DEF Memory
  <2>2. \A q, r \in exists' : data'[q] # Null /\ data'[q] = data'[r] => q = r
    BY <1>1, <1>4 DEF Memory
  <2>3. \A q \in exists' : data'[q] = Null => (size'[q] = 0 \/ q \in torn')
    BY <1>1, <1>4 DEF Memory
  <2>4. \A b \in Buffers : heap'[b] # 0 /\ b \notin dropped' => \E q \in exists' : data'[q] = b
    BY <1>1, <1>4, <1>5 DEF Memory
  <2>5. \A b \in dropped' : heap'[b] # 0
    BY <1>1, <1>5
  <2> QED
    BY <2>1, <2>2, <2>3, <2>4, <2>5 DEF Memory
<1> QED
  BY <1>2, <1>3, <1>6

-----------------------------------------------------------------------------
(* The calls of KVStore that leave buffers and objects alone. *)
Quiet == Open \/ Close \/ Delete \/ Throw \/ put \/ remove \/ UNCHANGED vars

(* They keep the invariant. *)
LEMMA StepQuiet ==
  ASSUME CInv, Quiet
  PROVE  CInv'
<1>1. /\ heap' = heap /\ exists' = exists /\ size' = size /\ data' = data /\ torn' = torn
      /\ dropped' = dropped
  BY DEF Quiet, Open, Close, Delete, Throw, put, remove, Write, vars, objVars
<1>2. badDelete' = badDelete
  BY DEF Quiet, Open, Close, Delete, Throw, put, remove, Write, vars
<1>3. kv' \in {"none", "open", "closed"}
  BY DEF CInv, Quiet, Open, Close, Delete, Throw, put, remove, Write, vars
<1>4. stored' \in Lengths \cup {NoValue}
  BY DEF CInv, Quiet, Open, Close, Delete, Throw, put, remove, Write, vars
<1>5. Fields' /\ Memory'
  BY <1>1 DEF CInv, Fields, Memory
<1>6. badDelete' = FALSE
  BY <1>2 DEF CInv
<1> QED
  BY <1>3, <1>4, <1>5, <1>6 DEF CInv

(* The calls of KVStore that read a value or a key. *)
LEMMA StepRead ==
  ASSUME CInv, NEW o \in Objects, get(o) \/ findKey(o) \/ changeIfPresent(o)
  PROVE  CInv'
<1> USE ClientAssumption
<1>0. Fields /\ Memory /\ stored \in Lengths \cup {NoValue}
  BY DEF CInv
<1>1. ASSUME NEW b, NEW n \in Lengths \cup {NoValue}, Fetch(b, n), Wrap(o, b, Length(n))
      PROVE  Fields' /\ Memory'
  BY Zenon, <1>0, <1>1, FetchWrap DEF Wrap
<1>2. kv' = kv /\ stored' \in Lengths \cup {NoValue}
  BY <1>0 DEF get, findKey, changeIfPresent, WriteFails
<1>3. badDelete' = FALSE
  BY DEF CInv, get, findKey, changeIfPresent, WriteFails, Wrap
<1>4. Fields' /\ Memory'
  <2>1. CASE get(o)
    BY <1>0, <1>1, <2>1 DEF get
  <2>2. CASE findKey(o)
    <3> DEFINE n == IF stored = NoValue THEN 0 ELSE KeyLen
    <3>1. n \in Lengths /\ Length(n) = n
      BY DEF Lengths, Length
    <3>2. PICK b : Fetch(b, n) /\ Wrap(o, b, n)
      BY <2>2 DEF findKey
    <3> QED
      BY <1>1, <3>1, <3>2
  <2>3. CASE changeIfPresent(o)
    <3>1. PICK b : Fetch(b, stored) /\ (Wrap(o, b, Length(stored)) \/ WriteFails(b))
      BY <2>3 DEF changeIfPresent
    <3>2. CASE WriteFails(b)
      BY <1>0, <3>1, <3>2, FetchDrop DEF WriteFails
    <3> QED
      BY <1>0, <1>1, <3>1, <3>2
  <2> QED
    BY <2>1, <2>2, <2>3
<1>5. kv' \in {"none", "open", "closed"}
  BY <1>2 DEF CInv
<1> QED
  BY <1>2, <1>3, <1>4, <1>5 DEF CInv

(* putIfAbsent drops what it reads. *)
LEMMA StepPutIfAbsent ==
  ASSUME CInv, putIfAbsent
  PROVE  CInv'
<1>0. Fields /\ Memory /\ stored \in Lengths \cup {NoValue}
  BY DEF CInv
<1>1. UNCHANGED objVars /\ kv' = kv /\ stored' \in Lengths \cup {NoValue}
  BY <1>0 DEF putIfAbsent
<1>2. ASSUME heap' = heap, dropped' = dropped
      PROVE  Fields' /\ Memory'
  <2>1. exists' = exists /\ size' = size /\ data' = data /\ torn' = torn
    BY <1>1 DEF objVars
  <2>2. Fields'
    BY <1>0, <1>2, <2>1 DEF Fields
  <2>3. Memory'
    BY <1>0, <1>2, <2>1 DEF Memory
  <2> QED
    BY <2>2, <2>3
<1>3. ASSUME NEW b, Fetch(b, stored), dropped' = dropped \cup ({b} \ {Null})
      PROVE  Fields' /\ Memory'
  BY <1>0, <1>1, <1>3, FetchDrop
<1>4. Fields' /\ Memory'
  <2>1. \/ heap' = heap /\ dropped' = dropped
        \/ \E b : Fetch(b, stored) /\ dropped' = dropped \cup ({b} \ {Null})
    BY DEF putIfAbsent
  <2> QED
    BY <1>2, <1>3, <2>1
<1>5. badDelete' = FALSE
  BY DEF CInv, putIfAbsent
<1>6. kv' \in {"none", "open", "closed"}
  BY <1>1 DEF CInv
<1> QED
  BY <1>1, <1>4, <1>5, <1>6 DEF CInv

(* The operations of bytes. *)
LEMMA StepBytes ==
  ASSUME CInv, NEW o \in Objects, NEW p \in Objects,
         Construct(o, p) \/ MoveConstruct(o, p) \/ Assign(o, p) \/ Swap(o, p) \/ Empty(o)
  PROVE  CInv'
<1>1. kv' = kv /\ stored' = stored
  BY DEF Construct, NewCopy, MoveConstruct, Assign, AssignSelf, Swap, Empty, Bytes
<1>2. Fields /\ Memory /\ badDelete = FALSE
  BY DEF CInv
<1>3. Fields' /\ Memory'
  BY Zenon, <1>2, StepConstruct, StepMoveConstruct, StepAssign, StepSwap, StepEmpty
<1>4. badDelete' = FALSE
  <2>1. CASE Construct(o, p) \/ MoveConstruct(o, p) \/ Swap(o, p)
    BY <1>2, <2>1 DEF Construct, NewCopy, MoveConstruct, Swap
  <2> QED
    BY Zenon, <1>2, <2>1, StepAssign, StepEmpty
<1>5. kv' \in {"none", "open", "closed"} /\ stored' \in Lengths \cup {NoValue}
  BY <1>1 DEF CInv
<1> QED
  BY <1>3, <1>4, <1>5 DEF CInv

(* The client keeps the invariant whatever calls throw and whenever memory *)
(* runs out.                                                               *)
THEOREM ClientInvariance == Spec => []CInv
<1>1. Init => CInv
  <2> SUFFICES ASSUME Init PROVE CInv
    OBVIOUS
  <2>1. Fields /\ Memory
    BY ClientAssumption DEF Init, Fields, Memory, Lengths
  <2>2. badDelete = FALSE
    BY DEF Init
  <2> QED
    BY <2>1, <2>2 DEF Init, CInv
<1>2. CInv /\ [Next]_vars => CInv'
  BY StepQuiet, StepRead, StepPutIfAbsent, StepBytes DEF Next, Quiet
<1> QED
  BY <1>1, <1>2, PTL DEF Spec

(* Every variable keeps its type. *)
THEOREM ClientTypeCorrect == Spec => []TypeOK
<1>1. CInv => TypeOK
  <2> SUFFICES ASSUME CInv PROVE TypeOK
    OBVIOUS
  <2>1. badDelete \in BOOLEAN
    BY Zenon DEF CInv
  <2> QED
    BY <2>1 DEF CInv, Fields, TypeOK
<1> QED
  BY <1>1, ClientInvariance, PTL

(* Every allocated buffer has one owner: nothing leaks but what the two    *)
(* dropping paths drop, and no object points to a freed buffer.            *)
THEOREM OneOwnerSafe == Spec => []OneOwner
<1>1. CInv => OneOwner
  <2> SUFFICES ASSUME CInv, NEW b \in Buffers
               PROVE  IF heap[b] = 0 \/ b \in dropped
                        THEN Holders(b) = {} ELSE Cardinality(Holders(b)) = 1
    BY DEF OneOwner
  <2>1. CASE heap[b] = 0 \/ b \in dropped
    BY <2>1, ClientAssumption DEF CInv, Memory, Holders
  <2>2. CASE ~(heap[b] = 0 \/ b \in dropped)
    <3>1. PICK o \in exists : data[o] = b
      BY <2>2 DEF CInv, Memory
    <3>2. Holders(b) = {o}
      BY <3>1, ClientAssumption DEF CInv, Memory, Holders
    <3>3. Cardinality({o}) = 1
      BY FS_Singleton
    <3> QED
      BY <2>2, <3>2, <3>3
  <2> QED
    BY <2>1, <2>2
<1> QED
  BY <1>1, ClientInvariance, PTL

(* However results are copied, moved, swapped, cleared and destroyed, no   *)
(* buffer is deleted twice.                                                *)
THEOREM DeletesSafe == Spec => []NoBadDelete
<1>1. CInv => NoBadDelete
  BY DEF CInv, NoBadDelete
<1> QED
  BY <1>1, ClientInvariance, PTL

(* The size of an object is the length of its buffer. *)
THEOREM SizeSafe == Spec => []SizeOfBuffer
<1>1. CInv => SizeOfBuffer
  BY DEF CInv, Memory, SizeOfBuffer
<1> QED
  BY <1>1, ClientInvariance, PTL

(***************************************************************************)
(* bytes objects are values: the step each operation takes in ByteValues.  *)
(***************************************************************************)
(* The byte string of one object. *)
StringOf(o) == IF o \notin exists THEN NoObject ELSE IF data[o] = Null THEN 0 ELSE heap[data[o]]

(* One object changes its byte string, the others keep theirs. *)
LEMMA OneChanges ==
  ASSUME NEW o \in Objects, NEW x,
         \A q \in Objects : StringOf(q)' = IF q = o THEN x ELSE StringOf(q)
  PROVE  ByteStrings' = [ByteStrings EXCEPT ![o] = x]
<1>1. ByteStrings = [q \in Objects |-> StringOf(q)]
  BY DEF ByteStrings, StringOf
<1>2. ByteStrings' = [q \in Objects |-> StringOf(q)']
  BY DEF ByteStrings, StringOf
<1> QED
  BY <1>1, <1>2

(* An object made from a fetched buffer has the length that was read. *)
LEMMA WrapValue ==
  ASSUME Fields, Memory, NEW o \in Objects, o \notin exists,
         NEW b, NEW n \in Lengths \cup {NoValue}, Fetch(b, n),
         exists' = exists \cup {o}, data' = [data EXCEPT ![o] = b]
  PROVE  ByteStrings[o] = NoObject /\ ByteStrings' = [ByteStrings EXCEPT ![o] = Length(n)]
<1> USE ClientAssumption
<1>1. ByteStrings[o] = NoObject
  BY DEF ByteStrings
<1>2. \A q \in Objects : StringOf(q)' = IF q = o THEN Length(n) ELSE StringOf(q)
  <2>1. CASE b = Null /\ heap' = heap /\ Length(n) = 0
    BY <2>1 DEF StringOf, Fields
  <2>2. CASE /\ b \in Buffers /\ heap[b] = 0 /\ Length(n) = n
             /\ heap' = [heap EXCEPT ![b] = n]
    <3>1. \A p \in exists : data[p] # b
      BY <2>2 DEF Fields, Memory, Lengths
    <3> QED
      BY <2>2, <3>1 DEF StringOf, Fields
  <2> QED
    BY <2>1, <2>2, FetchResult
<1> QED
  BY <1>1, <1>2, OneChanges

(* A fetched buffer that is dropped changes no object. *)
LEMMA DropValue ==
  ASSUME Fields, Memory, NEW b, NEW n \in Lengths \cup {NoValue}, Fetch(b, n),
         UNCHANGED objVars
  PROVE  ByteStrings' = ByteStrings
<1> USE ClientAssumption
<1>1. exists' = exists /\ data' = data
  BY DEF objVars
<1>2. \A q \in exists : data[q] # Null => heap'[data[q]] = heap[data[q]]
  BY FetchResult DEF Fields, Memory, Lengths
<1> QED
  BY <1>1, <1>2 DEF ByteStrings, Fields

(* What a step of the client must do to the values. *)
ValueStep == Values!Next \/ UNCHANGED <<stored, ByteStrings>>

(* The calls that read a value or a key answer with it. *)
LEMMA ReadValue ==
  ASSUME CInv, NEW o \in Objects, get(o) \/ findKey(o) \/ changeIfPresent(o)
  PROVE  ValueStep
<1> USE ClientAssumption
<1>0. Fields /\ Memory /\ stored \in Lengths \cup {NoValue}
  BY DEF CInv
<1>1. ASSUME NEW b, NEW n \in Lengths \cup {NoValue}, Fetch(b, n), Wrap(o, b, Length(n))
      PROVE  ByteStrings[o] = NoObject /\ ByteStrings' = [ByteStrings EXCEPT ![o] = Length(n)]
  BY Zenon, <1>0, <1>1, WrapValue DEF Wrap
<1>2. ASSUME NEW b, Fetch(b, stored), Wrap(o, b, Length(stored)),
             stored' = stored \/ (stored # NoValue /\ stored' \in Lengths \cup {NoValue})
      PROVE  Values!Obtain(o)
  <2>1. /\ ByteStrings[o] = NoObject
        /\ ByteStrings' = [ByteStrings EXCEPT ![o] = Length(stored)]
    BY <1>0, <1>1, <1>2
  <2>2. Length(stored) = Values!Answer(stored)
    BY DEF Length, Values!Answer
  <2> QED
    BY <1>2, <2>1, <2>2 DEF Values!Obtain, Values!Make, Values!Lengths, Lengths
<1>3. CASE get(o)
  <2>1. Values!Obtain(o)
    BY <1>2, <1>3 DEF get
  <2> QED
    BY <2>1 DEF ValueStep, Values!Next
<1>4. CASE findKey(o)
  <2> DEFINE n == IF stored = NoValue THEN 0 ELSE KeyLen
  <2>1. n \in Lengths /\ Length(n) = n
    BY DEF Lengths, Length
  <2>2. stored' = stored /\ \E b : Fetch(b, n) /\ Wrap(o, b, n)
    BY <1>4 DEF findKey
  <2>3. ByteStrings[o] = NoObject /\ ByteStrings' = [ByteStrings EXCEPT ![o] = n]
    BY <1>1, <2>1, <2>2
  <2>4. Values!FindKey(o)
    BY <2>2, <2>3 DEF Values!FindKey, Values!Make
  <2> QED
    BY <2>4 DEF ValueStep, Values!Next
<1>5. CASE changeIfPresent(o)
  <2>1. PICK b : /\ Fetch(b, stored)
                 /\ \/ /\ Wrap(o, b, Length(stored))
                       /\ \/ stored' = stored
                          \/ stored # NoValue /\ stored' \in Lengths \cup {NoValue}
                    \/ WriteFails(b)
    BY <1>5 DEF changeIfPresent
  <2>2. CASE WriteFails(b)
    <3>1. stored' = stored /\ UNCHANGED objVars
      BY <2>2 DEF WriteFails
    <3> QED
      BY <1>0, <2>1, <3>1, DropValue DEF ValueStep
  <2>3. CASE ~WriteFails(b)
    <3>1. Values!Obtain(o)
      BY <1>2, <2>1, <2>3
    <3> QED
      BY <3>1 DEF ValueStep, Values!Next
  <2> QED
    BY <2>2, <2>3
<1> QED
  BY <1>3, <1>4, <1>5

(* The other calls of KVStore change no object. *)
LEMMA WriteValue ==
  ASSUME CInv, Quiet \/ putIfAbsent
  PROVE  ValueStep
<1>1. CASE Quiet
  <2>1. exists' = exists /\ data' = data /\ heap' = heap
    BY <1>1 DEF Quiet, Open, Close, Delete, Throw, put, remove, Write, vars, objVars
  <2>2. ByteStrings' = ByteStrings
    BY <2>1 DEF ByteStrings
  <2>3. stored' = stored \/ stored' \in Lengths \cup {NoValue}
    BY <1>1 DEF Quiet, Open, Close, Delete, Throw, put, remove, Write, vars
  <2> QED
    BY <2>2, <2>3 DEF ValueStep, Values!Next, Values!Write, Values!Lengths, Lengths
<1>2. CASE putIfAbsent
  <2>1. UNCHANGED objVars /\ stored' \in Lengths \cup {NoValue}
    BY <1>2 DEF putIfAbsent, CInv
  <2>2. heap' = heap \/ \E b : Fetch(b, stored)
    BY <1>2 DEF putIfAbsent
  <2>3. ASSUME heap' = heap PROVE ByteStrings' = ByteStrings
    BY <2>1, <2>3 DEF ByteStrings, objVars
  <2>4. ByteStrings' = ByteStrings
    BY <2>1, <2>2, <2>3, DropValue DEF CInv
  <2> QED
    BY <2>1, <2>4 DEF ValueStep, Values!Next, Values!Write, Values!Lengths, Lengths
<1> QED
  BY <1>1, <1>2

(* The operations of bytes, each as its namesake on values. *)
LEMMA BytesValue ==
  ASSUME CInv, NEW o \in Objects, NEW p \in Objects,
         Construct(o, p) \/ MoveConstruct(o, p) \/ Assign(o, p) \/ Swap(o, p) \/ Empty(o)
  PROVE  ValueStep
<1> USE ClientAssumption
<1>0. Fields /\ Memory /\ badDelete = FALSE
  BY DEF CInv
<1>1. \A q \in Objects : ByteStrings[q] = StringOf(q)
  BY DEF ByteStrings, StringOf
<1>2. \A q \in exists : StringOf(q) # NoObject
  BY <1>0 DEF StringOf, Fields, Lengths
<1>3. ByteStrings = [q \in Objects |-> StringOf(q)] /\ ByteStrings' = [q \in Objects |-> StringOf(q)']
  BY DEF ByteStrings, StringOf
<1>4. stored' = stored
  BY DEF Construct, NewCopy, MoveConstruct, Assign, AssignSelf, Swap, Empty, Bytes
<1>5. CASE Construct(o, p)
  <2>1. PICK b : Fetch(b, size[p]) /\ data' = [data EXCEPT ![o] = b]
    BY Zenon, <1>5 DEF Construct
  <2>2. /\ o \notin exists /\ p \in exists /\ p \notin torn /\ exists' = exists \cup {o}
        /\ size[p] \in Lengths /\ Length(size[p]) = size[p]
    BY <1>0, <1>5 DEF Construct, NewCopy, Length, Fields
  <2>3. size[p] = StringOf(p)
    BY <1>0, <2>2 DEF StringOf, Memory
  <2>4. ByteStrings[o] = NoObject /\ ByteStrings' = [ByteStrings EXCEPT ![o] = size[p]]
    BY Zenon, <1>0, <2>1, <2>2, WrapValue
  <2>5. Values!Copy(o, p)
    BY Zenon, <1>1, <1>2, <1>4, <2>2, <2>3, <2>4 DEF Values!Copy, Values!Make
  <2> QED
    BY <2>5 DEF ValueStep, Values!Next
<1>6. CASE MoveConstruct(o, p)
  <2>1. /\ o \notin exists /\ p \in exists /\ o # p /\ exists' = exists \cup {o}
        /\ data' = [data EXCEPT ![o] = data[p], ![p] = Null] /\ heap' = heap
    BY <1>6 DEF MoveConstruct
  <2>2. \A q \in Objects : StringOf(q)' = IF q = o THEN StringOf(p)
                                         ELSE IF q = p THEN 0 ELSE StringOf(q)
    BY <1>0, <2>1 DEF StringOf, Fields
  <2>3. ByteStrings' = [ByteStrings EXCEPT ![o] = StringOf(p), ![p] = 0]
    BY <1>3, <2>1, <2>2
  <2>4. StringOf(o) = NoObject
    BY <2>1 DEF StringOf
  <2>5. Values!MoveInto(o, p)
    BY Zenon, <1>1, <1>2, <1>4, <2>1, <2>3, <2>4 DEF Values!MoveInto
  <2> QED
    BY <2>5 DEF ValueStep, Values!Next
<1>7. CASE Assign(o, p)
  <2> DEFINE freed == ClearedHeap(o)
  <2>1. /\ o # p /\ o \in exists /\ p \in exists /\ p \notin torn /\ Clear(o)
        /\ CopyFrom(o, p, freed) /\ exists' = exists
    BY <1>7 DEF Assign, AssignSelf
  <2>2. \/ data[o] = Null /\ freed = heap
        \/ /\ data[o] \in Buffers /\ heap[data[o]] # 0
           /\ freed = [heap EXCEPT ![data[o]] = 0]
    BY Zenon, <1>0, <2>1, ClearSafe
  <2> HIDE DEF freed
  <2>3. \A q \in exists \ {o} : data[q] # Null => freed[data[q]] = heap[data[q]] /\ freed[data[q]] # 0
    BY <1>0, <2>1, <2>2 DEF Fields, Memory, Lengths
  <2>4. freed \in [Buffers -> Lengths]
    BY <1>0, <2>2 DEF Fields, Lengths
  <2>5. \E v \in {StringOf(p), 0} : \A q \in Objects : StringOf(q)' = IF q = o THEN v ELSE StringOf(q)
    <3>1. CASE data' = [data EXCEPT ![o] = Null] /\ heap' = freed
      <4>1. \A q \in Objects : StringOf(q)' = IF q = o THEN 0 ELSE StringOf(q)
        BY <1>0, <2>1, <2>3, <3>1 DEF StringOf, Fields
      <4> QED
        BY SMTT(30), <4>1
    <3>2. ASSUME NEW b \in Buffers, size[p] > 0, freed[b] = 0,
                 heap' = [freed EXCEPT ![b] = freed[data[p]]], data' = [data EXCEPT ![o] = b]
          PROVE  \A q \in Objects : StringOf(q)' = IF q = o THEN StringOf(p) ELSE StringOf(q)
      <4>1. data[p] # Null /\ StringOf(p) = heap[data[p]]
        BY <1>0, <2>1, <3>2 DEF Memory, StringOf, Fields, Lengths
      <4>2. \A q \in exists \ {o} : data[q] # b
        BY <2>3, <3>2
      <4> QED
        BY <1>0, <2>1, <2>3, <2>4, <3>2, <4>1, <4>2 DEF StringOf, Fields
    <3> QED
      BY <2>1, <3>1, <3>2 DEF CopyFrom
  <2>6. Values!Assign(o, p)
    <3>1. PICK v \in {StringOf(p), 0} :
            \A q \in Objects : StringOf(q)' = IF q = o THEN v ELSE StringOf(q)
      BY <2>5
    <3>2. ByteStrings' = [ByteStrings EXCEPT ![o] = v]
      BY <3>1, OneChanges
    <3> QED
      BY Zenon, <1>1, <1>2, <1>4, <2>1, <3>2 DEF Values!Assign
  <2> QED
    BY <2>6 DEF ValueStep, Values!Next
<1>8. CASE Swap(o, p)
  <2>1. /\ o \in exists /\ p \in exists /\ exists' = exists
        /\ data' = [data EXCEPT ![o] = data[p], ![p] = data[o]] /\ heap' = heap
    BY <1>8 DEF Swap
  <2>2. \A q \in Objects : StringOf(q)' = IF q = p THEN StringOf(o)
                                         ELSE IF q = o THEN StringOf(p) ELSE StringOf(q)
    BY <1>0, <2>1 DEF StringOf, Fields
  <2>3. ByteStrings' = [ByteStrings EXCEPT ![o] = StringOf(p), ![p] = StringOf(o)]
    BY <1>3, <2>2
  <2>4. Values!Swap(o, p)
    BY Zenon, <1>1, <1>2, <1>4, <2>1, <2>3 DEF Values!Swap
  <2> QED
    BY <2>4 DEF ValueStep, Values!Next
<1>9. CASE Empty(o)
  <2>1. /\ o \in exists /\ Clear(o) /\ heap' = ClearedHeap(o)
        /\ data' = [data EXCEPT ![o] = Null]
        /\ (exists' = exists \/ exists' = exists \ {o})
    BY <1>9 DEF Empty
  <2>2. \A q \in exists \ {o} : data[q] # Null => heap'[data[q]] = heap[data[q]]
    <3>1. \/ data[o] = Null /\ heap' = heap
          \/ /\ data[o] \in Buffers /\ heap[data[o]] # 0
             /\ heap' = [heap EXCEPT ![data[o]] = 0]
      BY Zenon, <1>0, <2>1, ClearSafe
    <3> QED
      BY <1>0, <2>1, <3>1 DEF Fields, Memory
  <2>3. \E v \in {0, NoObject} :
          \A q \in Objects : StringOf(q)' = IF q = o THEN v ELSE StringOf(q)
    <3>1. CASE exists' = exists
      <4>1. \A q \in Objects : StringOf(q)' = IF q = o THEN 0 ELSE StringOf(q)
        BY <1>0, <2>1, <2>2, <3>1 DEF StringOf, Fields
      <4> QED
        BY <4>1
    <3>2. CASE exists' = exists \ {o}
      <4>1. \A q \in Objects : StringOf(q)' = IF q = o THEN NoObject ELSE StringOf(q)
        BY <1>0, <2>1, <2>2, <3>2 DEF StringOf, Fields
      <4> QED
        BY <4>1
    <3> QED
      BY <2>1, <3>1, <3>2
  <2>4. Values!Empty(o)
    <3>1. PICK v \in {0, NoObject} :
            \A q \in Objects : StringOf(q)' = IF q = o THEN v ELSE StringOf(q)
      BY <2>3
    <3>2. ByteStrings' = [ByteStrings EXCEPT ![o] = v]
      BY <3>1, OneChanges
    <3> QED
      BY Zenon, <1>1, <1>2, <1>4, <2>1, <3>2 DEF Values!Empty
  <2> QED
    BY <2>4 DEF ValueStep, Values!Next
<1> QED
  BY <1>5, <1>6, <1>7, <1>8, <1>9

(* The client implements ByteValues: objects that own buffers behave as    *)
(* values, and calls answer with what the store held.                      *)
THEOREM ClientRefines == Spec => ImplementsValues
<1>1. Init => Values!Init
  BY DEF Init, Values!Init, ByteStrings
<1>2. CInv /\ [Next]_vars => [Values!Next]_(Values!vars)
  <2>1. CInv /\ [Next]_vars => ValueStep
    BY ReadValue, WriteValue, BytesValue DEF Next, Quiet
  <2> QED
    BY <2>1 DEF ValueStep, Values!vars
<1> QED
  BY <1>1, <1>2, ClientInvariance, PTL DEF Spec, ImplementsValues, Values!Spec
=============================================================================
