------------------------------ MODULE KVStore ------------------------------
(***************************************************************************)
(* The C++ client: KVStore turns the status codes of a Store into          *)
(* exceptions and wraps the buffers it is handed in objects of class       *)
(* bytes, which own them.  The model follows the buffers: who allocated,   *)
(* who holds, who deletes each one, on the paths that throw too.  A value  *)
(* or a key is given by its length; the client works on one key.           *)
(***************************************************************************)
EXTENDS Integers, FiniteSets

CONSTANTS
  Objects,        (* the variables of type bytes of the client              *)
  Buffers,        (* the char arrays on the heap: bounds the number alive   *)
  Null,
  MaxLen, KeyLen, (* the longest value, the length of the key               *)
  NoValue,        (* the content of a key that is not stored                *)
  NoObject,       (* for the abstract values: not constructed             *)
  DbMayFail,      (* may the store answer with an error?                    *)
  MemoryMayFail   (* may new char[] in bytes::copy throw bad_alloc?         *)

Lengths == 0 .. MaxLen

ASSUME ClientAssumption ==
  /\ Null \notin Buffers
  /\ MaxLen \in Nat
  /\ KeyLen \in 1 .. MaxLen
  /\ {NoValue, NoObject} \cap Lengths = {} /\ NoValue # NoObject
  /\ {DbMayFail, MemoryMayFail} \subseteq BOOLEAN

VARIABLES
  kv,          (* the KVStore: "none", "open" or "closed"                   *)
  stored,      (* what the store holds under the key                        *)
  heap,        (* the length of each allocated buffer, 0 for a free one     *)
  exists,      (* the bytes objects that are constructed and not destroyed  *)
  size, data,  (* their size_ and data_                                     *)
  dropped,     (* buffers whose only pointer went out of scope              *)
  torn,        (* objects whose last assignment ran out of memory           *)
  badDelete    (* was delete[] called on a buffer that is not allocated?    *)

objVars == <<exists, size, data, torn>>
vars    == <<kv, stored, heap, objVars, dropped, badDelete>>

Init ==
  /\ kv = "none"
  /\ stored = NoValue
  /\ heap = [b \in Buffers |-> 0]
  /\ exists = {}
  /\ size = [o \in Objects |-> 0]
  /\ data = [o \in Objects |-> Null]
  /\ dropped = {}
  /\ torn = {}
  /\ badDelete = FALSE

-----------------------------------------------------------------------------
(* KVStore. *)
Open ==
  /\ kv = "none"
  /\ kv' \in IF DbMayFail THEN {"open", "none"} ELSE {"open"}
  /\ UNCHANGED <<stored, heap, objVars, dropped, badDelete>>

Close ==
  /\ kv = "open"
  /\ kv' = "closed"
  /\ UNCHANGED <<stored, heap, objVars, dropped, badDelete>>

(* ~KVStore deletes the Store, which closes it; bytes objects live on. *)
Delete ==
  /\ kv # "none"
  /\ kv' = "none"
  /\ UNCHANGED <<stored, heap, objVars, dropped, badDelete>>

(* throwForStatus: an error of the store, or a call on a closed one. *)
Throw ==
  /\ kv = "closed" \/ (kv = "open" /\ DbMayFail)
  /\ UNCHANGED vars

Write(v) ==
  /\ kv = "open"
  /\ stored' = v
  /\ UNCHANGED <<kv, heap, objVars, dropped, badDelete>>

put    == \E v \in Lengths : Write(v)
remove == Write(NoValue)

(* new char[n] and a memcpy into it; only what is not empty is copied. *)
Allocate(b, n) ==
  /\ b \in Buffers
  /\ heap[b] = 0
  /\ heap' = [heap EXCEPT ![b] = n]

(* get_ leaves a buffer or nullptr, and with it the length. *)
Fetch(b, n) ==
  IF n \in {0, NoValue} THEN b = Null /\ UNCHANGED heap ELSE Allocate(b, n)

(* bytes(char*, size_t): the object takes the buffer over. *)
Wrap(o, b, n) ==
  /\ o \notin exists
  /\ exists' = exists \cup {o}
  /\ size' = [size EXCEPT ![o] = n]
  /\ data' = [data EXCEPT ![o] = b]
  /\ UNCHANGED <<torn, dropped, badDelete>>

LengthUnset(v) == v

(* *resultLen, which the calls set to 0 before they read. *)
Length(v) == IF v = NoValue THEN 0 ELSE v

get(o) ==
  /\ kv = "open"
  /\ \E b \in Buffers \cup {Null} : Fetch(b, stored) /\ Wrap(o, b, Length(stored))
  /\ UNCHANGED <<kv, stored>>

WriteFails(b) ==
  /\ DbMayFail
  /\ dropped' = dropped \cup ({b} \ {Null})
  /\ UNCHANGED <<stored, objVars, badDelete>>

(* updateIfPresent, removeIfPresent, singleRemoveIfPresent.  When the      *)
(* write fails after the read, throwForStatus leaves before bytes is made. *)
changeIfPresent(o) ==
  /\ kv = "open"
  /\ \E b \in Buffers \cup {Null} :
       /\ Fetch(b, stored)
       /\ \/ /\ \/ stored = NoValue /\ UNCHANGED stored
                \/ stored # NoValue /\ stored' \in Lengths \cup {NoValue}
             /\ Wrap(o, b, Length(stored))
          \/ stored # NoValue /\ WriteFails(b)
  /\ UNCHANGED kv

(* The store's putIfAbsent drops the buffer of a value that is there. *)
putIfAbsent ==
  /\ kv = "open"
  /\ \/ stored = NoValue /\ stored' \in Lengths /\ UNCHANGED <<heap, dropped>>
     \/ /\ stored # NoValue
        /\ UNCHANGED stored
        /\ \E b \in Buffers \cup {Null} :
             Fetch(b, stored) /\ dropped' = dropped \cup ({b} \ {Null})
  /\ UNCHANGED <<kv, objVars, badDelete>>

findKey(o) ==
  /\ kv = "open"
  /\ LET n == IF stored = NoValue THEN 0 ELSE KeyLen
     IN  \E b \in Buffers \cup {Null} : Fetch(b, n) /\ Wrap(o, b, n)
  /\ UNCHANGED <<kv, stored>>

-----------------------------------------------------------------------------
(* bytes. *)
Bytes == UNCHANGED <<kv, stored, dropped>>

KeptHeap(o) == heap

(* What clear leaves on the heap: it deletes what size_ says is there. *)
ClearedHeap(o) ==
  IF size[o] > 0 /\ data[o] # Null THEN [heap EXCEPT ![data[o]] = 0] ELSE heap

Clear(o) ==
  badDelete' = (badDelete \/ (size[o] > 0 /\ data[o] # Null /\ heap[data[o]] = 0))

(* An object whose assignment ran out of memory may not be read. *)
NewCopy(o, p) ==
  /\ o \notin exists /\ p \in exists \ torn
  /\ exists' = exists \cup {o}
  /\ size' = [size EXCEPT ![o] = size[p]]
  /\ UNCHANGED <<torn, badDelete>>
  /\ Bytes

ConstructShared(o, p) ==
  NewCopy(o, p) /\ data' = [data EXCEPT ![o] = data[p]] /\ UNCHANGED heap

(* bytes(const bytes&): an empty object needs no buffer.  When new throws, *)
(* the object does not come to be and nothing has changed.                 *)
Construct(o, p) ==
  /\ NewCopy(o, p)
  /\ \E b \in Buffers \cup {Null} : Fetch(b, size[p]) /\ data' = [data EXCEPT ![o] = b]

MoveConstruct(o, p) ==
  /\ o \notin exists /\ p \in exists
  /\ exists' = exists \cup {o}
  /\ size' = [size EXCEPT ![o] = size[p], ![p] = 0]
  /\ data' = [data EXCEPT ![o] = data[p], ![p] = Null]
  /\ torn' = IF p \in torn THEN (torn \ {p}) \cup {o} ELSE torn
  /\ UNCHANGED <<heap, badDelete>>
  /\ Bytes

(* The end of a copy assignment: the new buffer, or bad_alloc with size_   *)
(* already set.                                                            *)
CopyFrom(o, p, freed) ==
  /\ size' = [size EXCEPT ![o] = size[p]]
  /\ \/ /\ size[p] = 0
        /\ data' = [data EXCEPT ![o] = Null]
        /\ heap' = freed
        /\ torn' = torn \ {o}
     \/ /\ size[p] > 0
        /\ \E b \in Buffers :
             /\ freed[b] = 0
             /\ heap' = [freed EXCEPT ![b] = freed[data[p]]]
             /\ data' = [data EXCEPT ![o] = b]
        /\ torn' = torn \ {o}
     \/ /\ size[p] > 0
        /\ MemoryMayFail
        /\ data' = [data EXCEPT ![o] = Null]
        /\ heap' = freed
        /\ torn' = torn \cup {o}

AssignSelf(o, p) ==
  /\ o \in exists /\ p \in exists \ torn
  /\ Clear(o)
  /\ CopyFrom(o, p, ClearedHeap(o))
  /\ UNCHANGED exists
  /\ Bytes

(* operator=(const bytes&): clear, then copy; nothing on itself. *)
Assign(o, p) == o # p /\ AssignSelf(o, p)

(* swap, and operator=(bytes&&), which is a swap. *)
Swap(o, p) ==
  /\ {o, p} \subseteq exists
  /\ size' = [size EXCEPT ![o] = size[p], ![p] = size[o]]
  /\ data' = [data EXCEPT ![o] = data[p], ![p] = data[o]]
  /\ torn' = {q \in exists : (IF q = o THEN p ELSE IF q = p THEN o ELSE q) \in torn}
  /\ UNCHANGED <<heap, exists, badDelete>>
  /\ Bytes

(* clear, and ~bytes, which calls it. *)
Empty(o) ==
  /\ o \in exists
  /\ Clear(o)
  /\ heap' = ClearedHeap(o)
  /\ size' = [size EXCEPT ![o] = 0]
  /\ data' = [data EXCEPT ![o] = Null]
  /\ torn' = torn \ {o}
  /\ exists' \in {exists, exists \ {o}}
  /\ Bytes

Next ==
  \/ Open \/ Close \/ Delete \/ Throw \/ put \/ remove \/ putIfAbsent
  \/ \E o \in Objects : get(o) \/ changeIfPresent(o) \/ findKey(o) \/ Empty(o)
  \/ \E o, p \in Objects :
       Construct(o, p) \/ MoveConstruct(o, p) \/ Assign(o, p) \/ Swap(o, p)

Spec == Init /\ [][Next]_vars

-----------------------------------------------------------------------------
(* Every variable has values of the kind its C++ counterpart can hold. *)
TypeOK ==
  /\ kv \in {"none", "open", "closed"}
  /\ stored \in Lengths \cup {NoValue}
  /\ heap \in [Buffers -> Lengths]
  /\ exists \in SUBSET Objects
  /\ size \in [Objects -> Lengths]
  /\ data \in [Objects -> Buffers \cup {Null}]
  /\ dropped \in SUBSET Buffers
  /\ torn \in SUBSET exists
  /\ badDelete \in BOOLEAN

Holders(b) == {o \in exists : data[o] = b}

(* A buffer that is allocated has exactly one owner, and a free one none:  *)
(* no bytes object is left with a pointer to a buffer another one deletes, *)
(* and nothing leaks but what putIfAbsent and a throwing call drop.        *)
OneOwner ==
  \A b \in Buffers :
    IF heap[b] = 0 \/ b \in dropped
      THEN Holders(b) = {}
      ELSE Cardinality(Holders(b)) = 1

(* No buffer is deleted twice. *)
NoBadDelete == ~badDelete

(* size_ is the length of the buffer that data_ points to, and an object   *)
(* without buffer has size 0: operator[] and toString read inside the      *)
(* buffer.  The exception is an object whose assignment threw bad_alloc.   *)
SizeOfBuffer ==
  \A o \in exists :
    IF data[o] = Null THEN size[o] = 0 \/ o \in torn ELSE size[o] = heap[data[o]]

(* The byte string an object stands for. *)
ByteStrings ==
  [o \in Objects |->
     IF o \notin exists THEN NoObject ELSE IF data[o] = Null THEN 0 ELSE heap[data[o]]]

Values == INSTANCE ByteValues WITH value <- ByteStrings

(* With pointers moved, copied and deleted underneath, bytes objects still *)
(* behave as values, and calls answer with what the store held.            *)
ImplementsValues == Values!Spec
=============================================================================
