--------------------------- MODULE MemoryManager ---------------------------
(***************************************************************************)
(* MemoryManager<T>, the pooled bump allocator of the DD nodes             *)
(* (include/dd/exact/MemoryManager.hpp), with the counters it keeps in     *)
(* MemoryManagerStatistics<T>.                                             *)
(*                                                                         *)
(* An entry is named by its place: <<c, i>> is slot i of chunk c.  Growing *)
(* the vector of chunks moves the chunks and never their storage, so a     *)
(* name stays good for the life of the manager.                            *)
(***************************************************************************)
EXTENDS Integers, Sequences, FiniteSets

CONSTANTS
    InitialAllocationSize,  \* entries in the first chunk
    GrowthFactor,           \* each chunk is so many times the last one
    MaxInUse,               \* bound: entries the client holds at once
    Null                    \* nullptr

Entry == (Nat \ {0}) \X (Nat \ {0})

ASSUME InitialSizeAssumption == InitialAllocationSize \in Nat \ {0}
ASSUME GrowthAssumption == GrowthFactor \in Nat \ {0}
ASSUME BoundAssumption == MaxInUse \in Nat
ASSUME NullAssumption == Null \notin Entry

VARIABLES
    chunks,                 \* chunks_: the size of each chunk
    chunkIt,                \* chunkIt_: next untouched slot of the last chunk
    available,              \* available_: head of the free list
    next,                   \* T::next of every entry handed out so far
    inUse,                  \* (client) entries held by the caller
    numUsed, numAvailableForReuse, numAllocations, numAllocated

chunkVars == <<chunks, chunkIt, numAllocations, numAllocated>>
vars == <<chunks, chunkIt, available, next, inUse,
          numUsed, numAvailableForReuse, numAllocations, numAllocated>>

LastChunk == Len(chunks)

SlotsOf(c) == {c} \X (1..chunks[c])

Owned == UNION {SlotsOf(c) : c \in 1..LastChunk}

\* Slots the bump pointer has not reached.
Untouched == {LastChunk} \X (chunkIt..chunks[LastChunk])

Free == DOMAIN next \ inUse

Init ==
    /\ chunks = <<InitialAllocationSize>>
    /\ chunkIt = 1
    /\ available = Null
    /\ next = << >>
    /\ inUse = {}
    /\ numUsed = 0
    /\ numAvailableForReuse = 0
    /\ numAllocations = 1
    /\ numAllocated = InitialAllocationSize
-----------------------------------------------------------------------------
\* trackUsedEntries, trackReusedEntries and trackReturnedEntry.
trackUsed == numUsed' = numUsed + 1 /\ UNCHANGED numAvailableForReuse

trackReused == /\ numUsed' = numUsed + 1
               /\ numAvailableForReuse' = numAvailableForReuse - 1

\* (mutant) the return of an entry does not end its use
trackReturnedOnlyAvailable ==
    numAvailableForReuse' = numAvailableForReuse + 1 /\ UNCHANGED numUsed

trackReturned == /\ numAvailableForReuse' = numAvailableForReuse + 1
                 /\ numUsed' = IF numUsed > 0 THEN numUsed - 1 ELSE numUsed

(***************************************************************************)
(* get(): the head of the free list if there is one.  `next' of the entry  *)
(* is left as it was, a stale pointer nobody may follow any more.          *)
(***************************************************************************)
KeepHead == UNCHANGED available     \* (mutant) the entry stays listed

PopHead == available' = next[available]

GetReused ==
    /\ available # Null
    /\ inUse' = inUse \cup {available}
    /\ PopHead
    /\ trackReused
    /\ UNCHANGED <<next, chunkVars>>

\* Take slot i of chunk c, which nobody has touched: its `next' is nullptr.
Carve(c, i) ==
    /\ inUse' = inUse \cup {<<c, i>>}
    /\ next' = [x \in DOMAIN next \cup {<<c, i>>} |->
                   IF x = <<c, i>> THEN Null ELSE next[x]]
    /\ chunkIt' = i + 1
    /\ trackUsed
    /\ UNCHANGED available

NeverExhausted == FALSE             \* (mutant) the end test is dropped
AlwaysExhausted == TRUE             \* (mutant) a chunk for every entry

ChunkExhausted == chunkIt = chunks[LastChunk] + 1

\* get(): the free list is empty and the last chunk is not exhausted.
GetFromChunk ==
    /\ available = Null
    /\ ~ChunkExhausted
    /\ Carve(LastChunk, chunkIt)
    /\ UNCHANGED <<chunks, numAllocations, numAllocated>>

(***************************************************************************)
(* get(): both are exhausted; allocateNewChunk() first.  A chunk that      *)
(* cannot be allocated throws before anything is assigned, which is a step *)
(* that changes nothing.                                                   *)
(***************************************************************************)
allocateNewChunk ==
    LET nextSize == chunks[LastChunk] * GrowthFactor
    IN  /\ chunks' = Append(chunks, nextSize)
        /\ numAllocations' = numAllocations + 1
        /\ numAllocated' = numAllocated + nextSize

GetFromNewChunk ==
    /\ available = Null
    /\ ChunkExhausted
    /\ allocateNewChunk
    /\ Carve(LastChunk + 1, 1)

\* Bound: the client never holds more than MaxInUse entries.
Get == /\ Cardinality(inUse) < MaxInUse
       /\ GetReused \/ GetFromChunk \/ GetFromNewChunk

\* (mutant) available_ = entry before entry->next = available_
LinkSwapped(entry) ==
    next' = [next EXCEPT ![entry] = entry] /\ available' = entry

Link(entry) == next' = [next EXCEPT ![entry] = available] /\ available' = entry

\* returnEntry(entry); the caller gives back an entry it holds.
ReturnEntry(entry) ==
    /\ inUse' = inUse \ {entry}
    /\ Link(entry)
    /\ trackReturned
    /\ UNCHANGED chunkVars

Next == Get \/ \E entry \in inUse : ReturnEntry(entry)

Spec == Init /\ [][Next]_vars
-----------------------------------------------------------------------------
TypeOK ==
    /\ chunks \in Seq(Nat \ {0}) /\ chunks # << >>
    /\ chunkIt \in 1..(chunks[LastChunk] + 1)
    /\ DOMAIN next \subseteq Entry
    /\ next \in [DOMAIN next -> Entry \cup {Null}]
    /\ available \in Entry \cup {Null}
    /\ inUse \subseteq DOMAIN next
    /\ numUsed \in Nat /\ numAvailableForReuse \in Nat
    /\ numAllocations \in Nat /\ numAllocated \in Nat

\* list is what following `next' from available_ visits before nullptr.
IsFreeList(list, n) ==
    /\ available = IF n = 0 THEN Null ELSE list[1]
    /\ \A i \in 1..n : next[list[i]] = IF i = n THEN Null ELSE list[i + 1]

(***************************************************************************)
(* The free list that available_ heads is finite, visits no entry twice    *)
(* and visits exactly the entries that were returned and not handed out    *)
(* again; its length is numAvailableForReuse, the only record of it.       *)
(***************************************************************************)
FreeListExact ==
    \E list \in [1..numAvailableForReuse -> Free] :
        /\ IsFreeList(list, numAvailableForReuse)
        /\ \A x \in Free : \E i \in 1..numAvailableForReuse : list[i] = x
        /\ \A i, j \in 1..numAvailableForReuse : list[i] = list[j] => i = j

(***************************************************************************)
(* No slot is skipped or carved twice: each slot of each chunk has been    *)
(* handed out, or is still ahead of the bump pointer of the last chunk.    *)
(***************************************************************************)
EverySlotAccountedFor ==
    /\ DOMAIN next \cup Untouched = Owned
    /\ DOMAIN next \cap Untouched = {}

(***************************************************************************)
(* The counters never drift from the pool, over any sequence of calls:     *)
(* getNumAvailableFromChunks(), which only subtracts counters, is the      *)
(* number of slots ahead of the bump pointer, and numUsed the number held. *)
(***************************************************************************)
getTotalNumAvailable == numAllocated - numUsed
getNumAvailableFromChunks == getTotalNumAvailable - numAvailableForReuse

CountersExact ==
    /\ getNumAvailableFromChunks = chunks[LastChunk] + 1 - chunkIt
    /\ numUsed = Cardinality(inUse)
    /\ numAllocations = LastChunk

(***************************************************************************)
(* The manager keeps the promise of NodePool: it never hands out an entry  *)
(* that is held, and allocates a chunk only when every entry is held.      *)
(***************************************************************************)
Pool == INSTANCE NodePool WITH owned <- Owned, outstanding <- numUsed
ImplementsPool == Pool!Spec
=============================================================================
