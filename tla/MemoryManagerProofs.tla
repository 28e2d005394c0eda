------------------------ MODULE MemoryManagerProofs ------------------------
(***************************************************************************)
(* Proofs about MemoryManager, for every first chunk and growth factor:    *)
(* the pool never hands out an entry twice, whatever the order of calls.   *)
(***************************************************************************)
EXTENDS MemoryManager, FiniteSetTheorems, SequenceTheorems, TLAPS

USE InitialSizeAssumption, GrowthAssumption, BoundAssumption, NullAssumption

\* The strengthening: everything checked, and the client holds finitely many.
Inv == /\ TypeOK
       /\ FreeListExact
       /\ EverySlotAccountedFor
       /\ CountersExact
       /\ IsFiniteSet(inUse)

\* The manager starts with one untouched chunk and an empty free list.
LEMMA InitInv == Init => Inv
<1> SUFFICES ASSUME Init PROVE Inv
  OBVIOUS
<1>1. TypeOK
  BY DEF Init, TypeOK, Entry, LastChunk
<1>2. FreeListExact
  <2>1. Free = {} /\ numAvailableForReuse = 0
    BY DEF Init, Free
  <2>2. << >> \in [1..0 -> {}] /\ IsFreeList(<< >>, 0)
    BY <2>1 DEF Init, IsFreeList
  <2>3. QED
    BY <2>1, <2>2 DEF FreeListExact
<1>3. EverySlotAccountedFor
  <2>1. Owned = {1} \X (1..InitialAllocationSize)
    BY DEF Init, Owned, SlotsOf, LastChunk
  <2>2. Untouched = {1} \X (1..InitialAllocationSize)
    BY DEF Init, Untouched, LastChunk
  <2>3. QED
    BY <2>1, <2>2 DEF Init, EverySlotAccountedFor
<1>4. CountersExact /\ IsFiniteSet(inUse)
  BY FS_EmptySet DEF Init, CountersExact, getNumAvailableFromChunks,
     getTotalNumAvailable, LastChunk
<1> QED
  BY <1>1, <1>2, <1>3, <1>4 DEF Inv

-----------------------------------------------------------------------------
\* Handing out the head of the free list keeps the invariant, and the entry
\* handed out was not held.
LEMMA GetReusedInv ==
  ASSUME Inv, GetReused
  PROVE  Inv' /\ available \in Owned \ inUse
<1> USE DEF GetReused, PopHead, trackReused, chunkVars
<1>0. TypeOK
  BY DEF Inv
<1>n. PICK n \in Nat : n = numAvailableForReuse
  BY <1>0 DEF TypeOK
<1>1. PICK list \in [1..n -> Free] :
         /\ IsFreeList(list, n)
         /\ \A x \in Free : \E i \in 1..n : list[i] = x
         /\ \A i, j \in 1..n : list[i] = list[j] => i = j
  BY <1>n DEF Inv, FreeListExact
<1>2. n > 0 /\ available = list[1] /\ 1 \in 1..n
  BY <1>0, <1>1 DEF IsFreeList
<1>3. available \in Free /\ available \in DOMAIN next /\ available \notin inUse
  BY <1>1, <1>2 DEF Free
<1>4. Free' = Free \ {available}
  BY <1>3 DEF Free
<1>5. FreeListExact'
  <2>0. PICK tail : tail = [i \in 1..(n - 1) |-> list[i + 1]]
    OBVIOUS
  <2>1. numAvailableForReuse' = n - 1
    BY <1>n
  <2>2. ASSUME NEW i \in 1..(n - 1)
        PROVE  i + 1 \in 1..n /\ list[i + 1] \in Free \ {available}
    <3>1. i + 1 \in 1..n /\ i + 1 # 1
      BY <1>0, <2>2
    <3>2. QED
      BY <3>1, <1>1, <1>2
  <2>3. tail \in [1..(n - 1) -> Free']
    BY <2>0, <2>2, <1>4
  <2>4. IsFreeList(tail, n - 1)'
    <3>1. available' = IF n - 1 = 0 THEN Null ELSE tail[1]
      <4>1. available' = IF 1 = n THEN Null ELSE list[2]
        BY <1>1, <1>2 DEF IsFreeList
      <4>2. CASE n = 1
        BY <4>1, <4>2
      <4>3. CASE n # 1
        <5>1. 1 \in 1..(n - 1) /\ n - 1 # 0
          BY <4>3, <1>0, <1>2
        <5>2. tail[1] = list[2]
          BY <5>1, <2>0
        <5>3. QED
          BY <5>1, <5>2, <4>1, <4>3
      <4>4. QED
        BY <4>2, <4>3
    <3>2. ASSUME NEW i \in 1..(n - 1)
          PROVE  next'[tail[i]] = IF i = n - 1 THEN Null ELSE tail[i + 1]
      <4>1. /\ i + 1 \in 1..n
            /\ next[list[i + 1]] = IF i + 1 = n THEN Null ELSE list[i + 2]
        BY <1>0, <1>1, <3>2 DEF IsFreeList
      <4>2. i # n - 1 => i + 1 \in 1..(n - 1) /\ tail[i + 1] = list[i + 2]
        BY <1>0, <2>0, <3>2
      <4>3. tail[i] = list[i + 1]
        BY <2>0, <3>2
      <4>4. QED
        BY <4>1, <4>2, <4>3, <1>0
    <3>3. QED
      BY <3>1, <3>2 DEF IsFreeList
  <2>5. ASSUME NEW x \in Free'
        PROVE  \E i \in 1..(n - 1) : tail[i] = x
    <3>1. PICK i \in 1..n : list[i] = x /\ i # 1
      BY <1>1, <1>2, <1>4, <2>5
    <3>2. i - 1 \in 1..(n - 1) /\ tail[i - 1] = x
      BY <3>1, <1>n, <2>0
    <3>3. QED
      BY <3>2
  <2>6. ASSUME NEW i \in 1..(n - 1), NEW j \in 1..(n - 1), tail[i] = tail[j]
        PROVE  i = j
    <3>1. i + 1 = j + 1
      BY <2>0, <2>2, <2>6, <1>1
    <3>2. QED
      BY <3>1
  <2>7. /\ \A x \in Free' : \E i \in 1..(n - 1) : tail[i] = x
        /\ \A i, j \in 1..(n - 1) : tail[i] = tail[j] => i = j
    BY <2>5, <2>6
  <2>8. \E l \in [1..(n - 1) -> Free'] :
           /\ IsFreeList(l, n - 1)'
           /\ \A x \in Free' : \E i \in 1..(n - 1) : l[i] = x
           /\ \A i, j \in 1..(n - 1) : l[i] = l[j] => i = j
    BY <2>3, <2>4, <2>7
  <2>9. QED
    BY ONLY <2>1, <2>8 DEF FreeListExact, IsFreeList
<1>6. EverySlotAccountedFor' /\ available \in Owned
  BY <1>3 DEF Inv, EverySlotAccountedFor, Owned, SlotsOf, Untouched, LastChunk
<1>7. CountersExact' /\ IsFiniteSet(inUse')
  BY <1>0, <1>3, FS_AddElement
     DEF Inv, TypeOK, CountersExact, getNumAvailableFromChunks,
         getTotalNumAvailable, LastChunk
<1>8. TypeOK'
  <2>1. available' \in Entry \cup {Null}
    BY <1>0, <1>3 DEF TypeOK
  <2>2. numAvailableForReuse' \in Nat /\ numUsed' \in Nat
    BY <1>0, <1>n, <1>2 DEF TypeOK
  <2>3. QED
    BY <1>0, <1>3, <2>1, <2>2 DEF TypeOK, LastChunk
<1> QED
  BY <1>3, <1>5, <1>6, <1>7, <1>8 DEF Inv
-----------------------------------------------------------------------------
\* A null head means that nothing is waiting to be reused.
LEMMA NullHeadMeansEmpty ==
  ASSUME Inv, available = Null
  PROVE  Free = {} /\ numAvailableForReuse = 0 /\ inUse = DOMAIN next
<1>0. TypeOK
  BY DEF Inv
<1>1. PICK n \in Nat : n = numAvailableForReuse
  BY <1>0 DEF TypeOK
<1>2. PICK list \in [1..n -> Free] :
         /\ IsFreeList(list, n)
         /\ \A x \in Free : \E i \in 1..n : list[i] = x
  BY <1>1 DEF Inv, FreeListExact
<1>3. n = 0
  <2>1. SUFFICES ASSUME n # 0 PROVE FALSE
    OBVIOUS
  <2>2. 1 \in 1..n /\ list[1] = Null
    BY <2>1, <1>2 DEF IsFreeList
  <2>3. list[1] \in Entry
    BY <2>2, <1>2, <1>0 DEF Free, TypeOK
  <2>4. QED
    BY <2>2, <2>3
<1>4. Free = {}
  BY <1>2, <1>3
<1> QED
  BY <1>0, <1>1, <1>3, <1>4 DEF Free, TypeOK

\* Carving an untouched slot while the free list is empty leaves it empty.
LEMMA CarveKeepsList ==
  ASSUME Inv, available = Null, NEW x, inUse' = inUse \cup {x},
         DOMAIN next' = DOMAIN next \cup {x},
         UNCHANGED <<available, numAvailableForReuse>>
  PROVE  FreeListExact'
<1>1. Free' = {} /\ numAvailableForReuse' = 0 /\ available' = Null
  BY NullHeadMeansEmpty DEF Free
<1>2. \E list \in [1..0 -> {}] : /\ IsFreeList(list, 0)'
                                 /\ \A i, j \in 1..0 : list[i] = list[j] => i = j
  <2>1. << >> \in [1..0 -> {}]
    OBVIOUS
  <2>2. IsFreeList(<< >>, 0)'
    BY <1>1 DEF IsFreeList
  <2>3. QED
    BY <2>1, <2>2
<1> QED
  BY ONLY <1>1, <1>2 DEF FreeListExact, IsFreeList

\* The last chunk exists and has slots.
LEMMA LastChunkFacts ==
  ASSUME TypeOK
  PROVE  LastChunk \in Nat \ {0} /\ chunks[LastChunk] \in Nat \ {0}
<1>1. LastChunk \in Nat \ {0} /\ LastChunk \in 1..LastChunk
  BY EmptySeq DEF TypeOK, LastChunk
<1>2. QED
  BY <1>1, ElementOfSeq DEF TypeOK, LastChunk

\* The counters stay natural numbers.
LEMMA CounterTypes ==
  ASSUME TypeOK
  PROVE  /\ numUsed \in Nat /\ numAvailableForReuse \in Nat
         /\ numAllocations \in Nat /\ numAllocated \in Nat
         /\ chunkIt \in Nat \ {0} /\ chunkIt <= chunks[LastChunk] + 1
BY LastChunkFacts DEF TypeOK

\* One more entry, held for the first time, is one more in the counter.
LEMMA NewEntryCounted ==
  ASSUME Inv, NEW x, x \notin inUse, inUse' = inUse \cup {x},
         numUsed' = numUsed + 1
  PROVE  IsFiniteSet(inUse') /\ Cardinality(inUse') = numUsed' /\ numUsed' \in Nat
<1>1. IsFiniteSet(inUse) /\ Cardinality(inUse) = numUsed /\ numUsed \in Nat
  BY DEF Inv, CountersExact, TypeOK
<1>2. QED
  BY <1>1, FS_AddElement

\* The slot under the bump pointer is one that nobody was ever handed.
LEMMA GetFromChunkInv ==
  ASSUME Inv, GetFromChunk
  PROVE  Inv' /\ <<LastChunk, chunkIt>> \in Owned \ inUse
<1>0. /\ TypeOK /\ EverySlotAccountedFor /\ CountersExact
      /\ LastChunk \in Nat \ {0} /\ chunks[LastChunk] \in Nat \ {0}
  BY LastChunkFacts DEF Inv
<1>x. PICK x : x = <<LastChunk, chunkIt>>
  OBVIOUS
<1>1. /\ inUse' = inUse \cup {x} /\ chunkIt' = chunkIt + 1
      /\ numUsed' = numUsed + 1 /\ available = Null
      /\ UNCHANGED <<available, numAvailableForReuse, chunks, LastChunk,
                     numAllocations, numAllocated>>
      /\ next' = [y \in DOMAIN next \cup {x} |-> IF y = x THEN Null ELSE next[y]]
  BY <1>x DEF GetFromChunk, Carve, trackUsed, LastChunk
<1>2. chunkIt \in 1..chunks[LastChunk]
  BY <1>0 DEF GetFromChunk, ChunkExhausted, TypeOK
<1>3. x \in Untouched /\ x \notin DOMAIN next /\ x \in Owned /\ x \in Entry
  BY <1>x, <1>0, <1>2 DEF Untouched, EverySlotAccountedFor, Entry
<1>4. x \notin inUse /\ DOMAIN next' = DOMAIN next \cup {x}
  BY <1>0, <1>1, <1>3 DEF TypeOK
<1>5. FreeListExact'
  BY <1>1, <1>4, CarveKeepsList
<1>6. EverySlotAccountedFor'
  <2>1. Untouched' = Untouched \ {x}
    BY <1>0, <1>x, <1>1, <1>2 DEF Untouched
  <2>2. Owned' = Owned
    BY <1>1 DEF Owned, SlotsOf
  <2>3. QED
    BY <1>0, <1>3, <1>4, <2>1, <2>2 DEF EverySlotAccountedFor
<1>7. IsFiniteSet(inUse') /\ Cardinality(inUse') = numUsed' /\ numUsed' \in Nat
  BY <1>1, <1>4, NewEntryCounted
<1>8. CountersExact'
  BY <1>0, <1>1, <1>2, <1>7, CounterTypes
     DEF CountersExact, getNumAvailableFromChunks, getTotalNumAvailable
<1>9. TypeOK'
  <2>1. chunkIt' \in 1..(chunks'[LastChunk'] + 1)
    BY <1>0, <1>1, <1>2
  <2>2. /\ DOMAIN next' \subseteq Entry /\ inUse' \subseteq DOMAIN next'
        /\ next' \in [DOMAIN next' -> Entry \cup {Null}]
    BY <1>0, <1>1, <1>3, <1>4 DEF TypeOK
  <2>3. QED
    BY <1>0, <1>1, <1>7, <2>1, <2>2 DEF TypeOK
<1> QED
  BY <1>x, <1>3, <1>4, <1>5, <1>6, <1>7, <1>8, <1>9 DEF Inv

\* A new chunk is taken only when the client holds every slot of the others.
LEMMA GetFromNewChunkInv ==
  ASSUME Inv, GetFromNewChunk
  PROVE  Inv' /\ inUse = Owned /\ Owned \subseteq Owned'
              /\ <<LastChunk + 1, 1>> \in Owned' \ Owned
<1>0. /\ TypeOK /\ EverySlotAccountedFor /\ CountersExact
      /\ LastChunk \in Nat \ {0} /\ chunks[LastChunk] \in Nat \ {0}
  BY LastChunkFacts DEF Inv
<1>x. PICK x : x = <<LastChunk + 1, 1>>
  OBVIOUS
<1>s. PICK size \in Nat \ {0} : size = chunks[LastChunk] * GrowthFactor
  BY <1>0
<1>1. /\ inUse' = inUse \cup {x} /\ chunkIt' = 2
      /\ numUsed' = numUsed + 1 /\ available = Null
      /\ UNCHANGED <<available, numAvailableForReuse>>
      /\ chunks' = Append(chunks, size)
      /\ numAllocations' = numAllocations + 1
      /\ numAllocated' = numAllocated + size
      /\ chunkIt = chunks[LastChunk] + 1
      /\ next' = [y \in DOMAIN next \cup {x} |-> IF y = x THEN Null ELSE next[y]]
  BY <1>x, <1>s DEF GetFromNewChunk, allocateNewChunk, Carve, trackUsed,
     ChunkExhausted
<1>2. /\ chunks' \in Seq(Nat \ {0}) /\ LastChunk' = LastChunk + 1
      /\ chunks'[LastChunk + 1] = size
      /\ \A c \in 1..LastChunk : chunks'[c] = chunks[c]
  BY <1>0, <1>1, LenProperties, AppendProperties DEF TypeOK, LastChunk
<1>3. Untouched = {}
  BY <1>0, <1>1 DEF Untouched
<1>4. inUse = DOMAIN next /\ inUse = Owned
  BY <1>0, <1>1, <1>3, NullHeadMeansEmpty DEF EverySlotAccountedFor
<1>5. Owned' = Owned \cup ({LastChunk + 1} \X (1..size))
  <2>1. 1..(LastChunk + 1) = (1..LastChunk) \cup {LastChunk + 1}
    BY <1>0
  <2>2. Owned' = UNION {{c} \X (1..chunks'[c]) : c \in 1..(LastChunk + 1)}
    BY <1>2 DEF Owned, SlotsOf
  <2>3. Owned = UNION {{c} \X (1..chunks'[c]) : c \in 1..LastChunk}
    BY <1>2 DEF Owned, SlotsOf
  <2>4. QED
    BY <2>1, <2>2, <2>3, <1>2
<1>6. x \in Owned' /\ x \notin Owned /\ x \in Entry
  BY <1>0, <1>s, <1>x, <1>5 DEF Owned, SlotsOf, Entry
<1>7. DOMAIN next' = DOMAIN next \cup {x} /\ x \notin inUse
  BY <1>1, <1>4, <1>6
<1>8. FreeListExact'
  BY <1>1, <1>7, CarveKeepsList
<1>9. EverySlotAccountedFor'
  <2>1. Untouched' = {LastChunk + 1} \X (2..size)
    BY <1>1, <1>2 DEF Untouched
  <2>2. Owned \cap ({LastChunk + 1} \X (2..size)) = {}
    BY <1>0 DEF Owned, SlotsOf
  <2>3. {LastChunk + 1} \X (1..size) = {x} \cup ({LastChunk + 1} \X (2..size))
    BY <1>x, <1>s
  <2>4. x \notin {LastChunk + 1} \X (2..size)
    BY <1>x
  <2>5. DOMAIN next' = Owned \cup {x}
    BY <1>4, <1>7
  <2>6. QED
    BY <1>5, <2>1, <2>2, <2>3, <2>4, <2>5 DEF EverySlotAccountedFor
<1>10. IsFiniteSet(inUse') /\ Cardinality(inUse') = numUsed' /\ numUsed' \in Nat
  BY <1>1, <1>7, NewEntryCounted
<1>11. CountersExact'
  <2>1. /\ numAllocated - numUsed - numAvailableForReuse = 0
        /\ numAllocations = LastChunk
    BY <1>0, <1>1 DEF CountersExact, getNumAvailableFromChunks,
       getTotalNumAvailable
  <2>2. numAllocated' - numUsed' - numAvailableForReuse' = size - 1
    <3>1. /\ numUsed \in Nat /\ numAvailableForReuse \in Nat
          /\ numAllocated \in Nat
      BY <1>0, CounterTypes
    <3>2. /\ numAllocated' = numAllocated + size /\ numUsed' = numUsed + 1
          /\ numAvailableForReuse' = numAvailableForReuse
      BY <1>1
    <3>3. QED
      BY ONLY <2>1, <3>1, <3>2, size \in Nat
  <2>3. chunks'[LastChunk'] + 1 - chunkIt' = size - 1
    BY <1>1, <1>2
  <2>4. QED
    BY <2>1, <2>2, <2>3, <1>1, <1>2, <1>10
       DEF CountersExact, getNumAvailableFromChunks, getTotalNumAvailable
<1>12. TypeOK'
  <2>1. chunks' # << >> /\ chunkIt' \in 1..(chunks'[LastChunk'] + 1)
    BY <1>0, <1>1, <1>2, EmptySeq DEF LastChunk
  <2>2. /\ DOMAIN next' \subseteq Entry /\ inUse' \subseteq DOMAIN next'
        /\ next' \in [DOMAIN next' -> Entry \cup {Null}]
    BY <1>0, <1>1, <1>6, <1>7 DEF TypeOK
  <2>3. numAllocations' \in Nat /\ numAllocated' \in Nat
    BY <1>0, <1>1, CounterTypes
  <2>4. QED
    BY <1>0, <1>1, <1>2, <1>10, <2>1, <2>2, <2>3 DEF TypeOK
<1> QED
  BY <1>x, <1>4, <1>5, <1>6, <1>8, <1>9, <1>10, <1>11, <1>12 DEF Inv
-----------------------------------------------------------------------------
\* An entry given back heads the free list, and the rest of it follows.
LEMMA ReturnEntryInv ==
  ASSUME Inv, NEW entry \in inUse, ReturnEntry(entry)
  PROVE  /\ Inv' /\ UNCHANGED Owned
         /\ inUse' = inUse \ {entry} /\ numUsed' = numUsed - 1
<1>0. TypeOK /\ CountersExact
  BY DEF Inv
<1>n. PICK n \in Nat : n = numAvailableForReuse
  BY <1>0, CounterTypes
<1>1. /\ inUse' = inUse \ {entry} /\ available' = entry
      /\ next' = [next EXCEPT ![entry] = available]
      /\ numAvailableForReuse' = n + 1
      /\ numUsed' = IF numUsed > 0 THEN numUsed - 1 ELSE numUsed
      /\ UNCHANGED <<chunks, chunkIt, numAllocations, numAllocated, LastChunk>>
  BY <1>n DEF ReturnEntry, Link, trackReturned, chunkVars, LastChunk
<1>2. /\ entry \in DOMAIN next /\ entry \in Entry /\ entry \notin Free
      /\ DOMAIN next' = DOMAIN next
  BY <1>0, <1>1 DEF TypeOK, Free
<1>3. Free' = Free \cup {entry}
  BY <1>1, <1>2 DEF Free
<1>4. PICK list \in [1..n -> Free] :
         /\ IsFreeList(list, n)
         /\ \A x \in Free : \E i \in 1..n : list[i] = x
         /\ \A i, j \in 1..n : list[i] = list[j] => i = j
  BY <1>n DEF Inv, FreeListExact
<1>5. FreeListExact'
  <2>0. PICK longer : longer = [i \in 1..(n + 1) |->
                                   IF i = 1 THEN entry ELSE list[i - 1]]
    OBVIOUS
  <2>1. /\ longer[1] = entry
        /\ \A i \in 1..n : i + 1 \in 1..(n + 1) /\ longer[i + 1] = list[i]
        /\ \A i \in 1..(n + 1) : i = 1 \/ i - 1 \in 1..n
    BY <2>0
  <2>2. longer \in [1..(n + 1) -> Free']
    BY <2>0, <2>1, <1>3
  <2>3. ASSUME NEW i \in 1..(n + 1)
        PROVE  next'[longer[i]] = IF i = n + 1 THEN Null ELSE longer[i + 1]
    <3>1. CASE i = 1
      <4>1. next'[longer[i]] = available
        BY <3>1, <2>1, <1>1, <1>2
      <4>2. CASE n = 0
        BY <3>1, <4>1, <4>2, <1>4 DEF IsFreeList
      <4>3. CASE n # 0
        <5>1. available = list[1] /\ longer[2] = list[1] /\ i # n + 1
          BY <4>3, <3>1, <2>0, <1>4 DEF IsFreeList
        <5>2. QED
          BY <5>1, <4>1, <3>1
      <4>4. QED
        BY <4>2, <4>3
    <3>2. CASE i # 1
      <4>1. PICK j \in 1..n : j = i - 1
        BY <3>2
      <4>2. longer[i] = list[j] /\ list[j] # entry /\ list[j] \in DOMAIN next
        BY <3>2, <4>1, <2>0, <1>2, <1>4 DEF Free
      <4>3. next'[longer[i]] = IF j = n THEN Null ELSE list[j + 1]
        BY <4>2, <1>1, <1>4 DEF IsFreeList
      <4>4. j # n => longer[i + 1] = list[j + 1]
        BY <4>1, <2>1
      <4>5. QED
        BY <4>1, <4>3, <4>4
    <3>3. QED
      BY <3>1, <3>2
  <2>4. IsFreeList(longer, n + 1)'
    BY <2>1, <2>3, <1>1 DEF IsFreeList
  <2>5. ASSUME NEW x \in Free'
        PROVE  \E i \in 1..(n + 1) : longer[i] = x
    BY <2>1, <1>3, <1>4
  <2>6. ASSUME NEW i \in 1..(n + 1), NEW j \in 1..(n + 1), longer[i] = longer[j]
        PROVE  i = j
    <3>1. \A k \in 1..(n + 1) : k # 1 => longer[k] = list[k - 1] /\ longer[k] # entry
      BY <2>0, <2>1, <1>2, <1>4
    <3>2. CASE i = 1 \/ j = 1
      BY <3>1, <3>2, <2>1, <2>6
    <3>3. CASE i # 1 /\ j # 1
      <4>1. list[i - 1] = list[j - 1] /\ i - 1 \in 1..n /\ j - 1 \in 1..n
        BY <3>1, <3>3, <2>6
      <4>2. i - 1 = j - 1
        BY <4>1, <1>4
      <4>3. QED
        BY <4>2
    <3>4. QED
      BY <3>2, <3>3
  <2>7. \E l \in [1..(n + 1) -> Free'] :
           /\ IsFreeList(l, n + 1)'
           /\ \A x \in Free' : \E i \in 1..(n + 1) : l[i] = x
           /\ \A i, j \in 1..(n + 1) : l[i] = l[j] => i = j
    BY <2>2, <2>4, <2>5, <2>6
  <2>8. QED
    BY ONLY <2>7, <1>1 DEF FreeListExact, IsFreeList
<1>6. UNCHANGED <<Owned, Untouched>>
  BY <1>1 DEF Owned, SlotsOf, Untouched
<1>7. EverySlotAccountedFor'
  BY <1>2, <1>6 DEF Inv, EverySlotAccountedFor
<1>8. IsFiniteSet(inUse') /\ Cardinality(inUse') = numUsed' /\ numUsed' = numUsed - 1
      /\ numUsed' \in Nat
  <2>1. IsFiniteSet(inUse) /\ Cardinality(inUse) = numUsed /\ numUsed \in Nat
    BY <1>0, CounterTypes DEF Inv, CountersExact
  <2>2. IsFiniteSet(inUse') /\ Cardinality(inUse') = numUsed - 1
    BY <2>1, <1>1, FS_RemoveElement
  <2>3. Cardinality(inUse') \in Nat
    BY <2>2, FS_CardinalityType
  <2>4. QED
    BY <2>1, <2>2, <2>3, <1>1
<1>9. CountersExact'
  <2>1. numAllocated' - numUsed' - numAvailableForReuse'
           = numAllocated - numUsed - numAvailableForReuse
    <3>1. numUsed \in Nat /\ numAllocated \in Nat
      BY <1>0, CounterTypes
    <3>2. numAllocated' = numAllocated /\ numAvailableForReuse' = n + 1
      BY <1>1
    <3>3. QED
      BY ONLY <3>1, <3>2, <1>n, <1>8, n \in Nat
  <2>2. QED
    BY <2>1, <1>0, <1>1, <1>8
       DEF CountersExact, getNumAvailableFromChunks, getTotalNumAvailable
<1>10. TypeOK'
  <2>1. next' \in [DOMAIN next' -> Entry \cup {Null}]
    BY <1>0, <1>1, <1>2 DEF TypeOK
  <2>2. inUse' \subseteq DOMAIN next'
    BY <1>0, <1>1, <1>2 DEF TypeOK
  <2>3. numAvailableForReuse' \in Nat
    BY <1>1
  <2>4. QED
    BY <2>1, <2>2, <2>3, <1>0, <1>1, <1>2, <1>8 DEF TypeOK
<1> QED
  BY <1>1, <1>5, <1>6, <1>7, <1>8, <1>9, <1>10 DEF Inv
-----------------------------------------------------------------------------
\* The invariant is inductive: one case for each operation.
LEMMA NextInv == Inv /\ [Next]_vars => Inv'
<1> SUFFICES ASSUME Inv, [Next]_vars PROVE Inv'
  OBVIOUS
<1>1. CASE GetReused
  BY <1>1, GetReusedInv
<1>2. CASE GetFromChunk
  BY <1>2, GetFromChunkInv
<1>3. CASE GetFromNewChunk
  BY <1>3, GetFromNewChunkInv
<1>4. CASE \E entry \in inUse : ReturnEntry(entry)
  BY <1>4, ReturnEntryInv
<1>5. CASE UNCHANGED vars
  <2>1. TypeOK'
    BY <1>5 DEF vars, Inv, TypeOK, LastChunk
  <2>2. FreeListExact'
    <3>1. Free' = Free /\ UNCHANGED <<available, next, numAvailableForReuse>>
      BY <1>5 DEF vars, Free
    <3>2. PICK n \in Nat : n = numAvailableForReuse
      BY DEF Inv, TypeOK
    <3>3. PICK list \in [1..n -> Free] :
             /\ IsFreeList(list, n)
             /\ \A x \in Free : \E i \in 1..n : list[i] = x
             /\ \A i, j \in 1..n : list[i] = list[j] => i = j
      BY <3>2 DEF Inv, FreeListExact
    <3>4. IsFreeList(list, n)'
      BY <3>1, <3>3 DEF IsFreeList
    <3>5. \E l \in [1..n -> Free'] :
             /\ IsFreeList(l, n)'
             /\ \A x \in Free' : \E i \in 1..n : l[i] = x
             /\ \A i, j \in 1..n : l[i] = l[j] => i = j
      BY <3>1, <3>3, <3>4
    <3>6. numAvailableForReuse' = n /\ n \in Nat
      BY <3>1, <3>2
    <3>7. QED
      BY ONLY <3>5, <3>6 DEF FreeListExact, IsFreeList
  <2>3. EverySlotAccountedFor'
    BY <1>5 DEF vars, Inv, EverySlotAccountedFor, Owned, SlotsOf, Untouched,
       LastChunk
  <2>4. CountersExact' /\ IsFiniteSet(inUse')
    BY <1>5 DEF vars, Inv, CountersExact, getNumAvailableFromChunks,
       getTotalNumAvailable, LastChunk
  <2>5. QED
    BY <2>1, <2>2, <2>3, <2>4 DEF Inv
<1> QED
  BY <1>1, <1>2, <1>3, <1>4, <1>5 DEF Next, Get

(***************************************************************************)
(* The inductive invariant holds throughout.                               *)
(***************************************************************************)
LEMMA InvHolds == Spec => []Inv
BY InitInv, NextInv, PTL DEF Spec

(***************************************************************************)
(* The state is well typed; every entry the client holds has storage that  *)
(* was handed out (MemoryManager.hpp, get and returnEntry).                *)
(***************************************************************************)
THEOREM TypeCorrect == Spec => []TypeOK
BY InvHolds, PTL DEF Inv

(***************************************************************************)
(* However get() and returnEntry() are interleaved, the free list threaded *)
(* through T::next holds each returned entry exactly once.                 *)
(***************************************************************************)
THEOREM FreeListIsExact == Spec => []FreeListExact
BY InvHolds, PTL DEF Inv

(***************************************************************************)
(* No slot of any chunk is ever lost or handed out twice by the bump       *)
(* pointer.                                                                *)
(***************************************************************************)
THEOREM NoSlotIsLost == Spec => []EverySlotAccountedFor
BY InvHolds, PTL DEF Inv

(***************************************************************************)
(* The counters of MemoryManagerStatistics, which only add and subtract,   *)
(* say at any time how many slots the bump pointer has ahead of it, how    *)
(* many entries the client holds, and how many chunks there are.           *)
(***************************************************************************)
THEOREM CountersNeverDrift == Spec => []CountersExact
BY InvHolds, PTL DEF Inv

(***************************************************************************)
(* The chunked pool with its intrusive free list implements NodePool: get  *)
(* returns an entry nobody holds, and storage grows only when all is held. *)
(***************************************************************************)
THEOREM ImplementsNodePool == Spec => ImplementsPool
<1>1. Init => Pool!Init
  <2>1. ASSUME Init PROVE Owned \subseteq Entry /\ inUse = {} /\ numUsed = 0
    BY <2>1 DEF Init, Owned, SlotsOf, LastChunk, Entry
  <2>2. QED
    BY <2>1 DEF Pool!Init
<1>2. Inv /\ [Next]_vars => [Pool!Next]_(Pool!poolVars)
  <2> SUFFICES ASSUME Inv, [Next]_vars PROVE [Pool!Next]_(Pool!poolVars)
    OBVIOUS
  <2>1. CASE GetReused
    <3>1. Owned' = Owned
      BY <2>1 DEF GetReused, chunkVars, Owned, SlotsOf, LastChunk
    <3>2. QED
      BY <2>1, <3>1, GetReusedInv DEF GetReused, trackReused, Pool!Next, Pool!Get
  <2>2. CASE GetFromChunk
    <3>1. /\ Owned' = Owned /\ inUse' = inUse \cup {<<LastChunk, chunkIt>>}
          /\ numUsed' = numUsed + 1
      BY <2>2 DEF GetFromChunk, Carve, trackUsed, Owned, SlotsOf, LastChunk
    <3>2. QED
      BY <2>2, <3>1, GetFromChunkInv DEF Pool!Next, Pool!Get
  <2>3. CASE GetFromNewChunk
    <3>1. inUse' = inUse \cup {<<LastChunk + 1, 1>>} /\ numUsed' = numUsed + 1
      BY <2>3 DEF GetFromNewChunk, Carve, trackUsed
    <3>2. Inv' /\ Owned' \subseteq Entry
      <4>1. Inv' /\ TypeOK'
        BY <2>3, GetFromNewChunkInv DEF Inv
      <4>2. QED
        BY <4>1, EmptySeq, ElementOfSeq
           DEF TypeOK, Owned, SlotsOf, LastChunk, Entry
    <3>3. QED
      BY <2>3, <3>1, <3>2, GetFromNewChunkInv DEF Pool!Next, Pool!GrowAndGet
  <2>4. CASE \E entry \in inUse : ReturnEntry(entry)
    BY <2>4, ReturnEntryInv DEF Pool!Next, Pool!Return
  <2>5. CASE UNCHANGED vars
    BY <2>5 DEF vars, Pool!poolVars, Owned, SlotsOf, LastChunk
  <2>6. QED
    BY <2>1, <2>2, <2>3, <2>4, <2>5 DEF Next, Get
<1>3. QED
  BY <1>1, <1>2, InvHolds, PTL DEF Spec, ImplementsPool, Pool!Spec
=============================================================================
