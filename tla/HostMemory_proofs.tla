------------------------- MODULE HostMemory_proofs --------------------------
(***************************************************************************)
(* The host memory's properties for any page, space, sizes and numbers of  *)
(* allocations, pieces and Programs.                                       *)
(*                                                                         *)
(* The inductive invariant keeps to the allocator's chunks: each is mapped *)
(* whole and they lie apart (ChunksApart, Backed), every piece lies in a   *)
(* shared chunk, below its head unless it has opened the chunk             *)
(* (PiecesInside), and every allocation of a Program that is alive has an  *)
(* exclusive chunk of its own (AllocationsHeld).  What has no chunk in     *)
(* common cannot overlap; two pieces of one chunk lie one below and one    *)
(* above the head that the first of them left.                             *)
(***************************************************************************)
EXTENDS HostMemory, Integers, SequenceTheorems, TLAPS

Chunk == [is_exclusive : BOOLEAN, data : Nat, head : Nat, tail : Nat]
Piece == [ptr : Nat, size : Nat \ {0}, first : BOOLEAN]
Allocation == [ptr : Nat, size : Nat \ {0}]

Formed(c) == c.data <= c.head /\ c.head <= c.tail /\ c.data < c.tail /\ c.tail <= Space
Before(c, d) == c.tail <= d.data

Typed ==
  /\ chunks_ \in Seq(Chunk) /\ pieces \subseteq Piece
  /\ DOMAIN allocs \subseteq HostHandles
  /\ \A h \in DOMAIN allocs : allocs[h] \in Allocation
  /\ programs \in 1 .. MaxPrograms /\ finalized \in BOOLEAN

ChunksApart ==
  /\ \A i \in 1 .. Len(chunks_) : Formed(chunks_[i])
  /\ \A i, j \in 1 .. Len(chunks_) :
       i # j => Before(chunks_[i], chunks_[j]) \/ Before(chunks_[j], chunks_[i])

Backed ==
  /\ \A i \in 1 .. Len(chunks_) :
       /\ chunks_[i].data \in DOMAIN raw_memory_chunks_
       /\ raw_memory_chunks_[chunks_[i].data] = chunks_[i].tail - chunks_[i].data
  /\ \A p \in DOMAIN raw_memory_chunks_ : \E i \in 1 .. Len(chunks_) : chunks_[i].data = p

Inside(p, c) ==
  /\ ~c.is_exclusive /\ c.data <= p.ptr /\ p.ptr + p.size <= c.tail
  /\ p.first \/ p.ptr + p.size <= c.head

Below(p, q) == p.ptr + p.size <= q.ptr

PiecesInside ==
  /\ \A p \in pieces : \E i \in 1 .. Len(chunks_) : Inside(p, chunks_[i])
  /\ \A p, q \in pieces : p # q /\ ~p.first /\ ~q.first => Below(p, q) \/ Below(q, p)

Holds(a, c) == c.is_exclusive /\ c.data = a.ptr /\ c.tail = a.ptr + a.size

AllocationsHeld ==
  ~finalized =>
    /\ \A h \in DOMAIN allocs : \E i \in 1 .. Len(chunks_) : Holds(allocs[h], chunks_[i])
    /\ \A g, h \in DOMAIN allocs : g # h => allocs[g].ptr # allocs[h].ptr

Emptied == finalized => chunks_ = <<>> /\ pieces = {}

IInv ==
  Typed /\ ChunksApart /\ Backed /\ PiecesInside /\ AllocationsHeld /\ Emptied

-----------------------------------------------------------------------------
LEMMA Constants ==
  /\ HostPage \in Nat /\ HostPage > 0 /\ DefaultSize \in Nat /\ DefaultSize > 0
  /\ Space \in Nat /\ MaxPrograms \in Nat /\ MaxPrograms > 0
  /\ \A s \in PieceSizes \cup DeviceSizes \cup Alignments : s \in Nat /\ s > 0
  BY HostAssumption

\* Rounding up to a multiple.
LEMMA RoundedUp ==
  ASSUME NEW x \in Nat, NEW a \in Nat, a > 0
  PROVE  ((x + a - 1) \div a) * a \in Nat /\ ((x + a - 1) \div a) * a >= x
<1>1. (x + a - 1) \div a \in Nat
  BY SMT
<1>2. ((x + a - 1) \div a) * a >= x
  BY SMT
<1> QED BY <1>1, <1>2, SMT

\* Spans that share no address lie one before the other.
LEMMA SpansApart ==
  ASSUME NEW p \in Nat, NEW m \in Nat, NEW q \in Nat, NEW n \in Nat, m > 0, n > 0,
         HostSpan(p, m) \cap HostSpan(q, n) = {}
  PROVE  p + m <= q \/ q + n <= p
<1> SUFFICES ASSUME p + m > q, q + n > p
             PROVE  FALSE
  BY SMT
<1>1. CASE p <= q
  <2>1. q \in HostSpan(p, m) /\ q \in HostSpan(q, n)
    BY <1>1, SMT DEF HostSpan
  <2> QED BY <2>1
<1>2. CASE q <= p
  <2>1. p \in HostSpan(p, m) /\ p \in HostSpan(q, n)
    BY <1>2, SMT DEF HostSpan
  <2> QED BY <2>1
<1> QED BY <1>1, <1>2, SMT

\* A chunk's bounds.
LEMMA ChunkAt ==
  ASSUME IInv, NEW i \in 1 .. Len(chunks_)
  PROVE  /\ chunks_[i] \in Chunk
         /\ chunks_[i].data \in Nat /\ chunks_[i].head \in Nat /\ chunks_[i].tail \in Nat
         /\ Formed(chunks_[i])
<1>1. chunks_[i] \in Chunk
  BY DEF IInv, Typed
<1>2. chunks_[i].data \in Nat /\ chunks_[i].head \in Nat /\ chunks_[i].tail \in Nat
  BY <1>1 DEF Chunk
<1> QED BY <1>1, <1>2 DEF IInv, ChunksApart

\* mmap gives memory below Space, apart from every chunk.
LEMMA MmapApart ==
  ASSUME IInv, NEW size \in Nat, size > 0, NEW ptr \in Mmap(size)
  PROVE  /\ ptr \in Nat /\ ptr + size <= Space
         /\ \A i \in 1 .. Len(chunks_) :
              ptr + size <= chunks_[i].data \/ chunks_[i].tail <= ptr
<1>1. Pages(size) \in Nat /\ Pages(size) >= size
  BY RoundedUp, Constants DEF Pages
<1>2. ptr \in Nat /\ ptr + size <= Space
  BY <1>1, Constants, SMT DEF Mmap
<1>3. ASSUME NEW i \in 1 .. Len(chunks_)
      PROVE  ptr + size <= chunks_[i].data \/ chunks_[i].tail <= ptr
  <2> DEFINE d == chunks_[i].data
             n == chunks_[i].tail - chunks_[i].data
  <2>1. d \in Nat /\ chunks_[i].tail \in Nat /\ n \in Nat /\ n > 0
    BY ChunkAt, SMT DEF Formed
  <2>2. Pages(n) \in Nat /\ Pages(n) >= n
    BY <2>1, RoundedUp, Constants DEF Pages
  <2>3. HostSpan(ptr, Pages(size)) \cap HostSpan(d, Pages(n)) = {}
    BY DEF Mmap, IInv, Backed
  <2>4. ptr + Pages(size) <= d \/ d + Pages(n) <= ptr
    <3> HIDE DEF d, n
    <3> QED BY <1>1, <1>2, <2>1, <2>2, <2>3, SpansApart, SMT
  <2> QED BY <1>1, <1>2, <2>1, <2>2, <2>4, SMT
<1> QED BY <1>2, <1>3

-----------------------------------------------------------------------------
(* What each operation does to the chunks.                                 *)

LEMMA NewChunkStep ==
  ASSUME IInv, NEW size \in Nat, size > 0, NEW ptr \in Mmap(size), NEW exclusive \in BOOLEAN,
         NewChunk(ptr, size, exclusive)
  PROVE  /\ chunks_' \in Seq(Chunk) /\ Len(chunks_') = Len(chunks_) + 1
         /\ \A i \in 1 .. Len(chunks_) : chunks_'[i] = chunks_[i]
         /\ chunks_'[Len(chunks_) + 1] = [is_exclusive |-> exclusive, data |-> ptr,
                                          head |-> ptr, tail |-> ptr + size]
         /\ ChunksApart' /\ Backed'
<1> DEFINE new == [is_exclusive |-> exclusive, data |-> ptr, head |-> ptr, tail |-> ptr + size]
           last == Len(chunks_) + 1
<1>1. /\ ptr \in Nat /\ ptr + size <= Space
      /\ \A i \in 1 .. Len(chunks_) : ptr + size <= chunks_[i].data \/ chunks_[i].tail <= ptr
  BY MmapApart
<1>2. new \in Chunk /\ new.data = ptr /\ new.head = ptr /\ new.tail = ptr + size
  BY <1>1, SMT DEF Chunk
<1>3. chunks_ \in Seq(Chunk) /\ chunks_' = Append(chunks_, new) /\ Len(chunks_) \in Nat
  BY DEF IInv, Typed, NewChunk
<1> HIDE DEF new
<1>4. /\ chunks_' \in Seq(Chunk) /\ Len(chunks_') = last /\ chunks_'[last] = new
      /\ \A i \in 1 .. Len(chunks_) : chunks_'[i] = chunks_[i]
  BY <1>2, <1>3, AppendProperties
<1>5. ChunksApart'
  <2>1. Formed(new)
    BY <1>1, <1>2, SMT DEF Formed
  <2>2. \A i \in 1 .. Len(chunks_) : Before(new, chunks_[i]) \/ Before(chunks_[i], new)
    BY <1>1, <1>2 DEF Before
  <2>3. \A i \in 1 .. Len(chunks_') : i = last \/ i \in 1 .. Len(chunks_)
    BY <1>3, <1>4, SMT
  <2>4. \A i \in 1 .. Len(chunks_') : Formed(chunks_'[i])
    BY <1>4, <2>1, <2>3, ChunkAt
  <2>5. \A i, j \in 1 .. Len(chunks_') :
          i # j => Before(chunks_'[i], chunks_'[j]) \/ Before(chunks_'[j], chunks_'[i])
    <3>1. \A i, j \in 1 .. Len(chunks_) :
            i # j => Before(chunks_[i], chunks_[j]) \/ Before(chunks_[j], chunks_[i])
      BY DEF IInv, ChunksApart
    <3> QED BY <1>4, <2>2, <2>3, <3>1, Zenon
  <2> QED BY <2>4, <2>5 DEF ChunksApart, Formed, Before
<1>6. Backed'
  <2>1. /\ DOMAIN raw_memory_chunks_' = DOMAIN raw_memory_chunks_ \cup {ptr}
        /\ raw_memory_chunks_'[ptr] = size
        /\ \A p \in DOMAIN raw_memory_chunks_ \ {ptr} :
             raw_memory_chunks_'[p] = raw_memory_chunks_[p]
    BY DEF NewChunk, With
  <2>2. ASSUME NEW i \in 1 .. Len(chunks_')
        PROVE  /\ chunks_'[i].data \in DOMAIN raw_memory_chunks_'
               /\ raw_memory_chunks_'[chunks_'[i].data] = chunks_'[i].tail - chunks_'[i].data
    <3>1. CASE i = last
      BY <1>1, <1>2, <1>4, <2>1, <3>1, SMT
    <3>2. CASE i \in 1 .. Len(chunks_)
      <4>1. chunks_'[i] = chunks_[i]
        BY <1>4, <3>2
      <4>2. chunks_[i].data # ptr
        BY <1>1, <3>2, ChunkAt, SMT DEF Formed
      <4>3. /\ chunks_[i].data \in DOMAIN raw_memory_chunks_
            /\ raw_memory_chunks_[chunks_[i].data] = chunks_[i].tail - chunks_[i].data
        BY <3>2 DEF IInv, Backed
      <4> QED BY <2>1, <4>1, <4>2, <4>3
    <3> QED BY <1>3, <1>4, <3>1, <3>2, SMT
  <2>3. ASSUME NEW p \in DOMAIN raw_memory_chunks_'
        PROVE  \E i \in 1 .. Len(chunks_') : chunks_'[i].data = p
    <3>1. CASE p = ptr
      <4>1. last \in 1 .. Len(chunks_')
        BY <1>3, <1>4, SMT
      <4> QED BY <1>2, <1>4, <3>1, <4>1
    <3>2. CASE p \in DOMAIN raw_memory_chunks_
      <4>1. PICK i \in 1 .. Len(chunks_) : chunks_[i].data = p
        BY <3>2 DEF IInv, Backed
      <4>2. i \in 1 .. Len(chunks_') /\ chunks_'[i].data = p
        BY <1>3, <1>4, <4>1, SMT
      <4> QED BY <4>2
    <3> QED BY <2>1, <3>1, <3>2
  <2> QED BY <2>2, <2>3 DEF Backed
<1> QED BY <1>4, <1>5, <1>6 DEF new

\* A head that moves up within its chunk.
LEMMA HeadStep ==
  ASSUME IInv, NEW i \in 1 .. Len(chunks_), NEW h \in Nat,
         chunks_[i].head <= h, h <= chunks_[i].tail,
         chunks_' = [chunks_ EXCEPT ![i].head = h], UNCHANGED raw_memory_chunks_
  PROVE  /\ chunks_' \in Seq(Chunk) /\ Len(chunks_') = Len(chunks_)
         /\ \A j \in 1 .. Len(chunks_) :
              /\ chunks_'[j].is_exclusive = chunks_[j].is_exclusive
              /\ chunks_'[j].data = chunks_[j].data /\ chunks_'[j].tail = chunks_[j].tail
              /\ chunks_'[j].head = IF j = i THEN h ELSE chunks_[j].head
         /\ ChunksApart' /\ Backed'
<1>1. chunks_ \in Seq(Chunk)
  BY DEF IInv, Typed
<1> DEFINE moved == [chunks_[i] EXCEPT !.head = h]
<1>2. /\ moved \in Chunk /\ moved.is_exclusive = chunks_[i].is_exclusive
      /\ moved.data = chunks_[i].data /\ moved.tail = chunks_[i].tail /\ moved.head = h
  BY ChunkAt DEF Chunk
<1>3. chunks_' = [chunks_ EXCEPT ![i] = moved]
  OBVIOUS
<1> HIDE DEF moved
<1>4. /\ chunks_' \in Seq(Chunk) /\ Len(chunks_') = Len(chunks_) /\ chunks_'[i] = moved
      /\ \A j \in 1 .. Len(chunks_) \ {i} : chunks_'[j] = chunks_[j]
  BY <1>1, <1>2, <1>3, SMT
<1>5. \A j \in 1 .. Len(chunks_) :
        /\ chunks_'[j].is_exclusive = chunks_[j].is_exclusive
        /\ chunks_'[j].data = chunks_[j].data /\ chunks_'[j].tail = chunks_[j].tail
        /\ chunks_'[j].head = IF j = i THEN h ELSE chunks_[j].head
  BY <1>2, <1>4
<1>6. ChunksApart'
  <2>1. \A j \in 1 .. Len(chunks_') : Formed(chunks_'[j])
    BY <1>4, <1>5, ChunkAt, SMT DEF Formed
  <2>2. \A j, k \in 1 .. Len(chunks_') :
          j # k => Before(chunks_'[j], chunks_'[k]) \/ Before(chunks_'[k], chunks_'[j])
    BY <1>4, <1>5 DEF IInv, ChunksApart, Before
  <2> QED BY <2>1, <2>2 DEF ChunksApart, Formed, Before
<1>7. Backed'
  BY <1>4, <1>5 DEF IInv, Backed
<1> QED BY <1>4, <1>5, <1>6, <1>7

\* swap_erase_vector keeps every chunk but the i-th.
LEMMA EraseStep ==
  ASSUME IInv, NEW i \in 1 .. Len(chunks_), chunks_' = SwapErase(chunks_, i),
         raw_memory_chunks_' = Restrict(raw_memory_chunks_,
                                        DOMAIN raw_memory_chunks_ \ {chunks_[i].data})
  PROVE  /\ chunks_' \in Seq(Chunk)
         /\ \A j \in 1 .. Len(chunks_) \ {i} :
              \E k \in 1 .. Len(chunks_') : chunks_'[k] = chunks_[j]
         /\ ChunksApart' /\ Backed'
<1> DEFINE n == Len(chunks_)
           moved == [chunks_ EXCEPT ![i] = chunks_[n]]
           from(k) == IF k = i THEN n ELSE k
<1>1. chunks_ \in Seq(Chunk) /\ n \in Nat /\ n > 0
  BY SMT DEF IInv, Typed
<1>2. /\ moved \in Seq(Chunk) /\ Len(moved) = n
      /\ \A k \in 1 .. n : moved[k] = chunks_[from(k)]
  BY <1>1, SMT
<1>3. chunks_' = SubSeq(moved, 1, n - 1)
  BY DEF SwapErase
<1> HIDE DEF moved
<1>4. /\ chunks_' \in Seq(Chunk) /\ Len(chunks_') = n - 1
      /\ \A k \in 1 .. n - 1 : chunks_'[k] = chunks_[from(k)]
  <2>1. \A k \in 1 .. n - 1 : moved[k] \in Chunk
    BY <1>1, <1>2, SMT
  <2>2. /\ chunks_' \in Seq(Chunk)
        /\ Len(chunks_') = IF 1 <= n - 1 THEN (n - 1) - 1 + 1 ELSE 0
        /\ \A k \in 1 .. (n - 1) - 1 + 1 : chunks_'[k] = moved[1 + k - 1]
    BY <1>1, <1>3, <2>1, SubSeqProperties
  <2>3. Len(chunks_') = n - 1 /\ \A k \in 1 .. n - 1 : chunks_'[k] = moved[k]
    <3> HIDE DEF n
    <3>1. (n - 1) - 1 + 1 = n - 1 /\ (IF 1 <= n - 1 THEN n - 1 ELSE 0) = n - 1
      BY <1>1, SMT
    <3>2. \A k \in 1 .. n - 1 : 1 + k - 1 = k
      BY <1>1, SMT
    <3> QED BY <2>2, <3>1, <3>2
  <2>4. \A k \in 1 .. n - 1 : k \in 1 .. n
    BY <1>1, SMT
  <2> QED BY <1>2, <2>2, <2>3, <2>4
<1>5. \A k \in 1 .. n - 1 : from(k) \in 1 .. n /\ from(k) # i
  BY <1>1, SMT
<1>6. \A j, k \in 1 .. n - 1 : j # k => from(j) # from(k)
  BY <1>1, SMT
<1>7. \A j \in 1 .. n \ {i} : \E k \in 1 .. n - 1 : from(k) = j
  <2> TAKE j \in 1 .. n \ {i}
  <2>1. CASE j = n
    <3>1. i \in 1 .. n - 1 /\ from(i) = j
      BY <1>1, <2>1, SMT
    <3> QED BY <3>1
  <2>2. CASE j # n
    <3>1. j \in 1 .. n - 1 /\ from(j) = j
      BY <1>1, <2>2, SMT
    <3> QED BY <3>1
  <2> QED BY <2>1, <2>2
<1> HIDE DEF from
<1>8. ChunksApart'
  <2>1. \A k \in 1 .. n - 1 : Formed(chunks_'[k])
    BY <1>4, <1>5, ChunkAt
  <2>2. \A j, k \in 1 .. n - 1 :
          j # k => Before(chunks_'[j], chunks_'[k]) \/ Before(chunks_'[k], chunks_'[j])
    <3> TAKE j, k \in 1 .. n - 1
    <3> HAVE j # k
    <3>1. from(j) \in 1 .. n /\ from(k) \in 1 .. n /\ from(j) # from(k)
      BY <1>5, <1>6
    <3>2. \/ Before(chunks_[from(j)], chunks_[from(k)])
          \/ Before(chunks_[from(k)], chunks_[from(j)])
      BY <3>1 DEF IInv, ChunksApart
    <3> QED BY <1>4, <3>2
  <2> QED BY <1>4, <2>1, <2>2 DEF ChunksApart, Formed, Before
<1>9. Backed'
  <2>1. \A j \in 1 .. n \ {i} : chunks_[j].data # chunks_[i].data
    BY ChunkAt, SMT DEF IInv, ChunksApart, Before, Formed
  <2>2. /\ DOMAIN raw_memory_chunks_' = DOMAIN raw_memory_chunks_ \ {chunks_[i].data}
        /\ \A p \in DOMAIN raw_memory_chunks_' : raw_memory_chunks_'[p] = raw_memory_chunks_[p]
    BY DEF Restrict
  <2>3. \A k \in 1 .. Len(chunks_') :
          /\ chunks_'[k].data \in DOMAIN raw_memory_chunks_'
          /\ raw_memory_chunks_'[chunks_'[k].data] = chunks_'[k].tail - chunks_'[k].data
    <3> TAKE k \in 1 .. Len(chunks_')
    <3>1. chunks_'[k] = chunks_[from(k)] /\ from(k) \in 1 .. n /\ from(k) # i
      BY <1>4, <1>5
    <3>2. /\ chunks_[from(k)].data \in DOMAIN raw_memory_chunks_
          /\ raw_memory_chunks_[chunks_[from(k)].data]
               = chunks_[from(k)].tail - chunks_[from(k)].data
      BY <3>1 DEF IInv, Backed
    <3>3. chunks_[from(k)].data # chunks_[i].data
      BY <2>1, <3>1
    <3> QED BY <2>2, <3>1, <3>2, <3>3
  <2>4. \A p \in DOMAIN raw_memory_chunks_' : \E k \in 1 .. Len(chunks_') : chunks_'[k].data = p
    <3> TAKE p \in DOMAIN raw_memory_chunks_'
    <3>1. PICK j \in 1 .. n : chunks_[j].data = p
      BY <2>2 DEF IInv, Backed
    <3>2. PICK k \in 1 .. n - 1 : from(k) = j
      BY <1>7, <2>2, <3>1
    <3> QED BY <1>4, <3>1, <3>2
  <2> QED BY <2>3, <2>4 DEF Backed
<1>10. \A j \in 1 .. n \ {i} : \E k \in 1 .. Len(chunks_') : chunks_'[k] = chunks_[j]
  BY <1>4, <1>7
<1> QED BY <1>4, <1>8, <1>9, <1>10

-----------------------------------------------------------------------------
(* Every step keeps IInv.                                                  *)

LEMMA TakePieceKeeps ==
  ASSUME IInv, NEW size \in PieceSizes, NEW alignment \in Alignments,
         ~finalized, TakePiece(size, alignment), UNCHANGED <<allocs, programs, finalized>>
  PROVE  IInv'
<1>1. PICK i \in DOMAIN chunks_ :
        /\ HasRoom(chunks_[i], size, alignment)
        /\ chunks_' = [chunks_ EXCEPT ![i].head = HeadAfter(chunks_[i], size, alignment)]
        /\ pieces' = pieces \cup {[ptr |-> Aligned(chunks_[i].head, alignment),
                                   size |-> size, first |-> FALSE]}
        /\ UNCHANGED raw_memory_chunks_
  BY DEF TakePiece
<1>2. i \in 1 .. Len(chunks_)
  BY <1>1 DEF IInv, Typed
<1> DEFINE at == Aligned(chunks_[i].head, alignment)
           new == [ptr |-> at, size |-> size, first |-> FALSE]
<1>3. /\ size \in Nat /\ size > 0 /\ alignment \in Nat /\ alignment > 0
      /\ at \in Nat /\ at >= chunks_[i].head
  BY <1>2, Constants, ChunkAt, RoundedUp DEF Aligned
<1>4. ~chunks_[i].is_exclusive /\ at + size <= chunks_[i].tail
  BY <1>1 DEF HasRoom
<1>5. /\ chunks_' \in Seq(Chunk) /\ Len(chunks_') = Len(chunks_)
      /\ \A j \in 1 .. Len(chunks_) :
           /\ chunks_'[j].is_exclusive = chunks_[j].is_exclusive
           /\ chunks_'[j].data = chunks_[j].data /\ chunks_'[j].tail = chunks_[j].tail
           /\ chunks_'[j].head = IF j = i THEN at + size ELSE chunks_[j].head
      /\ ChunksApart' /\ Backed'
  <2>1. at + size \in Nat /\ chunks_[i].head <= at + size
    BY <1>2, <1>3, ChunkAt, SMT
  <2>2. chunks_' = [chunks_ EXCEPT ![i].head = at + size]
    BY <1>1 DEF HeadAfter
  <2> HIDE DEF at
  <2> QED BY <1>1, <1>2, <1>4, <2>1, <2>2, HeadStep
<1>6. new \in Piece /\ new.ptr = at /\ new.size = size /\ ~new.first
  BY <1>3, SMT DEF Piece
<1>7. pieces' = pieces \cup {new}
  BY <1>1
<1> HIDE DEF at, new
<1>8. Typed'
  BY <1>5, <1>6, <1>7 DEF IInv, Typed
<1>9. PiecesInside'
  <2>1. ASSUME NEW p \in pieces, NEW j \in 1 .. Len(chunks_), Inside(p, chunks_[j])
        PROVE  Inside(p, chunks_'[j])
    <3>1. p.ptr \in Nat /\ p.size \in Nat
      BY SMT DEF IInv, Typed, Piece
    <3>2. p.ptr + p.size <= chunks_[j].head => p.ptr + p.size <= chunks_'[j].head
      BY <1>2, <1>3, <1>5, <3>1, ChunkAt, SMTT(30)
    <3> QED BY <1>5, <2>1, <3>2 DEF Inside
  <2>2. Inside(new, chunks_'[i])
    <3>1. chunks_'[i].data <= new.ptr /\ new.ptr + new.size <= chunks_'[i].tail
      BY <1>2, <1>3, <1>4, <1>5, <1>6, ChunkAt, SMT DEF Formed
    <3>2. new.ptr + new.size <= chunks_'[i].head
      BY <1>2, <1>3, <1>5, <1>6, SMT
    <3> QED BY <1>2, <1>4, <1>5, <3>1, <3>2 DEF Inside
  <2>3. ASSUME NEW p \in pieces, ~p.first
        PROVE  Below(p, new) \/ Below(new, p)
    <3>1. p.ptr \in Nat /\ p.size \in Nat
      BY SMT DEF IInv, Typed, Piece
    <3>2. PICK j \in 1 .. Len(chunks_) : Inside(p, chunks_[j])
      BY DEF IInv, PiecesInside
    <3>3. chunks_[j].data <= p.ptr /\ p.ptr + p.size <= chunks_[j].tail
      BY <3>2 DEF Inside
    <3>4. CASE j = i
      <4>1. p.ptr + p.size <= chunks_[i].head
        BY <2>3, <3>2, <3>4 DEF Inside
      <4> QED BY <1>2, <1>3, <1>6, <3>1, <4>1, ChunkAt, SMT DEF Below
    <3>5. CASE j # i
      <4>1. chunks_[i].tail <= chunks_[j].data \/ chunks_[j].tail <= chunks_[i].data
        BY <1>2, <3>5 DEF IInv, ChunksApart, Before
      <4>2. chunks_[i].data <= at
        BY <1>2, <1>3, ChunkAt, SMT DEF Formed
      <4>3. /\ chunks_[i].data \in Nat /\ chunks_[i].tail \in Nat
            /\ chunks_[j].data \in Nat /\ chunks_[j].tail \in Nat
        BY <1>2, ChunkAt
      <4>4. new.ptr = at /\ new.size = size /\ at + size <= chunks_[i].tail
        BY <1>4, <1>6
      <4>5. CASE chunks_[i].tail <= chunks_[j].data
        <5>1. at + size <= p.ptr
          BY <1>3, <3>1, <3>3, <4>3, <4>4, <4>5, SMTT(30)
        <5> QED BY <4>4, <5>1 DEF Below
      <4>6. CASE chunks_[j].tail <= chunks_[i].data
        <5>1. p.ptr + p.size <= at
          BY <1>3, <3>1, <3>3, <4>2, <4>3, <4>6, SMTT(30)
        <5> QED BY <4>4, <5>1 DEF Below
      <4> QED BY <4>1, <4>5, <4>6
    <3> QED BY <3>4, <3>5
  <2>4. \A p \in pieces' : \E j \in 1 .. Len(chunks_') : Inside(p, chunks_'[j])
    BY <1>2, <1>5, <1>7, <2>1, <2>2 DEF IInv, PiecesInside
  <2>5. \A p, q \in pieces' : p # q /\ ~p.first /\ ~q.first => Below(p, q) \/ Below(q, p)
    BY <1>7, <2>3 DEF IInv, PiecesInside
  <2> QED BY <2>4, <2>5 DEF PiecesInside, Inside, Below
<1>10. AllocationsHeld'
  BY <1>5 DEF IInv, AllocationsHeld, Holds
<1> QED BY <1>5, <1>8, <1>9, <1>10 DEF IInv, Emptied

LEMMA OpenChunkKeeps ==
  ASSUME IInv, NEW size \in PieceSizes, NEW alignment \in Alignments,
         ~finalized, OpenChunk(size, alignment), UNCHANGED <<allocs, programs, finalized>>
  PROVE  IInv'
<1> DEFINE allocation_size == IF size > DefaultSize THEN size ELSE DefaultSize
           last == Len(chunks_) + 1
<1>1. /\ size \in Nat /\ size > 0 /\ allocation_size \in Nat
      /\ allocation_size > 0 /\ size <= allocation_size
  BY Constants, SMT
<1>2. PICK ptr \in Mmap(allocation_size) :
        /\ NewChunk(ptr, allocation_size, FALSE)
        /\ pieces' = pieces \cup {[ptr |-> ptr, size |-> size, first |-> TRUE]}
  BY DEF OpenChunk
<1> DEFINE new == [ptr |-> ptr, size |-> size, first |-> TRUE]
           chunk == [is_exclusive |-> FALSE, data |-> ptr,
                     head |-> ptr, tail |-> ptr + allocation_size]
<1> HIDE DEF allocation_size
<1>3. ptr \in Nat
  BY <1>1, MmapApart
<1>4. /\ chunks_' \in Seq(Chunk) /\ Len(chunks_') = last
      /\ \A i \in 1 .. Len(chunks_) : chunks_'[i] = chunks_[i]
      /\ chunks_'[last] = chunk /\ ChunksApart' /\ Backed'
  BY <1>1, <1>2, NewChunkStep
<1>5. new \in Piece /\ new.first
  BY <1>1, <1>3, SMT DEF Piece
<1>6. Inside(new, chunk)
  BY <1>1, <1>3, SMT DEF Inside
<1>7. pieces' = pieces \cup {new}
  BY <1>2
<1> HIDE DEF new, chunk
<1>8. /\ last \in 1 .. Len(chunks_')
      /\ \A i \in 1 .. Len(chunks_) : i \in 1 .. Len(chunks_')
  BY <1>4, SMT DEF IInv, Typed
<1>9. Typed'
  BY <1>2, <1>4, <1>5, <1>7 DEF IInv, Typed
<1>10. PiecesInside'
  <2>1. \A p \in pieces' : \E j \in 1 .. Len(chunks_') : Inside(p, chunks_'[j])
    BY <1>4, <1>6, <1>7, <1>8 DEF IInv, PiecesInside
  <2>2. \A p, q \in pieces' : p # q /\ ~p.first /\ ~q.first => Below(p, q) \/ Below(q, p)
    BY <1>5, <1>7 DEF IInv, PiecesInside
  <2> QED BY <2>1, <2>2 DEF PiecesInside, Inside, Below
<1>11. AllocationsHeld'
  BY <1>4, <1>8 DEF IInv, AllocationsHeld, Holds
<1> QED BY <1>4, <1>9, <1>10, <1>11 DEF IInv, Emptied

LEMMA AllocateMemoryKeeps ==
  ASSUME IInv, NEW h \in HostHandles, NEW size \in DeviceSizes, AllocateMemory(h, size)
  PROVE  IInv'
<1> DEFINE last == Len(chunks_) + 1
<1>1. size \in Nat /\ size > 0
  BY Constants
<1>2. ~finalized /\ h \notin DOMAIN allocs
  BY DEF AllocateMemory
<1>3. PICK ptr \in Mmap(size) :
        /\ NewChunk(ptr, size, TRUE)
        /\ allocs' = With(allocs, h, [ptr |-> ptr, size |-> size])
  BY DEF AllocateMemory
<1> DEFINE new == [ptr |-> ptr, size |-> size]
           chunk == [is_exclusive |-> TRUE, data |-> ptr, head |-> ptr, tail |-> ptr + size]
<1>4. /\ ptr \in Nat
      /\ \A i \in 1 .. Len(chunks_) : ptr + size <= chunks_[i].data \/ chunks_[i].tail <= ptr
  BY <1>1, MmapApart
<1>5. /\ chunks_' \in Seq(Chunk) /\ Len(chunks_') = last
      /\ \A i \in 1 .. Len(chunks_) : chunks_'[i] = chunks_[i]
      /\ chunks_'[last] = chunk /\ ChunksApart' /\ Backed'
  BY <1>1, <1>3, NewChunkStep
<1>6. new \in Allocation /\ new.ptr = ptr /\ Holds(new, chunk)
  BY <1>1, <1>4, SMT DEF Allocation, Holds
<1>7. /\ DOMAIN allocs' = DOMAIN allocs \cup {h} /\ allocs'[h] = new
      /\ \A g \in DOMAIN allocs : allocs'[g] = allocs[g]
  BY <1>2, <1>3 DEF With
<1> HIDE DEF new, chunk
<1>8. /\ last \in 1 .. Len(chunks_')
      /\ \A i \in 1 .. Len(chunks_) : i \in 1 .. Len(chunks_')
  BY <1>5, SMT DEF IInv, Typed
<1>9. Typed'
  BY <1>5, <1>6, <1>7 DEF IInv, Typed, AllocateMemory
<1>10. PiecesInside'
  BY <1>5, <1>8 DEF AllocateMemory, IInv, PiecesInside, Inside, Below
<1>11. AllocationsHeld'
  <2>1. \A g \in DOMAIN allocs' : \E i \in 1 .. Len(chunks_') : Holds(allocs'[g], chunks_'[i])
    BY <1>2, <1>5, <1>6, <1>7, <1>8 DEF IInv, AllocationsHeld
  <2>2. \A g \in DOMAIN allocs : allocs[g].ptr # new.ptr
    <3> TAKE g \in DOMAIN allocs
    <3>1. PICK i \in 1 .. Len(chunks_) : Holds(allocs[g], chunks_[i])
      BY <1>2 DEF IInv, AllocationsHeld
    <3> QED BY <1>1, <1>4, <1>6, <3>1, ChunkAt, SMT DEF Holds, Formed
  <2>3. \A f, g \in DOMAIN allocs' : f # g => allocs'[f].ptr # allocs'[g].ptr
    BY <1>2, <1>7, <2>2 DEF IInv, AllocationsHeld
  <2> QED BY <2>1, <2>3 DEF AllocationsHeld, Holds
<1> QED BY <1>2, <1>5, <1>9, <1>10, <1>11 DEF IInv, Emptied, AllocateMemory

LEMMA DeallocMemoryKeeps ==
  ASSUME IInv, NEW h \in HostHandles, DeallocMemory(h)
  PROVE  IInv'
<1> DEFINE ptr == allocs[h].ptr
           found == {i \in DOMAIN chunks_ : chunks_[i].data = ptr}
<1>1. /\ h \in DOMAIN allocs /\ DOMAIN allocs' = DOMAIN allocs \ {h}
      /\ \A g \in DOMAIN allocs' : allocs'[g] = allocs[g]
      /\ UNCHANGED <<pieces, programs, finalized>>
  BY DEF DeallocMemory, Restrict
<1>2. CASE found = {}
  <2>1. UNCHANGED <<chunks_, raw_memory_chunks_>>
    BY <1>2 DEF DeallocMemory
  <2>2. Typed' /\ AllocationsHeld'
    BY <1>1, <2>1 DEF IInv, Typed, AllocationsHeld, Holds
  <2>3. ChunksApart' /\ Backed' /\ PiecesInside' /\ Emptied'
    BY <1>1, <2>1 DEF IInv, ChunksApart, Formed, Before, Backed, PiecesInside, Inside, Below, Emptied
  <2> QED BY <2>2, <2>3 DEF IInv
<1>3. CASE found # {}
  <2>1. PICK i \in found :
          /\ chunks_' = SwapErase(chunks_, i)
          /\ raw_memory_chunks_' = Restrict(raw_memory_chunks_, DOMAIN raw_memory_chunks_ \ {ptr})
    BY <1>3 DEF DeallocMemory
  <2>2. i \in 1 .. Len(chunks_) /\ chunks_[i].data = ptr
    BY DEF IInv, Typed
  <2>3. /\ chunks_' \in Seq(Chunk) /\ ChunksApart' /\ Backed'
        /\ \A j \in 1 .. Len(chunks_) \ {i} :
             \E k \in 1 .. Len(chunks_') : chunks_'[k] = chunks_[j]
    BY <2>1, <2>2, EraseStep
  <2>4. ~finalized
    BY <2>2, SMT DEF IInv, Emptied
  <2>5. \A j, k \in 1 .. Len(chunks_) : chunks_[j].data = chunks_[k].data => j = k
    BY ChunkAt, SMTT(30) DEF IInv, ChunksApart, Before, Formed
  <2>6. chunks_[i].is_exclusive
    <3>1. PICK j \in 1 .. Len(chunks_) : Holds(allocs[h], chunks_[j])
      BY <1>1, <2>4 DEF IInv, AllocationsHeld
    <3> QED BY <2>2, <2>5, <3>1 DEF Holds
  <2>7. Typed'
    BY <1>1, <2>3 DEF IInv, Typed
  <2>8. PiecesInside'
    <3>1. \A p \in pieces : \E k \in 1 .. Len(chunks_') : Inside(p, chunks_'[k])
      <4> TAKE p \in pieces
      <4>1. PICK j \in 1 .. Len(chunks_) : Inside(p, chunks_[j])
        BY DEF IInv, PiecesInside
      <4>2. j # i
        BY <2>6, <4>1 DEF Inside
      <4> QED BY <2>3, <4>1, <4>2
    <3> QED BY <1>1, <3>1 DEF IInv, PiecesInside, Inside, Below
  <2>9. AllocationsHeld'
    <3>1. \A g \in DOMAIN allocs' : \E k \in 1 .. Len(chunks_') : Holds(allocs[g], chunks_'[k])
      <4> TAKE g \in DOMAIN allocs'
      <4>1. PICK j \in 1 .. Len(chunks_) : Holds(allocs[g], chunks_[j])
        BY <1>1, <2>4 DEF IInv, AllocationsHeld
      <4>2. allocs[g].ptr # ptr
        BY <1>1, <2>4 DEF IInv, AllocationsHeld
      <4>3. j # i
        BY <2>2, <4>1, <4>2 DEF Holds
      <4> QED BY <2>3, <4>1, <4>3
    <3> QED BY <1>1, <2>4, <3>1 DEF IInv, AllocationsHeld, Holds
  <2>10. Emptied'
    BY <1>1, <2>4 DEF Emptied
  <2> QED BY <2>3, <2>7, <2>8, <2>9, <2>10 DEF IInv
<1> QED BY <1>2, <1>3

LEMMA FinalizeKeeps ==
  ASSUME IInv, Finalize
  PROVE  IInv'
<1>1. /\ chunks_' = <<>> /\ raw_memory_chunks_' = <<>> /\ pieces' = {} /\ finalized'
      /\ UNCHANGED <<allocs, programs>>
  BY DEF Finalize
<1>2. Len(chunks_') = 0 /\ chunks_' \in Seq(Chunk) /\ DOMAIN raw_memory_chunks_' = {}
  BY <1>1, SMT
<1>3. Typed'
  BY <1>1, <1>2 DEF IInv, Typed, Finalize
<1>4. ChunksApart' /\ Backed' /\ PiecesInside'
  BY <1>1, <1>2, SMT DEF ChunksApart, Backed, PiecesInside
<1> QED BY <1>1, <1>3, <1>4 DEF IInv, AllocationsHeld, Emptied

LEMMA NextProgramKeeps ==
  ASSUME IInv, NextProgram
  PROVE  IInv'
<1>1. programs' \in 1 .. MaxPrograms
  BY Constants, SMT DEF NextProgram, IInv, Typed
<1>2. Typed' /\ AllocationsHeld'
  BY <1>1 DEF NextProgram, IInv, Typed, AllocationsHeld
<1>3. ChunksApart' /\ Backed' /\ PiecesInside' /\ Emptied'
  BY DEF NextProgram, IInv, ChunksApart, Formed, Before, Backed, PiecesInside, Inside, Below, Emptied
<1> QED BY <1>2, <1>3 DEF IInv

LEMMA Initial == HostInit => IInv
<1> SUFFICES ASSUME HostInit
             PROVE  IInv
  OBVIOUS
<1>1. Len(chunks_) = 0 /\ chunks_ \in Seq(Chunk) /\ DOMAIN raw_memory_chunks_ = {}
  BY SMT DEF HostInit
<1>2. DOMAIN allocs = {} /\ pieces = {} /\ ~finalized
  BY SMT DEF HostInit
<1>3. programs \in 1 .. MaxPrograms
  BY Constants, SMT DEF HostInit
<1>4. Typed
  BY <1>1, <1>2, <1>3 DEF Typed, HostInit
<1>5. ChunksApart /\ Backed /\ PiecesInside
  BY <1>1, <1>2, SMT DEF ChunksApart, Backed, PiecesInside
<1> QED BY <1>2, <1>4, <1>5 DEF IInv, AllocationsHeld, Emptied

LEMMA Inductive == IInv /\ [HostNext]_hostVars => IInv'
<1> SUFFICES ASSUME IInv, [HostNext]_hostVars
             PROVE  IInv'
  OBVIOUS
<1>1. ASSUME NEW size \in PieceSizes, NEW a \in Alignments, AllocatePiece(size, a)
      PROVE  IInv'
  BY <1>1, TakePieceKeeps, OpenChunkKeeps DEF AllocatePiece
<1>2. ASSUME NEW h \in HostHandles, NEW size \in DeviceSizes, AllocateMemory(h, size)
      PROVE  IInv'
  BY <1>2, AllocateMemoryKeeps
<1>3. ASSUME NEW h \in HostHandles, DeallocMemory(h)
      PROVE  IInv'
  BY <1>3, DeallocMemoryKeeps
<1>4. CASE UNCHANGED hostVars
  <2>1. Typed' /\ AllocationsHeld'
    BY <1>4 DEF hostVars, IInv, Typed, AllocationsHeld, Holds
  <2>2. ChunksApart' /\ Backed' /\ PiecesInside' /\ Emptied'
    BY <1>4 DEF hostVars, IInv, ChunksApart, Formed, Before, Backed, PiecesInside, Inside, Below, Emptied
  <2> QED BY <2>1, <2>2 DEF IInv
<1> QED BY <1>1, <1>2, <1>3, <1>4, FinalizeKeeps, NextProgramKeeps DEF HostNext

LEMMA Invariant == HostSpec => []IInv
  BY Initial, Inductive, PTL DEF HostSpec

-----------------------------------------------------------------------------
(* What the invariant means for memory.                                    *)

\* What lies in a chunk is mapped.
LEMMA ChunkMapped ==
  ASSUME IInv, NEW i \in 1 .. Len(chunks_), NEW p \in Nat, NEW n \in Nat,
         chunks_[i].data <= p, p + n <= chunks_[i].tail
  PROVE  HostSpan(p, n) \subseteq Mapped
<1> DEFINE d == chunks_[i].data
<1>1. /\ d \in DOMAIN raw_memory_chunks_ /\ raw_memory_chunks_[d] = chunks_[i].tail - d
      /\ d \in Nat /\ chunks_[i].tail \in Nat
  BY ChunkAt DEF IInv, Backed
<1>2. HostSpan(p, n) \subseteq HostSpan(d, raw_memory_chunks_[d])
  BY <1>1, SMT DEF HostSpan
<1> QED BY <1>1, <1>2 DEF Mapped

\* Nothing that lies in one chunk overlaps what lies in another.
LEMMA ChunksShareNothing ==
  ASSUME IInv, NEW i \in 1 .. Len(chunks_), NEW j \in 1 .. Len(chunks_), i # j,
         NEW p \in Nat, NEW m \in Nat, NEW q \in Nat, NEW n \in Nat,
         chunks_[i].data <= p, p + m <= chunks_[i].tail,
         chunks_[j].data <= q, q + n <= chunks_[j].tail
  PROVE  HostSpan(p, m) \cap HostSpan(q, n) = {}
<1>1. Before(chunks_[i], chunks_[j]) \/ Before(chunks_[j], chunks_[i])
  BY DEF IInv, ChunksApart
<1>2. p + m <= q \/ q + n <= p
  BY <1>1, ChunkAt, SMT DEF Before
<1> QED BY <1>2, SMT DEF HostSpan

\* The type invariant: a chunk's head stays within the chunk, and chunks and
\* pieces within the address space.
THEOREM TypeCorrect == HostSpec => []TypeOK
<1>1. IInv => TypeOK
  <2> SUFFICES ASSUME IInv
               PROVE  TypeOK
    OBVIOUS
  <2>1. DOMAIN chunks_ = 1 .. Len(chunks_)
    BY DEF IInv, Typed
  <2>2. ASSUME NEW i \in DOMAIN chunks_
        PROVE  /\ chunks_[i].is_exclusive \in BOOLEAN
               /\ chunks_[i].data \in 0 .. Space
               /\ chunks_[i].head \in chunks_[i].data .. chunks_[i].tail
               /\ chunks_[i].tail <= Space
    <3>1. chunks_[i].is_exclusive \in BOOLEAN
      BY <2>1, ChunkAt DEF Chunk
    <3> QED BY <2>1, <3>1, ChunkAt, Constants, SMT DEF Formed
  <2>3. DOMAIN raw_memory_chunks_ \subseteq 0 .. Space
    BY <2>1, <2>2 DEF IInv, Backed
  <2>4. ASSUME NEW p \in pieces
        PROVE  p.ptr + p.size <= Space
    <3>1. PICK i \in 1 .. Len(chunks_) : Inside(p, chunks_[i])
      BY DEF IInv, PiecesInside
    <3>2. p.ptr \in Nat /\ p.size \in Nat
      BY SMT DEF IInv, Typed, Piece
    <3> QED BY <3>1, <3>2, ChunkAt, Constants, SMT DEF Inside, Formed
  <2> QED BY <2>2, <2>3, <2>4 DEF TypeOK, IInv, Typed
<1> QED BY <1>1, Invariant, PTL

\* The allocator's chunks are exactly what is mapped, each once.
THEOREM ChunksAreMapped == HostSpec => []ChunksBacked
<1>1. IInv => ChunksBacked
  <2> SUFFICES ASSUME IInv
               PROVE  ChunksBacked
    OBVIOUS
  <2>1. DOMAIN chunks_ = 1 .. Len(chunks_)
    BY DEF IInv, Typed
  <2>2. \A i, j \in DOMAIN chunks_ : i # j => chunks_[i].data # chunks_[j].data
    BY <2>1, ChunkAt, SMTT(30) DEF IInv, ChunksApart, Before, Formed
  <2>3. \A i \in DOMAIN chunks_ :
          /\ chunks_[i].data \in DOMAIN raw_memory_chunks_
          /\ chunks_[i].tail - chunks_[i].data = raw_memory_chunks_[chunks_[i].data]
    BY <2>1 DEF IInv, Backed
  <2>4. \A p \in DOMAIN raw_memory_chunks_ : \E i \in DOMAIN chunks_ : chunks_[i].data = p
    BY <2>1 DEF IInv, Backed
  <2> DEFINE listed == {<<chunks_[i].data, chunks_[i].tail - chunks_[i].data>> : i \in DOMAIN chunks_}
             mapped == {<<p, raw_memory_chunks_[p]>> : p \in DOMAIN raw_memory_chunks_}
  <2>5. \A x \in listed : x \in mapped
    BY <2>3, Zenon
  <2>6. ASSUME NEW p \in DOMAIN raw_memory_chunks_
        PROVE  <<p, raw_memory_chunks_[p]>> \in listed
    <3>1. PICK i \in DOMAIN chunks_ : chunks_[i].data = p
      BY <2>4
    <3>2. <<p, raw_memory_chunks_[p]>> = <<chunks_[i].data, chunks_[i].tail - chunks_[i].data>>
      BY <2>3, <3>1
    <3> QED BY <3>2
  <2>7. listed = mapped
    BY <2>5, <2>6
  <2> QED BY <2>2, <2>7 DEF ChunksBacked
<1> QED BY <1>1, Invariant, PTL

\* A CpuDevice allocation of the Program that is alive stays mapped and shares
\* no address with another one or with a piece of the runtime.
THEOREM DeviceMemoryStays == HostSpec => []DeviceMemoryKept
<1>1. IInv => DeviceMemoryKept
  <2> SUFFICES ASSUME IInv, ~finalized, NEW h \in DOMAIN allocs
               PROVE  /\ Memory(allocs[h]) \subseteq Mapped
                      /\ \A g \in DOMAIN allocs \ {h} :
                           Memory(allocs[g]) \cap Memory(allocs[h]) = {}
                      /\ \A p \in pieces : Memory(p) \cap Memory(allocs[h]) = {}
    BY DEF DeviceMemoryKept
  <2>1. \A g \in DOMAIN allocs : allocs[g].ptr \in Nat /\ allocs[g].size \in Nat
    BY SMT DEF IInv, Typed, Allocation
  <2>2. PICK i \in 1 .. Len(chunks_) : Holds(allocs[h], chunks_[i])
    BY DEF IInv, AllocationsHeld
  <2>3. /\ chunks_[i].data <= allocs[h].ptr
        /\ allocs[h].ptr + allocs[h].size <= chunks_[i].tail
    BY <2>1, <2>2, SMT DEF Holds
  <2>4. Memory(allocs[h]) \subseteq Mapped
    BY <2>1, <2>3, ChunkMapped DEF Memory
  <2>5. ASSUME NEW g \in DOMAIN allocs \ {h}
        PROVE  Memory(allocs[g]) \cap Memory(allocs[h]) = {}
    <3>1. PICK j \in 1 .. Len(chunks_) : Holds(allocs[g], chunks_[j])
      BY DEF IInv, AllocationsHeld
    <3>2. /\ chunks_[j].data <= allocs[g].ptr
          /\ allocs[g].ptr + allocs[g].size <= chunks_[j].tail
      BY <2>1, <3>1, SMT DEF Holds
    <3>3. j # i
      BY <2>2, <3>1 DEF IInv, AllocationsHeld, Holds
    <3> QED BY <2>1, <2>3, <3>2, <3>3, ChunksShareNothing DEF Memory
  <2>6. ASSUME NEW p \in pieces
        PROVE  Memory(p) \cap Memory(allocs[h]) = {}
    <3>1. PICK j \in 1 .. Len(chunks_) : Inside(p, chunks_[j])
      BY DEF IInv, PiecesInside
    <3>2. j # i /\ chunks_[j].data <= p.ptr /\ p.ptr + p.size <= chunks_[j].tail
      BY <2>2, <3>1 DEF Holds, Inside
    <3>3. p.ptr \in Nat /\ p.size \in Nat
      BY SMT DEF IInv, Typed, Piece
    <3> QED BY <2>1, <2>3, <3>2, <3>3, ChunksShareNothing DEF Memory
  <2> QED BY <2>4, <2>5, <2>6
<1> QED BY <1>1, Invariant, PTL

\* The runtime's pieces stay mapped, and those that have not opened their chunk
\* never overlap.
THEOREM PiecesStay == HostSpec => []PiecesKept
<1>1. IInv => PiecesKept
  <2> SUFFICES ASSUME IInv, NEW p \in pieces
               PROVE  /\ Memory(p) \subseteq Mapped
                      /\ \A q \in pieces :
                           p # q /\ ~p.first /\ ~q.first => Memory(p) \cap Memory(q) = {}
    BY DEF PiecesKept
  <2>1. \A q \in pieces : q.ptr \in Nat /\ q.size \in Nat
    BY SMT DEF IInv, Typed, Piece
  <2>2. PICK i \in 1 .. Len(chunks_) : Inside(p, chunks_[i])
    BY DEF IInv, PiecesInside
  <2>3. Memory(p) \subseteq Mapped
    BY <2>1, <2>2, ChunkMapped DEF Memory, Inside
  <2>4. ASSUME NEW q \in pieces, p # q, ~p.first, ~q.first
        PROVE  Memory(p) \cap Memory(q) = {}
    <3>1. Below(p, q) \/ Below(q, p)
      BY <2>4 DEF IInv, PiecesInside
    <3> QED BY <2>1, <3>1, SMTT(30) DEF Below, Memory, HostSpan
  <2> QED BY <2>3, <2>4
<1> QED BY <1>1, Invariant, PTL
=============================================================================
