----------------------------- MODULE HostMemory -----------------------------
(***************************************************************************)
(* Host memory of the CPU backend: HostMemoryPool and its UnifiedAllocator *)
(* (src/taichi/rhi/common/host_memory_pool.cpp, unified_allocator.cpp),    *)
(* with the two kinds of users they have.  The LLVM runtime cuts pieces of *)
(* shared chunks and never gives one back; CpuDevice takes an exclusive    *)
(* chunk for every allocation and releases it.  A Program that is          *)
(* finalized resets the pool; the ndarrays it still owns are released      *)
(* after that, before the next Program begins.                             *)
(*                                                                         *)
(* Every operation holds mut_allocation_, so that it is one step, whatever *)
(* threads call it.  Abstracted: a page is HostPage units; mmap gives any  *)
(* free range of whole pages.                                              *)
(***************************************************************************)
EXTENDS Naturals, Sequences, FiniteSets, Functions

CONSTANTS
  HostHandles,  \* names of CpuDevice's allocations
  HostPage, Space,  \* a page and the address space, in units
  DefaultSize,  \* default_allocator_size
  PieceSizes, Alignments,  \* what the runtime asks for
  DeviceSizes,  \* what CpuDevice asks for
  MaxPieces,    \* bound on the pieces of one Program
  MaxPrograms   \* bound on the Programs, one after the other

ASSUME HostAssumption ==
  /\ {HostPage, DefaultSize, Space} \subseteq Nat \ {0}
  /\ DefaultSize % HostPage = 0 /\ Space % HostPage = 0
  /\ PieceSizes \cup Alignments \cup DeviceSizes \subseteq Nat \ {0}
  /\ \A a \in Alignments : HostPage % a = 0
  /\ MaxPieces \in Nat /\ MaxPrograms \in Nat \ {0}

VARIABLES
  chunks_,             \* of the allocator: is_exclusive, data, head, tail
  raw_memory_chunks_,  \* what is mapped: address to size
  pieces,              \* the runtime's pieces; `first' opened its chunk
  allocs,              \* handle to [ptr, size]; only those that are alive
  programs, finalized  \* Programs begun; whether the last one is finalized

hostVars == <<chunks_, raw_memory_chunks_, pieces, allocs, programs, finalized>>

HostInit ==
  /\ chunks_ = <<>> /\ raw_memory_chunks_ = <<>>
  /\ pieces = {} /\ allocs = <<>>
  /\ programs = 1 /\ finalized = FALSE

HostSpan(ptr, size) == ptr .. ptr + size - 1
Pages(size) == ((size + HostPage - 1) \div HostPage) * HostPage
With(f, x, y) == [z \in DOMAIN f \cup {x} |-> IF z = x THEN y ELSE f[z]]

\* mmap: whole pages that are not mapped.
Mmap(size) ==
  {p \in 0 .. Space - Pages(size) :
     /\ p % HostPage = 0
     /\ \A q \in DOMAIN raw_memory_chunks_ :
          HostSpan(p, Pages(size))
            \cap HostSpan(q, Pages(raw_memory_chunks_[q])) = {}}

-----------------------------------------------------------------------------
(* UnifiedAllocator::allocate                                              *)

Aligned(p, alignment) == ((p + alignment - 1) \div alignment) * alignment

\* MUTANT: exclusive chunks are searched, too.
HasRoomInAny(c, size, alignment) == Aligned(c.head, alignment) + size <= c.tail

HasRoom(c, size, alignment) ==
  ~c.is_exclusive /\ Aligned(c.head, alignment) + size <= c.tail

\* MUTANT: the padding is not counted.
HeadUnpadded(c, size, alignment) == c.head + size
HeadAfter(c, size, alignment) == Aligned(c.head, alignment) + size

\* The first chunk with room gives the piece and moves its head ...
TakePiece(size, alignment) ==
  \E i \in DOMAIN chunks_ :
    /\ HasRoom(chunks_[i], size, alignment)
    /\ \A j \in 1 .. i - 1 : ~HasRoom(chunks_[j], size, alignment)
    /\ chunks_' = [chunks_ EXCEPT ![i].head = HeadAfter(chunks_[i], size, alignment)]
    /\ pieces' = pieces \cup {[ptr |-> Aligned(chunks_[i].head, alignment),
                               size |-> size, first |-> FALSE]}
    /\ UNCHANGED raw_memory_chunks_

\* allocate_raw_memory and a chunk for it.  The head stays at the beginning.
NewChunk(ptr, size, exclusive) ==
  /\ raw_memory_chunks_' = With(raw_memory_chunks_, ptr, size)
  /\ chunks_' = Append(chunks_, [is_exclusive |-> exclusive, data |-> ptr,
                                 head |-> ptr, tail |-> ptr + size])

\* ... or a new chunk is made, which begins with the piece.
OpenChunk(size, alignment) ==
  /\ \A i \in DOMAIN chunks_ : ~HasRoom(chunks_[i], size, alignment)
  /\ LET allocation_size == IF size > DefaultSize THEN size ELSE DefaultSize
     IN \E ptr \in Mmap(allocation_size) :
          /\ NewChunk(ptr, allocation_size, FALSE)
          /\ pieces' = pieces \cup {[ptr |-> ptr, size |-> size, first |-> TRUE]}

AllocatePiece(size, alignment) ==
  /\ ~finalized /\ Cardinality(pieces) < MaxPieces
  /\ TakePiece(size, alignment) \/ OpenChunk(size, alignment)
  /\ UNCHANGED <<allocs, programs, finalized>>

\* CpuDevice::allocate_memory
AllocateMemory(h, size) ==
  /\ ~finalized /\ h \notin DOMAIN allocs
  /\ \E ptr \in Mmap(size) :
       /\ NewChunk(ptr, size, TRUE)
       /\ allocs' = With(allocs, h, [ptr |-> ptr, size |-> size])
  /\ UNCHANGED <<pieces, programs, finalized>>

-----------------------------------------------------------------------------
(* CpuDevice::dealloc_memory, HostMemoryPool::release                      *)

\* MUTANT: the last element goes without taking the other one's place.
SwapEraseLast(seq, i) == SubSeq(seq, 1, Len(seq) - 1)

\* swap_erase_vector: the last element takes the place of the i-th.
SwapErase(seq, i) == SubSeq([seq EXCEPT ![i] = seq[Len(seq)]], 1, Len(seq) - 1)

\* A pointer that no chunk has (the pool was reset meanwhile) is ignored.
DeallocMemory(h) ==
  /\ h \in DOMAIN allocs
  /\ LET ptr == allocs[h].ptr
         found == {i \in DOMAIN chunks_ : chunks_[i].data = ptr}
     IN IF found = {}
        THEN UNCHANGED <<chunks_, raw_memory_chunks_>>
        ELSE \E i \in found :
               /\ chunks_' = SwapErase(chunks_, i)
               /\ raw_memory_chunks_' =
                    Restrict(raw_memory_chunks_, DOMAIN raw_memory_chunks_ \ {ptr})
  /\ allocs' = Restrict(allocs, DOMAIN allocs \ {h})
  /\ UNCHANGED <<pieces, programs, finalized>>

\* Program::finalize ends with HostMemoryPool::reset.
Finalize ==
  /\ ~finalized /\ finalized' = TRUE
  /\ chunks_' = <<>> /\ raw_memory_chunks_' = <<>> /\ pieces' = {}
  /\ UNCHANGED <<allocs, programs>>

\* "Only one instance at a time"
NextProgram ==
  /\ finalized /\ DOMAIN allocs = {}
  /\ programs < MaxPrograms /\ programs' = programs + 1
  /\ finalized' = FALSE
  /\ UNCHANGED <<chunks_, raw_memory_chunks_, pieces, allocs>>

HostNext ==
  \/ \E size \in PieceSizes, a \in Alignments : AllocatePiece(size, a)
  \/ \E h \in HostHandles, size \in DeviceSizes : AllocateMemory(h, size)
  \/ \E h \in HostHandles : DeallocMemory(h)
  \/ Finalize \/ NextProgram

HostSpec == HostInit /\ [][HostNext]_hostVars

-----------------------------------------------------------------------------
\* A chunk's head stays within the chunk.
TypeOK ==
  /\ \A i \in DOMAIN chunks_ :
       /\ chunks_[i].is_exclusive \in BOOLEAN
       /\ chunks_[i].data \in 0 .. Space
       /\ chunks_[i].head \in chunks_[i].data .. chunks_[i].tail
       /\ chunks_[i].tail <= Space
  /\ DOMAIN raw_memory_chunks_ \subseteq 0 .. Space
  /\ \A p \in pieces : p.ptr + p.size <= Space
  /\ DOMAIN allocs \subseteq HostHandles
  /\ programs \in 1 .. MaxPrograms /\ finalized \in BOOLEAN

Mapped == UNION {HostSpan(p, raw_memory_chunks_[p]) : p \in DOMAIN raw_memory_chunks_}
Memory(a) == HostSpan(a.ptr, a.size)

\* While its Program lives, an allocation of CpuDevice is mapped and shares
\* nothing with another one or with a piece of the runtime.
DeviceMemoryKept ==
  ~finalized =>
    \A h \in DOMAIN allocs :
      /\ Memory(allocs[h]) \subseteq Mapped
      /\ \A g \in DOMAIN allocs \ {h} : Memory(allocs[g]) \cap Memory(allocs[h]) = {}
      /\ \A p \in pieces : Memory(p) \cap Memory(allocs[h]) = {}

\* Pieces are mapped, and two of them overlap only where one has opened its
\* chunk: all others are one behind the other.
PiecesKept ==
  \A p \in pieces :
    /\ Memory(p) \subseteq Mapped
    /\ \A q \in pieces : p # q /\ ~p.first /\ ~q.first => Memory(p) \cap Memory(q) = {}

\* The allocator's chunks are exactly what is mapped: no chunk is left without
\* memory, nothing is unmapped twice and nothing stays mapped without a chunk.
ChunksBacked ==
  /\ {<<chunks_[i].data, chunks_[i].tail - chunks_[i].data>> : i \in DOMAIN chunks_}
       = {<<p, raw_memory_chunks_[p]>> : p \in DOMAIN raw_memory_chunks_}
  /\ \A i, j \in DOMAIN chunks_ : i # j => chunks_[i].data # chunks_[j].data
=============================================================================
