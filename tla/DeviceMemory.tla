---------------------------- MODULE DeviceMemory ----------------------------
(***************************************************************************)
(* Device memory of the LLVM backends on a GPU: the buffer preallocated    *)
(* for the runtime (src/taichi/runtime/llvm/runtime_module/runtime.cpp,    *)
(* struct PreallocatedMemoryChunk), from which the runtime's own objects   *)
(* are cut, and the CachingAllocator (src/taichi/rhi/llvm/allocator.cpp)   *)
(* that keeps the released blocks of ndarrays and SNode trees and hands    *)
(* them out again.                                                         *)
(*                                                                         *)
(* A handle is a DeviceAllocation.  Each operation holds the mutex of      *)
(* DeviceMemoryPool or, for the runtime's objects, runs in a kernel that   *)
(* the host waits for, so that one operation is one step.                  *)
(*                                                                         *)
(* Abstracted: a page is PageSize units, the buffer begins at 0, and       *)
(* running out of memory (the program ends) is left out.                   *)
(***************************************************************************)
EXTENDS Integers, FiniteSets, Functions

CONSTANTS
  Handles,      \* names of allocations
  PageSize,     \* taichi_page_size
  BufferSize,   \* preallocated_size
  AllocSizes,   \* sizes of ndarrays, as they are, and of SNode trees
  ObjectSizes,  \* sizes of the runtime's page-aligned objects
  AmbientSizes, \* sizes of ambient elements, whose alignment is one unit
  Merging       \* merge_upon_release: TRUE on CUDA, FALSE on AMDGPU

ASSUME MemoryAssumption ==
  /\ PageSize \in Nat \ {0} /\ BufferSize \in Nat
  /\ AllocSizes \cup ObjectSizes \cup AmbientSizes \subseteq Nat \ {0}
  /\ Merging \subseteq BOOLEAN

Null == -1

VARIABLES
  preallocated_head,  \* runtime_memory_chunk's: what is beyond is free
  mem_blocks,         \* mem_blocks_: free blocks, pairs of size and pointer
  ptr_map,            \* ptr_map_: pointer to size
  allocations,        \* [ptr, size] of each handle, ptr = Null if it has none
  objects,            \* [ptr, size] of the runtime's objects, never freed
  merge_upon_release_

cache == <<mem_blocks, ptr_map>>
vars == <<preallocated_head, cache, allocations, objects, merge_upon_release_>>

NoAllocation == [ptr |-> Null, size |-> 0]

Init ==
  /\ preallocated_head = 0
  /\ mem_blocks = {} /\ ptr_map = [p \in {} |-> 0]
  /\ allocations = [h \in Handles |-> NoAllocation]
  /\ objects = {}
  /\ merge_upon_release_ \in Merging

iroundup(n) == ((n + PageSize - 1) \div PageSize) * PageSize

Put(m, p, size) == [q \in DOMAIN m \cup {p} |-> IF q = p THEN size ELSE m[q]]
\* std::map::insert, which keeps the entry that is there.
Insert(m, p, size) == IF p \in DOMAIN m THEN m ELSE Put(m, p, size)
\* MUTANT: nothing is erased.
EraseNothing(m, p) == m
Erase(m, p) == Restrict(m, DOMAIN m \ {p})

-----------------------------------------------------------------------------
\* MUTANT: the alignment is ignored.
CutUnaligned(head, align) == head

\* allocate_from_reserved_memory: the place of the next piece.
Cut(head, align) == ((head + align - 1) \div align) * align
NextPage == Cut(preallocated_head, PageSize)

\* Element lists, NodeManagers, ListManagers and their chunks, each aligned to
\* a page.
CreateObject(size) ==
  /\ NextPage + size <= BufferSize
  /\ objects' = objects \cup {[ptr |-> NextPage, size |-> size]}
  /\ preallocated_head' = NextPage + size
  /\ UNCHANGED <<cache, allocations, merge_upon_release_>>

\* A pointer or dynamic SNode gets its NodeManager, whose last ListManager is
\* such an object, and at once, not aligned to a page, its ambient element:
\* what its inactive cells read.
CreateAllocator(size, ambient_size) ==
  LET ambient == Cut(NextPage + size, 1)
  IN /\ ambient + ambient_size <= BufferSize
     /\ objects' = objects \cup {[ptr |-> NextPage, size |-> size],
                                [ptr |-> ambient, size |-> ambient_size]}
     /\ preallocated_head' = ambient + ambient_size
     /\ UNCHANGED <<cache, allocations, merge_upon_release_>>

-----------------------------------------------------------------------------
(* CachingAllocator::allocate, called with the size that was asked for; the *)
(* device notes the size rounded up.                                        *)

Before(b, c) == b[1] < c[1] \/ (b[1] = c[1] /\ b[2] <= c[2])
Fitting(size) == {b \in mem_blocks : b[1] >= iroundup(size)}

Hand(h, ptr, size) ==
  allocations' = [allocations EXCEPT ![h] = [ptr |-> ptr, size |-> iroundup(size)]]

\* MUTANT: a block is used up whole.
RestDropped(b, size) == {}

\* What is left of block b, if anything.
Rest(b, size) ==
  {r \in {<<b[1] - iroundup(size), b[2] + iroundup(size)>>} : r[1] > 0}

\* The smallest block that is large enough, the lowest of that size.  (The code
\* reads the erased set node once more for the key of ptr_map_; here the node
\* still holds it.)
ReuseBlock(h, size) ==
  \E b \in Fitting(size) :
    LET left == Erase(ptr_map, b[2]) IN
    /\ \A c \in Fitting(size) : Before(b, c)
    /\ Hand(h, b[2], size)
    /\ mem_blocks' = (mem_blocks \ {b}) \cup Rest(b, size)
    /\ ptr_map' = IF Rest(b, size) = {} THEN left
                  ELSE Insert(left, b[2] + iroundup(size), b[1] - iroundup(size))
    /\ UNCHANGED <<preallocated_head, objects, merge_upon_release_>>

\* allocate_llvm_runtime_memory_jit: the size that was asked for is cut.
CutNew(h, size) ==
  /\ Fitting(size) = {} /\ NextPage + size <= BufferSize
  /\ Hand(h, NextPage, size)
  /\ preallocated_head' = NextPage + size
  /\ UNCHANGED <<cache, objects, merge_upon_release_>>

Allocate(h, size) ==
  /\ allocations[h].ptr = Null
  /\ ReuseBlock(h, size) \/ CutNew(h, size)

-----------------------------------------------------------------------------
(* CachingAllocator::release, called with the rounded size.                 *)

\* MUTANT: the block on the right is taken in and stays listed.
MergeRightKept(s) ==
  LET right == s.ptr + s.size
      tmp == IF right \in DOMAIN s.map THEN s.map[right] ELSE 0
  IN IF tmp > 0
     THEN [s EXCEPT !.map = Erase(@, right), !.size = @ + tmp]
     ELSE [s EXCEPT !.map = Put(@, right, 0)]

\* "merge with right block": looking it up leaves an entry 0 when there is none.
MergeRight(s) ==
  LET right == s.ptr + s.size
      tmp == IF right \in DOMAIN s.map THEN s.map[right] ELSE 0
  IN IF tmp > 0
     THEN [s EXCEPT !.blocks = @ \ {<<tmp, right>>}, !.map = Erase(@, right), !.size = @ + tmp]
     ELSE [s EXCEPT !.map = Put(@, right, 0)]

\* "merge with left block": the entry just below, if it reaches up to ptr.
MergeLeft(s) ==
  LET below == {p \in DOMAIN s.map : p < s.ptr}
      adjoining == {p \in below : p + s.map[p] = s.ptr /\ \A q \in below : q <= p}
      left == CHOOSE p \in adjoining : TRUE
  IN IF adjoining = {} THEN s
     ELSE [s EXCEPT !.blocks = @ \ {<<s.map[left], left>>}, !.map = Erase(@, left),
                    !.ptr = left, !.size = @ + s.map[left]]

MergeAndInsert(a) ==
  LET s == MergeLeft(MergeRight([blocks |-> mem_blocks, map |-> ptr_map,
                                 ptr |-> a.ptr, size |-> a.size]))
  IN /\ mem_blocks' = s.blocks \cup {<<s.size, s.ptr>>}
     /\ ptr_map' = Put(s.map, s.ptr, s.size)

Release(h) ==
  /\ allocations[h].ptr # Null
  /\ IF merge_upon_release_
     THEN MergeAndInsert(allocations[h])
     ELSE /\ mem_blocks' = mem_blocks \cup {<<allocations[h].size, allocations[h].ptr>>}
          /\ UNCHANGED ptr_map
  /\ allocations' = [allocations EXCEPT ![h] = NoAllocation]
  /\ UNCHANGED <<preallocated_head, objects, merge_upon_release_>>

-----------------------------------------------------------------------------
Next ==
  \/ \E h \in Handles : (\E size \in AllocSizes : Allocate(h, size)) \/ Release(h)
  \/ \E size \in ObjectSizes :
       CreateObject(size) \/ \E a \in AmbientSizes : CreateAllocator(size, a)

Spec == Init /\ [][Next]_vars

-----------------------------------------------------------------------------
Span(ptr, size) == ptr .. ptr + size - 1
Live(h) == Span(allocations[h].ptr, allocations[h].size)
LiveHandles == {h \in Handles : allocations[h].ptr # Null}
Free(b) == Span(b[2], b[1])
Object(o) == Span(o.ptr, o.size)

\* No two live allocations share memory, and none lies in a free block, where
\* the next allocation would be put (and zero-filled).  All of it is memory
\* that was cut from the buffer.
AllocationsDisjoint ==
  /\ \A g, h \in LiveHandles : g # h => Live(g) \cap Live(h) = {}
  /\ \A h \in LiveHandles, b \in mem_blocks : Live(h) \cap Free(b) = {}
  /\ \A b, c \in mem_blocks : b # c => Free(b) \cap Free(c) = {}

\* The runtime's objects, which live as long as the runtime does, never share
\* memory with an allocation or a free block.  This is a matter of order: an
\* allocation is noted with its size rounded up to pages but cut with the exact
\* size, and an ambient element, which may begin in the middle of a page, must
\* not find the end of an odd ndarray in that page.  The next allocation of the
\* same block would overwrite what inactive cells read.
ObjectsKept ==
  \A o \in objects :
    /\ \A h \in LiveHandles : Object(o) \cap Live(h) = {}
    /\ \A b \in mem_blocks : Object(o) \cap Free(b) = {}

\* Every page that was cut for an allocation is live or can be had again: a
\* long run of splits and merges loses nothing.  An object keeps the rest of its
\* last page.
PagesOf(o) == iroundup(o.ptr + o.size) - o.ptr
Owned == UNION ({Live(h) : h \in LiveHandles} \cup {Free(b) : b \in mem_blocks}
                \cup {Span(o.ptr, PagesOf(o)) : o \in objects})
NothingLost == 0 .. preallocated_head - 1 \subseteq Owned

\* merge_and_insert trusts ptr_map_: what it lists with a size is a free block.
MapListsBlocks ==
  \A p \in DOMAIN ptr_map : ptr_map[p] > 0 => <<ptr_map[p], p>> \in mem_blocks
=============================================================================
