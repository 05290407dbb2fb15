------------------------ MODULE DeviceMemory_proofs -------------------------
(***************************************************************************)
(* Device memory for any page, buffer, sizes and number of allocations.    *)
(*                                                                         *)
(* A region is a pair of size and address, like a member of mem_blocks.    *)
(* IInv says that the regions of live allocations and free blocks lie      *)
(* apart (LivesApart, BlocksApart) and below the end of the last page that *)
(* was begun (Bounded): an allocation is noted with its size rounded up,   *)
(* while the head moves by what was asked for, so that a region may reach  *)
(* beyond the head, but not beyond its page.  The next piece begins on a   *)
(* new page.  Only an ambient element begins where the piece before it     *)
(* ends, and that piece is an object of the same step: hence what a step   *)
(* cuts lies beyond every region there is (ObjectsApart).                  *)
(***************************************************************************)
EXTENDS DeviceMemory, TLAPS

Region == (Nat \ {0}) \X Nat
End(r) == r[2] + r[1]
Apart(r, q) == End(r) <= q[2] \/ End(q) <= r[2]
Holds(r, x) == r[2] <= x /\ x < End(r)

Alive(h) == <<allocations[h].size, allocations[h].ptr>>
Fixed(o) == <<o.size, o.ptr>>

Typed ==
  /\ preallocated_head \in Nat
  /\ mem_blocks \subseteq Region
  /\ DOMAIN ptr_map \subseteq Nat /\ \A p \in DOMAIN ptr_map : ptr_map[p] \in Nat
  /\ allocations \in [Handles -> [ptr : Nat \cup {Null}, size : Nat]]
  /\ \A h \in LiveHandles : Alive(h) \in Region
  /\ \A o \in objects : Fixed(o) \in Region

LivesApart ==
  /\ \A g, h \in LiveHandles : g # h => Apart(Alive(g), Alive(h))
  /\ \A h \in LiveHandles, b \in mem_blocks : Apart(Alive(h), b)

BlocksApart == \A b, c \in mem_blocks : b # c => Apart(b, c)

Bound(r) == End(r) <= iroundup(preallocated_head)

Bounded ==
  /\ \A h \in LiveHandles : Bound(Alive(h))
  /\ \A b \in mem_blocks : Bound(b)
  /\ \A o \in objects : End(Fixed(o)) <= preallocated_head

ObjectsApart ==
  \A o \in objects :
    /\ \A h \in LiveHandles : Apart(Fixed(o), Alive(h))
    /\ \A b \in mem_blocks : Apart(Fixed(o), b)

\* An address that is live, free or a runtime object's, with the rest of its
\* last page.
Kept(x) ==
  \/ \E h \in LiveHandles : Holds(Alive(h), x)
  \/ \E b \in mem_blocks : Holds(b, x)
  \/ \E o \in objects : Holds(<<PagesOf(o), o.ptr>>, x)

Covered == \A x \in Nat : x < iroundup(preallocated_head) => Kept(x)

IInv ==
  /\ Typed /\ LivesApart /\ BlocksApart /\ Bounded /\ ObjectsApart /\ Covered
  /\ MapListsBlocks

-----------------------------------------------------------------------------
(* Rounding up to pages.                                                   *)

LEMMA Constants == PageSize \in Nat /\ PageSize > 0 /\ BufferSize \in Nat
  BY MemoryAssumption

LEMMA Product ==
  ASSUME NEW a \in Int, NEW b \in Int, NEW p \in Nat, p > 0
  PROVE  /\ a <= b => a * p <= b * p
         /\ a * p < b * p => a < b
<1>1. ASSUME NEW x \in Int, NEW y \in Int, x <= y
      PROVE  x * p <= y * p
  <2>1. y - x \in Nat /\ (y - x) * p \in Nat
    BY <1>1, SMT
  <2>2. y * p = x * p + (y - x) * p
    BY SMT
  <2> QED BY <2>1, <2>2, SMT
<1> QED BY <1>1, SMT

LEMMA Euclid ==
  ASSUME NEW n \in Nat, NEW p \in Nat, p > 0
  PROVE  /\ n \div p \in Nat
         /\ (n \div p) * p <= n /\ n < (n \div p) * p + p
<1>1. n \div p \in Nat
  BY SMT
<1>2. (n \div p) * p <= n
  BY SMT
<1>3. n < (n \div p) * p + p
  BY SMT
<1> QED BY <1>1, <1>2, <1>3

\* iroundup
LEMMA Rounding ==
  ASSUME NEW n \in Nat
  PROVE  iroundup(n) \in Nat /\ n <= iroundup(n)
<1> DEFINE q == (n + PageSize - 1) \div PageSize
<1>1. q \in Nat /\ n + PageSize - 1 < q * PageSize + PageSize
  BY Constants, Euclid
<1>2. q * PageSize \in Nat
  BY <1>1, Constants, SMT
<1> QED BY <1>1, <1>2, Constants, SMT DEF iroundup

LEMMA RoundingMonotone ==
  ASSUME NEW m \in Nat, NEW n \in Nat, m <= n
  PROVE  iroundup(m) <= iroundup(n)
<1> DEFINE q == (m + PageSize - 1) \div PageSize
           r == (n + PageSize - 1) \div PageSize
<1>1. /\ q \in Nat /\ q * PageSize <= m + PageSize - 1
      /\ r \in Nat /\ n + PageSize - 1 < r * PageSize + PageSize
  BY Constants, Euclid
<1> HIDE DEF q, r
<1>2. (r + 1) * PageSize = r * PageSize + PageSize
  BY <1>1, Constants, SMT
<1>3. q * PageSize < (r + 1) * PageSize
  BY <1>1, <1>2, Constants, SMT
<1>4. q < r + 1
  BY <1>1, <1>3, Constants, Product
<1>5. q * PageSize <= r * PageSize
  BY <1>1, <1>4, Constants, Product
<1> QED BY <1>5 DEF iroundup, q, r

LEMMA RoundingShift ==
  ASSUME NEW m \in Nat, NEW n \in Nat
  PROVE  iroundup(iroundup(m) + n) = iroundup(m) + iroundup(n)
<1> DEFINE k == (m + PageSize - 1) \div PageSize
           q == (n + PageSize - 1) \div PageSize
           r == (k * PageSize + n + PageSize - 1) \div PageSize
<1>1. k \in Nat /\ k * PageSize \in Nat
  BY Constants, Euclid, SMT
<1>2. /\ q \in Nat /\ q * PageSize <= n + PageSize - 1
      /\ n + PageSize - 1 < q * PageSize + PageSize
  BY Constants, Euclid
<1>3. /\ r \in Nat /\ r * PageSize <= k * PageSize + n + PageSize - 1
      /\ k * PageSize + n + PageSize - 1 < r * PageSize + PageSize
  <2> HIDE DEF k
  <2>1. k * PageSize + n + PageSize - 1 \in Nat
    BY <1>1, Constants, SMT
  <2> QED BY <2>1, Constants, Euclid
<1>4. iroundup(m) = k * PageSize /\ iroundup(n) = q * PageSize
  BY DEF iroundup
<1>5. iroundup(iroundup(m) + n) = r * PageSize
  BY <1>4 DEF iroundup
<1> HIDE DEF k, q, r
<1>6. /\ (r + 1) * PageSize = r * PageSize + PageSize
      /\ (k + q + 1) * PageSize = k * PageSize + q * PageSize + PageSize
      /\ (k + q) * PageSize = k * PageSize + q * PageSize
  BY <1>1, <1>2, <1>3, Constants, SMT
<1>7. r < k + q + 1
  <2>1. r * PageSize < (k + q + 1) * PageSize
    BY <1>1, <1>2, <1>3, <1>6, Constants, SMT
  <2> QED BY <1>1, <1>2, <1>3, <2>1, Constants, Product
<1>8. k + q < r + 1
  <2>1. (k + q) * PageSize < (r + 1) * PageSize
    BY <1>1, <1>2, <1>3, <1>6, Constants, SMT
  <2> QED BY <1>1, <1>2, <1>3, <2>1, Constants, Product
<1>9. r = k + q
  BY <1>1, <1>2, <1>3, <1>7, <1>8, SMT
<1> QED BY <1>4, <1>5, <1>6, <1>9

-----------------------------------------------------------------------------
(* merge_and_insert keeps regions apart and loses no address.              *)

Merged(s) == <<s.size, s.ptr>>

MergeState(s) ==
  /\ s = [blocks |-> s.blocks, map |-> s.map, ptr |-> s.ptr, size |-> s.size]
  /\ s.blocks \subseteq Region /\ s.ptr \in Nat /\ s.size \in Nat \ {0}
  /\ DOMAIN s.map \subseteq Nat /\ \A p \in DOMAIN s.map : s.map[p] \in Nat
  /\ \A b, c \in s.blocks : b # c => Apart(b, c)
  /\ \A b \in s.blocks : Apart(Merged(s), b)
  /\ \A p \in DOMAIN s.map : s.map[p] > 0 => <<s.map[p], p>> \in s.blocks

Outside(r, s) == Apart(r, Merged(s)) /\ \A b \in s.blocks : Apart(r, b)
Within(x, s) == Holds(Merged(s), x) \/ \E b \in s.blocks : Holds(b, x)
Ends(e, s) == End(Merged(s)) <= e /\ \A b \in s.blocks : End(b) <= e

Same(s, t) ==
  /\ \A r \in Region : Outside(r, s) => Outside(r, t)
  /\ \A x \in Nat : Within(x, s) => Within(x, t)
  /\ \A e \in Nat : Ends(e, s) => Ends(e, t)

LEMMA RegionParts ==
  ASSUME NEW r \in Region
  PROVE  r = <<r[1], r[2]>> /\ r[1] \in Nat /\ r[1] > 0 /\ r[2] \in Nat
  BY SMT DEF Region

\* A block that touches the region to merge is taken in.
LEMMA Absorb ==
  ASSUME NEW s, MergeState(s), NEW b \in s.blocks, NEW ptr \in Nat, NEW t,
         \/ End(Merged(s)) = b[2] /\ ptr = s.ptr
         \/ End(b) = s.ptr /\ ptr = b[2],
         t = [blocks |-> s.blocks \ {b}, map |-> Erase(s.map, b[2]),
              ptr |-> ptr, size |-> s.size + b[1]]
  PROVE  MergeState(t) /\ Same(s, t)
<1>1. /\ t.blocks = s.blocks \ {b} /\ t.map = Erase(s.map, b[2])
      /\ t.ptr = ptr /\ t.size = s.size + b[1]
  OBVIOUS
<1>2. b \in Region /\ b[1] \in Nat /\ b[1] > 0 /\ b[2] \in Nat
  BY RegionParts DEF MergeState
<1>3. s.ptr \in Nat /\ s.size \in Nat /\ s.size > 0
  BY DEF MergeState
<1>4. t.size \in Nat \ {0} /\ t.ptr \in Nat
  BY <1>1, <1>2, <1>3, SMT
<1>5. ASSUME NEW r \in Region, Apart(r, b), Apart(r, Merged(s))
      PROVE  Apart(r, Merged(t))
  <2>1. r[1] \in Nat /\ r[1] > 0 /\ r[2] \in Nat
    BY RegionParts
  <2> QED BY <1>1, <1>2, <1>3, <1>5, <2>1, SMT DEF Apart, End, Merged
<1>6. \A q \in t.blocks : q \in Region /\ Apart(q, b) /\ Apart(q, Merged(s))
  BY <1>1 DEF MergeState, Apart
<1>7. \A q \in t.blocks : Apart(Merged(t), q)
  BY <1>5, <1>6 DEF Apart
<1>8. /\ DOMAIN t.map = DOMAIN s.map \ {b[2]}
      /\ \A p \in DOMAIN t.map : t.map[p] = s.map[p]
  BY <1>1 DEF Erase, Restrict
<1>9. \A p \in DOMAIN t.map : t.map[p] > 0 => <<t.map[p], p>> \in t.blocks
  <2> TAKE p \in DOMAIN t.map
  <2> HAVE t.map[p] > 0
  <2>1. <<s.map[p], p>> \in s.blocks /\ p # b[2]
    BY <1>8 DEF MergeState
  <2>2. <<s.map[p], p>> # b
    BY <2>1
  <2> QED BY <1>1, <1>8, <2>1, <2>2
<1>10. MergeState(t)
  <2>1. t.blocks \subseteq Region /\ \A q, c \in t.blocks : q # c => Apart(q, c)
    BY <1>1 DEF MergeState
  <2>2. DOMAIN t.map \subseteq Nat /\ \A p \in DOMAIN t.map : t.map[p] \in Nat
    BY <1>8 DEF MergeState
  <2> QED BY <1>1, <1>4, <1>7, <1>9, <2>1, <2>2 DEF MergeState
<1>11. \A r \in Region : Outside(r, s) => Outside(r, t)
  BY <1>1, <1>5 DEF Outside
<1>12. \A x \in Nat : Within(x, s) => Within(x, t)
  <2> TAKE x \in Nat
  <2>1. Holds(b, x) => Holds(Merged(t), x)
    BY <1>1, <1>2, <1>3, SMT DEF Holds, End, Merged
  <2>2. Holds(Merged(s), x) => Holds(Merged(t), x)
    BY <1>1, <1>2, <1>3, SMT DEF Holds, End, Merged
  <2> QED BY <1>1, <2>1, <2>2 DEF Within
<1>13. \A e \in Nat : Ends(e, s) => Ends(e, t)
  <2> TAKE e \in Nat
  <2>1. End(b) <= e /\ End(Merged(s)) <= e => End(Merged(t)) <= e
    BY <1>1, <1>2, <1>3, SMT DEF End, Merged
  <2> QED BY <1>1, <2>1 DEF Ends
<1> QED BY <1>10, <1>11, <1>12, <1>13 DEF Same

LEMMA MergeRightKeeps ==
  ASSUME NEW s, MergeState(s)
  PROVE  MergeState(MergeRight(s)) /\ Same(s, MergeRight(s))
<1> DEFINE right == s.ptr + s.size
           tmp == IF right \in DOMAIN s.map THEN s.map[right] ELSE 0
           t == MergeRight(s)
<1>1. s = [blocks |-> s.blocks, map |-> s.map, ptr |-> s.ptr, size |-> s.size]
  BY DEF MergeState
<1>2. CASE tmp > 0
  <2>1. right \in DOMAIN s.map /\ tmp = s.map[right]
    BY <1>2, SMT
  <2>2. <<tmp, right>> \in s.blocks
    BY <1>2, <2>1 DEF MergeState
  <2>3. t = [blocks |-> s.blocks \ {<<tmp, right>>}, map |-> Erase(s.map, right),
             ptr |-> s.ptr, size |-> s.size + tmp]
    <3>1. t = [s EXCEPT !.blocks = @ \ {<<tmp, right>>}, !.map = Erase(@, right), !.size = @ + tmp]
      BY <1>2 DEF MergeRight
    <3> HIDE DEF t, tmp, right
    <3> QED BY <1>1, <3>1
  <2>4. End(Merged(s)) = right /\ s.ptr \in Nat
    BY DEF End, Merged, MergeState
  <2> HIDE DEF tmp, right, t
  <2>5. MergeState(t) /\ Same(s, t)
    BY <2>2, <2>3, <2>4, Absorb
  <2> QED BY <2>5 DEF t
<1>3. CASE ~(tmp > 0)
  <2>1. t = [blocks |-> s.blocks, map |-> Put(s.map, right, 0), ptr |-> s.ptr, size |-> s.size]
    <3>1. t = [s EXCEPT !.map = Put(@, right, 0)]
      BY <1>3 DEF MergeRight
    <3> HIDE DEF t, tmp, right
    <3> QED BY <1>1, <3>1
  <2>2. right \in Nat
    BY SMT DEF MergeState
  <2> HIDE DEF t, tmp, right
  <2>3. /\ t.blocks = s.blocks /\ t.ptr = s.ptr /\ t.size = s.size
        /\ DOMAIN t.map = DOMAIN s.map \cup {right} /\ t.map[right] = 0
        /\ \A p \in DOMAIN s.map \ {right} : t.map[p] = s.map[p]
    BY <2>1 DEF Put
  <2>4. \A p \in DOMAIN t.map : t.map[p] > 0 => p \in DOMAIN s.map \ {right}
    BY <2>3, SMT
  <2>5. MergeState(t)
    BY <2>1, <2>2, <2>3, <2>4 DEF MergeState, Merged
  <2>6. Same(s, t)
    BY <2>3 DEF Same, Outside, Within, Ends, Merged
  <2> QED BY <2>5, <2>6 DEF t
<1> QED BY <1>2, <1>3

LEMMA MergeLeftKeeps ==
  ASSUME NEW s, MergeState(s)
  PROVE  MergeState(MergeLeft(s)) /\ Same(s, MergeLeft(s))
<1> DEFINE below == {p \in DOMAIN s.map : p < s.ptr}
           adjoining == {p \in below : p + s.map[p] = s.ptr /\ \A q \in below : q <= p}
           left == CHOOSE p \in adjoining : TRUE
           t == MergeLeft(s)
<1>1. s = [blocks |-> s.blocks, map |-> s.map, ptr |-> s.ptr, size |-> s.size]
  BY DEF MergeState
<1>2. CASE adjoining = {}
  <2>1. t = s
    BY <1>2 DEF MergeLeft
  <2> QED BY <2>1 DEF Same
<1>3. CASE adjoining # {}
  <2>1. left \in adjoining
    BY <1>3
  <2>2. left \in DOMAIN s.map /\ left < s.ptr /\ left + s.map[left] = s.ptr
    BY <2>1
  <2>3. t = [s EXCEPT !.blocks = @ \ {<<s.map[left], left>>}, !.map = Erase(@, left),
                      !.ptr = left, !.size = @ + s.map[left]]
    BY <1>3 DEF MergeLeft
  <2> HIDE DEF t, left
  <2>4. left \in Nat /\ s.map[left] \in Nat /\ s.ptr \in Nat
    BY <2>2 DEF MergeState
  <2>5. <<s.map[left], left>> \in s.blocks
    <3>1. s.map[left] > 0
      BY <2>2, <2>4, SMT
    <3> QED BY <2>2, <3>1 DEF MergeState
  <2>6. t = [blocks |-> s.blocks \ {<<s.map[left], left>>}, map |-> Erase(s.map, left),
             ptr |-> left, size |-> s.size + s.map[left]]
    BY <1>1, <2>3
  <2>7. End(<<s.map[left], left>>) = s.ptr
    BY <2>2 DEF End
  <2>8. MergeState(t) /\ Same(s, t)
    BY <2>4, <2>5, <2>6, <2>7, Absorb
  <2> QED BY <2>8 DEF t
<1> QED BY <1>2, <1>3

-----------------------------------------------------------------------------
(* Every step keeps IInv.                                                  *)

\* A handle that is given a region, or is set free.
LEMMA HandleSet ==
  ASSUME IInv, NEW h \in Handles, NEW ptr \in Nat \cup {Null}, NEW size \in Nat,
         allocations' = [allocations EXCEPT ![h] = [ptr |-> ptr, size |-> size]]
  PROVE  /\ allocations' \in [Handles -> [ptr : Nat \cup {Null}, size : Nat]]
         /\ LiveHandles' = IF ptr = Null THEN LiveHandles \ {h} ELSE LiveHandles \cup {h}
         /\ Alive(h)' = <<size, ptr>>
         /\ \A g \in Handles \ {h} : Alive(g)' = Alive(g)
<1>1. allocations \in [Handles -> [ptr : Nat \cup {Null}, size : Nat]]
  BY DEF IInv, Typed
<1>2. allocations' \in [Handles -> [ptr : Nat \cup {Null}, size : Nat]]
  BY <1>1
<1>3. /\ allocations'[h] = [ptr |-> ptr, size |-> size]
      /\ \A g \in Handles \ {h} : allocations'[g] = allocations[g]
  BY <1>1
<1>4. LiveHandles' = IF ptr = Null THEN LiveHandles \ {h} ELSE LiveHandles \cup {h}
  BY <1>3 DEF LiveHandles
<1> QED BY <1>2, <1>3, <1>4 DEF Alive

\* What release has to make of the blocks, with or without merging.
LEMMA FreedKeeps ==
  ASSUME IInv, NEW h \in LiveHandles,
         allocations' = [allocations EXCEPT ![h] = NoAllocation],
         UNCHANGED <<preallocated_head, objects, merge_upon_release_>>,
         mem_blocks' \subseteq Region, BlocksApart',
         DOMAIN ptr_map' \subseteq Nat, \A p \in DOMAIN ptr_map' : ptr_map'[p] \in Nat,
         MapListsBlocks',
         \A r \in Region : Apart(r, Alive(h)) /\ (\A b \in mem_blocks : Apart(r, b))
                             => \A b \in mem_blocks' : Apart(r, b),
         \A x \in Nat : Holds(Alive(h), x) \/ (\E b \in mem_blocks : Holds(b, x))
                          => \E b \in mem_blocks' : Holds(b, x),
         \A e \in Nat : End(Alive(h)) <= e /\ (\A b \in mem_blocks : End(b) <= e)
                          => \A b \in mem_blocks' : End(b) <= e
  PROVE  IInv'
<1>1. h \in Handles
  BY DEF LiveHandles
<1>2. /\ allocations' \in [Handles -> [ptr : Nat \cup {Null}, size : Nat]]
      /\ LiveHandles' = LiveHandles \ {h}
      /\ \A g \in Handles \ {h} : Alive(g)' = Alive(g)
  <2>1. Null \in Nat \cup {Null} /\ 0 \in Nat
    BY SMT
  <2> QED BY <1>1, <2>1, HandleSet DEF NoAllocation
<1>3. \A g \in LiveHandles' : g \in LiveHandles /\ g # h /\ Alive(g)' = Alive(g)
  BY <1>2 DEF LiveHandles
<1>4. Typed'
  BY <1>2, <1>3 DEF IInv, Typed, Fixed
<1>5. LivesApart'
  <2>1. \A g \in LiveHandles' : Alive(g) \in Region /\ Apart(Alive(g), Alive(h))
    BY <1>3 DEF IInv, Typed, LivesApart
  <2>2. \A g \in LiveHandles', b \in mem_blocks' : Apart(Alive(g), b)
    BY <1>3, <2>1 DEF IInv, LivesApart
  <2>3. \A f, g \in LiveHandles' : f # g => Apart(Alive(f), Alive(g))
    BY <1>3 DEF IInv, LivesApart
  <2> QED BY <1>3, <2>2, <2>3 DEF LivesApart, Apart, End
<1>6. Bounded'
  <2>1. \A b \in mem_blocks' : Bound(b)
    <3>1. iroundup(preallocated_head) \in Nat /\ preallocated_head \in Nat
      BY Rounding DEF IInv, Typed
    <3> QED BY <3>1 DEF IInv, Bounded, Bound
  <2>2. \A g \in LiveHandles' : Bound(Alive(g))
    BY <1>3 DEF IInv, Bounded
  <2>3. \A r : Bound(r)' = Bound(r)
    BY DEF Bound, End
  <2> QED BY <1>3, <2>1, <2>2, <2>3 DEF IInv, Bounded, Bound, End, Fixed
<1>7. ObjectsApart'
  <2>1. ASSUME NEW o \in objects
        PROVE  /\ \A g \in LiveHandles' : Apart(Fixed(o), Alive(g))
               /\ \A b \in mem_blocks' : Apart(Fixed(o), b)
    <3>1. /\ Fixed(o) \in Region
          /\ \A g \in LiveHandles : Apart(Fixed(o), Alive(g))
          /\ \A b \in mem_blocks : Apart(Fixed(o), b)
      BY <2>1 DEF IInv, Typed, ObjectsApart
    <3> QED BY <1>3, <3>1
  <2> QED BY <1>3, <2>1 DEF ObjectsApart, Apart, End, Fixed
<1>8. Covered'
  <2>1. ASSUME NEW x \in Nat, Kept(x)
        PROVE  Kept(x)'
    <3>1. CASE \E g \in LiveHandles : Holds(Alive(g), x)
      <4>1. PICK g \in LiveHandles : Holds(Alive(g), x)
        BY <3>1
      <4>2. CASE g = h
        <5>1. \E b \in mem_blocks' : Holds(b, x)
          BY <4>1, <4>2
        <5> QED BY <5>1 DEF Kept, Holds, End
      <4>3. CASE g # h
        <5>1. g \in LiveHandles' /\ Alive(g)' = Alive(g)
          BY <1>2, <4>3 DEF LiveHandles
        <5> QED BY <4>1, <5>1 DEF Kept, Holds, End
      <4> QED BY <4>2, <4>3
    <3>2. CASE \E b \in mem_blocks : Holds(b, x)
      <4>1. \E b \in mem_blocks' : Holds(b, x)
        BY <3>2
      <4> QED BY <4>1 DEF Kept, Holds, End
    <3>3. CASE \E o \in objects : Holds(<<PagesOf(o), o.ptr>>, x)
      BY <3>3 DEF Kept, Holds, End
    <3> QED BY <2>1, <3>1, <3>2, <3>3 DEF Kept
  <2> QED BY <2>1 DEF IInv, Covered, iroundup
<1> QED BY <1>4, <1>5, <1>6, <1>7, <1>8 DEF IInv

LEMMA ReleaseKeeps ==
  ASSUME IInv, NEW h \in Handles, Release(h)
  PROVE  IInv'
<1> DEFINE a == allocations[h]
           s0 == [blocks |-> mem_blocks, map |-> ptr_map, ptr |-> a.ptr, size |-> a.size]
           s == MergeLeft(MergeRight(s0))
<1>1. /\ h \in LiveHandles /\ allocations' = [allocations EXCEPT ![h] = NoAllocation]
      /\ UNCHANGED <<preallocated_head, objects, merge_upon_release_>>
  BY DEF Release, LiveHandles
<1>2. /\ Alive(h) \in Region /\ Alive(h) = <<a.size, a.ptr>>
      /\ a.ptr \in Nat /\ a.size \in Nat \ {0}
  BY <1>1 DEF IInv, Typed, Alive, Region
<1>3. CASE merge_upon_release_
  <2>1. mem_blocks' = s.blocks \cup {Merged(s)} /\ ptr_map' = Put(s.map, s.ptr, s.size)
    BY <1>3 DEF Release, MergeAndInsert, Merged
  <2>2. /\ s0 = [blocks |-> s0.blocks, map |-> s0.map, ptr |-> s0.ptr, size |-> s0.size]
        /\ s0.blocks = mem_blocks /\ s0.map = ptr_map
        /\ s0.ptr = a.ptr /\ s0.size = a.size /\ Merged(s0) = Alive(h)
    BY <1>2 DEF Merged
  <2> HIDE DEF s0, a
  <2>3. MergeState(s0)
    BY <1>1, <1>2, <2>2 DEF MergeState, IInv, Typed, LivesApart, BlocksApart, MapListsBlocks
  <2>4. MergeState(s) /\ Same(s0, s)
    <3>1. MergeState(MergeRight(s0)) /\ Same(s0, MergeRight(s0))
      BY <2>3, MergeRightKeeps
    <3>2. MergeState(s) /\ Same(MergeRight(s0), s)
      BY <3>1, MergeLeftKeeps
    <3> QED BY <3>1, <3>2 DEF Same
  <2> HIDE DEF s
  <2>5. mem_blocks' \subseteq Region /\ Merged(s) \in Region
    BY <2>1, <2>4 DEF MergeState, Merged, Region
  <2>6. BlocksApart'
    <3>1. \A b, c \in mem_blocks' : b # c => Apart(b, c)
      BY <2>1, <2>4 DEF MergeState, Apart
    <3> QED BY <3>1 DEF BlocksApart, Apart, End
  <2>7. /\ DOMAIN ptr_map' = DOMAIN s.map \cup {s.ptr} /\ ptr_map'[s.ptr] = s.size
        /\ \A p \in DOMAIN s.map \ {s.ptr} : ptr_map'[p] = s.map[p]
    BY <2>1 DEF Put
  <2>8. DOMAIN ptr_map' \subseteq Nat /\ \A p \in DOMAIN ptr_map' : ptr_map'[p] \in Nat
    BY <2>4, <2>7 DEF MergeState
  <2>9. MapListsBlocks'
    BY <2>1, <2>4, <2>7 DEF MapListsBlocks, MergeState, Merged
  <2>10. \A r \in Region : Apart(r, Alive(h)) /\ (\A b \in mem_blocks : Apart(r, b))
                              => \A b \in mem_blocks' : Apart(r, b)
    BY <2>1, <2>2, <2>4 DEF Same, Outside
  <2>11. \A x \in Nat : Holds(Alive(h), x) \/ (\E b \in mem_blocks : Holds(b, x))
                           => \E b \in mem_blocks' : Holds(b, x)
    BY <2>1, <2>2, <2>4 DEF Same, Within
  <2>12. \A e \in Nat : End(Alive(h)) <= e /\ (\A b \in mem_blocks : End(b) <= e)
                           => \A b \in mem_blocks' : End(b) <= e
    BY <2>1, <2>2, <2>4 DEF Same, Ends
  <2> QED BY <1>1, <2>5, <2>6, <2>8, <2>9, <2>10, <2>11, <2>12, FreedKeeps
<1>4. CASE ~merge_upon_release_
  <2>1. mem_blocks' = mem_blocks \cup {Alive(h)} /\ UNCHANGED ptr_map
    BY <1>2, <1>4 DEF Release
  <2>2. mem_blocks' \subseteq Region
    BY <1>2, <2>1 DEF IInv, Typed
  <2>3. BlocksApart'
    <3>1. \A b, c \in mem_blocks' : b # c => Apart(b, c)
      BY <1>1, <2>1 DEF IInv, BlocksApart, LivesApart, Apart
    <3> QED BY <3>1 DEF BlocksApart, Apart, End
  <2>4. MapListsBlocks'
    BY <2>1 DEF IInv, MapListsBlocks
  <2>5. DOMAIN ptr_map' \subseteq Nat /\ \A p \in DOMAIN ptr_map' : ptr_map'[p] \in Nat
    BY <2>1 DEF IInv, Typed
  <2>6. \A r \in Region : Apart(r, Alive(h)) /\ (\A b \in mem_blocks : Apart(r, b))
                             => \A b \in mem_blocks' : Apart(r, b)
    BY <2>1
  <2>7. \A x \in Nat : Holds(Alive(h), x) \/ (\E b \in mem_blocks : Holds(b, x))
                          => \E b \in mem_blocks' : Holds(b, x)
    BY <2>1
  <2>8. \A e \in Nat : End(Alive(h)) <= e /\ (\A b \in mem_blocks : End(b) <= e)
                          => \A b \in mem_blocks' : End(b) <= e
    BY <2>1
  <2> QED BY <1>1, <2>2, <2>3, <2>4, <2>5, <2>6, <2>7, <2>8, FreedKeeps
<1> QED BY <1>3, <1>4

LEMMA ReuseBlockKeeps ==
  ASSUME IInv, NEW h \in Handles, NEW size \in AllocSizes,
         allocations[h].ptr = Null, ReuseBlock(h, size)
  PROVE  IInv'
<1> DEFINE n == iroundup(size)
<1>1. PICK b \in Fitting(size) :
        /\ Hand(h, b[2], size)
        /\ mem_blocks' = (mem_blocks \ {b}) \cup Rest(b, size)
        /\ ptr_map' = IF Rest(b, size) = {} THEN Erase(ptr_map, b[2])
                      ELSE Insert(Erase(ptr_map, b[2]), b[2] + n, b[1] - n)
        /\ UNCHANGED <<preallocated_head, objects, merge_upon_release_>>
  BY DEF ReuseBlock
<1>2. size \in Nat /\ size > 0
  BY MemoryAssumption DEF IInv, Typed
<1>3. n \in Nat /\ n > 0
  BY <1>2, Rounding
<1>4. b \in mem_blocks /\ b \in Region /\ b[1] \in Nat /\ b[2] \in Nat /\ n <= b[1]
  BY <1>3, RegionParts DEF Fitting, IInv, Typed
<1> DEFINE new == <<n, b[2]>>
           rest == <<b[1] - n, b[2] + n>>
<1>5. new \in Region /\ new[1] = n /\ new[2] = b[2] /\ rest[1] = b[1] - n /\ rest[2] = b[2] + n
  BY <1>3, <1>4, SMT DEF Region
<1>6. \A r \in Rest(b, size) : r = rest /\ r \in Region
  BY <1>3, <1>4, SMT DEF Rest, Region
<1>7. /\ allocations' \in [Handles -> [ptr : Nat \cup {Null}, size : Nat]]
      /\ LiveHandles' = LiveHandles \cup {h} /\ Alive(h)' = new
      /\ \A g \in Handles \ {h} : Alive(g)' = Alive(g)
  <2>1. b[2] # Null /\ b[2] \in Nat \cup {Null}
    BY <1>4, SMT DEF Null
  <2>2. allocations' = [allocations EXCEPT ![h] = [ptr |-> b[2], size |-> n]]
    BY <1>1 DEF Hand
  <2> HIDE DEF n
  <2> QED BY <1>3, <2>1, <2>2, HandleSet
<1>8. h \notin LiveHandles /\ \A g \in LiveHandles : g \in Handles \ {h} /\ Alive(g)' = Alive(g)
  BY <1>7 DEF LiveHandles
<1>9. \A g \in LiveHandles' : g = h \/ g \in LiveHandles
  BY <1>7
<1>10. ASSUME NEW r \in Region, Apart(r, b)
       PROVE  Apart(r, new) /\ Apart(new, r) /\ Apart(r, rest) /\ Apart(rest, r)
  <2>1. r[1] \in Nat /\ r[1] > 0 /\ r[2] \in Nat
    BY RegionParts
  <2> QED BY <1>3, <1>4, <1>5, <1>10, <2>1, SMT DEF Apart, End
<1>11. Apart(new, rest) /\ Apart(rest, new)
  BY <1>3, <1>4, <1>5, SMT DEF Apart, End
<1>12. End(new) <= End(b) /\ End(rest) <= End(b) /\ End(b) \in Nat
       /\ End(new) \in Nat /\ End(rest) \in Nat
  BY <1>3, <1>4, <1>5, SMT DEF End
<1>13. ASSUME NEW x \in Nat, Holds(b, x)
       PROVE  Holds(new, x) \/ \E r \in Rest(b, size) : Holds(r, x)
  <2>1. CASE b[1] - n > 0
    <3>1. rest \in Rest(b, size)
      BY <2>1 DEF Rest
    <3>2. Holds(new, x) \/ Holds(rest, x)
      BY <1>3, <1>4, <1>5, <1>13, SMT DEF Holds, End
    <3> QED BY <3>1, <3>2
  <2>2. CASE b[1] - n <= 0
    BY <1>3, <1>4, <1>5, <1>13, <2>2, SMT DEF Holds, End
  <2> QED BY <1>3, <1>4, <2>1, <2>2, SMT
<1> HIDE DEF new, rest
<1>14. Typed'
  <2>1. mem_blocks' \subseteq Region
    BY <1>1, <1>6 DEF IInv, Typed
  <2>2. DOMAIN ptr_map' \subseteq Nat /\ \A p \in DOMAIN ptr_map' : ptr_map'[p] \in Nat
    <3>1. b[2] + n \in Nat /\ b[1] - n \in Nat
      BY <1>3, <1>4, SMT
    <3> HIDE DEF n
    <3> QED BY <1>1, <3>1 DEF IInv, Typed, Insert, Put, Erase, Restrict
  <2>3. \A g \in LiveHandles' : (Alive(g) \in Region)'
    BY <1>5, <1>7, <1>8, <1>9 DEF IInv, Typed, Region
  <2>4. \A o \in objects' : (Fixed(o) \in Region)'
    BY <1>1 DEF IInv, Typed, Fixed, Region
  <2> QED BY <1>1, <1>7, <2>1, <2>2, <2>3, <2>4 DEF IInv, Typed
<1>15. LivesApart'
  <2>1. \A g \in LiveHandles : Alive(g) \in Region /\ Apart(Alive(g), b)
    BY <1>4 DEF IInv, Typed, LivesApart
  <2>2. \A f, g \in LiveHandles' : f # g => Apart(Alive(f)', Alive(g)')
    BY <1>7, <1>8, <1>9, <1>10, <2>1 DEF IInv, LivesApart
  <2>3. \A g \in LiveHandles', c \in mem_blocks' : Apart(Alive(g)', c)
    <3> TAKE g \in LiveHandles', c \in mem_blocks'
    <3>1. CASE c \in Rest(b, size)
      BY <1>6, <1>7, <1>8, <1>9, <1>10, <1>11, <2>1, <3>1
    <3>2. CASE c \in mem_blocks \ {b}
      <4>1. c \in Region /\ Apart(c, b)
        BY <1>4, <3>2 DEF IInv, Typed, BlocksApart
      <4> QED BY <1>7, <1>8, <1>9, <1>10, <3>2, <4>1 DEF IInv, LivesApart
    <3> QED BY <1>1, <3>1, <3>2
  <2> QED BY <2>2, <2>3 DEF LivesApart, Apart, End
<1>16. BlocksApart'
  <2>1. \A c \in mem_blocks \ {b} : c \in Region /\ Apart(c, b)
    BY <1>4 DEF IInv, Typed, BlocksApart
  <2>2. \A c, d \in mem_blocks' : c # d => Apart(c, d)
    BY <1>1, <1>6, <1>10, <2>1 DEF IInv, BlocksApart
  <2> QED BY <2>2 DEF BlocksApart, Apart, End
<1>17. Bounded'
  <2>1. iroundup(preallocated_head) \in Nat /\ preallocated_head \in Nat /\ Bound(b)
    BY <1>4, Rounding DEF IInv, Typed, Bounded
  <2>2. Bound(new) /\ Bound(rest)
    BY <1>12, <2>1 DEF Bound
  <2>3. \A r : Bound(r)' = Bound(r)
    BY <1>1 DEF Bound, End
  <2>4. \A g \in LiveHandles' : Bound(Alive(g)')
    BY <1>7, <1>8, <1>9, <2>2 DEF IInv, Bounded
  <2>5. \A c \in mem_blocks' : Bound(c)
    BY <1>1, <1>6, <2>2 DEF IInv, Bounded
  <2>6. \A o \in objects' : (End(Fixed(o)) <= preallocated_head)'
    BY <1>1 DEF IInv, Bounded, End, Fixed
  <2> QED BY <1>1, <2>4, <2>5, <2>6 DEF Bounded, Bound, End
<1>18. ObjectsApart'
  <2>1. ASSUME NEW o \in objects
        PROVE  /\ \A g \in LiveHandles' : Apart(Fixed(o), Alive(g)')
               /\ \A c \in mem_blocks' : Apart(Fixed(o), c)
    <3>1. /\ Fixed(o) \in Region /\ Apart(Fixed(o), b)
          /\ \A g \in LiveHandles : Apart(Fixed(o), Alive(g))
          /\ \A c \in mem_blocks : Apart(Fixed(o), c)
      BY <1>4, <2>1 DEF IInv, Typed, ObjectsApart
    <3>2. Apart(Fixed(o), new) /\ Apart(Fixed(o), rest)
      BY <1>10, <3>1
    <3> QED BY <1>1, <1>6, <1>7, <1>8, <1>9, <3>1, <3>2
  <2> QED BY <1>1, <2>1 DEF ObjectsApart, Apart, End, Fixed
<1>19. Covered'
  <2>1. ASSUME NEW x \in Nat, Kept(x)
        PROVE  Kept(x)'
    <3>1. ASSUME NEW g \in LiveHandles, Holds(Alive(g), x)
          PROVE  Kept(x)'
      <4>1. g \in LiveHandles' /\ Holds(Alive(g)', x)
        BY <1>7, <1>8, <3>1
      <4> QED BY <4>1 DEF Kept, Holds, End
    <3>2. ASSUME NEW c \in mem_blocks, Holds(c, x)
          PROVE  Kept(x)'
      <4>1. CASE c # b
        <5>1. c \in mem_blocks'
          BY <1>1, <4>1
        <5> QED BY <3>2, <5>1 DEF Kept, Holds, End
      <4>2. CASE c = b
        <5>1. CASE Holds(new, x)
          <6>1. h \in LiveHandles' /\ Holds(Alive(h)', x)
            BY <1>7, <5>1
          <6> QED BY <6>1 DEF Kept, Holds, End
        <5>2. CASE \E r \in Rest(b, size) : Holds(r, x)
          <6>1. \E r \in mem_blocks' : Holds(r, x)
            BY <1>1, <5>2
          <6> QED BY <6>1 DEF Kept, Holds, End
        <5> QED BY <1>13, <3>2, <4>2, <5>1, <5>2
      <4> QED BY <4>1, <4>2
    <3>3. CASE \E o \in objects : Holds(<<PagesOf(o), o.ptr>>, x)
      BY <1>1, <3>3 DEF Kept, Holds, End
    <3> QED BY <2>1, <3>1, <3>2, <3>3 DEF Kept
  <2> QED BY <1>1, <2>1 DEF IInv, Covered, iroundup
<1>20. MapListsBlocks'
  <2> DEFINE left == Erase(ptr_map, b[2])
  <2>1. /\ DOMAIN left = DOMAIN ptr_map \ {b[2]}
        /\ \A p \in DOMAIN left : left[p] = ptr_map[p]
    BY DEF Erase, Restrict
  <2> HIDE DEF left
  <2>2. \A p \in DOMAIN left : left[p] > 0 => <<left[p], p>> \in mem_blocks'
    <3> TAKE p \in DOMAIN left
    <3> HAVE left[p] > 0
    <3>1. <<left[p], p>> \in mem_blocks /\ p # b[2]
      BY <2>1 DEF IInv, MapListsBlocks
    <3>2. <<left[p], p>> # b
      BY <3>1
    <3> QED BY <1>1, <3>1, <3>2
  <2>3. CASE Rest(b, size) = {}
    <3>1. ptr_map' = left
      BY <1>1, <2>3 DEF left
    <3> QED BY <2>2, <3>1 DEF MapListsBlocks
  <2>4. CASE Rest(b, size) # {}
    <3>1. rest \in mem_blocks'
      BY <1>1, <1>6, <2>4
    <3>2. rest = <<b[1] - n, b[2] + n>>
      BY DEF rest
    <3>3. ptr_map' = Insert(left, b[2] + n, b[1] - n)
      BY <1>1, <2>4 DEF left
    <3> HIDE DEF n
    <3>4. \A p \in DOMAIN ptr_map' :
            \/ p \in DOMAIN left /\ ptr_map'[p] = left[p]
            \/ p = b[2] + n /\ ptr_map'[p] = b[1] - n
      BY <3>3 DEF Insert, Put
    <3>5. \A p \in DOMAIN ptr_map' : ptr_map'[p] > 0 => <<ptr_map'[p], p>> \in mem_blocks'
      <4> TAKE p \in DOMAIN ptr_map'
      <4> HAVE ptr_map'[p] > 0
      <4>1. CASE p \in DOMAIN left /\ ptr_map'[p] = left[p]
        BY <2>2, <4>1
      <4>2. CASE p = b[2] + n /\ ptr_map'[p] = b[1] - n
        BY <3>1, <3>2, <4>2
      <4> QED BY <3>4, <4>1, <4>2
    <3> QED BY <3>5 DEF MapListsBlocks
  <2> QED BY <2>3, <2>4
<1> QED BY <1>14, <1>15, <1>16, <1>17, <1>18, <1>19, <1>20 DEF IInv

\* The head moves up to c + size; so does the bound of every region.
LEMMA HeadMoves ==
  ASSUME IInv, NEW top \in Nat, preallocated_head <= top,
         preallocated_head' = top
  PROVE  /\ iroundup(preallocated_head) <= iroundup(preallocated_head')
         /\ \A r \in Region : Bound(r) => Bound(r)'
<1>1. preallocated_head \in Nat /\ iroundup(preallocated_head) \in Nat /\ iroundup(top) \in Nat
  BY Rounding DEF IInv, Typed
<1>2. iroundup(preallocated_head) <= iroundup(preallocated_head')
  BY <1>1, RoundingMonotone
<1>3. ASSUME NEW r \in Region, Bound(r)
      PROVE  End(r) <= iroundup(preallocated_head')
  <2>1. End(r) \in Nat
    BY RegionParts, SMT DEF End
  <2> QED BY <1>1, <1>2, <1>3, <2>1, SMT DEF Bound
<1> QED BY <1>2, <1>3 DEF Bound, End, iroundup

\* The place of the next piece.
LEMMA NextPagePlace ==
  ASSUME IInv
  PROVE  /\ NextPage = iroundup(preallocated_head) /\ preallocated_head \in Nat
         /\ NextPage \in Nat /\ preallocated_head <= NextPage
BY Rounding DEF NextPage, Cut, iroundup, IInv, Typed

LEMMA CutNewKeeps ==
  ASSUME IInv, NEW h \in Handles, NEW size \in AllocSizes,
         allocations[h].ptr = Null, CutNew(h, size)
  PROVE  IInv'
<1> DEFINE n == iroundup(size)
           c == NextPage
           new == <<n, c>>
<1>1. size \in Nat /\ size > 0
  BY MemoryAssumption DEF IInv, Typed
<1>2. n \in Nat /\ size <= n
  BY <1>1, Rounding
<1>3. /\ c = iroundup(preallocated_head) /\ preallocated_head \in Nat
      /\ c \in Nat /\ preallocated_head <= c
  BY NextPagePlace
<1>4. /\ Hand(h, c, size) /\ preallocated_head' = c + size
      /\ UNCHANGED <<cache, objects, merge_upon_release_>>
  BY DEF CutNew
<1>5. iroundup(preallocated_head') = c + n
  BY <1>1, <1>3, <1>4, RoundingShift
<1>6. /\ new \in Region /\ new[1] = n /\ new[2] = c /\ End(new) = c + n /\ n > 0
  BY <1>1, <1>2, <1>3, SMT DEF Region, End
<1>7. /\ allocations' \in [Handles -> [ptr : Nat \cup {Null}, size : Nat]]
      /\ LiveHandles' = LiveHandles \cup {h} /\ Alive(h)' = new
      /\ \A g \in Handles \ {h} : Alive(g)' = Alive(g)
  <2>1. c # Null /\ c \in Nat \cup {Null}
    BY <1>3, SMT DEF Null
  <2>2. allocations' = [allocations EXCEPT ![h] = [ptr |-> c, size |-> n]]
    BY <1>4 DEF Hand
  <2> HIDE DEF n, c
  <2> QED BY <1>2, <2>1, <2>2, HandleSet
<1>8. h \notin LiveHandles /\ \A g \in LiveHandles : g \in Handles \ {h} /\ Alive(g)' = Alive(g)
  BY <1>7 DEF LiveHandles
<1>9. \A g \in LiveHandles' : g = h \/ g \in LiveHandles
  BY <1>7
<1> HIDE DEF n, c, new
<1>10. ASSUME NEW r \in Region, End(r) <= c
       PROVE  Apart(r, new) /\ Apart(new, r)
  BY <1>6, <1>10 DEF Apart
<1>11. mem_blocks' = mem_blocks /\ ptr_map' = ptr_map /\ objects' = objects
  BY <1>4 DEF cache
<1>12. Typed'
  <2>1. preallocated_head' \in Nat
    BY <1>1, <1>3, <1>4, SMT
  <2>2. \A g \in LiveHandles' : (Alive(g) \in Region)'
    BY <1>6, <1>7, <1>8, <1>9 DEF IInv, Typed, Region
  <2>3. \A o \in objects' : (Fixed(o) \in Region)'
    BY <1>11 DEF IInv, Typed, Fixed, Region
  <2> QED BY <1>7, <1>11, <2>1, <2>2, <2>3 DEF IInv, Typed
<1>13. LivesApart'
  <2>1. \A g \in LiveHandles : Apart(Alive(g), new) /\ Apart(new, Alive(g))
    BY <1>3, <1>10 DEF IInv, Typed, Bounded, Bound
  <2>2. \A b \in mem_blocks : Apart(new, b)
    BY <1>3, <1>10 DEF IInv, Typed, Bounded, Bound
  <2>3. \A f, g \in LiveHandles' : f # g => Apart(Alive(f)', Alive(g)')
    BY <1>7, <1>8, <1>9, <2>1 DEF IInv, LivesApart
  <2>4. \A g \in LiveHandles', b \in mem_blocks' : Apart(Alive(g)', b)
    BY <1>7, <1>8, <1>9, <1>11, <2>2 DEF IInv, LivesApart
  <2> QED BY <2>3, <2>4 DEF LivesApart, Apart, End
<1>14. BlocksApart' /\ MapListsBlocks'
  BY <1>11 DEF IInv, BlocksApart, MapListsBlocks, Apart, End
<1>15. Bounded'
  <2>1. \A r \in Region : Bound(r) => Bound(r)'
    <3>1. preallocated_head' \in Nat /\ preallocated_head <= preallocated_head'
      BY <1>1, <1>3, <1>4, SMT
    <3> QED BY <1>11, <3>1, HeadMoves
  <2>2. End(new) <= iroundup(preallocated_head')
    BY <1>2, <1>3, <1>5, <1>6, SMT
  <2>4. \A g \in LiveHandles' : (Bound(Alive(g)))'
    <3> TAKE g \in LiveHandles'
    <3>1. CASE g = h
      BY <1>7, <2>2, <3>1 DEF Bound, End, iroundup
    <3>2. CASE g \in LiveHandles
      <4>1. Bound(Alive(g)) /\ Alive(g) \in Region /\ Alive(g)' = Alive(g)
        BY <1>7, <1>8, <3>2 DEF IInv, Bounded, Typed
      <4> QED BY <2>1, <4>1 DEF Bound, End
    <3> QED BY <1>9, <3>1, <3>2
  <2>5. \A b \in mem_blocks' : Bound(b)'
    BY <1>11, <2>1 DEF IInv, Typed, Bounded
  <2>6. \A o \in objects : End(Fixed(o)) <= preallocated_head'
    <3> TAKE o \in objects
    <3>1. Fixed(o) \in Region /\ End(Fixed(o)) <= preallocated_head
      BY DEF IInv, Typed, Bounded
    <3>2. End(Fixed(o)) \in Nat
      BY <3>1, RegionParts, SMT DEF End
    <3> QED BY <1>1, <1>3, <1>4, <3>1, <3>2, SMT
  <2> QED BY <1>11, <2>4, <2>5, <2>6 DEF Bounded, Bound, End, Fixed
<1>16. ObjectsApart'
  <2>1. ASSUME NEW o \in objects
        PROVE  /\ \A g \in LiveHandles' : Apart(Fixed(o), Alive(g)')
               /\ \A b \in mem_blocks' : Apart(Fixed(o), b)
    <3>1. /\ Fixed(o) \in Region
          /\ \A g \in LiveHandles : Apart(Fixed(o), Alive(g))
          /\ \A b \in mem_blocks : Apart(Fixed(o), b)
      BY <2>1 DEF IInv, Typed, ObjectsApart
    <3>2. End(Fixed(o)) <= c
      <4>1. End(Fixed(o)) \in Nat
        BY <3>1, RegionParts, SMT DEF End
      <4> QED BY <1>3, <4>1, SMT DEF IInv, Bounded
    <3>3. Apart(Fixed(o), new)
      BY <1>10, <3>1, <3>2
    <3> QED BY <1>7, <1>8, <1>9, <1>11, <3>1, <3>3
  <2> QED BY <1>11, <2>1 DEF ObjectsApart, Apart, End, Fixed
<1>17. Covered'
  <2>1. ASSUME NEW x \in Nat, x < iroundup(preallocated_head')
        PROVE  Kept(x)'
    <3>1. CASE x < c
      <4>1. Kept(x)
        BY <1>3, <2>1, <3>1 DEF IInv, Covered
      <4> QED BY <1>7, <1>8, <1>11, <4>1 DEF Kept, Holds, End, iroundup
    <3>2. CASE c <= x
      <4>1. Holds(new, x)
        BY <1>5, <1>6, <2>1, <3>2 DEF Holds
      <4>2. h \in LiveHandles' /\ Holds(Alive(h)', x)
        BY <1>7, <4>1
      <4> QED BY <4>2 DEF Kept, Holds, End
    <3> QED BY <1>3, <3>1, <3>2, SMT
  <2> QED BY <1>11, <2>1 DEF Covered
<1> QED BY <1>12, <1>13, <1>14, <1>15, <1>16, <1>17 DEF IInv

\* Objects beyond the page of the head, that fill it up to the new one.
LEMMA ObjectsKeep ==
  ASSUME IInv, NEW N, NEW top \in Nat, NextPage <= top,
         \A o \in N : Fixed(o) \in Region /\ NextPage <= o.ptr /\ End(Fixed(o)) <= top,
         \A x \in Nat : NextPage <= x /\ x < iroundup(top) =>
                          \E o \in N : Holds(<<PagesOf(o), o.ptr>>, x),
         objects' = objects \cup N, preallocated_head' = top,
         UNCHANGED <<cache, allocations, merge_upon_release_>>
  PROVE  IInv'
<1> DEFINE c == NextPage
<1>1. /\ c = iroundup(preallocated_head) /\ preallocated_head \in Nat
      /\ c \in Nat /\ preallocated_head <= c /\ preallocated_head <= top
  BY NextPagePlace, SMT
<1>2. \A o \in N : Fixed(o) \in Region /\ c <= Fixed(o)[2] /\ End(Fixed(o)) <= top
  BY DEF Fixed
<1>3. \A x \in Nat : c <= x /\ x < iroundup(top) =>
                       \E o \in N : Holds(<<PagesOf(o), o.ptr>>, x)
  OBVIOUS
<1> HIDE DEF c
<1>4. /\ mem_blocks' = mem_blocks /\ ptr_map' = ptr_map /\ allocations' = allocations
      /\ LiveHandles' = LiveHandles
      /\ \A h \in LiveHandles : Alive(h)' = Alive(h)
  BY DEF cache, LiveHandles, Alive
<1>5. Typed'
  <2>1. \A o \in objects' : Fixed(o) \in Region
    BY <1>2 DEF IInv, Typed
  <2>2. \A h \in LiveHandles' : Alive(h)' \in Region
    BY <1>4 DEF IInv, Typed
  <2> QED BY <1>4, <2>1, <2>2 DEF IInv, Typed, Region, Fixed
<1>6. LivesApart' /\ BlocksApart' /\ MapListsBlocks'
  BY <1>4 DEF IInv, LivesApart, BlocksApart, MapListsBlocks, Apart, End
<1>7. Bounded'
  <2>1. \A r \in Region : Bound(r) => Bound(r)'
    BY <1>1, HeadMoves
  <2>2. \A h \in LiveHandles : Bound(Alive(h))'
    <3> TAKE h \in LiveHandles
    <3>1. Alive(h) \in Region /\ Bound(Alive(h)) /\ Alive(h)' = Alive(h)
      BY <1>4 DEF IInv, Typed, Bounded
    <3> QED BY <2>1, <3>1 DEF Bound, End
  <2>3. \A b \in mem_blocks : Bound(b)'
    BY <2>1 DEF IInv, Typed, Bounded
  <2>4. \A o \in objects' : End(Fixed(o)) <= preallocated_head'
    <3> TAKE o \in objects'
    <3>1. CASE o \in N
      BY <1>2, <3>1
    <3>2. CASE o \in objects
      <4>1. End(Fixed(o)) <= preallocated_head /\ Fixed(o) \in Region
        BY <3>2 DEF IInv, Typed, Bounded
      <4>2. End(Fixed(o)) \in Nat
        BY <4>1, RegionParts, SMT DEF End
      <4> QED BY <1>1, <4>1, <4>2, SMT
    <3> QED BY <3>1, <3>2
  <2> QED BY <1>4, <2>2, <2>3, <2>4 DEF Bounded, Bound, End, Fixed
<1>8. ObjectsApart'
  <2>1. ASSUME NEW o \in objects'
        PROVE  /\ \A h \in LiveHandles : Apart(Fixed(o), Alive(h))
               /\ \A b \in mem_blocks : Apart(Fixed(o), b)
    <3>1. CASE o \in N
      <4>1. ASSUME NEW r \in Region, Bound(r)
            PROVE  Apart(Fixed(o), r)
        <5>1. End(r) \in Nat /\ Fixed(o)[2] \in Nat
          BY <1>2, <3>1, RegionParts, SMT DEF End
        <5> QED BY <1>1, <1>2, <3>1, <4>1, <5>1, SMT DEF Bound, Apart
      <4> QED BY <4>1 DEF IInv, Typed, Bounded
    <3>2. CASE o \in objects
      BY <3>2 DEF IInv, ObjectsApart
    <3> QED BY <3>1, <3>2
  <2> QED BY <1>4, <2>1 DEF ObjectsApart, Apart, End, Fixed
<1>9. Covered'
  <2>1. ASSUME NEW x \in Nat, x < iroundup(preallocated_head')
        PROVE  Kept(x)'
    <3>1. CASE x < c
      <4>1. Kept(x)
        BY <1>1, <3>1 DEF IInv, Covered
      <4> QED BY <1>4, <4>1 DEF Kept, Holds, End, PagesOf, iroundup
    <3>2. CASE c <= x
      <4>1. PICK o \in N : Holds(<<PagesOf(o), o.ptr>>, x)
        BY <1>3, <2>1, <3>2
      <4> QED BY <4>1 DEF Kept, Holds, End, PagesOf, iroundup
    <3> QED BY <1>1, <3>1, <3>2, SMT
  <2> QED BY <2>1 DEF Covered
<1> QED BY <1>5, <1>6, <1>7, <1>8, <1>9 DEF IInv

\* An object and the rest of its last page.
LEMMA ObjectParts ==
  ASSUME NEW ptr \in Nat, NEW size \in Nat, size > 0, NEW x \in Nat,
         NEW o, o = [ptr |-> ptr, size |-> size]
  PROVE  /\ Fixed(o) \in Region /\ o.ptr = ptr /\ End(Fixed(o)) = ptr + size
         /\ ptr + size <= iroundup(ptr + size) /\ iroundup(ptr + size) \in Nat
         /\ Holds(<<PagesOf(o), o.ptr>>, x) <=> ptr <= x /\ x < iroundup(ptr + size)
<1>1. o.ptr = ptr /\ o.size = size /\ Fixed(o) = <<size, ptr>>
  BY DEF Fixed
<1>2. ptr + size \in Nat
  BY SMT
<1>3. ptr + size <= iroundup(ptr + size) /\ iroundup(ptr + size) \in Nat
  BY <1>2, Rounding
<1>4. Fixed(o) \in Region /\ End(Fixed(o)) = ptr + size
  BY <1>1, SMT DEF Region, End
<1>5. PagesOf(o) = iroundup(ptr + size) - ptr
  BY <1>1 DEF PagesOf
<1>6. End(<<PagesOf(o), o.ptr>>) = iroundup(ptr + size)
  BY <1>1, <1>3, <1>5, SMT DEF End
<1> QED BY <1>1, <1>3, <1>4, <1>6 DEF Holds

LEMMA CreateObjectKeeps ==
  ASSUME IInv, NEW size \in ObjectSizes, CreateObject(size)
  PROVE  IInv'
<1> DEFINE c == NextPage
           o == [ptr |-> c, size |-> size]
<1>1. c \in Nat /\ size \in Nat /\ size > 0
  BY NextPagePlace, MemoryAssumption
<1>2. /\ objects' = objects \cup {o} /\ preallocated_head' = c + size
      /\ UNCHANGED <<cache, allocations, merge_upon_release_>>
  BY DEF CreateObject
<1>3. c + size \in Nat /\ c <= c + size
  BY <1>1, SMT
<1>4. /\ Fixed(o) \in Region /\ c <= o.ptr /\ End(Fixed(o)) <= c + size
      /\ \A x \in Nat : c <= x /\ x < iroundup(c + size) => Holds(<<PagesOf(o), o.ptr>>, x)
  <2>1. \A x \in Nat :
          /\ Fixed(o) \in Region /\ o.ptr = c /\ End(Fixed(o)) = c + size
          /\ Holds(<<PagesOf(o), o.ptr>>, x) <=> c <= x /\ x < iroundup(c + size)
    BY <1>1, ObjectParts
  <2> HIDE DEF c, o
  <2>2. 0 \in Nat
    BY SMT
  <2> QED BY <1>1, <1>3, <2>1, <2>2, SMT
<1> HIDE DEF o
<1> QED BY <1>2, <1>3, <1>4, ObjectsKeep

\* The ambient element begins where the object before it ends.
LEMMA CreateAllocatorKeeps ==
  ASSUME IInv, NEW size \in ObjectSizes, NEW ambient_size \in AmbientSizes,
         CreateAllocator(size, ambient_size)
  PROVE  IInv'
<1> DEFINE c == NextPage
           a == c + size
           top == a + ambient_size
           o == [ptr |-> c, size |-> size]
           e == [ptr |-> a, size |-> ambient_size]
<1>1. /\ c \in Nat /\ size \in Nat /\ size > 0
      /\ ambient_size \in Nat /\ ambient_size > 0
  BY NextPagePlace, MemoryAssumption
<1>2. a \in Nat /\ top \in Nat /\ c <= a /\ a <= top /\ c <= top
  BY <1>1, SMT
<1>3. Cut(a, 1) = a
  <2> HIDE DEF a
  <2> QED BY <1>2, SMT DEF Cut
<1>4. /\ objects' = objects \cup {o, e} /\ preallocated_head' = top
      /\ UNCHANGED <<cache, allocations, merge_upon_release_>>
  BY <1>3 DEF CreateAllocator
<1>5. \A x \in Nat :
        /\ Fixed(o) \in Region /\ o.ptr = c /\ End(Fixed(o)) = a
        /\ a <= iroundup(a) /\ iroundup(a) \in Nat
        /\ Holds(<<PagesOf(o), o.ptr>>, x) <=> c <= x /\ x < iroundup(a)
  BY <1>1, ObjectParts
<1>6. \A x \in Nat :
        /\ Fixed(e) \in Region /\ e.ptr = a /\ End(Fixed(e)) = top
        /\ Holds(<<PagesOf(e), e.ptr>>, x) <=> a <= x /\ x < iroundup(top)
  <2> HIDE DEF a
  <2> QED BY <1>1, <1>2, ObjectParts
<1> HIDE DEF c, a, top, o, e
<1>7. \A q \in {o, e} : Fixed(q) \in Region /\ c <= q.ptr /\ End(Fixed(q)) <= top
  <2>1. 0 \in Nat /\ c <= c /\ top <= top
    BY <1>1, <1>2, SMT
  <2>2. Fixed(o) \in Region /\ c <= o.ptr /\ End(Fixed(o)) <= top
    BY <1>2, <1>5, <2>1
  <2>3. Fixed(e) \in Region /\ c <= e.ptr /\ End(Fixed(e)) <= top
    BY <1>2, <1>6, <2>1
  <2> QED BY <2>2, <2>3
<1>8. ASSUME NEW x \in Nat, c <= x, x < iroundup(top)
      PROVE  \E q \in {o, e} : Holds(<<PagesOf(q), q.ptr>>, x)
  <2>1. x < a \/ a <= x
    BY <1>2, SMT
  <2>2. x < a => x < iroundup(a)
    BY <1>2, <1>5, SMT
  <2> QED BY <1>5, <1>6, <1>8, <2>1, <2>2
<1> QED BY <1>2, <1>4, <1>7, <1>8, ObjectsKeep DEF c

LEMMA Initial == Init => IInv
<1> SUFFICES ASSUME Init
             PROVE  IInv
  OBVIOUS
<1>1. /\ preallocated_head = 0 /\ mem_blocks = {} /\ DOMAIN ptr_map = {} /\ objects = {}
      /\ allocations = [h \in Handles |-> NoAllocation]
  BY DEF Init
<1>2. LiveHandles = {}
  BY <1>1 DEF LiveHandles, NoAllocation
<1>3. Typed
  <2>1. NoAllocation \in [ptr : Nat \cup {Null}, size : Nat]
    BY SMT DEF NoAllocation
  <2> QED BY <1>1, <1>2, <2>1, SMT DEF Typed
<1>4. iroundup(preallocated_head) = 0
  <2> DEFINE q == (0 + PageSize - 1) \div PageSize
  <2>1. q \in Nat /\ q * PageSize <= 0 + PageSize - 1
    BY Constants, Euclid
  <2> HIDE DEF q
  <2>2. q * PageSize < 1 * PageSize
    BY <2>1, Constants, SMT
  <2>3. q = 0
    <3>1. q < 1
      BY <2>1, <2>2, Constants, Product
    <3> QED BY <2>1, <3>1, SMT
  <2>4. q * PageSize = 0
    BY <2>3, Constants, SMT
  <2> QED BY <1>1, <2>4 DEF iroundup, q
<1>5. Covered
  BY <1>4, SMT DEF Covered
<1> QED BY <1>1, <1>2, <1>3, <1>5
        DEF IInv, LivesApart, BlocksApart, Bounded, ObjectsApart, MapListsBlocks

LEMMA Inductive == IInv /\ [Next]_vars => IInv'
<1> SUFFICES ASSUME IInv, [Next]_vars
             PROVE  IInv'
  OBVIOUS
<1>1. ASSUME NEW h \in Handles, NEW size \in AllocSizes, Allocate(h, size)
      PROVE  IInv'
  BY <1>1, ReuseBlockKeeps, CutNewKeeps DEF Allocate
<1>2. ASSUME NEW h \in Handles, Release(h)
      PROVE  IInv'
  BY <1>2, ReleaseKeeps
<1>3. ASSUME NEW size \in ObjectSizes, CreateObject(size)
      PROVE  IInv'
  BY <1>3, CreateObjectKeeps
<1>4. ASSUME NEW size \in ObjectSizes, NEW a \in AmbientSizes, CreateAllocator(size, a)
      PROVE  IInv'
  BY <1>4, CreateAllocatorKeeps
<1>5. CASE UNCHANGED vars
  <2>1. /\ UNCHANGED <<preallocated_head, mem_blocks, ptr_map, allocations, objects>>
        /\ LiveHandles' = LiveHandles
    BY <1>5 DEF vars, cache, LiveHandles
  <2>2. Typed' /\ LivesApart' /\ BlocksApart' /\ MapListsBlocks'
    BY <2>1 DEF IInv, Typed, LivesApart, BlocksApart, MapListsBlocks, Apart, End, Alive, Fixed, Region
  <2>3. Bounded' /\ ObjectsApart'
    BY <2>1 DEF IInv, Bounded, Bound, ObjectsApart, Apart, End, Alive, Fixed, iroundup
  <2>4. Covered'
    BY <2>1 DEF IInv, Covered, Kept, Holds, Alive, End, PagesOf, iroundup
  <2> QED BY <2>2, <2>3, <2>4 DEF IInv
<1> QED BY <1>1, <1>2, <1>3, <1>4, <1>5 DEF Next

LEMMA Invariant == Spec => []IInv
  BY Initial, Inductive, PTL DEF Spec

-----------------------------------------------------------------------------
LEMMA ApartShareNothing ==
  ASSUME NEW r \in Region, NEW q \in Region, Apart(r, q)
  PROVE  Span(r[2], r[1]) \cap Span(q[2], q[1]) = {}
<1>1. /\ r[1] \in Nat /\ r[2] \in Nat /\ q[1] \in Nat /\ q[2] \in Nat
      /\ r[2] + r[1] <= q[2] \/ q[2] + q[1] <= r[2]
  BY RegionParts DEF Apart, End
<1> QED BY <1>1, SMT DEF Span

\* Live allocations and free blocks never overlap, whatever is allocated and
\* released in whatever order, with and without merging.
THEOREM AllocationsApart == Spec => []AllocationsDisjoint
<1>1. IInv => AllocationsDisjoint
  <2> SUFFICES ASSUME IInv
               PROVE  AllocationsDisjoint
    OBVIOUS
  <2>1. \A h \in LiveHandles : Alive(h) \in Region /\ Live(h) = Span(Alive(h)[2], Alive(h)[1])
    BY DEF IInv, Typed, Live, Alive
  <2>2. \A b \in mem_blocks : b \in Region /\ Free(b) = Span(b[2], b[1])
    BY DEF IInv, Typed, Free
  <2>3. \A g, h \in LiveHandles : g # h => Live(g) \cap Live(h) = {}
    BY <2>1, ApartShareNothing DEF IInv, LivesApart
  <2>4. \A h \in LiveHandles, b \in mem_blocks : Live(h) \cap Free(b) = {}
    BY <2>1, <2>2, ApartShareNothing DEF IInv, LivesApart
  <2>5. \A b, c \in mem_blocks : b # c => Free(b) \cap Free(c) = {}
    BY <2>2, ApartShareNothing DEF IInv, BlocksApart
  <2> QED BY <2>3, <2>4, <2>5 DEF AllocationsDisjoint
<1> QED BY <1>1, Invariant, PTL

\* The runtime's objects, ambient elements among them, share nothing with them
\* either, whatever odd sizes are allocated around them.
THEOREM ObjectsSafe == Spec => []ObjectsKept
<1>1. IInv => ObjectsKept
  <2> SUFFICES ASSUME IInv, NEW o \in objects
               PROVE  /\ \A h \in LiveHandles : Object(o) \cap Live(h) = {}
                      /\ \A b \in mem_blocks : Object(o) \cap Free(b) = {}
    BY DEF ObjectsKept
  <2>1. Fixed(o) \in Region /\ Object(o) = Span(Fixed(o)[2], Fixed(o)[1])
    BY DEF IInv, Typed, Object, Fixed
  <2>2. \A h \in LiveHandles : Alive(h) \in Region /\ Live(h) = Span(Alive(h)[2], Alive(h)[1])
    BY DEF IInv, Typed, Live, Alive
  <2>3. \A b \in mem_blocks : b \in Region /\ Free(b) = Span(b[2], b[1])
    BY DEF IInv, Typed, Free
  <2> QED BY <2>1, <2>2, <2>3, ApartShareNothing DEF IInv, ObjectsApart
<1> QED BY <1>1, Invariant, PTL

\* What ptr_map_ lists with a size is a free block: merging never takes in
\* memory that is in use.
THEOREM MapIsTrue == Spec => []MapListsBlocks
<1>1. IInv => MapListsBlocks
  BY DEF IInv
<1> QED BY <1>1, Invariant, PTL

\* Every page that was begun is live, free or an object's, after any number of
\* splits and merges.
THEOREM NoPageLost == Spec => []NothingLost
<1>1. IInv => NothingLost
  <2> SUFFICES ASSUME IInv, NEW x \in 0 .. preallocated_head - 1
               PROVE  x \in Owned
    BY DEF NothingLost
  <2>1. preallocated_head \in Nat /\ preallocated_head <= iroundup(preallocated_head)
        /\ iroundup(preallocated_head) \in Nat
    BY Rounding DEF IInv, Typed
  <2>2. x \in Nat /\ x < iroundup(preallocated_head)
    BY <2>1, SMT
  <2>3. Kept(x)
    BY <2>2 DEF IInv, Typed, Covered
  <2>4. ASSUME NEW ptr \in Nat, NEW size \in Nat, Holds(<<size, ptr>>, x)
        PROVE  x \in Span(ptr, size)
    BY <2>2, <2>4, SMT DEF Holds, End, Span
  <2>5. CASE \E h \in LiveHandles : Holds(Alive(h), x)
    <3>1. PICK h \in LiveHandles : Holds(Alive(h), x)
      BY <2>5
    <3>2. allocations[h].ptr \in Nat /\ allocations[h].size \in Nat
      BY DEF IInv, Typed, Alive, Region
    <3>3. x \in Live(h)
      BY <2>4, <3>1, <3>2 DEF Alive, Live
    <3> QED BY <3>3 DEF Owned
  <2>6. CASE \E b \in mem_blocks : Holds(b, x)
    <3>1. PICK b \in mem_blocks : Holds(b, x)
      BY <2>6
    <3>2. b = <<b[1], b[2]>> /\ b[1] \in Nat /\ b[2] \in Nat
      BY RegionParts DEF IInv, Typed
    <3>3. x \in Free(b)
      BY <2>4, <3>1, <3>2 DEF Free
    <3> QED BY <3>3 DEF Owned
  <2>7. CASE \E o \in objects : Holds(<<PagesOf(o), o.ptr>>, x)
    <3>1. PICK o \in objects : Holds(<<PagesOf(o), o.ptr>>, x)
      BY <2>7
    <3>2. o.ptr \in Nat /\ o.size \in Nat
      BY DEF IInv, Typed, Fixed, Region
    <3>3. PagesOf(o) \in Nat
      <4>1. o.ptr + o.size \in Nat
        BY <3>2, SMT
      <4>2. iroundup(o.ptr + o.size) \in Nat /\ o.ptr + o.size <= iroundup(o.ptr + o.size)
        BY <4>1, Rounding
      <4> QED BY <3>2, <4>2, SMT DEF PagesOf
    <3>4. x \in Span(o.ptr, PagesOf(o))
      BY <2>4, <3>1, <3>2, <3>3
    <3> QED BY <3>4 DEF Owned
  <2> QED BY <2>3, <2>5, <2>6, <2>7 DEF Kept
<1> QED BY <1>1, Invariant, PTL
=============================================================================
