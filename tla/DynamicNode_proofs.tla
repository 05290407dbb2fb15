------------------------ MODULE DynamicNode_proofs ------------------------
(***************************************************************************)
(* A dynamic SNode keeps its chunks, for any number of threads and cells,  *)
(* any chunk size and any length.                                          *)
(*                                                                         *)
(* The chunks are a path: at[0] is the place node->ptr, at[k] the k-th     *)
(* cell, and no place comes twice (Path).  A thread that looks for its     *)
(* element stands on the path, not beyond the element's chunk, and has     *)
(* seen a next chunk before it goes there (Growers); the one that frees    *)
(* has given back what is behind it and nothing else (Freers, Keeping).    *)
(* n may be ahead of the chunks only while a thread is under way to the    *)
(* last element (Reaching).                                                *)
(*                                                                         *)
(* The path is that of the model's recursive Chain (PathChain), by         *)
(* induction along it.                                                     *)
(***************************************************************************)
EXTENDS DynamicNode, Integers, TLAPS, FiniteSetTheorems, WellFoundedInduction

InLock(t) == pc[t] \in {"free", "unlink"}

(* The next chunk of each place is the one after it, L chunks in all.       *)
Path(p, at, L) ==
  /\ at[0] = Head /\ p[at[L]] = Null
  /\ \A k \in 0 .. L - 1 : p[at[k]] = at[k + 1]
  /\ \A j, k \in 0 .. L : at[j] = at[k] => j = k

Chunks(at, first, L) == {at[k] : k \in first .. L}

Growers(at, L) ==
  \A t \in Threads : Growing(t) =>
    /\ chunk[t] \in 0 .. L /\ place[t] = at[chunk[t]]
    /\ chunk[t] * ChunkSize <= want[t] /\ want[t] < MaxN
    /\ pc[t] = "walk" => chunk[t] < L

Freers(at, L) ==
  \A t \in Threads : InLock(t) =>
    \E j \in 0 .. L : /\ place[t] = at[j]
                      /\ held = Chunks(at, j + 1, L)
                      /\ pc[t] = "unlink" => j = L

Keeping(at, L) == (\A t \in Threads : ~InLock(t)) => held = Chunks(at, 1, L)

Reaching(at, L) ==
  \/ n <= L * ChunkSize
  \/ \E t \in Threads : Growing(t) /\ n <= want[t] + 1

Linking(at, L) ==
  /\ Path(ptr, at, L)
  /\ Growers(at, L) /\ Freers(at, L) /\ Keeping(at, L) /\ Reaching(at, L)

(* A cell that nobody has used since it was cleaned points nowhere.         *)
Store ==
  /\ held \subseteq Cell /\ returned \subseteq Cell
  /\ held \cap returned = {} /\ dirty = held \cup returned
  /\ \A c \in Cell \ dirty : ptr[c] = Null

Locking ==
  /\ lock <=> \E t \in Threads : InLock(t)
  /\ \A t, u \in Threads : InLock(t) /\ InLock(u) => t = u
  /\ \A t, u \in Threads : ~(Growing(t) /\ Freeing(u))
  /\ lock => n = 0
  /\ \A t \in Threads : pc[t] \in {"idle", "delock"} => place[t] = Head /\ chunk[t] = 0

IInv ==
  /\ TypeOK /\ Store /\ Locking
  /\ \E L \in Nat : \E at \in [0 .. L -> Places] : Linking(at, L)

-----------------------------------------------------------------------------
LEMMA NatMin ==
  ASSUME NEW T, T \subseteq Nat, T # {}
  PROVE  \E x \in T : \A y \in T : ~(y < x)
<1> DEFINE R == {ss \in Nat \X Nat : ss[1] < ss[2]}
<1>1. OpToRel(<, Nat) = R BY DEF OpToRel
<1>2. IsWellFoundedOn(R, Nat) BY <1>1, NatLessThanWellFounded
<1> HIDE DEF R
<1>3. \E x \in T : \A y \in T : ~(<<y, x>> \in R) BY <1>2, WFMin
<1>4. \A x, y \in Nat : x < y => <<x, y>> \in R BY DEF R
<1>5. QED BY <1>3, <1>4

(* Induction, with the set of the naturals that have the property.          *)
LEMMA NatInd ==
  ASSUME NEW P, 0 \in P, \A k \in Nat : k \in P => k + 1 \in P
  PROVE  Nat \subseteq P
<1>1. SUFFICES ASSUME Nat \ P # {} PROVE FALSE OBVIOUS
<1>2. PICK x \in Nat \ P : \A y \in Nat \ P : ~(y < x) BY <1>1, NatMin
<1>3. x # 0 BY <1>2
<1>4. x - 1 \in Nat /\ x - 1 < x /\ x = (x - 1) + 1 BY <1>3
<1>5. x - 1 \in P BY <1>2, <1>4
<1>6. QED BY <1>4, <1>5, <1>2


-----------------------------------------------------------------------------
(* The path                                                                 *)

LEMMA PathFacts ==
  ASSUME NEW p \in [Places -> Cell \cup {Null}], NEW L \in Nat,
         NEW at \in [0 .. L -> Places], Path(p, at, L)
  PROVE  \A k \in 0 .. L :
           /\ k # 0 => at[k] \in Cell
           /\ k = L => p[at[k]] = Null
           /\ k < L => p[at[k]] = at[k + 1] /\ at[k + 1] \in Cell
<1>1. \A k \in 0 .. L - 1 : k + 1 \in 0 .. L /\ k \in 0 .. L OBVIOUS
<1>2. \A k \in 0 .. L - 1 : p[at[k]] = at[k + 1] /\ at[k + 1] \in Cell
  <2>1. TAKE k \in 0 .. L - 1
  <2>2. p[at[k]] = at[k + 1] BY DEF Path
  <2>3. at[k] \in Places /\ at[k + 1] \in Places BY <1>1
  <2>4. p[at[k]] \in Cell \cup {Null} BY <2>3
  <2>5. QED BY <2>2, <2>3, <2>4, DynamicAssumption DEF Places
<1>3. SUFFICES ASSUME NEW k \in 0 .. L
               PROVE  /\ k # 0 => at[k] \in Cell
                      /\ k = L => p[at[k]] = Null
                      /\ k < L => p[at[k]] = at[k + 1] /\ at[k + 1] \in Cell
  OBVIOUS
<1>4. k # 0 => k - 1 \in 0 .. L - 1 /\ (k - 1) + 1 = k BY <1>3
<1>5. k < L => k \in 0 .. L - 1 BY <1>3
<1>6. QED BY <1>2, <1>3, <1>4, <1>5 DEF Path

(* No more chunks than cells.                                               *)
LEMMA PathShort ==
  ASSUME NEW p \in [Places -> Cell \cup {Null}], NEW L \in Nat,
         NEW at \in [0 .. L -> Places], Path(p, at, L)
  PROVE  L <= Cardinality(Cell) /\ Cardinality(Cell) \in Nat
<1> DEFINE f == [k \in 1 .. L |-> at[k]]
<1>1. f \in [1 .. L -> Cell] BY PathFacts
<1>2. \A j, k \in 1 .. L : f[j] = f[k] => j = k BY DEF Path
<1>3. f \in Injection(1 .. L, Cell) BY <1>1, <1>2 DEF Injection, IsInjective
<1>4. Cardinality(1 .. L) <= Cardinality(Cell) BY <1>3, FS_Injection, DynamicAssumption
<1>5. Cardinality(1 .. L) = L BY FS_Interval
<1>6. Cardinality(Cell) \in Nat BY FS_CardinalityType, DynamicAssumption
<1>7. QED BY <1>4, <1>5, <1>6

(* What a chain of chunks is, and that there is one.                        *)
IsChain(f, p) ==
  f = [k \in 0 .. Cardinality(Cell) |->
         IF k = 0 THEN p[Head] ELSE IF f[k - 1] = Null THEN Null ELSE p[f[k - 1]]]

PathCells(at, L) ==
  [k \in 0 .. Cardinality(Cell) |-> IF k < L THEN at[k + 1] ELSE Null]

LEMMA ChainExists ==
  ASSUME NEW p \in [Places -> Cell \cup {Null}], NEW L \in Nat,
         NEW at \in [0 .. L -> Places], Path(p, at, L)
  PROVE  IsChain(PathCells(at, L), p)
<1> DEFINE C == Cardinality(Cell)
           f == PathCells(at, L)
<1>1. L <= C /\ C \in Nat BY PathShort
<1>2. \A k \in 0 .. C : f[k] = IF k < L THEN at[k + 1] ELSE Null BY DEF PathCells
<1>3. f = [k \in 0 .. C |-> f[k]] BY DEF PathCells
<1> HIDE DEF C, f
<1>4. \A k \in 0 .. C :
        f[k] = IF k = 0 THEN p[Head] ELSE IF f[k - 1] = Null THEN Null ELSE p[f[k - 1]]
  <2>1. SUFFICES ASSUME NEW k \in 0 .. C
                 PROVE  f[k] = IF k = 0 THEN p[Head]
                               ELSE IF f[k - 1] = Null THEN Null ELSE p[f[k - 1]]
    OBVIOUS
  <2>2. CASE k = 0
    <3>1. at[0] = Head /\ 0 \in 0 .. L /\ 0 + 1 = 1 BY DEF Path
    <3>2. 0 = L => p[Head] = Null BY <3>1, PathFacts
    <3>3. 0 < L => p[Head] = at[1] BY <3>1, PathFacts
    <3>4. QED BY <1>1, <1>2, <2>2, <3>1, <3>2, <3>3
  <2>3. CASE k # 0 /\ k <= L
    <3>1. k - 1 \in 0 .. C /\ k - 1 < L /\ (k - 1) + 1 = k /\ k \in 0 .. L BY <1>1, <2>3
    <3>2. f[k - 1] = at[k] BY <1>2, <3>1
    <3>3. at[k] # Null BY <2>3, <3>1, PathFacts, DynamicAssumption
    <3>4. k = L => p[at[k]] = Null BY <3>1, PathFacts
    <3>5. k < L => p[at[k]] = at[k + 1] BY <3>1, PathFacts
    <3>6. QED BY <1>1, <1>2, <2>1, <2>3, <3>2, <3>3, <3>4, <3>5
  <2>4. CASE k # 0 /\ ~(k <= L)
    <3>1. k - 1 \in 0 .. C /\ ~(k - 1 < L) /\ ~(k < L) BY <1>1, <2>4
    <3>2. f[k - 1] = Null /\ f[k] = Null BY <1>2, <2>1, <3>1
    <3>3. QED BY <2>4, <3>2
  <2>5. QED BY <2>2, <2>3, <2>4
<1>5. QED BY <1>3, <1>4 DEF IsChain, C, f

LEMMA ChainUnique ==
  ASSUME NEW p, NEW f, NEW g, IsChain(f, p), IsChain(g, p),
         Cardinality(Cell) \in Nat, NEW k \in 0 .. Cardinality(Cell)
  PROVE  f[k] = g[k]
<1> DEFINE C == Cardinality(Cell)
           P == {j \in Nat : j <= C => f[j] = g[j]}
           NextOf(c) == IF c = Null THEN Null ELSE p[c]
<1>1. \A j \in 0 .. C : f[j] = IF j = 0 THEN p[Head] ELSE NextOf(f[j - 1]) BY DEF IsChain
<1>2. \A j \in 0 .. C : g[j] = IF j = 0 THEN p[Head] ELSE NextOf(g[j - 1]) BY DEF IsChain
<1>3. C \in Nat /\ k \in 0 .. C OBVIOUS
<1> HIDE DEF NextOf, C
<1>4. 0 \in P BY <1>1, <1>2, <1>3
<1>5. ASSUME NEW j \in Nat, j \in P PROVE j + 1 \in P
  <2>1. SUFFICES ASSUME j + 1 <= C PROVE f[j + 1] = g[j + 1] OBVIOUS
  <2>2. j + 1 \in 0 .. C /\ j + 1 # 0 /\ (j + 1) - 1 = j BY <1>3, <2>1
  <2>3. f[j] = g[j] BY <1>3, <1>5, <2>1
  <2>4. QED BY <1>1, <1>2, <2>2, <2>3
<1> HIDE DEF P
<1>6. Nat \subseteq P BY <1>4, <1>5, NatInd
<1>7. QED BY <1>3, <1>6 DEF P

LEMMA PathChain ==
  ASSUME ptr \in [Places -> Cell \cup {Null}], NEW L \in Nat,
         NEW at \in [0 .. L -> Places], Path(ptr, at, L)
  PROVE  /\ L <= Cardinality(Cell) /\ Cardinality(Cell) \in Nat
         /\ DOMAIN Chain = 0 .. Cardinality(Cell)
         /\ \A k \in 0 .. Cardinality(Cell) :
              Chain[k] = IF k < L THEN at[k + 1] ELSE Null
<1> DEFINE f == CHOOSE g : IsChain(g, ptr)
<1>1. L <= Cardinality(Cell) /\ Cardinality(Cell) \in Nat BY PathShort
<1>2. IsChain(PathCells(at, L), ptr) BY ChainExists
<1>3. IsChain(f, ptr) BY <1>2
<1>4. Chain = f BY DEF Chain, IsChain
<1> HIDE DEF f
<1>5. DOMAIN Chain = 0 .. Cardinality(Cell) BY <1>3, <1>4 DEF IsChain
<1>6. \A k \in 0 .. Cardinality(Cell) : Chain[k] = PathCells(at, L)[k]
  BY <1>1, <1>2, <1>3, <1>4, ChainUnique
<1>7. QED BY <1>1, <1>5, <1>6 DEF PathCells

-----------------------------------------------------------------------------
(* Multiples of a chunk size                                                *)

LEMMA Monotone ==
  ASSUME NEW a \in Nat, NEW b \in Nat, NEW e \in Nat, a <= b
  PROVE  a * e <= b * e
<1>1. b - a \in Nat /\ b = a + (b - a) OBVIOUS
<1>2. (a + (b - a)) * e = a * e + (b - a) * e BY <1>1
<1>3. (b - a) * e \in Nat /\ a * e \in Nat /\ b * e \in Nat BY <1>1
<1>4. QED BY <1>1, <1>2, <1>3

LEMMA Block ==
  ASSUME NEW m \in Nat, NEW w \in Nat, NEW e \in Nat \ {0},
         m * e <= w, w < (m + 1) * e
  PROVE  w \div e = m
<1>1. (m + 1) * e = m * e + e /\ m * e \in Nat OBVIOUS
<1>2. w - m * e \in 0 .. e - 1 BY <1>1
<1>3. w = e * m + (w - m * e) BY <1>1
<1>4. QED BY <1>2, <1>3

LEMMA Within ==
  ASSUME NEW i \in Nat, NEW L \in Nat, NEW e \in Nat \ {0}, i < L * e
  PROVE  i \div e \in 0 .. L - 1
<1> DEFINE q == i \div e
<1>1. q \in Nat /\ q * e <= i OBVIOUS
<1>2. SUFFICES ASSUME L <= q PROVE FALSE BY <1>1
<1>3. L * e <= q * e BY <1>1, <1>2, Monotone
<1>4. L * e \in Nat /\ q * e \in Nat BY <1>1
<1>5. QED BY <1>1, <1>3, <1>4

-----------------------------------------------------------------------------
(* The steps                                                                *)

LEMMA LinkFacts ==
  ASSUME IInv, NEW L \in Nat, NEW at \in [0 .. L -> Places], Linking(at, L),
         NEW k \in 0 .. L
  PROVE  /\ k = L <=> ptr[at[k]] = Null
         /\ k < L => ptr[at[k]] = at[k + 1] /\ at[k + 1] \in Cell /\ k + 1 \in 0 .. L
<1>1. ptr \in [Places -> Cell \cup {Null}] /\ Path(ptr, at, L) BY DEF IInv, TypeOK, Linking
<1>2. k = L => ptr[at[k]] = Null BY <1>1, PathFacts
<1>3. k < L => ptr[at[k]] = at[k + 1] /\ at[k + 1] \in Cell BY <1>1, PathFacts
<1>4. QED BY <1>2, <1>3, DynamicAssumption

LEMMA InitIInv ==
  ASSUME Init
  PROVE  IInv
<1>1. TypeOK
  <2>1. 0 \in 0 .. MaxN BY DynamicAssumption
  <2>2. Head \in Places BY DEF Places
  <2>3. QED BY <2>1, <2>2 DEF Init, TypeOK
<1>2. Store BY DEF Init, CellInit, Store, Places
<1>3. Locking BY DEF Init, Locking, InLock, Growing, Freeing
<1> DEFINE at == [k \in 0 .. 0 |-> Head]
<1>4. at \in [0 .. 0 -> Places] /\ at[0] = Head BY DEF Places
<1> HIDE DEF at
<1>5. Path(ptr, at, 0) BY <1>4 DEF Init, Path, Places
<1>6. Growers(at, 0) /\ Freers(at, 0) BY DEF Init, Growers, Freers, Growing, InLock
<1>7. Keeping(at, 0) BY DEF Init, CellInit, Keeping, Chunks
<1>8. 0 * ChunkSize = 0 BY DynamicAssumption
<1>9. Reaching(at, 0) BY <1>8 DEF Init, Reaching
<1>10. Linking(at, 0) BY <1>5, <1>6, <1>7, <1>9 DEF Linking
<1>11. QED BY <1>1, <1>2, <1>3, <1>4, <1>10 DEF IInv

(* An append draws an element as an activation of the first free one would. *)
LEMMA ActivateIInv ==
  ASSUME IInv, NEW t \in Threads, NEW i \in 0 .. MaxN - 1, Activate(t, i)
  PROVE  IInv'
<1>0. PICK L \in Nat : \E at \in [0 .. L -> Places] : Linking(at, L) BY DEF IInv
<1>1. PICK at \in [0 .. L -> Places] : Linking(at, L) BY <1>0
<1>2. /\ n' \in 0 .. MaxN /\ (n' = n \/ n' = i + 1) /\ (n' = n => n >= i + 1)
      /\ ~lock /\ pc'[t] = "test" /\ want'[t] = i
      /\ \A u \in Threads : u # t => pc'[u] = pc[u] /\ want'[u] = want[u]
      /\ \A u \in Threads : ~Freeing(u)
      /\ pc[t] = "idle" /\ place[t] = Head /\ chunk[t] = 0
  BY DynamicAssumption DEF IInv, TypeOK, Locking, Activate, Goto, MayGrow, Freeing, InLock
<1>3. UNCHANGED <<ptr, lock, place, chunk, held, returned, dirty>> BY DEF Activate, cellVars
<1>4. TypeOK'
  BY <1>2, <1>3, DynamicAssumption DEF IInv, TypeOK, Activate, Goto
<1>5. Store' BY <1>3 DEF IInv, Store
<1>6. Locking' BY <1>2, <1>3 DEF IInv, Locking, Growing, Freeing, InLock
<1>7. Growers(at, L)'
  <2>1. 0 * ChunkSize <= i /\ i < MaxN /\ 0 \in 0 .. L /\ at[0] = Head
    BY <1>1, DynamicAssumption DEF Linking, Path
  <2>2. QED BY <1>1, <1>2, <1>3, <2>1 DEF Linking, Growers, Growing
<1>8. Freers(at, L)' BY <1>1, <1>2, <1>3 DEF Linking, Freers, InLock, Chunks
<1>9. Keeping(at, L)' BY <1>1, <1>2, <1>3 DEF Linking, Keeping, InLock, Freeing, Chunks
<1>10. Reaching(at, L)' BY <1>1, <1>2, <1>3 DEF Linking, Reaching, Growing
<1>11. Linking(at, L)' BY <1>1, <1>3, <1>7, <1>8, <1>9, <1>10 DEF Linking
<1>12. QED BY <1>4, <1>5, <1>6, <1>11 DEF IInv

LEMMA AppendActivate ==
  ASSUME IInv, NEW t \in Threads, Append(t)
  PROVE  n \in 0 .. MaxN - 1 /\ Activate(t, n)
BY DynamicAssumption DEF IInv, TypeOK, Append, Activate, cellVars

LEMMA TestChunkIInv ==
  ASSUME IInv, NEW t \in Threads, TestChunk(t)
  PROVE  IInv'
<1>0. PICK L \in Nat : \E at \in [0 .. L -> Places] : Linking(at, L) BY DEF IInv
<1>1. PICK at \in [0 .. L -> Places] : Linking(at, L) BY <1>0
<1>2. /\ pc[t] = "test" /\ pc'[t] \in {"lock", "walk"}
      /\ pc'[t] = "walk" => ptr[place[t]] # Null
      /\ \A u \in Threads : u # t => pc'[u] = pc[u]
  BY DEF IInv, TypeOK, TestChunk, Goto
<1>3. UNCHANGED <<n, ptr, lock, want, place, chunk, held, returned, dirty>>
  BY DEF TestChunk, cellVars, node
<1>4. TypeOK' BY <1>3 DEF IInv, TypeOK, TestChunk, Goto
<1>5. Store' BY <1>3 DEF IInv, Store
<1>6. Locking' BY <1>2, <1>3 DEF IInv, Locking, Growing, Freeing, InLock
<1>7. Growers(at, L)'
  <2>1. chunk[t] \in 0 .. L /\ place[t] = at[chunk[t]] /\ chunk[t] * ChunkSize <= want[t]
        /\ want[t] < MaxN
    BY <1>1, <1>2 DEF Linking, Growers, Growing
  <2>2. chunk[t] = L => ptr[place[t]] = Null BY <1>1, <2>1 DEF Linking, Path
  <2>3. pc'[t] = "walk" => chunk[t] < L BY <1>2, <2>1, <2>2
  <2>4. QED BY <1>1, <1>2, <1>3, <2>1, <2>3 DEF Linking, Growers, Growing
<1>8. Freers(at, L)' BY <1>1, <1>2, <1>3 DEF Linking, Freers, InLock, Chunks
<1>9. Keeping(at, L)' BY <1>1, <1>2, <1>3 DEF Linking, Keeping, InLock, Chunks
<1>10. Reaching(at, L)' BY <1>1, <1>2, <1>3 DEF Linking, Reaching, Growing
<1>11. Linking(at, L)' BY <1>1, <1>3, <1>7, <1>8, <1>9, <1>10 DEF Linking
<1>12. QED BY <1>4, <1>5, <1>6, <1>11 DEF IInv

LEMMA FoundIInv ==
  ASSUME IInv, NEW t \in Threads, Found(t)
  PROVE  IInv'
<1>0. PICK L \in Nat : \E at \in [0 .. L -> Places] : Linking(at, L) BY DEF IInv
<1>1. PICK at \in [0 .. L -> Places] : Linking(at, L) BY <1>0
<1>2. /\ pc[t] = "walk" /\ pc'[t] = "idle" /\ place'[t] = Head /\ chunk'[t] = 0
      /\ \A u \in Threads : u # t => /\ pc'[u] = pc[u] /\ want'[u] = want[u]
                                     /\ place'[u] = place[u] /\ chunk'[u] = chunk[u]
  BY DEF IInv, TypeOK, Found, Goto, Return
<1>3. UNCHANGED <<n, ptr, lock, held, returned, dirty>> BY DEF Found, cellVars, node
<1>4. TypeOK' BY <1>3, DynamicAssumption DEF IInv, TypeOK, Found, Goto, Return, Places
<1>5. Store' BY <1>3 DEF IInv, Store
<1>6. Locking' BY <1>2, <1>3 DEF IInv, Locking, Growing, Freeing, InLock
<1>7. Growers(at, L)' BY <1>1, <1>2, <1>3 DEF Linking, Growers, Growing
<1>8. Freers(at, L)' BY <1>1, <1>2, <1>3 DEF Linking, Freers, InLock, Chunks
<1>9. Keeping(at, L)' BY <1>1, <1>2, <1>3 DEF Linking, Keeping, InLock, Chunks
<1>10. Reaching(at, L)'
  <2>1. chunk[t] + 1 \in Nat /\ chunk[t] + 1 <= L
    BY <1>1, <1>2 DEF Linking, Growers, Growing
  <2>2. (chunk[t] + 1) * ChunkSize <= L * ChunkSize /\ L * ChunkSize \in Nat
        /\ (chunk[t] + 1) * ChunkSize \in Nat
    BY <2>1, Monotone, DynamicAssumption
  <2>3. want[t] < (chunk[t] + 1) * ChunkSize BY DEF Found, InChunk
  <2>4. want[t] \in Nat /\ n \in Nat BY DynamicAssumption DEF IInv, TypeOK
  <2>5. n <= want[t] + 1 => n <= L * ChunkSize BY <2>2, <2>3, <2>4
  <2>6. QED BY <1>1, <1>2, <1>3, <2>5 DEF Linking, Reaching, Growing
<1>11. Linking(at, L)' BY <1>1, <1>3, <1>7, <1>8, <1>9, <1>10 DEF Linking
<1>12. QED BY <1>4, <1>5, <1>6, <1>11 DEF IInv

LEMMA NextChunkIInv ==
  ASSUME IInv, NEW t \in Threads, NextChunk(t)
  PROVE  IInv'
<1>0. PICK L \in Nat : \E at \in [0 .. L -> Places] : Linking(at, L) BY DEF IInv
<1>1. PICK at \in [0 .. L -> Places] : Linking(at, L) BY <1>0
<1>2. /\ pc[t] = "walk" /\ pc'[t] = "test"
      /\ place'[t] = ptr[place[t]] /\ chunk'[t] = chunk[t] + 1
      /\ \A u \in Threads : u # t => /\ pc'[u] = pc[u]
                                     /\ place'[u] = place[u] /\ chunk'[u] = chunk[u]
  BY DEF IInv, TypeOK, NextChunk, Goto
<1>3. UNCHANGED <<n, ptr, lock, want, held, returned, dirty>> BY DEF NextChunk, cellVars, node
<1>4. /\ chunk[t] \in 0 .. L - 1 /\ place[t] = at[chunk[t]] /\ want[t] < MaxN
      /\ place'[t] = at[chunk[t] + 1] /\ at[chunk[t] + 1] \in Cell
  <2>1. chunk[t] \in 0 .. L /\ chunk[t] < L /\ place[t] = at[chunk[t]] /\ want[t] < MaxN
    BY <1>1, <1>2 DEF Linking, Growers, Growing
  <2>2. ptr[at[chunk[t]]] = at[chunk[t] + 1] /\ at[chunk[t] + 1] \in Cell
    BY <1>1, <2>1, PathFacts DEF Linking, IInv, TypeOK
  <2>3. QED BY <1>2, <2>1, <2>2
<1>5. (chunk[t] + 1) * ChunkSize <= want[t] /\ chunk[t] + 1 <= want[t] /\ want[t] \in Nat
  <2>1. want[t] \in Nat BY DynamicAssumption DEF IInv, TypeOK
  <2>2. chunk[t] + 1 \in Nat /\ ChunkSize \in Nat \ {0} BY <1>4, DynamicAssumption
  <2>3. (chunk[t] + 1) * ChunkSize \in Nat BY <2>2
  <2>4. ~(want[t] < (chunk[t] + 1) * ChunkSize) BY DEF NextChunk, InChunk
  <2>5. \A a \in Nat, e \in Nat \ {0} : a <= a * e
    <3>1. TAKE a \in Nat, e \in Nat \ {0}
    <3>2. 1 * a <= e * a BY Monotone
    <3>3. QED BY <3>2
  <2>6. chunk[t] + 1 <= (chunk[t] + 1) * ChunkSize BY <2>2, <2>5
  <2> DEFINE m == (chunk[t] + 1) * ChunkSize
             k == chunk[t] + 1
  <2>7. m \in Nat /\ k \in Nat /\ ~(want[t] < m) /\ k <= m BY <2>2, <2>3, <2>4, <2>6
  <2> HIDE DEF m, k
  <2>8. m <= want[t] /\ k <= want[t] BY <2>1, <2>7
  <2>9. QED BY <2>1, <2>8 DEF m, k
<1>6. TypeOK'
  <2>1. chunk[t] + 1 \in 0 .. MaxN BY <1>4, <1>5, DynamicAssumption
  <2>2. ptr[place[t]] \in Places BY <1>2, <1>4 DEF Places
  <2>3. QED BY <1>3, <2>1, <2>2 DEF IInv, TypeOK, NextChunk, Goto
<1>7. Store' BY <1>3 DEF IInv, Store
<1>8. Locking' BY <1>2, <1>3 DEF IInv, Locking, Growing, Freeing, InLock
<1>9. Growers(at, L)' BY <1>1, <1>2, <1>3, <1>4, <1>5 DEF Linking, Growers, Growing
<1>10. Freers(at, L)' BY <1>1, <1>2, <1>3 DEF Linking, Freers, InLock, Chunks
<1>11. Keeping(at, L)' BY <1>1, <1>2, <1>3 DEF Linking, Keeping, InLock, Chunks
<1>12. Reaching(at, L)' BY <1>1, <1>2, <1>3 DEF Linking, Reaching, Growing
<1>13. Linking(at, L)' BY <1>1, <1>3, <1>9, <1>10, <1>11, <1>12 DEF Linking
<1>14. QED BY <1>6, <1>7, <1>8, <1>13 DEF IInv

(* The cell that is taken points nowhere and is not on the path.            *)
LEMMA AllocateChunkIInv ==
  ASSUME IInv, NEW t \in Threads, AllocateChunk(t)
  PROVE  IInv'
<1>0. PICK L \in Nat : \E at \in [0 .. L -> Places] : Linking(at, L) BY DEF IInv
<1>1. PICK at \in [0 .. L -> Places] : Linking(at, L) BY <1>0
<1>2. /\ pc[t] = "lock" /\ pc'[t] = "walk" /\ ~lock
      /\ \A u \in Threads : u # t => pc'[u] = pc[u]
  BY DEF IInv, TypeOK, AllocateChunk, Goto
<1>3. UNCHANGED <<n, lock, want, place, chunk>> BY DEF AllocateChunk
<1>4. chunk[t] \in 0 .. L /\ place[t] = at[chunk[t]] /\ chunk[t] * ChunkSize <= want[t]
      /\ want[t] < MaxN
  BY <1>1, <1>2 DEF Linking, Growers, Growing
<1>5. \A u \in Threads : ~InLock(u) BY <1>2 DEF IInv, Locking
<1>6. held = Chunks(at, 1, L) BY <1>1, <1>5 DEF Linking, Keeping
<1>7. Locking' BY <1>2, <1>3 DEF IInv, Locking, Growing, Freeing, InLock
<1>8. CASE ptr[place[t]] # Null
  <2>1. UNCHANGED <<ptr, held, returned, dirty>> BY <1>8 DEF AllocateChunk, cellVars
  <2>2. TypeOK' BY <1>3, <2>1 DEF IInv, TypeOK, AllocateChunk, Goto
  <2>3. Store' BY <2>1 DEF IInv, Store
  <2>4. chunk[t] # L BY <1>1, <1>4, <1>8 DEF Linking, Path
  <2>5. Growers(at, L)' BY <1>1, <1>2, <1>3, <1>4, <2>4 DEF Linking, Growers, Growing
  <2>6. Freers(at, L)' BY <1>2, <1>5 DEF Freers, InLock
  <2>7. Keeping(at, L)' BY <1>6, <2>1 DEF Keeping, Chunks
  <2>8. Reaching(at, L)' BY <1>1, <1>2, <1>3 DEF Linking, Reaching, Growing
  <2>9. Linking(at, L)' BY <1>1, <2>1, <2>5, <2>6, <2>7, <2>8 DEF Linking
  <2>10. QED BY <1>7, <2>2, <2>3, <2>9 DEF IInv
<1>9. CASE ptr[place[t]] = Null
  <2>1. PICK c \in Cell : Take(c) /\ ptr' = [ptr EXCEPT ![place[t]] = c]
    BY <1>9 DEF AllocateChunk
  <2>2. /\ c \notin held \cup returned \cup dirty
        /\ held' = held \cup {c} /\ dirty' = dirty \cup {c} /\ returned' = returned
    BY <2>1 DEF Take
  <2>3. chunk[t] = L /\ place[t] = at[L] BY <1>1, <1>4, <1>9, LinkFacts
  <2>4. ptr[c] = Null /\ c \notin held BY <2>2 DEF IInv, Store
  <2>5. \A k \in 0 .. L : at[k] # c
    <3>1. \A k \in 1 .. L : at[k] # c BY <1>6, <2>4 DEF Chunks
    <3>2. at[0] # c BY <1>1, DynamicAssumption DEF Linking, Path
    <3>3. QED BY <3>1, <3>2
  <2> DEFINE M == L + 1
             an == [k \in 0 .. M |-> IF k = M THEN c ELSE at[k]]
  <2>6. /\ M \in Nat /\ an \in [0 .. M -> Places] /\ an[M] = c /\ M - 1 = L /\ M # 0
        /\ \A k \in 0 .. L : k \in 0 .. M /\ k # M /\ an[k] = at[k]
        /\ \A k \in 0 .. M : k = M \/ k \in 0 .. L
    BY DEF Places
  <2>7. M = L + 1 OBVIOUS
  <2> HIDE DEF M, an
  <2>8. \A p \in Places : ptr'[p] = IF p = at[L] THEN c ELSE ptr[p]
    BY <2>1, <2>3 DEF IInv, TypeOK
  <2>9. Path(ptr, an, M)'
    <3>1. an[0] = Head BY <1>1, <2>6 DEF Linking, Path
    <3>2. ptr'[an[M]] = Null BY <2>4, <2>5, <2>6, <2>8 DEF Places
    <3>3. ASSUME NEW k \in 0 .. M - 1 PROVE ptr'[an[k]] = an[k + 1]
      <4>1. k \in 0 .. L BY <2>6, <3>3
      <4>2. CASE k = L BY <2>6, <2>7, <2>8, <4>1, <4>2
      <4>3. CASE k # L
        <5>1. k \in 0 .. L - 1 /\ k + 1 \in 0 .. L /\ L \in 0 .. L BY <4>1, <4>3
        <5>2. ptr[at[k]] = at[k + 1] /\ at[k] # at[L] BY <1>1, <4>3, <4>1, <5>1 DEF Linking, Path
        <5>3. QED BY <2>6, <2>8, <4>1, <5>1, <5>2
      <4>4. QED BY <4>2, <4>3
    <3>4. ASSUME NEW j \in 0 .. M, NEW k \in 0 .. M, an[j] = an[k] PROVE j = k
      BY <1>1, <2>5, <2>6, <3>4 DEF Linking, Path
    <3>5. QED BY <3>1, <3>2, <3>3, <3>4 DEF Path
  <2>10. TypeOK'
    <3>1. ptr' \in [Places -> Cell \cup {Null}] BY <2>1 DEF IInv, TypeOK
    <3>2. QED BY <1>3, <3>1 DEF IInv, TypeOK, AllocateChunk, Goto
  <2>11. Store'
    <3>1. at[L] = Head \/ at[L] \in held
      <4>1. L = 0 \/ L \in 1 .. L OBVIOUS
      <4>2. QED BY <1>1, <1>6, <4>1 DEF Linking, Path, Chunks
    <3>2. \A d \in Cell \ dirty' : ptr'[d] = Null
      BY <2>2, <2>8, <3>1, DynamicAssumption DEF IInv, Store, Places
    <3>3. QED BY <2>2, <3>2 DEF IInv, Store
  <2>12. Growers(an, M)'
    <3>1. SUFFICES ASSUME NEW u \in Threads, Growing(u)'
          PROVE  /\ chunk[u] \in 0 .. M /\ place[u] = an[chunk[u]]
                 /\ chunk[u] * ChunkSize <= want[u] /\ want[u] < MaxN
                 /\ pc'[u] = "walk" => chunk[u] < M
      BY <1>3 DEF Growers
    <3>2. chunk[u] \in 0 .. L /\ place[u] = at[chunk[u]] /\ chunk[u] * ChunkSize <= want[u]
          /\ want[u] < MaxN
      BY <1>1, <1>2, <1>4, <3>1 DEF Linking, Growers, Growing
    <3>3. chunk[u] < M BY <2>7, <3>2
    <3>4. QED BY <2>6, <3>2, <3>3
  <2>13. Freers(an, M)' BY <1>2, <1>5 DEF Freers, InLock
  <2>14. held' = Chunks(an, 1, M)
    <3>1. \A k : k \in 1 .. M <=> k = M \/ k \in 1 .. L BY <2>7
    <3>2. \A k \in 1 .. L : an[k] = at[k] BY <2>6
    <3>3. QED BY <1>6, <2>2, <2>6, <3>1, <3>2 DEF Chunks
  <2>15. Keeping(an, M)' BY <2>14 DEF Keeping, Chunks
  <2>16. Reaching(an, M)'
    <3>1. L * ChunkSize <= M * ChunkSize /\ L * ChunkSize \in Nat /\ M * ChunkSize \in Nat
      BY <2>6, <2>7, Monotone, DynamicAssumption
    <3>2. n \in Nat BY DynamicAssumption DEF IInv, TypeOK
    <3>3. n <= L * ChunkSize => n <= M * ChunkSize BY <3>1, <3>2
    <3>4. QED BY <1>1, <1>2, <1>3, <3>3 DEF Linking, Reaching, Growing
  <2>17. Linking(an, M)' BY <2>9, <2>12, <2>13, <2>15, <2>16 DEF Linking
  <2>18. QED BY <1>7, <2>6, <2>10, <2>11, <2>17 DEF IInv
<1>10. QED BY <1>8, <1>9

LEMMA DeactivateIInv ==
  ASSUME IInv, NEW t \in Threads, Deactivate(t)
  PROVE  IInv'
<1>0. PICK L \in Nat : \E at \in [0 .. L -> Places] : Linking(at, L) BY DEF IInv
<1>1. PICK at \in [0 .. L -> Places] : Linking(at, L) BY <1>0
<1>2. /\ pc[t] = "idle" /\ pc'[t] = "delock" /\ \A u \in Threads : ~Growing(u)
      /\ \A u \in Threads : u # t => pc'[u] = pc[u]
  BY DEF IInv, TypeOK, Deactivate, Goto, MayFree
<1>3. UNCHANGED <<n, ptr, lock, want, place, chunk, held, returned, dirty>>
  BY DEF Deactivate, cellVars, node
<1>4. TypeOK' BY <1>3 DEF IInv, TypeOK, Deactivate, Goto
<1>5. Store' BY <1>3 DEF IInv, Store
<1>6. Locking' BY <1>2, <1>3 DEF IInv, Locking, Growing, Freeing, InLock
<1>7. Growers(at, L)' BY <1>2 DEF Growers, Growing
<1>8. Freers(at, L)' BY <1>1, <1>2, <1>3 DEF Linking, Freers, InLock, Chunks
<1>9. Keeping(at, L)' BY <1>1, <1>2, <1>3 DEF Linking, Keeping, InLock, Chunks
<1>10. Reaching(at, L)' BY <1>1, <1>2, <1>3 DEF Linking, Reaching, Growing
<1>11. Linking(at, L)' BY <1>1, <1>3, <1>7, <1>8, <1>9, <1>10 DEF Linking
<1>12. QED BY <1>4, <1>5, <1>6, <1>11 DEF IInv

LEMMA DeactivateLockIInv ==
  ASSUME IInv, NEW t \in Threads, DeactivateLock(t)
  PROVE  IInv'
<1>0. PICK L \in Nat : \E at \in [0 .. L -> Places] : Linking(at, L) BY DEF IInv
<1>1. PICK at \in [0 .. L -> Places] : Linking(at, L) BY <1>0
<1>2. /\ pc[t] = "delock" /\ pc'[t] = "free" /\ ~lock /\ lock' = TRUE /\ n' = 0
      /\ \A u \in Threads : u # t => pc'[u] = pc[u]
      /\ \A u \in Threads : ~InLock(u) /\ ~Growing(u)
      /\ place[t] = Head
  BY DEF IInv, TypeOK, Locking, DeactivateLock, Goto, Freeing
<1>3. UNCHANGED <<ptr, want, place, chunk, held, returned, dirty>>
  BY DEF DeactivateLock, cellVars
<1>4. TypeOK' BY <1>2, <1>3, DynamicAssumption DEF IInv, TypeOK, DeactivateLock, Goto
<1>5. Store' BY <1>3 DEF IInv, Store
<1>6. Locking' BY <1>2, <1>3 DEF IInv, Locking, Growing, Freeing, InLock
<1>7. Growers(at, L)' BY <1>2 DEF Growers, Growing
<1>8. Freers(at, L)'
  <2>1. held = Chunks(at, 0 + 1, L) BY <1>1, <1>2 DEF Linking, Keeping
  <2>2. 0 \in 0 .. L /\ place[t] = at[0] BY <1>1, <1>2 DEF Linking, Path
  <2>3. QED BY <1>2, <1>3, <2>1, <2>2 DEF Freers, InLock, Chunks
<1>9. Keeping(at, L)' BY <1>2 DEF Keeping, InLock
<1>10. Reaching(at, L)'
  <2>1. 0 <= L * ChunkSize BY DynamicAssumption
  <2>2. QED BY <1>2, <2>1 DEF Reaching
<1>11. Linking(at, L)' BY <1>1, <1>3, <1>7, <1>8, <1>9, <1>10 DEF Linking
<1>12. QED BY <1>4, <1>5, <1>6, <1>11 DEF IInv

LEMMA FreeChunkIInv ==
  ASSUME IInv, NEW t \in Threads, FreeChunk(t)
  PROVE  IInv'
<1>0. PICK L \in Nat : \E at \in [0 .. L -> Places] : Linking(at, L) BY DEF IInv
<1>1. PICK at \in [0 .. L -> Places] : Linking(at, L) BY <1>0
<1>2. /\ pc[t] = "free" /\ lock /\ n = 0 /\ InLock(t)
      /\ \A u \in Threads : u # t => ~InLock(u)
      /\ \A u \in Threads : ~Growing(u)
  BY DEF IInv, Locking, FreeChunk, InLock, Freeing
<1>3. UNCHANGED <<n, ptr, lock, want, chunk>> BY DEF FreeChunk, node
<1>4. PICK j \in 0 .. L : place[t] = at[j] /\ held = Chunks(at, j + 1, L)
  BY <1>1, <1>2 DEF Linking, Freers
<1>5. CASE ptr[place[t]] = Null
  <2>1. /\ pc' = [pc EXCEPT ![t] = "unlink"]
        /\ UNCHANGED <<place, held, returned, dirty>>
    BY <1>5 DEF FreeChunk, cellVars, Goto
  <2>2. /\ pc'[t] = "unlink" /\ \A u \in Threads : u # t => pc'[u] = pc[u]
    BY <2>1 DEF IInv, TypeOK
  <2>3. j = L BY <1>1, <1>4, <1>5, LinkFacts
  <2>4. TypeOK' BY <1>3, <2>1 DEF IInv, TypeOK
  <2>5. Store' BY <1>3, <2>1 DEF IInv, Store
  <2>6. Locking' BY <1>2, <1>3, <2>1, <2>2 DEF IInv, Locking, Growing, Freeing, InLock
  <2>7. Growers(at, L)' BY <1>2, <2>2 DEF Growers, Growing
  <2>8. Freers(at, L)' BY <1>2, <1>4, <2>1, <2>2, <2>3 DEF Freers, InLock, Chunks
  <2>9. Keeping(at, L)' BY <2>2 DEF Keeping, InLock
  <2>10. Reaching(at, L)' BY <1>1, <1>2, <1>3 DEF Linking, Reaching
  <2>11. Linking(at, L)' BY <1>1, <1>3, <2>7, <2>8, <2>9, <2>10 DEF Linking
  <2>12. QED BY <2>4, <2>5, <2>6, <2>11 DEF IInv
<1>6. CASE ptr[place[t]] # Null
  <2>1. /\ pc' = pc /\ place' = [place EXCEPT ![t] = ptr[place[t]]]
        /\ held' = held \ {ptr[place[t]]} /\ returned' = returned \cup {ptr[place[t]]}
        /\ dirty' = dirty /\ ptr[place[t]] \in held
    BY <1>6 DEF FreeChunk, Give
  <2>2. j < L /\ ptr[place[t]] = at[j + 1] /\ at[j + 1] \in Cell /\ j + 1 \in 0 .. L
    <3>1. j < L BY <1>1, <1>4, <1>6, LinkFacts
    <3>2. QED BY <1>1, <1>4, <3>1, LinkFacts
  <2>3. place'[t] = at[j + 1] /\ \A u \in Threads : u # t => place'[u] = place[u]
    BY <2>1, <2>2 DEF IInv, TypeOK
  <2>4. held' = Chunks(at, (j + 1) + 1, L)
    <3>1. \A k \in j + 1 .. L : at[k] = at[j + 1] => k = j + 1
      BY <1>1, <2>2 DEF Linking, Path
    <3>2. \A k : k \in (j + 1) + 1 .. L <=> k \in j + 1 .. L /\ k # j + 1 BY <2>2
    <3>3. QED BY <1>4, <2>1, <2>2, <3>1, <3>2 DEF Chunks
  <2>5. TypeOK' BY <1>3, <2>1, <2>2 DEF IInv, TypeOK, Places
  <2>6. Store' BY <1>3, <2>1, <2>2 DEF IInv, Store
  <2>7. Locking' BY <1>2, <1>3, <2>1, <2>3 DEF IInv, Locking, Growing, Freeing, InLock
  <2>8. Growers(at, L)' BY <1>2, <2>1 DEF Growers, Growing
  <2>9. Freers(at, L)' BY <1>2, <2>1, <2>2, <2>3, <2>4 DEF Freers, InLock, Chunks
  <2>10. Keeping(at, L)' BY <1>2, <2>1 DEF Keeping, InLock
  <2>11. Reaching(at, L)' BY <1>1, <1>2, <1>3 DEF Linking, Reaching
  <2>12. Linking(at, L)' BY <1>1, <1>3, <2>8, <2>9, <2>10, <2>11 DEF Linking
  <2>13. QED BY <2>2, <2>5, <2>6, <2>7, <2>12 DEF IInv
<1>7. QED BY <1>5, <1>6

(* What was the path is all given back; the path is now the empty one.      *)
LEMMA UnlinkIInv ==
  ASSUME IInv, NEW t \in Threads, Unlink(t)
  PROVE  IInv'
<1>0. PICK L \in Nat : \E at \in [0 .. L -> Places] : Linking(at, L) BY DEF IInv
<1>1. PICK at \in [0 .. L -> Places] : Linking(at, L) BY <1>0
<1>2. /\ pc[t] = "unlink" /\ lock /\ n = 0 /\ InLock(t)
      /\ \A u \in Threads : u # t => ~InLock(u)
      /\ \A u \in Threads : ~Growing(u)
  BY DEF IInv, Locking, Unlink, InLock, Freeing
<1>3. /\ UNCHANGED <<n, held, returned, dirty>> /\ lock' = FALSE
      /\ ptr' = [ptr EXCEPT ![Head] = Null]
  BY DEF Unlink, cellVars
<1>4. /\ pc'[t] = "idle" /\ place'[t] = Head /\ chunk'[t] = 0
      /\ \A u \in Threads : u # t => /\ pc'[u] = pc[u] /\ want'[u] = want[u]
                                     /\ place'[u] = place[u] /\ chunk'[u] = chunk[u]
  BY DEF IInv, TypeOK, Unlink, Goto, Return
<1>5. held = {}
  <2>1. held = Chunks(at, L + 1, L) BY <1>1, <1>2 DEF Linking, Freers
  <2>2. QED BY <2>1 DEF Chunks
<1>6. TypeOK'
  <2>1. 0 \in 0 .. MaxN /\ Head \in Places BY DynamicAssumption DEF Places
  <2>2. QED BY <1>3, <2>1 DEF IInv, TypeOK, Unlink, Goto, Return
<1>7. Store' BY <1>3, DynamicAssumption DEF IInv, Store, TypeOK, Places
<1>8. Locking' BY <1>2, <1>3, <1>4 DEF IInv, Locking, Growing, Freeing, InLock
<1> DEFINE an == [k \in 0 .. 0 |-> Head]
<1>9. an \in [0 .. 0 -> Places] /\ an[0] = Head BY DEF Places
<1> HIDE DEF an
<1>10. Path(ptr, an, 0)' BY <1>3, <1>9 DEF Path, IInv, TypeOK, Places
<1>11. Growers(an, 0)' BY <1>2, <1>4 DEF Growers, Growing
<1>12. Freers(an, 0)' BY <1>2, <1>4 DEF Freers, InLock
<1>13. Keeping(an, 0)' BY <1>3, <1>5 DEF Keeping, Chunks
<1>14. Reaching(an, 0)'
  <2>1. 0 <= 0 * ChunkSize BY DynamicAssumption
  <2>2. QED BY <1>2, <1>3, <2>1 DEF Reaching
<1>15. Linking(an, 0)' BY <1>10, <1>11, <1>12, <1>13, <1>14 DEF Linking
<1>16. QED BY <1>6, <1>7, <1>8, <1>9, <1>15 DEF IInv

(* The path holds none of the cells that are cleaned.                       *)
LEMMA CollectIInv ==
  ASSUME IInv, Collect
  PROVE  IInv'
<1>0. PICK L \in Nat : \E at \in [0 .. L -> Places] : Linking(at, L) BY DEF IInv
<1>1. PICK at \in [0 .. L -> Places] : Linking(at, L) BY <1>0
<1>2. /\ \A u \in Threads : pc[u] = "idle"
      /\ UNCHANGED <<n, lock, pc, want, place, chunk, held>>
      /\ returned' = {} /\ dirty' = dirty \ returned
      /\ \A p \in Places : ptr'[p] = IF p \in returned THEN Null ELSE ptr[p]
  BY DEF Collect, Clean, thread
<1>3. held = Chunks(at, 1, L) BY <1>1, <1>2 DEF Linking, Keeping, InLock
<1>4. \A k \in 0 .. L : at[k] \notin returned
  <2>1. \A k \in 1 .. L : at[k] \in held BY <1>3 DEF Chunks
  <2>2. at[0] \notin returned BY <1>1, DynamicAssumption DEF Linking, Path, IInv, Store
  <2>3. QED BY <2>1, <2>2 DEF IInv, Store
<1>5. \A k \in 0 .. L : ptr'[at[k]] = ptr[at[k]] BY <1>2, <1>4
<1>6. TypeOK' BY <1>2 DEF IInv, TypeOK, Collect
<1>7. Store' BY <1>2 DEF IInv, Store, Places
<1>8. Locking' BY <1>2 DEF IInv, Locking, Growing, Freeing, InLock
<1>9. Path(ptr, at, L)'
  <2>1. L \in 0 .. L /\ \A k \in 0 .. L - 1 : k \in 0 .. L OBVIOUS
  <2>2. QED BY <1>1, <1>5, <2>1 DEF Linking, Path
<1>10. Growers(at, L)' BY <1>2 DEF Growers, Growing
<1>11. Freers(at, L)' BY <1>2 DEF Freers, InLock
<1>12. Keeping(at, L)' BY <1>2, <1>3 DEF Keeping, Chunks
<1>13. Reaching(at, L)' BY <1>1, <1>2 DEF Linking, Reaching, Growing
<1>14. Linking(at, L)' BY <1>9, <1>10, <1>11, <1>12, <1>13 DEF Linking
<1>15. QED BY <1>6, <1>7, <1>8, <1>14 DEF IInv

LEMMA StutterIInv ==
  ASSUME IInv, UNCHANGED vars
  PROVE  IInv'
<1>0. PICK L \in Nat : \E at \in [0 .. L -> Places] : Linking(at, L) BY DEF IInv
<1>1. PICK at \in [0 .. L -> Places] : Linking(at, L) BY <1>0
<1>2. UNCHANGED <<n, ptr, lock, pc, want, place, chunk, held, returned, dirty>>
  BY DEF vars, node, thread, cellVars
<1>3. TypeOK' /\ Store' BY <1>2 DEF IInv, TypeOK, Store
<1>4. Locking' BY <1>2 DEF IInv, Locking, Growing, Freeing, InLock
<1>5. Growers(at, L)' BY <1>1, <1>2 DEF Linking, Growers, Growing
<1>6. Freers(at, L)' BY <1>1, <1>2 DEF Linking, Freers, InLock, Chunks
<1>7. Keeping(at, L)' BY <1>1, <1>2 DEF Linking, Keeping, InLock, Chunks
<1>8. Reaching(at, L)' BY <1>1, <1>2 DEF Linking, Reaching, Growing
<1>9. Linking(at, L)' BY <1>1, <1>2, <1>5, <1>6, <1>7, <1>8 DEF Linking
<1>10. QED BY <1>3, <1>4, <1>9 DEF IInv

LEMMA NextIInv ==
  ASSUME IInv, [Next]_vars
  PROVE  IInv'
<1>1. CASE UNCHANGED vars BY <1>1, StutterIInv
<1>2. CASE Collect BY <1>2, CollectIInv
<1>3. ASSUME NEW t \in Threads, NEW i \in 0 .. MaxN - 1, Activate(t, i) PROVE IInv'
  BY <1>3, ActivateIInv
<1>4. ASSUME NEW t \in Threads, Append(t) PROVE IInv'
  BY <1>4, AppendActivate, ActivateIInv
<1>5. ASSUME NEW t \in Threads, Deactivate(t) PROVE IInv' BY <1>5, DeactivateIInv
<1>6. ASSUME NEW t \in Threads, Continue(t) PROVE IInv'
  BY <1>6, TestChunkIInv, AllocateChunkIInv, FoundIInv, NextChunkIInv, DeactivateLockIInv,
     FreeChunkIInv, UnlinkIInv DEF Continue
<1>7. QED BY <1>1, <1>2, <1>3, <1>4, <1>5, <1>6 DEF Next

-----------------------------------------------------------------------------
(* The theorems                                                             *)

LEMMA Inductive == Spec => []IInv
<1>1. Init => IInv BY InitIInv
<1>2. IInv /\ [Next]_vars => IInv' BY NextIInv
<1>3. QED BY <1>1, <1>2, PTL DEF Spec

(* No walk along the chunks ever follows a null pointer: a thread goes on   *)
(* only from a place whose next chunk it has seen (Dynamic_allocate,        *)
(* Dynamic_activate and Dynamic_deactivate).                                *)
THEOREM WalksOnPlaces == Spec => []TypeOK
<1>1. IInv => TypeOK BY DEF IInv
<1>2. QED BY <1>1, Inductive, PTL

LEMMA IInvChunks == IInv => ChunksAllocated
<1>1. SUFFICES ASSUME IInv, Idle, NEW i \in 0 .. n - 1
               PROVE  Chain[i \div ChunkSize] # Null
  BY DEF ChunksAllocated
<1>2. PICK L \in Nat : \E at \in [0 .. L -> Places] : Linking(at, L) BY <1>1 DEF IInv
<1>3. PICK at \in [0 .. L -> Places] : Linking(at, L) BY <1>2
<1>4. n <= L * ChunkSize BY <1>1, <1>3 DEF Linking, Reaching, Growing, Idle
<1>5. i \in Nat /\ i < L * ChunkSize
  <2>1. n \in Nat /\ L * ChunkSize \in Nat BY <1>1, DynamicAssumption DEF IInv, TypeOK
  <2>2. QED BY <1>1, <1>4, <2>1
<1>6. i \div ChunkSize \in 0 .. L - 1 BY <1>5, Within, DynamicAssumption
<1> DEFINE k == i \div ChunkSize
<1> HIDE DEF k
<1>7. k \in 0 .. L - 1 BY <1>6 DEF k
<1>8. /\ L <= Cardinality(Cell) /\ Cardinality(Cell) \in Nat
      /\ \A j \in 0 .. Cardinality(Cell) : Chain[j] = IF j < L THEN at[j + 1] ELSE Null
  BY <1>1, <1>3, PathChain DEF IInv, TypeOK, Linking
<1>9. Chain[k] = at[k + 1] BY <1>7, <1>8
<1>10. at[k + 1] \in Cell
  <2>1. k \in 0 .. L /\ k < L BY <1>7
  <2>2. k < L => ptr[at[k]] = at[k + 1] /\ at[k + 1] \in Cell /\ k + 1 \in 0 .. L
    BY <1>1, <1>3, <2>1, LinkFacts
  <2>3. QED BY <2>1, <2>2
<1>11. QED BY <1>9, <1>10, DynamicAssumption DEF k

(* When no operation is under way every element below the length has its    *)
(* chunk, whatever activations and appends raced for it.                    *)
THEOREM ElementsHaveChunks == Spec => []ChunksAllocated
BY Inductive, IInvChunks, PTL

LEMMA IInvNoChunkLost == IInv => NoChunkLost
<1>1. SUFFICES ASSUME IInv, Idle
               PROVE  /\ held = Linked
                      /\ \A j, k \in DOMAIN Chain :
                           j # k /\ Chain[j] # Null => Chain[j] # Chain[k]
  BY DEF NoChunkLost
<1>2. PICK L \in Nat : \E at \in [0 .. L -> Places] : Linking(at, L) BY <1>1 DEF IInv
<1>3. PICK at \in [0 .. L -> Places] : Linking(at, L) BY <1>2
<1> DEFINE C == Cardinality(Cell)
<1>4. /\ L <= C /\ C \in Nat /\ DOMAIN Chain = 0 .. C
      /\ \A j \in 0 .. C : Chain[j] = IF j < L THEN at[j + 1] ELSE Null
  BY <1>1, <1>3, PathChain DEF IInv, TypeOK, Linking
<1> HIDE DEF C
<1>5. \A j \in 0 .. L - 1 : at[j + 1] \in Cell /\ at[j + 1] # Null
  <2>1. TAKE j \in 0 .. L - 1
  <2>2. j \in 0 .. L /\ j < L OBVIOUS
  <2>3. j < L => ptr[at[j]] = at[j + 1] /\ at[j + 1] \in Cell /\ j + 1 \in 0 .. L
    BY <1>1, <1>3, <2>2, LinkFacts
  <2>4. QED BY <2>2, <2>3, DynamicAssumption
<1>6. held = Chunks(at, 1, L) BY <1>1, <1>3 DEF Linking, Keeping, Idle, InLock
<1>7. held = Linked
  <2>1. ASSUME NEW c \in held PROVE c \in Linked
    <3>1. PICK k \in 1 .. L : c = at[k] BY <1>6, <2>1 DEF Chunks
    <3>2. k - 1 \in 0 .. L - 1 /\ (k - 1) + 1 = k /\ k - 1 \in 0 .. C /\ k - 1 < L BY <1>4, <3>1
    <3>3. Chain[k - 1] = c /\ c # Null BY <1>4, <1>5, <3>1, <3>2
    <3>4. QED BY <1>4, <3>2, <3>3 DEF Linked
  <2>2. ASSUME NEW c \in Linked PROVE c \in held
    <3>1. PICK j \in 0 .. C : c = Chain[j] /\ c # Null BY <1>4, <2>2 DEF Linked
    <3>2. j < L /\ c = at[j + 1] BY <1>4, <3>1
    <3>3. j + 1 \in 1 .. L BY <3>1, <3>2
    <3>4. QED BY <1>6, <3>2, <3>3 DEF Chunks
  <2>3. QED BY <2>1, <2>2
<1>8. ASSUME NEW j \in 0 .. C, NEW k \in 0 .. C, j # k, Chain[j] # Null
      PROVE  Chain[j] # Chain[k]
  <2>1. j < L /\ Chain[j] = at[j + 1] BY <1>4, <1>8
  <2>2. j + 1 \in 0 .. L BY <1>8, <2>1
  <2>3. CASE ~(k < L) BY <1>4, <1>8, <2>3
  <2>4. CASE k < L
    <3>1. Chain[k] = at[k + 1] /\ k + 1 \in 0 .. L BY <1>4, <2>4
    <3>2. j + 1 # k + 1 BY <1>8
    <3>3. QED BY <1>3, <2>1, <2>2, <3>1, <3>2 DEF Linking, Path
  <2>5. QED BY <2>3, <2>4
<1>9. QED BY <1>4, <1>7, <1>8

(* When no operation is under way the list holds each of its chunks once    *)
(* and no other cell is allocated: racing appends, activations and          *)
(* deactivations neither lose a chunk nor link one twice.                   *)
THEOREM ChunksHeldOnce == Spec => []NoChunkLost
BY Inductive, IInvNoChunkLost, PTL

LEMMA EndStep ==
  ASSUME IInv, [Next]_vars, NEW t \in Threads, pc[t] = "walk", pc'[t] = "idle"
  PROVE  /\ ptr[place[t]] = Chain[want[t] \div ChunkSize]
         /\ ptr[place[t]] \in held
<1>1. Found(t)
  <2>1. pc' # pc OBVIOUS
  <2>2. CASE UNCHANGED vars BY <2>1, <2>2 DEF vars, thread
  <2>3. CASE Collect BY <2>1, <2>3 DEF Collect, thread
  <2>4. ASSUME NEW u \in Threads, NEW i \in 0 .. MaxN - 1, Activate(u, i) PROVE FALSE
    BY <2>4 DEF Activate, Goto, IInv, TypeOK
  <2>5. ASSUME NEW u \in Threads, Append(u) \/ Deactivate(u) PROVE FALSE
    BY <2>5 DEF Append, Deactivate, Goto, IInv, TypeOK
  <2>6. ASSUME NEW u \in Threads, Continue(u) PROVE Found(t)
    <3>1. u # t => pc'[t] = pc[t]
      BY <2>6 DEF Continue, TestChunk, AllocateChunk, Found, NextChunk, DeactivateLock,
                  FreeChunk, Unlink, Return, Goto, IInv, TypeOK
    <3>2. u = t BY <3>1
    <3>3. ~NextChunk(t) BY DEF NextChunk, Goto, IInv, TypeOK
    <3>4. QED BY <2>6, <3>2, <3>3 DEF Continue, TestChunk, AllocateChunk, DeactivateLock,
                                      FreeChunk, Unlink
  <2>7. QED BY <2>2, <2>3, <2>4, <2>5, <2>6 DEF Next
<1>2. PICK L \in Nat : \E at \in [0 .. L -> Places] : Linking(at, L) BY DEF IInv
<1>3. PICK at \in [0 .. L -> Places] : Linking(at, L) BY <1>2
<1>4. /\ chunk[t] \in 0 .. L /\ place[t] = at[chunk[t]] /\ chunk[t] < L
      /\ chunk[t] * ChunkSize <= want[t]
  BY <1>3 DEF Linking, Growers, Growing
<1>5. want[t] < (chunk[t] + 1) * ChunkSize BY <1>1 DEF Found, InChunk
<1>6. want[t] \div ChunkSize = chunk[t]
  <2>1. want[t] \in Nat /\ chunk[t] \in Nat BY <1>4, DynamicAssumption DEF IInv, TypeOK
  <2> DEFINE w == want[t]
             k == chunk[t]
  <2>2. w \in Nat /\ k \in Nat /\ k * ChunkSize <= w /\ w < (k + 1) * ChunkSize
    BY <1>4, <1>5, <2>1
  <2> HIDE DEF w, k
  <2>3. w \div ChunkSize = k BY <2>2, Block, DynamicAssumption
  <2>4. QED BY <2>3 DEF w, k
<1>7. ptr[place[t]] = at[chunk[t] + 1] BY <1>3, <1>4, LinkFacts
<1>8. /\ L <= Cardinality(Cell) /\ Cardinality(Cell) \in Nat
      /\ \A j \in 0 .. Cardinality(Cell) : Chain[j] = IF j < L THEN at[j + 1] ELSE Null
  BY <1>3, PathChain DEF IInv, TypeOK, Linking
<1>9. Chain[chunk[t]] = at[chunk[t] + 1] BY <1>4, <1>8
<1>10. held = Chunks(at, 1, L)
  <2>1. Growing(t) BY DEF Growing
  <2>2. \A u \in Threads : ~InLock(u) BY <2>1 DEF IInv, Locking, Freeing, InLock
  <2>3. QED BY <1>3, <2>2 DEF Linking, Keeping
<1>11. chunk[t] + 1 \in 1 .. L BY <1>4
<1>12. QED BY <1>6, <1>7, <1>9, <1>10, <1>11 DEF Chunks

(* An append or activation ends at the chunk of its element, which the list *)
(* holds, whoever allocated the chunks on the way.                          *)
THEOREM OperationsEndInPlace == Spec => EndsInPlace
<1> DEFINE A == \A t \in Threads : pc[t] = "walk" /\ pc'[t] = "idle" =>
                  /\ ptr[place[t]] = Chain[want[t] \div ChunkSize]
                  /\ ptr[place[t]] \in held
<1>1. IInv /\ [Next]_vars => A BY EndStep
<1> HIDE DEF A
<1>2. IInv /\ [Next]_vars => [A]_vars BY <1>1
<1>3. Spec => [][A]_vars BY <1>2, Inductive, PTL DEF Spec
<1>4. QED BY <1>3 DEF A, EndsInPlace

(* A deactivation never gives back a cell twice: the next chunk it sees is  *)
(* one that the list holds, hence it goes on to the end of the chain.       *)
THEOREM ChunksFreedOnce ==
  Spec => [](\A t \in Threads : pc[t] = "free" =>
               ptr[place[t]] = Null \/ ptr[place[t]] \in held)
<1>1. ASSUME IInv, NEW t \in Threads, pc[t] = "free"
      PROVE  ptr[place[t]] = Null \/ ptr[place[t]] \in held
  <2>1. PICK L \in Nat : \E at \in [0 .. L -> Places] : Linking(at, L) BY <1>1 DEF IInv
  <2>2. PICK at \in [0 .. L -> Places] : Linking(at, L) BY <2>1
  <2>3. PICK j \in 0 .. L : place[t] = at[j] /\ held = Chunks(at, j + 1, L)
    BY <1>1, <2>2 DEF Linking, Freers, InLock
  <2>4. CASE j = L BY <1>1, <2>2, <2>3, <2>4, LinkFacts
  <2>5. CASE j # L
    <3>1. j < L /\ j + 1 \in j + 1 .. L BY <2>3, <2>5
    <3>2. ptr[place[t]] = at[j + 1] BY <1>1, <2>2, <2>3, <3>1, LinkFacts
    <3>3. QED BY <2>3, <3>1, <3>2 DEF Chunks
  <2>6. QED BY <2>4, <2>5
<1>2. IInv => \A t \in Threads : pc[t] = "free" =>
                ptr[place[t]] = Null \/ ptr[place[t]] \in held
  BY <1>1
<1>3. QED BY <1>2, Inductive, PTL
=============================================================================
