------------------------ MODULE KernelLoops_proofs ------------------------
(***************************************************************************)
(* The parallel loops of a kernel run their body for what they should, and *)
(* add up, for every shape of the field, every range and block, any number *)
(* of threads, and an int of any width.                                    *)
(*                                                                         *)
(* How a loop is cut is arithmetic, and comes first: the tasks of a loop   *)
(* over indices are the parts i of a cut of its range (RangeIsCut,         *)
(* ThreadsIsCut, MeshIsCut: this is where BoundsFit is needed), those of a *)
(* struct-for cut the elements of its list, and the list, as it is rebuilt,*)
(* holds every cell of every active block once (LeafLists).  So the tasks  *)
(* are disjoint, lie within the loop, and cover it (FlatTasks,             *)
(* StructTasksOf).                                                         *)
(*                                                                         *)
(* From there on an index is in one of three places: in a task nobody has  *)
(* picked, in the hand of a thread, or visited.  Sharing says that these   *)
(* are disjoint and that together they hold all the loop has to visit;     *)
(* the step of a thread moves one index from its hand to the visited ones. *)
(***************************************************************************)
EXTENDS KernelLoops, FiniteSetTheorems, WellFoundedInduction, TLAPS

----------------------------------------------------------------------------
(* Induction *)

(* A set of naturals that is not empty has a least element.                 *)
LEMMA NatMin ==
  ASSUME NEW T, T \subseteq Nat, T # {}
  PROVE  \E x \in T : \A y \in T : ~(y < x)
<1> DEFINE R == {ss \in Nat \X Nat : ss[1] < ss[2]}
<1>1. OpToRel(<, Nat) = R BY DEF OpToRel
<1>2. IsWellFoundedOn(R, Nat) BY <1>1, NatLessThanWellFounded
<1> HIDE DEF R
<1>3. \E x \in T : \A y \in T : ~(<<y, x>> \in R) BY <1>2, WFMin
<1>4. \A x, y \in Nat : x < y => <<x, y>> \in R BY DEF R
<1>5. QED BY <1>3, <1>4

(* Induction, with the set of the naturals that have the property.          *)
LEMMA NatInd ==
  ASSUME NEW P, 0 \in P, \A n \in Nat : n \in P => n + 1 \in P
  PROVE  Nat \subseteq P
<1>1. SUFFICES ASSUME Nat \ P # {} PROVE FALSE OBVIOUS
<1>2. PICK x \in Nat \ P : \A y \in Nat \ P : ~(y < x) BY <1>1, NatMin
<1>3. x # 0 BY <1>2
<1>4. x - 1 \in Nat /\ x - 1 < x /\ x = (x - 1) + 1 BY <1>3
<1>5. x - 1 \in P BY <1>2, <1>4
<1>6. QED BY <1>4, <1>5, <1>2

----------------------------------------------------------------------------
(* Sums over a finite set *)

Pick(s) == CHOOSE x \in s : TRUE

\* g[s] is the sum of h over s, for every s within D, as MapThenFoldSet has it.
SumOver(g, D, h) ==
  \A s \in SUBSET D : g[s] = IF s = {} THEN 0 ELSE h[Pick(s)] + g[s \ {Pick(s)}]

\* The same for the sets of at most n.
SumUpTo(g, D, h, n) ==
  \A s \in SUBSET D :
    Cardinality(s) <= n => g[s] = IF s = {} THEN 0 ELSE h[Pick(s)] + g[s \ {Pick(s)}]

SumFcn(g, D, h) ==
  g = [s \in SUBSET D |-> IF s = {} THEN 0 ELSE h[Pick(s)] + g[s \ {Pick(s)}]]

IntsOn(h, D) == \A d \in D : h[d] \in Int
Agree(h, k, D) == \A d \in D : h[d] = k[d]
Without(E, D, e) == e \in D /\ E = D \ {e}

LEMMA PickIn == ASSUME NEW s, s # {} PROVE Pick(s) \in s
BY DEF Pick

(* Induction on the size of the subsets of a finite set.                    *)
LEMMA SetInd ==
  ASSUME NEW D, IsFiniteSet(D), NEW P,
         \A s \in SUBSET D : (\A r \in SUBSET s : r # s => r \in P) => s \in P
  PROVE  SUBSET D \subseteq P
<1> DEFINE Q == {n \in Nat : \A s \in SUBSET D : Cardinality(s) <= n => s \in P}
<1>1. \A s \in SUBSET D : IsFiniteSet(s) /\ Cardinality(s) \in Nat
  BY FS_Subset, FS_CardinalityType
<1>2. \A s \in SUBSET D : \A r \in SUBSET s :
        r # s => r \in SUBSET D /\ Cardinality(r) < Cardinality(s)
  BY <1>1, FS_Subset
<1>3. 0 \in Q
  <2>1. SUFFICES ASSUME NEW s \in SUBSET D, Cardinality(s) <= 0 PROVE s \in P OBVIOUS
  <2>2. \A r \in SUBSET s : r = s BY <1>1, <1>2, <2>1
  <2>3. QED BY <2>2
<1>4. \A n \in Nat : n \in Q => n + 1 \in Q
  <2>1. SUFFICES ASSUME NEW n \in Nat, n \in Q, NEW s \in SUBSET D, Cardinality(s) <= n + 1
                 PROVE  s \in P
    OBVIOUS
  <2>2. \A r \in SUBSET s : r # s => r \in P
    <3>1. SUFFICES ASSUME NEW r \in SUBSET s, r # s PROVE r \in P OBVIOUS
    <3>2. r \in SUBSET D /\ Cardinality(r) \in Nat /\ Cardinality(r) < Cardinality(s)
          /\ Cardinality(s) \in Nat
      BY <1>1, <1>2, <3>1
    <3>3. Cardinality(r) <= n BY <2>1, <3>2
    <3>4. QED BY <2>1, <3>2, <3>3
  <2>3. QED BY <2>2
<1>5. Nat \subseteq Q
  <2> HIDE DEF Q
  <2>1. QED BY <1>3, <1>4, NatInd
<1>6. QED
  <2>1. SUFFICES ASSUME NEW s \in SUBSET D PROVE s \in P OBVIOUS
  <2>2. Cardinality(s) \in Q BY <1>1, <1>5
  <2>3. Cardinality(s) <= Cardinality(s) BY <1>1
  <2>4. QED BY <2>2, <2>3

LEMMA SumExists ==
  ASSUME NEW D, IsFiniteSet(D), NEW h
  PROVE  \E g : SumFcn(g, D, h)
<1> DEFINE Again(g) == [s \in SUBSET D |-> IF s = {} THEN 0 ELSE h[Pick(s)] + g[s \ {Pick(s)}]]
           P == {n \in Nat : \E g : g = [s \in SUBSET D |-> g[s]] /\ SumUpTo(g, D, h, n)}
<1>1. \A s \in SUBSET D : /\ IsFiniteSet(s) /\ Cardinality(s) \in Nat
                          /\ s # {} => /\ s \ {Pick(s)} \in SUBSET D
                                       /\ Cardinality(s \ {Pick(s)}) = Cardinality(s) - 1
  BY FS_Subset, FS_CardinalityType, FS_RemoveElement, PickIn
<1>2. 0 \in P
  <2> DEFINE g == [s \in SUBSET D |-> 0]
  <2>1. \A s \in SUBSET D : Cardinality(s) <= 0 => s = {}
    <3>1. SUFFICES ASSUME NEW s \in SUBSET D, Cardinality(s) <= 0 PROVE s = {} OBVIOUS
    <3>2. IsFiniteSet(s) /\ Cardinality(s) \in Nat BY <1>1
    <3>3. Cardinality(s) = 0 BY <3>1, <3>2
    <3>4. QED BY <3>2, <3>3, FS_EmptySet
  <2>2. SumUpTo(g, D, h, 0) BY <2>1 DEF SumUpTo
  <2>3. g = [s \in SUBSET D |-> g[s]] OBVIOUS
  <2> HIDE DEF g
  <2>4. QED BY <2>2, <2>3
<1>3. \A n \in Nat : n \in P => n + 1 \in P
  <2>1. SUFFICES ASSUME NEW n \in Nat, n \in P PROVE n + 1 \in P OBVIOUS
  <2>2. PICK g : SumUpTo(g, D, h, n) BY <2>1
  <2> DEFINE k == Again(g)
  <2>3. \A s \in SUBSET D : k[s] = IF s = {} THEN 0 ELSE h[Pick(s)] + g[s \ {Pick(s)}] OBVIOUS
  <2>4. k = [s \in SUBSET D |-> k[s]] OBVIOUS
  <2> HIDE DEF k
  <2>5. \A s \in SUBSET D : Cardinality(s) <= n => k[s] = g[s] BY <2>2, <2>3 DEF SumUpTo
  <2>6. \A s \in SUBSET D : s # {} /\ Cardinality(s) <= n + 1 =>
           k[s \ {Pick(s)}] = g[s \ {Pick(s)}]
    <3>1. SUFFICES ASSUME NEW s \in SUBSET D, s # {}, Cardinality(s) <= n + 1
                   PROVE  k[s \ {Pick(s)}] = g[s \ {Pick(s)}]
      OBVIOUS
    <3>2. s \ {Pick(s)} \in SUBSET D /\ Cardinality(s \ {Pick(s)}) <= n BY <1>1, <3>1
    <3>3. QED BY <2>5, <3>2
  <2>7. SumUpTo(k, D, h, n + 1) BY <2>3, <2>6 DEF SumUpTo
  <2>8. QED BY <2>4, <2>7
<1>4. Cardinality(D) \in P
  <2> HIDE DEF P
  <2>1. Nat \subseteq P BY <1>2, <1>3, NatInd
  <2>2. QED BY <2>1, FS_CardinalityType
<1>5. PICK g : g = [s \in SUBSET D |-> g[s]] /\ SumUpTo(g, D, h, Cardinality(D)) BY <1>4
<1>6. \A s \in SUBSET D : g[s] = IF s = {} THEN 0 ELSE h[Pick(s)] + g[s \ {Pick(s)}]
  BY <1>1, <1>5, FS_Subset DEF SumUpTo
<1>7. g = Again(g)
  <2> DEFINE k == Again(g)
  <2>1. k = [s \in SUBSET D |-> k[s]] OBVIOUS
  <2>2. \A s \in SUBSET D : k[s] = g[s] BY <1>6
  <2> HIDE DEF k
  <2>3. k = g BY <1>5, <2>1, <2>2
  <2>4. QED BY <2>3 DEF k
<1>8. QED BY <1>7 DEF SumFcn

(* It does not matter which element is taken off first.                     *)
LEMMA SumPick ==
  ASSUME NEW D, NEW h, NEW g, IsFiniteSet(D), IntsOn(h, D), SumOver(g, D, h)
  PROVE  \A s \in SUBSET D : g[s] \in Int /\ \A e \in s : g[s] = h[e] + g[s \ {e}]
<1> USE DEF IntsOn
<1> DEFINE P == {s \in SUBSET D : g[s] \in Int /\ \A e \in s : g[s] = h[e] + g[s \ {e}]}
<1>1. ASSUME NEW s \in SUBSET D, \A r \in SUBSET s : r # s => r \in P
      PROVE  s \in P
  <2>1. CASE s = {} BY <2>1 DEF SumOver
  <2>2. CASE s # {}
    <3> DEFINE x == Pick(s)
    <3>1. x \in s /\ g[s] = h[x] + g[s \ {x}] BY <2>2, PickIn DEF SumOver
    <3> HIDE DEF x
    <3>2. \A e \in s : g[s \ {e}] \in Int /\ h[e] \in Int
                       /\ \A d \in s \ {e} : g[s \ {e}] = h[d] + g[(s \ {e}) \ {d}]
      <4>1. SUFFICES ASSUME NEW e \in s
                     PROVE  g[s \ {e}] \in Int /\ h[e] \in Int
                            /\ \A d \in s \ {e} : g[s \ {e}] = h[d] + g[(s \ {e}) \ {d}]
        OBVIOUS
      <4>2. s \ {e} \in SUBSET s /\ s \ {e} # s OBVIOUS
      <4>3. QED BY <1>1, <4>2
    <3>3. g[s] \in Int BY <3>1, <3>2
    <3>4. ASSUME NEW e \in s PROVE g[s] = h[e] + g[s \ {e}]
      <4>1. CASE e = x BY <3>1, <4>1
      <4>2. CASE e # x
        <5>1. (s \ {x}) \ {e} = (s \ {e}) \ {x} OBVIOUS
        <5>2. g[s \ {x}] = h[e] + g[(s \ {x}) \ {e}] BY <3>1, <3>2, <4>2
        <5>3. g[s \ {e}] = h[x] + g[(s \ {e}) \ {x}] BY <3>1, <3>2, <4>2
        <5>4. g[(s \ {x}) \ {e}] \in Int
          <6>1. (s \ {x}) \ {e} \in SUBSET s /\ (s \ {x}) \ {e} # s BY <3>1
          <6>2. QED BY <1>1, <6>1
        <5> DEFINE a == g[(s \ {x}) \ {e}]
                   b == h[x]
                   c == h[e]
        <5>5. a \in Int /\ b \in Int /\ c \in Int BY <3>1, <3>2, <5>4
        <5>6. g[s] = b + (c + a) BY <3>1, <5>2
        <5>7. g[s \ {e}] = b + a BY <5>1, <5>3
        <5> HIDE DEF a, b, c
        <5>8. b + (c + a) = c + (b + a) BY <5>5
        <5>9. QED BY <5>6, <5>7, <5>8 DEF c
      <4>3. QED BY <4>1, <4>2
    <3>5. QED BY <3>3, <3>4
  <2>3. QED BY <2>1, <2>2
<1>2. SUBSET D \subseteq P
  <2> HIDE DEF P
  <2>1. QED BY <1>1, SetInd
<1>3. QED BY <1>2

(* Two functions that agree on a set have the same sum over it.             *)
LEMMA SumSame ==
  ASSUME NEW D, NEW E, IsFiniteSet(D), NEW f, NEW g, NEW h, NEW k,
         SumOver(g, D, h), SumOver(f, E, k), D \subseteq E, \A d \in D : h[d] = k[d]
  PROVE  \A s \in SUBSET D : f[s] = g[s]
<1> DEFINE P == {s \in SUBSET D : f[s] = g[s]}
<1>1. ASSUME NEW s \in SUBSET D, \A r \in SUBSET s : r # s => r \in P
      PROVE  s \in P
  <2>1. CASE s = {} BY <2>1 DEF SumOver
  <2>2. CASE s # {}
    <3>1. Pick(s) \in s BY <2>2, PickIn
    <3>2. s \ {Pick(s)} \in SUBSET s /\ s \ {Pick(s)} # s BY <3>1
    <3>3. f[s \ {Pick(s)}] = g[s \ {Pick(s)}] BY <1>1, <3>2
    <3>4. QED BY <2>2, <3>1, <3>3 DEF SumOver
  <2>3. QED BY <2>1, <2>2
<1>2. SUBSET D \subseteq P
  <2> HIDE DEF P
  <2>1. QED BY <1>1, SetInd
<1>3. QED BY <1>2

LEMMA SumIs ==
  ASSUME NEW D, IsFiniteSet(D), NEW h
  PROVE  \E g : SumOver(g, D, h) /\ SumFunctionOnSet(h, D) = g[D]
<1> DEFINE g == CHOOSE k : SumFcn(k, D, h)
<1>1. SumFcn(g, D, h) BY SumExists
<1>2. SumFunctionOnSet(h, D) = g[D]
  BY DEF SumFunctionOnSet, FoldFunctionOnSet, MapThenFoldSet, Pick, SumFcn
<1>3. SumOver(g, D, h)
  <2> HIDE DEF g
  <2>1. QED BY <1>1 DEF SumOver, SumFcn
<1>4. QED BY <1>2, <1>3

(* The sum over a finite set, without the recursion.                        *)
LEMMA Sums ==
  ASSUME NEW D, IsFiniteSet(D), NEW h, \A d \in D : h[d] \in Int
  PROVE  /\ SumFunctionOnSet(h, {}) = 0 /\ SumFunctionOnSet(h, D) \in Int
         /\ \A e \in D : /\ SumFunctionOnSet(h, D) = h[e] + SumFunctionOnSet(h, D \ {e})
                        /\ SumFunctionOnSet(h, D \ {e}) \in Int
<1>1. SumFunctionOnSet(h, {}) = 0
  <2>1. PICK g : SumOver(g, {}, h) /\ SumFunctionOnSet(h, {}) = g[{}] BY SumIs, FS_EmptySet
  <2>2. QED BY <2>1 DEF SumOver
<1>2. PICK g : SumOver(g, D, h) /\ SumFunctionOnSet(h, D) = g[D] BY SumIs
<1>3. \A s \in SUBSET D : g[s] \in Int /\ \A e \in s : g[s] = h[e] + g[s \ {e}]
  BY <1>2, SumPick DEF IntsOn
<1>4. ASSUME NEW e \in D PROVE SumFunctionOnSet(h, D \ {e}) = g[D \ {e}] /\ g[D \ {e}] \in Int
  <2> DEFINE E == D \ {e}
  <2>1. E \subseteq D /\ IsFiniteSet(E) BY FS_Subset
  <2> HIDE DEF E
  <2>2. PICK f : SumOver(f, E, h) /\ SumFunctionOnSet(h, E) = f[E] BY <2>1, SumIs
  <2>3. \A s \in SUBSET E : g[s] = f[s] BY <1>2, <2>1, <2>2, SumSame
  <2>4. SumFunctionOnSet(h, E) = g[E] /\ g[E] \in Int BY <1>3, <2>1, <2>2, <2>3
  <2>5. QED BY <2>4 DEF E
<1>5. QED BY <1>1, <1>2, <1>3, <1>4

LEMMA SumEq ==
  ASSUME NEW D, IsFiniteSet(D), NEW h, NEW k, \A d \in D : h[d] = k[d]
  PROVE  SumFunctionOnSet(h, D) = SumFunctionOnSet(k, D)
<1>1. PICK g : SumOver(g, D, h) /\ SumFunctionOnSet(h, D) = g[D] BY SumIs
<1>2. PICK f : SumOver(f, D, k) /\ SumFunctionOnSet(k, D) = f[D] BY SumIs
<1>3. \A s \in SUBSET D : f[s] = g[s] BY <1>1, <1>2, SumSame
<1>4. QED BY <1>1, <1>2, <1>3

\* One term changes.
LEMMA SumChange ==
  ASSUME NEW D, NEW h, NEW k, NEW e, IsFiniteSet(D), e \in D, IntsOn(h, D), IntsOn(k, D),
         Agree(h, k, D \ {e})
  PROVE  /\ SumFunctionOnSet(k, D) + h[e] = SumFunctionOnSet(h, D) + k[e]
         /\ SumFunctionOnSet(h, D) \in Int /\ SumFunctionOnSet(k, D) \in Int
<1> USE DEF IntsOn, Agree
<1> DEFINE E == D \ {e}
<1>1. IsFiniteSet(E) /\ \A d \in E : h[d] = k[d] BY FS_Subset
<1>2. SumFunctionOnSet(h, D) = h[e] + SumFunctionOnSet(h, E) /\ SumFunctionOnSet(h, E) \in Int
  BY Sums
<1>3. SumFunctionOnSet(k, D) = k[e] + SumFunctionOnSet(k, E) BY Sums
<1> HIDE DEF E
<1>4. SumFunctionOnSet(h, E) = SumFunctionOnSet(k, E) BY <1>1, SumEq
<1>5. h[e] \in Int /\ k[e] \in Int OBVIOUS
<1>6. QED BY <1>2, <1>3, <1>4, <1>5

\* One element more.
LEMMA SumGrow ==
  ASSUME NEW D, NEW E, NEW h, NEW k, NEW e, IsFiniteSet(D), Without(E, D, e),
         IntsOn(k, D), Agree(h, k, E)
  PROVE  SumFunctionOnSet(k, D) = SumFunctionOnSet(h, E) + k[e]
<1> USE DEF IntsOn, Agree, Without
<1>1. \A d \in D : k[d] \in Int OBVIOUS
<1>2. SumFunctionOnSet(k, D) = k[e] + SumFunctionOnSet(k, D \ {e})
      /\ SumFunctionOnSet(k, D \ {e}) \in Int
  BY <1>1, Sums
<1>3. IsFiniteSet(E) /\ \A d \in E : h[d] = k[d] BY FS_Subset
<1>4. SumFunctionOnSet(h, E) = SumFunctionOnSet(k, E) BY <1>3, SumEq
<1>5. QED BY <1>2, <1>4

LEMMA SumZero ==
  ASSUME NEW D, IsFiniteSet(D), NEW h, \A d \in D : h[d] = 0
  PROVE  SumFunctionOnSet(h, D) = 0
<1>1. PICK g : SumOver(g, D, h) /\ SumFunctionOnSet(h, D) = g[D] BY SumIs
<1> DEFINE P == {s \in SUBSET D : g[s] = 0}
<1>2. ASSUME NEW s \in SUBSET D, \A r \in SUBSET s : r # s => r \in P
      PROVE  s \in P
  <2>1. CASE s = {} BY <1>1, <2>1 DEF SumOver
  <2>2. CASE s # {}
    <3>1. Pick(s) \in s BY <2>2, PickIn
    <3>2. s \ {Pick(s)} \in SUBSET s /\ s \ {Pick(s)} # s BY <3>1
    <3>3. g[s \ {Pick(s)}] = 0 BY <1>2, <3>2
    <3>4. g[s] = h[Pick(s)] + g[s \ {Pick(s)}] BY <1>1, <2>2 DEF SumOver
    <3>5. h[Pick(s)] = 0 BY <3>1
    <3>6. QED BY <3>3, <3>4, <3>5
  <2>3. QED BY <2>1, <2>2
<1>3. SUBSET D \subseteq P
  <2> HIDE DEF P
  <2>1. QED BY <1>2, SetInd
<1>4. QED BY <1>1, <1>3

----------------------------------------------------------------------------
(* Arithmetic *)

(* Part i of a .. b - 1, cut into parts of e. *)
Cut(a, b, e, i) == a + i * e .. Least(a + i * e + e, b) - 1

(* Two parts have no index in common. *)
LEMMA CutApart ==
  ASSUME NEW a \in Int, NEW b \in Int, NEW e \in Nat,
         NEW i \in Int, NEW j \in Int, i # j
  PROVE  Cut(a, b, e, i) \cap Cut(a, b, e, j) = {}
<1>1. \A m \in Int, n \in Int : m < n => a + m * e + e <= a + n * e
  <2>1. SUFFICES ASSUME NEW m \in Int, NEW n \in Int, m < n PROVE a + m * e + e <= a + n * e
    OBVIOUS
  <2>2. PICK d \in Nat : n = m + 1 + d BY <2>1
  <2>3. n * e = m * e + e + d * e /\ d * e \in Nat BY <2>2
  <2>4. m * e \in Int OBVIOUS
  <2>5. QED BY <2>3, <2>4
<1>2. i * e \in Int /\ j * e \in Int OBVIOUS
<1>3. CASE i < j BY <1>1, <1>2, <1>3 DEF Cut, Least
<1>4. CASE j < i BY <1>1, <1>2, <1>4 DEF Cut, Least
<1>5. QED BY <1>3, <1>4

(* A part lies in the range. *)
LEMMA CutInside ==
  ASSUME NEW a \in Int, NEW b \in Int, NEW e \in Nat, NEW i \in Nat
  PROVE  Cut(a, b, e, i) \subseteq a .. b - 1
<1>1. i * e \in Nat OBVIOUS
<1>2. QED BY <1>1 DEF Cut, Least

(* n parts that are long enough together cover the range. *)
LEMMA CutAll ==
  ASSUME NEW a \in Int, NEW b \in Int, NEW e \in Nat \ {0}, NEW n \in Int,
         b <= a + n * e, NEW c \in a .. b - 1
  PROVE  \E i \in 0 .. n - 1 : c \in Cut(a, b, e, i)
<1> DEFINE i == (c - a) \div e
<1>1. c - a \in Nat OBVIOUS
<1>2. i \in Nat /\ i * e <= c - a /\ c - a < i * e + e BY <1>1
<1>3. i < n
  <2>1. SUFFICES ASSUME n <= i PROVE FALSE BY <1>2
  <2>2. PICK d \in Nat : i = n + d BY <1>2, <2>1
  <2> HIDE DEF i
  <2>3. i * e = n * e + d * e /\ d * e \in Nat BY <2>2
  <2>4. n * e \in Int OBVIOUS
  <2>5. QED BY <1>2, <2>3, <2>4
<1>4. c \in Cut(a, b, e, i)
  <2>1. i * e \in Int BY <1>2
  <2> HIDE DEF i
  <2>2. QED BY <1>2, <2>1 DEF Cut, Least
<1> HIDE DEF i
<1>5. i \in 0 .. n - 1 BY <1>2, <1>3
<1>6. QED BY <1>4, <1>5

(* Rounded up, the number of parts is enough, and the last one begins inside. *)
LEMMA RoundUp ==
  ASSUME NEW x \in Int, NEW e \in Nat \ {0}, NEW n \in Int,
         n = (x + e - 1) \div e
  PROVE  x <= n * e /\ (\A i \in Int : i < n => i * e < x)
<1>1. n * e <= x + e - 1 /\ x + e - 1 < n * e + e OBVIOUS
<1>2. ASSUME NEW i \in Int, i < n PROVE i * e < x
  <2> DEFINE d == n - i - 1
  <2>1. d \in Nat /\ n = i + 1 + d BY <1>2
  <2> HIDE DEF d
  <2>2. n * e = i * e + e + d * e /\ d * e \in Nat BY <2>1
  <2>3. i * e \in Int OBVIOUS
  <2>4. QED BY <1>1, <2>2, <2>3
<1>3. n * e \in Int OBVIOUS
<1>4. QED BY <1>1, <1>2, <1>3

----------------------------------------------------------------------------
(* int *)

Ints == -(IntMax + 1) .. IntMax

(* An int in range is itself; whole turns do not count. *)
LEMMA WrapIs ==
  ASSUME NEW x \in Ints, NEW k \in Int
  PROVE  Wrap(x + k * (2 * (IntMax + 1))) = x
<1> DEFINE m == 2 * (IntMax + 1)
           y == x + IntMax + 1
<1>1. IntMax \in Nat BY LoopAssumption
<1>2. m \in Nat \ {0} /\ y \in 0 .. m - 1 BY <1>1 DEF Ints
<1>3. x + k * m + IntMax + 1 = y + k * m
  <2>1. k * m \in Int BY <1>2
  <2>2. QED BY <1>1, <2>1 DEF Ints
<1>4. (y + k * m) % m = y
  <2> HIDE DEF m, y
  <2>1. QED BY <1>2
<1>5. QED BY <1>1, <1>3, <1>4 DEF Wrap, Ints
LEMMA WrapSame == ASSUME NEW x \in Ints PROVE Wrap(x) = x
<1>1. IntMax \in Nat BY LoopAssumption
<1>2. x + 0 * (2 * (IntMax + 1)) = x BY <1>1 DEF Ints
<1>3. QED BY <1>2, WrapIs

LEMMA WrapTurns ==
  ASSUME NEW x \in Int
  PROVE  Wrap(x) \in Ints /\ \E k \in Int : Wrap(x) = x + k * (2 * (IntMax + 1))
<1> DEFINE m == 2 * (IntMax + 1)
           y == x + IntMax + 1
<1>1. IntMax \in Nat BY LoopAssumption
<1>2. m \in Nat \ {0} /\ y \in Int BY <1>1
<1>3. y % m \in 0 .. m - 1 /\ y = (y \div m) * m + (y % m) /\ y \div m \in Int
  <2> HIDE DEF m, y
  <2>1. QED BY <1>2
<1> DEFINE q == y \div m
<1>4. Wrap(x) = (y % m) - (IntMax + 1) BY DEF Wrap
<1>5. Wrap(x) \in Ints BY <1>1, <1>3, <1>4 DEF Ints
<1>6. -q \in Int /\ (-q) * m = -(q * m) /\ q * m \in Int
  <2>1. q \in Int BY <1>3
  <2> HIDE DEF m, q
  <2>2. QED BY <1>2, <2>1
<1>7. (y % m) - (IntMax + 1) = x + (-q) * m
  <2>1. y = q * m + (y % m) BY <1>3
  <2> DEFINE r == y % m
  <2>2. r \in Int BY <1>3
  <2>3. y = q * m + r BY <2>1
  <2> DEFINE p == q * m
  <2>4. p \in Int BY <1>6
  <2>5. y = p + r /\ (-q) * m = -p BY <2>3, <1>6
  <2>6. y = x + IntMax + 1 OBVIOUS
  <2> HIDE DEF p, r, q, m, y
  <2>7. r - (IntMax + 1) = x + (-q) * m BY <1>1, <1>2, <2>2, <2>4, <2>5, <2>6
  <2>8. QED BY <2>7 DEF r
<1>8. QED BY <1>4, <1>5, <1>6, <1>7

(* Only the last wrap of a sum counts.                                      *)
LEMMA WrapSum ==
  ASSUME NEW a \in Int, NEW b \in Int, a + b \in Ints
  PROVE  Wrap(a + Wrap(b)) = a + b
<1>1. PICK k \in Int : Wrap(b) = b + k * (2 * (IntMax + 1)) BY WrapTurns
<1>2. Wrap((a + b) + k * (2 * (IntMax + 1))) = a + b BY WrapIs
<1>3. k * (2 * (IntMax + 1)) \in Int BY LoopAssumption
<1>4. (a + b) + k * (2 * (IntMax + 1)) = a + Wrap(b) BY <1>1, <1>3
<1>5. QED BY <1>2, <1>4

----------------------------------------------------------------------------
(* The tasks of the loops over indices *)

Flat == {"range", "threads", "mesh"}
FlatLoops == RangeLoops \cup ThreadLoops \cup MeshLoops

(* n tasks cut the indices of l into parts of e.                            *)
CutInto(l, a, b, e, n) ==
  /\ Tasks(l) = n
  /\ Indices(l) = a .. b - 1
  /\ b <= a + n * e
  /\ \A i \in 0 .. n - 1 :
       /\ Task(l, i) \in [at : Nat, lo : Int, hi : Int]
       /\ Task(l, i).at = 0
       /\ Task(l, i).lo .. Task(l, i).hi - 1 = Cut(a, b, e, i)

IsCut(l) == \E a, b, n \in Int, e \in Nat \ {0} : CutInto(l, a, b, e, n)

LEMMA RangeIsCut ==
  ASSUME NEW l \in RangeLoops, BoundsFit(l)
  PROVE  IsCut(l)
<1> DEFINE a == l.begin
           b == l.end
           e == l.block
           x == b - a + e - 1
           n == Quotient(x, e)
<1>1. IntMax \in Nat /\ a \in Ints /\ b \in Ints /\ e \in 1 .. IntMax /\ l.kind = "range"
  BY LoopAssumption DEF RangeLoops, Ints
<1>2. x \in Ints /\ b + e - 1 <= IntMax BY <1>1 DEF BoundsFit, Ints
<1>3. Tasks(l) = n BY <1>1, <1>2, WrapSame DEF Tasks, RangeTasks
<1>4. Indices(l) = a .. b - 1 BY <1>1 DEF Indices
<1>5. n \in Int
  <2>1. x \in Int /\ e \in Nat \ {0} BY <1>1, <1>2 DEF Ints
  <2> HIDE DEF x, e
  <2>2. \A y \in Int : y \div e \in Int BY <2>1
  <2>3. QED BY <2>1, <2>2 DEF Quotient
<1>6. b - a <= n * e /\ (\A i \in Nat : i < n => i * e < b - a)
  <2>1. CASE x >= 0
    <3>1. n = ((b - a) + e - 1) \div e BY <2>1, <1>1 DEF Quotient, Ints
    <3>2. b - a \in Int /\ e \in Nat \ {0} BY <1>1 DEF Ints
    <3>3. QED BY <3>1, <3>2, <1>5, RoundUp
  <2>2. CASE x < 0
    <3>1. n = -((-x) \div e) BY <1>2, <2>2 DEF Quotient, Ints
    <3>2. -x \in Nat /\ e \in Nat \ {0} BY <2>2, <1>1, <1>2 DEF Ints
    <3>3. (-x) \div e \in Nat /\ ((-x) \div e) * e <= -x
      <4> DEFINE y == -x
      <4> HIDE DEF x, e, y
      <4>1. y \in Nat BY <3>2 DEF y
      <4>2. y \div e \in Nat /\ (y \div e) * e <= y BY <3>2, <4>1
      <4>3. QED BY <4>2 DEF y
    <3>4. n * e = -(((-x) \div e) * e)
      <4> DEFINE z == (-x) \div e
      <4>1. z \in Nat /\ n = -z BY <3>1, <3>3
      <4> HIDE DEF z, n, x, e
      <4>2. (-z) * e = -(z * e) BY <4>1, <3>2
      <4>3. QED BY <4>1, <4>2 DEF z
    <3>5. n <= 0 BY <3>1, <3>3
    <3>6. ((-x) \div e) * e \in Int BY <3>3, <3>2
    <3>7. x <= n * e
      <4> DEFINE z == ((-x) \div e) * e
      <4>1. z \in Int /\ z <= -x /\ n * e = -z BY <3>3, <3>4, <3>6
      <4>2. x \in Int BY <1>2 DEF Ints
      <4> HIDE DEF z, x
      <4>3. x <= -z BY <4>1, <4>2
      <4>4. QED BY <4>1, <4>3
    <3>8. b - a <= x BY <1>1 DEF Ints
    <3>9. n * e \in Int BY <1>5, <3>2
    <3>10. b - a <= n * e BY <3>7, <3>8, <3>9, <3>2, <1>1 DEF Ints
    <3>11. QED BY <3>5, <3>10, <1>5
  <2>3. QED BY <2>1, <2>2, <1>2 DEF Ints
<1>7. ASSUME NEW i \in 0 .. n - 1
      PROVE  /\ Task(l, i) = [at |-> 0, lo |-> a + i * e, hi |-> Least(a + i * e + e, b)]
             /\ a + i * e \in Int
  <2>1. i \in Nat /\ i < n BY <1>5
  <2>2. i * e < b - a /\ i * e \in Nat BY <2>1, <1>6, <1>1
  <2>3. a + i * e \in Ints /\ a + i * e + e \in Ints BY <2>2, <1>1, <1>2 DEF Ints
  <2>4. Wrap(a + i * e) = a + i * e /\ Wrap(a + i * e + e) = a + i * e + e
    BY <2>3, WrapSame
  <2>5. QED BY <1>1, <2>3, <2>4 DEF Task, RangeTask, Ints
<1>8. CutInto(l, a, b, e, n)
  <2>1. b <= a + n * e
    <3>1. n * e \in Int BY <1>1, <1>5
    <3>2. QED BY <3>1, <1>1, <1>6 DEF Ints
  <2>2. ASSUME NEW i \in 0 .. n - 1
        PROVE  /\ Task(l, i) \in [at : Nat, lo : Int, hi : Int]
               /\ Task(l, i).at = 0
               /\ Task(l, i).lo .. Task(l, i).hi - 1 = Cut(a, b, e, i)
    <3> DEFINE from == a + i * e
               to == Least(a + i * e + e, b)
    <3>1. Task(l, i) = [at |-> 0, lo |-> from, hi |-> to] BY <1>7
    <3>2. from \in Int /\ to \in Int BY <1>1, <1>7 DEF Least, Ints
    <3>3. Cut(a, b, e, i) = from .. to - 1 BY DEF Cut
    <3> HIDE DEF from, to
    <3>4. QED BY <3>1, <3>2, <3>3
  <2>3. QED BY <1>3, <1>4, <2>1, <2>2 DEF CutInto
<1>9. a \in Int /\ b \in Int /\ e \in Nat \ {0} BY <1>1 DEF Ints
<1> HIDE DEF a, b, e, n
<1>10. QED BY <1>5, <1>8, <1>9 DEF IsCut

LEMMA ThreadsIsCut ==
  ASSUME NEW l \in ThreadLoops, BoundsFit(l)
  PROVE  IsCut(l)
<1> DEFINE a == l.begin
           b == l.end
           e == ThreadRange(l)
           n == NumCpuThreads
<1>1. IntMax \in Nat /\ a \in Ints /\ b \in Ints /\ n \in 1 .. IntMax
      /\ MinBlock \in 1 .. IntMax /\ l.kind = "threads"
  BY LoopAssumption DEF ThreadLoops, Ints
<1>2. a + e * n <= IntMax /\ b - a + n - 1 <= IntMax BY <1>1 DEF BoundsFit
<1> DEFINE w == Wrap(Wrap(b - a) + n - 1)
<1>3. w \in Int /\ e = Most(w \div n, MinBlock)
  <2>1. Wrap(b - a) \in Int BY <1>1, WrapTurns DEF Ints
  <2>2. w \in Int BY <1>1, <2>1, WrapTurns DEF Ints
  <2>3. QED BY <2>2 DEF ThreadRange
<1>4. e \in Nat \ {0} /\ w \div n <= e /\ w \div n \in Int
  <2>1. n \in Nat \ {0} BY <1>1
  <2> HIDE DEF w, e, n
  <2>2. w \div n \in Int BY <1>3, <2>1
  <2>3. QED BY <2>2, <1>1, <1>3 DEF Most
<1>5. b <= a + n * e
  <2>1. CASE b <= a
    <3>1. n * e \in Nat BY <1>1, <1>4
    <3> HIDE DEF a, b, n, e
    <3>2. QED BY <2>1, <3>1, <1>1 DEF Ints
  <2>2. CASE b > a
    <3>1. b - a \in Ints /\ b - a + n - 1 \in Ints BY <2>2, <1>1, <1>2 DEF Ints
    <3>2. w = b - a + n - 1 BY <3>1, WrapSame
    <3> DEFINE q == w \div n
    <3>3. b - a \in Int /\ n \in Nat \ {0} /\ q = ((b - a) + n - 1) \div n
      BY <1>1, <3>2 DEF Ints
    <3>4. q \in Int /\ q <= e BY <1>4
    <3> HIDE DEF q, a, b, n, e
    <3>5. b - a <= q * n BY <3>3, <3>4, RoundUp
    <3>6. q * n <= n * e BY <3>3, <3>4, <1>4
    <3>7. q * n \in Int /\ n * e \in Int BY <3>3, <3>4, <1>4
    <3>8. QED BY <3>5, <3>6, <3>7, <1>1 DEF Ints
  <2>3. QED BY <2>1, <2>2, <1>1 DEF Ints
<1>6. ASSUME NEW i \in 0 .. n - 1
      PROVE  /\ Task(l, i) = [at |-> 0, lo |-> a + i * e, hi |-> Least(b, a + i * e + e)]
             /\ a + i * e \in Int
  <2>1. i \in Nat /\ i + 1 <= n BY <1>1
  <2>2. i * e \in Nat /\ i * e + e <= e * n
    <3>1. (i + 1) * e <= n * e /\ (i + 1) * e = i * e + e /\ n * e = e * n
          /\ i * e \in Nat
      <4>1. n \in Nat BY <1>1
      <4> HIDE DEF e, n
      <4>2. i * e \in Nat /\ (i + 1) * e = i * e + e /\ n * e = e * n BY <4>1, <2>1, <1>4
      <4> DEFINE d == n - (i + 1)
      <4>3. d \in Nat /\ n = (i + 1) + d BY <4>1, <2>1
      <4> HIDE DEF d
      <4>4. n * e = (i + 1) * e + d * e /\ d * e \in Nat BY <4>3, <2>1, <1>4
      <4>5. (i + 1) * e \in Int BY <2>1, <1>4
      <4>6. QED BY <4>2, <4>4, <4>5
    <3>2. QED BY <3>1
  <2>3. e * n \in Int BY <1>1, <1>4
  <2>4. a + i * e \in Ints /\ a + i * e + e \in Ints
    <3> DEFINE p == i * e
               r == e * n
    <3>1. p \in Nat /\ p + e <= r /\ r \in Int /\ a + r <= IntMax BY <2>2, <2>3, <1>2
    <3> HIDE DEF p, r, a, e
    <3>2. a + p \in Ints /\ a + p + e \in Ints BY <3>1, <1>1, <1>4 DEF Ints
    <3>3. QED BY <3>2 DEF p
  <2>5. a \in Int /\ e * i \in Int /\ e * i = i * e BY <1>1, <1>4, <2>1 DEF Ints
  <2>6. Wrap(a + Wrap(e * i)) = a + i * e
    <3>1. a + e * i \in Ints BY <2>4, <2>5
    <3>2. QED BY <3>1, <2>5, WrapSum
  <2>7. Wrap(a + i * e + e) = a + i * e + e BY <2>4, WrapSame
  <2>8. QED BY <1>1, <2>4, <2>6, <2>7 DEF Task, ThreadTask, Ints
<1>7. CutInto(l, a, b, e, n)
  <2>1. ASSUME NEW i \in 0 .. n - 1
        PROVE  /\ Task(l, i) \in [at : Nat, lo : Int, hi : Int]
               /\ Task(l, i).at = 0
               /\ Task(l, i).lo .. Task(l, i).hi - 1 = Cut(a, b, e, i)
    <3>1. a \in Int /\ b \in Int /\ a + i * e \in Int /\ e \in Int BY <1>1, <1>4, <1>6 DEF Ints
    <3>2. Task(l, i) = [at |-> 0, lo |-> a + i * e, hi |-> Least(b, a + i * e + e)] BY <1>6
    <3> DEFINE p == a + i * e
    <3>3. Cut(a, b, e, i) = p .. Least(p + e, b) - 1 BY DEF Cut
    <3>4. Task(l, i) = [at |-> 0, lo |-> p, hi |-> Least(b, p + e)] /\ p \in Int BY <3>1, <3>2
    <3> HIDE DEF p, a, b, e
    <3>5. Least(b, p + e) = Least(p + e, b) /\ Least(b, p + e) \in Int BY <3>1, <3>4 DEF Least
    <3> HIDE DEF Least
    <3>6. QED BY <3>3, <3>4, <3>5
  <2>2. Tasks(l) = n BY <1>1 DEF Tasks
  <2>3. Indices(l) = a .. b - 1 BY <1>1 DEF Indices
  <2>4. QED BY <1>5, <2>1, <2>2, <2>3 DEF CutInto
<1>8. a \in Int /\ b \in Int /\ n \in Int BY <1>1 DEF Ints
<1> HIDE DEF a, b, e, n
<1>9. QED BY <1>4, <1>7, <1>8 DEF IsCut

LEMMA MeshIsCut ==
  ASSUME NEW l \in MeshLoops
  PROVE  IsCut(l)
<1> DEFINE b == l.patches
           e == MeshBlockOf(l)
           n == (b + e - 1) \div e
<1>1. b \in Nat /\ l.block \in Nat /\ l.kind = "mesh" BY LoopAssumption DEF MeshLoops
<1>2. e \in Nat \ {0}
  <2>1. MeshBlock \in Nat \ {0} /\ NumCpuThreads \in Nat \ {0} /\ MeshLoad \in Nat \ {0}
    BY LoopAssumption
  <2>2. NumCpuThreads * MeshLoad \in Nat \ {0} BY <2>1
  <2> DEFINE m == NumCpuThreads * MeshLoad
             q == b \div m
  <2>3. q \in Int
    <3> HIDE DEF m, b
    <3>1. QED BY <1>1, <2>2 DEF m
  <2>4. e = IF l.block # 0 THEN l.block ELSE Least(MeshBlock, Most(1, q)) BY DEF MeshBlockOf
  <2> HIDE DEF q, e
  <2>5. QED BY <1>1, <2>1, <2>3, <2>4 DEF Least, Most
<1>3. n \in Int /\ b <= n * e
  <2>1. n \in Int
    <3> HIDE DEF b, e
    <3>1. QED BY <1>1, <1>2
  <2> HIDE DEF e, b
  <2>2. b \in Int BY <1>1
  <2>3. QED BY <2>1, <2>2, <1>2, RoundUp
<1>4. CutInto(l, 0, b, e, n)
  <2>1. ASSUME NEW i \in 0 .. n - 1
        PROVE  /\ Task(l, i) \in [at : Nat, lo : Int, hi : Int]
               /\ Task(l, i).at = 0
               /\ Task(l, i).lo .. Task(l, i).hi - 1 = Cut(0, b, e, i)
    <3>1. i \in Nat /\ i * e \in Nat BY <1>2, <1>3
    <3>2. Task(l, i) = [at |-> 0, lo |-> i * e, hi |-> Least(i * e + e, b)]
      BY <1>1 DEF Task, MeshTask
    <3> HIDE DEF e, b
    <3>3. QED BY <1>1, <1>2, <3>1, <3>2 DEF Cut, Least
  <2>2. Tasks(l) = n BY <1>1 DEF Tasks, MeshTasks
  <2>3. Indices(l) = 0 .. b - 1 BY <1>1 DEF Indices
  <2>4. b <= 0 + n * e
    <3>1. n * e \in Int BY <1>2, <1>3
    <3>2. QED BY <3>1, <1>3
  <2>5. QED BY <2>1, <2>2, <2>3, <2>4 DEF CutInto
<1>5. b \in Int /\ 0 \in Int BY <1>1
<1> HIDE DEF b, e, n
<1>6. QED BY <1>2, <1>3, <1>4, <1>5 DEF IsCut

LEMMA FlatTyped ==
  ASSUME NEW l \in FlatLoops, NEW i \in Int
  PROVE  /\ l.kind \in Flat /\ Tasks(l) \in Int
         /\ Task(l, i) \in [at : Nat, lo : Int, hi : Int] /\ Task(l, i).at = 0
<1>1. IntMax \in Nat BY LoopAssumption
<1>2. \A x \in Int : Wrap(x) \in Int BY WrapTurns, <1>1 DEF Ints
<1>3. \A x, y \in Int : Least(x, y) \in Int BY DEF Least
<1>4. CASE l \in RangeLoops
  <2>1. l.kind = "range" /\ l.begin \in Int /\ l.end \in Int /\ l.block \in Nat \ {0}
    BY <1>1, <1>4, LoopAssumption DEF RangeLoops
  <2>2. l.block * i \in Int /\ i * l.block \in Int BY <2>1
  <2>3. \A x \in Int : Quotient(x, l.block) \in Int
    <3> DEFINE e == l.block
    <3>1. e \in Nat \ {0} BY <2>1
    <3> HIDE DEF e
    <3>2. \A x \in Int : x \div e \in Int BY <3>1
    <3>3. \A x \in Int : Quotient(x, e) \in Int BY <3>2 DEF Quotient
    <3>4. QED BY <3>3 DEF e
  <2>4. Tasks(l) \in Int
    <3>1. Wrap(l.end - l.begin + l.block - 1) \in Int BY <1>2, <2>1
    <3>2. QED BY <2>1, <2>3, <3>1 DEF Tasks, RangeTasks
  <2> DEFINE start == Wrap(l.begin + i * l.block)
  <2>5. start \in Int BY <1>2, <2>1, <2>2
  <2> HIDE DEF start
  <2>6. Wrap(start + l.block) \in Int BY <1>2, <2>1, <2>5
  <2>7. Least(Wrap(start + l.block), l.end) \in Int BY <1>3, <2>1, <2>6
  <2>8. Task(l, i) = [at |-> 0, lo |-> start, hi |-> Least(Wrap(start + l.block), l.end)]
    BY <2>1 DEF Task, RangeTask, start
  <2>9. QED BY <2>1, <2>4, <2>5, <2>7, <2>8 DEF Flat
<1>5. CASE l \in ThreadLoops
  <2>1. l.kind = "threads" /\ l.begin \in Int /\ l.end \in Int
        /\ NumCpuThreads \in Nat \ {0} /\ MinBlock \in Int
    BY <1>1, <1>5, LoopAssumption DEF ThreadLoops
  <2>2. ThreadRange(l) \in Int
    <3>1. Wrap(Wrap(l.end - l.begin) + NumCpuThreads - 1) \in Int BY <1>2, <2>1
    <3>2. \A x \in Int : x \div NumCpuThreads \in Int BY <2>1
    <3>3. QED BY <2>1, <3>1, <3>2 DEF ThreadRange, Most
  <2>3. ThreadRange(l) * i \in Int BY <2>2
  <2> DEFINE start == Wrap(l.begin + Wrap(ThreadRange(l) * i))
  <2>4. start \in Int BY <1>2, <2>1, <2>3
  <2> HIDE DEF start
  <2>5. Least(l.end, Wrap(start + ThreadRange(l))) \in Int
    <3>1. start + ThreadRange(l) \in Int BY <2>2, <2>4
    <3>2. QED BY <1>2, <1>3, <2>1, <3>1
  <2>6. Task(l, i) = [at |-> 0, lo |-> start, hi |-> Least(l.end, Wrap(start + ThreadRange(l)))]
    BY <2>1 DEF Task, ThreadTask, start
  <2>7. Tasks(l) = NumCpuThreads BY <2>1 DEF Tasks
  <2>8. QED BY <2>1, <2>4, <2>5, <2>6, <2>7 DEF Flat
<1>6. CASE l \in MeshLoops
  <2>1. l.kind = "mesh" /\ l.patches \in Nat /\ l.block \in Nat
        /\ NumCpuThreads * MeshLoad \in Nat \ {0} /\ MeshBlock \in Nat \ {0}
    <3>1. NumCpuThreads \in Nat \ {0} /\ MeshLoad \in Nat \ {0} /\ MeshBlock \in Nat \ {0}
      BY LoopAssumption
    <3>2. QED BY <3>1, <1>1, <1>6, LoopAssumption DEF MeshLoops
  <2>2. MeshBlockOf(l) \in Nat \ {0}
    <3> DEFINE b == l.patches
               m == NumCpuThreads * MeshLoad
    <3>1. b \in Nat /\ m \in Nat \ {0} BY <2>1
    <3>2. MeshBlockOf(l) = IF l.block # 0 THEN l.block ELSE Least(MeshBlock, Most(1, b \div m))
      BY DEF MeshBlockOf
    <3> HIDE DEF b, m
    <3>3. b \div m \in Int BY <3>1
    <3>4. QED BY <2>1, <3>2, <3>3 DEF Least, Most
  <2> DEFINE e == MeshBlockOf(l)
             b == l.patches
  <2>3. e \in Nat \ {0} /\ b \in Nat BY <2>1, <2>2
  <2>4. Task(l, i) = [at |-> 0, lo |-> i * e, hi |-> Least(i * e + e, b)]
        /\ Tasks(l) = (b + e - 1) \div e
    BY <2>1 DEF Task, MeshTask, Tasks, MeshTasks
  <2> HIDE DEF e, b
  <2>5. i * e \in Int /\ (b + e - 1) \div e \in Int BY <2>3
  <2>6. Least(i * e + e, b) \in Int BY <1>3, <2>3, <2>5
  <2>7. QED BY <2>1, <2>4, <2>5, <2>6 DEF Flat
<1>7. QED BY <1>4, <1>5, <1>6 DEF FlatLoops

(* The indices a task, or the rest of one, runs the body for.               *)
Span(w) == {w.at * Leaf + k : k \in w.lo .. w.hi - 1}
Todo(i) == Span(Task(loop, i))

LEMMA FlatSpan ==
  ASSUME NEW w, w.at = 0, Leaf \in Nat
  PROVE  Span(w) = w.lo .. w.hi - 1
<1>1. w.at * Leaf = 0 OBVIOUS
<1>2. \A k \in w.lo .. w.hi - 1 : 0 + k = k OBVIOUS
<1>3. QED BY <1>1, <1>2 DEF Span

(* What the tasks of a parallel loop are to each other and to a set.         *)
TasksApart == \A i, j \in 0 .. Tasks(loop) - 1 : i # j => Todo(i) \cap Todo(j) = {}
TasksIn(S) == \A i \in 0 .. Tasks(loop) - 1 : Todo(i) \subseteq S
TasksCover(S) == \A c \in S : \E i \in 0 .. Tasks(loop) - 1 : c \in Todo(i)

LEMMA FlatTasks ==
  ASSUME loop \in FlatLoops, BoundsFit(loop), Leaf \in Nat
  PROVE  TasksApart /\ TasksIn(Indices(loop)) /\ TasksCover(Indices(loop))
<1>1. IsCut(loop) BY RangeIsCut, ThreadsIsCut, MeshIsCut DEF FlatLoops
<1>2. PICK a, b, n \in Int, e \in Nat \ {0} : CutInto(loop, a, b, e, n) BY <1>1 DEF IsCut
<1>3. Tasks(loop) = n /\ Indices(loop) = a .. b - 1 /\ b <= a + n * e BY <1>2 DEF CutInto
<1>4. \A i \in 0 .. n - 1 : Todo(i) = Cut(a, b, e, i)
  <2>1. SUFFICES ASSUME NEW i \in 0 .. n - 1 PROVE Todo(i) = Cut(a, b, e, i) OBVIOUS
  <2>2. Task(loop, i).at = 0 /\ Task(loop, i).lo .. Task(loop, i).hi - 1 = Cut(a, b, e, i)
    BY <1>2 DEF CutInto
  <2>3. QED BY <2>2, FlatSpan DEF Todo
<1>5. TasksApart BY <1>3, <1>4, CutApart DEF TasksApart
<1>6. TasksIn(Indices(loop)) BY <1>3, <1>4, CutInside DEF TasksIn
<1>7. TasksCover(Indices(loop))
  <2>1. \A c \in a .. b - 1 : \E i \in 0 .. n - 1 : c \in Cut(a, b, e, i) BY <1>3, CutAll
  <2>2. QED BY <1>3, <1>4, <2>1 DEF TasksCover
<1>8. QED BY <1>5, <1>6, <1>7

----------------------------------------------------------------------------
(* Element lists *)

FieldOK == /\ field.blocks \in Nat \ {0} /\ field.leaf \in Nat \ {0}
           /\ field.on \subseteq 0 .. field.blocks - 1

PartsPerBlock == (Leaf + ElementSize - 1) \div ElementSize

\* Elements of the list of the leaf block.
Parts == {e \in [at : Nat, lo : Nat, hi : Nat] :
            /\ e.lo < e.hi /\ e.hi <= Leaf /\ e.hi <= e.lo + ElementSize
            /\ \E c \in 0 .. PartsPerBlock - 1 : e.lo = c * ElementSize}

(* The elements of s are disjoint and make up the blocks P.                  *)
Lists(s, P) ==
  /\ s \in Seq(Parts)
  /\ \A k \in 1 .. Len(s) : s[k].at \in P
  /\ \A k, m \in 1 .. Len(s) : k # m => Span(s[k]) \cap Span(s[m]) = {}
  /\ \A p \in P, j \in 0 .. Leaf - 1 :
       \E k \in 1 .. Len(s) : s[k].at = p /\ s[k].lo <= j /\ j < s[k].hi

LEMMA ChunkSizes ==
  ASSUME NEW n \in Nat \ {0}
  PROVE  ChunkSize(n) \in Nat \ {0} /\ ChunkSize(n) <= n
BY LoopAssumption DEF ChunkSize, Least

LEMMA Block ==
  ASSUME NEW e \in Nat \ {0}, NEW p \in Int, NEW k \in 0 .. e - 1
  PROVE  (p * e + k) \div e = p /\ (p * e + k) % e = k
OBVIOUS

LEMMA SpanBlock ==
  ASSUME Leaf \in Nat \ {0}, NEW w \in [at : Nat, lo : Int, hi : Int],
         0 <= w.lo, w.hi <= Leaf, NEW c \in Span(w)
  PROVE  c \in Nat /\ BlockOf(c) = w.at /\ c % Leaf \in w.lo .. w.hi - 1
<1>1. PICK k \in w.lo .. w.hi - 1 : c = w.at * Leaf + k BY DEF Span
<1>2. k \in 0 .. Leaf - 1 /\ w.at \in Int OBVIOUS
<1>3. w.at * Leaf \in Nat OBVIOUS
<1>4. (w.at * Leaf + k) \div Leaf = w.at /\ (w.at * Leaf + k) % Leaf = k BY <1>2, Block
<1>5. c \in Nat BY <1>1, <1>2, <1>3
<1>6. QED BY <1>1, <1>4, <1>5 DEF BlockOf

LEMMA ChunksOf ==
  ASSUME NEW at \in Nat, NEW n \in Nat \ {0}
  PROVE  LET e == ChunkSize(n)
             m == (n + e - 1) \div e
         IN  /\ m \in Nat /\ n <= 0 + m * e
             /\ Chunks(at, n) \in Seq([at : Nat, lo : Nat, hi : Nat])
             /\ Len(Chunks(at, n)) = m
             /\ \A i \in 1 .. m :
                  LET w == Chunks(at, n)[i]
                  IN  /\ w.at = at /\ w.lo = (i - 1) * e /\ w.lo < w.hi /\ w.hi <= n
                      /\ w.hi <= w.lo + e
                      /\ w.lo .. w.hi - 1 = Cut(0, n, e, i - 1)
<1> DEFINE e == ChunkSize(n)
           m == (n + e - 1) \div e
           s == Chunks(at, n)
<1>1. e \in Nat \ {0} /\ e <= n BY ChunkSizes
<1>2. s = [c \in 1 .. m |-> [at |-> at, lo |-> (c - 1) * e, hi |-> Least(c * e, n)]]
  BY DEF Chunks
<1> HIDE DEF e, s
<1>3. m \in Nat /\ n <= m * e /\ \A i \in Int : i < m => i * e < n
  <2>1. m \in Nat BY <1>1
  <2>2. n \in Int /\ m \in Int BY <2>1
  <2>3. QED BY <1>1, <2>1, <2>2, RoundUp
<1> HIDE DEF m
<1>4. ASSUME NEW i \in 1 .. m
      PROVE  /\ s[i] \in [at : Nat, lo : Nat, hi : Nat]
             /\ s[i].at = at /\ s[i].lo = (i - 1) * e /\ s[i].lo < s[i].hi /\ s[i].hi <= n
             /\ s[i].hi <= s[i].lo + e
             /\ s[i].lo .. s[i].hi - 1 = Cut(0, n, e, i - 1)
  <2>1. i - 1 \in Nat /\ i - 1 < m BY <1>3
  <2>2. (i - 1) * e < n /\ (i - 1) * e \in Nat /\ i * e = (i - 1) * e + e BY <1>1, <1>3, <2>1
  <2>3. s[i] = [at |-> at, lo |-> (i - 1) * e, hi |-> Least((i - 1) * e + e, n)] BY <1>2, <2>2
  <2> DEFINE q == (i - 1) * e
  <2>4. Cut(0, n, e, i - 1) = q .. Least(q + e, n) - 1 BY <2>2 DEF Cut
  <2>5. s[i] = [at |-> at, lo |-> q, hi |-> Least(q + e, n)] /\ q \in Nat /\ q < n BY <2>2, <2>3
  <2> HIDE DEF q
  <2>6. Least(q + e, n) \in Nat /\ q < Least(q + e, n) /\ Least(q + e, n) <= n
        /\ Least(q + e, n) <= q + e
    BY <1>1, <2>5 DEF Least
  <2> HIDE DEF Least
  <2>7. QED BY <2>4, <2>5, <2>6 DEF q
<1>5. s \in Seq([at : Nat, lo : Nat, hi : Nat]) /\ Len(s) = m BY <1>2, <1>3, <1>4
<1>6. m * e \in Int BY <1>1, <1>3
<1>7. QED BY <1>3, <1>4, <1>5, <1>6 DEF e, m, s

LEMMA ChunksList ==
  ASSUME FieldOK, NEW p \in field.on
  PROVE  Lists(Chunks(p, Leaf), {p})
<1> DEFINE s == Chunks(p, Leaf)
           e == ElementSize
           m == PartsPerBlock
<1>1. Leaf \in Nat \ {0} /\ p \in Nat /\ e \in Nat \ {0}
  BY ChunkSizes DEF FieldOK, Leaf, ElementSize
<1>2. /\ m \in Nat /\ Leaf <= 0 + m * e
      /\ s \in Seq([at : Nat, lo : Nat, hi : Nat]) /\ Len(s) = m
      /\ \A i \in 1 .. m : /\ s[i].at = p /\ s[i].lo = (i - 1) * e /\ s[i].lo < s[i].hi
                          /\ s[i].hi <= Leaf /\ s[i].hi <= s[i].lo + e
                          /\ s[i].lo .. s[i].hi - 1 = Cut(0, Leaf, e, i - 1)
  BY <1>1, ChunksOf DEF ElementSize, PartsPerBlock
<1> HIDE DEF s, e, m
<1>3. ASSUME NEW i \in 1 .. m PROVE s[i] \in Parts
  <2>1. s[i] \in [at : Nat, lo : Nat, hi : Nat]
    <3> DEFINE R == [at : Nat, lo : Nat, hi : Nat]
    <3>1. i \in 1 .. Len(s) /\ s \in Seq(R) BY <1>2
    <3> HIDE DEF R
    <3>2. s[i] \in R BY <3>1
    <3>3. QED BY <3>2 DEF R
  <2>2. i - 1 \in 0 .. m - 1 BY <1>2
  <2>3. QED BY <1>2, <2>1, <2>2 DEF Parts, e, m
<1>4. s \in Seq(Parts) BY <1>2, <1>3
<1>5. ASSUME NEW i \in 1 .. m, NEW j \in 1 .. m, i # j
      PROVE  Span(s[i]) \cap Span(s[j]) = {}
  <2>1. Cut(0, Leaf, e, i - 1) \cap Cut(0, Leaf, e, j - 1) = {}
    <3>1. i - 1 \in Int /\ j - 1 \in Int /\ i - 1 # j - 1 /\ 0 \in Int /\ Leaf \in Int /\ e \in Nat
      BY <1>1, <1>5
    <3>2. QED BY <3>1, CutApart
  <2>2. SUFFICES ASSUME NEW c \in Span(s[i]), c \in Span(s[j]) PROVE FALSE OBVIOUS
  <2>3. s[i] \in [at : Nat, lo : Int, hi : Int] /\ 0 <= s[i].lo /\ s[i].hi <= Leaf
        /\ s[j] \in [at : Nat, lo : Int, hi : Int] /\ 0 <= s[j].lo /\ s[j].hi <= Leaf
    BY <1>3 DEF Parts
  <2>4. c % Leaf \in s[i].lo .. s[i].hi - 1 /\ c % Leaf \in s[j].lo .. s[j].hi - 1
    BY <1>1, <2>2, <2>3, SpanBlock
  <2>5. QED BY <1>2, <2>1, <2>4
<1>6. ASSUME NEW j \in 0 .. Leaf - 1
      PROVE  \E k \in 1 .. m : s[k].at = p /\ s[k].lo <= j /\ j < s[k].hi
  <2>1. PICK i \in 0 .. m - 1 : j \in Cut(0, Leaf, e, i)
    <3>1. 0 \in Int /\ Leaf \in Int /\ m \in Int BY <1>1, <1>2
    <3>2. QED BY <1>1, <1>2, <3>1, CutAll
  <2>2. i + 1 \in 1 .. m /\ (i + 1) - 1 = i BY <1>2
  <2>3. j \in s[i + 1].lo .. s[i + 1].hi - 1 /\ s[i + 1].at = p BY <1>2, <2>1, <2>2
  <2>4. s[i + 1].lo \in Nat /\ s[i + 1].hi \in Nat BY <2>2, <1>3 DEF Parts
  <2>5. s[i + 1].lo <= j /\ j < s[i + 1].hi BY <2>3, <2>4
  <2>6. QED BY <2>2, <2>3, <2>5
<1>7. QED BY <1>2, <1>4, <1>5, <1>6 DEF Lists, s

LEMMA OtherBlocks ==
  ASSUME Leaf \in Nat \ {0}, NEW d \in Parts, NEW e \in Parts, d.at # e.at
  PROVE  Span(d) \cap Span(e) = {}
<1>1. d \in [at : Nat, lo : Int, hi : Int] /\ 0 <= d.lo /\ d.hi <= Leaf
      /\ e \in [at : Nat, lo : Int, hi : Int] /\ 0 <= e.lo /\ e.hi <= Leaf
  BY DEF Parts
<1>2. QED BY <1>1, SpanBlock

LEMMA NoneLists == Lists(<<>>, {}) BY DEF Lists

LEMMA JoinLists ==
  ASSUME Leaf \in Nat \ {0}, NEW s, NEW P, Lists(s, P), NEW z, NEW Q, Lists(z, Q),
         P \cap Q = {}
  PROVE  Lists(s \o z, P \cup Q)
<1> DEFINE w == s \o z
<1>1. s \in Seq(Parts) /\ z \in Seq(Parts) BY DEF Lists
<1>2. w \in Seq(Parts) /\ Len(w) = Len(s) + Len(z) /\ Len(s) \in Nat /\ Len(z) \in Nat
  BY <1>1
<1>3. \A k \in 1 .. Len(w) : \/ k \in 1 .. Len(s) /\ w[k] = s[k]
                             \/ k - Len(s) \in 1 .. Len(z) /\ w[k] = z[k - Len(s)]
  BY <1>1, <1>2
<1>4. /\ \A k \in 1 .. Len(s) : k \in 1 .. Len(w) /\ w[k] = s[k]
      /\ \A k \in 1 .. Len(z) : k + Len(s) \in 1 .. Len(w) /\ w[k + Len(s)] = z[k]
  BY <1>1, <1>2
<1> HIDE DEF w
<1>5. \A k \in 1 .. Len(s) : s[k] \in Parts /\ s[k].at \in P BY <1>1 DEF Lists
<1>6. \A k \in 1 .. Len(z) : z[k] \in Parts /\ z[k].at \in Q BY <1>1 DEF Lists
<1>7. ASSUME NEW k \in 1 .. Len(w), NEW m \in 1 .. Len(w), k # m
      PROVE  Span(w[k]) \cap Span(w[m]) = {}
  <2>1. \A i \in 1 .. Len(s), j \in 1 .. Len(z) :
          Span(s[i]) \cap Span(z[j]) = {} /\ Span(z[j]) \cap Span(s[i]) = {}
    <3>1. SUFFICES ASSUME NEW i \in 1 .. Len(s), NEW j \in 1 .. Len(z)
                   PROVE  Span(s[i]) \cap Span(z[j]) = {} /\ Span(z[j]) \cap Span(s[i]) = {}
      OBVIOUS
    <3>2. s[i].at # z[j].at BY <1>5, <1>6
    <3>3. QED BY <1>5, <1>6, <3>2, OtherBlocks
  <2>2. CASE k \in 1 .. Len(s) /\ w[k] = s[k]
    <3>1. CASE m \in 1 .. Len(s) /\ w[m] = s[m] BY <1>7, <2>2, <3>1 DEF Lists
    <3>2. CASE m - Len(s) \in 1 .. Len(z) /\ w[m] = z[m - Len(s)] BY <2>1, <2>2, <3>2
    <3>3. QED BY <1>3, <3>1, <3>2
  <2>3. CASE k - Len(s) \in 1 .. Len(z) /\ w[k] = z[k - Len(s)]
    <3>1. CASE m \in 1 .. Len(s) /\ w[m] = s[m] BY <2>1, <2>3, <3>1
    <3>2. CASE m - Len(s) \in 1 .. Len(z) /\ w[m] = z[m - Len(s)]
      <4>1. k - Len(s) # m - Len(s) BY <1>2, <1>7
      <4>2. \A i, j \in 1 .. Len(z) : i # j => Span(z[i]) \cap Span(z[j]) = {} BY DEF Lists
      <4>3. QED BY <4>1, <4>2, <2>3, <3>2
    <3>3. QED BY <1>3, <3>1, <3>2
  <2>4. QED BY <1>3, <2>2, <2>3
<1>8. ASSUME NEW p \in P \cup Q, NEW j \in 0 .. Leaf - 1
      PROVE  \E k \in 1 .. Len(w) : w[k].at = p /\ w[k].lo <= j /\ j < w[k].hi
  <2>1. CASE p \in P
    <3>1. PICK k \in 1 .. Len(s) : s[k].at = p /\ s[k].lo <= j /\ j < s[k].hi
      BY <2>1 DEF Lists
    <3>2. QED BY <3>1, <1>4
  <2>2. CASE p \in Q
    <3>1. PICK k \in 1 .. Len(z) : z[k].at = p /\ z[k].lo <= j /\ j < z[k].hi
      BY <2>2 DEF Lists
    <3>2. QED BY <3>1, <1>4
  <2>3. QED BY <2>1, <2>2
<1>9. \A k \in 1 .. Len(w) : w[k].at \in P \cup Q BY <1>3, <1>5, <1>6
<1>10. QED BY <1>2, <1>7, <1>8, <1>9 DEF Lists, w

(* f[i] are the first i sequences of s, joined.                             *)
IsFlatten(f, s, n) == f = [i \in 1 .. n |-> IF i = 1 THEN s[i] ELSE f[i - 1] \o s[i]]

LEMMA FlattenExists ==
  ASSUME NEW s, NEW n \in Nat
  PROVE  \E f : IsFlatten(f, s, n)
<1> DEFINE P == {k \in Nat : \E f : IsFlatten(f, s, k)}
<1>1. 0 \in P
  <2> DEFINE f == [i \in 1 .. 0 |-> s[i]]
  <2>1. IsFlatten(f, s, 0) BY DEF IsFlatten
  <2>2. QED BY <2>1
<1>2. ASSUME NEW k \in Nat, k \in P PROVE k + 1 \in P
  <2>1. PICK f : IsFlatten(f, s, k) BY <1>2
  <2> DEFINE F(g, i) == IF i = 1 THEN s[i] ELSE g[i - 1] \o s[i]
             u == [i \in 1 .. k + 1 |-> IF i = k + 1 THEN F(f, i) ELSE f[i]]
  <2>2. \A i \in 1 .. k : f[i] = F(f, i) BY <2>1 DEF IsFlatten
  <2>3. \A i \in 1 .. k + 1 : u[i] = F(u, i)
    <3>1. SUFFICES ASSUME NEW i \in 1 .. k + 1 PROVE u[i] = F(u, i) OBVIOUS
    <3>2. u[i] = F(f, i) BY <2>2
    <3>3. i # 1 => u[i - 1] = f[i - 1] OBVIOUS
    <3> HIDE DEF u
    <3>4. QED BY <3>2, <3>3
  <2>4. u = [i \in 1 .. k + 1 |-> u[i]] OBVIOUS
  <2> HIDE DEF u
  <2>5. IsFlatten(u, s, k + 1) BY <2>3, <2>4 DEF IsFlatten
  <2>6. QED BY <2>5
<1> HIDE DEF P
<1>3. Nat \subseteq P BY <1>1, <1>2, NatInd
<1>4. QED BY <1>3 DEF P

LEMMA FlattenLists ==
  ASSUME Leaf \in Nat \ {0}, NEW n \in Nat, NEW s, Len(s) = n, n = 0 => s = <<>>, NEW Q,
         \A i \in 1 .. n : Lists(s[i], Q[i]),
         \A i, j \in 1 .. n : i # j => Q[i] \cap Q[j] = {}
  PROVE  Lists(FlattenSeq(s), UNION {Q[i] : i \in 1 .. n})
<1>1. CASE n = 0
  <2>1. FlattenSeq(s) = <<>> BY <1>1 DEF FlattenSeq
  <2>2. UNION {Q[i] : i \in 1 .. n} = {} BY <1>1
  <2>3. QED BY <2>1, <2>2, NoneLists
<1>2. CASE n # 0
  <2> DEFINE f == CHOOSE g : IsFlatten(g, s, n)
             First(k) == UNION {Q[i] : i \in 1 .. k}
             P == {k \in Nat : k + 1 <= n => Lists(f[k + 1], First(k + 1))}
  <2>1. IsFlatten(f, s, n) BY FlattenExists
  <2>2. FlattenSeq(s) = f[n] BY <1>2 DEF FlattenSeq, IsFlatten
  <2> HIDE DEF f
  <2>3. \A i \in 1 .. n : f[i] = IF i = 1 THEN s[i] ELSE f[i - 1] \o s[i]
    BY <2>1 DEF IsFlatten
  <2>4. 0 \in P
    <3>1. 0 + 1 \in 1 .. n /\ 0 + 1 = 1 BY <1>2
    <3>2. f[1] = s[1] BY <2>3, <3>1
    <3>3. First(1) = Q[1] OBVIOUS
    <3> HIDE DEF First
    <3>4. Lists(f[1], First(1)) BY <3>1, <3>2, <3>3
    <3> HIDE DEF First
    <3>5. QED BY <3>1, <3>4
  <2>5. ASSUME NEW k \in Nat, k \in P PROVE k + 1 \in P
    <3>1. SUFFICES ASSUME k + 1 + 1 <= n PROVE Lists(f[k + 1 + 1], First(k + 1 + 1)) OBVIOUS
    <3> DEFINE m == k + 1
    <3>2. m \in 1 .. n /\ m + 1 \in 1 .. n /\ m + 1 # 1 /\ (m + 1) - 1 = m BY <3>1
    <3>3. Lists(f[m], First(m)) BY <2>5, <3>2
    <3> HIDE DEF m
    <3>4. f[m + 1] = f[m] \o s[m + 1] BY <2>3, <3>2
    <3>5. First(m + 1) = First(m) \cup Q[m + 1]
      <4>1. 1 .. m + 1 = (1 .. m) \cup {m + 1} BY <3>2
      <4>2. QED BY <4>1
    <3>6. First(m) \cap Q[m + 1] = {}
      <4>1. \A i \in 1 .. m : i \in 1 .. n /\ i # m + 1 BY <3>2
      <4>2. QED BY <3>2, <4>1
    <3>7. Lists(s[m + 1], Q[m + 1]) BY <3>2
    <3> HIDE DEF First
    <3>8. Lists(f[m + 1], First(m + 1)) BY <3>3, <3>4, <3>5, <3>6, <3>7, JoinLists
    <3>9. QED BY <3>8 DEF m
  <2> HIDE DEF P, First
  <2>6. Nat \subseteq P BY <2>4, <2>5, NatInd
  <2>7. n - 1 \in P /\ (n - 1) + 1 = n BY <1>2, <2>6
  <2>8. Lists(f[n], First(n)) BY <2>7 DEF P
  <2>9. QED BY <2>2, <2>8 DEF First
<1>3. QED BY <1>1, <1>2

LEMMA UnderLists ==
  ASSUME FieldOK, NEW lo \in Nat, NEW hi \in Nat, lo < hi, NEW e, e.lo = lo, e.hi = hi
  PROVE  Lists(ElementsUnder(e), field.on \cap (lo .. hi - 1))
<1> DEFINE n == hi - lo
           s == [m \in 1 .. n |-> ChildElements(lo + m - 1)]
           Q == [m \in 1 .. n |-> field.on \cap {lo + m - 1}]
<1>1. n \in Nat /\ Len(s) = n /\ n # 0 BY DEF s
<1>2. ElementsUnder(e) = FlattenSeq(s) BY DEF ElementsUnder
<1>3. ASSUME NEW i \in 1 .. n PROVE Lists(s[i], Q[i])
  <2> DEFINE p == lo + i - 1
  <2>1. s[i] = ChildElements(p) /\ Q[i] = field.on \cap {p} OBVIOUS
  <2> HIDE DEF s, Q, p
  <2>2. CASE p \in field.on
    <3>1. Q[i] = {p} BY <2>1, <2>2
    <3>2. QED BY <2>1, <2>2, <3>1, ChunksList DEF ChildElements
  <2>3. CASE p \notin field.on
    <3>1. Q[i] = {} BY <2>1, <2>3
    <3>2. QED BY <2>1, <2>3, <3>1, NoneLists DEF ChildElements
  <2>4. QED BY <2>2, <2>3
<1>4. \A i, j \in 1 .. n : i # j => Q[i] \cap Q[j] = {}
  <2>1. \A i, j \in 1 .. n : i # j => lo + i - 1 # lo + j - 1 BY <1>1
  <2>2. QED BY <2>1
<1>5. UNION {Q[i] : i \in 1 .. n} = field.on \cap (lo .. hi - 1)
  <2>1. \A p \in lo .. hi - 1 : p - lo + 1 \in 1 .. n /\ lo + (p - lo + 1) - 1 = p BY <1>1
  <2>2. \A i \in 1 .. n : lo + i - 1 \in lo .. hi - 1 BY <1>1
  <2>3. \A p \in lo .. hi - 1 : \E i \in 1 .. n : lo + i - 1 = p BY <2>1
  <2>4. \A i \in 1 .. n : Q[i] = field.on \cap {lo + i - 1} OBVIOUS
  <2> HIDE DEF Q, n
  <2>5. UNION {Q[i] : i \in 1 .. n} \subseteq field.on \cap (lo .. hi - 1) BY <2>2, <2>4
  <2>6. field.on \cap (lo .. hi - 1) \subseteq UNION {Q[i] : i \in 1 .. n} BY <2>3, <2>4
  <2>7. QED BY <2>5, <2>6
<1> HIDE DEF n, s, Q
<1>6. Leaf \in Nat \ {0} BY DEF FieldOK, Leaf
<1>7. Lists(FlattenSeq(s), UNION {Q[i] : i \in 1 .. n})
  BY <1>1, <1>3, <1>4, <1>6, FlattenLists
<1>8. QED BY <1>2, <1>5, <1>7

(* The list of the leaf block after its two listgen tasks.                  *)
LEMMA LeafLists ==
  ASSUME FieldOK, lists.blocks = Chunks(0, field.blocks)
  PROVE  Lists(LeafElements, field.on)
<1> DEFINE b == field.blocks
           e == ChunkSize(b)
           n == (b + e - 1) \div e
           r == Chunks(0, b)
           s == [k \in 1 .. n |-> ElementsUnder(r[k])]
           Q == [k \in 1 .. n |-> field.on \cap (r[k].lo .. r[k].hi - 1)]
<1>1. b \in Nat \ {0} /\ e \in Nat \ {0} BY ChunkSizes DEF FieldOK
<1>2. /\ n \in Nat /\ b <= 0 + n * e /\ Len(r) = n
      /\ r \in Seq([at : Nat, lo : Nat, hi : Nat])
      /\ \A i \in 1 .. n : /\ r[i].lo < r[i].hi /\ r[i].hi <= b
                          /\ r[i].lo .. r[i].hi - 1 = Cut(0, b, e, i - 1)
  BY <1>1, ChunksOf
<1> HIDE DEF b, e, r, n
<1>3. \A i \in 1 .. n : r[i].lo \in Nat /\ r[i].hi \in Nat
  <2> DEFINE R == [at : Nat, lo : Nat, hi : Nat]
  <2>1. \A x \in R : x.lo \in Nat /\ x.hi \in Nat OBVIOUS
  <2>2. r \in Seq(R) /\ Len(r) = n BY <1>2
  <2> HIDE DEF R
  <2>3. \A i \in 1 .. n : r[i] \in R BY <2>2
  <2>4. QED BY <2>1, <2>3
<1>4. LeafElements = FlattenSeq(s) BY <1>2 DEF LeafElements, r, b
<1>5. Len(s) = n /\ (n = 0 => s = <<>>) BY <1>2
<1>6. ASSUME NEW i \in 1 .. n PROVE Lists(s[i], Q[i]) BY <1>2, <1>3, UnderLists
<1>7. \A i, j \in 1 .. n : i # j => Q[i] \cap Q[j] = {}
  <2>1. SUFFICES ASSUME NEW i \in 1 .. n, NEW j \in 1 .. n, i # j PROVE Q[i] \cap Q[j] = {}
    OBVIOUS
  <2>2. i - 1 \in Int /\ j - 1 \in Int /\ i - 1 # j - 1 /\ 0 \in Int /\ b \in Int /\ e \in Nat
    BY <1>1, <1>2, <2>1
  <2>3. Cut(0, b, e, i - 1) \cap Cut(0, b, e, j - 1) = {} BY <2>2, CutApart
  <2>4. QED BY <1>2, <2>3
<1>8. UNION {Q[i] : i \in 1 .. n} = field.on
  <2>1. ASSUME NEW p \in field.on PROVE \E i \in 1 .. n : p \in Q[i]
    <3>1. p \in 0 .. b - 1 /\ 0 \in Int /\ b \in Int /\ n \in Int BY <1>1, <1>2 DEF FieldOK, b
    <3>2. PICK i \in 0 .. n - 1 : p \in Cut(0, b, e, i) BY <1>1, <1>2, <3>1, CutAll
    <3>3. i + 1 \in 1 .. n /\ (i + 1) - 1 = i BY <1>2
    <3>4. p \in Q[i + 1] BY <1>2, <3>2, <3>3
    <3>5. QED BY <3>3, <3>4
  <2>2. \A i \in 1 .. n : Q[i] \subseteq field.on OBVIOUS
  <2> HIDE DEF Q
  <2>3. QED BY <2>1, <2>2
<1> HIDE DEF s, Q
<1>9. Leaf \in Nat \ {0} BY DEF FieldOK, Leaf
<1>10. Lists(FlattenSeq(s), UNION {Q[i] : i \in 1 .. n})
  <2>1. n \in Nat BY <1>2
  <2> HIDE <1>2
  <2>2. QED BY <2>1, <1>5, <1>6, <1>7, <1>9, FlattenLists
<1>11. QED BY <1>4, <1>8, <1>10

(* Elements that begin at the same cell are the same.                       *)
LEMMA ListLength ==
  ASSUME FieldOK, NEW s, Lists(s, field.on)
  PROVE  Len(s) <= field.blocks * PartsPerBlock
<1> DEFINE n == Len(s)
           m == PartsPerBlock
           b == field.blocks
           A == 0 .. b - 1
           B == 0 .. m - 1
           g == [k \in 1 .. n |-> <<s[k].at, CHOOSE c \in B : s[k].lo = c * ElementSize>>]
<1>1. Leaf \in Nat \ {0} /\ ElementSize \in Nat \ {0} /\ b \in Nat \ {0}
  BY ChunkSizes DEF FieldOK, Leaf, ElementSize
<1>2. m \in Nat
  <2>1. Leaf + ElementSize - 1 \in Nat BY <1>1
  <2>2. \A x \in Nat, y \in Nat \ {0} : x \div y \in Nat OBVIOUS
  <2>3. QED BY <1>1, <2>1, <2>2 DEF PartsPerBlock
<1>3. n \in Nat /\ \A k \in 1 .. n : s[k] \in Parts /\ s[k].at \in A
  BY DEF Lists, FieldOK
<1> HIDE DEF n, m, b
<1>4. ASSUME NEW k \in 1 .. n
      PROVE  /\ g[k] \in A \X B /\ g[k][1] = s[k].at /\ s[k].lo = g[k][2] * ElementSize
             /\ s[k].at * Leaf + s[k].lo \in Span(s[k])
  <2>1. \E c \in B : s[k].lo = c * ElementSize BY <1>3 DEF Parts, m
  <2>2. g[k] \in A \X B /\ g[k][1] = s[k].at /\ s[k].lo = g[k][2] * ElementSize
    BY <1>3, <2>1
  <2>3. s[k].lo \in s[k].lo .. s[k].hi - 1 BY <1>3 DEF Parts
  <2>4. QED BY <2>2, <2>3 DEF Span
<1>5. g \in Injection(1 .. n, A \X B)
  <2>1. g \in [1 .. n -> A \X B] BY <1>4
  <2> HIDE DEF g
  <2>2. ASSUME NEW k \in 1 .. n, NEW l \in 1 .. n, g[k] = g[l] PROVE k = l
    <3>1. s[k].at = s[l].at /\ s[k].lo = s[l].lo BY <1>4, <2>2
    <3>2. Span(s[k]) \cap Span(s[l]) # {} BY <1>4, <3>1
    <3>3. QED BY <3>2 DEF Lists, n
  <2>3. QED BY <2>1, <2>2 DEF Injection, IsInjective
<1>6. IsFiniteSet(A) /\ Cardinality(A) = b /\ IsFiniteSet(B) /\ Cardinality(B) = m
      /\ IsFiniteSet(1 .. n) /\ Cardinality(1 .. n) = n
  <2>1. ASSUME NEW x \in Int, NEW y \in Int, y - x + 1 \in Nat
        PROVE  IsFiniteSet(x .. y) /\ Cardinality(x .. y) = y - x + 1
    <3>1. x > y => y - x + 1 = 0 BY <2>1
    <3>2. QED BY <3>1, FS_Interval
  <2>2. 0 \in Int /\ b - 1 \in Int /\ (b - 1) - 0 + 1 = b /\ b \in Nat BY <1>1
  <2>3. 0 \in Int /\ m - 1 \in Int /\ (m - 1) - 0 + 1 = m /\ m \in Nat BY <1>2
  <2>4. 1 \in Int /\ n \in Int /\ n - 1 + 1 = n /\ n \in Nat BY <1>3
  <2>5. IsFiniteSet(A) /\ Cardinality(A) = b BY <2>1, <2>2
  <2>6. IsFiniteSet(B) /\ Cardinality(B) = m BY <2>1, <2>3
  <2>7. IsFiniteSet(1 .. n) /\ Cardinality(1 .. n) = n BY <2>1, <2>4
  <2>8. QED BY <2>5, <2>6, <2>7
<1>7. IsFiniteSet(A \X B) /\ Cardinality(A \X B) = b * m
  <2> HIDE DEF A, B
  <2>1. QED BY <1>6, FS_Product
<1>8. n <= b * m BY <1>5, <1>6, <1>7, FS_Injection
<1>9. QED BY <1>8 DEF n, b, m

----------------------------------------------------------------------------
(* The tasks of a struct-for *)

LEMMA Splits ==
  ASSUME FieldOK, NEW l \in StructLoops
  PROVE  NumSplits(l) \in Nat \ {0} /\ ElementSize \div NumSplits(l) \in Nat
<1>1. ElementSize \in Nat \ {0} /\ Leaf \in Nat \ {0}
  BY ChunkSizes DEF FieldOK, Leaf, ElementSize
<1>2. l.block \in Nat /\ GpuBlock \in Nat \ {0} /\ field.blocks \in Nat \ {0}
  BY LoopAssumption DEF StructLoops, FieldOK
<1>3. StructBlock(l) \in Nat \ {0} BY <1>1, <1>2 DEF StructBlock, Least
<1> DEFINE e == ElementSize
           b == StructBlock(l)
           q == e \div b
<1>4. q \in Nat
  <2>1. e \in Nat /\ b \in Nat \ {0} BY <1>1, <1>3
  <2> HIDE DEF e, b
  <2>2. QED BY <2>1
<1>5. NumSplits(l) = Most(1, q + (IF e % b # 0 THEN 1 ELSE 0)) BY DEF NumSplits
<1> HIDE DEF q
<1>6. NumSplits(l) \in Nat \ {0} BY <1>4, <1>5 DEF Most
<1> DEFINE n == NumSplits(l)
<1>7. n \in Nat \ {0} /\ e \in Nat BY <1>1, <1>6
<1> HIDE DEF n, e
<1>8. e \div n \in Nat BY <1>7
<1>9. QED BY <1>6, <1>8 DEF n, e

(* Task i is part m of element k.                                           *)
LEMMA StructTaskOf ==
  ASSUME FieldOK, NEW l \in StructLoops, lists.leaf \in Seq(Parts),
         NEW i \in 0 .. Tasks(l) - 1
  PROVE  LET n == NumSplits(l)
             k == i \div n + 1
             e == lists.leaf[k]
             size == ElementSize \div n
         IN  /\ i \in Nat /\ k \in 1 .. Len(lists.leaf) /\ i % n \in 0 .. n - 1
             /\ Tasks(l) = Len(lists.leaf) * n
             /\ i = (i \div n) * n + (i % n)
             /\ Task(l, i) \in [at : Nat, lo : Nat, hi : Int]
             /\ Task(l, i).at = e.at /\ Task(l, i).hi <= Leaf
             /\ Task(l, i).lo .. Task(l, i).hi - 1 = Cut(e.lo, e.hi, size, i % n)
<1> DEFINE n == NumSplits(l)
           h == Len(lists.leaf)
           k == i \div n + 1
           e == lists.leaf[k]
           size == ElementSize \div n
           m == i % n
<1>1. n \in Nat \ {0} /\ size \in Nat BY Splits
<1>2. h \in Nat OBVIOUS
<1>3. Tasks(l) = h * n BY DEF StructLoops, Tasks, StructTasks
<1>4. h * n \in Nat /\ i \in Nat /\ i < h * n
  <2>1. h * n \in Nat BY <1>1, <1>2
  <2> HIDE DEF n, h
  <2>2. QED BY <1>3, <2>1
<1>5. m \in 0 .. n - 1 /\ i = (i \div n) * n + m /\ i \div n \in Nat
  <2> HIDE DEF n
  <2>1. QED BY <1>1, <1>4
<1>6. i \div n < h
  <2> DEFINE q == i \div n
  <2>1. q \in Nat /\ i = q * n + m /\ m \in Nat BY <1>5
  <2> HIDE DEF q, n, h, m
  <2>2. SUFFICES ASSUME h <= q PROVE FALSE BY <2>1, <1>2 DEF q
  <2> DEFINE d == q - h
  <2>3. d \in Nat /\ q = h + d BY <2>1, <2>2, <1>2
  <2> HIDE DEF d
  <2>4. q * n = h * n + d * n /\ d * n \in Nat BY <2>3, <1>1, <1>2
  <2>5. QED BY <2>1, <2>4, <1>4
<1>7. k \in 1 .. h BY <1>2, <1>5, <1>6
<1>8. e \in Parts
  <2> HIDE DEF k
  <2>1. QED BY <1>7
<1>9. Task(l, i) = [at |-> e.at, lo |-> e.lo + m * size, hi |-> Least(e.lo + m * size + size, e.hi)]
  BY DEF StructLoops, Task, StructTask
<1> DEFINE o == e.lo + m * size
<1>10. o \in Nat /\ e.at \in Nat /\ e.hi \in Nat /\ e.hi <= Leaf /\ Leaf \in Nat
  <2>1. e.lo \in Nat /\ e.at \in Nat /\ e.hi \in Nat /\ e.hi <= Leaf BY <1>8 DEF Parts
  <2>2. m * size \in Nat
    <3>1. m \in Nat BY <1>1, <1>5
    <3> HIDE DEF m, size
    <3>2. QED BY <3>1, <1>1
  <2>3. Leaf \in Nat BY DEF FieldOK, Leaf
  <2> HIDE DEF e, m, size
  <2>4. QED BY <2>1, <2>2, <2>3
<1>11. Task(l, i) = [at |-> e.at, lo |-> o, hi |-> Least(o + size, e.hi)] BY <1>9
<1>12. Cut(e.lo, e.hi, size, m) = o .. Least(o + size, e.hi) - 1 BY DEF Cut
<1> HIDE DEF e, m, size, o
<1>13. Least(o + size, e.hi) \in Int /\ Least(o + size, e.hi) <= Leaf BY <1>1, <1>10 DEF Least
<1>14. /\ Task(l, i) \in [at : Nat, lo : Nat, hi : Int]
       /\ Task(l, i).at = e.at /\ Task(l, i).hi <= Leaf
       /\ Task(l, i).lo .. Task(l, i).hi - 1 = Cut(e.lo, e.hi, size, m)
  BY <1>10, <1>11, <1>12, <1>13
<1>15. QED BY <1>3, <1>4, <1>5, <1>7, <1>14 DEF e, m, size

Inside(S) == {c \in AllCells : BlockOf(c) \in S}

LEMMA StructTasksOf ==
  ASSUME FieldOK, loop \in StructLoops, Lists(lists.leaf, field.on)
  PROVE  TasksApart /\ TasksIn(Inside(field.on))
         /\ (SplitsEvenly(loop) => TasksCover(Inside(field.on)))
<1> DEFINE n == NumSplits(loop)
           K(i) == i \div n + 1
           M(i) == i % n
           E(k) == lists.leaf[k]
           size == ElementSize \div n
           h == Len(lists.leaf)
<1>1. lists.leaf \in Seq(Parts) /\ h \in Nat BY DEF Lists
<1>2. n \in Nat \ {0} /\ size \in Nat /\ Leaf \in Nat \ {0} BY Splits DEF FieldOK, Leaf
<1>3. ASSUME NEW i \in 0 .. Tasks(loop) - 1
      PROVE  /\ i \in Nat /\ K(i) \in 1 .. h /\ M(i) \in 0 .. n - 1
             /\ Tasks(loop) = h * n /\ i = (i \div n) * n + M(i)
             /\ Task(loop, i) \in [at : Nat, lo : Nat, hi : Int]
             /\ Task(loop, i).at = E(K(i)).at /\ Task(loop, i).hi <= Leaf
             /\ Task(loop, i).lo .. Task(loop, i).hi - 1
                  = Cut(E(K(i)).lo, E(K(i)).hi, size, M(i))
  BY <1>1, StructTaskOf
<1>4. \A k \in 1 .. h : /\ E(k) \in Parts /\ E(k).at \in field.on /\ E(k).at \in Nat
                        /\ E(k).lo \in Nat /\ E(k).hi \in Nat /\ E(k).hi <= Leaf
                        /\ E(k).hi <= E(k).lo + ElementSize
  <2>1. \A k \in 1 .. h : E(k) \in Parts /\ E(k).at \in field.on BY <1>1 DEF Lists
  <2>2. QED BY <2>1 DEF Parts
<1> HIDE DEF n, size, h, E, K, M
<1>5. ASSUME NEW i \in 0 .. Tasks(loop) - 1 PROVE Todo(i) \subseteq Span(E(K(i)))
  <2>1. Cut(E(K(i)).lo, E(K(i)).hi, size, M(i)) \subseteq E(K(i)).lo .. E(K(i)).hi - 1
    <3>1. M(i) \in Nat /\ E(K(i)).lo \in Int /\ E(K(i)).hi \in Int BY <1>2, <1>3, <1>4
    <3>2. QED BY <3>1, <1>2, CutInside
  <2>2. Task(loop, i).at = E(K(i)).at
        /\ Task(loop, i).lo .. Task(loop, i).hi - 1 \subseteq E(K(i)).lo .. E(K(i)).hi - 1
    BY <1>3, <2>1
  <2>3. QED BY <2>2 DEF Todo, Span
<1>6. TasksApart
  <2>1. SUFFICES ASSUME NEW i \in 0 .. Tasks(loop) - 1, NEW j \in 0 .. Tasks(loop) - 1, i # j
                 PROVE  Todo(i) \cap Todo(j) = {}
    BY DEF TasksApart
  <2>2. CASE K(i) # K(j)
    <3>1. Span(E(K(i))) \cap Span(E(K(j))) = {} BY <2>2, <1>3 DEF Lists, E, h
    <3>2. QED BY <3>1, <1>5
  <2>3. CASE K(i) = K(j)
    <3>1. M(i) # M(j)
      <4>1. i \div n = j \div n
        <5>1. i \div n \in Int /\ j \div n \in Int BY <1>2, <1>3
        <5>2. QED BY <5>1, <2>3 DEF K
      <4>2. QED BY <4>1, <1>3, <2>1
    <3>2. Cut(E(K(i)).lo, E(K(i)).hi, size, M(i)) \cap Cut(E(K(i)).lo, E(K(i)).hi, size, M(j)) = {}
      <4>1. M(i) \in Int /\ M(j) \in Int
        <5>1. \A x \in 0 .. n - 1 : x \in Int OBVIOUS
        <5>2. M(i) \in 0 .. n - 1 /\ M(j) \in 0 .. n - 1 BY <1>3
        <5>3. QED BY <5>1, <5>2
      <4>3. K(i) \in 1 .. h BY <1>3
      <4>4. E(K(i)).lo \in Int /\ E(K(i)).hi \in Int BY <4>3, <1>4
      <4>2. QED BY <4>1, <4>4, <3>1, <1>2, CutApart
    <3>3. SUFFICES ASSUME NEW c \in Todo(i), c \in Todo(j) PROVE FALSE OBVIOUS
    <3>4. c % Leaf \in Task(loop, i).lo .. Task(loop, i).hi - 1
      <4>1. Task(loop, i) \in [at : Nat, lo : Int, hi : Int] /\ 0 <= Task(loop, i).lo
            /\ Task(loop, i).hi <= Leaf /\ c \in Span(Task(loop, i))
        BY <1>3, <3>3 DEF Todo
      <4>2. QED BY <4>1, <1>2, SpanBlock
    <3>5. c % Leaf \in Task(loop, j).lo .. Task(loop, j).hi - 1
      <4>1. Task(loop, j) \in [at : Nat, lo : Int, hi : Int] /\ 0 <= Task(loop, j).lo
            /\ Task(loop, j).hi <= Leaf /\ c \in Span(Task(loop, j))
        BY <1>3, <3>3 DEF Todo
      <4>2. QED BY <4>1, <1>2, SpanBlock
    <3>6. QED BY <1>3, <2>3, <3>2, <3>4, <3>5
  <2>4. QED BY <2>2, <2>3
<1>7. TasksIn(Inside(field.on))
  <2>1. SUFFICES ASSUME NEW i \in 0 .. Tasks(loop) - 1, NEW c \in Todo(i)
                 PROVE  c \in Inside(field.on)
    BY DEF TasksIn
  <2>2. c \in Span(E(K(i))) /\ E(K(i)) \in [at : Nat, lo : Int, hi : Int]
        /\ 0 <= E(K(i)).lo /\ E(K(i)).hi <= Leaf
    BY <1>3, <1>4, <1>5, <2>1 DEF Parts
  <2>3. c \in Nat /\ BlockOf(c) = E(K(i)).at BY <1>2, <2>2, SpanBlock
  <2>4. BlockOf(c) \in field.on BY <1>3, <1>4, <2>3
  <2>5. c \in AllCells
    <3> DEFINE p == c \div Leaf
               b == field.blocks
               e == Leaf
    <3>1. p \in 0 .. b - 1 /\ b \in Nat /\ e \in Nat \ {0} BY <1>2, <2>4 DEF FieldOK, BlockOf
    <3>2. c < p * e + e BY <1>2, <2>3
    <3> DEFINE d == b - (p + 1)
    <3> HIDE DEF p, b, e
    <3>3. d \in Nat /\ b = p + 1 + d BY <3>1
    <3> HIDE DEF d
    <3>4. b * e = p * e + e + d * e /\ d * e \in Nat BY <3>1, <3>3
    <3>5. p * e \in Int BY <3>1
    <3>6. c < b * e BY <2>3, <3>1, <3>2, <3>4, <3>5
    <3>7. QED BY <2>3, <3>1, <3>6 DEF AllCells, b, e
  <2>6. QED BY <2>4, <2>5 DEF Inside
<1>8. ASSUME SplitsEvenly(loop), NEW c \in Inside(field.on)
      PROVE  \E i \in 0 .. Tasks(loop) - 1 : c \in Todo(i)
  <2>1. c \in Nat /\ BlockOf(c) \in field.on
    <3>1. field.blocks * Leaf \in Int BY <1>2 DEF FieldOK
    <3>2. QED BY <1>8, <3>1 DEF Inside, AllCells
  <2> DEFINE j == c % Leaf
             p == BlockOf(c)
  <2>2. j \in 0 .. Leaf - 1 /\ c = p * Leaf + j /\ p \in Nat
    <3> DEFINE e == Leaf
    <3>1. e \in Nat \ {0} BY <1>2
    <3> HIDE DEF e
    <3>2. c % e \in 0 .. e - 1 /\ c = (c \div e) * e + (c % e) /\ c \div e \in Nat
      BY <2>1, <3>1
    <3>3. QED BY <3>2 DEF e, BlockOf
  <2> HIDE DEF j, p
  <2>3. PICK k \in 1 .. h : E(k).at = p /\ E(k).lo <= j /\ j < E(k).hi
    BY <2>1, <2>2 DEF Lists, E, h, p
  <2>4. ElementSize = size * n /\ size # 0
    <3> DEFINE s == ElementSize
    <3>1. s \in Nat \ {0} /\ s % n = 0 /\ size = s \div n
      BY <1>2, <1>8, ChunkSizes DEF SplitsEvenly, ElementSize, n, size
    <3> HIDE DEF s, n, size
    <3>2. s = size * n BY <3>1, <1>2
    <3>3. QED BY <3>1, <3>2, <1>2 DEF s
  <2>5. PICK m \in 0 .. n - 1 : j \in Cut(E(k).lo, E(k).hi, size, m)
    <3>1. size * n = n * size BY <1>2
    <3>2. E(k).hi <= E(k).lo + n * size BY <2>4, <3>1, <1>4
    <3>3. E(k).lo \in Int /\ E(k).hi \in Int /\ size \in Nat \ {0} /\ n \in Int
          /\ j \in E(k).lo .. E(k).hi - 1
      BY <1>2, <1>4, <2>2, <2>3, <2>4
    <3>4. QED BY <3>2, <3>3, CutAll
  <2> DEFINE i == (k - 1) * n + m
  <2>6. i \div n = k - 1 /\ i % n = m
    <3>1. k - 1 \in Int BY <1>1
    <3>2. QED BY <3>1, <1>2, Block
  <2>7. Tasks(loop) = h * n BY DEF StructLoops, Tasks, StructTasks, h, n
  <2>8. i \in 0 .. Tasks(loop) - 1
    <3> DEFINE d == h - k
    <3>1. d \in Nat /\ h = (k - 1) + 1 + d /\ k - 1 \in Nat BY <1>1
    <3> HIDE DEF d
    <3>2. h * n = (k - 1) * n + n + d * n /\ d * n \in Nat /\ (k - 1) * n \in Nat BY <3>1, <1>2
    <3>3. m \in Nat /\ m < n BY <1>2
    <3>4. QED BY <2>7, <3>2, <3>3, <1>2
  <2> HIDE DEF i
  <2>9. K(i) = k /\ M(i) = m BY <2>6, <1>1 DEF K, M
  <2>10. Task(loop, i).at = p /\ j \in Task(loop, i).lo .. Task(loop, i).hi - 1
    BY <1>3, <2>3, <2>5, <2>8, <2>9
  <2>11. c \in Todo(i) BY <2>2, <2>10 DEF Todo, Span
  <2>12. QED BY <2>8, <2>11
<1>9. QED BY <1>6, <1>7, <1>8 DEF TasksCover

----------------------------------------------------------------------------
(* Indices that wait in a task, are in the hand of a thread, or are visited  *)

(* todo[i] for the tasks P, hand[t] for the threads, and V are disjoint.     *)
Split(P, todo, hand, V) ==
  /\ \A i, j \in P : i # j => todo[i] \cap todo[j] = {}
  /\ \A t, u \in Threads : t # u => hand[t] \cap hand[u] = {}
  /\ \A t \in Threads, i \in P : hand[t] \cap todo[i] = {}
  /\ \A t \in Threads : hand[t] \cap V = {}
  /\ \A i \in P : todo[i] \cap V = {}

Whole(P, todo, hand, V) ==
  V \cup (UNION {hand[t] : t \in Threads}) \cup (UNION {todo[i] : i \in P})

LEMMA SplitPick ==
  ASSUME NEW P, NEW todo, NEW hand, NEW new, NEW V, NEW t, NEW i,
         Split(P, todo, hand, V), t \in Threads, i \in P, hand[t] = {},
         new[t] = todo[i], \A u \in Threads : u # t => new[u] = hand[u]
  PROVE  /\ Split(P \ {i}, todo, new, V)
         /\ Whole(P \ {i}, todo, new, V) = Whole(P, todo, hand, V)
<1>1. new[t] = todo[i] /\ \A u \in Threads : u # t => new[u] = hand[u] OBVIOUS
<1>2. Split(P \ {i}, todo, new, V)
  <2>1. \A u, v \in Threads : u # v => new[u] \cap new[v] = {}
    <3>1. SUFFICES ASSUME NEW u \in Threads, NEW v \in Threads, u # v PROVE new[u] \cap new[v] = {}
      OBVIOUS
    <3>2. CASE u = t BY <1>1, <3>1, <3>2 DEF Split
    <3>3. CASE v = t BY <1>1, <3>1, <3>3 DEF Split
    <3>4. CASE u # t /\ v # t BY <1>1, <3>1, <3>4 DEF Split
    <3>5. QED BY <3>2, <3>3, <3>4
  <2>2. \A u \in Threads, j \in P \ {i} : new[u] \cap todo[j] = {} BY <1>1 DEF Split
  <2>3. \A u \in Threads : new[u] \cap V = {} BY <1>1 DEF Split
  <2>4. QED BY <2>1, <2>2, <2>3 DEF Split
<1>3. (UNION {new[u] : u \in Threads}) \cup (UNION {todo[j] : j \in P \ {i}})
      = (UNION {hand[u] : u \in Threads}) \cup (UNION {todo[j] : j \in P})
  <2> DEFINE L == (UNION {new[u] : u \in Threads}) \cup (UNION {todo[j] : j \in P \ {i}})
             R == (UNION {hand[u] : u \in Threads}) \cup (UNION {todo[j] : j \in P})
  <2>1. \A u \in Threads : new[u] \subseteq R
    <3>1. SUFFICES ASSUME NEW u \in Threads PROVE new[u] \subseteq R OBVIOUS
    <3>2. CASE u = t BY <1>1, <3>2
    <3>3. CASE u # t BY <1>1, <3>3
    <3>4. QED BY <3>2, <3>3
  <2>2. \A u \in Threads : hand[u] \subseteq L
    <3>1. SUFFICES ASSUME NEW u \in Threads PROVE hand[u] \subseteq L OBVIOUS
    <3>2. CASE u = t BY <3>2
    <3>3. CASE u # t BY <1>1, <3>3
    <3>4. QED BY <3>2, <3>3
  <2>3. \A j \in P : todo[j] \subseteq L
    <3>1. SUFFICES ASSUME NEW j \in P PROVE todo[j] \subseteq L OBVIOUS
    <3>2. CASE j = i BY <1>1, <3>2
    <3>3. CASE j # i BY <3>3
    <3>4. QED BY <3>2, <3>3
  <2>4. \A j \in P \ {i} : todo[j] \subseteq R OBVIOUS
  <2>5. L \subseteq R
    <3> HIDE DEF R
    <3>1. QED BY <2>1, <2>4
  <2>6. R \subseteq L
    <3> HIDE DEF L
    <3>1. QED BY <2>2, <2>3
  <2>7. QED BY <2>5, <2>6
<1>4. Whole(P \ {i}, todo, new, V) = Whole(P, todo, hand, V) BY <1>3 DEF Whole
<1>5. QED BY <1>2, <1>4

\* Thread t has one index less in its hand.
Taken(hand, new, t, c) ==
  /\ c \in hand[t] /\ new[t] = hand[t] \ {c}
  /\ \A u \in Threads : u # t => new[u] = hand[u]

\* What is split stays split when c leaves a hand, for the visited or not.
Leaving(P, todo, hand, new, V, c) ==
  /\ c \notin V /\ c \in Whole(P, todo, hand, V)
  /\ Split(P, todo, new, V) /\ Split(P, todo, new, V \cup {c})
  /\ Whole(P, todo, new, V \cup {c}) = Whole(P, todo, hand, V)
  /\ Whole(P, todo, new, V) \subseteq Whole(P, todo, hand, V)
  /\ Whole(P, todo, hand, V) \subseteq Whole(P, todo, new, V) \cup {c}

LEMMA SplitTake ==
  ASSUME NEW P, NEW todo, NEW hand, NEW new, NEW V, NEW t, NEW c,
         Split(P, todo, hand, V), t \in Threads, Taken(hand, new, t, c)
  PROVE  Leaving(P, todo, hand, new, V, c)
<1>1. /\ c \in hand[t] /\ new[t] = hand[t] \ {c}
      /\ \A u \in Threads : u # t => new[u] = hand[u]
  BY DEF Taken
<1>2. \A u \in Threads : new[u] \subseteq hand[u]
  <2>1. SUFFICES ASSUME NEW u \in Threads PROVE new[u] \subseteq hand[u] OBVIOUS
  <2>2. CASE u = t BY <1>1, <2>2
  <2>3. CASE u # t BY <1>1, <2>3
  <2>4. QED BY <2>2, <2>3
<1>3. \A u \in Threads : c \notin new[u]
  <2>1. SUFFICES ASSUME NEW u \in Threads PROVE c \notin new[u] OBVIOUS
  <2>2. CASE u = t BY <1>1, <2>2
  <2>3. CASE u # t BY <1>1, <2>3 DEF Split
  <2>4. QED BY <2>2, <2>3
<1>4. c \notin V /\ \A i \in P : c \notin todo[i] BY <1>1 DEF Split
<1>5. Split(P, todo, new, V) BY <1>2 DEF Split
<1>6. Split(P, todo, new, V \cup {c}) BY <1>3, <1>4, <1>5 DEF Split
<1>7. Whole(P, todo, new, V) \subseteq Whole(P, todo, hand, V)
  <2>1. (UNION {new[u] : u \in Threads}) \subseteq (UNION {hand[u] : u \in Threads}) BY <1>2
  <2>2. QED BY <2>1 DEF Whole
<1>8. c \in Whole(P, todo, hand, V) BY <1>1 DEF Whole
<1>9. \A u \in Threads : hand[u] \subseteq new[u] \cup {c}
  <2>1. SUFFICES ASSUME NEW u \in Threads PROVE hand[u] \subseteq new[u] \cup {c} OBVIOUS
  <2>2. CASE u = t BY <1>1, <2>2
  <2>3. CASE u # t BY <1>1, <2>3
  <2>4. QED BY <2>2, <2>3
<1>10. (UNION {hand[u] : u \in Threads}) \subseteq (UNION {new[u] : u \in Threads}) \cup {c}
  BY <1>9
<1>11. Whole(P, todo, hand, V) \subseteq Whole(P, todo, new, V) \cup {c} BY <1>10 DEF Whole
<1>12. Whole(P, todo, new, V \cup {c}) = Whole(P, todo, new, V) \cup {c} BY DEF Whole
<1>13. Whole(P, todo, new, V \cup {c}) = Whole(P, todo, hand, V) BY <1>7, <1>8, <1>11, <1>12
<1>14. QED BY <1>4, <1>5, <1>6, <1>7, <1>8, <1>11, <1>13 DEF Leaving

----------------------------------------------------------------------------
(* The invariant *)

Steps == {"idle", "clear_blocks", "list_blocks", "clear_leaf", "list_leaf", "loop", "running"}
Listing == {"clear_blocks", "list_blocks", "clear_leaf", "list_leaf"}

FieldInv ==
  /\ field \in [blocks : Nat \ {0}, leaf : Nat \ {0}, type : {"dense", "bitmasked"},
               on : SUBSET Int, mask : SUBSET Int]
  /\ FieldOK
  /\ field.mask \subseteq UNION {Cells(p) : p \in field.on}

\* The lists are rebuilt one after the other; when the loop begins, the last one
\* lists the active blocks.
ListInv ==
  /\ lists \in [blocks : Seq([at : Nat, lo : Nat, hi : Nat]), leaf : Seq(Parts)]
  /\ Len(lists.leaf) <= field.blocks * PartsPerBlock
  /\ step = "list_blocks" => lists.blocks = <<>>
  /\ step \in {"clear_leaf", "list_leaf"} => lists.blocks = Chunks(0, field.blocks)
  /\ step = "list_leaf" => lists.leaf = <<>>
  /\ step = "loop" /\ loop.kind = "struct" => Lists(lists.leaf, field.on)

\* The pool has a call while the kernel is in its loop, and only then.
StageInv ==
  /\ step \in Steps
  /\ loop \in FlatLoops \cup StructLoops \cup {NoLoop}
  /\ loop = NoLoop => step = "idle"
  /\ step \in Listing => loop.kind = "struct"
  /\ step \notin {"idle", "running"} \/ loop = NoLoop => visits = EmptyBag /\ total = 0
  /\ step # "running" => /\ call = Pool!Idle /\ pending = {}
                         /\ \A t \in Threads : active[t] = Pool!Resting
  /\ step = "running" => call # Pool!Idle /\ pending \subseteq 0 .. Tasks(loop) - 1
  /\ DOMAIN active = Threads
  /\ \A t \in Threads : active[t] = Pool!Resting => cursor[t] = NoTask

Visited == BagToSet(visits)

WorkInv ==
  /\ cursor \in [Threads -> [at : Nat, lo : Int, hi : Int]]
  /\ loop.kind # "struct" => \A t \in Threads : cursor[t].at = 0
  /\ tls \in [Threads -> Int] /\ total \in Int
  /\ Visited \subseteq Int /\ IsFiniteSet(Visited) /\ visits \in [Visited -> Nat \ {0}]

\* The loops the sharing is about, what they may run the body for, and must.
Bounded == loop \in StructLoops \/ (loop \in FlatLoops /\ BoundsFit(loop))
Room == IF loop.kind = "struct" THEN Inside(field.on) ELSE Indices(loop)
Goal == IF loop.kind = "struct" THEN (IF SplitsEvenly(loop) THEN due ELSE {})
                                ELSE Indices(loop)

Hands == [t \in Threads |-> Span(cursor[t])]
Todos == [i \in 0 .. Tasks(loop) - 1 |-> Todo(i)]
All == Whole(pending, Todos, Hands, Visited)

Sharing ==
  Bounded =>
    /\ Split(pending, Todos, Hands, Visited)
    /\ \A c \in Visited : visits[c] = 1
    /\ step \in {"idle", "running"} => Goal \subseteq All
    /\ step = "running" => All \subseteq Room
    /\ loop.kind # "struct" => Visited \subseteq Room

Activity ==
  loop.kind = "struct" =>
    /\ step # "idle" => due \subseteq ActiveCells
    /\ step = "running" => \A c \in Visited : IsActive(c)

LInv == FieldInv /\ ListInv /\ StageInv /\ WorkInv /\ Sharing /\ Activity

----------------------------------------------------------------------------
(* The field *)

LEMMA CellBlock ==
  ASSUME FieldOK, NEW c \in AllCells
  PROVE  c \in Nat /\ BlockOf(c) \in 0 .. field.blocks - 1 /\ c \in Cells(BlockOf(c))
<1> DEFINE b == field.blocks
           e == field.leaf
           p == c \div e
<1>1. b \in Nat \ {0} /\ e \in Nat \ {0} BY DEF FieldOK
<1>2. c \in 0 .. b * e - 1 BY DEF AllCells, Leaf
<1> HIDE DEF b, e
<1>3. b * e \in Nat BY <1>1
<1>4. c \in Nat /\ c < b * e BY <1>2, <1>3
<1>5. p \in Nat /\ p * e <= c /\ c < p * e + e BY <1>1, <1>4
<1>6. p < b
  <2> HIDE DEF p
  <2>1. SUFFICES ASSUME b <= p PROVE FALSE BY <1>1, <1>5
  <2> DEFINE d == p - b
  <2>2. d \in Nat /\ p = b + d BY <2>1, <1>1, <1>5
  <2> HIDE DEF d
  <2>3. p * e = b * e + d * e /\ d * e \in Nat BY <2>2, <1>1
  <2>4. QED BY <2>3, <1>3, <1>4, <1>5, <1>1
<1>7. p * e \in Nat BY <1>1, <1>5
<1>8. c \in p * e .. p * e + e - 1 BY <1>1, <1>4, <1>5, <1>7
<1> HIDE DEF p
<1>9. p \in 0 .. b - 1 BY <1>1, <1>5, <1>6
<1>10. QED BY <1>4, <1>8, <1>9 DEF BlockOf, Cells, Leaf, p, e, b

LEMMA WrittenField ==
  ASSUME FieldInv, NEW c \in AllCells, field' = Written(field, c)
  PROVE  /\ FieldInv' /\ field'.leaf = field.leaf /\ field'.blocks = field.blocks
         /\ field'.type = field.type
         /\ field.on \subseteq field'.on /\ field.mask \subseteq field'.mask
<1>1. c \in Nat /\ BlockOf(c) \in 0 .. field.blocks - 1 /\ c \in Cells(BlockOf(c))
  BY CellBlock DEF FieldInv
<1> DEFINE m == IF field.type = "bitmasked" THEN field.mask \cup {c} ELSE field.mask
<1>2. field' = [field EXCEPT !.on = field.on \cup {BlockOf(c)}, !.mask = m]
  BY DEF Written, BlockOf, Leaf
<1>3. m \subseteq field.mask \cup {c} /\ field.mask \subseteq m OBVIOUS
<1> HIDE DEF m
<1>4. /\ field'.leaf = field.leaf /\ field'.blocks = field.blocks /\ field'.type = field.type
      /\ field'.on = field.on \cup {BlockOf(c)} /\ field'.mask = m
  BY <1>2 DEF FieldInv
<1>5. field' \in [blocks : Nat \ {0}, leaf : Nat \ {0}, type : {"dense", "bitmasked"},
                on : SUBSET Int, mask : SUBSET Int]
  <2>1. BlockOf(c) \in Int /\ c \in Int /\ m \in SUBSET Int BY <1>1, <1>3 DEF FieldInv
  <2>2. field.on \cup {BlockOf(c)} \in SUBSET Int BY <2>1 DEF FieldInv
  <2>3. QED BY <1>2, <2>1, <2>2 DEF FieldInv
<1>6. FieldOK' BY <1>1, <1>4 DEF FieldInv, FieldOK
<1>7. \A p : Cells(p)' = Cells(p) BY <1>4 DEF Cells, Leaf
<1>8. (field.mask \subseteq UNION {Cells(p) : p \in field.on})'
  <2>1. \A x \in m : \E p \in field'.on : x \in Cells(p)
    <3>1. SUFFICES ASSUME NEW x \in m PROVE \E p \in field'.on : x \in Cells(p) OBVIOUS
    <3>2. CASE x = c BY <1>1, <1>4, <3>2
    <3>3. CASE x # c
      <4>1. PICK p \in field.on : x \in Cells(p) BY <1>3, <3>1, <3>3 DEF FieldInv
      <4>2. QED BY <1>4, <4>1
    <3>4. QED BY <3>2, <3>3
  <2>2. QED BY <1>4, <1>7, <2>1
<1>9. QED BY <1>3, <1>4, <1>5, <1>6, <1>8 DEF FieldInv

LEMMA DeactivatedField ==
  ASSUME FieldInv, NEW p \in field.on,
         field' = [field EXCEPT !.on = @ \ {p}, !.mask = @ \ Cells(p)]
  PROVE  FieldInv' /\ field'.leaf = field.leaf /\ field'.blocks = field.blocks
<1>1. /\ field'.leaf = field.leaf /\ field'.blocks = field.blocks /\ field'.type = field.type
      /\ field'.on = field.on \ {p} /\ field'.mask = field.mask \ Cells(p)
  BY DEF FieldInv
<1>2. field' \in [blocks : Nat \ {0}, leaf : Nat \ {0}, type : {"dense", "bitmasked"},
                on : SUBSET Int, mask : SUBSET Int]
  <2> DEFINE m == field.mask \ Cells(p)
  <2>1. m \in SUBSET Int /\ field.on \ {p} \in SUBSET Int BY DEF FieldInv
  <2>2. field' = [field EXCEPT !.on = field.on \ {p}, !.mask = m] OBVIOUS
  <2> HIDE DEF m
  <2>3. QED BY <2>1, <2>2 DEF FieldInv
<1>3. FieldOK' BY <1>1 DEF FieldInv, FieldOK
<1>4. \A q : Cells(q)' = Cells(q) BY <1>1 DEF Cells, Leaf
<1>5. (field.mask \subseteq UNION {Cells(q) : q \in field.on})'
  <2>1. \A x \in field'.mask : \E q \in field'.on : x \in Cells(q)
    <3>1. SUFFICES ASSUME NEW x \in field'.mask PROVE \E q \in field'.on : x \in Cells(q) OBVIOUS
    <3>2. PICK q \in field.on : x \in Cells(q) BY <1>1, <3>1 DEF FieldInv
    <3>3. q # p BY <1>1, <3>1, <3>2
    <3>4. QED BY <1>1, <3>2, <3>3
  <2>2. QED BY <1>4, <2>1
<1>6. QED BY <1>1, <1>2, <1>3, <1>5 DEF FieldInv

(* The field keeps its shape.                                               *)
LEMMA FieldNext ==
  ASSUME FieldInv, [Next]_vars
  PROVE  /\ FieldInv' /\ field'.leaf = field.leaf /\ field'.blocks = field.blocks
         /\ (step # "idle" => /\ field'.type = field.type
                              /\ field.on \subseteq field'.on /\ field.mask \subseteq field'.mask)
<1>1. CASE field' = field BY <1>1 DEF FieldInv, FieldOK, Cells, Leaf
<1>2. CASE \E c \in AllCells : field' = Written(field, c) BY <1>2, WrittenField
<1>3. CASE step = "idle" /\ \E p \in field.on :
               field' = [field EXCEPT !.on = @ \ {p}, !.mask = @ \ Cells(p)]
  BY <1>3, DeactivatedField
<1>4. \/ field' = field
      \/ \E c \in AllCells : field' = Written(field, c)
      \/ step = "idle" /\ \E p \in field.on :
               field' = [field EXCEPT !.on = @ \ {p}, !.mask = @ \ Cells(p)]
  <2>1. CASE Kernel
    <3>1. CASE \E t \in Threads, c \in AllCells : BodyCell(t, c) BY <3>1 DEF BodyCell
    <3>2. CASE \E t \in Threads, i \in pending : BeginTask(t, i) BY <3>2 DEF BeginTask
    <3>3. CASE \E t \in Threads : BodyRange(t) \/ BodyMesh(t) \/ SkipCell(t) \/ EndTask(t)
      BY <3>3 DEF BodyRange, BodyMesh, SkipCell, EndTask
    <3>4. QED BY <2>1, <3>1, <3>2, <3>3 DEF Kernel, ClearBlocks, ClearLeaf, ClearList,
            ElementListgenRoot, ElementListgenNonroot, Listgen, ParallelFor, Return
  <2>2. CASE Program BY <2>2 DEF Program, Write, Deactivate, LaunchFlat, LaunchStruct, Launch
  <2>3. CASE UNCHANGED vars BY <2>3 DEF vars
  <2>4. QED BY <2>1, <2>2, <2>3 DEF Next
<1>5. QED BY <1>1, <1>2, <1>3, <1>4

----------------------------------------------------------------------------
(* The lists *)

LEMMA SameShape ==
  ASSUME field'.leaf = field.leaf, field'.blocks = field.blocks
  PROVE  /\ Leaf' = Leaf /\ ElementSize' = ElementSize /\ PartsPerBlock' = PartsPerBlock
         /\ AllCells' = AllCells
         /\ Parts' = Parts
         /\ \A w : Span(w)' = Span(w)
         /\ \A c : BlockOf(c)' = BlockOf(c)
         /\ \A l : NumSplits(l)' = NumSplits(l) /\ SplitsEvenly(l)' = SplitsEvenly(l)
<1>1. Leaf' = Leaf BY DEF Leaf
<1>2. ElementSize' = ElementSize BY <1>1 DEF ElementSize, ChunkSize
<1>3. PartsPerBlock' = PartsPerBlock BY <1>1, <1>2 DEF PartsPerBlock
<1>4. AllCells' = AllCells BY <1>1 DEF AllCells
<1>5. Parts' = Parts BY <1>1, <1>2, <1>3 DEF Parts
<1>6. \A w : Span(w)' = Span(w) BY <1>1 DEF Span
<1>7. \A c : BlockOf(c)' = BlockOf(c) BY <1>1 DEF BlockOf
<1>8. \A l : NumSplits(l)' = NumSplits(l)
  <2>1. \A l : StructBlock(l)' = StructBlock(l) BY <1>1 DEF StructBlock
  <2>2. QED BY <1>2, <2>1 DEF NumSplits
<1>9. \A l : SplitsEvenly(l)' = SplitsEvenly(l) BY <1>2, <1>8 DEF SplitsEvenly
<1>10. QED BY <1>1, <1>2, <1>3, <1>4, <1>5, <1>6, <1>7, <1>8, <1>9

LEMMA SameTasks ==
  ASSUME field'.leaf = field.leaf, field'.blocks = field.blocks, UNCHANGED <<lists, loop>>
  PROVE  /\ Tasks(loop)' = Tasks(loop)
         /\ \A i : Task(loop, i)' = Task(loop, i) /\ Todo(i)' = Todo(i)
<1>1. ElementSize' = ElementSize /\ NumSplits(loop)' = NumSplits(loop) BY SameShape
<1>2. Tasks(loop)' = Tasks(loop)
  BY <1>1 DEF Tasks, RangeTasks, MeshTasks, MeshBlockOf, StructTasks
<1>3. \A i : StructTask(loop, i)' = StructTask(loop, i) BY <1>1 DEF StructTask
<1>4. \A i : /\ RangeTask(loop, i)' = RangeTask(loop, i)
            /\ ThreadTask(loop, i)' = ThreadTask(loop, i)
            /\ MeshTask(loop, i)' = MeshTask(loop, i)
  BY DEF RangeTask, ThreadTask, ThreadRange, MeshTask, MeshBlockOf
<1>5. \A i : Task(loop, i)' = Task(loop, i) BY <1>3, <1>4 DEF Task
<1>6. \A i : Todo(i)' = Todo(i)
  <2>1. SUFFICES ASSUME NEW i PROVE Span(Task(loop, i))' = Span(Task(loop, i)) BY DEF Todo
  <2>2. Leaf' = Leaf BY DEF Leaf
  <2>3. QED BY <1>5, <2>2 DEF Span
<1>7. QED BY <1>2, <1>5, <1>6

LEMMA Kinds ==
  ASSUME loop \in FlatLoops \cup StructLoops \cup {NoLoop}
  PROVE  /\ loop.kind = "struct" <=> loop \in StructLoops
         /\ loop.kind \in Flat <=> loop \in FlatLoops
         /\ loop = NoLoop <=> loop.kind = "none"
BY DEF FlatLoops, RangeLoops, ThreadLoops, MeshLoops, StructLoops, NoLoop, Flat

LEMMA UpdateLists ==
  ASSUME NEW A, NEW B, NEW l \in [blocks : A, leaf : B], NEW x
  PROVE  /\ x \in A => LET z == [l EXCEPT !.blocks = x]
                      IN  z \in [blocks : A, leaf : B] /\ z.blocks = x /\ z.leaf = l.leaf
         /\ x \in B => LET z == [l EXCEPT !.leaf = x]
                      IN  z \in [blocks : A, leaf : B] /\ z.leaf = x /\ z.blocks = l.blocks
OBVIOUS

LEMMA NothingFirst == ASSUME NEW S, NEW r \in Seq(S) PROVE <<>> \o r = r
OBVIOUS

LEMMA SameLists ==
  ASSUME field'.leaf = field.leaf, field'.blocks = field.blocks,
         NEW r, lists'.leaf = r, NEW P, field'.on = P, Lists(r, P)
  PROVE  Lists(lists.leaf, field.on)'
<1>1. Leaf' = Leaf /\ Parts' = Parts BY SameShape
<1>2. \A k \in 1 .. Len(r) : Span(lists.leaf[k])' = Span(r[k]) BY <1>1 DEF Span
<1>3. (\A k, m \in 1 .. Len(lists.leaf) :
          k # m => Span(lists.leaf[k]) \cap Span(lists.leaf[m]) = {})'
  <2>1. \A k, m \in 1 .. Len(r) : k # m => Span(r[k]) \cap Span(r[m]) = {} BY DEF Lists
  <2>2. \A k, m \in 1 .. Len(r) :
          k # m => Span(lists.leaf[k])' \cap Span(lists.leaf[m])' = {}
    BY <1>2, <2>1
  <2>3. QED BY <2>2
<1>4. r \in Seq(Parts) /\ (\A k \in 1 .. Len(r) : r[k].at \in P)
      /\ \A p \in P, j \in 0 .. Leaf - 1 :
           \E k \in 1 .. Len(r) : r[k].at = p /\ r[k].lo <= j /\ j < r[k].hi
  BY DEF Lists
<1>5. (lists.leaf \in Seq(Parts) /\ (\A k \in 1 .. Len(lists.leaf) : lists.leaf[k].at \in field.on)
       /\ \A p \in field.on, j \in 0 .. Leaf - 1 :
           \E k \in 1 .. Len(lists.leaf) :
             lists.leaf[k].at = p /\ lists.leaf[k].lo <= j /\ j < lists.leaf[k].hi)'
  BY <1>1, <1>4
<1>6. QED BY <1>3, <1>5 DEF Lists

\* What an action that is not part of the listing leaves alone.
LEMMA ListKept ==
  ASSUME ListInv, field'.leaf = field.leaf, field'.blocks = field.blocks, lists' = lists,
         step' \notin Listing \ {"clear_blocks"},
         step' = "loop" => loop'.kind # "struct"
  PROVE  ListInv'
<1>1. Parts' = Parts /\ PartsPerBlock' = PartsPerBlock BY SameShape
<1>2. (lists \in [blocks : Seq([at : Nat, lo : Nat, hi : Nat]), leaf : Seq(Parts)])'
  BY <1>1 DEF ListInv
<1>3. (Len(lists.leaf) <= field.blocks * PartsPerBlock)' BY <1>1 DEF ListInv
<1>4. QED BY <1>2, <1>3 DEF ListInv, Listing

LEMMA ListNext ==
  ASSUME FieldInv, ListInv, StageInv, [Next]_vars
  PROVE  ListInv'
<1>1. FieldInv' /\ field'.leaf = field.leaf /\ field'.blocks = field.blocks BY FieldNext
<1> USE DEF Listing
<1>2. Parts' = Parts /\ PartsPerBlock' = PartsPerBlock BY <1>1, SameShape
<1> DEFINE A == Seq([at : Nat, lo : Nat, hi : Nat])
           B == Seq(Parts)
           T == [blocks : A, leaf : B]
<1>3. T' = T BY <1>2
<1>0. <<>> \in A /\ <<>> \in B OBVIOUS
<1>4. lists \in T /\ Len(lists.leaf) <= field.blocks * PartsPerBlock BY DEF ListInv
<1>5. field.blocks * PartsPerBlock \in Nat
  <2>1. Leaf \in Nat \ {0} /\ ElementSize \in Nat \ {0} /\ field.blocks \in Nat
    BY ChunkSizes DEF FieldInv, FieldOK, Leaf, ElementSize
  <2>2. \A x \in Nat, y \in Nat \ {0} : x \div y \in Nat OBVIOUS
  <2>3. Leaf + ElementSize - 1 \in Nat BY <2>1
  <2>4. PartsPerBlock \in Nat BY <2>1, <2>2, <2>3 DEF PartsPerBlock
  <2>5. QED BY <2>1, <2>4
<1>6. CASE ClearBlocks
  <2>1. step' = "list_blocks" /\ lists' = [lists EXCEPT !.blocks = <<>>] /\ loop' = loop
    BY <1>6 DEF ClearBlocks, ClearList, Cleared
  <2>2. lists' \in T /\ lists'.blocks = <<>> /\ lists'.leaf = lists.leaf
    <3> HIDE DEF A, B
    <3>1. QED BY <1>0, <1>4, <2>1, UpdateLists
  <2> HIDE DEF T
  <2>3. QED BY <1>1, <1>2, <1>3, <1>4, <2>1, <2>2 DEF ListInv, T
<1>7. CASE ElementListgenRoot
  <2>1. /\ step = "list_blocks" /\ step' = "clear_leaf" /\ loop' = loop
        /\ lists' = [lists EXCEPT !.blocks = lists.blocks \o Chunks(0, field.blocks)]
    BY <1>7 DEF ElementListgenRoot, Listgen, RootElements
  <2>2. Chunks(0, field.blocks) \in Seq([at : Nat, lo : Nat, hi : Nat])
    BY ChunksOf DEF FieldInv, FieldOK
  <2> DEFINE r == Chunks(0, field.blocks)
  <2>3. lists.blocks \o r = r
    <3>1. lists.blocks = <<>> BY <2>1 DEF ListInv
    <3>2. <<>> \o r = r BY <2>2, NothingFirst
    <3>3. QED BY <3>1, <3>2
  <2>9. r \in A /\ lists' = [lists EXCEPT !.blocks = r] BY <2>1, <2>2, <2>3
  <2> HIDE DEF r
  <2>4. lists' \in T /\ lists'.blocks = r /\ lists'.leaf = lists.leaf
    <3> HIDE DEF A, B
    <3>1. QED BY <1>4, <2>9, UpdateLists
  <2>5. r' = r BY <1>1 DEF r, Chunks, ChunkSize
  <2>6. lists'.blocks = Chunks(0, field'.blocks) BY <1>1, <2>4 DEF r
  <2> HIDE DEF T
  <2>7. QED BY <1>1, <1>2, <1>3, <1>4, <2>1, <2>4, <2>6 DEF ListInv, T
<1>8. CASE ClearLeaf
  <2>1. /\ step = "clear_leaf" /\ step' = "list_leaf" /\ lists' = [lists EXCEPT !.leaf = <<>>]
        /\ loop' = loop /\ field' = field
    BY <1>8 DEF ClearLeaf, ClearList, Cleared
  <2>2. lists' \in T /\ lists'.blocks = lists.blocks /\ lists'.leaf = <<>>
    <3> HIDE DEF A, B
    <3>1. QED BY <1>0, <1>4, <2>1, UpdateLists
  <2>3. lists.blocks = Chunks(0, field.blocks) BY <2>1 DEF ListInv
  <2>4. Chunks(0, field.blocks)' = Chunks(0, field.blocks) BY <2>1 DEF Chunks
  <2>5. Len(lists'.leaf) <= field'.blocks * PartsPerBlock' BY <1>1, <1>2, <1>5, <2>2
  <2> HIDE DEF T
  <2>6. QED BY <1>3, <2>1, <2>2, <2>3, <2>4, <2>5 DEF ListInv, T
<1>9. CASE ElementListgenNonroot
  <2>1. /\ step = "list_leaf" /\ step' = "loop" /\ loop' = loop /\ field' = field
        /\ lists' = [lists EXCEPT !.leaf = lists.leaf \o LeafElements]
    BY <1>9 DEF ElementListgenNonroot, Listgen
  <2>2. lists.blocks = Chunks(0, field.blocks) /\ lists.leaf = <<>> BY <2>1 DEF ListInv
  <2>3. Lists(LeafElements, field.on) BY <2>2, LeafLists DEF FieldInv
  <2> DEFINE r == LeafElements
  <2>4. r \in Seq(Parts) BY <2>3 DEF Lists
  <2> HIDE DEF r
  <2>5. lists.leaf \o r = r BY <2>2, <2>4, NothingFirst
  <2>6. lists' \in T /\ lists'.leaf = r
    <3>1. r \in B /\ lists' = [lists EXCEPT !.leaf = r] BY <2>1, <2>4, <2>5 DEF r
    <3> HIDE DEF A, B
    <3>2. QED BY <1>4, <3>1, UpdateLists
  <2>7. Len(r) <= field.blocks * PartsPerBlock BY <2>3, ListLength DEF r, FieldInv
  <2>8. field'.on = field.on /\ Lists(r, field.on) BY <2>1, <2>3 DEF r
  <2>9. Lists(lists.leaf, field.on)' BY <1>1, <2>6, <2>8, SameLists
  <2> HIDE DEF T
  <2>10. QED BY <1>1, <1>2, <1>3, <2>1, <2>6, <2>7, <2>9 DEF ListInv, T
<1>10. CASE ParallelFor BY <1>10, <1>1, ListKept DEF ParallelFor
<1>11. CASE \E t \in Threads, i \in pending : BeginTask(t, i)
  <2>1. lists' = lists /\ step' = step /\ step = "running"
    BY <1>11 DEF BeginTask, Pool!Begin, StageInv
  <2>2. QED BY <1>1, <2>1, ListKept
<1>12. CASE \E t \in Threads : BodyRange(t) \/ BodyMesh(t) \/ SkipCell(t) \/ EndTask(t)
  <2>1. lists' = lists /\ step' = step /\ step = "running"
    BY <1>12 DEF BodyRange, BodyMesh, SkipCell, EndTask, AtWork, Pool!End, StageInv
  <2>2. QED BY <1>1, <2>1, ListKept
<1>13. CASE \E t \in Threads, c \in AllCells : BodyCell(t, c)
  <2>1. lists' = lists /\ step' = step /\ step = "running"
    BY <1>13 DEF BodyCell, AtWork, StageInv
  <2>2. QED BY <1>1, <2>1, ListKept
<1>14. CASE Return BY <1>14, <1>1, ListKept DEF Return
<1>15. CASE \E c \in AllCells : Write(c) BY <1>15, <1>1, ListKept DEF Write
<1>16. CASE \E p \in 0 .. field.blocks - 1 : Deactivate(p) BY <1>16, <1>1, ListKept DEF Deactivate
<1>17. CASE LaunchFlat
  <2>1. lists' = lists /\ step' = "loop" /\ loop'.kind # "struct"
    BY <1>17 DEF LaunchFlat, Launch, RangeLoops, ThreadLoops, MeshLoops
  <2>2. QED BY <1>1, <2>1, ListKept
<1>18. CASE LaunchStruct BY <1>18, <1>1, ListKept DEF LaunchStruct, Launch
<1>19. CASE UNCHANGED vars
  <2>1. field' = field /\ lists' = lists /\ step' = step /\ loop' = loop BY <1>19 DEF vars
  <2>2. \A z : Chunks(0, field.blocks)' = Chunks(0, field.blocks) BY <2>1 DEF Chunks
  <2>3. Lists(lists.leaf, field.on) => Lists(lists.leaf, field.on)'
    <3>1. lists'.leaf = lists.leaf /\ field'.on = field.on BY <2>1
    <3>2. QED BY <1>1, <3>1, SameLists
  <2> HIDE DEF T
  <2>4. QED BY <1>2, <1>3, <1>4, <2>1, <2>2, <2>3 DEF ListInv, T
<1>20. QED BY <1>6, <1>7, <1>8, <1>9, <1>10, <1>11, <1>12, <1>13, <1>14, <1>15, <1>16, <1>17,
              <1>18, <1>19 DEF Next, Kernel, Program

----------------------------------------------------------------------------
(* The kernel's steps, and what the threads hold *)

LEMMA Phase ==
  ASSUME FieldInv, StageInv, [Next]_vars
  PROVE  /\ (\E t \in Threads, i \in pending : BeginTask(t, i)) => step = "running"
         /\ (\E t \in Threads : BodyRange(t) \/ BodyMesh(t) \/ SkipCell(t) \/ EndTask(t))
             => step = "running"
         /\ (\E t \in Threads, c \in AllCells : BodyCell(t, c)) => step = "running"
         /\ Return => step = "running"
BY DEF StageInv, BeginTask, Pool!Begin, BodyRange, BodyMesh, SkipCell, EndTask, Pool!End, AtWork,
       BodyCell, Return, Pool!Return

LEMMA StageNext ==
  ASSUME FieldInv, StageInv, WorkInv, [Next]_vars
  PROVE  StageInv'
<1>1. field'.leaf = field.leaf /\ field'.blocks = field.blocks BY FieldNext
<1> USE DEF Listing, Steps
<1> DEFINE Loops == FlatLoops \cup StructLoops \cup {NoLoop}
<1>2. loop \in Loops /\ step \in Steps BY DEF StageInv
<1>3. CASE ClearBlocks \/ ElementListgenRoot \/ ClearLeaf \/ ElementListgenNonroot
  <2>1. /\ step \in Listing /\ step' \in Listing \cup {"loop"} /\ loop' = loop
        /\ UNCHANGED <<call, pending, active, cursor, visits, total>>
    BY <1>3 DEF ClearBlocks, ClearLeaf, ClearList, ElementListgenRoot, ElementListgenNonroot,
                Listgen, pool, work
  <2> HIDE DEF Loops
  <2>2. loop' \in Loops BY <1>2, <2>1
  <2>3. QED BY <2>1, <2>2 DEF StageInv, Loops
<1>4. CASE ParallelFor
  <2>1. /\ step = "loop" /\ step' = "running" /\ loop' = loop /\ lists' = lists
        /\ call' # Pool!Idle /\ pending' = 0 .. Tasks(loop) - 1
        /\ UNCHANGED <<active, cursor, visits, total>>
    BY <1>4 DEF ParallelFor, Pool!Enter, Pool!Call, Pool!Idle, work
  <2>2. Tasks(loop)' = Tasks(loop) BY <1>1, <2>1, SameTasks
  <2>3. pending' \subseteq 0 .. Tasks(loop)' - 1 BY <2>1, <2>2
  <2>4. loop # NoLoop BY <2>1 DEF StageInv
  <2>5. loop' \in Loops BY <1>2, <2>1
  <2> HIDE DEF Loops
  <2>6. QED BY <2>1, <2>3, <2>4, <2>5 DEF StageInv, Loops
<1>5. CASE \E t \in Threads, i \in pending : BeginTask(t, i)
  <2>1. PICK t \in Threads, i \in pending : BeginTask(t, i) BY <1>5
  <2>2. step = "running" BY <1>5, Phase
  <2>3. /\ UNCHANGED <<step, loop, lists, call, visits, total>> /\ pending' = pending \ {i}
        /\ active' = [active EXCEPT ![t] = Pool!Running(call.ctx, i)]
        /\ cursor' = [cursor EXCEPT ![t] = Task(loop, i)]
    BY <2>1 DEF BeginTask, Pool!Begin
  <2>4. Tasks(loop)' = Tasks(loop) BY <1>1, <2>3, SameTasks
  <2>5. pending' \subseteq 0 .. Tasks(loop)' - 1 BY <2>2, <2>3, <2>4 DEF StageInv
  <2>6. active'[t] # Pool!Resting BY <2>3 DEF Pool!Running, Pool!Resting, StageInv
  <2>7. DOMAIN active' = Threads /\ \A u \in Threads : active'[u] = Pool!Resting => cursor'[u] = NoTask
    <3>1. DOMAIN active' = Threads BY <2>3 DEF StageInv
    <3>2. \A u \in Threads : u # t => active'[u] = active[u] BY <2>3 DEF StageInv
    <3>3. \A u \in Threads : u # t => cursor'[u] = cursor[u] BY <2>3 DEF WorkInv
    <3>4. QED BY <2>6, <3>1, <3>2, <3>3 DEF StageInv
  <2>8. QED BY <2>2, <2>3, <2>5, <2>7 DEF StageInv
<1>6. CASE \E t \in Threads : BodyRange(t) \/ BodyMesh(t) \/ SkipCell(t)
  <2>1. PICK t \in Threads : BodyRange(t) \/ BodyMesh(t) \/ SkipCell(t) BY <1>6
  <2>2. step = "running" BY <1>6, Phase
  <2>3. /\ UNCHANGED <<step, loop, lists, call, pending, active>> /\ active[t] # Pool!Resting
        /\ \A u \in Threads : u # t => cursor'[u] = cursor[u]
    BY <2>1 DEF BodyRange, BodyMesh, SkipCell, Advance, AtWork, pool, WorkInv
  <2>4. Tasks(loop)' = Tasks(loop) BY <1>1, <2>3, SameTasks
  <2>5. pending' \subseteq 0 .. Tasks(loop)' - 1 BY <2>2, <2>3, <2>4 DEF StageInv
  <2>6. QED BY <2>2, <2>3, <2>5 DEF StageInv
<1>7. CASE \E t \in Threads, c \in AllCells : BodyCell(t, c)
  <2>1. PICK t \in Threads, c \in AllCells : BodyCell(t, c) BY <1>7
  <2>2. step = "running" BY <1>7, Phase
  <2>3. /\ UNCHANGED <<step, loop, lists, call, pending, active>> /\ active[t] # Pool!Resting
        /\ \A u \in Threads : u # t => cursor'[u] = cursor[u]
    BY <2>1 DEF BodyCell, Advance, AtWork, pool, WorkInv
  <2>4. Tasks(loop)' = Tasks(loop) BY <1>1, <2>3, SameTasks
  <2>5. pending' \subseteq 0 .. Tasks(loop)' - 1 BY <2>2, <2>3, <2>4 DEF StageInv
  <2>6. QED BY <2>2, <2>3, <2>5 DEF StageInv
<1>8. CASE \E t \in Threads : EndTask(t)
  <2>1. PICK t \in Threads : EndTask(t) BY <1>8
  <2>2. step = "running" BY <1>8, Phase
  <2>3. /\ UNCHANGED <<step, loop, lists, call, pending>>
        /\ active' = [active EXCEPT ![t] = Pool!Resting]
        /\ cursor' = [cursor EXCEPT ![t] = NoTask]
    BY <2>1 DEF EndTask, Pool!End
  <2>4. Tasks(loop)' = Tasks(loop) BY <1>1, <2>3, SameTasks
  <2>5. pending' \subseteq 0 .. Tasks(loop)' - 1 BY <2>2, <2>3, <2>4 DEF StageInv
  <2>6. DOMAIN active' = Threads /\ \A u \in Threads : active'[u] = Pool!Resting => cursor'[u] = NoTask
    <3>1. DOMAIN active' = Threads BY <2>3 DEF StageInv
    <3>2. \A u \in Threads : u # t => active'[u] = active[u] /\ cursor'[u] = cursor[u]
      BY <2>3 DEF StageInv, WorkInv
    <3>3. cursor'[t] = NoTask BY <2>3 DEF WorkInv
    <3>4. QED BY <3>1, <3>2, <3>3 DEF StageInv
  <2>7. QED BY <2>2, <2>3, <2>5, <2>6 DEF StageInv
<1>9. CASE Return
  <2>1. /\ step' = "idle" /\ call' = Pool!Idle /\ pending' = {} /\ loop' = loop
        /\ \A t \in Threads : active[t] = Pool!Resting
        /\ UNCHANGED <<active, cursor, visits, total>>
    BY <1>9 DEF Return, Pool!Return
  <2>2. loop # NoLoop BY <1>9, Phase DEF StageInv
  <2> HIDE DEF Loops
  <2>3. loop' \in Loops BY <1>2, <2>1
  <2>4. QED BY <2>1, <2>2, <2>3 DEF StageInv, Loops
<1>10. CASE (\E c \in AllCells : Write(c)) \/ \E p \in 0 .. field.blocks - 1 : Deactivate(p)
  <2>1. step = "idle" /\ UNCHANGED <<step, loop, call, pending, active, cursor, visits, total>>
    BY <1>10 DEF Write, Deactivate, pool, work
  <2> HIDE DEF Loops
  <2>2. loop' \in Loops BY <1>2, <2>1
  <2>3. QED BY <2>1, <2>2 DEF StageInv, Loops
<1>11. CASE LaunchFlat \/ LaunchStruct
  <2>1. PICK l \in FlatLoops \cup StructLoops, first \in {"loop", "clear_blocks"} :
          Launch(l, first) /\ (first = "clear_blocks" => l \in StructLoops)
    BY <1>11 DEF LaunchFlat, LaunchStruct, FlatLoops
  <2>2. /\ step = "idle" /\ loop' = l /\ step' = first /\ visits' = EmptyBag /\ total' = 0
        /\ UNCHANGED <<call, pending, active, cursor>>
    BY <2>1 DEF Launch, pool
  <2>3. l \in StructLoops => l.kind = "struct" BY DEF StructLoops
  <2>4. l # NoLoop
    BY DEF FlatLoops, RangeLoops, ThreadLoops, MeshLoops, StructLoops, NoLoop
  <2> HIDE DEF Loops
  <2>5. loop' \in Loops BY <2>2 DEF Loops
  <2>6. QED BY <2>1, <2>2, <2>3, <2>4, <2>5 DEF StageInv, Loops
<1>12. CASE UNCHANGED vars
  <2>1. /\ UNCHANGED <<step, loop, lists, call, pending, active, cursor, visits, total>>
    BY <1>12 DEF vars, pool, work
  <2>2. Tasks(loop)' = Tasks(loop) BY <1>1, <2>1, SameTasks
  <2>3. QED BY <2>1, <2>2 DEF StageInv
<1>13. QED BY <1>3, <1>4, <1>5, <1>6, <1>7, <1>8, <1>9, <1>10, <1>11, <1>12
        DEF Next, Kernel, Program

(* A visit adds one copy.                                                   *)
LEMMA Visiting ==
  ASSUME WorkInv, NEW i \in Int, Visit(i)
  PROVE  /\ Visited' = Visited \cup {i}
         /\ \A d \in Visited \ {i} : visits'[d] = visits[d]
         /\ visits'[i] = IF i \in Visited THEN visits[i] + 1 ELSE 1
         /\ Visited' \subseteq Int /\ IsFiniteSet(Visited')
         /\ visits' \in [Visited' -> Nat \ {0}]
<1> DEFINE V == Visited
           W == V \cup {i}
           f(d) == (IF d \in V THEN visits[d] ELSE 0) + (IF d \in {i} THEN 1 ELSE 0)
<1>1. visits \in [V -> Nat \ {0}] /\ DOMAIN visits = V BY DEF WorkInv
<1>2. visits' = [d \in W |-> f(d)]
  <2>1. DOMAIN SetToBag({i}) = {i} /\ SetToBag({i})[i] = 1 BY DEF SetToBag
  <2>2. QED BY <1>1, <2>1 DEF Visit, (+), SetToBag
<1>3. DOMAIN visits' = W BY <1>2
<1> HIDE DEF V
<1>4. \A d \in W : f(d) \in Nat \ {0} BY <1>1
<1>5. \A d \in V \ {i} : f(d) = visits[d] BY <1>1
<1>6. f(i) = IF i \in V THEN visits[i] + 1 ELSE 1 BY <1>1
<1> HIDE DEF f
<1>7. W \subseteq Int /\ IsFiniteSet(W) BY FS_AddElement DEF WorkInv, V
<1>8. Visited' = W BY <1>3 DEF Visited, BagToSet
<1>9. visits' \in [W -> Nat \ {0}] BY <1>2, <1>4
<1>10. QED BY <1>2, <1>5, <1>6, <1>7, <1>8, <1>9 DEF V

LEMMA TaskTyped ==
  ASSUME FieldInv, ListInv, StageInv, NEW i \in pending
  PROVE  /\ Task(loop, i) \in [at : Nat, lo : Int, hi : Int]
         /\ loop.kind # "struct" => Task(loop, i).at = 0
<1>1. step = "running" /\ i \in 0 .. Tasks(loop) - 1 BY DEF StageInv
<1>2. loop \in FlatLoops \cup StructLoops BY <1>1 DEF StageInv
<1>3. CASE loop \in FlatLoops BY <1>1, <1>3, FlatTyped
<1>4. CASE loop \in StructLoops
  <2>1. lists.leaf \in Seq(Parts)
    <3> DEFINE A == Seq([at : Nat, lo : Nat, hi : Nat])
               B == Seq(Parts)
    <3>1. lists \in [blocks : A, leaf : B] BY DEF ListInv
    <3> HIDE DEF A, B
    <3>2. lists.leaf \in B BY <3>1
    <3>3. QED BY <3>2 DEF B
  <2>2. Task(loop, i) \in [at : Nat, lo : Nat, hi : Int]
    BY <1>1, <1>4, <2>1, StructTaskOf DEF FieldInv
  <2>3. QED BY <1>4, <2>2 DEF StructLoops
<1>5. QED BY <1>2, <1>3, <1>4

LEMMA Advanced ==
  ASSUME WorkInv, NEW t \in Threads, Advance(t)
  PROVE  /\ cursor' \in [Threads -> [at : Nat, lo : Int, hi : Int]]
         /\ cursor'[t] = [at |-> cursor[t].at, lo |-> cursor[t].lo + 1, hi |-> cursor[t].hi]
         /\ \A u \in Threads : u # t => cursor'[u] = cursor[u]
         /\ \A u \in Threads : cursor'[u].at = cursor[u].at
<1> DEFINE C == [at : Nat, lo : Int, hi : Int]
           c == [at |-> cursor[t].at, lo |-> cursor[t].lo + 1, hi |-> cursor[t].hi]
<1>1. cursor \in [Threads -> C] BY DEF WorkInv
<1>2. cursor[t] \in C BY <1>1
<1>3. [cursor[t] EXCEPT !.lo = @ + 1] = c /\ c \in C /\ c.at = cursor[t].at BY <1>2
<1>4. cursor' = [cursor EXCEPT ![t] = c] BY <1>3 DEF Advance
<1> HIDE DEF C, c
<1>5. cursor' \in [Threads -> C] /\ cursor'[t] = c /\ \A u \in Threads : u # t => cursor'[u] = cursor[u]
  BY <1>1, <1>3, <1>4
<1>6. \A u \in Threads : cursor'[u].at = cursor[u].at
  <2>1. SUFFICES ASSUME NEW u \in Threads PROVE cursor'[u].at = cursor[u].at OBVIOUS
  <2>2. CASE u = t BY <1>3, <1>5, <2>2
  <2>3. CASE u # t BY <1>5, <2>3
  <2>4. QED BY <2>2, <2>3
<1>7. QED BY <1>5, <1>6 DEF C, c

LEMMA CursorAt ==
  ASSUME FieldInv, WorkInv, NEW t \in Threads
  PROVE  /\ cursor[t] \in [at : Nat, lo : Int, hi : Int] /\ tls[t] \in Int
         /\ CellAt(t) \in Int
         /\ AtWork(t) => CellAt(t) \in Span(cursor[t])
         /\ loop.kind # "struct" => CellAt(t) = cursor[t].lo
<1>1. cursor[t] \in [at : Nat, lo : Int, hi : Int] /\ tls[t] \in Int BY DEF WorkInv
<1>2. Leaf \in Nat BY DEF FieldInv, FieldOK, Leaf
<1>3. cursor[t].at * Leaf \in Nat BY <1>1, <1>2
<1>4. AtWork(t) => cursor[t].lo \in cursor[t].lo .. cursor[t].hi - 1 BY <1>1 DEF AtWork
<1>5. loop.kind # "struct" => cursor[t].at * Leaf = 0
  <2>1. loop.kind # "struct" => cursor[t].at = 0 BY DEF WorkInv
  <2>2. QED BY <2>1, <1>2
<1>6. QED BY <1>1, <1>3, <1>4, <1>5 DEF CellAt, Span

LEMMA WorkNext ==
  ASSUME FieldInv, ListInv, StageInv, WorkInv, [Next]_vars
  PROVE  WorkInv'
<1> DEFINE C == [at : Nat, lo : Int, hi : Int]
           N == [Visited -> Nat \ {0}]
<1>1. cursor \in [Threads -> C] /\ tls \in [Threads -> Int] /\ total \in Int BY DEF WorkInv
<1>2. CASE loop' = loop /\ UNCHANGED work
  <2>1. UNCHANGED <<cursor, tls, total, visits>> BY <1>2 DEF work
  <2>2. QED BY <1>2, <2>1 DEF WorkInv, Visited
<1>3. CASE \E t \in Threads, i \in pending : BeginTask(t, i)
  <2>1. PICK t \in Threads, i \in pending : BeginTask(t, i) BY <1>3
  <2>2. /\ UNCHANGED <<loop, total, visits>> /\ cursor' = [cursor EXCEPT ![t] = Task(loop, i)]
        /\ tls' = [tls EXCEPT ![t] = IF loop.kind = "mesh" THEN tls[t] ELSE 0]
    BY <2>1 DEF BeginTask, Prologue
  <2>3. Task(loop, i) \in C /\ (loop.kind # "struct" => Task(loop, i).at = 0) BY TaskTyped
  <2> HIDE DEF C
  <2>4. cursor' \in [Threads -> C] BY <1>1, <2>2, <2>3
  <2>5. tls' \in [Threads -> Int] BY <1>1, <2>2
  <2>6. loop'.kind # "struct" => \A u \in Threads : cursor'[u].at = 0
    <3>1. SUFFICES ASSUME loop.kind # "struct", NEW u \in Threads PROVE cursor'[u].at = 0 BY <2>2
    <3>2. CASE u = t BY <1>1, <2>2, <2>3, <3>1, <3>2
    <3>3. CASE u # t BY <1>1, <2>2, <3>1, <3>3 DEF WorkInv
    <3>4. QED BY <3>2, <3>3
  <2>7. QED BY <2>2, <2>4, <2>5, <2>6 DEF WorkInv, Visited, C
<1>4. ASSUME NEW t \in Threads, Advance(t), Visit(CellAt(t)), loop' = loop,
             tls' \in [Threads -> Int], total' \in Int
      PROVE  WorkInv'
  <2>1. CellAt(t) \in Int BY CursorAt
  <2>2. Visited' \subseteq Int /\ IsFiniteSet(Visited') /\ visits' \in [Visited' -> Nat \ {0}]
    BY <1>4, <2>1, Visiting
  <2>3. cursor' \in [Threads -> C] /\ \A u \in Threads : cursor'[u].at = cursor[u].at
    BY <1>4, Advanced
  <2>4. loop'.kind # "struct" => \A u \in Threads : cursor'[u].at = 0 BY <1>4, <2>3 DEF WorkInv
  <2>5. QED BY <1>4, <2>2, <2>3, <2>4 DEF WorkInv
<1>5. CASE \E t \in Threads : BodyRange(t)
  <2>1. PICK t \in Threads : BodyRange(t) BY <1>5
  <2>2. cursor[t].lo = CellAt(t) /\ CellAt(t) \in Int /\ tls[t] \in Int
    <3>1. loop.kind # "struct" BY <2>1 DEF BodyRange
    <3>2. QED BY <3>1, CursorAt
  <2>3. Advance(t) /\ Visit(CellAt(t)) /\ loop' = loop /\ total' = total
        /\ tls' = [tls EXCEPT ![t] = tls[t] + CellAt(t)]
    BY <2>1, <2>2 DEF BodyRange
  <2>4. tls' \in [Threads -> Int] BY <1>1, <2>2, <2>3
  <2>5. QED BY <1>1, <1>4, <2>3, <2>4
<1>6. CASE \E t \in Threads : BodyMesh(t)
  <2>1. PICK t \in Threads : BodyMesh(t) BY <1>6
  <2>2. cursor[t].lo = CellAt(t) /\ CellAt(t) \in Int
    <3>1. loop.kind # "struct" BY <2>1 DEF BodyMesh
    <3>2. QED BY <3>1, CursorAt
  <2>3. Advance(t) /\ Visit(CellAt(t)) /\ loop' = loop /\ total' = total + tls'[t]
        /\ tls' = [tls EXCEPT ![t] = CellAt(t)]
    BY <2>1, <2>2 DEF BodyMesh, MeshPrologue
  <2>4. tls' \in [Threads -> Int] /\ tls'[t] \in Int BY <1>1, <2>2, <2>3
  <2>5. total' \in Int BY <1>1, <2>3, <2>4
  <2>6. QED BY <1>4, <2>3, <2>4, <2>5
<1>7. CASE \E t \in Threads : SkipCell(t)
  <2>1. PICK t \in Threads : SkipCell(t) BY <1>7
  <2>2. Advance(t) /\ UNCHANGED <<loop, tls, total, visits>> BY <2>1 DEF SkipCell
  <2>3. cursor' \in [Threads -> C] /\ \A u \in Threads : cursor'[u].at = cursor[u].at
    BY <2>2, Advanced
  <2>4. loop'.kind # "struct" => \A u \in Threads : cursor'[u].at = 0 BY <2>2, <2>3 DEF WorkInv
  <2>5. QED BY <2>2, <2>3, <2>4 DEF WorkInv, Visited
<1>8. CASE \E t \in Threads, c \in AllCells : BodyCell(t, c)
  <2>1. PICK t \in Threads, c \in AllCells : BodyCell(t, c) BY <1>8
  <2>2. CellAt(t) \in Int /\ tls[t] \in Int BY CursorAt
  <2>3. Advance(t) /\ Visit(CellAt(t)) /\ loop' = loop /\ total' = total
        /\ tls' = [tls EXCEPT ![t] = tls[t] + CellAt(t)]
    BY <2>1 DEF BodyCell
  <2>4. tls' \in [Threads -> Int] BY <1>1, <2>2, <2>3
  <2>5. QED BY <1>1, <1>4, <2>3, <2>4
<1>9. CASE \E t \in Threads : EndTask(t)
  <2>1. PICK t \in Threads : EndTask(t) BY <1>9
  <2>2. UNCHANGED <<loop, tls, visits>> /\ cursor' = [cursor EXCEPT ![t] = NoTask]
        /\ total' = total + Epilogue(t)
    BY <2>1 DEF EndTask
  <2>3. total' \in Int
    <3>1. Epilogue(t) \in Int BY <1>1 DEF Epilogue
    <3>2. QED BY <1>1, <2>2, <3>1
  <2>4. NoTask \in C /\ NoTask.at = 0 BY DEF NoTask
  <2> HIDE DEF C
  <2>5. cursor' \in [Threads -> C] BY <1>1, <2>2, <2>4
  <2>6. loop'.kind # "struct" => \A u \in Threads : cursor'[u].at = 0
    <3>1. SUFFICES ASSUME loop.kind # "struct", NEW u \in Threads PROVE cursor'[u].at = 0 BY <2>2
    <3>2. CASE u = t BY <1>1, <2>2, <2>4, <3>1, <3>2
    <3>3. CASE u # t BY <1>1, <2>2, <3>1, <3>3 DEF WorkInv
    <3>4. QED BY <3>2, <3>3
  <2>7. QED BY <2>2, <2>3, <2>5, <2>6 DEF WorkInv, Visited, C
<1>10. CASE Return
  <2>1. UNCHANGED <<loop, cursor, total, visits>> /\ tls' = [t \in Threads |-> 0]
    BY <1>10 DEF Return
  <2>2. tls' \in [Threads -> Int] BY <2>1
  <2>3. QED BY <2>1, <2>2 DEF WorkInv, Visited
<1>11. CASE LaunchFlat \/ LaunchStruct
  <2>1. step = "idle" /\ UNCHANGED <<cursor, tls>> /\ visits' = EmptyBag /\ total' = 0
    BY <1>11 DEF LaunchFlat, LaunchStruct, Launch
  <2>2. Visited' = {} /\ visits' \in [{} -> Nat \ {0}]
    BY <2>1 DEF Visited, BagToSet, EmptyBag, SetToBag
  <2>3. \A u \in Threads : cursor[u] = NoTask BY <2>1 DEF StageInv
  <2>4. \A u \in Threads : cursor'[u].at = 0 BY <2>1, <2>3 DEF NoTask
  <2>5. QED BY <2>1, <2>2, <2>4, FS_EmptySet DEF WorkInv
<1>12. QED BY <1>2, <1>3, <1>5, <1>6, <1>7, <1>8, <1>9, <1>10, <1>11 DEF Next, Kernel, Program,
   ClearBlocks, ClearLeaf, ClearList, ElementListgenRoot, ElementListgenNonroot, Listgen,
   ParallelFor, Write, Deactivate, vars

----------------------------------------------------------------------------
(* The sharing *)

LEMMA EmptySpan == Span(NoTask) = {}
BY DEF Span, NoTask

LEMMA HandsNow ==
  ASSUME field'.leaf = field.leaf
  PROVE  \A u \in Threads : Hands'[u] = Span(cursor'[u])
BY DEF Hands, Span, Leaf

LEMMA SameGoal ==
  ASSUME StageInv, field'.leaf = field.leaf, field'.blocks = field.blocks,
         UNCHANGED <<loop, due>>
  PROVE  /\ Bounded' = Bounded /\ Goal' = Goal
         /\ loop.kind # "struct" => Room' = Room
         /\ field.on \subseteq field'.on => Room \subseteq Room'
<1>1. BoundsFit(loop)' = BoundsFit(loop) BY DEF BoundsFit, ThreadRange
<1>2. Bounded' = Bounded BY <1>1 DEF Bounded
<1>3. Indices(loop)' = Indices(loop) BY DEF Indices
<1>4. SplitsEvenly(loop)' = SplitsEvenly(loop) BY SameShape
<1>5. Goal' = Goal BY <1>3, <1>4 DEF Goal
<1>6. loop.kind # "struct" => Room' = Room BY <1>3 DEF Room
<1>7. field.on \subseteq field'.on => Room \subseteq Room'
  <2>1. field.on \subseteq field'.on => Inside(field.on) \subseteq Inside(field.on)'
    BY SameShape DEF Inside, AllCells, BlockOf
  <2>2. QED BY <1>3, <2>1 DEF Room
<1>8. QED BY <1>2, <1>5, <1>6, <1>7

LEMMA NothingLeft ==
  ASSUME StageInv, pending = {}, \A t \in Threads : active[t] = Pool!Resting
  PROVE  /\ All = Visited /\ Split(pending, Todos, Hands, Visited)
         /\ \A u \in Threads : Hands[u] = {}
<1>1. \A u \in Threads : cursor[u] = NoTask BY DEF StageInv
<1>2. \A u \in Threads : Hands[u] = {} BY <1>1, EmptySpan DEF Hands
<1>3. UNION {Hands[u] : u \in Threads} = {} /\ UNION {Todos[i] : i \in pending} = {} BY <1>2
<1>4. All = Visited BY <1>3 DEF All, Whole
<1>5. Split(pending, Todos, Hands, Visited) BY <1>2 DEF Split
<1>6. QED BY <1>2, <1>4, <1>5

LEMMA NothingLeftNext ==
  ASSUME StageInv', step' # "running"
  PROVE  /\ All' = Visited' /\ Split(pending, Todos, Hands, Visited)'
<1>1. pending' = {} /\ \A t \in Threads : active'[t] = Pool!Resting /\ cursor'[t] = NoTask
  BY DEF StageInv, Pool!Resting
<1>2. \A u \in Threads : Hands'[u] = {} BY <1>1 DEF Hands, Span, NoTask
<1>3. UNION {Hands'[u] : u \in Threads} = {} /\ UNION {Todos'[i] : i \in pending'} = {}
  BY <1>1, <1>2
<1>4. All' = Visited' BY <1>3 DEF All, Whole
<1>5. Split(pending, Todos, Hands, Visited)' BY <1>1, <1>2 DEF Split
<1>6. QED BY <1>4, <1>5

\* Between two loops, what was visited stays visited.
LEMMA IdleShare ==
  ASSUME StageInv, StageInv', Sharing, field'.leaf = field.leaf, field'.blocks = field.blocks,
         UNCHANGED <<loop, due, visits>>, step \in {"idle", "running"}, step' = "idle",
         pending = {}, \A t \in Threads : active[t] = Pool!Resting
  PROVE  Sharing'
<1>1. SUFFICES ASSUME Bounded' PROVE Sharing' BY DEF Sharing
<1>2. Bounded /\ Goal' = Goal /\ (loop.kind # "struct" => Room' = Room) BY <1>1, SameGoal
<1>3. All = Visited BY NothingLeft
<1>4. Visited' = Visited BY DEF Visited
<1>5. All' = Visited' /\ Split(pending, Todos, Hands, Visited)' BY NothingLeftNext
<1>6. Goal \subseteq Visited BY <1>2, <1>3 DEF Sharing
<1>7. (\A c \in Visited : visits[c] = 1)' BY <1>2, <1>4 DEF Sharing
<1>8. loop'.kind # "struct" => Visited' \subseteq Room' BY <1>2, <1>4 DEF Sharing
<1>9. Goal' \subseteq All' BY <1>2, <1>4, <1>5, <1>6
<1>10. QED BY <1>5, <1>7, <1>8, <1>9 DEF Sharing

\* Before its loop, a kernel has visited nothing.
LEMMA FreshShare ==
  ASSUME StageInv', step' \notin {"idle", "running"}
  PROVE  Sharing'
<1>1. visits' = EmptyBag BY DEF StageInv
<1>2. Visited' = {} BY <1>1 DEF Visited, BagToSet, EmptyBag, SetToBag
<1>3. Split(pending, Todos, Hands, Visited)' BY NothingLeftNext
<1>4. QED BY <1>2, <1>3 DEF Sharing

\* While a loop runs, an index is lost only if it need not be visited.
LEMMA RunShare ==
  ASSUME StageInv, Sharing, field'.leaf = field.leaf, field'.blocks = field.blocks,
         field.on \subseteq field'.on,
         UNCHANGED <<loop, due>>, step = "running", step' = "running",
         Bounded => /\ Split(pending, Todos, Hands, Visited)'
                    /\ (\A c \in Visited : visits[c] = 1)'
                    /\ Goal \subseteq All' /\ All' \subseteq All
  PROVE  Sharing'
<1>1. SUFFICES ASSUME Bounded' PROVE Sharing' BY DEF Sharing
<1>2. Bounded /\ Goal' = Goal /\ Room \subseteq Room' BY <1>1, SameGoal
<1>3. All \subseteq Room BY <1>2 DEF Sharing
<1>4. All' \subseteq Room' BY <1>2, <1>3
<1>5. Visited' \subseteq All' BY DEF All, Whole
<1>6. QED BY <1>2, <1>4, <1>5 DEF Sharing

LEMMA RunSame ==
  ASSUME field'.leaf = field.leaf, field'.blocks = field.blocks, UNCHANGED <<lists, loop>>
  PROVE  Todos' = Todos
<1>1. Tasks(loop)' = Tasks(loop) /\ \A i : Todo(i)' = Todo(i) BY SameTasks
<1>2. QED BY <1>1 DEF Todos

\* The first index of a cursor.
LEMMA SpanAdvanced ==
  ASSUME FieldInv, WorkInv, NEW t \in Threads, AtWork(t), Advance(t), field'.leaf = field.leaf
  PROVE  Taken(Hands, Hands', t, CellAt(t))
<1> DEFINE c == cursor[t]
           b == c.at * Leaf
           d == [at |-> c.at, lo |-> c.lo + 1, hi |-> c.hi]
<1>1. c \in [at : Nat, lo : Int, hi : Int] /\ CellAt(t) \in Span(c) /\ Hands[t] = Span(c)
  BY CursorAt DEF Hands
<1>2. cursor'[t] = d /\ \A u \in Threads : u # t => cursor'[u] = cursor[u] BY Advanced
<1>3. Span(d) = Span(c) \ {CellAt(t)}
  <2>1. c.lo \in Int /\ c.hi \in Int /\ b \in Int /\ c.lo < c.hi
    <3>1. Leaf \in Nat BY DEF FieldInv, FieldOK, Leaf
    <3>2. c.at \in Nat BY <1>1
    <3>3. QED BY <1>1, <3>1, <3>2 DEF AtWork
  <2>2. Span(d) = {b + k : k \in c.lo + 1 .. c.hi - 1} /\ Span(c) = {b + k : k \in c.lo .. c.hi - 1}
        /\ CellAt(t) = b + c.lo
    BY DEF Span, CellAt
  <2> DEFINE l == c.lo
             h == c.hi
  <2>3. l \in Int /\ h \in Int /\ b \in Int BY <2>1
  <2> HIDE DEF l, h, b, c
  <2>4. l .. h - 1 = (l + 1 .. h - 1) \cup {l} BY <2>1, <2>3 DEF l, h
  <2>5. \A k \in l + 1 .. h - 1 : b + k # b + l BY <2>3
  <2>6. {b + k : k \in l + 1 .. h - 1} = {b + k : k \in l .. h - 1} \ {b + l} BY <2>4, <2>5
  <2>7. QED BY <2>2, <2>6 DEF l, h
<1> HIDE DEF c, d
<1>4. \A u \in Threads : Hands'[u] = Span(cursor'[u]) BY HandsNow
<1>5. Hands'[t] = Hands[t] \ {CellAt(t)} BY <1>1, <1>2, <1>3, <1>4
<1>6. \A u \in Threads : u # t => Hands'[u] = Hands[u] BY <1>2, <1>4 DEF Hands
<1>7. QED BY <1>1, <1>5, <1>6 DEF Taken

\* One iteration: the index leaves the hand of its thread, and is visited.
LEMMA BodyShare ==
  ASSUME FieldInv, StageInv, WorkInv, Sharing, step = "running", step' = "running",
         field'.leaf = field.leaf, field'.blocks = field.blocks, field.on \subseteq field'.on,
         UNCHANGED <<lists, loop, due, pending>>,
         NEW t \in Threads, AtWork(t), Advance(t), Visit(CellAt(t))
  PROVE  Sharing' /\ (Bounded => Visited' = Visited \cup {CellAt(t)} /\ CellAt(t) \in Room)
<1> DEFINE c == CellAt(t)
           new == Hands'
<1>1. c \in Int BY CursorAt
<1>2. Visited' = Visited \cup {c} /\ (\A d \in Visited \ {c} : visits'[d] = visits[d])
      /\ visits'[c] = IF c \in Visited THEN visits[c] + 1 ELSE 1
  BY <1>1, Visiting
<1>3. Taken(Hands, new, t, c) BY SpanAdvanced
<1>4. Todos' = Todos BY RunSame
<1> HIDE DEF c, new
<1>5. ASSUME Bounded
      PROVE  /\ c \notin Visited /\ c \in Room /\ Goal \subseteq All
             /\ Split(pending, Todos, new, Visited \cup {c})
             /\ Whole(pending, Todos, new, Visited \cup {c}) = All
  <2>1. Split(pending, Todos, Hands, Visited) /\ Goal \subseteq All /\ All \subseteq Room
    BY <1>5 DEF Sharing
  <2>2. Leaving(pending, Todos, Hands, new, Visited, c)
    BY <2>1, <1>3, SplitTake
  <2>3. QED BY <2>1, <2>2 DEF All, Leaving
<1>6. ASSUME Bounded
      PROVE  /\ Split(pending, Todos, Hands, Visited)'
             /\ (\A d \in Visited : visits[d] = 1)'
             /\ Goal \subseteq All' /\ All' \subseteq All
  <2>1. Split(pending, Todos, Hands, Visited)' = Split(pending', Todos', new, Visited')
    BY DEF Split, new
  <2>2. All' = Whole(pending', Todos', new, Visited') BY DEF All, Whole, new
  <2>3. \A d \in Visited' : visits'[d] = 1 BY <1>2, <1>5, <1>6 DEF Sharing
  <2>4. QED BY <1>2, <1>3, <1>4, <1>5, <1>6, <2>1, <2>2, <2>3
<1>7. Sharing' BY <1>6, RunShare
<1>8. QED BY <1>2, <1>5, <1>7 DEF c

\* One cell passed over: the loop did not have to run for it.
LEMMA SkipShare ==
  ASSUME FieldInv, StageInv, WorkInv, Sharing, Activity, step = "running",
         field' = field, NEW t \in Threads, SkipCell(t)
  PROVE  Sharing'
<1> DEFINE c == CellAt(t)
           new == Hands'
<1>1. /\ AtWork(t) /\ Advance(t) /\ loop.kind = "struct" /\ ~Runs(c)
      /\ UNCHANGED <<lists, loop, step, due, pending, visits>>
  BY DEF SkipCell, pool
<1>2. Visited' = Visited BY <1>1 DEF Visited
<1>3. Taken(Hands, new, t, c) BY <1>1, SpanAdvanced
<1>4. Todos' = Todos BY <1>1, RunSame
<1>5. c \notin Goal BY <1>1 DEF Goal, Activity, ActiveCells, IsActive, Runs
<1> HIDE DEF c, new
<1>6. ASSUME Bounded
      PROVE  /\ Split(pending, Todos, Hands, Visited)'
             /\ (\A d \in Visited : visits[d] = 1)'
             /\ Goal \subseteq All' /\ All' \subseteq All
  <2>1. Split(pending, Todos, Hands, Visited) /\ Goal \subseteq All BY <1>6, <1>1 DEF Sharing
  <2>2. /\ Split(pending, Todos, new, Visited)
        /\ Whole(pending, Todos, new, Visited) \subseteq All
        /\ All \subseteq Whole(pending, Todos, new, Visited) \cup {c}
    <3>1. Leaving(pending, Todos, Hands, new, Visited, c)
      BY <2>1, <1>3, SplitTake
    <3>2. QED BY <3>1 DEF All, Leaving
  <2>3. Split(pending, Todos, Hands, Visited)' = Split(pending', Todos', new, Visited')
    BY DEF Split, new
  <2>4. All' = Whole(pending', Todos', new, Visited') BY DEF All, Whole, new
  <2>5. \A d \in Visited' : visits'[d] = 1 BY <1>1, <1>2, <1>6 DEF Sharing
  <2>6. QED BY <1>1, <1>2, <1>3, <1>4, <1>5, <2>1, <2>2, <2>3, <2>4, <2>5
<1>7. QED BY <1>1, <1>6, RunShare

\* The call hands out the tasks of the loop.
LEMMA EnterShare ==
  ASSUME FieldInv, ListInv, StageInv, WorkInv, Activity, ParallelFor, field' = field
  PROVE  Sharing'
<1>1. /\ step = "loop" /\ step' = "running" /\ pending' = 0 .. Tasks(loop) - 1
      /\ UNCHANGED <<lists, loop, cursor, visits, due>>
  BY DEF ParallelFor, Pool!Enter, work
<1>2. SUFFICES ASSUME Bounded' PROVE Sharing' BY DEF Sharing
<1>3. Bounded /\ Goal' = Goal BY <1>1, <1>2, SameGoal
<1>4. Room' = Room
  <2>1. loop.kind # "struct" => Room' = Room BY <1>1, SameGoal
  <2>2. Inside(field.on)' = Inside(field.on) BY <1>1 DEF Inside, AllCells, BlockOf, Leaf
  <2>3. QED BY <1>1, <2>1, <2>2 DEF Room
<1>5. visits = EmptyBag /\ \A u \in Threads : cursor[u] = NoTask
  BY <1>1 DEF StageInv
<1>6. Visited = {} /\ Visited' = {}
  BY <1>1, <1>5 DEF Visited, BagToSet, EmptyBag, SetToBag
<1>7. \A u \in Threads : Hands'[u] = {} BY <1>1, <1>5 DEF Hands, Span, NoTask
<1>8. Todos' = Todos BY <1>1, RunSame
<1>9. TasksApart /\ TasksIn(Room) /\ TasksCover(Goal)
  <2>1. CASE loop \in FlatLoops
    <3>1. loop.kind # "struct" BY <2>1, Kinds DEF Flat
    <3>2. BoundsFit(loop)
      BY <1>3, <2>1, <3>1 DEF Bounded, StructLoops
    <3>3. Leaf \in Nat BY DEF FieldInv, FieldOK, Leaf
    <3>4. QED BY <2>1, <3>1, <3>2, <3>3, FlatTasks DEF Room, Goal
  <2>2. CASE loop \in StructLoops
    <3>1. loop.kind = "struct" BY <2>2 DEF StructLoops
    <3>2. Lists(lists.leaf, field.on) BY <1>1, <3>1 DEF ListInv
    <3>3. TasksApart /\ TasksIn(Inside(field.on))
          /\ (SplitsEvenly(loop) => TasksCover(Inside(field.on)))
      BY <2>2, <3>2, StructTasksOf DEF FieldInv
    <3>4. due \subseteq Inside(field.on)
      BY <1>1, <3>1 DEF Activity, ActiveCells, IsActive, Inside
    <3>5. TasksCover(Goal)
      <4>1. CASE SplitsEvenly(loop)
        <5>1. TasksCover(Inside(field.on)) BY <4>1, <3>3
        <5>2. Goal = due BY <4>1, <3>1 DEF Goal
        <5>3. QED BY <5>1, <5>2, <3>4 DEF TasksCover
      <4>2. CASE ~SplitsEvenly(loop) BY <4>2, <3>1 DEF Goal, TasksCover
      <4>3. QED BY <4>1, <4>2
    <3>6. QED BY <3>1, <3>3, <3>5 DEF Room
  <2>3. QED BY <1>3, <2>1, <2>2 DEF Bounded
<1>10. pending' = 0 .. Tasks(loop) - 1 /\ \A i \in pending' : Todos'[i] = Todo(i)
  BY <1>1, <1>8 DEF Todos
<1>11. Split(pending, Todos, Hands, Visited)'
  BY <1>6, <1>7, <1>9, <1>10 DEF Split, TasksApart
<1>12. All' = UNION {Todos'[i] : i \in pending'}
  <2>1. UNION {Hands'[u] : u \in Threads} = {} BY <1>7
  <2>2. QED BY <1>6, <2>1 DEF All, Whole
<1>13. Goal \subseteq All' BY <1>9, <1>10, <1>12 DEF TasksCover
<1>14. All' \subseteq Room BY <1>9, <1>10, <1>12 DEF TasksIn
<1>15. QED BY <1>3, <1>4, <1>6, <1>11, <1>13, <1>14 DEF Sharing

\* A thread picks a task.
LEMMA BeginShare ==
  ASSUME FieldInv, StageInv, WorkInv, Sharing, step = "running", field' = field,
         NEW t \in Threads, NEW i \in pending, BeginTask(t, i)
  PROVE  Sharing'
<1> DEFINE new == Hands'
<1>1. /\ active[t] = Pool!Resting /\ pending' = pending \ {i}
      /\ cursor' = [cursor EXCEPT ![t] = Task(loop, i)]
      /\ UNCHANGED <<lists, loop, step, due, visits>>
  BY DEF BeginTask, Pool!Begin
<1>2. Visited' = Visited BY <1>1 DEF Visited
<1>3. Hands[t] = {} BY <1>1, EmptySpan DEF Hands, StageInv
<1>4. Todos' = Todos BY <1>1, RunSame
<1>5. Todos[i] = Span(Task(loop, i)) BY DEF Todos, Todo, StageInv
<1>6. DOMAIN cursor = Threads BY DEF WorkInv
<1>7. new[t] = Todos[i] /\ \A u \in Threads : u # t => new[u] = Hands[u]
  <2>1. \A u \in Threads : new[u] = Span(cursor'[u]) BY HandsNow
  <2>2. cursor'[t] = Task(loop, i) BY <1>1, <1>6
  <2>3. \A u \in Threads : u # t => cursor'[u] = cursor[u] BY <1>1, <1>6
  <2>4. QED BY <1>5, <2>1, <2>2, <2>3 DEF Hands
<1> HIDE DEF new
<1>8. ASSUME Bounded
      PROVE  /\ Split(pending, Todos, Hands, Visited)'
             /\ (\A d \in Visited : visits[d] = 1)'
             /\ Goal \subseteq All' /\ All' \subseteq All
  <2>1. Split(pending, Todos, Hands, Visited) /\ Goal \subseteq All BY <1>1, <1>8 DEF Sharing
  <2>2. /\ Split(pending \ {i}, Todos, new, Visited)
        /\ Whole(pending \ {i}, Todos, new, Visited) = All
    BY <2>1, <1>3, <1>7, SplitPick DEF All
  <2>3. Split(pending, Todos, Hands, Visited)' = Split(pending', Todos', new, Visited')
    BY DEF Split, new
  <2>4. All' = Whole(pending', Todos', new, Visited') BY DEF All, Whole, new
  <2>5. \A d \in Visited' : visits'[d] = 1 BY <1>1, <1>2, <1>8 DEF Sharing
  <2>6. QED BY <1>1, <1>2, <1>4, <2>1, <2>2, <2>3, <2>4, <2>5
<1>9. QED BY <1>1, <1>8, RunShare

\* Nothing an index of the loop is in changes.
LEMMA SameShare ==
  ASSUME StageInv, Sharing, step = "running", step' = "running", field' = field,
         UNCHANGED <<lists, loop, due, pending, visits>>, Hands' = Hands
  PROVE  Sharing'
<1>1. Todos' = Todos BY RunSame
<1>2. Visited' = Visited BY DEF Visited
<1>3. ASSUME Bounded
      PROVE  /\ Split(pending, Todos, Hands, Visited)'
             /\ (\A d \in Visited : visits[d] = 1)'
             /\ Goal \subseteq All' /\ All' \subseteq All
  <2>1. Split(pending, Todos, Hands, Visited) /\ Goal \subseteq All BY <1>3 DEF Sharing
  <2>2. Split(pending, Todos, Hands, Visited)' = Split(pending', Todos', Hands', Visited')
    BY DEF Split
  <2>3. All' = Whole(pending', Todos', Hands', Visited') BY DEF All, Whole
  <2>4. All' = All BY <1>1, <1>2, <2>3 DEF All
  <2>5. \A d \in Visited' : visits'[d] = 1 BY <1>2, <1>3 DEF Sharing
  <2>6. QED BY <1>1, <1>2, <2>1, <2>2, <2>4, <2>5
<1>4. QED BY <1>3, RunShare

LEMMA EndShare ==
  ASSUME FieldInv, StageInv, WorkInv, Sharing, step = "running", field' = field,
         NEW t \in Threads, EndTask(t)
  PROVE  Sharing'
<1>1. /\ active[t] # Pool!Resting /\ ~AtWork(t) /\ cursor' = [cursor EXCEPT ![t] = NoTask]
      /\ UNCHANGED <<lists, loop, step, due, visits, pending>>
  BY DEF EndTask, Pool!End
<1>2. cursor \in [Threads -> [at : Nat, lo : Int, hi : Int]] BY DEF WorkInv
<1>3. Span(cursor[t]) = {}
  <2>1. cursor[t].lo \in Int /\ cursor[t].hi \in Int /\ ~(cursor[t].lo < cursor[t].hi)
    BY <1>1, <1>2 DEF AtWork
  <2>2. cursor[t].lo .. cursor[t].hi - 1 = {} BY <2>1
  <2>3. QED BY <2>2 DEF Span
<1>4. \A u \in Threads : Hands'[u] = Hands[u]
  <2>1. SUFFICES ASSUME NEW u \in Threads PROVE Hands'[u] = Hands[u] OBVIOUS
  <2>2. Hands'[u] = Span(cursor'[u]) /\ Hands[u] = Span(cursor[u]) BY HandsNow DEF Hands
  <2>3. CASE u = t BY <1>1, <1>2, <1>3, <2>2, <2>3, EmptySpan
  <2>4. CASE u # t BY <1>1, <1>2, <2>2, <2>4
  <2>5. QED BY <2>3, <2>4
<1>5. Hands' = Hands
  <2>1. Hands = [u \in Threads |-> Hands[u]] /\ Hands' = [u \in Threads |-> Hands'[u]]
    BY DEF Hands
  <2>2. QED BY <1>4, <2>1
<1>6. QED BY <1>1, <1>5, SameShare

LEMMA SharingNext ==
  ASSUME LInv, [Next]_vars
  PROVE  Sharing'
<1> USE DEF LInv
<1>1. StageInv' BY StageNext
<1>2. /\ field'.leaf = field.leaf /\ field'.blocks = field.blocks
      /\ (step # "idle" => field.on \subseteq field'.on)
  BY FieldNext
<1>3. CASE ClearBlocks \/ ElementListgenRoot \/ ClearLeaf \/ ElementListgenNonroot
  <2>1. step' \notin {"idle", "running"}
    BY <1>3 DEF ClearBlocks, ClearLeaf, ClearList, ElementListgenRoot, ElementListgenNonroot, Listgen
  <2>2. QED BY <1>1, <2>1, FreshShare
<1>4. CASE ParallelFor
  <2>1. field' = field BY <1>4 DEF ParallelFor
  <2>2. QED BY <1>4, <2>1, EnterShare
<1>5. CASE \E t \in Threads, i \in pending : BeginTask(t, i)
  <2>1. PICK t \in Threads, i \in pending : BeginTask(t, i) BY <1>5
  <2>2. step = "running" BY <1>5, Phase
  <2>3. field' = field BY <2>1 DEF BeginTask
  <2>4. QED BY <2>1, <2>2, <2>3, BeginShare
<1>6. CASE \E t \in Threads : BodyRange(t) \/ BodyMesh(t)
  <2>1. PICK t \in Threads : BodyRange(t) \/ BodyMesh(t) BY <1>6
  <2>2. step = "running" BY <1>6, Phase
  <2>3. cursor[t].lo = CellAt(t)
    <3>1. loop.kind # "struct" BY <2>1 DEF BodyRange, BodyMesh
    <3>2. QED BY <3>1, CursorAt
  <2>4. /\ AtWork(t) /\ Advance(t) /\ Visit(CellAt(t))
        /\ UNCHANGED <<lists, loop, step, due, pending>>
    BY <2>1, <2>3 DEF BodyRange, BodyMesh, pool
  <2>5. QED BY <1>2, <2>2, <2>4, BodyShare
<1>7. CASE \E t \in Threads, c \in AllCells : BodyCell(t, c)
  <2>1. PICK t \in Threads, c \in AllCells : BodyCell(t, c) BY <1>7
  <2>2. step = "running" BY <1>7, Phase
  <2>3. /\ AtWork(t) /\ Advance(t) /\ Visit(CellAt(t))
        /\ UNCHANGED <<lists, loop, step, due, pending>>
    BY <2>1 DEF BodyCell, pool
  <2>4. QED BY <1>2, <2>2, <2>3, BodyShare
<1>8. CASE \E t \in Threads : SkipCell(t)
  <2>1. PICK t \in Threads : SkipCell(t) BY <1>8
  <2>2. step = "running" BY <1>8, Phase
  <2>3. field' = field BY <2>1 DEF SkipCell
  <2>4. QED BY <2>1, <2>2, <2>3, SkipShare
<1>9. CASE \E t \in Threads : EndTask(t)
  <2>1. PICK t \in Threads : EndTask(t) BY <1>9
  <2>2. step = "running" BY <1>9, Phase
  <2>3. field' = field BY <2>1 DEF EndTask
  <2>4. QED BY <2>1, <2>2, <2>3, EndShare
<1>10. CASE Return
  <2>1. /\ pending = {} /\ (\A t \in Threads : active[t] = Pool!Resting) /\ step' = "idle"
        /\ UNCHANGED <<loop, due, visits>>
    BY <1>10 DEF Return, Pool!Return
  <2>2. step = "running" BY <1>10, Phase
  <2>3. QED BY <1>1, <1>2, <2>1, <2>2, IdleShare
<1>11. CASE (\E c \in AllCells : Write(c)) \/ \E p \in 0 .. field.blocks - 1 : Deactivate(p)
  <2>1. step = "idle" /\ step' = "idle" /\ UNCHANGED <<loop, due, visits>>
    BY <1>11 DEF Write, Deactivate, work
  <2>2. pending = {} /\ \A t \in Threads : active[t] = Pool!Resting BY <2>1 DEF StageInv
  <2>3. QED BY <1>1, <1>2, <2>1, <2>2, IdleShare
<1>12. CASE LaunchFlat \/ LaunchStruct
  <2>1. step' \notin {"idle", "running"} BY <1>12 DEF LaunchFlat, LaunchStruct, Launch
  <2>2. QED BY <1>1, <2>1, FreshShare
<1>13. CASE UNCHANGED vars
  <2>1. UNCHANGED <<field, lists, loop, step, due, pending, active, cursor, visits>>
    BY <1>13 DEF vars, pool, work
  <2>2. CASE step = "running"
    <3>1. Hands' = Hands
      <4>1. \A u \in Threads : Hands'[u] = Hands[u] BY <2>1, HandsNow DEF Hands
      <4>2. Hands = [u \in Threads |-> Hands[u]] /\ Hands' = [u \in Threads |-> Hands'[u]]
        BY DEF Hands
      <4>3. QED BY <4>1, <4>2
    <3>2. QED BY <2>1, <2>2, <3>1, SameShare
  <2>3. CASE step = "idle"
    <3>1. pending = {} /\ \A t \in Threads : active[t] = Pool!Resting BY <2>3 DEF StageInv
    <3>2. QED BY <1>1, <1>2, <2>1, <2>3, <3>1, IdleShare
  <2>4. CASE step \notin {"idle", "running"} BY <1>1, <2>1, <2>4, FreshShare
  <2>5. QED BY <2>2, <2>3, <2>4
<1>14. QED BY <1>3, <1>4, <1>5, <1>6, <1>7, <1>8, <1>9, <1>10, <1>11, <1>12, <1>13
           DEF Next, Kernel, Program

----------------------------------------------------------------------------
(* Active cells *)

LEMMA ActiveKept ==
  ASSUME field'.leaf = field.leaf, field'.blocks = field.blocks, field'.type = field.type,
         field.on \subseteq field'.on, field.mask \subseteq field'.mask
  PROVE  /\ \A c : IsActive(c) => IsActive(c)'
         /\ ActiveCells \subseteq ActiveCells'
<1>1. \A c : BlockOf(c)' = BlockOf(c) BY SameShape
<1>2. AllCells' = AllCells BY SameShape
<1>3. \A c : IsActive(c) => IsActive(c)' BY <1>1 DEF IsActive
<1>4. QED BY <1>2, <1>3 DEF ActiveCells

LEMMA ActivityNext ==
  ASSUME LInv, [Next]_vars
  PROVE  Activity'
<1> USE DEF LInv
<1>1. /\ field'.leaf = field.leaf /\ field'.blocks = field.blocks
      /\ step # "idle" => /\ field'.type = field.type
                          /\ field.on \subseteq field'.on /\ field.mask \subseteq field'.mask
  BY FieldNext
<1>2. step # "idle" => (\A c : IsActive(c) => IsActive(c)') /\ ActiveCells \subseteq ActiveCells'
  BY <1>1, ActiveKept
<1>3. CASE LaunchFlat \/ LaunchStruct
  <2>1. field' = field /\ due' = ActiveCells /\ step' # "running"
    BY <1>3 DEF LaunchFlat, LaunchStruct, Launch
  <2>2. ActiveCells' = ActiveCells BY <2>1 DEF ActiveCells, AllCells, IsActive, BlockOf, Leaf
  <2>3. QED BY <2>1, <2>2 DEF Activity
<1>4. CASE step' = "idle" BY <1>4 DEF Activity
<1>5. ASSUME step # "idle", UNCHANGED <<loop, due>>,
             loop.kind = "struct" /\ step' = "running" => \A c \in Visited' : IsActive(c)'
      PROVE  Activity'
  BY <1>2, <1>5 DEF Activity
<1>6. ASSUME step # "idle", UNCHANGED <<loop, due, visits>>,
             step' = "running" => step = "running" \/ visits = EmptyBag
      PROVE  Activity'
  <2>1. Visited' = Visited BY <1>6 DEF Visited
  <2>2. visits = EmptyBag => Visited = {} BY DEF Visited, BagToSet, EmptyBag, SetToBag
  <2>3. loop.kind = "struct" /\ step' = "running" => \A c \in Visited' : IsActive(c)'
    BY <1>2, <1>6, <2>1, <2>2 DEF Activity
  <2>4. QED BY <1>5, <1>6, <2>3
<1>7. CASE ClearBlocks \/ ElementListgenRoot \/ ClearLeaf \/ ElementListgenNonroot
  <2>1. step # "idle" /\ step' # "running" /\ UNCHANGED <<loop, due, visits>>
    BY <1>7 DEF ClearBlocks, ClearLeaf, ClearList, ElementListgenRoot, ElementListgenNonroot,
                Listgen, work
  <2>2. QED BY <1>6, <2>1
<1>8. CASE ParallelFor
  <2>1. step = "loop" /\ UNCHANGED <<loop, due, visits>> BY <1>8 DEF ParallelFor, work
  <2>2. visits = EmptyBag BY <2>1 DEF StageInv
  <2>3. QED BY <1>6, <2>1, <2>2
<1>9. CASE \/ \E t \in Threads, i \in pending : BeginTask(t, i)
           \/ \E t \in Threads : SkipCell(t) \/ EndTask(t)
  <2>1. step = "running" BY <1>9, Phase
  <2>2. UNCHANGED <<loop, due, visits>> BY <1>9 DEF BeginTask, SkipCell, EndTask
  <2>3. QED BY <1>6, <2>1, <2>2
<1>10. CASE \E t \in Threads : BodyRange(t) \/ BodyMesh(t)
  <2>1. step = "running" BY <1>10, Phase
  <2>2. loop.kind # "struct" /\ UNCHANGED <<loop, due>> BY <1>10 DEF BodyRange, BodyMesh
  <2>3. QED BY <1>5, <2>1, <2>2
<1>11. CASE \E t \in Threads, c \in AllCells : BodyCell(t, c)
  <2>1. PICK t \in Threads, c \in AllCells : BodyCell(t, c) BY <1>11
  <2>2. step = "running" BY <1>11, Phase
  <2>3. /\ AtWork(t) /\ Advance(t) /\ Visit(CellAt(t)) /\ loop.kind = "struct" /\ Runs(CellAt(t))
        /\ UNCHANGED <<lists, loop, step, due, pending>>
    BY <2>1 DEF BodyCell, pool
  <2>4. Bounded BY <2>3, Kinds DEF Bounded, StageInv
  <2>5. Visited' = Visited \cup {CellAt(t)} /\ CellAt(t) \in Room
    BY <1>1, <2>2, <2>3, <2>4, BodyShare
  <2>6. IsActive(CellAt(t)) BY <2>3, <2>5 DEF Room, Inside, IsActive, Runs
  <2>7. \A d \in Visited : IsActive(d) BY <2>2, <2>3 DEF Activity
  <2>8. \A d \in Visited' : IsActive(d)' BY <1>2, <2>2, <2>5, <2>6, <2>7
  <2>9. QED BY <1>5, <2>2, <2>3, <2>8
<1>12. CASE Return BY <1>4, <1>12 DEF Return
<1>13. CASE (\E c \in AllCells : Write(c)) \/ \E p \in 0 .. field.blocks - 1 : Deactivate(p)
  BY <1>4, <1>13 DEF Write, Deactivate
<1>14. CASE UNCHANGED vars
  <2>1. UNCHANGED <<loop, due, visits, step>> BY <1>14 DEF vars, work
  <2>2. QED BY <1>4, <1>6, <2>1
<1>15. QED BY <1>3, <1>7, <1>8, <1>9, <1>10, <1>11, <1>12, <1>13, <1>14
           DEF Next, Kernel, Program

----------------------------------------------------------------------------
(* The invariant holds *)

LEMMA LInvInit == Init => LInv
<1>1. SUFFICES ASSUME Init PROVE LInv OBVIOUS
<1> USE <1>1 DEF Init
<1>2. FieldInv
  <2>1. PICK s \in Shapes, k \in {"dense", "bitmasked"} :
          field = [blocks |-> s[1], leaf |-> s[2], type |-> k, on |-> {}, mask |-> {}]
    OBVIOUS
  <2>2. s[1] \in Nat \ {0} /\ s[2] \in Nat \ {0} BY LoopAssumption
  <2>3. QED BY <2>1, <2>2 DEF FieldInv, FieldOK
<1>3. call = Pool!Idle /\ pending = {} /\ active = [t \in Threads |-> Pool!Resting]
  BY DEF Pool!Init
<1>4. StageInv BY <1>3 DEF StageInv, Steps, Listing
<1>5. visits = EmptyBag /\ Visited = {} /\ visits \in [{} -> Nat \ {0}]
  BY DEF Visited, BagToSet, EmptyBag, SetToBag
<1>6. WorkInv BY <1>5, FS_EmptySet DEF WorkInv, NoTask
<1>7. ListInv
  <2>1. field.blocks * PartsPerBlock \in Nat
    <3>1. Leaf \in Nat \ {0} /\ field.blocks \in Nat BY <1>2 DEF FieldInv, FieldOK, Leaf
    <3>2. ElementSize \in Nat \ {0} BY <3>1, ChunkSizes DEF ElementSize
    <3>3. PartsPerBlock \in Nat
      <4> DEFINE e == ElementSize
                 l == Leaf
      <4>1. e \in Nat \ {0} /\ l \in Nat BY <3>1, <3>2
      <4> HIDE DEF e, l
      <4>2. (l + e - 1) \div e \in Nat BY <4>1
      <4>3. QED BY <4>2 DEF PartsPerBlock, e, l
    <3>4. QED BY <3>1, <3>3
  <2> DEFINE A == Seq([at : Nat, lo : Nat, hi : Nat])
             B == Seq(Parts)
  <2>2. <<>> \in A /\ <<>> \in B OBVIOUS
  <2> HIDE DEF A, B
  <2>3. lists \in [blocks : A, leaf : B] BY <2>2
  <2>4. Len(lists.leaf) = 0 OBVIOUS
  <2>5. QED BY <2>1, <2>3, <2>4 DEF ListInv, A, B
<1>8. Sharing
  <2>1. ~Bounded
    <3>1. loop.kind = "none" BY DEF NoLoop
    <3>2. QED BY <3>1, Kinds DEF Bounded, Flat
  <2>2. QED BY <2>1 DEF Sharing
<1>9. Activity BY DEF Activity, NoLoop
<1>10. QED BY <1>2, <1>4, <1>6, <1>7, <1>8, <1>9 DEF LInv

LEMMA LInvNext == LInv /\ [Next]_vars => LInv'
<1>1. SUFFICES ASSUME LInv, [Next]_vars PROVE LInv' OBVIOUS
<1>2. FieldInv' /\ ListInv' /\ StageInv' /\ WorkInv'
  BY <1>1, FieldNext, ListNext, StageNext, WorkNext DEF LInv
<1>3. Sharing' /\ Activity' BY <1>1, SharingNext, ActivityNext
<1>4. QED BY <1>2, <1>3 DEF LInv

LEMMA Invariant == Spec => []LInv
BY LInvInit, LInvNext, PTL DEF Spec

(* Masks belong to active blocks, the list of the leaf block stays within    *)
(* what its containers allow, and threads hold tasks only while the kernel   *)
(* is in its loop: for every shape of the field, on every int.               *)
THEOREM LoopsTyped == Spec => []TypeOK
<1>1. LInv => TypeOK
  <2>1. SUFFICES ASSUME LInv PROVE TypeOK OBVIOUS
  <2> USE <2>1 DEF LInv
  <2>2. field.on \subseteq 0 .. field.blocks - 1
        /\ field.mask \subseteq UNION {Cells(p) : p \in field.on}
    BY DEF FieldInv, FieldOK
  <2>3. \A t \in Threads : cursor[t] # NoTask => active[t] # Pool!Resting BY DEF StageInv
  <2>4. Len(lists.leaf) <= field.blocks * ((Leaf + ElementSize - 1) \div ElementSize)
    BY DEF ListInv, PartsPerBlock
  <2>5. ASSUME step # "running" PROVE call = Pool!Idle /\ cursor = [t \in Threads |-> NoTask]
    <3>1. \A t \in Threads : cursor[t] = NoTask BY <2>5 DEF StageInv
    <3>2. cursor \in [Threads -> [at : Nat, lo : Int, hi : Int]] BY DEF WorkInv
    <3>3. QED BY <2>5, <3>1, <3>2 DEF StageInv
  <2>6. QED BY <2>2, <2>3, <2>4, <2>5 DEF TypeOK
<1>2. QED BY <1>1, Invariant, PTL

(* A range-for or a mesh-for runs its body for no index twice, for none      *)
(* outside its range, and for all of them by the time the call returns:      *)
(* whatever the range, the block, the number of threads and the order in     *)
(* which they pick the tasks, as long as the arithmetic stays within int.    *)
THEOREM EachIndexOnce == Spec => []EveryIndexOnce
<1>1. LInv => EveryIndexOnce
  <2>1. SUFFICES ASSUME LInv, loop.kind \in {"range", "threads", "mesh"}, BoundsFit(loop)
                 PROVE  /\ \A i \in Visited : i \in Indices(loop) /\ visits[i] = 1
                        /\ Finished => Visited = Indices(loop)
    BY DEF EveryIndexOnce, Visited
  <2>2. loop \in FlatLoops BY <2>1, Kinds DEF LInv, StageInv, Flat
  <2>3. Bounded BY <2>1, <2>2 DEF Bounded
  <2>4. Visited \subseteq Room /\ (\A c \in Visited : visits[c] = 1)
        /\ (step \in {"idle", "running"} => Goal \subseteq All)
    BY <2>1, <2>3 DEF LInv, Sharing
  <2>5. Room = Indices(loop) /\ Goal = Indices(loop) BY <2>1 DEF Room, Goal
  <2>6. Finished => Visited = Indices(loop)
    <3>1. SUFFICES ASSUME step = "idle" PROVE Indices(loop) \subseteq Visited
      BY <2>4, <2>5 DEF Finished
    <3>2. All = Visited BY <2>1, <3>1, NothingLeft DEF LInv, StageInv
    <3>3. QED BY <2>4, <2>5, <3>1, <3>2
  <2>7. QED BY <2>4, <2>5, <2>6
<1>2. QED BY <1>1, Invariant, PTL

(* A struct-for runs its body for no cell twice and for no inactive one,     *)
(* while its bodies activate further cells; and for every cell that was      *)
(* active at the launch where num_splits divides the size of the elements.   *)
THEOREM EachActiveCellOnce == Spec => []ActiveCellsOnce
<1>1. LInv => ActiveCellsOnce
  <2>1. SUFFICES ASSUME LInv, loop.kind = "struct"
                 PROVE  /\ \A c \in Visited : visits[c] = 1
                        /\ step = "running" => \A c \in Visited : IsActive(c)
                        /\ Finished /\ SplitsEvenly(loop) => due \subseteq Visited
    BY DEF ActiveCellsOnce, Visited
  <2>2. Bounded BY <2>1, Kinds DEF LInv, StageInv, Bounded
  <2>3. \A c \in Visited : visits[c] = 1 BY <2>1, <2>2 DEF LInv, Sharing
  <2>4. step = "running" => \A c \in Visited : IsActive(c) BY <2>1 DEF LInv, Activity
  <2>5. ASSUME step = "idle", SplitsEvenly(loop) PROVE due \subseteq Visited
    <3>1. Goal \subseteq All BY <2>1, <2>2, <2>5 DEF LInv, Sharing
    <3>2. All = Visited BY <2>1, <2>5, NothingLeft DEF LInv, StageInv
    <3>3. QED BY <2>1, <2>5, <3>1, <3>2 DEF Goal
  <2>6. QED BY <2>3, <2>4, <2>5 DEF Finished
<1>2. QED BY <1>1, Invariant, PTL

----------------------------------------------------------------------------
(* The reduction *)

\* What every index adds, and what is still in the buffers of the tasks.
Terms == [i \in Visited |-> i * visits[i]]
Buffers == [t \in Threads |-> IF active[t] # Pool!Resting /\ loop.kind # "mesh" THEN tls[t] ELSE 0]
SumInv == total + SumFunctionOnSet(Buffers, Threads) = SumFunctionOnSet(Terms, Visited)

LEMMA SumTyped ==
  ASSUME WorkInv
  PROVE  /\ \A t \in Threads : Buffers[t] \in Int
         /\ \A i \in Visited : Terms[i] \in Int
         /\ SumFunctionOnSet(Buffers, Threads) \in Int /\ SumFunctionOnSet(Terms, Visited) \in Int
<1>1. \A t \in Threads : Buffers[t] \in Int BY DEF Buffers, WorkInv
<1>2. \A i \in Visited : Terms[i] \in Int BY DEF Terms, WorkInv
<1>3. IsFiniteSet(Threads) /\ IsFiniteSet(Visited) BY LoopAssumption DEF WorkInv
<1>4. QED BY <1>1, <1>2, <1>3, Sums

LEMMA BuffersKept ==
  ASSUME \A t \in Threads : Buffers'[t] = Buffers[t]
  PROVE  SumFunctionOnSet(Buffers, Threads)' = SumFunctionOnSet(Buffers, Threads)
<1> DEFINE h == Buffers
           k == Buffers'
<1>1. IsFiniteSet(Threads) /\ \A t \in Threads : h[t] = k[t] BY LoopAssumption
<1>2. SumFunctionOnSet(Buffers, Threads)' = SumFunctionOnSet(k, Threads)
  BY DEF SumFunctionOnSet, FoldFunctionOnSet, MapThenFoldSet
<1> HIDE DEF h, k
<1>3. SumFunctionOnSet(h, Threads) = SumFunctionOnSet(k, Threads) BY <1>1, SumEq
<1>4. QED BY <1>2, <1>3 DEF h

LEMMA TermsKept ==
  ASSUME visits' = visits
  PROVE  SumFunctionOnSet(Terms, Visited)' = SumFunctionOnSet(Terms, Visited)
<1>1. Visited' = Visited /\ Terms' = Terms BY DEF Visited, Terms
<1>2. SumFunctionOnSet(Terms, Visited)' = SumFunctionOnSet(Terms', Visited')
  BY DEF SumFunctionOnSet, FoldFunctionOnSet, MapThenFoldSet
<1>3. QED BY <1>1, <1>2

\* An index that is visited adds itself.
LEMMA TermAdded ==
  ASSUME WorkInv, NEW x \in Int, Visit(x)
  PROVE  SumFunctionOnSet(Terms, Visited)' = SumFunctionOnSet(Terms, Visited) + x
<1> DEFINE V == Visited
           W == Visited'
           h == Terms
           k == Terms'
<1>1. /\ W = V \cup {x} /\ (\A d \in V \ {x} : visits'[d] = visits[d])
      /\ visits'[x] = IF x \in V THEN visits[x] + 1 ELSE 1
  BY Visiting
<1>2. IsFiniteSet(V) /\ V \subseteq Int /\ visits \in [V -> Nat \ {0}] BY DEF WorkInv
<1>3. (\A i \in V : h[i] = i * visits[i]) /\ \A i \in W : k[i] = i * visits'[i]
  BY DEF Terms
<1>4. SumFunctionOnSet(Terms, Visited)' = SumFunctionOnSet(k, W)
  BY DEF SumFunctionOnSet, FoldFunctionOnSet, MapThenFoldSet
<1> HIDE DEF V, W, h, k
<1>5. \A d \in V : d # x => k[d] = h[d] BY <1>1, <1>3
<1>6. \A d \in V : h[d] \in Int
  <2>1. \A d \in V : d \in Int /\ visits[d] \in Int BY <1>2
  <2>2. QED BY <1>3, <2>1
<1>7. CASE x \in V
  <2>1. visits[x] \in Int BY <1>2, <1>7
  <2>2. k[x] = x * (visits[x] + 1) /\ h[x] = x * visits[x] BY <1>1, <1>3, <1>7
  <2>3. x * (visits[x] + 1) = x * visits[x] + x BY <2>1
  <2>4. k[x] = h[x] + x /\ h[x] \in Int /\ k[x] \in Int BY <1>6, <1>7, <2>2, <2>3
  <2>5. \A d \in V : h[d] \in Int /\ k[d] \in Int BY <1>5, <1>6, <2>4
  <2>6. /\ SumFunctionOnSet(k, V) + h[x] = SumFunctionOnSet(h, V) + k[x]
        /\ SumFunctionOnSet(h, V) \in Int /\ SumFunctionOnSet(k, V) \in Int
    <3>1. IntsOn(h, V) /\ IntsOn(k, V) /\ Agree(h, k, V \ {x})
      BY <1>5, <2>5 DEF IntsOn, Agree
    <3>2. QED BY <1>2, <1>7, <3>1, SumChange
  <2>7. SumFunctionOnSet(k, V) = SumFunctionOnSet(h, V) + x
    <3> DEFINE p == SumFunctionOnSet(k, V)
               q == SumFunctionOnSet(h, V)
               a == k[x]
               b == h[x]
    <3>1. p + b = q + a /\ p \in Int /\ q \in Int /\ a = b + x /\ a \in Int /\ b \in Int
      BY <2>4, <2>6
    <3> HIDE DEF p, q, a, b
    <3>2. p = q + x BY <3>1
    <3>3. QED BY <3>2 DEF p, q
  <2>8. W = V BY <1>1, <1>7
  <2>9. QED BY <1>4, <2>7, <2>8 DEF h, V
<1>8. CASE x \notin V
  <2>1. k[x] = x * 1 BY <1>1, <1>3, <1>8
  <2>2. k[x] = x BY <2>1
  <2>3. W \ {x} = V /\ x \in W BY <1>1, <1>8
  <2>4. IsFiniteSet(W) BY <1>1, <1>2, FS_AddElement
  <2>5. \A d \in W : k[d] \in Int
    <3>1. \A d \in V : k[d] \in Int BY <1>5, <1>6, <1>8
    <3>2. QED BY <1>1, <2>2, <3>1
  <2>6. IntsOn(k, W) /\ Agree(h, k, V) /\ Without(V, W, x)
    BY <1>5, <1>8, <2>3, <2>5 DEF IntsOn, Agree, Without
  <2>7. SumFunctionOnSet(k, W) = SumFunctionOnSet(h, V) + k[x] BY <2>4, <2>6, SumGrow
  <2>8. QED BY <1>4, <2>2, <2>3, <2>7 DEF h, V
<1>9. QED BY <1>7, <1>8

\* One buffer changes.
LEMMA BufferChanged ==
  ASSUME WorkInv, WorkInv', NEW t \in Threads,
         \A u \in Threads : u # t => Buffers'[u] = Buffers[u]
  PROVE  SumFunctionOnSet(Buffers, Threads)' + Buffers[t]
         = SumFunctionOnSet(Buffers, Threads) + Buffers'[t]
<1> DEFINE h == Buffers
           k == Buffers'
<1>1. IsFiniteSet(Threads) BY LoopAssumption
<1>2. \A u \in Threads : h[u] \in Int /\ k[u] \in Int
  <2>1. \A u \in Threads : Buffers[u] \in Int BY SumTyped
  <2>2. (\A u \in Threads : Buffers[u] \in Int)' BY DEF Buffers, WorkInv
  <2>3. QED BY <2>1, <2>2
<1>3. SumFunctionOnSet(Buffers, Threads)' = SumFunctionOnSet(k, Threads)
  BY DEF SumFunctionOnSet, FoldFunctionOnSet, MapThenFoldSet
<1>4. \A u \in Threads : u # t => h[u] = k[u] OBVIOUS
<1> HIDE DEF h, k
<1>5. IntsOn(h, Threads) /\ IntsOn(k, Threads) /\ Agree(h, k, Threads \ {t})
  BY <1>2, <1>4 DEF IntsOn, Agree
<1>6. SumFunctionOnSet(k, Threads) + h[t] = SumFunctionOnSet(h, Threads) + k[t]
  BY <1>1, <1>5, SumChange
<1>7. QED BY <1>3, <1>6 DEF h, k

LEMMA SumNext ==
  ASSUME LInv, SumInv, [Next]_vars
  PROVE  SumInv'
<1> USE DEF LInv
<1> DEFINE B == SumFunctionOnSet(Buffers, Threads)
           T == SumFunctionOnSet(Terms, Visited)
<1>1. WorkInv' /\ StageInv' BY LInvNext
<1>2. B \in Int /\ T \in Int /\ total \in Int BY SumTyped DEF WorkInv
<1>3. cursor \in [Threads -> [at : Nat, lo : Int, hi : Int]] /\ tls \in [Threads -> Int]
      /\ DOMAIN active = Threads
  BY DEF WorkInv, StageInv
<1>4. ASSUME UNCHANGED <<visits, total>>, \A t \in Threads : Buffers'[t] = Buffers[t]
      PROVE  SumInv'
  <2>1. B' = B /\ T' = T BY <1>4, BuffersKept, TermsKept
  <2>2. QED BY <1>4, <2>1 DEF SumInv
<1>5. ASSUME UNCHANGED <<visits, total, loop, active, tls>> PROVE SumInv'
  <2>1. \A t \in Threads : Buffers'[t] = Buffers[t] BY <1>5 DEF Buffers
  <2>2. QED BY <1>4, <1>5, <2>1
<1>6. CASE ClearBlocks \/ ElementListgenRoot \/ ClearLeaf \/ ElementListgenNonroot
  BY <1>5, <1>6 DEF ClearBlocks, ClearLeaf, ClearList, ElementListgenRoot, ElementListgenNonroot,
                    Listgen, work, pool
<1>7. CASE ParallelFor BY <1>5, <1>7 DEF ParallelFor, Pool!Enter, work
<1>8. CASE (\E c \in AllCells : Write(c)) \/ \E p \in 0 .. field.blocks - 1 : Deactivate(p)
  BY <1>5, <1>8 DEF Write, Deactivate, work, pool
<1>9. CASE UNCHANGED vars BY <1>5, <1>9 DEF vars, work, pool
<1>10. CASE \E t \in Threads : SkipCell(t) BY <1>5, <1>10 DEF SkipCell, pool
<1>11. CASE \E t \in Threads, i \in pending : BeginTask(t, i)
  <2>1. PICK t \in Threads, i \in pending : BeginTask(t, i) BY <1>11
  <2>2. /\ active[t] = Pool!Resting /\ UNCHANGED <<loop, visits, total>>
        /\ tls' = [tls EXCEPT ![t] = IF loop.kind = "mesh" THEN tls[t] ELSE 0]
        /\ active' = [active EXCEPT ![t] = Pool!Running(call.ctx, i)]
    BY <2>1 DEF BeginTask, Pool!Begin, Prologue
  <2>3. Buffers[t] = 0 BY <2>2 DEF Buffers
  <2>4. Buffers'[t] = 0 BY <1>3, <2>2 DEF Buffers
  <2>5. \A u \in Threads : u # t => Buffers'[u] = Buffers[u] BY <1>3, <2>2 DEF Buffers
  <2>6. \A u \in Threads : Buffers'[u] = Buffers[u] BY <2>3, <2>4, <2>5
  <2>7. QED BY <1>4, <2>2, <2>6
<1>12. ASSUME NEW t \in Threads, NEW x \in Int, Visit(x), active[t] # Pool!Resting,
              loop.kind # "mesh", UNCHANGED <<loop, active, total>>,
              tls' = [tls EXCEPT ![t] = @ + x]
       PROVE  SumInv'
  <2>1. Buffers[t] = tls[t] BY <1>12 DEF Buffers
  <2>2. Buffers'[t] = tls[t] + x BY <1>3, <1>12 DEF Buffers
  <2>3. \A u \in Threads : u # t => Buffers'[u] = Buffers[u] BY <1>3, <1>12 DEF Buffers
  <2>4. B' + tls[t] = B + (tls[t] + x)
    <3>1. B' + Buffers[t] = B + Buffers'[t] BY <1>1, <2>3, BufferChanged
    <3>2. QED BY <2>1, <2>2, <3>1
  <2>5. T' = T + x BY <1>12, TermAdded
  <2>6. B' \in Int
    <3>1. (SumFunctionOnSet(Buffers, Threads) \in Int)' BY <1>1, SumTyped, PTL
    <3>2. QED BY <3>1
  <2>7. tls[t] \in Int BY <1>3
  <2> HIDE DEF B, T
  <2>8. B' = B + x BY <1>2, <2>4, <2>6, <2>7
  <2>9. total + B = T BY DEF SumInv, B, T
  <2>10. total + B' = T' BY <1>2, <2>5, <2>8, <2>9
  <2>11. QED BY <1>12, <2>10 DEF SumInv, B, T
<1>13. CASE \E t \in Threads : BodyRange(t)
  <2>1. PICK t \in Threads : BodyRange(t) BY <1>13
  <2>2. /\ active[t] # Pool!Resting /\ loop.kind # "mesh" /\ UNCHANGED <<loop, active, total>>
        /\ Visit(cursor[t].lo) /\ tls' = [tls EXCEPT ![t] = @ + cursor[t].lo]
    BY <2>1 DEF BodyRange, AtWork, pool
  <2>3. cursor[t].lo \in Int BY <1>3
  <2>4. QED BY <1>12, <2>2, <2>3
<1>14. CASE \E t \in Threads, c \in AllCells : BodyCell(t, c)
  <2>1. PICK t \in Threads, c \in AllCells : BodyCell(t, c) BY <1>14
  <2>2. /\ active[t] # Pool!Resting /\ loop.kind # "mesh" /\ UNCHANGED <<loop, active, total>>
        /\ Visit(CellAt(t)) /\ tls' = [tls EXCEPT ![t] = @ + CellAt(t)]
    BY <2>1 DEF BodyCell, AtWork, pool
  <2>3. CellAt(t) \in Int BY CursorAt
  <2>4. QED BY <1>12, <2>2, <2>3
<1>15. CASE \E t \in Threads : BodyMesh(t)
  <2>1. PICK t \in Threads : BodyMesh(t) BY <1>15
  <2> DEFINE x == cursor[t].lo
  <2>2. /\ loop.kind = "mesh" /\ UNCHANGED <<loop, active>>
        /\ Visit(x) /\ tls' = [tls EXCEPT ![t] = x] /\ total' = total + tls'[t]
    BY <2>1 DEF BodyMesh, MeshPrologue, pool
  <2>3. x \in Int /\ tls'[t] = x BY <1>3, <2>2
  <2>4. \A u \in Threads : Buffers'[u] = Buffers[u] BY <2>2 DEF Buffers
  <2>5. B' = B BY <2>4, BuffersKept
  <2>6. T' = T + x BY <2>2, <2>3, TermAdded
  <2>7. total' = total + x BY <2>2, <2>3
  <2>8. total + B = T BY DEF SumInv
  <2> HIDE DEF B, T, x
  <2>9. total' + B' = T' BY <1>2, <2>3, <2>5, <2>6, <2>7, <2>8
  <2>10. QED BY <2>9 DEF SumInv, B, T
<1>16. CASE \E t \in Threads : EndTask(t)
  <2>1. PICK t \in Threads : EndTask(t) BY <1>16
  <2>2. /\ active[t] # Pool!Resting /\ UNCHANGED <<loop, tls, visits>>
        /\ active' = [active EXCEPT ![t] = Pool!Resting]
        /\ total' = total + Epilogue(t)
    BY <2>1 DEF EndTask, Pool!End
  <2>3. Buffers[t] = Epilogue(t) BY <2>2 DEF Buffers, Epilogue
  <2>4. Buffers'[t] = 0 BY <1>3, <2>2 DEF Buffers
  <2>5. \A u \in Threads : u # t => Buffers'[u] = Buffers[u] BY <1>3, <2>2 DEF Buffers
  <2>6. B' + Epilogue(t) = B + 0
    <3>1. B' + Buffers[t] = B + Buffers'[t] BY <1>1, <2>5, BufferChanged
    <3>2. QED BY <2>3, <2>4, <3>1
  <2>7. T' = T BY <2>2, TermsKept
  <2>8. B' \in Int
    <3>1. (SumFunctionOnSet(Buffers, Threads) \in Int)' BY <1>1, SumTyped, PTL
    <3>2. QED BY <3>1
  <2>9. Epilogue(t) \in Int BY <1>3 DEF Epilogue
  <2>10. total + B = T BY DEF SumInv
  <2> HIDE DEF B, T
  <2>11. total' + B' = T' BY <1>2, <2>2, <2>6, <2>7, <2>8, <2>9, <2>10
  <2>12. QED BY <2>11 DEF SumInv, B, T
<1>17. CASE Return
  <2>1. /\ (\A t \in Threads : active[t] = Pool!Resting) /\ UNCHANGED <<active, total, visits>>
    BY <1>17 DEF Return, Pool!Return
  <2>2. \A t \in Threads : Buffers'[t] = Buffers[t] BY <2>1 DEF Buffers
  <2>3. QED BY <1>4, <2>1, <2>2
<1>18. CASE LaunchFlat \/ LaunchStruct
  <2>1. step = "idle" /\ UNCHANGED active /\ total' = 0 /\ visits' = EmptyBag
    BY <1>18 DEF LaunchFlat, LaunchStruct, Launch, pool
  <2>2. \A t \in Threads : Buffers[t] = 0 /\ Buffers'[t] = 0 BY <2>1 DEF Buffers, StageInv
  <2>3. B = 0
    <3> DEFINE h == Buffers
    <3>1. IsFiniteSet(Threads) /\ \A t \in Threads : h[t] = 0 BY <2>2, LoopAssumption
    <3> HIDE DEF h
    <3>2. SumFunctionOnSet(h, Threads) = 0 BY <3>1, SumZero
    <3>3. QED BY <3>2 DEF h
  <2>4. B' = B BY <2>2, BuffersKept
  <2>5. T' = 0
    <3> DEFINE k == Terms'
    <3>1. Visited' = {} BY <2>1 DEF Visited, BagToSet, EmptyBag, SetToBag
    <3>2. T' = SumFunctionOnSet(k, {})
      BY <3>1 DEF SumFunctionOnSet, FoldFunctionOnSet, MapThenFoldSet
    <3> HIDE DEF k
    <3>3. SumFunctionOnSet(k, {}) = 0 BY FS_EmptySet, SumZero
    <3>4. QED BY <3>2, <3>3
  <2> HIDE DEF B, T
  <2>6. total' + B' = T' BY <2>1, <2>3, <2>4, <2>5
  <2>7. QED BY <2>6 DEF SumInv, B, T
<1>19. QED BY <1>6, <1>7, <1>8, <1>9, <1>10, <1>11, <1>13, <1>14, <1>15, <1>16, <1>17, <1>18
           DEF Next, Kernel, Program

(* The reduction of a parallel loop adds up: when the kernel has come to its *)
(* end, the global holds what the visited indices add, each as often as the  *)
(* body ran for it, whatever task, thread or patch it was part of.           *)
THEOREM SumsAddUp == Spec => []ReductionsAddUp
<1>1. Init => SumInv
  <2>1. SUFFICES ASSUME Init PROVE SumInv OBVIOUS
  <2>2. total = 0 /\ Visited = {} /\ \A t \in Threads : Buffers[t] = 0
    BY <2>1 DEF Init, Pool!Init, Visited, Buffers, BagToSet, EmptyBag, SetToBag
  <2> DEFINE h == Buffers
             k == Terms
  <2>3. IsFiniteSet(Threads) /\ \A t \in Threads : h[t] = 0 BY <2>2, LoopAssumption
  <2> HIDE DEF h, k
  <2>4. SumFunctionOnSet(h, Threads) = 0 /\ SumFunctionOnSet(k, {}) = 0
    BY <2>3, FS_EmptySet, SumZero
  <2>5. QED BY <2>2, <2>4 DEF SumInv, h, k
<1>2. LInv /\ SumInv => ReductionsAddUp
  <2>1. SUFFICES ASSUME LInv, SumInv, step = "idle"
                 PROVE  total = SumFunction([i \in BagToSet(visits) |-> i * visits[i]])
    BY DEF ReductionsAddUp, Finished
  <2>2. \A t \in Threads : Buffers[t] = 0 BY <2>1 DEF Buffers, LInv, StageInv
  <2> DEFINE h == Buffers
  <2>3. IsFiniteSet(Threads) /\ \A t \in Threads : h[t] = 0 BY <2>2, LoopAssumption
  <2> HIDE DEF h
  <2>4. SumFunctionOnSet(h, Threads) = 0 BY <2>3, SumZero
  <2>5. total \in Int BY <2>1 DEF LInv, WorkInv
  <2>6. total = SumFunctionOnSet(Terms, Visited) BY <2>1, <2>4, <2>5 DEF SumInv, h
  <2>7. DOMAIN Terms = Visited BY DEF Terms
  <2>8. SumFunction(Terms) = SumFunctionOnSet(Terms, Visited) BY <2>7 DEF SumFunction
  <2>9. QED BY <2>6, <2>8 DEF Terms, Visited
<1>3. LInv /\ SumInv /\ [Next]_vars => LInv' /\ SumInv' BY LInvNext, SumNext
<1>4. QED BY <1>1, <1>2, <1>3, LInvInit, PTL DEF Spec

----------------------------------------------------------------------------
(* The contract *)

(* The loops use the pool by its contract and in no other way: every step of *)
(* a kernel is a step of ParallelFor, which the thread pool implements, or    *)
(* leaves the call, its tasks and its threads alone.                         *)
THEOREM PoolAsPromised == Spec => Pool!SafeSpec
<1>1. Init => Pool!Init BY DEF Init
<1>2. LInv /\ [Next]_vars => [Pool!Next]_Pool!vars
  <2>1. SUFFICES ASSUME LInv, [Next]_vars PROVE Pool!Next \/ UNCHANGED pool
    BY DEF pool, Pool!vars
  <2>2. CASE ParallelFor
    <3>1. loop \in FlatLoops \cup StructLoops BY <2>1, <2>2 DEF LInv, StageInv, ParallelFor
    <3>2. Tasks(loop) \in Int
      <4>1. CASE loop \in FlatLoops BY <4>1, FlatTyped
      <4>2. CASE loop \in StructLoops
        <5>1. NumSplits(loop) \in Nat BY <2>1, <4>2, Splits DEF LInv, FieldInv
        <5>2. Len(lists.leaf) \in Nat
          <6> DEFINE A == Seq([at : Nat, lo : Nat, hi : Nat])
                     B == Seq(Parts)
          <6>1. lists \in [blocks : A, leaf : B] BY <2>1 DEF LInv, ListInv
          <6>2. \A r \in B : Len(r) \in Nat OBVIOUS
          <6> HIDE DEF A, B
          <6>3. QED BY <6>1, <6>2
        <5>3. Tasks(loop) = Len(lists.leaf) * NumSplits(loop)
          BY <4>2 DEF StructLoops, Tasks, StructTasks
        <5>4. QED BY <5>1, <5>2, <5>3
      <4>3. QED BY <3>1, <4>1, <4>2
    <3>3. Pool!Enter(loop, Tasks(loop)) BY <2>2 DEF ParallelFor
    <3>4. QED BY <3>1, <3>2, <3>3 DEF Pool!Next, FlatLoops
  <2>3. CASE \E t \in Threads, i \in pending : BeginTask(t, i)
    BY <2>3 DEF BeginTask, Pool!Next, Pool!Work
  <2>4. CASE \E t \in Threads : BodyRange(t) \/ BodyMesh(t) \/ SkipCell(t)
    BY <2>4 DEF BodyRange, BodyMesh, SkipCell
  <2>5. CASE \E t \in Threads : EndTask(t) BY <2>5 DEF EndTask, Pool!Next, Pool!Work
  <2>6. CASE \E t \in Threads, c \in AllCells : BodyCell(t, c) BY <2>6 DEF BodyCell
  <2>7. CASE Return BY <2>7 DEF Return, Pool!Next, Pool!Work
  <2>8. QED
    BY <2>1, <2>2, <2>3, <2>4, <2>5, <2>6, <2>7 DEF Next, Kernel, Program, vars, ClearBlocks,
       ClearLeaf, ClearList, ElementListgenRoot, ElementListgenNonroot, Listgen, Write,
       Deactivate, LaunchFlat, LaunchStruct, Launch
<1>3. QED BY <1>1, <1>2, Invariant, PTL DEF Spec, Pool!SafeSpec
============================================================================
