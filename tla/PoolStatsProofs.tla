---------------------------- MODULE PoolStatsProofs ----------------------------
(***************************************************************************)
(* Proofs about PoolStats, for any pool, buffers and sizes.                 *)
(*                                                                          *)
(* The statistics are sums and extremes over the blocks that callers hold.  *)
(* A sum is a fold over a finite set, whose equation and laws come first;   *)
(* each is proved by looking at a smallest subset for which it would fail.  *)
(* The invariant is in three layers: the count of the blocks (CountInv),    *)
(* the room they leave (RoomInv), and the extremes (FiguresInv).            *)
(***************************************************************************)
EXTENDS PoolStats, FiniteSetTheorems, TLAPS

-----------------------------------------------------------------------------
(* Sums over finite sets *)

\* what the fold of the community modules takes out of a set first
First(S) == CHOOSE x \in S : TRUE

\* g is the sum of f over the subsets of S, as the fold defines it
IsFold(g, f, S) ==
    g = [T \in SUBSET S |-> IF T = {} THEN 0 ELSE f[First(T)] + g[T \ {First(T)}]]

FoldOf(f, S) == CHOOSE g : IsFold(g, f, S)

\* The community definition is that fold.
LEMMA SumIsFold == \A f, S : SumFunctionOnSet(f, S) = FoldOf(f, S)[S]
  BY DEF SumFunctionOnSet, FoldFunctionOnSet, MapThenFoldSet, FoldOf, IsFold, First

\* First chooses an element.
LEMMA FirstIn == \A S : S # {} => First(S) \in S
  BY DEF First

\* What is wrong for some subset of a finite set is wrong for a smallest one.
LEMMA SmallestSubset ==
    ASSUME NEW S, IsFiniteSet(S), NEW B \in SUBSET SUBSET S, B # {}
    PROVE  \E T \in B : \A U \in SUBSET T : U # T => U \notin B
  <1>1. IsWellFoundedOn(StrictSubsetOrdering(S), SUBSET S)
    BY FS_StrictSubsetOrderingWellFounded, FS_FiniteSubsetsOfFinite, Zenon
  <1>2. PICK T \in B : \A U \in B : ~ (<<U, T>> \in StrictSubsetOrdering(S))
    BY <1>1, WFMin, Zenon
  <1>3. ASSUME NEW U \in SUBSET T, U # T, U \in B PROVE FALSE
    <2>1. U \in SUBSET S /\ T \in SUBSET S
      BY <1>3
    <2>2. <<U, T>> \in StrictSubsetOrdering(S)
      BY <1>3, <2>1 DEF StrictSubsetOrdering
    <2> QED
      BY <1>2, <1>3, <2>2
  <1> QED
    BY <1>2, <1>3

\* Folds over a set and over a subset of it agree where both are defined.
LEMMA FoldUnique ==
    ASSUME NEW S, IsFiniteSet(S), NEW T \in SUBSET S, NEW f, NEW g, NEW h,
           IsFold(g, f, S), IsFold(h, f, T)
    PROVE  \A U \in SUBSET T : g[U] = h[U]
  <1> DEFINE B == {U \in SUBSET T : g[U] # h[U]}
  <1>1. SUFFICES ASSUME B # {} PROVE FALSE
    OBVIOUS
  <1>2. B \in SUBSET SUBSET S
    OBVIOUS
  <1>3. PICK U \in B : \A V \in SUBSET U : V # U => V \notin B
    <2> HIDE DEF B
    <2> QED
      BY <1>1, <1>2, SmallestSubset
  <1>4. U \in SUBSET T /\ U \in SUBSET S /\ g[U] # h[U]
    OBVIOUS
  <1>5. /\ g[U] = IF U = {} THEN 0 ELSE f[First(U)] + g[U \ {First(U)}]
        /\ h[U] = IF U = {} THEN 0 ELSE f[First(U)] + h[U \ {First(U)}]
    BY <1>4, Zenon DEF IsFold
  <1>6. U # {} /\ First(U) \in U
    BY <1>4, <1>5, FirstIn
  <1>7. U \ {First(U)} \in SUBSET T /\ U \ {First(U)} \notin B
    BY <1>3, <1>4, <1>6
  <1> QED
    BY <1>4, <1>5, <1>6, <1>7

\* Over a finite set there is a fold: it is put together from those over its
\* strict subsets.
LEMMA FoldExists ==
    ASSUME NEW S, IsFiniteSet(S), NEW f
    PROVE  \E g : IsFold(g, f, S)
  <1> DEFINE B == {T \in SUBSET S : ~ \E g : IsFold(g, f, T)}
  <1>1. SUFFICES ASSUME B # {} PROVE FALSE
    OBVIOUS
  <1>2. PICK T \in B : \A U \in SUBSET T : U # T => U \notin B
    <2>1. B \in SUBSET SUBSET S
      OBVIOUS
    <2> HIDE DEF B
    <2> QED
      BY <1>1, <2>1, SmallestSubset
  <1>3. T \in SUBSET S /\ ~ \E g : IsFold(g, f, T)
    OBVIOUS
  <1>4. \A U \in SUBSET T : U # T => IsFold(FoldOf(f, U), f, U)
    <2>1. \A U \in SUBSET T : U # T => \E g : IsFold(g, f, U)
      BY <1>2, <1>3
    <2> QED
      BY <2>1, Zenon DEF FoldOf
  <1>5. \A U : U # {} => U \ {First(U)} # U /\ U \ {First(U)} \in SUBSET U
    BY FirstIn
  <1> DEFINE Less(U) == U \ {First(U)}
             F == [U \in SUBSET T |-> IF U = {} THEN 0
                                      ELSE f[First(U)] + FoldOf(f, Less(U))[Less(U)]]
  <1>6. ASSUME NEW U \in SUBSET T, U # {}
        PROVE  F[Less(U)] = FoldOf(f, Less(U))[Less(U)]
    <2> DEFINE V == Less(U)
    <2>1. V \in SUBSET T /\ V # T
      BY <1>5, <1>6
    <2>2. IsFold(FoldOf(f, V), f, V)
      BY <2>1, <1>4
    <2>3. FoldOf(f, V)[V] = IF V = {} THEN 0 ELSE f[First(V)] + FoldOf(f, V)[V \ {First(V)}]
      <3>1. V \in SUBSET V
        OBVIOUS
      <3> QED BY <2>2, <3>1, Zenon DEF IsFold
    <2>4. CASE V = {}
      BY <2>1, <2>3, <2>4
    <2>5. CASE V # {}
      <3> DEFINE W == Less(V)
      <3>1. W \in SUBSET V /\ W \in SUBSET T /\ W # T
        BY <1>5, <2>1, <2>5
      <3>2. IsFold(FoldOf(f, W), f, W)
        BY <3>1, <1>4
      <3>3. IsFiniteSet(V)
        BY <2>1, <1>3, FS_Subset
      <3>4. FoldOf(f, V)[W] = FoldOf(f, W)[W]
        <4>1. W \in SUBSET W
          OBVIOUS
        <4> HIDE DEF V, W
        <4> QED BY <2>2, <3>1, <3>2, <3>3, <4>1, FoldUnique
      <3>5. F[V] = f[First(V)] + FoldOf(f, W)[W]
        BY <2>1, <2>5
      <3> QED
        BY <2>3, <2>5, <3>4, <3>5
    <2> QED BY <2>4, <2>5
  <1>7. IsFold(F, f, T)
    <2>1. ASSUME NEW U \in SUBSET T
          PROVE F[U] = IF U = {} THEN 0 ELSE f[First(U)] + F[Less(U)]
      BY <1>6
    <2>2. F = [U \in SUBSET T |-> F[U]]
      OBVIOUS
    <2> HIDE DEF F
    <2> QED BY <2>1, <2>2, Zenon DEF IsFold
  <1> QED
    BY <1>3, <1>7, Zenon

\* Sums over finite sets: the equation behind the definition, the type, taking any
\* element out, adding one, functions that agree, and bounds.
LEMMA SumEquation ==
    ASSUME NEW S, IsFiniteSet(S), NEW f
    PROVE  SumFunctionOnSet(f, S) =
             IF S = {} THEN 0 ELSE f[First(S)] + SumFunctionOnSet(f, S \ {First(S)})
  <1> DEFINE T == S \ {First(S)}
  <1>1. IsFiniteSet(T) /\ T \in SUBSET S
    BY FS_Subset
  <1>2. IsFold(FoldOf(f, S), f, S) /\ IsFold(FoldOf(f, T), f, T)
    BY <1>1, FoldExists, Zenon DEF FoldOf
  <1>3. FoldOf(f, S)[S] = IF S = {} THEN 0 ELSE f[First(S)] + FoldOf(f, S)[T]
    <2>1. S \in SUBSET S
      OBVIOUS
    <2> QED BY <1>2, <2>1, Zenon DEF IsFold
  <1>4. FoldOf(f, S)[T] = FoldOf(f, T)[T]
    <2>1. T \in SUBSET T
      OBVIOUS
    <2> HIDE DEF T
    <2> QED BY <1>1, <1>2, <2>1, FoldUnique
  <1> QED
    BY <1>3, <1>4, SumIsFold

\* The sum over no elements.
LEMMA SumEmpty == \A f : SumFunctionOnSet(f, {}) = 0
  BY SumEquation, FS_EmptySet

\* A sum of integers is an integer.
LEMMA SumType ==
    ASSUME NEW S, IsFiniteSet(S), NEW f, \A x \in S : f[x] \in Int
    PROVE  SumFunctionOnSet(f, S) \in Int
  <1> DEFINE B == {T \in SUBSET S : SumFunctionOnSet(f, T) \notin Int}
  <1>1. SUFFICES ASSUME B # {} PROVE FALSE
    OBVIOUS
  <1>2. PICK T \in B : \A U \in SUBSET T : U # T => U \notin B
    <2>1. B \in SUBSET SUBSET S
      OBVIOUS
    <2> HIDE DEF B
    <2> QED
      BY <1>1, <2>1, SmallestSubset
  <1>3. T \in SUBSET S /\ IsFiniteSet(T)
    BY FS_Subset
  <1>4. T # {} /\ First(T) \in T
    <2>1. SumFunctionOnSet(f, {}) \in Int
      BY SumEmpty
    <2> QED
      BY <2>1, FirstIn
  <1>5. SumFunctionOnSet(f, T) = f[First(T)] + SumFunctionOnSet(f, T \ {First(T)})
    BY <1>3, <1>4, SumEquation
  <1>6. SumFunctionOnSet(f, T \ {First(T)}) \in Int
    BY <1>2, <1>3, <1>4
  <1> QED
    BY <1>2, <1>3, <1>4, <1>5, <1>6

\* Any element can be taken out of a sum first, whichever the fold begins with.
LEMMA SumRemove ==
    ASSUME NEW S, IsFiniteSet(S), NEW f, \A x \in S : f[x] \in Int, NEW x \in S
    PROVE  SumFunctionOnSet(f, S) = f[x] + SumFunctionOnSet(f, S \ {x})
  <1> DEFINE Sum(T) == SumFunctionOnSet(f, T)
             Wrong(T) == \E y \in T : Sum(T) # f[y] + Sum(T \ {y})
             B == {T \in SUBSET S : Wrong(T)}
  <1>1. SUFFICES ASSUME B # {} PROVE FALSE
    <2>1. S \in SUBSET S
      OBVIOUS
    <2> QED
      BY <2>1
  <1>2. PICK T \in B : \A U \in SUBSET T : U # T => U \notin B
    <2>1. B \in SUBSET SUBSET S
      OBVIOUS
    <2> HIDE DEF B
    <2> QED
      BY <1>1, <2>1, SmallestSubset
  <1>3. PICK y \in T : Sum(T) # f[y] + Sum(T \ {y})
    OBVIOUS
  <1> DEFINE z == First(T)
             R == T \ {y, z}
  <1>4. T \in SUBSET S /\ z \in T
    BY FirstIn
  <1>5. \A U \in SUBSET T : IsFiniteSet(U) /\ Sum(U) \in Int
    <2>1. ASSUME NEW U \in SUBSET T PROVE IsFiniteSet(U)
      BY <1>4, FS_Subset
    <2>2. ASSUME NEW U \in SUBSET T PROVE \A v \in U : f[v] \in Int
      BY <1>4
    <2> QED
      BY <2>1, <2>2, SumType
  <1>6. Sum(T) = f[z] + Sum(T \ {z})
    BY <1>4, <1>5, SumEquation
  <1>7. y # z
    BY <1>3, <1>6
  <1>8. /\ Sum(T \ {z}) = f[y] + Sum(R)
        /\ Sum(T \ {y}) = f[z] + Sum(R)
    <2>1. /\ T \ {z} \in SUBSET T /\ T \ {z} # T /\ y \in T \ {z} /\ (T \ {z}) \ {y} = R
          /\ T \ {y} \in SUBSET T /\ T \ {y} # T /\ z \in T \ {y} /\ (T \ {y}) \ {z} = R
      BY <1>4, <1>7
    <2>2. T \ {z} \notin B /\ T \ {y} \notin B
      BY <1>2, <2>1
    <2>3. T \ {z} \in SUBSET S /\ T \ {y} \in SUBSET S
      BY <1>4
    <2> QED
      BY <2>1, <2>2, <2>3
  <1>9. Sum(R) \in Int /\ f[y] \in Int /\ f[z] \in Int
    BY <1>4, <1>5
  <1> QED
    BY <1>3, <1>6, <1>8, <1>9

\* Adding an element adds its value.
LEMMA SumAdd ==
    ASSUME NEW S, IsFiniteSet(S), NEW f, NEW x, x \notin S, \A y \in S \cup {x} : f[y] \in Int
    PROVE  SumFunctionOnSet(f, S \cup {x}) = f[x] + SumFunctionOnSet(f, S)
  <1>1. IsFiniteSet(S \cup {x}) /\ (S \cup {x}) \ {x} = S
    BY FS_AddElement
  <1> QED
    BY <1>1, SumRemove

\* The sum depends on the values of the elements only.
LEMMA SumSame ==
    ASSUME NEW S, IsFiniteSet(S), NEW f, NEW g, \A x \in S : f[x] = g[x]
    PROVE  SumFunctionOnSet(f, S) = SumFunctionOnSet(g, S)
  <1> DEFINE B == {T \in SUBSET S : SumFunctionOnSet(f, T) # SumFunctionOnSet(g, T)}
  <1>1. SUFFICES ASSUME B # {} PROVE FALSE
    OBVIOUS
  <1>2. PICK T \in B : \A U \in SUBSET T : U # T => U \notin B
    <2>1. B \in SUBSET SUBSET S
      OBVIOUS
    <2> HIDE DEF B
    <2> QED
      BY <1>1, <2>1, SmallestSubset
  <1>3. T \in SUBSET S /\ IsFiniteSet(T)
    BY FS_Subset
  <1>4. T # {} /\ First(T) \in T
    BY <1>2, SumEmpty, FirstIn
  <1>5. /\ SumFunctionOnSet(f, T) = f[First(T)] + SumFunctionOnSet(f, T \ {First(T)})
        /\ SumFunctionOnSet(g, T) = g[First(T)] + SumFunctionOnSet(g, T \ {First(T)})
    BY <1>3, <1>4, SumEquation
  <1>6. T \ {First(T)} \in SUBSET S /\ T \ {First(T)} \notin B
    BY <1>2, <1>3, <1>4
  <1> QED
    BY <1>2, <1>3, <1>4, <1>5, <1>6

\* A sum lies between the number of its terms times the least and the largest of them.
LEMMA SumBetween ==
    ASSUME NEW S, IsFiniteSet(S), NEW f, NEW lo \in Int, NEW hi \in Int,
           \A x \in S : f[x] \in lo .. hi
    PROVE  /\ Cardinality(S) * lo <= SumFunctionOnSet(f, S)
           /\ SumFunctionOnSet(f, S) <= Cardinality(S) * hi
  <1> DEFINE Fine(T) == /\ Cardinality(T) * lo <= SumFunctionOnSet(f, T)
                        /\ SumFunctionOnSet(f, T) <= Cardinality(T) * hi
             B == {T \in SUBSET S : ~ Fine(T)}
  <1>1. SUFFICES ASSUME B # {} PROVE FALSE
    OBVIOUS
  <1>2. PICK T \in B : \A U \in SUBSET T : U # T => U \notin B
    <2>1. B \in SUBSET SUBSET S
      OBVIOUS
    <2> HIDE DEF B
    <2> QED
      BY <1>1, <2>1, SmallestSubset
  <1>3. T \in SUBSET S /\ IsFiniteSet(T)
    BY FS_Subset
  <1>4. T # {}
    <2>1. Fine({})
      BY SumEmpty, FS_EmptySet
    <2> QED
      BY <1>2, <2>1
  <1> DEFINE x == First(T)
             U == T \ {x}
             n == Cardinality(U)
             s == SumFunctionOnSet(f, U)
  <1>5. x \in T /\ U \in SUBSET S /\ IsFiniteSet(U)
    BY <1>3, <1>4, FirstIn, FS_Subset
  <1>6. SumFunctionOnSet(f, T) = f[x] + s
    BY <1>3, <1>4, SumEquation
  <1>7. Cardinality(T) = n + 1 /\ n \in Int
    <2>1. n = Cardinality(T) - 1 /\ Cardinality(T) \in Nat
      BY <1>3, <1>5, FS_RemoveElement, FS_CardinalityType
    <2> QED
      BY <2>1
  <1>8. n * lo <= s /\ s <= n * hi
    BY <1>2, <1>5
  <1>9. s \in Int /\ f[x] \in lo .. hi
    BY <1>5, SumType
  <1>10. (n + 1) * lo = n * lo + lo /\ (n + 1) * hi = n * hi + hi
    BY <1>7
  <1>11. n * lo \in Int /\ n * hi \in Int
    BY <1>7
  <1>12. Fine(T)
    <2> HIDE DEF n, s, x
    <2> QED
      BY <1>6, <1>7, <1>8, <1>9, <1>10, <1>11
  <1> QED
    BY <1>12

\* With no negative terms, more elements have a larger sum.
LEMMA SumMonotonic ==
    ASSUME NEW S, IsFiniteSet(S), NEW f, \A x \in S : f[x] \in Nat, NEW T \in SUBSET S
    PROVE  SumFunctionOnSet(f, T) <= SumFunctionOnSet(f, S)
  <1> DEFINE Sum(U) == SumFunctionOnSet(f, U)
             B == {U \in SUBSET S : T \subseteq U /\ ~ (Sum(T) <= Sum(U))}
  <1>1. SUFFICES ASSUME B # {} PROVE FALSE
    <2>1. S \in SUBSET S
      OBVIOUS
    <2> QED
      BY <2>1
  <1>2. PICK U \in B : \A V \in SUBSET U : V # U => V \notin B
    <2>1. B \in SUBSET SUBSET S
      OBVIOUS
    <2> HIDE DEF B
    <2> QED
      BY <1>1, <2>1, SmallestSubset
  <1>3. U \in SUBSET S /\ T \subseteq U /\ ~ (Sum(T) <= Sum(U))
    OBVIOUS
  <1>4. \A V \in SUBSET S : IsFiniteSet(V) /\ Sum(V) \in Int
    <2>1. ASSUME NEW V \in SUBSET S PROVE IsFiniteSet(V)
      BY FS_Subset
    <2> QED
      BY <2>1, SumType
  <1>5. PICK x \in U : x \notin T
    BY <1>3, <1>4
  <1>6. Sum(U) = f[x] + Sum(U \ {x})
    <2>1. \A y \in U : f[y] \in Int
      BY <1>3
    <2> QED
      BY <1>3, <1>4, <2>1, SumRemove
  <1>7. U \ {x} \in SUBSET S /\ T \subseteq U \ {x} /\ U \ {x} \notin B
    BY <1>2, <1>3, <1>5
  <1>8. Sum(T) <= Sum(U \ {x})
    BY <1>7
  <1>9. f[x] \in Nat /\ Sum(U \ {x}) \in Int /\ Sum(T) \in Int
    BY <1>3, <1>4, <1>7
  <1> HIDE DEF Sum
  <1> QED
    BY <1>3, <1>6, <1>8, <1>9

-----------------------------------------------------------------------------
(* The count of the blocks *)

Steps == {"idle", "taking", "failing", "held", "giving"}

Figure == {"space_available", "min_space_available", "min_size", "max_size", "allocs",
           "cur_allocs", "max_allocs", "take_failures", "last_fail_size"}

Stats == [Figure -> Int]

\* The count is that of the blocks between the two steps of the statistics, and
\* the heap has these and those on their way to and from them.
CountInv ==
    /\ step \in [Slot -> Steps]
    /\ size \in [Slot -> Nat]
    /\ bps \in Stats
    /\ heap = {b \in Slot : step[b] \in {"taking", "held", "giving"}}
    /\ bps.cur_allocs = Cardinality(Counted)

\* The arithmetic of the statistics stays in the integers.
LEMMA IntValues ==
    \A m, n \in Int : Minus32(m, n) \in Int /\ LeastOf(m, n) \in Int /\ MostOf(m, n) \in Int
  BY PoolAssumption DEF Minus32, LeastOf, MostOf

\* The types of the fields of bps.
LEMMA Figures ==
    ASSUME NEW f \in Stats
    PROVE  /\ f.space_available \in Int /\ f.min_space_available \in Int
           /\ f.min_size \in Int /\ f.max_size \in Int
           /\ f.allocs \in Int /\ f.cur_allocs \in Int /\ f.max_allocs \in Int
           /\ f.take_failures \in Int /\ f.last_fail_size \in Int
  BY DEF Stats, Figure

\* There are finitely many blocks.
LEMMA CountedFinite == IsFiniteSet(Counted) /\ Cardinality(Counted) \in Nat
  <1>1. Counted \subseteq Slot
    BY DEF Counted
  <1>2. IsFiniteSet(Counted)
    BY <1>1, PoolAssumption, FS_Subset
  <1> QED
    BY <1>2, FS_CardinalityType

\* No block is counted at first.
LEMMA CountInit == Init => CountInv
  <1> SUFFICES ASSUME Init PROVE CountInv
    OBVIOUS
  <1>1. step \in [Slot -> Steps] /\ size \in [Slot -> Nat]
    BY DEF Init, Steps
  <1>2. bps \in Stats
    BY PoolAssumption DEF Init, Stats, Figure
  <1>3. heap = {b \in Slot : step[b] \in {"taking", "held", "giving"}}
    BY DEF Init
  <1>4. Counted = {}
    BY DEF Init, Counted
  <1>5. bps.cur_allocs = Cardinality(Counted)
    BY <1>4, FS_EmptySet DEF Init
  <1> QED
    BY <1>1, <1>2, <1>3, <1>5 DEF CountInv

\* A step of one slot that is not to or from "held" leaves the counted blocks.
LEMMA SameCounted ==
    ASSUME step \in [Slot -> Steps], NEW b \in Slot, step[b] # "held",
           NEW s \in Steps \ {"held"}, step' = [step EXCEPT ![b] = s]
    PROVE  Counted' = Counted
  BY DEF Counted

\* Every step keeps the count: only TakeStat and GiveStat change it, and what it counts.
LEMMA CountStep == CountInv /\ [Next]_vars => CountInv'
  <1> SUFFICES ASSUME CountInv, [Next]_vars PROVE CountInv'
    OBVIOUS
  <1> USE DEF CountInv, Steps
  <1>1. ASSUME NEW b \in Slot, NEW n \in Size, HeapAlloc(b, n) PROVE CountInv'
    <2>1. Counted' = Counted
      BY <1>1, SameCounted DEF HeapAlloc
    <2>2. n \in Nat
      BY PoolAssumption
    <2> QED
      BY <1>1, <2>1, <2>2 DEF HeapAlloc
  <1>2. ASSUME NEW b \in Slot, NEW n \in Size, HeapFull(b, n) PROVE CountInv'
    <2>1. Counted' = Counted
      BY <1>2, SameCounted DEF HeapFull
    <2>2. n \in Nat
      BY PoolAssumption
    <2> QED
      BY <1>2, <2>1, <2>2 DEF HeapFull
  <1>3. ASSUME NEW b \in Slot, TakeStat(b) PROVE CountInv'
    <2>1. Counted' = Counted \cup {b} /\ b \notin Counted
      BY <1>3 DEF TakeStat, Counted
    <2>2. Cardinality(Counted') = Cardinality(Counted) + 1
      BY <2>1, CountedFinite, FS_AddElement
    <2>3. bps' \in Stats /\ bps'.cur_allocs = bps.cur_allocs + 1
      <3>1. size[b] \in Int
        OBVIOUS
      <3>2. /\ bps.space_available - size[b] \in Int
            /\ bps.allocs + 1 \in Int /\ bps.cur_allocs + 1 \in Int
        BY <3>1, Figures
      <3>3. /\ LeastOf(bps.min_space_available, bps.space_available - size[b]) \in Int
            /\ LeastOf(bps.min_size, size[b]) \in Int
            /\ MostOf(bps.max_size, size[b]) \in Int
            /\ MostOf(bps.max_allocs, bps.cur_allocs + 1) \in Int
        BY <3>1, <3>2, Figures, IntValues
      <3> QED
        BY <1>3, <3>1, <3>2, <3>3 DEF TakeStat, Stats, Figure
    <2>4. heap' = {c \in Slot : step'[c] \in {"taking", "held", "giving"}}
      BY <1>3 DEF TakeStat
    <2> QED
      BY <1>3, <2>2, <2>3, <2>4 DEF TakeStat
  <1>4. ASSUME NEW b \in Slot, FailStat(b) PROVE CountInv'
    <2>1. Counted' = Counted
      BY <1>4, SameCounted DEF FailStat
    <2>2. size[b] \in Int /\ Minus32(bps.space_available, size[b]) \in Int
      <3>1. size[b] \in Int
        OBVIOUS
      <3>2. bps.space_available \in Int
        BY Figures
      <3> QED
        BY <3>1, <3>2, IntValues
    <2>3. bps' \in Stats /\ bps'.cur_allocs = bps.cur_allocs
      <3>1. LeastOf(bps.min_space_available, Minus32(bps.space_available, size[b])) \in Int
        BY <2>2, Figures, IntValues
      <3>2. bps.take_failures + 1 \in Int
        BY Figures
      <3> QED
        BY <1>4, <2>2, <3>1, <3>2 DEF FailStat, Stats, Figure
    <2>4. heap' = {c \in Slot : step'[c] \in {"taking", "held", "giving"}}
      BY <1>4 DEF FailStat
    <2> QED
      BY <1>4, <2>1, <2>3, <2>4 DEF FailStat
  <1>5. ASSUME NEW b \in Slot, GiveStat(b) PROVE CountInv'
    <2>1. Counted' = Counted \ {b} /\ b \in Counted
      BY <1>5 DEF GiveStat, Counted
    <2>2. Cardinality(Counted') = Cardinality(Counted) - 1
      BY <2>1, CountedFinite, FS_RemoveElement
    <2>3. bps' \in Stats /\ bps'.cur_allocs = bps.cur_allocs - 1
      <3>1. bps.space_available + size[b] \in Int /\ bps.cur_allocs - 1 \in Int
        BY Figures
      <3> QED
        BY <1>5, <3>1 DEF GiveStat, Stats, Figure
    <2>4. heap' = {c \in Slot : step'[c] \in {"taking", "held", "giving"}}
      BY <1>5 DEF GiveStat
    <2> QED
      BY <1>5, <2>2, <2>3, <2>4 DEF GiveStat
  <1>6. ASSUME NEW b \in Slot, HeapFree(b) PROVE CountInv'
    <2>1. Counted' = Counted
      BY <1>6, SameCounted DEF HeapFree
    <2> QED
      BY <1>6, <2>1 DEF HeapFree
  <1>7. CASE UNCHANGED vars
    BY <1>7 DEF vars, Counted
  <1> QED
    BY <1>1, <1>2, <1>3, <1>4, <1>5, <1>6, <1>7 DEF Next, Done

\* Every snapshot of the statistics counts only blocks that are in the heap, and
\* all of them when no call is under way.
THEOREM CountAlwaysFollowsHeap == Spec => []CountFollowsHeap
  <1>1. CountInv => CountFollowsHeap
    <2> SUFFICES ASSUME CountInv PROVE CountFollowsHeap
      OBVIOUS
    <2>1. Counted \subseteq heap /\ heap \subseteq Slot
      BY DEF CountInv, Counted
    <2>2. IsFiniteSet(heap)
      BY <2>1, PoolAssumption, FS_Subset
    <2>3. Cardinality(Counted) <= Cardinality(heap)
      BY <2>1, <2>2, FS_Subset
    <2>4. ASSUME Quiet PROVE heap = Counted
      BY <2>4 DEF Quiet, CountInv, Counted
    <2> QED
      BY <2>3, <2>4 DEF CountInv, CountFollowsHeap
  <1> QED
    BY CountInit, CountStep, <1>1, PTL DEF Spec

-----------------------------------------------------------------------------
(* The room *)

\* The room shown is that beside the counted blocks, and the heap holds no more
\* than it has room for.
RoomInv ==
    /\ bps.space_available = Room
    /\ SizesOf(heap) + Overhead * Cardinality(heap) <= PoolSize

\* The sets of slots and their sums have their types, and blocks on their way to
\* or from the books take room in the heap.
LEMMA Books ==
    ASSUME CountInv
    PROVE  /\ \A S \in SUBSET Slot : IsFiniteSet(S) /\ SizesOf(S) \in Nat
           /\ Counted \in SUBSET Slot /\ heap \in SUBSET Slot
           /\ Cardinality(Counted) \in Nat /\ Cardinality(heap) \in Nat
           /\ Counted \subseteq heap
           /\ SizesOf(Counted) <= SizesOf(heap)
           /\ Quiet => heap = Counted
           /\ \A x \in Slot : size[x] \in Nat
  <1>1. \A x \in Slot : size[x] \in Nat
    BY DEF CountInv
  <1>2. ASSUME NEW S \in SUBSET Slot PROVE IsFiniteSet(S) /\ SizesOf(S) \in Nat
    <2>1. IsFiniteSet(S)
      BY PoolAssumption, FS_Subset
    <2>2. SumFunctionOnSet(size, S) \in Int
      BY <1>1, <2>1, SumType
    <2>3. SumFunctionOnSet(size, {}) <= SumFunctionOnSet(size, S)
      <3>1. {} \in SUBSET S /\ \A x \in S : size[x] \in Nat
        BY <1>1
      <3> QED
        BY <2>1, <3>1, SumMonotonic
    <2>4. SumFunctionOnSet(size, {}) = 0
      BY SumEmpty
    <2> QED
      BY <2>1, <2>2, <2>3, <2>4 DEF SizesOf
  <1>3. /\ Counted \in SUBSET Slot /\ heap \in SUBSET Slot
        /\ Counted \subseteq heap
        /\ Quiet => heap = Counted
    BY DEF CountInv, Counted, Quiet
  <1>4. SizesOf(Counted) <= SizesOf(heap)
    <2>1. IsFiniteSet(heap) /\ \A x \in heap : size[x] \in Nat
      BY <1>1, <1>2, <1>3
    <2> QED
      BY <1>3, <2>1, SumMonotonic DEF SizesOf
  <1>5. Cardinality(Counted) \in Nat /\ Cardinality(heap) \in Nat
    BY <1>2, <1>3, FS_CardinalityType
  <1> QED
    BY <1>1, <1>2, <1>3, <1>4, <1>5

\* A sum does not change while the sizes of its blocks do not.
LEMMA SizesKept ==
    ASSUME CountInv, NEW S \in SUBSET Slot, \A x \in S : size'[x] = size[x]
    PROVE  SumFunctionOnSet(size', S) = SizesOf(S)
  <1>1. IsFiniteSet(S)
    BY Books
  <1>2. \A x \in S : size[x] = size'[x]
    OBVIOUS
  <1> QED
    BY <1>1, <1>2, SumSame DEF SizesOf

\* A call that has just begun changes the size of its own slot, which is in no sum.
LEMMA SizesAfterBegin ==
    ASSUME CountInv, NEW b \in Slot, step[b] = "idle", NEW n \in Nat,
           size' = [size EXCEPT ![b] = n], NEW S \in SUBSET heap
    PROVE  /\ b \notin S /\ b \notin heap
           /\ SumFunctionOnSet(size', S) = SizesOf(S)
           /\ size'[b] = n
  <1>1. b \notin heap /\ heap \in SUBSET Slot
    BY DEF CountInv
  <1>2. \A x \in S : size'[x] = size[x]
    BY <1>1 DEF CountInv
  <1>3. size'[b] = n
    BY DEF CountInv
  <1> QED
    BY <1>1, <1>2, <1>3, SizesKept

\* All of the pool is free at first.
LEMMA RoomInit == Init => RoomInv
  <1> SUFFICES ASSUME Init PROVE RoomInv
    OBVIOUS
  <1>1. Counted = {} /\ heap = {}
    BY DEF Init, Counted
  <1>2. SizesOf({}) = 0 /\ Cardinality({}) = 0
    BY SumEmpty, FS_EmptySet DEF SizesOf
  <1> QED
    BY <1>1, <1>2, PoolAssumption DEF Init, RoomInv, Room

\* Every step keeps the room: only TakeStat and GiveStat change it, by the size they count.
LEMMA RoomStep == CountInv /\ RoomInv /\ [Next]_vars => RoomInv'
  <1> SUFFICES ASSUME CountInv, RoomInv, [Next]_vars PROVE RoomInv'
    OBVIOUS
  <1>p. PoolSize \in Nat /\ Overhead \in Nat /\ Size \subseteq Nat
    BY PoolAssumption
  <1>f. bps \in Stats /\ step \in [Slot -> Steps] /\ size \in [Slot -> Nat]
    BY DEF CountInv
  <1>g. /\ SizesOf(Counted) \in Nat /\ SizesOf(heap) \in Nat /\ Cardinality(heap) \in Nat
        /\ IsFiniteSet(Counted) /\ IsFiniteSet(heap)
        /\ Overhead * Cardinality(heap) \in Nat
    BY <1>p, Books
  \* What the two sums come to after each action decides.
  <1>r. /\ Room' = PoolSize - SumFunctionOnSet(size', Counted')
        /\ SizesOf(heap)' = SumFunctionOnSet(size', heap')
    BY DEF Room, SizesOf
  <1>1. ASSUME NEW b \in Slot, NEW n \in Size, HeapAlloc(b, n) PROVE RoomInv'
    <2>1. n \in Nat /\ step[b] = "idle" /\ size' = [size EXCEPT ![b] = n]
          /\ heap' = heap \cup {b} /\ bps' = bps /\ Fits(n)
      BY <1>1, <1>p DEF HeapAlloc
    <2>2. Counted' = Counted
      BY <1>1, <1>f, SameCounted DEF HeapAlloc, Steps
    <2>3. /\ SumFunctionOnSet(size', Counted) = SizesOf(Counted)
          /\ SumFunctionOnSet(size', heap) = SizesOf(heap)
          /\ b \notin heap /\ size'[b] = n
      BY <2>1, Books, SizesAfterBegin
    <2>4. SumFunctionOnSet(size', heap \cup {b}) = n + SizesOf(heap)
      <3>1. \A x \in heap \cup {b} : size'[x] \in Int
        BY <2>1, <1>f, Books
      <3> QED
        BY <1>g, <2>3, <3>1, SumAdd
    <2>5. Cardinality(heap') = Cardinality(heap) + 1
      BY <1>g, <2>1, <2>3, FS_AddElement
    <2>6. SizesOf(heap)' + Overhead * Cardinality(heap') <= PoolSize
      BY <1>g, <1>p, <1>r, <2>1, <2>4, <2>5 DEF Fits
    <2>7. Room' = Room
      BY <1>r, <2>2, <2>3 DEF Room
    <2> QED
      BY <2>1, <2>6, <2>7 DEF RoomInv
  <1>2. ASSUME NEW b \in Slot, NEW n \in Size, HeapFull(b, n) PROVE RoomInv'
    <2>1. n \in Nat /\ step[b] = "idle" /\ size' = [size EXCEPT ![b] = n]
          /\ heap' = heap /\ bps' = bps
      BY <1>2, <1>p DEF HeapFull
    <2>2. Counted' = Counted
      BY <1>2, <1>f, SameCounted DEF HeapFull, Steps
    <2>3. /\ SumFunctionOnSet(size', Counted) = SizesOf(Counted)
          /\ SumFunctionOnSet(size', heap) = SizesOf(heap)
      BY <2>1, Books, SizesAfterBegin
    <2> QED
      BY <1>r, <2>1, <2>2, <2>3 DEF RoomInv, Room
  <1>3. ASSUME NEW b \in Slot, TakeStat(b) PROVE RoomInv'
    <2>1. size' = size /\ heap' = heap /\ bps'.space_available = bps.space_available - size[b]
      BY <1>3, <1>f DEF TakeStat, Stats, Figure
    <2>2. Counted' = Counted \cup {b} /\ b \notin Counted
      BY <1>3, <1>f DEF TakeStat, Counted, Steps
    <2>3. SumFunctionOnSet(size, Counted \cup {b}) = size[b] + SumFunctionOnSet(size, Counted)
      <3>1. \A x \in Counted \cup {b} : size[x] \in Int
        BY Books
      <3> QED
        BY <1>g, <2>2, <3>1, SumAdd
    <2> QED
      BY <1>g, <1>p, <1>r, <1>f, <2>1, <2>2, <2>3 DEF RoomInv, Room, SizesOf
  <1>4. ASSUME NEW b \in Slot, FailStat(b) PROVE RoomInv'
    <2>1. size' = size /\ heap' = heap /\ bps'.space_available = bps.space_available
      BY <1>4, <1>f DEF FailStat, Stats, Figure
    <2>2. Counted' = Counted
      BY <1>4, <1>f, SameCounted DEF FailStat, Steps
    <2> QED
      BY <1>r, <2>1, <2>2 DEF RoomInv, Room, SizesOf
  <1>5. ASSUME NEW b \in Slot, GiveStat(b) PROVE RoomInv'
    <2>1. size' = size /\ heap' = heap /\ bps'.space_available = bps.space_available + size[b]
      BY <1>5, <1>f DEF GiveStat, Stats, Figure
    <2>2. Counted' = Counted \ {b} /\ b \in Counted
      BY <1>5, <1>f DEF GiveStat, Counted, Steps
    <2>3. /\ SumFunctionOnSet(size, Counted) = size[b] + SumFunctionOnSet(size, Counted \ {b})
          /\ SumFunctionOnSet(size, Counted \ {b}) \in Nat
      <3>1. \A x \in Counted : size[x] \in Int
        BY Books
      <3>2. Counted \ {b} \in SUBSET Slot
        BY Books
      <3> QED
        BY <1>g, <2>2, <3>1, <3>2, Books, SumRemove DEF SizesOf
    <2> QED
      BY <1>g, <1>p, <1>r, <1>f, <2>1, <2>2, <2>3 DEF RoomInv, Room, SizesOf
  <1>6. ASSUME NEW b \in Slot, HeapFree(b) PROVE RoomInv'
    <2>1. size' = size /\ heap' = heap \ {b} /\ bps' = bps /\ b \in heap
      BY <1>6 DEF HeapFree, CountInv
    <2>2. Counted' = Counted
      BY <1>6, <1>f, SameCounted DEF HeapFree, Steps
    <2>3. SizesOf(heap)' <= SizesOf(heap) /\ SizesOf(heap)' \in Nat
      <3>1. heap \ {b} \in SUBSET heap /\ heap \ {b} \in SUBSET Slot /\ \A x \in heap : size[x] \in Nat
        BY Books
      <3>2. SizesOf(heap \ {b}) \in Nat
        BY <3>1, Books
      <3> QED
        BY <1>g, <1>r, <2>1, <3>1, <3>2, SumMonotonic DEF SizesOf
    <2>4. Overhead * Cardinality(heap') <= Overhead * Cardinality(heap)
          /\ Overhead * Cardinality(heap') \in Nat
      <3>1. Cardinality(heap) = Cardinality(heap') + 1 /\ Cardinality(heap') \in Nat
        <4>1. Cardinality(heap') = Cardinality(heap) - 1 /\ IsFiniteSet(heap')
          BY <1>g, <2>1, FS_RemoveElement
        <4>2. Cardinality(heap') \in Nat
          BY <4>1, FS_CardinalityType
        <4> QED
          BY <4>1, <4>2, <1>g
      <3>2. Overhead * (Cardinality(heap') + 1) = Overhead * Cardinality(heap') + Overhead
        BY <1>p, <3>1
      <3>3. Overhead * Cardinality(heap') \in Nat
        BY <1>p, <3>1
      <3> QED
        BY <1>p, <3>1, <3>2, <3>3
    <2>5. Room' = Room
      BY <1>r, <2>1, <2>2 DEF Room, SizesOf
    <2> QED
      BY <1>g, <1>p, <2>1, <2>3, <2>4, <2>5 DEF RoomInv
  <1>7. CASE UNCHANGED vars
    BY <1>7 DEF vars, Counted, RoomInv, Room, SizesOf
  <1> QED
    BY <1>1, <1>2, <1>3, <1>4, <1>5, <1>6, <1>7 DEF Next, Done

\* Every snapshot shows at least the room beside the blocks of the heap, and
\* exactly that when no call is under way.
THEOREM RoomAlwaysFollowsHeap == Spec => []RoomFollowsHeap
  <1>1. CountInv /\ RoomInv => RoomFollowsHeap
    BY Books, PoolAssumption DEF RoomInv, Room, RoomFollowsHeap
  <1> QED
    BY CountInit, CountStep, RoomInit, RoomStep, <1>1, PTL DEF Spec

-----------------------------------------------------------------------------
(* The peaks and extremes *)

Pending == {b \in Slot : step[b] \in {"taking", "failing"}}

\* Every take that was begun is counted once: as an allocation, as a failure, or
\* as a call under way.  No more are held at a time than were ever taken.
TakesInv ==
    /\ bps.allocs \in Nat /\ bps.take_failures \in Nat
    /\ bps.allocs + bps.take_failures + Cardinality(Pending) <= MaxTakes
    /\ bps.cur_allocs <= bps.max_allocs /\ bps.max_allocs <= bps.allocs

\* The smallest and largest size bound those of the blocks that are held, and
\* the history variables relate to the figures as the properties say.
FiguresInv ==
    /\ size \in [Slot -> Size \cup {0}]
    /\ low \in 0 .. PoolSize /\ tight \in BOOLEAN
    /\ bps.min_space_available \in 0 .. PoolSize
    /\ bps.min_size \in 0 .. PoolSize /\ bps.max_size \in 0 .. PoolSize
    /\ bps.last_fail_size \in Size \cup {0}
    /\ \A b \in Counted : size[b] \in bps.min_size .. bps.max_size
    /\ LowWater
    /\ FiguresFit

\* A take is one that succeeded, failed, or has not been accounted for.
LEMMA TakesAre ==
    Takes = bps.allocs + bps.take_failures + Cardinality(Pending)
  BY DEF Takes, Pending

\* Finitely many takes are under way.
LEMMA PendingFinite == IsFiniteSet(Pending) /\ Cardinality(Pending) \in Nat
  <1>1. Pending \in SUBSET Slot
    BY DEF Pending
  <1>2. IsFiniteSet(Pending)
    BY <1>1, PoolAssumption, FS_Subset
  <1> QED
    BY <1>2, FS_CardinalityType

\* A call that begins joins those under way, and leaves them when it is on the
\* books.
LEMMA PendingAdd ==
    ASSUME step \in [Slot -> Steps], NEW b \in Slot, step[b] \notin {"taking", "failing"},
           NEW s \in {"taking", "failing"}, step' = [step EXCEPT ![b] = s]
    PROVE  Cardinality(Pending') = Cardinality(Pending) + 1
  <1>1. Pending' = Pending \cup {b} /\ b \notin Pending
    BY DEF Pending, Steps
  <1> QED
    BY <1>1, PendingFinite, FS_AddElement

\* Accounting for a take makes one less of them.
LEMMA PendingRemove ==
    ASSUME step \in [Slot -> Steps], NEW b \in Slot, step[b] \in {"taking", "failing"},
           NEW s \in Steps \ {"taking", "failing"}, step' = [step EXCEPT ![b] = s]
    PROVE  Cardinality(Pending') = Cardinality(Pending) - 1
  <1>1. Pending' = Pending \ {b} /\ b \in Pending
    BY DEF Pending, Steps
  <1> QED
    BY <1>1, PendingFinite, FS_RemoveElement

\* The other calls change nothing about them.
LEMMA PendingSame ==
    ASSUME step \in [Slot -> Steps], NEW b \in Slot, step[b] \notin {"taking", "failing"},
           NEW s \in Steps \ {"taking", "failing"}, step' = [step EXCEPT ![b] = s]
    PROVE  Pending' = Pending
  BY DEF Pending, Steps

\* No call has begun.
LEMMA TakesInit == Init => TakesInv
  <1> SUFFICES ASSUME Init PROVE TakesInv
    OBVIOUS
  <1>1. Pending = {}
    BY DEF Init, Pending
  <1>2. Cardinality(Pending) = 0
    BY <1>1, FS_EmptySet
  <1> QED
    BY <1>2, PoolAssumption DEF Init, TakesInv

\* Every step keeps the balance of calls.
LEMMA TakesStep == CountInv /\ TakesInv /\ [Next]_vars => TakesInv'
  <1> SUFFICES ASSUME CountInv, TakesInv, [Next]_vars PROVE TakesInv'
    OBVIOUS
  <1>f. bps \in Stats /\ step \in [Slot -> Steps]
    BY DEF CountInv
  <1>g. /\ Cardinality(Pending) \in Nat /\ MaxTakes \in Nat
        /\ bps.cur_allocs \in Int /\ bps.max_allocs \in Int
    BY <1>f, Figures, PendingFinite, PoolAssumption
  <1>1. ASSUME NEW b \in Slot, NEW n \in Size, HeapAlloc(b, n) PROVE TakesInv'
    <2>1. Cardinality(Pending') = Cardinality(Pending) + 1
      BY <1>1, <1>f, PendingAdd DEF HeapAlloc
    <2>2. bps' = bps /\ Takes < MaxTakes
      BY <1>1 DEF HeapAlloc
    <2> QED
      BY <1>g, <2>1, <2>2, TakesAre DEF TakesInv
  <1>2. ASSUME NEW b \in Slot, NEW n \in Size, HeapFull(b, n) PROVE TakesInv'
    <2>1. Cardinality(Pending') = Cardinality(Pending) + 1
      BY <1>2, <1>f, PendingAdd DEF HeapFull
    <2>2. bps' = bps /\ Takes < MaxTakes
      BY <1>2 DEF HeapFull
    <2> QED
      BY <1>g, <2>1, <2>2, TakesAre DEF TakesInv
  <1>3. ASSUME NEW b \in Slot, TakeStat(b) PROVE TakesInv'
    <2>1. Cardinality(Pending') = Cardinality(Pending) - 1
      BY <1>3, <1>f, PendingRemove DEF TakeStat, Steps
    <2>2. /\ bps'.allocs = bps.allocs + 1
          /\ bps'.take_failures = bps.take_failures
          /\ bps'.cur_allocs = bps.cur_allocs + 1
          /\ bps'.max_allocs = MostOf(bps.max_allocs, bps.cur_allocs + 1)
      BY <1>3, <1>f DEF TakeStat, Stats, Figure
    <2> QED
      BY <1>g, <2>1, <2>2 DEF TakesInv, MostOf
  <1>4. ASSUME NEW b \in Slot, FailStat(b) PROVE TakesInv'
    <2>1. Cardinality(Pending') = Cardinality(Pending) - 1
      BY <1>4, <1>f, PendingRemove DEF FailStat, Steps
    <2>2. /\ bps'.allocs = bps.allocs
          /\ bps'.take_failures = bps.take_failures + 1
          /\ bps'.cur_allocs = bps.cur_allocs
          /\ bps'.max_allocs = bps.max_allocs
      BY <1>4, <1>f DEF FailStat, Stats, Figure
    <2> QED
      BY <1>g, <2>1, <2>2 DEF TakesInv
  <1>5. ASSUME NEW b \in Slot, GiveStat(b) PROVE TakesInv'
    <2>1. Pending' = Pending
      BY <1>5, <1>f, PendingSame DEF GiveStat, Steps
    <2>2. /\ bps'.allocs = bps.allocs
          /\ bps'.take_failures = bps.take_failures
          /\ bps'.cur_allocs = bps.cur_allocs - 1
          /\ bps'.max_allocs = bps.max_allocs
      BY <1>5, <1>f DEF GiveStat, Stats, Figure
    <2> QED
      BY <1>g, <2>1, <2>2 DEF TakesInv
  <1>6. ASSUME NEW b \in Slot, HeapFree(b) PROVE TakesInv'
    <2>1. Pending' = Pending
      BY <1>6, <1>f, PendingSame DEF HeapFree, Steps
    <2> QED
      BY <1>6, <2>1 DEF HeapFree, TakesInv
  <1>7. CASE UNCHANGED vars
    BY <1>7 DEF vars, TakesInv, Pending
  <1> QED
    BY <1>1, <1>2, <1>3, <1>4, <1>5, <1>6, <1>7 DEF Next, Done

\* Products of natural numbers are monotonic.
LEMMA TimesMonotonic ==
    ASSUME NEW m \in Nat, NEW n \in Nat, m <= n, NEW x \in Nat, NEW y \in Nat, x <= y
    PROVE  m * x <= n * y /\ m * x \in Nat /\ n * y \in Nat
  <1>1. n * y = m * y + (n - m) * y /\ m * y = m * x + m * (y - x)
    OBVIOUS
  <1>2. (n - m) * y \in Nat /\ m * (y - x) \in Nat /\ m * x \in Nat /\ n * y \in Nat
    OBVIOUS
  <1> QED
    BY <1>1, <1>2

\* The difference of two words.
LEMMA MinusWraps ==
    ASSUME NEW r \in Nat, NEW m \in Nat, NEW n \in Nat, m < r, n <= r
    PROVE  /\ n <= m => (m - n) % r = m - n
           /\ n > m => (m - n) % r = m - n + r
  <1>1. ASSUME n <= m PROVE (m - n) % r = m - n
    BY <1>1
  <1>2. ASSUME n > m PROVE (m - n) % r = m - n + r
    <2>1. (m - n) \in Int /\ - r <= m - n /\ m - n < 0
      BY <1>2
    <2> QED
      BY <2>1
  <1> QED
    BY <1>1, <1>2

\* A block that is put on the books: the room is what it leaves, it takes no more
\* than the pool has, and if all the blocks are of sizes lo to hi, so is their
\* mean.
LEMMA TakeStatBooks ==
    ASSUME CountInv, RoomInv, NEW b \in Slot, TakeStat(b)
    PROVE  /\ Room' \in 0 .. PoolSize /\ Room' = bps.space_available - size[b]
           /\ size[b] \in 0 .. PoolSize
           /\ Counted' = Counted \cup {b}
           /\ \A lo, hi \in Nat : (\A x \in Counted' : size[x] \in lo .. hi) =>
                /\ (bps.cur_allocs + 1) * lo <= PoolSize - Room'
                /\ PoolSize - Room' <= (bps.cur_allocs + 1) * hi
  <1>1. /\ Counted' = Counted \cup {b} /\ b \notin Counted /\ b \in heap
        /\ size' = size
    BY DEF TakeStat, Counted, CountInv, Steps
  <1>2. /\ PoolSize \in Nat /\ SizesOf(Counted) \in Nat /\ SizesOf(heap) \in Nat
        /\ Overhead * Cardinality(heap) \in Nat
        /\ IsFiniteSet(Counted) /\ IsFiniteSet(heap)
        /\ Counted \cup {b} \in SUBSET heap /\ Counted' \in SUBSET Slot
        /\ IsFiniteSet(Counted')
        /\ \A x \in Slot : size[x] \in Nat
    BY <1>1, PoolAssumption, Books
  <1>3. SizesOf(Counted \cup {b}) = size[b] + SizesOf(Counted)
    <2>1. \A x \in Counted \cup {b} : size[x] \in Int
      BY Books
    <2> QED
      BY <1>1, <1>2, <2>1, SumAdd DEF SizesOf
  <1>4. SizesOf(Counted \cup {b}) <= SizesOf(heap)
    <2>1. \A x \in heap : size[x] \in Nat
      BY Books
    <2> QED
      BY <1>2, <2>1, SumMonotonic DEF SizesOf
  <1>5. Room' = PoolSize - SizesOf(Counted \cup {b})
    BY <1>1 DEF Room, SizesOf
  <1>6. SizesOf(heap) <= PoolSize
    BY <1>2 DEF RoomInv
  <1>7. Cardinality(Counted') = bps.cur_allocs + 1
    BY <1>1, <1>2, FS_AddElement DEF CountInv
  <1>8. ASSUME NEW lo \in Nat, NEW hi \in Nat, \A x \in Counted' : size[x] \in lo .. hi
        PROVE  /\ (bps.cur_allocs + 1) * lo <= PoolSize - Room'
               /\ PoolSize - Room' <= (bps.cur_allocs + 1) * hi
    <2>1. /\ Cardinality(Counted') * lo <= SumFunctionOnSet(size, Counted')
          /\ SumFunctionOnSet(size, Counted') <= Cardinality(Counted') * hi
      <3>1. lo \in Int /\ hi \in Int
        OBVIOUS
      <3> QED
        BY <1>2, <1>8, <3>1, SumBetween
    <2>2. PoolSize - Room' = SumFunctionOnSet(size, Counted')
      <3>1. SizesOf(Counted \cup {b}) \in Nat
        BY <1>2, <1>3
      <3> QED
        BY <1>1, <1>2, <1>5, <3>1 DEF SizesOf
    <2> QED
      BY <1>7, <2>1, <2>2
  <1>9. /\ Room' \in 0 .. PoolSize /\ Room' = bps.space_available - size[b]
        /\ size[b] \in 0 .. PoolSize
    BY <1>2, <1>3, <1>4, <1>5, <1>6 DEF RoomInv, Room
  <1> QED
    BY <1>1, <1>8, <1>9

\* The figures fit when nothing has been taken.
LEMMA FiguresInit == Init => FiguresInv
  <1> SUFFICES ASSUME Init PROVE FiguresInv
    OBVIOUS
  <1>1. Counted = {}
    BY DEF Init, Counted
  <1>2. /\ bps.space_available = PoolSize /\ bps.min_space_available = PoolSize
        /\ bps.min_size = PoolSize /\ bps.max_size = 0
        /\ bps.allocs = 0 /\ bps.cur_allocs = 0 /\ bps.max_allocs = 0
        /\ bps.last_fail_size = 0
        /\ low = PoolSize /\ tight = FALSE /\ PoolSize \in Nat
    BY PoolAssumption DEF Init
  <1>3. LowWater
    BY <1>2 DEF LowWater
  <1>4. FiguresFit
    BY <1>2 DEF FiguresFit
  <1>5. size \in [Slot -> Size \cup {0}]
    BY DEF Init
  <1>6. tight \in BOOLEAN
    BY <1>2
  <1>7. /\ low \in 0 .. PoolSize /\ bps.min_space_available \in 0 .. PoolSize
        /\ bps.min_size \in 0 .. PoolSize /\ bps.max_size \in 0 .. PoolSize
        /\ bps.last_fail_size \in Size \cup {0}
    BY <1>2
  <1> QED
    BY <1>1, <1>3, <1>4, <1>5, <1>6, <1>7 DEF FiguresInv

\* Every step keeps the figures fitting: TakeStat sets new peaks and extremes, a take that
\* fails may lower the minimum, and the others stay within them.
LEMMA FiguresStep ==
    CountInv /\ RoomInv /\ TakesInv /\ FiguresInv /\ [Next]_vars => FiguresInv'
  <1> SUFFICES ASSUME CountInv, RoomInv, TakesInv, FiguresInv, [Next]_vars
               PROVE  FiguresInv'
    OBVIOUS
  <1>f. bps \in Stats /\ step \in [Slot -> Steps] /\ size \in [Slot -> Size \cup {0}]
    BY DEF CountInv, FiguresInv
  \* An action that leaves the figures alone, and begins no block that is held.
  <1>s. ASSUME UNCHANGED <<bps, low, tight>>, Counted' = Counted,
               \A x \in Counted : size'[x] = size[x],
               size' \in [Slot -> Size \cup {0}]
        PROVE  FiguresInv'
    BY <1>s DEF FiguresInv, LowWater, FiguresFit
  <1>1. ASSUME NEW b \in Slot, NEW n \in Size, HeapAlloc(b, n) PROVE FiguresInv'
    <2>1. Counted' = Counted
      BY <1>1, <1>f, SameCounted DEF HeapAlloc, Steps
    <2>2. b \notin Counted
      BY <1>1 DEF HeapAlloc, Counted
    <2>3. size' = [size EXCEPT ![b] = n] /\ UNCHANGED <<bps, low, tight>>
      BY <1>1 DEF HeapAlloc
    <2>4. \A x \in Counted : size'[x] = size[x]
      BY <1>f, <2>2, <2>3 DEF Counted
    <2>5. size' \in [Slot -> Size \cup {0}]
      BY <1>f, <2>3
    <2> QED
      BY <1>s, <2>1, <2>3, <2>4, <2>5
  <1>2. ASSUME NEW b \in Slot, NEW n \in Size, HeapFull(b, n) PROVE FiguresInv'
    <2>1. Counted' = Counted
      BY <1>2, <1>f, SameCounted DEF HeapFull, Steps
    <2>2. b \notin Counted
      BY <1>2 DEF HeapFull, Counted
    <2>3. size' = [size EXCEPT ![b] = n] /\ UNCHANGED <<bps, low, tight>>
      BY <1>2 DEF HeapFull
    <2>4. \A x \in Counted : size'[x] = size[x]
      BY <1>f, <2>2, <2>3 DEF Counted
    <2>5. size' \in [Slot -> Size \cup {0}]
      BY <1>f, <2>3
    <2> QED
      BY <1>s, <2>1, <2>3, <2>4, <2>5
  <1>3. ASSUME NEW b \in Slot, TakeStat(b) PROVE FiguresInv'
    <2> DEFINE n == size[b]
               peak == bps.max_allocs
               cur == bps.cur_allocs + 1
    <2>1. /\ bps'.min_space_available = LeastOf(bps.min_space_available, Room')
          /\ bps'.min_size = LeastOf(bps.min_size, n)
          /\ bps'.max_size = MostOf(bps.max_size, n)
          /\ bps'.allocs = bps.allocs + 1
          /\ bps'.cur_allocs = cur
          /\ bps'.max_allocs = MostOf(peak, cur)
          /\ bps'.last_fail_size = bps.last_fail_size
          /\ low' = LeastOf(low, Room') /\ UNCHANGED <<size, tight>>
      <3>1. bps.space_available - n = Room'
        BY <1>3, TakeStatBooks
      <3> QED
        BY <1>3, <1>f, <3>1 DEF TakeStat, Stats, Figure
    <2>2. /\ Room' \in 0 .. PoolSize /\ n \in 0 .. PoolSize
          /\ Counted' = Counted \cup {b}
          /\ \A lo, hi \in Nat : (\A x \in Counted' : size[x] \in lo .. hi) =>
                cur * lo <= PoolSize - Room' /\ PoolSize - Room' <= cur * hi
      BY <1>3, TakeStatBooks
    <2>3. /\ PoolSize \in Nat /\ Cardinality(Counted) \in Nat
          /\ low \in 0 .. PoolSize /\ tight \in BOOLEAN
          /\ bps.min_space_available \in 0 .. PoolSize
          /\ bps.min_size \in 0 .. PoolSize /\ bps.max_size \in 0 .. PoolSize
      BY PoolAssumption, Books DEF FiguresInv
    <2>4. /\ bps.cur_allocs \in Nat /\ peak \in Nat /\ bps.allocs \in Nat
          /\ bps.cur_allocs <= peak /\ peak <= bps.allocs
      BY <1>f, <2>3, Figures DEF CountInv, TakesInv
    <2> DEFINE lo == bps'.min_size
               hi == bps'.max_size
               m == bps'.min_space_available
               top == bps'.max_allocs
    <2>5. /\ lo \in Nat /\ hi \in Nat /\ lo <= PoolSize /\ hi <= PoolSize
          /\ lo <= bps.min_size /\ lo <= n /\ bps.max_size <= hi /\ n <= hi
      BY <2>1, <2>2, <2>3 DEF LeastOf, MostOf
    <2>6. \A x \in Counted' : size[x] \in lo .. hi
      <3>1. \A x \in Counted : size[x] \in bps.min_size .. bps.max_size
        BY DEF FiguresInv
      <3>2. ASSUME NEW x \in Counted PROVE size[x] \in lo .. hi
        <4> HIDE DEF lo, hi
        <4> QED
          BY <2>3, <2>5, <3>1
      <3>3. n \in lo .. hi
        <4> HIDE DEF lo, hi
        <4> QED
          BY <2>2, <2>5
      <3> QED
        BY <2>2, <3>2, <3>3
    <2>7. cur * lo <= PoolSize - Room' /\ PoolSize - Room' <= cur * hi
      <3> HIDE DEF lo, hi, cur, n
      <3> QED
        BY <2>2, <2>5, <2>6
    <2>8. m \in 0 .. PoolSize /\ low' \in 0 .. PoolSize /\ m <= Room' /\ m <= bps.min_space_available
      BY <2>1, <2>2, <2>3 DEF LeastOf
    <2>9. LowWater'
      <3>1. /\ bps.min_space_available <= low
            /\ ~ tight => bps.min_space_available = low
        BY DEF FiguresInv, LowWater
      <3> QED
        BY <2>1, <2>2, <2>3, <3>1 DEF LowWater, LeastOf
    <2>10. /\ top \in Nat /\ peak <= top /\ cur <= top /\ (top = peak \/ top = cur)
           /\ cur \in Nat /\ top <= bps'.allocs
      BY <2>1, <2>4 DEF MostOf
    <2>11. m + top * lo <= PoolSize
      <3>1. CASE top = cur
        <4>1. cur * lo \in Nat
          <5> HIDE DEF cur, lo
          <5> QED BY <2>5, <2>10
        <4> HIDE DEF cur, lo, m, top
        <4> QED
          BY <2>2, <2>3, <2>7, <2>8, <3>1, <4>1
      <3>2. CASE top = peak
        <4>1. bps.allocs # 0
          BY <2>4, <2>10, <3>2
        <4>2. bps.min_space_available + peak * bps.min_size <= PoolSize
          BY <4>1 DEF FiguresInv, FiguresFit
        <4>3. top * lo <= peak * bps.min_size /\ top * lo \in Nat /\ peak * bps.min_size \in Nat
          <5>1. bps.min_size \in Nat /\ top <= peak
            BY <2>3, <2>10, <3>2
          <5> HIDE DEF top, lo, peak
          <5> QED
            BY <2>4, <2>5, <2>10, <5>1, TimesMonotonic
        <4> HIDE DEF top, lo, peak, m
        <4> QED
          BY <2>3, <2>8, <4>2, <4>3
      <3> QED
        BY <2>10, <3>1, <3>2
    <2>12. m + top * hi >= PoolSize \/ tight
      <3>1. SUFFICES ASSUME ~ tight PROVE m + top * hi >= PoolSize
        OBVIOUS
      <3>2. /\ cur * hi <= top * hi /\ cur * hi \in Nat /\ top * hi \in Nat
        <4>1. hi <= hi
          BY <2>5
        <4> HIDE DEF cur, top, hi
        <4> QED
          BY <2>5, <2>10, <4>1, TimesMonotonic
      <3>3. CASE m = Room'
        <4> HIDE DEF cur, top, hi, m
        <4> QED
          BY <2>2, <2>3, <2>7, <3>2, <3>3
      <3>4. CASE m = bps.min_space_available
        <4>1. bps.min_space_available + peak * bps.max_size >= PoolSize
          BY <3>1 DEF FiguresInv, FiguresFit
        <4>2. peak * bps.max_size <= top * hi /\ peak * bps.max_size \in Nat
          <5>1. bps.max_size \in Nat
            BY <2>3
          <5> HIDE DEF peak, top, hi
          <5> QED
            BY <2>4, <2>5, <2>10, <5>1, TimesMonotonic
        <4> HIDE DEF peak, top, hi, m
        <4> QED
          BY <2>3, <3>2, <3>4, <4>1, <4>2
      <3> QED
        BY <2>1, <3>3, <3>4 DEF LeastOf
    <2>13. FiguresFit'
      BY <2>1, <2>10, <2>11, <2>12 DEF FiguresFit
    <2>14. \A x \in Counted' : size'[x] \in bps'.min_size .. bps'.max_size
      BY <2>1, <2>6
    <2>15. /\ size' \in [Slot -> Size \cup {0}] /\ tight' \in BOOLEAN
           /\ bps'.min_size \in 0 .. PoolSize /\ bps'.max_size \in 0 .. PoolSize
           /\ bps'.last_fail_size \in Size \cup {0}
      BY <1>f, <2>1, <2>3, <2>5 DEF FiguresInv
    <2> QED
      BY <2>8, <2>9, <2>13, <2>14, <2>15 DEF FiguresInv
  <1>4. ASSUME NEW b \in Slot, FailStat(b) PROVE FiguresInv'
    <2> DEFINE n == size[b]
               m == bps.min_space_available
               w == Minus32(bps.space_available, n)
    <2>1. /\ bps' = [bps EXCEPT !.take_failures = @ + 1, !.last_fail_size = n,
                                !.min_space_available = LeastOf(@, w)]
          /\ tight' = (tight \/ n <= Room)
          /\ UNCHANGED <<size, low>>
      BY <1>4 DEF FailStat
    <2>2. Counted' = Counted
      BY <1>4, <1>f, SameCounted DEF FailStat, Steps
    <2>3. /\ PoolSize \in Nat /\ Range32 \in Nat /\ PoolSize < Range32
          /\ n \in Size \cup {0} /\ n \in Nat /\ PoolSize + n <= Range32
          /\ m \in 0 .. PoolSize
      <3>1. n \in Size \cup {0} /\ m \in 0 .. PoolSize
        BY <1>f DEF FiguresInv
      <3>2. PoolSize \in Nat /\ Range32 \in Nat /\ PoolSize < Range32
        BY PoolAssumption
      <3>3. n \in Nat /\ PoolSize + n <= Range32
        <4>1. CASE n \in Size
          BY <4>1, PoolAssumption
        <4>2. CASE n = 0
          BY <3>2, <4>2
        <4> QED
          BY <3>1, <4>1, <4>2
      <3> QED
        BY <3>1, <3>2, <3>3
    <2>4. Room \in 0 .. PoolSize /\ bps.space_available = Room
      <3>1. /\ SizesOf(Counted) \in Nat /\ SizesOf(heap) \in Nat
            /\ SizesOf(Counted) <= SizesOf(heap)
            /\ Overhead * Cardinality(heap) \in Nat
        BY Books, PoolAssumption
      <3> QED
        BY <2>3, <3>1 DEF RoomInv, Room
    <2>5. w \in Nat /\ (n <= Room \/ w >= m)
      <3> HIDE DEF n
      <3>1. /\ n <= Room => w = Room - n
            /\ n > Room => w = Room - n + Range32
        BY <2>3, <2>4, MinusWraps DEF Minus32
      <3> QED
        BY <2>3, <2>4, <3>1
    <2> HIDE DEF w
    <2>6. /\ bps'.min_space_available = LeastOf(m, w)
          /\ bps'.last_fail_size = n
          /\ bps'.min_size = bps.min_size /\ bps'.max_size = bps.max_size
          /\ bps'.allocs = bps.allocs /\ bps'.cur_allocs = bps.cur_allocs
          /\ bps'.max_allocs = bps.max_allocs
      BY <2>1, <1>f DEF Stats, Figure
    <2>7. /\ bps'.min_space_available \in 0 .. PoolSize
          /\ bps'.min_space_available <= m
          /\ n <= Room \/ bps'.min_space_available = m
      BY <2>3, <2>4, <2>5, <2>6 DEF LeastOf
    <2>8. /\ low \in 0 .. PoolSize /\ m <= low /\ (~ tight => m = low)
          /\ bps.cur_allocs <= bps.max_allocs /\ bps.max_allocs <= bps.allocs
          /\ m + bps.max_allocs * bps.min_size <= PoolSize \/ bps.allocs = 0
          /\ m + bps.max_allocs * bps.max_size >= PoolSize \/ tight
      BY DEF FiguresInv, LowWater, FiguresFit
    <2>t. ~ tight' => ~ tight /\ bps'.min_space_available = m
      BY <2>1, <2>7, Zenon
    <2>9. LowWater'
      BY <2>1, <2>3, <2>7, <2>8, <2>t DEF LowWater
    <2>10. FiguresFit'
      <3>1. bps.max_allocs * bps.min_size \in Int
        <4>1. bps.max_allocs \in Int /\ bps.min_size \in Int
          BY <1>f, Figures
        <4> QED BY <4>1
      <3> HIDE DEF m
      <3> QED
        BY <2>3, <2>6, <2>7, <2>8, <2>t, <3>1 DEF FiguresFit
    <2>11. \A x \in Counted' : size'[x] \in bps'.min_size .. bps'.max_size
      BY <2>1, <2>2, <2>6 DEF FiguresInv
    <2>12. /\ size' \in [Slot -> Size \cup {0}] /\ tight' \in BOOLEAN
           /\ low' \in 0 .. PoolSize
           /\ bps'.min_size \in 0 .. PoolSize /\ bps'.max_size \in 0 .. PoolSize
           /\ bps'.last_fail_size \in Size \cup {0}
      BY <1>f, <2>1, <2>3, <2>4, <2>6, <2>8 DEF FiguresInv
    <2> QED
      BY <2>7, <2>9, <2>10, <2>11, <2>12 DEF FiguresInv
  <1>5. ASSUME NEW b \in Slot, GiveStat(b) PROVE FiguresInv'
    <2>1. Counted' = Counted \ {b}
      BY <1>5, <1>f DEF GiveStat, Counted, Steps
    <2>2. /\ bps'.min_space_available = bps.min_space_available
          /\ bps'.last_fail_size = bps.last_fail_size
          /\ bps'.min_size = bps.min_size /\ bps'.max_size = bps.max_size
          /\ bps'.allocs = bps.allocs /\ bps'.cur_allocs = bps.cur_allocs - 1
          /\ bps'.max_allocs = bps.max_allocs
          /\ UNCHANGED <<size, low, tight>>
      BY <1>5, <1>f DEF GiveStat, Stats, Figure
    <2>3. bps.cur_allocs \in Int /\ bps.max_allocs \in Int
      BY <1>f, Figures
    <2>4. FiguresFit'
      BY <2>2, <2>3 DEF FiguresInv, FiguresFit
    <2> QED
      BY <2>1, <2>2, <2>4 DEF FiguresInv, LowWater
  <1>6. ASSUME NEW b \in Slot, HeapFree(b) PROVE FiguresInv'
    <2>1. Counted' = Counted
      BY <1>6, <1>f, SameCounted DEF HeapFree, Steps
    <2> QED
      BY <1>6, <1>f, <1>s, <2>1 DEF HeapFree
  <1>7. CASE UNCHANGED vars
    BY <1>7, <1>f, <1>s DEF vars, Counted
  <1> QED
    BY <1>1, <1>2, <1>3, <1>4, <1>5, <1>6, <1>7 DEF Next, Done

StatsInv == CountInv /\ RoomInv /\ TakesInv /\ FiguresInv

\* The layers together.
LEMMA StatsInvariant == Spec => []StatsInv
  <1>1. Init => StatsInv
    BY CountInit, RoomInit, TakesInit, FiguresInit DEF StatsInv
  <1>2. StatsInv /\ [Next]_vars => StatsInv'
    BY CountStep, RoomStep, TakesStep, FiguresStep DEF StatsInv
  <1> QED
    BY <1>1, <1>2, PTL DEF Spec

\* The variables have their types: no figure is ever negative or above the size
\* of the pool, whatever fails in between.
THEOREM StatsTypeCorrect == Spec => []TypeOK
  <1>1. ASSUME StatsInv PROVE TypeOK
    <2> USE <1>1 DEF StatsInv
    <2>1. bps \in Stats /\ step \in [Slot -> Steps]
      BY DEF CountInv
    <2>2. /\ PoolSize \in Nat /\ MaxTakes \in Nat
          /\ Cardinality(Pending) \in Nat /\ Cardinality(Counted) \in Nat
      BY PoolAssumption, PendingFinite, Books
    <2>3. /\ bps.allocs \in 0 .. MaxTakes /\ bps.take_failures \in 0 .. MaxTakes
          /\ bps.max_allocs \in 0 .. MaxTakes /\ bps.cur_allocs \in 0 .. MaxTakes
      <3>1. bps.max_allocs \in Int
        BY <2>1, Figures
      <3> QED
        BY <2>2, <3>1 DEF CountInv, TakesInv
    <2>4. bps.space_available \in 0 .. PoolSize
      <3>1. /\ SizesOf(Counted) \in Nat /\ SizesOf(heap) \in Nat
            /\ SizesOf(Counted) <= SizesOf(heap)
            /\ Overhead * Cardinality(heap) \in Nat
        BY Books, PoolAssumption
      <3> QED
        BY <2>2, <3>1 DEF RoomInv, Room
    <2> QED
      BY <2>1, <2>3, <2>4 DEF TypeOK, FiguresInv, CountInv, Steps
  <1> QED
    BY StatsInvariant, <1>1, PTL

\* min_space_available is the least room there ever was, until a take fails that
\* asked for no more than the room.
THEOREM LowWaterAlways == Spec => []LowWater
  <1>1. StatsInv => LowWater
    BY DEF StatsInv, FiguresInv
  <1> QED
    BY StatsInvariant, <1>1, PTL

\* The figures of one snapshot fit each other.
THEOREM FiguresAlwaysFit == Spec => []FiguresFit
  <1>1. StatsInv => FiguresFit
    BY DEF StatsInv, FiguresInv
  <1> QED
    BY StatsInvariant, <1>1, PTL

=============================================================================
