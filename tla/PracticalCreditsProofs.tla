------------------------ MODULE PracticalCreditsProofs ------------------------
(***************************************************************************)
(* Proofs about PracticalCredits, for any catalogue, any number of orders, *)
(* extra blocks and bookings of a student, and lessons of any length.      *)
(*                                                                         *)
(* What bookings hold is a sum over rows, so the first part is the theory  *)
(* of sums over finite sets: the library's SumFunctionOnSet unfolds one    *)
(* element at a time, and induction on the subsets of the summed set does  *)
(* the rest.                                                               *)
(***************************************************************************)
EXTENDS PracticalCredits, FiniteSetTheorems, TLAPS

-----------------------------------------------------------------------------
(* Sums over finite sets.                                                 *)

\* Induction over the subsets of a finite set: what holds of a set whenever it
\* holds of all it becomes by losing one element holds of the whole.
LEMMA SubsetInduction ==
  ASSUME NEW S, IsFiniteSet(S), NEW G, {} \in G,
         \A T \in SUBSET S : T # {} /\ (\A x \in T : T \ {x} \in G) => T \in G
  PROVE  S \in G
<1> DEFINE Bad == {T \in SUBSET S : T \notin G}
<1>1. SUFFICES ASSUME Bad # {} PROVE FALSE
  BY Zenon
<1>2. Bad \subseteq FiniteSubsetsOf(S)
  BY FS_FiniteSubsetsOfFinite, Zenon
<1>3. PICK T \in Bad : \A U \in Bad : <<U, T>> \notin StrictSubsetOrdering(S)
  <2>1. IsWellFoundedOn(StrictSubsetOrdering(S), FiniteSubsetsOf(S))
    BY FS_StrictSubsetOrderingWellFounded, Zenon
  <2>2. \E T \in Bad : \A U \in Bad : ~ (<<U, T>> \in StrictSubsetOrdering(S))
    <3> HIDE DEF Bad
    <3> QED BY <1>1, <1>2, <2>1, WFMin
  <2> QED BY <2>2, Zenon
<1>4. PICK x \in T : T \ {x} \in Bad
  OBVIOUS
<1>5. <<T \ {x}, T>> \in StrictSubsetOrdering(S)
  BY <1>3, <1>4 DEF StrictSubsetOrdering
<1> QED BY <1>3, <1>4, <1>5

\* Induction over the numbers, for a set.
LEMMA NatSetInduction ==
  ASSUME NEW G, 0 \in G, \A n \in Nat : n \in G => n + 1 \in G
  PROVE  \A n \in Nat : n \in G
<1> DEFINE Bad == Nat \ G
<1>1. SUFFICES ASSUME Bad # {} PROVE FALSE
  OBVIOUS
<1>2. PICK m \in Bad : \A n \in Bad : ~ (<<n, m>> \in OpToRel(<, Nat))
  <2> HIDE DEF Bad
  <2>1. Bad \subseteq Nat
    BY DEF Bad
  <2> QED BY <1>1, <2>1, NatLessThanWellFounded, WFMin
<1>3. m # 0 /\ m - 1 \in Nat /\ m = (m - 1) + 1
  OBVIOUS
<1>4. m - 1 \in Bad
  BY <1>3
<1>5. <<m - 1, m>> \in OpToRel(<, Nat)
  BY <1>3 DEF OpToRel
<1> QED BY <1>2, <1>4, <1>5

Pick(T) == CHOOSE x \in T : TRUE

\* g adds f up at T: 0, or the summand of the picked element and the rest.
Adds(g, f, T) == g[T] = (IF T = {} THEN 0 ELSE f[Pick(T)] + g[T \ {Pick(T)}])

\* g is the recursive function by which the library sums f over the subsets of S.
Sums(g, f, S) ==
  g = [T \in SUBSET S |-> IF T = {} THEN 0 ELSE f[Pick(T)] + g[T \ {Pick(T)}]]

\* The recursive function exists: it is built up by the size of the subsets.
LEMMA SumExists ==
  ASSUME NEW S, IsFiniteSet(S), NEW f
  PROVE  \E g : Sums(g, f, S)
<1> DEFINE Up(n, g) == \A T \in SUBSET S : Cardinality(T) <= n => Adds(g, f, T)
           N == {n \in Nat : \E g : Up(n, g)}
<1>1. \A T \in SUBSET S : IsFiniteSet(T) /\ Cardinality(T) \in Nat
  BY FS_Subset, FS_CardinalityType, Zenon
<1>2. \A T \in SUBSET S : T # {} => Pick(T) \in T /\ Cardinality(T \ {Pick(T)}) = Cardinality(T) - 1
  BY <1>1, FS_RemoveElement DEF Pick
<1>3. 0 \in N
  <2> DEFINE g == [T \in SUBSET S |-> 0]
  <2>1. Up(0, g)
    BY <1>1, FS_EmptySet DEF Adds
  <2> QED BY <2>1
<1>4. ASSUME NEW n \in Nat, n \in N
      PROVE  n + 1 \in N
  <2>1. PICK g : Up(n, g)
    BY <1>4
  <2> DEFINE h == [T \in SUBSET S |-> IF T = {} THEN 0
                     ELSE IF Cardinality(T) <= n THEN g[T] ELSE f[Pick(T)] + g[T \ {Pick(T)}]]
  <2>2. ASSUME NEW T \in SUBSET S, Cardinality(T) <= n + 1
        PROVE  Adds(h, f, T)
    <3>1. CASE T = {}
      BY <3>1 DEF Adds
    <3>2. CASE T # {}
      <4>1. /\ T \ {Pick(T)} \in SUBSET S /\ Cardinality(T \ {Pick(T)}) <= n
            /\ Cardinality({}) = 0 /\ {} \in SUBSET S
        BY <1>1, <1>2, <2>2, <3>2, FS_EmptySet
      <4>2. h[T \ {Pick(T)}] = g[T \ {Pick(T)}]
        <5>1. g[{}] = 0
          <6>1. Adds(g, f, {})
            BY <2>1, <4>1
          <6> QED BY <6>1 DEF Adds
        <5> QED BY <4>1, <5>1
      <4>3. h[T] = f[Pick(T)] + g[T \ {Pick(T)}]
        <5>1. Cardinality(T) <= n => g[T] = f[Pick(T)] + g[T \ {Pick(T)}]
          BY <2>1, <3>2 DEF Adds
        <5> QED BY <3>2, <5>1
      <4> HIDE DEF h
      <4> QED BY <3>2, <4>2, <4>3 DEF Adds
    <3> QED BY <3>1, <3>2
  <2> HIDE DEF h
  <2>3. Up(n + 1, h)
    BY <2>2
  <2> QED BY <2>3
<1>5. Cardinality(S) \in N
  <2> HIDE DEF N
  <2> QED BY <1>1, <1>3, <1>4, NatSetInduction
<1>6. PICK g : Up(Cardinality(S), g)
  BY <1>5
<1>7. \A T \in SUBSET S : Cardinality(T) <= Cardinality(S)
  BY FS_Subset
<1> DEFINE s == [T \in SUBSET S |-> g[T]]
<1>8. s = [T \in SUBSET S |-> IF T = {} THEN 0 ELSE f[Pick(T)] + s[T \ {Pick(T)}]]
  BY <1>2, <1>6, <1>7 DEF Adds
<1> QED BY <1>8, Zenon DEF Sums

\* SumFunctionOnSet is the value of such a function.
LEMMA SumUnfolds ==
  ASSUME NEW S, IsFiniteSet(S), NEW f
  PROVE  \E g : g[S] = SumFunctionOnSet(f, S) /\ \A T \in SUBSET S : Adds(g, f, T)
<1> DEFINE s == CHOOSE g : Sums(g, f, S)
<1>1. Sums(s, f, S)
  BY SumExists
<1>2. s[S] = SumFunctionOnSet(f, S)
  BY DEF SumFunctionOnSet, FoldFunctionOnSet, MapThenFoldSet, Pick, Sums
<1>3. \A T \in SUBSET S : Adds(s, f, T)
  <2> HIDE DEF s
  <2> QED BY <1>1 DEF Adds, Sums
<1> QED BY <1>2, <1>3

\* Two functions that add up f agree where both do.
LEMMA SumAgrees ==
  ASSUME NEW S, IsFiniteSet(S), NEW U \in SUBSET S, NEW f, NEW g, NEW h,
         \A T \in SUBSET S : Adds(g, f, T), \A T \in SUBSET U : Adds(h, f, T)
  PROVE  g[U] = h[U]
<1> DEFINE G == {T \in SUBSET U : g[T] = h[T]}
<1>1. {} \in G
  BY DEF Adds
<1>2. ASSUME NEW T \in SUBSET U, T # {}, \A x \in T : T \ {x} \in G
      PROVE  T \in G
  <2> DEFINE x == Pick(T)
  <2>1. x \in T /\ T \in SUBSET S /\ T \ {x} \in SUBSET U
    BY <1>2 DEF Pick
  <2>2. g[T \ {x}] = h[T \ {x}]
    BY <1>2, <2>1
  <2>3. g[T] = f[x] + g[T \ {x}] /\ h[T] = f[x] + h[T \ {x}]
    BY <1>2, <2>1 DEF Adds
  <2> QED BY <2>2, <2>3
<1>3. IsFiniteSet(U)
  BY FS_Subset
<1> HIDE DEF G
<1>4. U \in G
  <2>1. \A T \in SUBSET U : T # {} /\ (\A x \in T : T \ {x} \in G) => T \in G
    BY <1>2
  <2> QED BY <1>1, <1>3, <2>1, SubsetInduction
<1> QED BY <1>4 DEF G

\* Nothing adds up to 0.
LEMMA SumEmpty == ASSUME NEW f PROVE SumFunctionOnSet(f, {}) = 0
BY SumUnfolds, FS_EmptySet DEF Adds

\* Some element can be taken out of a sum.
LEMMA SumPick ==
  ASSUME NEW S, IsFiniteSet(S), S # {}, NEW f
  PROVE  \E x \in S : SumFunctionOnSet(f, S) = f[x] + SumFunctionOnSet(f, S \ {x})
<1> DEFINE x == Pick(S)
           U == S \ {x}
<1>1. x \in S
  BY DEF Pick
<1>2. PICK g : g[S] = SumFunctionOnSet(f, S) /\ \A T \in SUBSET S : Adds(g, f, T)
  BY SumUnfolds
<1>3. IsFiniteSet(U)
  BY FS_Subset
<1>4. PICK h : h[U] = SumFunctionOnSet(f, U) /\ \A T \in SUBSET U : Adds(h, f, T)
  BY <1>3, SumUnfolds
<1>5. g[U] = h[U]
  BY <1>2, <1>4, SumAgrees
<1>6. g[S] = f[x] + g[U]
  BY <1>2 DEF Adds
<1> HIDE DEF x
<1> QED BY <1>1, <1>2, <1>4, <1>5, <1>6

\* A sum of integers is an integer.
LEMMA SumInt ==
  ASSUME NEW S, IsFiniteSet(S), NEW f, \A x \in S : f[x] \in Int
  PROVE  SumFunctionOnSet(f, S) \in Int
<1> DEFINE G == {T \in SUBSET S : SumFunctionOnSet(f, T) \in Int}
<1>1. {} \in G
  BY SumEmpty
<1>2. ASSUME NEW T \in SUBSET S, T # {}, \A x \in T : T \ {x} \in G
      PROVE  T \in G
  <2>1. IsFiniteSet(T)
    BY FS_Subset
  <2>2. PICK x \in T : SumFunctionOnSet(f, T) = f[x] + SumFunctionOnSet(f, T \ {x})
    BY <1>2, <2>1, SumPick
  <2> QED BY <1>2, <2>2
<1> HIDE DEF G
<1>3. S \in G
  <2>1. \A T \in SUBSET S : T # {} /\ (\A x \in T : T \ {x} \in G) => T \in G
    BY <1>2
  <2> QED BY <1>1, <2>1, SubsetInduction
<1> QED BY <1>3 DEF G

\* A sum of naturals is a natural.
LEMMA SumNat ==
  ASSUME NEW S, IsFiniteSet(S), NEW f, \A x \in S : f[x] \in Nat
  PROVE  SumFunctionOnSet(f, S) \in Nat
<1> DEFINE G == {T \in SUBSET S : SumFunctionOnSet(f, T) \in Nat}
<1>1. {} \in G
  BY SumEmpty
<1>2. ASSUME NEW T \in SUBSET S, T # {}, \A x \in T : T \ {x} \in G
      PROVE  T \in G
  <2>1. IsFiniteSet(T)
    BY FS_Subset
  <2>2. PICK x \in T : SumFunctionOnSet(f, T) = f[x] + SumFunctionOnSet(f, T \ {x})
    BY <1>2, <2>1, SumPick
  <2> QED BY <1>2, <2>2
<1> HIDE DEF G
<1>3. S \in G
  <2>1. \A T \in SUBSET S : T # {} /\ (\A x \in T : T \ {x} \in G) => T \in G
    BY <1>2
  <2> QED BY <1>1, <2>1, SubsetInduction
<1> QED BY <1>3 DEF G

\* Any element may be taken out first.
LEMMA SumRemove ==
  ASSUME NEW S, IsFiniteSet(S), NEW f, \A y \in S : f[y] \in Int, NEW x \in S
  PROVE  SumFunctionOnSet(f, S) = f[x] + SumFunctionOnSet(f, S \ {x})
<1> DEFINE Out(T) == \A y \in T : SumFunctionOnSet(f, T) = f[y] + SumFunctionOnSet(f, T \ {y})
           G == {T \in SUBSET S : Out(T)}
<1>1. {} \in G
  OBVIOUS
<1>2. ASSUME NEW T \in SUBSET S, T # {}, \A y \in T : T \ {y} \in G, NEW y \in T
      PROVE  SumFunctionOnSet(f, T) = f[y] + SumFunctionOnSet(f, T \ {y})
  <2>1. IsFiniteSet(T) /\ IsFiniteSet(T \ {y})
    BY FS_Subset
  <2>2. PICK z \in T : SumFunctionOnSet(f, T) = f[z] + SumFunctionOnSet(f, T \ {z})
    BY <1>2, <2>1, SumPick
  <2>3. CASE z = y
    BY <2>2, <2>3
  <2>4. CASE z # y
    <3>1. SumFunctionOnSet(f, T \ {z}) = f[y] + SumFunctionOnSet(f, (T \ {z}) \ {y})
      BY <1>2, <2>4
    <3>2. SumFunctionOnSet(f, T \ {y}) = f[z] + SumFunctionOnSet(f, (T \ {y}) \ {z})
      BY <1>2, <2>4
    <3>3. (T \ {z}) \ {y} = (T \ {y}) \ {z}
      OBVIOUS
    <3>4. SumFunctionOnSet(f, (T \ {y}) \ {z}) \in Int
      <4>1. IsFiniteSet((T \ {y}) \ {z})
        BY <2>1, FS_Subset
      <4> QED BY <4>1, SumInt
    <3>5. f[y] \in Int /\ f[z] \in Int
      BY <1>2
    <3> DEFINE R == SumFunctionOnSet(f, (T \ {y}) \ {z})
    <3>6. SumFunctionOnSet(f, T) = f[z] + (f[y] + R) /\ SumFunctionOnSet(f, T \ {y}) = f[z] + R
      BY <2>2, <3>1, <3>2, <3>3, Zenon
    <3>7. R \in Int
      BY <3>4
    <3> HIDE DEF R
    <3> QED BY <3>5, <3>6, <3>7
  <2> QED BY <2>3, <2>4
<1>3. ASSUME NEW T \in SUBSET S, T # {}, \A y \in T : T \ {y} \in G
      PROVE  T \in G
  BY <1>2, <1>3
<1> HIDE DEF G
<1>4. S \in G
  <2>1. \A T \in SUBSET S : T # {} /\ (\A y \in T : T \ {y} \in G) => T \in G
    BY <1>3
  <2> QED BY <1>1, <2>1, SubsetInduction
<1> QED BY <1>4 DEF G

\* A sum depends on the values over the set only.
LEMMA SumSame ==
  ASSUME NEW S, IsFiniteSet(S), NEW f, NEW g, \A x \in S : f[x] \in Int /\ g[x] = f[x]
  PROVE  SumFunctionOnSet(g, S) = SumFunctionOnSet(f, S)
<1> DEFINE G == {T \in SUBSET S : SumFunctionOnSet(g, T) = SumFunctionOnSet(f, T)}
<1>1. {} \in G
  BY SumEmpty
<1>2. ASSUME NEW T \in SUBSET S, T # {}, \A x \in T : T \ {x} \in G
      PROVE  T \in G
  <2>1. PICK x \in T : TRUE
    BY <1>2
  <2>2. IsFiniteSet(T)
    BY FS_Subset
  <2>3. SumFunctionOnSet(f, T) = f[x] + SumFunctionOnSet(f, T \ {x})
    BY <2>2, SumRemove
  <2>4. SumFunctionOnSet(g, T) = g[x] + SumFunctionOnSet(g, T \ {x})
    BY <2>2, SumRemove
  <2> QED BY <1>2, <2>3, <2>4
<1> HIDE DEF G
<1>3. S \in G
  <2>1. \A T \in SUBSET S : T # {} /\ (\A x \in T : T \ {x} \in G) => T \in G
    BY <1>2
  <2> QED BY <1>1, <2>1, SubsetInduction
<1> QED BY <1>3 DEF G

\* One value changes.
LEMMA SumUpdate ==
  ASSUME NEW S, IsFiniteSet(S), NEW f, NEW g, NEW x \in S,
         \A y \in S : f[y] \in Int /\ g[y] \in Int, \A y \in S : y # x => g[y] = f[y]
  PROVE  SumFunctionOnSet(g, S) = SumFunctionOnSet(f, S) + g[x] - f[x]
<1>1. IsFiniteSet(S \ {x})
  BY FS_Subset
<1>2. SumFunctionOnSet(f, S) = f[x] + SumFunctionOnSet(f, S \ {x})
  BY SumRemove
<1>3. SumFunctionOnSet(g, S) = g[x] + SumFunctionOnSet(g, S \ {x})
  BY SumRemove
<1>4. SumFunctionOnSet(g, S \ {x}) = SumFunctionOnSet(f, S \ {x})
  BY <1>1, SumSame
<1>5. SumFunctionOnSet(f, S \ {x}) \in Int
  BY <1>1, SumInt
<1> QED BY <1>2, <1>3, <1>4, <1>5

\* The same for a function that is updated at one element.
LEMMA SumExcept ==
  ASSUME NEW S, IsFiniteSet(S), NEW f \in [S -> Int], NEW x \in S, NEW n \in Int
  PROVE  SumFunctionOnSet([f EXCEPT ![x] = n], S) = SumFunctionOnSet(f, S) + n - f[x]
<1> DEFINE g == [f EXCEPT ![x] = n]
<1>1. g[x] = n /\ \A y \in S : f[y] \in Int /\ g[y] \in Int
  OBVIOUS
<1>2. \A y \in S : y # x => g[y] = f[y]
  OBVIOUS
<1> HIDE DEF g
<1>3. SumFunctionOnSet(g, S) = SumFunctionOnSet(f, S) + g[x] - f[x]
  BY <1>1, <1>2, SumUpdate
<1> QED BY <1>1, <1>3 DEF g

\* Sums add up.
LEMMA SumAdd ==
  ASSUME NEW S, IsFiniteSet(S), NEW f, NEW g, NEW h,
         \A x \in S : f[x] \in Int /\ g[x] \in Int /\ h[x] = f[x] + g[x]
  PROVE  SumFunctionOnSet(h, S) = SumFunctionOnSet(f, S) + SumFunctionOnSet(g, S)
<1> DEFINE G == {T \in SUBSET S :
                   SumFunctionOnSet(h, T) = SumFunctionOnSet(f, T) + SumFunctionOnSet(g, T)}
<1>1. {} \in G
  BY SumEmpty
<1>2. ASSUME NEW T \in SUBSET S, T # {}, \A x \in T : T \ {x} \in G
      PROVE  T \in G
  <2>1. PICK x \in T : TRUE
    BY <1>2
  <2>2. IsFiniteSet(T) /\ IsFiniteSet(T \ {x})
    BY FS_Subset
  <2>3. /\ SumFunctionOnSet(f, T) = f[x] + SumFunctionOnSet(f, T \ {x})
        /\ SumFunctionOnSet(g, T) = g[x] + SumFunctionOnSet(g, T \ {x})
        /\ SumFunctionOnSet(h, T) = h[x] + SumFunctionOnSet(h, T \ {x})
    BY <2>2, SumRemove
  <2>4. SumFunctionOnSet(f, T \ {x}) \in Int /\ SumFunctionOnSet(g, T \ {x}) \in Int
    BY <2>2, SumInt
  <2> QED BY <1>2, <2>3, <2>4
<1> HIDE DEF G
<1>3. S \in G
  <2>1. \A T \in SUBSET S : T # {} /\ (\A x \in T : T \ {x} \in G) => T \in G
    BY <1>2
  <2> QED BY <1>1, <2>1, SubsetInduction
<1> QED BY <1>3 DEF G

\* No summand of a sum of naturals is above it.
LEMMA SumAtLeast ==
  ASSUME NEW S, IsFiniteSet(S), NEW f, \A y \in S : f[y] \in Nat, NEW x \in S
  PROVE  f[x] <= SumFunctionOnSet(f, S)
<1>1. IsFiniteSet(S \ {x})
  BY FS_Subset
<1>2. SumFunctionOnSet(f, S) = f[x] + SumFunctionOnSet(f, S \ {x})
  BY SumRemove
<1>3. SumFunctionOnSet(f, S \ {x}) \in Nat
  BY <1>1, SumNat
<1> QED BY <1>2, <1>3

\* Zeros add up to 0.
LEMMA SumZero ==
  ASSUME NEW S, IsFiniteSet(S), NEW f, \A x \in S : f[x] = 0
  PROVE  SumFunctionOnSet(f, S) = 0
<1> DEFINE G == {T \in SUBSET S : SumFunctionOnSet(f, T) = 0}
<1>1. {} \in G
  BY SumEmpty
<1>2. ASSUME NEW T \in SUBSET S, T # {}, \A x \in T : T \ {x} \in G
      PROVE  T \in G
  <2>1. IsFiniteSet(T)
    BY FS_Subset
  <2>2. PICK x \in T : SumFunctionOnSet(f, T) = f[x] + SumFunctionOnSet(f, T \ {x})
    BY <1>2, <2>1, SumPick
  <2> QED BY <1>2, <2>2
<1> HIDE DEF G
<1>3. S \in G
  <2>1. \A T \in SUBSET S : T # {} /\ (\A x \in T : T \ {x} \in G) => T \in G
    BY <1>2
  <2> QED BY <1>1, <2>1, SubsetInduction
<1> QED BY <1>3 DEF G

-----------------------------------------------------------------------------
(* The invariant.                                                          *)

\* Nothing is booked on an order, or taken by a lesson, that is not made yet.
EmptyUntilMade ==
  /\ \A o \in Orders : order[o] = "none" => booked[o] = 0
  /\ \A b \in Bookings : lesson[b] = "none" => extra[b] = NoExtras

\* The order a meta names exists, and units and sales always name one.
MetaNamesAnOrder ==
  \A b \in Bookings :
    /\ units[b] > 0 \/ sale[b] => from[b] \in Orders
    /\ from[b] \in Orders => order[from[b]] # "none"

\* A booking that sold a package took no lesson of an extra block, so undoing
\* the sale loses none.
SalesTakeNothing == \A b \in Bookings : sale[b] => extra[b] = NoExtras

\* What the rows of a student satisfy.
Core ==
  /\ RowsOK
  /\ EmptyUntilMade
  /\ MetaNamesAnOrder
  /\ SalesTakeNothing
  /\ HeldUnitsAreBooked
  /\ ExtrasAccountedFor

Held == SumFunctionOnSet(units, Bookings)
Booked == SumFunctionOnSet(booked, Orders)
TakenOf(e) == [b \in Bookings |-> extra[b][e]]
HeldOf(e) == SumFunctionOnSet(TakenOf(e), Bookings)

\* A booking that took nothing from any block.
LEMMA NoExtrasType == NoExtras \in [Extras -> Nat] /\ \A e \in Extras : NoExtras[e] = 0
BY DEF NoExtras

\* 0 is the id of no order.
LEMMA ZeroIsNoOrder == 0 \notin Orders
BY IdsAssumption

\* What the bookings hold of one block is a number.
LEMMA HeldType ==
  ASSUME NEW x \in [Bookings -> [Extras -> Nat]], NEW e \in Extras
  PROVE  SumFunctionOnSet([b \in Bookings |-> x[b][e]], Bookings) \in Nat
<1> DEFINE f == [b \in Bookings |-> x[b][e]]
<1>1. \A b \in Bookings : f[b] \in Nat
  OBVIOUS
<1> HIDE DEF f
<1>2. SumFunctionOnSet(f, Bookings) \in Nat
  BY <1>1, RowsAssumption, SumNat
<1> QED BY <1>2 DEF f

\* So are all the totals.
LEMMA Totals ==
  ASSUME RowsOK
  PROVE  /\ Held \in Nat /\ Booked \in Nat
         /\ \A e \in Extras : HeldOf(e) \in Nat
<1>1. Held \in Nat /\ Booked \in Nat
  BY RowsAssumption, SumNat DEF RowsOK, Held, Booked
<1>2. \A e \in Extras : HeldOf(e) \in Nat
  BY HeldType DEF RowsOK, HeldOf, TakenOf
<1> QED BY <1>1, <1>2

\* A booking's meta is replaced.
LEMMA NewMeta ==
  ASSUME RowsOK, NEW b \in Bookings, NEW tu \in Nat, NEW x \in [Extras -> Nat],
         units' = [units EXCEPT ![b] = tu], extra' = [extra EXCEPT ![b] = x]
  PROVE  /\ Held' = Held + tu - units[b]
         /\ \A e \in Extras : HeldOf(e)' = HeldOf(e) + x[e] - extra[b][e]
<1>1. Held' = Held + tu - units[b]
  <2>1. units \in [Bookings -> Int] /\ tu \in Int
    BY DEF RowsOK
  <2> QED BY <2>1, RowsAssumption, SumExcept DEF Held
<1>2. ASSUME NEW e \in Extras
      PROVE  HeldOf(e)' = HeldOf(e) + x[e] - extra[b][e]
  <2> DEFINE f == [c \in Bookings |-> extra[c][e]]
             g == [c \in Bookings |-> extra'[c][e]]
  <2>1. /\ f[b] = extra[b][e] /\ f[b] \in Int
        /\ g[b] = x[e] /\ g[b] \in Int
    BY DEF RowsOK
  <2>2. \A c \in Bookings : f[c] \in Int /\ g[c] \in Int
    BY DEF RowsOK
  <2>3. HeldOf(e) = SumFunctionOnSet(f, Bookings) /\ HeldOf(e)' = SumFunctionOnSet(g, Bookings)
    BY DEF HeldOf, TakenOf
  <2> HIDE DEF f, g
  <2>4. \A c \in Bookings : c # b => g[c] = f[c]
    BY DEF RowsOK, f, g
  <2>5. IsFiniteSet(Bookings)
    BY RowsAssumption
  <2>6. SumFunctionOnSet(g, Bookings) = SumFunctionOnSet(f, Bookings) + g[b] - f[b]
    BY <2>2, <2>4, <2>5, SumUpdate
  <2> QED BY <2>1, <2>3, <2>6
<1> QED BY <1>1, <1>2

\* One balance changes.
LEMMA NewBalance ==
  ASSUME RowsOK, NEW o \in Orders, NEW n \in Nat, booked' = [booked EXCEPT ![o] = n]
  PROVE  Booked' = Booked + n - booked[o]
<1>1. booked \in [Orders -> Int] /\ n \in Int
  BY DEF RowsOK
<1> QED BY <1>1, RowsAssumption, SumExcept DEF Booked

\* The bookings are in their types, and b has added its units and extra lessons.
Remembers(b, tu, x) ==
  /\ lesson' \in [Bookings -> {"none", "open", "closed", "archived"}]
  /\ pkg' \in [Bookings -> Nat]
  /\ units' \in [Bookings -> Nat]
  /\ from' \in [Bookings -> Orders \cup {0}]
  /\ extra' \in [Bookings -> [Extras -> Nat]]
  /\ sale' \in [Bookings -> BOOLEAN]
  /\ \A c \in Bookings : lesson'[c] = "none" => extra'[c] = NoExtras
  /\ Held' = Held + tu - units[b]
  /\ \A e \in Extras : HeldOf(e)' = HeldOf(e) + x[e]

\* A booking of the given meta has its units and extra lessons, and no other.
LEMMA Opened ==
  ASSUME Core, NEW b \in Bookings, NEW tp \in Nat, NEW tu \in Nat,
         NEW o \in Orders \cup {0}, NEW x \in [Extras -> Nat], NEW s \in BOOLEAN,
         Open(b, tp, tu, o, x, s)
  PROVE  Remembers(b, tu, x)
<1>1. \A e \in Extras : extra[b][e] = 0
  BY NoExtrasType DEF Core, EmptyUntilMade, Open
<1>2. /\ Held' = Held + tu - units[b]
      /\ \A e \in Extras : HeldOf(e)' = HeldOf(e) + x[e] - extra[b][e]
  BY NewMeta DEF Core, Open
<1>3. \A e \in Extras : HeldOf(e) \in Nat
  BY Totals DEF Core
<1>4. \A e \in Extras : HeldOf(e)' = HeldOf(e) + x[e]
  BY <1>1, <1>2, <1>3
<1> QED BY <1>2, <1>4 DEF Remembers, Core, RowsOK, EmptyUntilMade, Open

\* A booking that forgets its meta holds nothing.
LEMMA Forgotten ==
  ASSUME Core, NEW b \in Bookings, ForgetMeta(b)
  PROVE  /\ pkg' \in [Bookings -> Nat]
         /\ units' \in [Bookings -> Nat]
         /\ from' \in [Bookings -> Orders \cup {0}]
         /\ extra' \in [Bookings -> [Extras -> Nat]]
         /\ sale' \in [Bookings -> BOOLEAN]
         /\ \A c \in Bookings : extra'[c] = NoExtras \/ extra'[c] = extra[c]
         /\ Held' = Held - units[b]
         /\ \A e \in Extras : HeldOf(e)' = HeldOf(e) - extra[b][e]
<1>1. /\ Held' = Held + 0 - units[b]
      /\ \A e \in Extras : HeldOf(e)' = HeldOf(e) + NoExtras[e] - extra[b][e]
  BY NewMeta, NoExtrasType DEF Core, ForgetMeta
<1>2. Held \in Nat /\ \A e \in Extras : HeldOf(e) \in Nat
  BY Totals DEF Core
<1>3. units[b] \in Nat /\ \A e \in Extras : extra[b][e] \in Nat
  BY DEF Core, RowsOK
<1>4. Held' = Held - units[b] /\ \A e \in Extras : HeldOf(e)' = HeldOf(e) - extra[b][e]
  BY <1>1, <1>2, <1>3, NoExtrasType
<1> QED BY <1>4, NoExtrasType DEF Core, RowsOK, ForgetMeta

\* What an extra block has lent to one booking it has lent at all.
LEMMA LentByBlock ==
  ASSUME Core, NEW b \in Bookings, NEW e \in Extras
  PROVE  extra[b][e] <= used[e]
<1> DEFINE f == TakenOf(e)
<1>1. \A c \in Bookings : f[c] \in Nat
  BY DEF Core, RowsOK, TakenOf
<1>2. f[b] = extra[b][e] /\ used[e] = SumFunctionOnSet(f, Bookings)
  BY DEF Core, ExtrasAccountedFor, TakenOf
<1> HIDE DEF f
<1> QED BY <1>1, <1>2, RowsAssumption, SumAtLeast

\* The two sums follow from what a step adds to each side.
LEMMA SumsKept ==
  ASSUME Core, RowsOK', NEW h \in Int, NEW k \in Int, h <= k, NEW x \in [Extras -> Int],
         Held' = Held + h, Booked' = Booked + k,
         \A e \in Extras : used'[e] = used[e] + x[e] /\ HeldOf(e)' = HeldOf(e) + x[e]
  PROVE  HeldUnitsAreBooked' /\ ExtrasAccountedFor'
<1>1. Held \in Nat /\ Booked \in Nat
  BY Totals DEF Core
<1>2. Held <= Booked /\ \A e \in Extras : used[e] = HeldOf(e)
  BY DEF Core, HeldUnitsAreBooked, ExtrasAccountedFor, Held, Booked, HeldOf, TakenOf
<1>3. Held + h <= Booked + k
  BY <1>1, <1>2
<1>4. HeldUnitsAreBooked'
  BY <1>3 DEF HeldUnitsAreBooked, Held, Booked
<1>5. \A e \in Extras : used'[e] = HeldOf(e)'
  BY <1>2
<1>6. ExtrasAccountedFor'
  BY <1>5 DEF ExtrasAccountedFor, HeldOf, TakenOf
<1> QED BY <1>4, <1>6

\* A step that changes neither the metas nor the extra blocks.
LEMMA SumsKeptByOrders ==
  ASSUME Core, RowsOK', UNCHANGED <<meta, used>>, NEW k \in Nat, Booked' = Booked + k
  PROVE  HeldUnitsAreBooked' /\ ExtrasAccountedFor'
<1> DEFINE x == [e \in Extras |-> 0]
<1>1. x \in [Extras -> Int] /\ \A e \in Extras : x[e] = 0
  OBVIOUS
<1>2. Held' = Held /\ \A e \in Extras : HeldOf(e)' = HeldOf(e)
  BY DEF meta, Held, HeldOf, TakenOf
<1>3. Held \in Nat /\ \A e \in Extras : HeldOf(e) \in Nat
  BY Totals DEF Core
<1>4. \A e \in Extras : used[e] \in Nat
  BY SizeAssumption DEF Core, RowsOK
<1> HIDE DEF x
<1>5. Held' = Held + 0
  BY <1>2, <1>3
<1>6. \A e \in Extras : used'[e] = used[e] + x[e] /\ HeldOf(e)' = HeldOf(e) + x[e]
  BY <1>1, <1>2, <1>3, <1>4
<1> QED BY <1>1, <1>5, <1>6, SumsKept

\* A new order starts with what is booked on it.
LEMMA Created ==
  ASSUME Core, NEW o \in Orders, NEW p \in Packages, NEW st \in ActiveStatuses,
         NEW inc \in Nat, NEW bkd \in Nat, Create(o, p, st, inc, bkd)
  PROVE  /\ order' \in [Orders -> ActiveStatuses \cup {"none", "cancelled"}]
         /\ item' \in [Orders -> Packages \cup {None}]
         /\ included' \in [Orders -> Nat]
         /\ booked' \in [Orders -> Nat]
         /\ \A q \in Orders : order'[q] # "none" => item'[q] \in Packages
         /\ \A q \in Orders : order'[q] = "none" => booked'[q] = 0
         /\ \A q \in Orders : order[q] # "none" => order'[q] # "none"
         /\ order'[o] # "none"
         /\ Booked' = Booked + bkd
<1>1. booked[o] = 0
  BY DEF Core, EmptyUntilMade, Create, NextOrder
<1>2. Booked' = Booked + bkd - booked[o]
  BY NewBalance DEF Core, Create
<1>3. Booked \in Nat
  BY Totals DEF Core
<1>4. Booked' = Booked + bkd
  BY <1>1, <1>2, <1>3
<1> QED BY <1>4 DEF Core, RowsOK, EmptyUntilMade, Create, ActiveStatuses

\* ensureActivePackageOrder puts a number on the balance it makes.
LEMMA EnsuredTotalType ==
  ASSUME Core, NEW p \in Packages
  PROVE  EnsuredTotal(p) \in Nat
BY PackagesAssumption DEF Core, RowsOK, EnsuredTotal

-----------------------------------------------------------------------------
(* The steps that write no meta.                                           *)

\* An order is set to paid, or stays as it is.
LEMMA PayKeeps ==
  ASSUME Core, NEW o \in Orders, NEW pays,
         order' = [order EXCEPT ![o] = IF pays THEN "paid" ELSE @],
         order[o] # "none",
         package' \in Packages \cup {None}, total' \in Nat, completed' \in Nat,
         UNCHANGED <<item, included, booked, extras, lesson, meta>>
  PROVE  Core'
<1> USE DEF meta, extras
<1>1. Booked' = Booked + 0
  BY Totals DEF Core, Booked
<1>2. RowsOK'
  BY DEF Core, RowsOK, ActiveStatuses
<1>3. EmptyUntilMade' /\ MetaNamesAnOrder' /\ SalesTakeNothing'
  BY DEF Core, RowsOK, EmptyUntilMade, MetaNamesAnOrder, SalesTakeNothing, NoExtras
<1>4. HeldUnitsAreBooked' /\ ExtrasAccountedFor'
  BY <1>1, <1>2, SumsKeptByOrders
<1> QED BY <1>2, <1>3, <1>4 DEF Core

\* An order is made, and no booking.
LEMMA CreateKeeps ==
  ASSUME Core, NEW o \in Orders, NEW p \in Packages, NEW st \in ActiveStatuses,
         NEW inc \in Nat, NEW bkd \in Nat, Create(o, p, st, inc, bkd),
         package' \in Packages \cup {None}, total' \in Nat, completed' \in Nat,
         UNCHANGED <<extras, lesson, meta>>
  PROVE  Core'
<1> USE DEF meta, extras
<1>1. /\ order' \in [Orders -> ActiveStatuses \cup {"none", "cancelled"}]
      /\ item' \in [Orders -> Packages \cup {None}]
      /\ included' \in [Orders -> Nat]
      /\ booked' \in [Orders -> Nat]
      /\ \A q \in Orders : order'[q] # "none" => item'[q] \in Packages
      /\ \A q \in Orders : order'[q] = "none" => booked'[q] = 0
      /\ \A q \in Orders : order[q] # "none" => order'[q] # "none"
      /\ Booked' = Booked + bkd
  BY Created
<1>2. RowsOK'
  BY <1>1 DEF Core, RowsOK
<1>3. EmptyUntilMade' /\ MetaNamesAnOrder' /\ SalesTakeNothing'
  BY <1>1 DEF Core, RowsOK, EmptyUntilMade, MetaNamesAnOrder, SalesTakeNothing, NoExtras
<1>4. HeldUnitsAreBooked' /\ ExtrasAccountedFor'
  BY <1>1, <1>2, SumsKeptByOrders
<1> QED BY <1>2, <1>3, <1>4 DEF Core

\* Steps that touch neither an order, nor a meta, nor what a block has lent.
LEMMA ProfileKeeps ==
  ASSUME Core, UNCHANGED <<orders, used, meta>>,
         package' \in Packages \cup {None}, total' \in Nat, completed' \in Nat,
         bought' \in [Extras -> BOOLEAN],
         lesson' \in [Bookings -> {"none", "open", "closed", "archived"}],
         \A b \in Bookings : lesson'[b] = "none" => lesson[b] = "none"
  PROVE  Core'
<1> USE DEF orders, meta
<1>1. RowsOK'
  BY DEF Core, RowsOK
<1>2. EmptyUntilMade' /\ MetaNamesAnOrder' /\ SalesTakeNothing'
  BY DEF Core, RowsOK, EmptyUntilMade, MetaNamesAnOrder, SalesTakeNothing, NoExtras
<1>3. HeldUnitsAreBooked' /\ ExtrasAccountedFor'
  BY DEF Core, HeldUnitsAreBooked, ExtrasAccountedFor
<1> QED BY <1>1, <1>2, <1>3 DEF Core

-----------------------------------------------------------------------------
(* The steps that open a booking.                                          *)

\* A booking that takes no lesson from an extra block: what it holds on an
\* order was booked there in the same step.
LEMMA OpenKeeps ==
  ASSUME Core, NEW b \in Bookings, NEW n \in Nat, NEW m \in Nat, n <= m,
         NEW o \in Orders \cup {0}, NEW s \in BOOLEAN,
         Open(b, n, n, o, NoExtras, s),
         n > 0 \/ s => o \in Orders,
         o \in Orders => order'[o] # "none",
         order' \in [Orders -> ActiveStatuses \cup {"none", "cancelled"}],
         item' \in [Orders -> Packages \cup {None}],
         included' \in [Orders -> Nat],
         booked' \in [Orders -> Nat],
         package' \in Packages \cup {None}, total' \in Nat, completed' \in Nat,
         \A q \in Orders : order'[q] # "none" => item'[q] \in Packages,
         \A q \in Orders : order'[q] = "none" => booked'[q] = 0,
         \A q \in Orders : order[q] # "none" => order'[q] # "none",
         Booked' = Booked + m,
         UNCHANGED extras
  PROVE  Core'
<1>1. /\ lesson' \in [Bookings -> {"none", "open", "closed", "archived"}]
      /\ pkg' \in [Bookings -> Nat]
      /\ units' \in [Bookings -> Nat]
      /\ from' \in [Bookings -> Orders \cup {0}]
      /\ extra' \in [Bookings -> [Extras -> Nat]]
      /\ sale' \in [Bookings -> BOOLEAN]
      /\ \A c \in Bookings : lesson'[c] = "none" => extra'[c] = NoExtras
      /\ Held' = Held + n - units[b]
      /\ \A e \in Extras : HeldOf(e)' = HeldOf(e) + NoExtras[e]
  <2>1. Remembers(b, n, NoExtras)
    BY NoExtrasType, Opened
  <2> QED BY <2>1 DEF Remembers
<1>2. RowsOK'
  BY <1>1 DEF Core, RowsOK, extras
<1>3. EmptyUntilMade'
  BY <1>1 DEF EmptyUntilMade, NoExtras
<1>4. MetaNamesAnOrder'
  BY <1>1 DEF Core, RowsOK, MetaNamesAnOrder, Open
<1>5. SalesTakeNothing'
  BY DEF Core, RowsOK, SalesTakeNothing, Open, NoExtras
<1>6. HeldUnitsAreBooked' /\ ExtrasAccountedFor'
  <2>1. units[b] \in Nat /\ Held \in Nat
    BY Totals DEF Core, RowsOK
  <2> DEFINE h == n - units[b]
  <2>2. h \in Int /\ h <= m /\ m \in Int /\ Held' = Held + h
    BY <1>1, <2>1
  <2>3. NoExtras \in [Extras -> Int]
    BY NoExtrasType
  <2>4. \A e \in Extras : used'[e] = used[e] + NoExtras[e]
    BY SizeAssumption, NoExtrasType DEF Core, RowsOK, extras
  <2> HIDE DEF h
  <2> QED BY <1>1, <1>2, <2>2, <2>3, <2>4, SumsKept
<1> QED BY <1>2, <1>3, <1>4, <1>5, <1>6 DEF Core

\* consumePackageLessonCreditsInTx
LEMMA ConsumeKeeps ==
  ASSUME Core, NEW b \in Bookings, NEW n \in Nat \ {0}, NEW o \in Orders, Consume(b, n, o)
  PROVE  Core'
<1>1. booked[o] \in Nat /\ booked[o] + n \in Nat /\ included[o] \in Nat /\ order[o] # "none"
  BY DEF Core, RowsOK, Consume, Active, ActiveStatuses
<1>2. Booked' = Booked + n
  <2>1. Booked' = Booked + (booked[o] + n) - booked[o]
    BY <1>1, NewBalance DEF Core, Consume
  <2>2. Booked \in Nat
    BY Totals DEF Core
  <2> QED BY <1>1, <2>1, <2>2
<1>3. /\ order' \in [Orders -> ActiveStatuses \cup {"none", "cancelled"}]
      /\ item' \in [Orders -> Packages \cup {None}]
      /\ included' \in [Orders -> Nat]
      /\ booked' \in [Orders -> Nat]
      /\ \A q \in Orders : order'[q] # "none" => item'[q] \in Packages
      /\ \A q \in Orders : order'[q] = "none" => booked'[q] = 0
      /\ \A q \in Orders : order[q] # "none" => order'[q] # "none"
      /\ order'[o] # "none"
  BY <1>1 DEF Core, RowsOK, EmptyUntilMade, Consume
<1>4. /\ package' \in Packages \cup {None} /\ total' \in Nat /\ completed' \in Nat
      /\ Open(b, n, n, o, NoExtras, FALSE)
      /\ UNCHANGED extras
  BY <1>1 DEF Core, RowsOK, Consume, SyncProfile
<1>5. n \in Nat /\ n <= n /\ FALSE \in BOOLEAN /\ o \in Orders \cup {0}
  OBVIOUS
<1> QED BY <1>2, <1>3, <1>4, <1>5, OpenKeeps

\* The same on an order it makes.
LEMMA ConsumeNewKeeps ==
  ASSUME Core, NEW b \in Bookings, NEW n \in Nat, NEW m \in Nat, n <= m,
         NEW o \in Orders, NEW p \in Packages, NEW inc \in Nat, NEW s \in BOOLEAN,
         Create(o, p, "active", inc, m), Open(b, n, n, o, NoExtras, s),
         package' \in Packages \cup {None}, total' \in Nat, completed' \in Nat,
         UNCHANGED extras
  PROVE  Core'
<1>1. "active" \in ActiveStatuses
  BY DEF ActiveStatuses
<1>2. /\ order' \in [Orders -> ActiveStatuses \cup {"none", "cancelled"}]
      /\ item' \in [Orders -> Packages \cup {None}]
      /\ included' \in [Orders -> Nat]
      /\ booked' \in [Orders -> Nat]
      /\ \A q \in Orders : order'[q] # "none" => item'[q] \in Packages
      /\ \A q \in Orders : order'[q] = "none" => booked'[q] = 0
      /\ \A q \in Orders : order[q] # "none" => order'[q] # "none"
      /\ order'[o] # "none"
      /\ Booked' = Booked + m
  BY <1>1, Created
<1> QED BY <1>2, OpenKeeps

\* A package is sold on an order that is there.
LEMMA SellKeeps ==
  ASSUME Core, NEW b \in Bookings, SellPackage(b)
  PROVE  Core'
<1> USE DEF orders, profile
<1>1. PICK o \in Orders : order[o] # "none" /\ Open(b, 0, 0, o, NoExtras, TRUE)
  BY DEF SellPackage
<1>2. /\ order' \in [Orders -> ActiveStatuses \cup {"none", "cancelled"}]
      /\ item' \in [Orders -> Packages \cup {None}]
      /\ included' \in [Orders -> Nat]
      /\ booked' \in [Orders -> Nat]
      /\ \A q \in Orders : order'[q] # "none" => item'[q] \in Packages
      /\ \A q \in Orders : order'[q] = "none" => booked'[q] = 0
      /\ \A q \in Orders : order[q] # "none" => order'[q] # "none"
      /\ order'[o] # "none"
      /\ package' \in Packages \cup {None} /\ total' \in Nat /\ completed' \in Nat
      /\ UNCHANGED extras
  BY <1>1 DEF Core, RowsOK, EmptyUntilMade, SellPackage
<1>3. Booked' = Booked + 0
  BY Totals DEF Core, Booked, SellPackage
<1>4. TRUE \in BOOLEAN /\ 0 \in Nat /\ 0 <= 0 /\ o \in Orders \cup {0}
  OBVIOUS
<1> HIDE DEF orders, profile
<1> QED BY <1>1, <1>2, <1>3, <1>4, OpenKeeps

\* Without credits: a booking to be paid.
LEMMA BookCashKeeps ==
  ASSUME Core, NEW b \in Bookings, NEW n \in Nat \ {0}, StudentBookCash(b, n)
  PROVE  Core'
<1> USE DEF orders, profile
<1>1. /\ order' \in [Orders -> ActiveStatuses \cup {"none", "cancelled"}]
      /\ item' \in [Orders -> Packages \cup {None}]
      /\ included' \in [Orders -> Nat]
      /\ booked' \in [Orders -> Nat]
      /\ \A q \in Orders : order'[q] # "none" => item'[q] \in Packages
      /\ \A q \in Orders : order'[q] = "none" => booked'[q] = 0
      /\ \A q \in Orders : order[q] # "none" => order'[q] # "none"
      /\ package' \in Packages \cup {None} /\ total' \in Nat /\ completed' \in Nat
  BY DEF Core, RowsOK, EmptyUntilMade, StudentBookCash
<1>2. Booked' = Booked + 0
  BY Totals DEF Core, Booked, StudentBookCash
<1>3. Open(b, 0, 0, 0, NoExtras, FALSE) /\ UNCHANGED extras
  BY DEF StudentBookCash
<1>4. /\ 0 \in Nat /\ 0 <= 0 /\ ~(0 > 0) /\ FALSE \in BOOLEAN
      /\ 0 \in Orders \cup {0} /\ 0 \notin Orders
  BY ZeroIsNoOrder
<1> HIDE DEF orders, profile
<1> QED BY <1>1, <1>2, <1>3, <1>4, OpenKeeps

\* What is taken from each order is booked on it.
Takes(take) == booked' = [q \in Orders |-> booked[q] + take[q]]

\* What is taken from each block is used there.
Lends(x) == used' = [e \in Extras |-> used[e] + x[e]]

\* consumeSlots: what is taken from each order is booked on it.
LEMMA TakenIsBooked ==
  ASSUME RowsOK, NEW take \in [Orders -> Nat], Takes(take)
  PROVE  Booked' = Booked + SumFunctionOnSet(take, Orders)
<1> DEFINE f == booked
           h == [q \in Orders |-> booked[q] + take[q]]
<1>1. \A q \in Orders : f[q] \in Int /\ take[q] \in Int /\ h[q] = f[q] + take[q]
  BY DEF RowsOK
<1>2. Booked = SumFunctionOnSet(f, Orders) /\ Booked' = SumFunctionOnSet(h, Orders)
  BY DEF Booked, Takes
<1> HIDE DEF f, h
<1>3. SumFunctionOnSet(h, Orders) = SumFunctionOnSet(f, Orders) + SumFunctionOnSet(take, Orders)
  BY <1>1, RowsAssumption, SumAdd
<1> QED BY <1>2, <1>3

\* consumeSlots and the booking that remembers what it took.
LEMMA TakingKeeps ==
  ASSUME Core, NEW b \in Bookings, NEW n \in Nat,
         NEW take \in [Orders -> Nat], NEW taken \in Nat, NEW o \in Orders \cup {0},
         NEW own \in Nat, NEW tp \in Nat, NEW rest, NEW x \in [Extras -> Nat],
         LastTaken(take, o), TakesFromOrders(n, take, taken), TakesFromExtras(rest, x),
         Takes(take),
         completed' = completed + own,
         Lends(x),
         Open(b, tp, taken, o, x, FALSE),
         UNCHANGED <<order, item, included, package, total, bought>>
  PROVE  Core'
<1>1. /\ lesson' \in [Bookings -> {"none", "open", "closed", "archived"}]
      /\ pkg' \in [Bookings -> Nat]
      /\ units' \in [Bookings -> Nat]
      /\ from' \in [Bookings -> Orders \cup {0}]
      /\ extra' \in [Bookings -> [Extras -> Nat]]
      /\ sale' \in [Bookings -> BOOLEAN]
      /\ \A c \in Bookings : lesson'[c] = "none" => extra'[c] = NoExtras
      /\ Held' = Held + taken - units[b]
      /\ \A e \in Extras : HeldOf(e)' = HeldOf(e) + x[e]
  <2>1. FALSE \in BOOLEAN
    OBVIOUS
  <2>2. Remembers(b, taken, x)
    BY <2>1, Opened
  <2> QED BY <2>2 DEF Remembers
<1>2. /\ booked' \in [Orders -> Nat]
      /\ \A q \in Orders : order'[q] = "none" => booked'[q] = 0
  <2>1. \A q \in Orders : order[q] = "none" => take[q] = 0
    BY DEF TakesFromOrders, Active, ActiveStatuses
  <2> QED BY <2>1 DEF Core, RowsOK, EmptyUntilMade, Takes
<1>3. used' \in [Extras -> 0 .. ExtraLessons]
  <2>1. ASSUME NEW e \in Extras
        PROVE  used[e] + x[e] \in 0 .. ExtraLessons
    <3>1. x[e] <= ExtraRoom(e) /\ x[e] \in Nat
      BY DEF TakesFromExtras
    <3>2. used[e] \in 0 .. ExtraLessons /\ ExtraLessons \in Nat
      BY SizeAssumption DEF Core, RowsOK
    <3> QED BY <3>1, <3>2 DEF ExtraRoom, Minus
  <2> QED BY <2>1 DEF Lends
<1>4. RowsOK'
  BY <1>1, <1>2, <1>3 DEF Core, RowsOK
<1>5. EmptyUntilMade'
  BY <1>1, <1>2 DEF EmptyUntilMade, NoExtras
<1>6. MetaNamesAnOrder'
  <2>1. taken > 0 => o \in Orders
    <3>1. taken = SumFunctionOnSet(take, Orders)
      BY DEF TakesFromOrders
    <3>2. (\A q \in Orders : take[q] = 0) => taken = 0
      BY <3>1, RowsAssumption, SumZero
    <3> QED BY <3>2 DEF LastTaken
  <2>2. o \in Orders => order[o] # "none"
    BY ZeroIsNoOrder DEF LastTaken, TakesFromOrders, Active, ActiveStatuses
  <2> QED BY <2>1, <2>2 DEF Core, RowsOK, MetaNamesAnOrder, Open
<1>7. SalesTakeNothing'
  BY DEF Core, RowsOK, SalesTakeNothing, Open, NoExtras
<1>8. HeldUnitsAreBooked' /\ ExtrasAccountedFor'
  <2>1. Booked' = Booked + taken
    BY TakenIsBooked DEF Core, TakesFromOrders
  <2>2. units[b] \in Nat /\ Held \in Nat
    BY Totals DEF Core, RowsOK
  <2> DEFINE h == taken - units[b]
  <2>3. h \in Int /\ h <= taken /\ taken \in Int /\ Held' = Held + h
    BY <1>1, <2>2
  <2>4. x \in [Extras -> Int] /\ \A e \in Extras : used'[e] = used[e] + x[e]
    BY DEF Lends
  <2> HIDE DEF h
  <2> QED BY <1>1, <1>4, <2>1, <2>3, <2>4, SumsKept
<1> QED BY <1>4, <1>5, <1>6, <1>7, <1>8 DEF Core

\* A student books with credits.
LEMMA StudentBookKeeps ==
  ASSUME Core, NEW b \in Bookings, NEW n \in Nat \ {0}, StudentBook(b, n)
  PROVE  Core'
<1>1. PICK take \in [Orders -> 0 .. n], taken \in 0 .. n, o \in Orders \cup {0} :
        /\ LastTaken(take, o)
        /\ TakesFromOrders(n, take, taken)
        /\ LET own == Least(n - taken, ProfileRoom) IN
           \E x \in [Extras -> 0 .. n] :
             /\ TakesFromExtras(n - taken - own, x)
             /\ booked' = [q \in Orders |-> booked[q] + take[q]]
             /\ completed' = completed + own
             /\ used' = [e \in Extras |-> used[e] + x[e]]
             /\ Open(b, taken + own, taken, o, x, FALSE)
  BY DEF StudentBook
<1> DEFINE own == Least(n - taken, ProfileRoom)
           tp == taken + own
           rest == n - taken - own
<1>2. PICK x \in [Extras -> 0 .. n] :
        /\ TakesFromExtras(rest, x)
        /\ Takes(take)
        /\ completed' = completed + own
        /\ Lends(x)
        /\ Open(b, tp, taken, o, x, FALSE)
  BY <1>1 DEF Takes, Lends
<1>3. UNCHANGED <<order, item, included, package, total, bought>>
  BY DEF StudentBook
<1>4. own \in Nat
  <2>1. ProfileRoom \in Nat
    BY DEF Core, RowsOK, ProfileRoom, Minus
  <2> QED BY <2>1 DEF Least
<1>5. tp \in Nat /\ n \in Nat /\ taken \in Nat
  BY <1>4
<1>6. take \in [Orders -> Nat] /\ x \in [Extras -> Nat]
  OBVIOUS
<1> HIDE DEF own, tp, rest
<1> QED BY <1>1, <1>2, <1>3, <1>4, <1>5, <1>6, TakingKeeps

-----------------------------------------------------------------------------
(* The steps that close a booking.                                         *)

\* The metas after one is forgotten still name orders that exist.
LEMMA ForgettingKeeps ==
  ASSUME Core, NEW b \in Bookings, ForgetMeta(b),
         \A q \in Orders : order[q] # "none" => order'[q] # "none",
         \A q \in Orders : order'[q] = "none" => booked'[q] = 0,
         \A c \in Bookings : lesson'[c] = "none" => lesson[c] = "none"
  PROVE  EmptyUntilMade' /\ MetaNamesAnOrder' /\ SalesTakeNothing'
<1>1. \A c \in Bookings : extra'[c] = NoExtras \/ extra'[c] = extra[c]
  BY Forgotten
<1>2. EmptyUntilMade'
  BY <1>1 DEF Core, EmptyUntilMade, NoExtras
<1>3. MetaNamesAnOrder'
  BY ZeroIsNoOrder DEF Core, RowsOK, MetaNamesAnOrder, ForgetMeta
<1>4. SalesTakeNothing'
  BY DEF Core, RowsOK, SalesTakeNothing, ForgetMeta, NoExtras
<1> QED BY <1>2, <1>3, <1>4

\* The balance of a closed booking's order: it loses at most what the booking held.
LEMMA Restored ==
  ASSUME Core, NEW b \in Bookings, Restore(b)
  PROVE  /\ booked' \in [Orders -> Nat] /\ total' \in Nat \cup {total} /\ completed' \in Nat
         /\ \A q \in Orders : booked[q] = 0 => booked'[q] = 0
         /\ \E k \in Int : -units[b] <= k /\ Booked' = Booked + k
<1>1. Booked \in Nat /\ units[b] \in Nat /\ pkg[b] \in Nat /\ completed \in Nat
  BY Totals DEF Core, RowsOK
<1>2. CASE /\ units[b] > 0
           /\ booked' = [booked EXCEPT ![from[b]] = GivenBack(b)]
           /\ SyncProfile(included[from[b]], GivenBack(b))
  <2> DEFINE o == from[b]
             n == GivenBack(b)
             k == n - booked[o]
  <2>1. o \in Orders
    BY <1>2 DEF Core, MetaNamesAnOrder
  <2>2. booked[o] \in Nat /\ included[o] \in Nat
    BY <2>1 DEF Core, RowsOK
  <2>3. n \in Nat /\ k \in Int /\ -units[b] <= k /\ (booked[o] = 0 => n = 0)
    BY <1>1, <2>2 DEF GivenBack, Minus
  <2>4. booked' = [booked EXCEPT ![o] = n] /\ total' = included[o] /\ completed' = n
    BY <1>2 DEF SyncProfile
  <2> HIDE DEF o, n
  <2>5. Booked' = Booked + n - booked[o]
    BY <2>1, <2>3, <2>4, NewBalance DEF Core
  <2>6. Booked' = Booked + k
    BY <1>1, <2>2, <2>3, <2>5
  <2>7. /\ booked' \in [Orders -> Nat]
        /\ \A q \in Orders : booked[q] = 0 => booked'[q] = 0
    BY <2>1, <2>3, <2>4 DEF Core, RowsOK
  <2> QED BY <2>2, <2>3, <2>4, <2>6, <2>7
<1>3. CASE /\ units[b] = 0
           /\ completed' = Minus(completed, pkg[b])
           /\ UNCHANGED <<booked, total>>
  <2>1. Booked' = Booked + 0 /\ -units[b] <= 0
    BY <1>1, <1>3 DEF Booked
  <2>2. completed' \in Nat
    BY <1>1, <1>3 DEF Minus
  <2> QED BY <1>3, <2>1, <2>2 DEF Core, RowsOK
<1> QED BY <1>2, <1>3 DEF Restore

\* finalizePracticalCancellationInTx
LEMMA FinalizeKeeps ==
  ASSUME Core, NEW b \in Bookings, NEW st \in {"closed", "archived"}, Finalize(b, st),
         UNCHANGED <<order, item, included, package, bought>>
  PROVE  Core'
<1>1. /\ booked' \in [Orders -> Nat] /\ total' \in Nat /\ completed' \in Nat
      /\ \A q \in Orders : booked[q] = 0 => booked'[q] = 0
      /\ \E k \in Int : -units[b] <= k /\ Booked' = Booked + k
  BY Restored DEF Core, RowsOK, Finalize
<1>2. /\ pkg' \in [Bookings -> Nat]
      /\ units' \in [Bookings -> Nat]
      /\ from' \in [Bookings -> Orders \cup {0}]
      /\ extra' \in [Bookings -> [Extras -> Nat]]
      /\ sale' \in [Bookings -> BOOLEAN]
      /\ Held' = Held - units[b]
      /\ \A e \in Extras : HeldOf(e)' = HeldOf(e) - extra[b][e]
  BY Forgotten DEF Finalize
<1>3. /\ lesson' \in [Bookings -> {"none", "open", "closed", "archived"}]
      /\ \A c \in Bookings : lesson'[c] = "none" => lesson[c] = "none"
  BY DEF Core, RowsOK, Finalize
<1>4. /\ \A e \in Extras : used'[e] = used[e] - extra[b][e]
      /\ used' \in [Extras -> 0 .. ExtraLessons]
  <2>1. ASSUME NEW e \in Extras
        PROVE  /\ Minus(used[e], extra[b][e]) = used[e] - extra[b][e]
               /\ used[e] - extra[b][e] \in 0 .. ExtraLessons
    <3>1. used[e] \in 0 .. ExtraLessons /\ extra[b][e] \in Nat /\ ExtraLessons \in Nat
      BY SizeAssumption DEF Core, RowsOK
    <3>2. extra[b][e] <= used[e]
      BY LentByBlock
    <3> QED BY <3>1, <3>2 DEF Minus
  <2> QED BY <2>1 DEF Finalize, Restore
<1>5. RowsOK'
  BY <1>1, <1>2, <1>3, <1>4 DEF Core, RowsOK
<1>6. EmptyUntilMade' /\ MetaNamesAnOrder' /\ SalesTakeNothing'
  <2>1. \A q \in Orders : order'[q] = "none" => booked'[q] = 0
    BY <1>1 DEF Core, EmptyUntilMade
  <2> QED BY <1>3, <2>1, ForgettingKeeps DEF Finalize
<1>7. HeldUnitsAreBooked' /\ ExtrasAccountedFor'
  <2> DEFINE h == -units[b]
             x == [e \in Extras |-> -extra[b][e]]
  <2>1. h \in Int /\ Held' = Held + h
    BY <1>2, Totals DEF Core, RowsOK
  <2>2. PICK k \in Int : h <= k /\ Booked' = Booked + k
    BY <1>1
  <2>3. x \in [Extras -> Int] /\ \A e \in Extras : x[e] = -extra[b][e]
    BY DEF Core, RowsOK
  <2> HIDE DEF h, x
  <2>4. \A e \in Extras : used'[e] = used[e] + x[e] /\ HeldOf(e)' = HeldOf(e) + x[e]
    <3>1. \A e \in Extras : used[e] \in Nat /\ HeldOf(e) \in Nat /\ extra[b][e] \in Nat
      BY Totals, SizeAssumption DEF Core, RowsOK
    <3> QED BY <1>2, <1>4, <2>3, <3>1
  <2> QED BY <1>5, <2>1, <2>2, <2>3, <2>4, SumsKept
<1> QED BY <1>5, <1>6, <1>7 DEF Core

\* An archived sale: its booking took no lesson, so nothing is given back.
LEMMA UndoSaleKeeps ==
  ASSUME Core, NEW b \in Bookings, sale[b],
         order' = [order EXCEPT ![from[b]] = "cancelled"],
         package' \in Packages \cup {None}, total' \in Nat, completed' \in Nat,
         UNCHANGED <<item, included, booked, extras>>,
         ForgetMeta(b) \/ UNCHANGED meta,
         lesson' = [lesson EXCEPT ![b] = "archived"]
  PROVE  Core'
<1>1. /\ order' \in [Orders -> ActiveStatuses \cup {"none", "cancelled"}]
      /\ package' \in Packages \cup {None} /\ total' \in Nat /\ completed' \in Nat
      /\ \A q \in Orders : order'[q] = "none" <=> order[q] = "none"
  BY DEF Core, RowsOK, MetaNamesAnOrder
<1>2. UNCHANGED <<item, included, booked>>
  OBVIOUS
<1>3. /\ lesson' \in [Bookings -> {"none", "open", "closed", "archived"}]
      /\ \A c \in Bookings : lesson'[c] = "none" => lesson[c] = "none"
  BY DEF Core, RowsOK
<1>4. \A e \in Extras : extra[b][e] = 0
  BY NoExtrasType DEF Core, SalesTakeNothing
<1>5. Booked' = Booked + 0 /\ Held \in Nat /\ units[b] \in Nat /\ \A e \in Extras : HeldOf(e) \in Nat
  BY <1>2, Totals DEF Core, RowsOK, Booked
<1>6. \A q \in Orders : order'[q] = "none" => booked'[q] = 0
  BY <1>1, <1>2 DEF Core, EmptyUntilMade
<1>7. CASE ForgetMeta(b)
  <2>1. /\ pkg' \in [Bookings -> Nat]
        /\ units' \in [Bookings -> Nat]
        /\ from' \in [Bookings -> Orders \cup {0}]
        /\ extra' \in [Bookings -> [Extras -> Nat]]
        /\ sale' \in [Bookings -> BOOLEAN]
        /\ Held' = Held - units[b]
        /\ \A e \in Extras : HeldOf(e)' = HeldOf(e) - extra[b][e]
    BY <1>7, Forgotten
  <2>2. RowsOK'
    BY <1>1, <1>2, <1>3, <2>1 DEF Core, RowsOK, extras
  <2>3. EmptyUntilMade' /\ MetaNamesAnOrder' /\ SalesTakeNothing'
    BY <1>1, <1>3, <1>6, <1>7, ForgettingKeeps
  <2>4. HeldUnitsAreBooked' /\ ExtrasAccountedFor'
    <3> DEFINE h == -units[b]
    <3>1. h \in Int /\ h <= 0 /\ Held' = Held + h
      BY <1>5, <2>1
    <3>2. /\ NoExtras \in [Extras -> Int]
          /\ \A e \in Extras : used'[e] = used[e] + NoExtras[e] /\ HeldOf(e)' = HeldOf(e) + NoExtras[e]
      BY <1>4, <1>5, <2>1, NoExtrasType, SizeAssumption DEF Core, RowsOK, extras
    <3>3. 0 \in Int /\ Booked' = Booked + 0
      BY <1>5
    <3> HIDE DEF h
    <3> QED BY <2>2, <3>1, <3>2, <3>3, SumsKept
  <2> QED BY <2>2, <2>3, <2>4 DEF Core
<1>8. CASE UNCHANGED meta
  <2>1. RowsOK'
    BY <1>1, <1>2, <1>3, <1>8 DEF Core, RowsOK, extras, meta
  <2>2. EmptyUntilMade' /\ MetaNamesAnOrder' /\ SalesTakeNothing'
    BY <1>1, <1>3, <1>6, <1>8
       DEF Core, RowsOK, EmptyUntilMade, MetaNamesAnOrder, SalesTakeNothing, NoExtras, meta
  <2>3. HeldUnitsAreBooked' /\ ExtrasAccountedFor'
    BY <1>5, <1>8, <2>1, SumsKeptByOrders DEF extras
  <2> QED BY <2>1, <2>2, <2>3 DEF Core
<1> QED BY <1>7, <1>8

-----------------------------------------------------------------------------
(* What the requests remember.                                             *)

Acts == {"idle", "done", "name", "ensure", "make", "sell"} \cup Assigning \cup Archiving

\* A request about to do a by what s says: the order it found is there and is of
\* the package it will write, and the sale it undoes is one, not archived yet.
Sound(a, s) ==
  /\ a \in Assigning \cup {"name", "ensure", "make", "sell"} => s.package \in Packages
  /\ a \in Assigning \cup {"name", "detach"} /\ s.order # 0 =>
       order[s.order] # "none" /\ item[s.order] = s.package
  /\ a \in Assigning /\ s.pays => a = "buy"
  /\ a = "name" => s.order # 0
  /\ a = "detach" => /\ s.order # from[s.booking] /\ "package" \notin s.right
                     /\ s.order = 0 => s.package = None
  /\ a \in Archiving =>
       s.booking \in Bookings /\ sale[s.booking] /\ lesson[s.booking] \in {"open", "closed"}

RequestsSound == \A r \in Requests : Sound(at[r], seen[r])

\* The lock on the booking keeps every other archive out.
OneArchiveEach ==
  \A r, q \in Requests :
    at[r] \in Archiving /\ at[q] \in Archiving /\ seen[r].booking = seen[q].booking => r = q

Seeing == RequestsOK /\ RequestsSound /\ OneArchiveEach

IInv == Core /\ Seeing

\* A step that makes orders but loses none.
Grows == \A o \in Orders : order[o] # "none" => order'[o] # "none" /\ item'[o] = item[o]

\* A step that leaves a booking alone.
Spares(b) == sale'[b] = sale[b] /\ from'[b] = from[b] /\ lesson'[b] = lesson[b]

\* What a request works by stays sound while others step.
LEMMA SoundStays ==
  ASSUME NEW a, NEW s \in Sights, Sound(a, s), Grows,
         a \in Archiving => Spares(s.booking)
  PROVE  Sound(a, s)'
<1>1. s.order \in Orders \cup {0}
  BY DEF Sights
<1>2. a = "detach" => a \in Archiving
  BY DEF Archiving
<1> QED BY <1>1, <1>2 DEF Sound, Grows, Spares

\* A step of no request.
LEMMA UntouchedRequests ==
  ASSUME IInv, UNCHANGED requests, Grows, \A b \in Bookings : Locked(b) => Spares(b)
  PROVE  Seeing'
<1> USE DEF requests
<1>1. RequestsOK' /\ OneArchiveEach'
  BY DEF IInv, Seeing, RequestsOK, OneArchiveEach
<1>2. ASSUME NEW r \in Requests
      PROVE  Sound(at[r], seen[r])'
  <2>1. PICK a, s : a = at[r] /\ s = seen[r]
    OBVIOUS
  <2>2. Sound(a, s) /\ s \in Sights
    BY <2>1 DEF IInv, Seeing, RequestsOK, RequestsSound
  <2>3. a \in Archiving => Spares(s.booking)
    BY <2>1, <2>2 DEF Sound, Locked
  <2>4. Sound(a, s)'
    BY <2>2, <2>3, SoundStays
  <2>5. a = at'[r] /\ s = seen'[r]
    BY <2>1
  <2> QED BY <2>4, <2>5 DEF Sound
<1> QED BY <1>1, <1>2 DEF Seeing, RequestsSound

\* A step of request r, which goes on to a by what s says.
LEMMA TurnKeeps ==
  ASSUME IInv, NEW r \in Requests, NEW a \in Acts, NEW s \in Sights, Turn(r, a, s),
         Grows, Sound(a, s)',
         \A q \in Requests \ {r} : at[q] \in Archiving => Spares(seen[q].booking),
         a \in Archiving => ~Locked(s.booking)
  PROVE  Seeing'
<1>1. /\ at[r] \in Acts /\ at'[r] = a /\ seen'[r] = s
      /\ \A q \in Requests \ {r} : at'[q] = at[q] /\ seen'[q] = seen[q]
  BY DEF IInv, Seeing, RequestsOK, Turn, Acts
<1>2. RequestsOK'
  BY DEF IInv, Seeing, RequestsOK, Turn, Acts
<1>3. OneArchiveEach'
  <2>1. SUFFICES ASSUME NEW p \in Requests, NEW q \in Requests,
                        at'[p] \in Archiving, at'[q] \in Archiving,
                        seen'[p].booking = seen'[q].booking
                 PROVE  p = q
    BY DEF OneArchiveEach
  <2>2. ~(p = r /\ q # r) /\ ~(q = r /\ p # r)
    BY <1>1, <2>1 DEF Locked
  <2> QED BY <1>1, <2>1, <2>2 DEF IInv, Seeing, OneArchiveEach
<1>4. ASSUME NEW q \in Requests
      PROVE  Sound(at[q], seen[q])'
  <2>1. CASE q = r
    BY <1>1, <2>1 DEF Sound
  <2>2. CASE q # r
    <3>1. PICK c, t : c = at[q] /\ t = seen[q]
      OBVIOUS
    <3>2. Sound(c, t) /\ t \in Sights /\ (c \in Archiving => Spares(t.booking))
      BY <2>2, <3>1 DEF IInv, Seeing, RequestsOK, RequestsSound
    <3>3. Sound(c, t)'
      BY <3>2, SoundStays
    <3>4. c = at'[q] /\ t = seen'[q]
      BY <1>1, <2>2, <3>1
    <3> QED BY <3>3, <3>4 DEF Sound
  <2> QED BY <2>1, <2>2
<1> QED BY <1>2, <1>3, <1>4 DEF Seeing, RequestsSound

\* A request that is through.
LEMMA DoneKeeps ==
  ASSUME IInv, NEW r \in Requests, Done(r), Grows,
         \A q \in Requests \ {r} : at[q] \in Archiving => Spares(seen[q].booking)
  PROVE  Seeing'
<1>1. "done" \in Acts /\ "done" \notin Archiving /\ Nothing \in Sights
  BY DEF Acts, Archiving, Sights, Nothing
<1>2. Sound("done", Nothing)'
  BY DEF Sound, Assigning, Archiving
<1> QED BY <1>1, <1>2, TurnKeeps DEF Done

\* The locked bookings are those that are there, so none that is opened.
LEMMA OpenSpares ==
  ASSUME IInv, NEW b \in Bookings, NEW tp, NEW tu, NEW o, NEW x, NEW s, Open(b, tp, tu, o, x, s)
  PROVE  /\ \A c \in Bookings : Locked(c) => Spares(c)
         /\ \A q \in Requests : at[q] \in Archiving => Spares(seen[q].booking)
<1>1. ASSUME NEW q \in Requests, at[q] \in Archiving
      PROVE  Spares(seen[q].booking)
  <2>1. PICK a, t : a = at[q] /\ t = seen[q]
    OBVIOUS
  <2>2. Sound(a, t)
    BY <2>1 DEF IInv, Seeing, RequestsSound
  <2>3. t.booking \in Bookings /\ t.booking # b
    BY <1>1, <2>1, <2>2 DEF Sound, Open
  <2>4. Spares(t.booking)
    BY <2>3 DEF Core, RowsOK, IInv, Open, Spares
  <2> QED BY <2>1, <2>4
<1> QED BY <1>1 DEF Locked

\* A new order is added to those that are there.
LEMMA CreateGrows ==
  ASSUME RowsOK, NEW o \in Orders, NEW p, NEW st \in ActiveStatuses, NEW inc, NEW bkd,
         Create(o, p, st, inc, bkd)
  PROVE  Grows
BY DEF RowsOK, Create, NextOrder, Grows, ActiveStatuses

-----------------------------------------------------------------------------
(* The requests.                                                           *)

\* What a request writes into the profile is in the columns' types.
LEMMA ProfileTyped ==
  ASSUME IInv, NEW r \in Requests, WriteProfile(r)
  PROVE  package' \in Packages \cup {None} /\ total' \in Nat /\ completed' \in Nat
BY DEF IInv, Core, RowsOK, Seeing, RequestsOK, Sights, WriteProfile

\* What applyPackageAssignment finds.
LEMMA AssignmentSound ==
  ASSUME IInv, NEW p \in Packages, NEW o \in Orders \cup {0}, NEW a \in Assigning, Chosen(o, OrdersOf(p))
  PROVE  Assignment(p, o, a) \in Sights /\ Sound(a, Assignment(p, o, a))
<1>1. o # 0 => o \in Orders /\ order[o] # "none" /\ item[o] = p
  BY DEF Chosen, Newest, OrdersOf, ActiveOrders, Active, ActiveStatuses
<1>2. /\ (IF o = 0 THEN Lessons[p] ELSE included[o]) \in Nat
      /\ (IF o = 0 THEN 0 ELSE booked[o]) \in Nat
  BY <1>1, PackagesAssumption DEF IInv, Core, RowsOK
<1>3. /\ \A t, c : Right(t, c) \subseteq Columns
      /\ (IF package = p THEN {"package"} ELSE {}) \subseteq Columns
  BY DEF Right, Columns
<1>4. Assignment(p, o, a) \in Sights
  BY <1>2, <1>3 DEF Assignment, Sights, Nothing
<1>5. /\ Assignment(p, o, a).order = o /\ Assignment(p, o, a).package = p
      /\ Assignment(p, o, a).pays => a = "buy"
  BY DEF Assignment, Nothing
<1> HIDE DEF Assignment
<1> QED BY <1>1, <1>4, <1>5 DEF Sound, Assigning, Archiving

\* A step that only looks leaves every row alone.
LEMMA LookKeeps ==
  ASSUME IInv, UNCHANGED <<orders, profile, extras, lesson, meta>>
  PROVE  Core' /\ Grows /\ \A b \in Bookings : Spares(b)
BY DEF IInv, orders, profile, extras, meta, Core, RowsOK, EmptyUntilMade, NoExtras,
       MetaNamesAnOrder, SalesTakeNothing, HeldUnitsAreBooked, ExtrasAccountedFor, Grows, Spares

\* The bookings that are locked are bookings.
LEMMA LockedIsBooking ==
  ASSUME IInv, NEW q \in Requests, at[q] \in Archiving
  PROVE  /\ seen[q].booking \in Bookings /\ sale[seen[q].booking]
         /\ lesson[seen[q].booking] \in {"open", "closed"}
BY DEF IInv, Seeing, RequestsSound, Sound

\* A step that leaves all bookings alone spares the locked ones.
LEMMA SparesLocked ==
  ASSUME IInv, NEW r, \A b \in Bookings : Spares(b)
  PROVE  \A q \in Requests \ {r} : at[q] \in Archiving => Spares(seen[q].booking)
BY LockedIsBooking

\* A look at the orders.
LEMMA LookForOrderKeeps ==
  ASSUME IInv, NEW r \in Requests, NEW p \in Packages, NEW a \in Assigning, LookForOrder(r, p, a)
  PROVE  IInv'
<1>1. PICK o \in Orders \cup {0} : Chosen(o, OrdersOf(p)) /\ Turn(r, a, Assignment(p, o, a))
  BY DEF LookForOrder
<1>2. PICK s : s = Assignment(p, o, a)
  OBVIOUS
<1>3. s \in Sights /\ Sound(a, s)
  BY <1>1, <1>2, AssignmentSound
<1>4. Core' /\ Grows /\ \A b \in Bookings : Spares(b)
  BY LookKeeps DEF LookForOrder
<1>5. a \in Acts /\ a \notin Archiving
  BY DEF Acts, Assigning, Archiving
<1>6. Sound(a, s)'
  BY <1>3, <1>4, <1>5, SoundStays
<1>7. \A q \in Requests \ {r} : at[q] \in Archiving => Spares(seen[q].booking)
  BY <1>4, SparesLocked
<1>8. Turn(r, a, s)
  BY <1>1, <1>2
<1>9. Seeing'
  BY <1>3, <1>4, <1>5, <1>6, <1>7, <1>8, TurnKeeps
<1> QED BY <1>4, <1>9 DEF IInv

\* applyPackageAssignment: the order it found, or makes, is counted.
LEMMA AssignKeeps ==
  ASSUME IInv, NEW r \in Requests, Assign(r)
  PROVE  IInv'
<1>1. PICK a, s : a = at[r] /\ s = seen[r]
  OBVIOUS
<1>2. a \in Assigning /\ s \in Sights /\ Sound(a, s)
  BY <1>1 DEF IInv, Seeing, RequestsOK, RequestsSound, Assign
<1>3. s.package \in Packages /\ s.order \in Orders \cup {0}
  BY <1>2 DEF Sound, Sights
<1>4. PICK o \in Orders :
        /\ \/ /\ s.order = o
              /\ order' = [order EXCEPT ![o] = IF s.pays THEN "paid" ELSE @]
              /\ UNCHANGED <<item, included, booked>>
           \/ /\ s.order = 0
              /\ Create(o, s.package, IF a = "buy" THEN "checkout" ELSE "active", Lessons[s.package], 0)
        /\ \/ a # "edit" /\ Done(r)
           \/ /\ a = "edit"
              /\ Turn(r, "name", [Nothing EXCEPT !.order = o, !.package = s.package])
  BY <1>1 DEF Assign
<1>5. /\ package' \in Packages \cup {None} /\ total' \in Nat /\ completed' \in Nat
      /\ UNCHANGED <<extras, lesson, meta>>
  BY ProfileTyped DEF Assign
<1>6. Core' /\ Grows /\ order'[o] # "none" /\ item'[o] = s.package
  <2>1. CASE /\ s.order = o
             /\ order' = [order EXCEPT ![o] = IF s.pays THEN "paid" ELSE @]
             /\ UNCHANGED <<item, included, booked>>
    <3>1. o # 0 /\ order[o] # "none" /\ item[o] = s.package
      BY <1>2, <2>1, ZeroIsNoOrder DEF Sound
    <3>2. Core'
      BY <1>5, <2>1, <3>1, PayKeeps DEF IInv
    <3>3. Grows /\ order'[o] # "none"
      BY <2>1, <3>1 DEF IInv, Core, RowsOK, Grows
    <3> QED BY <2>1, <3>1, <3>2, <3>3
  <2>2. CASE /\ s.order = 0
             /\ Create(o, s.package, IF a = "buy" THEN "checkout" ELSE "active", Lessons[s.package], 0)
    <3>1. PICK st \in ActiveStatuses : Create(o, s.package, st, Lessons[s.package], 0)
      BY <2>2 DEF ActiveStatuses
    <3>2. Lessons[s.package] \in Nat /\ 0 \in Nat
      BY <1>3, PackagesAssumption
    <3>3. Core' /\ Grows
      BY <1>3, <1>5, <3>1, <3>2, CreateKeeps, CreateGrows DEF IInv, Core
    <3>4. order'[o] # "none" /\ item'[o] = s.package
      BY <3>1 DEF IInv, Core, RowsOK, Create, ActiveStatuses
    <3> QED BY <3>3, <3>4
  <2> QED BY <1>4, <2>1, <2>2
<1>7. \A q \in Requests \ {r} : at[q] \in Archiving => Spares(seen[q].booking)
  BY <1>5, SparesLocked DEF Spares, meta
<1>8. Seeing'
  <2>1. CASE Done(r)
    BY <1>6, <1>7, <2>1, DoneKeeps
  <2>2. CASE Turn(r, "name", [Nothing EXCEPT !.order = o, !.package = s.package])
    <3> DEFINE t == [Nothing EXCEPT !.order = o, !.package = s.package]
    <3>1. t \in Sights /\ t.order = o /\ t.package = s.package
      BY <1>3 DEF Sights, Nothing
    <3>2. Turn(r, "name", t)
      BY <2>2
    <3> HIDE DEF t
    <3>3. Sound("name", t)'
      BY <1>3, <1>6, <3>1, ZeroIsNoOrder DEF Sound, Assigning, Archiving
    <3>4. "name" \in Acts /\ "name" \notin Archiving
      BY DEF Acts, Archiving
    <3> QED BY <1>6, <1>7, <3>1, <3>2, <3>3, <3>4, TurnKeeps
  <2> QED BY <1>4, <2>1, <2>2
<1> QED BY <1>6, <1>8 DEF IInv

\* StudentAdminService.update writes the package into the profile.
LEMMA NamePackageKeeps ==
  ASSUME IInv, NEW r \in Requests, NamePackage(r)
  PROVE  IInv'
<1>1. PICK s : s = seen[r]
  OBVIOUS
<1>2. s \in Sights /\ Sound("name", s)
  BY <1>1 DEF IInv, Seeing, RequestsOK, RequestsSound, NamePackage
<1>3. s.package \in Packages
  BY <1>2 DEF Sound
<1>4. /\ package' = s.package /\ Turn(r, "ensure", s)
      /\ UNCHANGED <<orders, total, completed, extras, lesson, meta>>
  BY <1>1 DEF NamePackage
<1>5. /\ UNCHANGED <<orders, used, meta>>
      /\ package' \in Packages \cup {None} /\ total' \in Nat /\ completed' \in Nat
      /\ bought' \in [Extras -> BOOLEAN]
      /\ lesson' \in [Bookings -> {"none", "open", "closed", "archived"}]
      /\ \A b \in Bookings : lesson'[b] = "none" => lesson[b] = "none"
  BY <1>3, <1>4 DEF IInv, Core, RowsOK, extras
<1>6. Core'
  BY <1>5, ProfileKeeps DEF IInv
<1>7. Grows /\ \A b \in Bookings : Spares(b)
  BY <1>4 DEF Grows, Spares, orders, meta
<1>8. "ensure" \in Acts /\ "ensure" \notin Archiving
  BY DEF Acts, Archiving
<1>9. Sound("ensure", s)'
  BY <1>3 DEF Sound, Assigning, Archiving
<1>10. \A q \in Requests \ {r} : at[q] \in Archiving => Spares(seen[q].booking)
  BY <1>7, SparesLocked
<1>11. Seeing'
  BY <1>2, <1>4, <1>7, <1>8, <1>9, <1>10, TurnKeeps
<1> QED BY <1>6, <1>11 DEF IInv

\* ensureActivePackageOrder looks for an order and finds none.
LEMMA LookToEnsureKeeps ==
  ASSUME IInv, NEW r \in Requests, NEW p \in Packages, NEW a \in {"make", "sell"}, LookToEnsure(r, p, a)
  PROVE  IInv'
<1>1. PICK s : /\ Turn(r, a, s)
               /\ s = [Nothing EXCEPT !.package = p, !.total = EnsuredTotal(p), !.completed = completed,
                                      !.right = {"package"} \cup Right(EnsuredTotal(p), completed)]
  BY DEF LookToEnsure
<1>2. Core' /\ Grows /\ \A b \in Bookings : Spares(b)
  BY LookKeeps DEF LookToEnsure
<1>3. s \in Sights /\ s.package = p
  <2>1. EnsuredTotal(p) \in Nat /\ completed \in Nat
    BY EnsuredTotalType DEF IInv, Core, RowsOK
  <2>2. {"package"} \cup Right(EnsuredTotal(p), completed) \subseteq Columns
    BY DEF Right, Columns
  <2> QED BY <1>1, <2>1, <2>2 DEF Sights, Nothing
<1>4. a \in Acts /\ a \notin Archiving /\ a \notin Assigning \cup {"name", "detach"}
  BY DEF Acts, Assigning, Archiving
<1>5. Sound(a, s)'
  BY <1>3, <1>4 DEF Sound
<1>6. \A q \in Requests \ {r} : at[q] \in Archiving => Spares(seen[q].booking)
  BY <1>2, SparesLocked
<1>7. Seeing'
  BY <1>1, <1>2, <1>3, <1>4, <1>5, <1>6, TurnKeeps
<1> QED BY <1>2, <1>7 DEF IInv

\* It finds one.
LEMMA HasOrderKeeps ==
  ASSUME IInv, NEW r \in Requests, HasOrder(r)
  PROVE  IInv'
<1>1. Core' /\ Grows /\ \A b \in Bookings : Spares(b)
  BY LookKeeps DEF HasOrder
<1>2. \A q \in Requests \ {r} : at[q] \in Archiving => Spares(seen[q].booking)
  BY <1>1, SparesLocked
<1>3. Seeing'
  BY <1>1, <1>2, DoneKeeps DEF HasOrder
<1> QED BY <1>1, <1>3 DEF IInv

\* It makes one.
LEMMA EnsureOrderKeeps ==
  ASSUME IInv, NEW r \in Requests, EnsureOrder(r)
  PROVE  IInv'
<1>1. PICK s : s = seen[r]
  OBVIOUS
<1>2. s \in Sights /\ Sound("make", s)
  BY <1>1 DEF IInv, Seeing, RequestsOK, RequestsSound, EnsureOrder
<1>3. /\ s.package \in Packages /\ s.total \in Nat /\ s.completed \in Nat
      /\ "active" \in ActiveStatuses
  BY <1>2 DEF Sound, Sights, ActiveStatuses
<1>4. PICK o \in Orders : Create(o, s.package, "active", s.total, s.completed)
  BY <1>1 DEF EnsureOrder
<1>5. /\ package' \in Packages \cup {None} /\ total' \in Nat /\ completed' \in Nat
      /\ Done(r) /\ UNCHANGED <<extras, lesson, meta>>
  BY ProfileTyped DEF EnsureOrder
<1>6. Core' /\ Grows
  BY <1>3, <1>4, <1>5, CreateKeeps, CreateGrows DEF IInv, Core
<1>7. \A q \in Requests \ {r} : at[q] \in Archiving => Spares(seen[q].booking)
  BY <1>5, SparesLocked DEF Spares, meta
<1>8. Seeing'
  BY <1>5, <1>6, <1>7, DoneKeeps
<1> QED BY <1>6, <1>8 DEF IInv

\* createAdminPackageAtomic on the order it makes, with lessons or without.
LEMMA SellNewKeeps ==
  ASSUME IInv, NEW r \in Requests, NEW b \in Bookings, NEW n \in Nat, NEW s \in Sights,
         s = seen[r], at[r] = "sell", NEW sold \in BOOLEAN,
         NEW o \in Orders, Create(o, s.package, "active", s.total, s.completed + n),
         Open(b, n, n, o, NoExtras, sold),
         package' \in Packages \cup {None}, total' \in Nat, completed' \in Nat,
         Done(r), UNCHANGED extras
  PROVE  IInv'
<1>1. s.package \in Packages /\ s.total \in Nat /\ s.completed \in Nat
  BY DEF IInv, Seeing, RequestsSound, Sound, Sights
<1>2. /\ s.completed + n \in Nat /\ n <= s.completed + n
      /\ "active" \in ActiveStatuses
  BY <1>1 DEF ActiveStatuses
<1>3. Core'
  BY <1>1, <1>2, ConsumeNewKeeps DEF IInv
<1>4. Grows
  BY <1>2, CreateGrows DEF IInv, Core
<1>5. \A q \in Requests \ {r} : at[q] \in Archiving => Spares(seen[q].booking)
  BY OpenSpares
<1>6. Seeing'
  BY <1>4, <1>5, DoneKeeps
<1> QED BY <1>3, <1>6 DEF IInv

LEMMA SellNewOrderKeeps ==
  ASSUME IInv, NEW r \in Requests, NEW b \in Bookings, SellNewOrder(r, b)
  PROVE  IInv'
<1>1. PICK s \in Sights : s = seen[r]
  BY DEF IInv, Seeing, RequestsOK
<1>2. s.completed + 0 = s.completed /\ 0 \in Nat /\ TRUE \in BOOLEAN
  BY DEF Sights
<1>3. PICK o \in Orders : /\ Create(o, s.package, "active", s.total, s.completed + 0)
                          /\ Open(b, 0, 0, o, NoExtras, TRUE)
  BY <1>1, <1>2 DEF SellNewOrder
<1>4. /\ package' \in Packages \cup {None} /\ total' \in Nat /\ completed' \in Nat
      /\ at[r] = "sell" /\ Done(r) /\ UNCHANGED extras
  BY ProfileTyped DEF SellNewOrder
<1> QED BY <1>1, <1>2, <1>3, <1>4, SellNewKeeps

LEMMA PackageBookKeeps ==
  ASSUME IInv, NEW r \in Requests, NEW b \in Bookings, NEW n \in Nat, PackageBook(r, b, n)
  PROVE  IInv'
<1>1. PICK s \in Sights : s = seen[r]
  BY DEF IInv, Seeing, RequestsOK
<1>2. PICK o \in Orders : /\ Create(o, s.package, "active", s.total, s.completed + n)
                          /\ Open(b, n, n, o, NoExtras, FALSE)
  BY <1>1 DEF PackageBook
<1>3. s.total \in Nat /\ s.completed + n \in Nat /\ FALSE \in BOOLEAN
  BY DEF Sights
<1>4. /\ package' = package /\ completed' = s.completed + n
      /\ total' \in {total, s.total}
      /\ at[r] = "sell" /\ Done(r) /\ UNCHANGED extras
  BY <1>1 DEF PackageBook
<1>5. package' \in Packages \cup {None} /\ total' \in Nat /\ completed' \in Nat
  BY <1>3, <1>4 DEF IInv, Core, RowsOK
<1> QED BY <1>1, <1>2, <1>3, <1>4, <1>5, SellNewKeeps

\* The profile moves to the newest order left, if there is one.
LEMMA RetreatSound ==
  ASSUME IInv, NEW b \in Bookings, sale[b], NEW o \in Orders \cup {0}, Chosen(o, Remaining(b))
  PROVE  /\ Retreat(b, o) \in Sights /\ Retreat(b, o).booking = b
         /\ o # from[b] /\ (o = 0 => Retreat(b, o).package = None)
         /\ "package" \notin Retreat(b, o).right
         /\ Retreat(b, o).order = o
         /\ o # 0 => o \in Orders /\ order[o] # "none" /\ item[o] = Retreat(b, o).package
<1>1. from[b] \in Orders /\ from[b] # 0
  BY ZeroIsNoOrder DEF IInv, Core, MetaNamesAnOrder
<1>2. o # 0 => /\ o \in Orders /\ order[o] # "none" /\ o # from[b]
               /\ item[o] \in Packages /\ included[o] \in Nat /\ booked[o] \in Nat
  BY DEF Chosen, Newest, Remaining, ActiveOrders, Active, ActiveStatuses, IInv, Core, RowsOK
<1>3. \A t, c : Right(t, c) \subseteq Columns /\ "package" \notin Right(t, c)
  BY DEF Right, Columns
<1>4. CASE o = 0
  BY <1>1, <1>4 DEF Retreat, Nothing, Sights
<1>5. CASE o # 0
  BY <1>2, <1>3, <1>5 DEF Retreat, Nothing, Sights
<1> QED BY <1>4, <1>5

\* archive locks a sale and looks around.
LEMMA LookToArchiveKeeps ==
  ASSUME IInv, NEW r \in Requests, NEW b \in Bookings, LookToArchive(r, b)
  PROVE  IInv'
<1>1. Core' /\ Grows /\ \A c \in Bookings : Spares(c)
  BY LookKeeps DEF LookToArchive
<1>2. \A q \in Requests \ {r} : at[q] \in Archiving => Spares(seen[q].booking)
  BY <1>1, SparesLocked
<1>3. sale[b] /\ lesson[b] \in {"open", "closed"} /\ ~Locked(b)
  BY DEF LookToArchive
<1>4. PICK a \in Archiving, s \in Sights :
        Turn(r, a, s) /\ s.booking = b /\ Sound(a, s)
  <2>1. CASE \E o \in Orders \cup {0} : Chosen(o, Remaining(b)) /\ Turn(r, "detach", Retreat(b, o))
    <3>1. PICK o \in Orders \cup {0} : Chosen(o, Remaining(b)) /\ Turn(r, "detach", Retreat(b, o))
      BY <2>1
    <3>2. PICK s : s = Retreat(b, o)
      OBVIOUS
    <3>3. /\ s \in Sights /\ s.booking = b /\ s.order = o
          /\ o # from[b] /\ (o = 0 => s.package = None) /\ "package" \notin s.right
          /\ o # 0 => order[o] # "none" /\ item[o] = s.package
      BY <1>3, <3>1, <3>2, RetreatSound
    <3>4. Sound("detach", s) /\ "detach" \in Archiving
      BY <1>3, <3>3 DEF Sound, Assigning, Archiving
    <3> QED BY <3>1, <3>2, <3>3, <3>4
  <2>2. CASE Turn(r, "keep", [Nothing EXCEPT !.booking = b])
    <3>1. PICK s : s = [Nothing EXCEPT !.booking = b]
      OBVIOUS
    <3>2. s \in Sights /\ s.booking = b
      BY <3>1 DEF Sights, Nothing
    <3>3. Sound("keep", s) /\ "keep" \in Archiving
      BY <1>3, <3>2 DEF Sound, Assigning, Archiving
    <3> QED BY <2>2, <3>1, <3>2, <3>3
  <2> QED BY <2>1, <2>2 DEF LookToArchive
<1>5. Sound(a, s)'
  BY <1>1, <1>4, SoundStays
<1>6. a \in Acts
  BY DEF Acts
<1>7. Seeing'
  BY <1>1, <1>2, <1>3, <1>4, <1>5, <1>6, TurnKeeps
<1> QED BY <1>1, <1>7 DEF IInv

\* The others have other bookings under way.
LEMMA OthersSpared ==
  ASSUME IInv, NEW r \in Requests, at[r] \in Archiving,
         \A c \in Bookings \ {seen[r].booking} : Spares(c)
  PROVE  \A q \in Requests \ {r} : at[q] \in Archiving => Spares(seen[q].booking)
BY LockedIsBooking DEF IInv, Seeing, OneArchiveEach

\* The sale is undone.
LEMMA DetachKeeps ==
  ASSUME IInv, NEW r \in Requests, Detach(r)
  PROVE  IInv'
<1>1. at[r] \in Archiving
  BY DEF Detach, Archiving
<1>2. PICK b \in Bookings : b = seen[r].booking /\ sale[b]
  BY <1>1, LockedIsBooking
<1>3. /\ order' = [order EXCEPT ![from[b]] = "cancelled"]
      /\ ForgetMeta(b) \/ UNCHANGED meta
      /\ lesson' = [lesson EXCEPT ![b] = "archived"]
      /\ Done(r)
      /\ UNCHANGED <<item, included, booked, extras>>
  BY <1>2 DEF Detach
<1>4. package' \in Packages \cup {None} /\ total' \in Nat /\ completed' \in Nat
  <2>1. CASE WriteProfile(r)
    BY <2>1, ProfileTyped
  <2>2. CASE UNCHANGED profile
    BY <2>2 DEF IInv, Core, RowsOK, profile
  <2> QED BY <2>1, <2>2 DEF Detach
<1>5. Core'
  BY <1>2, <1>3, <1>4, UndoSaleKeeps DEF IInv
<1>6. Grows
  BY <1>3 DEF IInv, Core, RowsOK, Grows
<1>7. \A c \in Bookings \ {b} : Spares(c)
  BY <1>3 DEF IInv, Core, RowsOK, Spares, ForgetMeta, meta
<1>8. Seeing'
  BY <1>1, <1>2, <1>3, <1>6, <1>7, OthersSpared, DoneKeeps
<1> QED BY <1>5, <1>8 DEF IInv

\* The booking's part of archive: an open one gives its credits back.
LEMMA CloseKeeps ==
  ASSUME Core, NEW b \in Bookings, Close(b), UNCHANGED <<order, item, included, package, bought>>
  PROVE  Core' /\ Grows /\ \A c \in Bookings \ {b} : Spares(c)
<1>1. Grows
  BY DEF Grows
<1>2. CASE Finalize(b, "archived")
  <2>1. \A c \in Bookings \ {b} : Spares(c)
    BY <1>2 DEF Core, RowsOK, Finalize, ForgetMeta, Spares
  <2> QED BY <1>1, <1>2, <2>1, FinalizeKeeps
<1>3. CASE /\ lesson[b] = "closed"
           /\ lesson' = [lesson EXCEPT ![b] = "archived"]
           /\ UNCHANGED <<booked, total, completed, used, meta>>
  <2>1. /\ UNCHANGED <<orders, used, meta>>
        /\ package' \in Packages \cup {None} /\ total' \in Nat /\ completed' \in Nat
        /\ bought' \in [Extras -> BOOLEAN]
        /\ lesson' \in [Bookings -> {"none", "open", "closed", "archived"}]
        /\ \A c \in Bookings : lesson'[c] = "none" => lesson[c] = "none"
    BY <1>3 DEF Core, RowsOK, orders
  <2>2. \A c \in Bookings \ {b} : Spares(c)
    BY <1>3 DEF Core, RowsOK, Spares, meta
  <2> QED BY <1>1, <2>1, <2>2, ProfileKeeps
<1> QED BY <1>2, <1>3 DEF Close

\* A sale is archived that another booking keeps.
LEMMA ArchiveAloneKeeps ==
  ASSUME IInv, NEW r \in Requests, ArchiveAlone(r)
  PROVE  IInv'
<1>1. at[r] \in Archiving
  BY DEF ArchiveAlone, Archiving
<1>2. PICK b \in Bookings : b = seen[r].booking
  BY <1>1, LockedIsBooking
<1>3. Core' /\ Grows /\ \A c \in Bookings \ {b} : Spares(c)
  BY <1>2, CloseKeeps DEF IInv, ArchiveAlone
<1>4. Seeing'
  BY <1>1, <1>2, <1>3, OthersSpared, DoneKeeps DEF ArchiveAlone
<1> QED BY <1>3, <1>4 DEF IInv

-----------------------------------------------------------------------------
(* The theorems.                                                           *)

\* It holds of a student who was just created, or has been sold packages.
LEMMA InitInv == Init => IInv
<1> SUFFICES ASSUME Init PROVE IInv
  OBVIOUS
<1>0. PICK sold \in Sales, p \in [Orders -> Packages] :
        LET S == Range(sold) \ {0} IN
        /\ order    = [o \in Orders |-> IF o \in S THEN "active" ELSE "none"]
        /\ item     = [o \in Orders |-> IF o \in S THEN p[o] ELSE None]
        /\ included = [o \in Orders |-> IF o \in S THEN Lessons[p[o]] ELSE 0]
        /\ booked   = [o \in Orders |-> 0]
        /\ package \in Unordered \cup {None} \cup {p[o] : o \in S}
        /\ total = (IF package = None THEN 0 ELSE Lessons[package])
        /\ completed \in 0 .. total
        /\ lesson = [b \in Bookings |-> IF sold[b] = 0 THEN "none" ELSE "open"]
        /\ from   = sold
        /\ sale   = [b \in Bookings |-> sold[b] # 0]
  BY DEF Init
<1> DEFINE S == Range(sold) \ {0}
<1>1. /\ order    = [o \in Orders |-> IF o \in S THEN "active" ELSE "none"]
      /\ item     = [o \in Orders |-> IF o \in S THEN p[o] ELSE None]
      /\ included = [o \in Orders |-> IF o \in S THEN Lessons[p[o]] ELSE 0]
      /\ booked   = [o \in Orders |-> 0]
      /\ package \in Unordered \cup {None} \cup {p[o] : o \in S}
      /\ total = (IF package = None THEN 0 ELSE Lessons[package])
      /\ completed \in 0 .. total
      /\ lesson = [b \in Bookings |-> IF sold[b] = 0 THEN "none" ELSE "open"]
      /\ from   = sold
      /\ sale   = [b \in Bookings |-> sold[b] # 0]
  BY <1>0
<1> HIDE DEF S
<1>2. /\ bought = [e \in Extras |-> FALSE] /\ used = [e \in Extras |-> 0]
      /\ pkg = [b \in Bookings |-> 0] /\ units = [b \in Bookings |-> 0]
      /\ extra = [b \in Bookings |-> [e \in Extras |-> 0]]
      /\ at = [r \in Requests |-> "idle"] /\ seen = [r \in Requests |-> Nothing]
  BY DEF Init
<1>3. sold \in [Bookings -> Orders \cup {0}] /\ S \subseteq Orders
      /\ \A b \in Bookings : sold[b] # 0 => sold[b] \in S
  BY SalesAssumption DEF Range, S
<1>4. RowsOK
  <2>1. package \in Packages \cup {None} /\ total \in Nat /\ completed \in Nat
    BY <1>1, <1>3, PackagesAssumption
  <2>2. /\ order \in [Orders -> ActiveStatuses \cup {"none", "cancelled"}]
        /\ item \in [Orders -> Packages \cup {None}]
        /\ included \in [Orders -> Nat]
        /\ booked \in [Orders -> Nat]
        /\ \A o \in Orders : order[o] # "none" => item[o] \in Packages
    BY <1>1, PackagesAssumption DEF ActiveStatuses
  <2>3. /\ lesson \in [Bookings -> {"none", "open", "closed", "archived"}]
        /\ from \in [Bookings -> Orders \cup {0}]
        /\ sale \in [Bookings -> BOOLEAN]
    BY <1>1, <1>3
  <2>4. /\ bought \in [Extras -> BOOLEAN] /\ used \in [Extras -> 0 .. ExtraLessons]
        /\ pkg \in [Bookings -> Nat] /\ units \in [Bookings -> Nat]
        /\ extra \in [Bookings -> [Extras -> Nat]]
    BY <1>2, SizeAssumption
  <2> QED BY <2>1, <2>2, <2>3, <2>4 DEF RowsOK
<1>5. EmptyUntilMade /\ MetaNamesAnOrder /\ SalesTakeNothing
  <2>1. \A b \in Bookings : from[b] \in Orders => order[from[b]] # "none"
    BY <1>1, <1>3, ZeroIsNoOrder
  <2>2. ASSUME NEW b \in Bookings, units[b] > 0 \/ sale[b]
        PROVE  from[b] \in Orders
    <3>1. ~(units[b] > 0)
      BY <1>2
    <3>2. sold[b] # 0
      BY <1>1, <2>2, <3>1
    <3> QED BY <1>1, <1>3, <3>2
  <2>3. \A b \in Bookings : extra[b] = NoExtras
    BY <1>2 DEF NoExtras
  <2>4. \A o \in Orders : booked[o] = 0
    BY <1>1
  <2> QED BY <2>1, <2>2, <2>3, <2>4 DEF EmptyUntilMade, MetaNamesAnOrder, SalesTakeNothing
<1>6. HeldUnitsAreBooked
  <2>1. (\A b \in Bookings : units[b] = 0) /\ \A o \in Orders : booked[o] = 0
    BY <1>1, <1>2
  <2>2. SumFunctionOnSet(units, Bookings) = 0 /\ SumFunctionOnSet(booked, Orders) = 0
    BY <2>1, RowsAssumption, SumZero
  <2> QED BY <2>2 DEF HeldUnitsAreBooked
<1>7. ExtrasAccountedFor
  <2>1. ASSUME NEW e \in Extras
        PROVE  used[e] = SumFunctionOnSet([b \in Bookings |-> extra[b][e]], Bookings)
    <3> DEFINE f == [b \in Bookings |-> extra[b][e]]
    <3>1. used[e] = 0 /\ \A b \in Bookings : f[b] = 0
      BY <1>2
    <3> HIDE DEF f
    <3>2. SumFunctionOnSet(f, Bookings) = 0
      BY <3>1, RowsAssumption, SumZero
    <3> QED BY <3>1, <3>2 DEF f
  <2> QED BY <2>1 DEF ExtrasAccountedFor
<1>8. Seeing
  <2>1. Nothing \in Sights
    BY DEF Nothing, Sights
  <2>2. RequestsOK /\ OneArchiveEach
    BY <1>2, <2>1 DEF RequestsOK, OneArchiveEach, Archiving
  <2>3. Sound("idle", Nothing)
    BY DEF Sound, Assigning, Archiving
  <2>4. RequestsSound
    BY <1>2, <2>3 DEF RequestsSound
  <2> QED BY <2>2, <2>4 DEF Seeing
<1> QED BY <1>4, <1>5, <1>6, <1>7, <1>8 DEF IInv, Core

\* A step that is none of a request's, and loses none of what requests hold.
LEMMA RowStepKeeps ==
  ASSUME IInv, Core', UNCHANGED requests, Grows, \A b \in Bookings : Locked(b) => Spares(b)
  PROVE  IInv'
BY UntouchedRequests DEF IInv

\* A step of a booking that is not locked.
LEMMA BookingSpares ==
  ASSUME RowsOK, NEW b \in Bookings, ~Locked(b), NEW st, lesson' = [lesson EXCEPT ![b] = st],
         ForgetMeta(b) \/ UNCHANGED meta
  PROVE  \A c \in Bookings : Locked(c) => Spares(c)
BY DEF RowsOK, ForgetMeta, meta, Spares

\* A booking is made on orders that are there.
LEMMA BookKeeps ==
  ASSUME IInv, Core', UNCHANGED requests, UNCHANGED <<order, item>>,
         NEW b \in Bookings, NEW tp, NEW tu, NEW o, NEW x, NEW s, Open(b, tp, tu, o, x, s)
  PROVE  IInv'
<1>1. Grows
  BY DEF Grows
<1> QED BY <1>1, OpenSpares, RowStepKeeps

\* The student's own requests keep the invariant.
LEMMA StudentKeeps == IInv /\ StudentNext => IInv'
<1> SUFFICES ASSUME IInv, StudentNext PROVE IInv'
  OBVIOUS
<1>1. ASSUME NEW e \in Extras, BuyExtra(e) PROVE IInv'
  <2>1. UNCHANGED <<orders, used, meta>> /\ UNCHANGED <<profile, requests>> /\ lesson' = lesson
    BY <1>1 DEF BuyExtra
  <2>2. /\ package' \in Packages \cup {None} /\ total' \in Nat /\ completed' \in Nat
        /\ bought' \in [Extras -> BOOLEAN]
        /\ lesson' \in [Bookings -> {"none", "open", "closed", "archived"}]
    BY <1>1, <2>1 DEF IInv, Core, RowsOK, BuyExtra, profile
  <2>3. Core'
    BY <2>1, <2>2, ProfileKeeps DEF IInv
  <2>4. Grows /\ \A b \in Bookings : Spares(b)
    BY <2>1 DEF Grows, Spares, orders, meta
  <2> QED BY <2>1, <2>3, <2>4, RowStepKeeps
<1>2. ASSUME NEW b \in Bookings, NEW n \in Lengths, StudentBook(b, n) PROVE IInv'
  <2>1. n \in Nat \ {0}
    BY SizeAssumption
  <2>2. Core'
    BY <1>2, <2>1, StudentBookKeeps DEF IInv
  <2>3. UNCHANGED requests /\ UNCHANGED <<order, item>>
    BY <1>2 DEF StudentBook
  <2>4. PICK tp, tu, o, x : Open(b, tp, tu, o, x, FALSE)
    BY <1>2 DEF StudentBook
  <2> QED BY <2>2, <2>3, <2>4, BookKeeps
<1>3. ASSUME NEW b \in Bookings, NEW n \in Lengths, StudentBookCash(b, n) PROVE IInv'
  <2>1. n \in Nat \ {0}
    BY SizeAssumption
  <2>2. Core'
    BY <1>3, <2>1, BookCashKeeps DEF IInv
  <2>3. Open(b, 0, 0, 0, NoExtras, FALSE) /\ UNCHANGED requests /\ UNCHANGED <<order, item>>
    BY <1>3 DEF StudentBookCash, orders
  <2> QED BY <2>2, <2>3, BookKeeps
<1>4. ASSUME NEW b \in Bookings, Cancel(b) PROVE IInv'
  <2>1. Core'
    BY <1>4, FinalizeKeeps DEF IInv, Cancel
  <2>2. Grows /\ UNCHANGED requests
    BY <1>4 DEF Cancel, Grows
  <2>3. \A c \in Bookings : Locked(c) => Spares(c)
    BY <1>4, BookingSpares DEF IInv, Core, Cancel, Finalize
  <2> QED BY <2>1, <2>2, <2>3, RowStepKeeps
<1> QED BY <1>1, <1>2, <1>3, <1>4 DEF StudentNext

\* Staff book.
LEMMA StaffBookKeeps ==
  ASSUME IInv, NEW b \in Bookings, NEW n \in Nat \ {0}, StaffBook(b, n)
  PROVE  IInv'
<1>1. ASSUME NEW o \in Orders, Consume(b, n, o) PROVE IInv'
  <2>1. Core'
    BY <1>1, ConsumeKeeps DEF IInv
  <2>2. Open(b, n, n, o, NoExtras, FALSE) /\ UNCHANGED requests /\ UNCHANGED <<order, item>>
    BY <1>1 DEF Consume
  <2> QED BY <2>1, <2>2, BookKeeps
<1>2. ASSUME Bootstrap(b, n) PROVE IInv'
  <2>1. PICK o \in Orders : /\ Create(o, package, "active", total, completed + n)
                            /\ Open(b, n, n, o, NoExtras, FALSE)
    BY <1>2 DEF Bootstrap
  <2>2. /\ package \in Packages /\ total \in Nat /\ completed \in Nat
        /\ package' = package /\ total' = total /\ completed' = completed + n
        /\ UNCHANGED extras /\ UNCHANGED requests
    BY <1>2 DEF Bootstrap, SyncProfile, IInv, Core, RowsOK
  <2>3. /\ completed + n \in Nat /\ n <= completed + n /\ n \in Nat
        /\ "active" \in ActiveStatuses /\ FALSE \in BOOLEAN
    BY <2>2 DEF ActiveStatuses
  <2>4. package' \in Packages \cup {None} /\ total' \in Nat /\ completed' \in Nat
    BY <2>2, <2>3
  <2>5. Core'
    BY <2>1, <2>2, <2>3, <2>4, ConsumeNewKeeps DEF IInv
  <2>6. Grows
    BY <2>1, <2>2, <2>3, CreateGrows DEF IInv, Core
  <2> QED BY <2>1, <2>2, <2>5, <2>6, OpenSpares, RowStepKeeps
<1> QED BY <1>1, <1>2 DEF StaffBook

\* So do the requests of staff.
LEMMA StaffKeeps == IInv /\ StaffNext => IInv'
<1> SUFFICES ASSUME IInv, StaffNext PROVE IInv'
  OBVIOUS
<1>1. ASSUME NEW b \in Bookings, NEW n \in Lengths, StaffBook(b, n) PROVE IInv'
  BY <1>1, SizeAssumption, StaffBookKeeps
<1>2. ASSUME NEW b \in Bookings, Archive(b) PROVE IInv'
  <2>1. Core' /\ Grows /\ \A c \in Bookings \ {b} : Spares(c)
    BY <1>2, CloseKeeps DEF IInv, Archive
  <2> QED BY <1>2, <2>1, RowStepKeeps DEF Archive
<1>3. ASSUME NEW b \in Bookings, SellPackage(b) PROVE IInv'
  <2>1. Core'
    BY <1>3, SellKeeps DEF IInv
  <2>2. UNCHANGED requests /\ UNCHANGED <<order, item>>
    BY <1>3 DEF SellPackage, orders
  <2>3. PICK o : Open(b, 0, 0, o, NoExtras, TRUE)
    BY <1>3 DEF SellPackage
  <2> QED BY <2>1, <2>2, <2>3, BookKeeps
<1>4. ASSUME NEW b \in Bookings, NEW st \in {"open", "closed"}, EditStatus(b, st) PROVE IInv'
  <2>1. /\ UNCHANGED <<orders, profile, extras, meta>> /\ UNCHANGED requests
        /\ lesson' = [lesson EXCEPT ![b] = st] /\ ~Locked(b)
    BY <1>4 DEF EditStatus
  <2>2. /\ UNCHANGED <<orders, used, meta>>
        /\ package' \in Packages \cup {None} /\ total' \in Nat /\ completed' \in Nat
        /\ bought' \in [Extras -> BOOLEAN]
        /\ lesson' \in [Bookings -> {"none", "open", "closed", "archived"}]
        /\ \A c \in Bookings : lesson'[c] = "none" => lesson[c] = "none"
    BY <2>1 DEF IInv, Core, RowsOK, profile, extras
  <2>3. Core'
    BY <2>2, ProfileKeeps DEF IInv
  <2>4. Grows
    BY <2>1 DEF Grows, orders
  <2>5. \A c \in Bookings : Locked(c) => Spares(c)
    BY <2>1, BookingSpares DEF IInv, Core
  <2> QED BY <2>1, <2>3, <2>4, <2>5, RowStepKeeps
<1>5. ASSUME ClearPackage \/ \E ct \in Typed : SetCounters(ct[1], ct[2]) PROVE IInv'
  <2>1. total \in Nat /\ completed \in Nat /\ package \in Packages \cup {None}
    BY DEF IInv, Core, RowsOK
  <2>2. /\ UNCHANGED <<orders, extras, lesson, meta>> /\ UNCHANGED requests
        /\ package' \in {package, None} /\ total' \in Nat /\ completed' \in Nat
    BY <1>5, <2>1, TypedAssumption DEF ClearPackage, SetCounters
  <2>3. /\ UNCHANGED <<orders, used, meta>>
        /\ package' \in Packages \cup {None}
        /\ bought' \in [Extras -> BOOLEAN]
        /\ lesson' \in [Bookings -> {"none", "open", "closed", "archived"}]
        /\ \A c \in Bookings : lesson'[c] = "none" => lesson[c] = "none"
    BY <2>1, <2>2 DEF IInv, Core, RowsOK, extras
  <2>4. Core'
    BY <2>2, <2>3, ProfileKeeps DEF IInv
  <2>5. Grows /\ \A b \in Bookings : Spares(b)
    BY <2>2 DEF Grows, Spares, orders, meta
  <2> QED BY <2>2, <2>4, <2>5, RowStepKeeps
<1> QED BY <1>1, <1>2, <1>3, <1>4, <1>5 DEF StaffNext

\* So does what a request does by what it saw.
LEMMA RequestKeeps ==
  ASSUME IInv, NEW r \in Requests, RequestNext(r)
  PROVE  IInv'
<1>1. \A n \in Lengths : n \in Nat
  BY SizeAssumption
<1>2. ASSUME NEW p \in Packages, NEW a \in Assigning, LookForOrder(r, p, a) PROVE IInv'
  BY <1>2, LookForOrderKeeps
<1>3. ASSUME NEW p \in Packages, NEW a \in {"make", "sell"}, LookToEnsure(r, p, a) PROVE IInv'
  BY <1>3, LookToEnsureKeeps
<1>4. ASSUME Assign(r) \/ NamePackage(r) \/ HasOrder(r) \/ EnsureOrder(r) PROVE IInv'
  BY <1>4, AssignKeeps, NamePackageKeeps, HasOrderKeeps, EnsureOrderKeeps
<1>5. ASSUME NEW b \in Bookings, NEW n \in Lengths, PackageBook(r, b, n) PROVE IInv'
  BY <1>1, <1>5, PackageBookKeeps
<1>6. ASSUME NEW b \in Bookings, SellNewOrder(r, b) \/ LookToArchive(r, b) PROVE IInv'
  BY <1>6, SellNewOrderKeeps, LookToArchiveKeeps
<1>7. ASSUME Detach(r) \/ ArchiveAlone(r) PROVE IInv'
  BY <1>7, DetachKeeps, ArchiveAloneKeeps
<1> QED BY <1>2, <1>3, <1>4, <1>5, <1>6, <1>7 DEF RequestNext

\* And with them every step.
LEMMA NextInv == IInv /\ [Next]_vars => IInv'
<1>1. ASSUME IInv, UNCHANGED vars PROVE IInv'
  <2>1. Core' /\ Grows /\ \A b \in Bookings : Spares(b)
    BY <1>1, LookKeeps DEF vars
  <2> QED BY <1>1, <2>1, RowStepKeeps DEF vars
<1> QED BY <1>1, StudentKeeps, StaffKeeps, RequestKeeps DEF Next

\* What every state the service reaches satisfies.
THEOREM Invariance == Spec => []IInv
BY InitInv, NextInv, PTL DEF Spec

\* The columns keep their types: no balance, counter or meta goes below zero,
\* and no extra block lends more than it has.
THEOREM CreditsTyped == Spec => []TypeOK
<1>1. IInv => TypeOK
  BY DEF IInv, Core, Seeing, TypeOK
<1> QED BY <1>1, Invariance, PTL

\* However often bookings are closed, reopened and closed again, what they
\* hold of package balances is booked on some order.
THEOREM HeldUnitsStayBooked == Spec => []HeldUnitsAreBooked
<1>1. IInv => HeldUnitsAreBooked
  BY DEF IInv, Core
<1> QED BY <1>1, Invariance, PTL

\* Every used lesson of an extra block is held by exactly one booking.
THEOREM ExtrasStayAccounted == Spec => []ExtrasAccountedFor
<1>1. IInv => ExtrasAccountedFor
  BY DEF IInv, Core
<1> QED BY <1>1, Invariance, PTL

-----------------------------------------------------------------------------
(* What a step may do to an order.                                         *)

Books(o) == order[o] # "none" /\ booked'[o] > booked[o]

\* Some request pays for order o, which was cancelled after it was found.
Revives(o) ==
  \E r \in Requests : at[r] = "buy" /\ Outrun(r) /\ seen[r].order = o /\ at'[r] # "buy"

OrderStep ==
  \A o \in Orders :
    /\ Books(o) => order[o] \in ActiveStatuses /\ booked'[o] <= included[o]
    /\ order[o] = "cancelled" /\ order'[o] # "cancelled" => Revives(o)

\* A new order is none of those that are already there.
LEMMA CreateSteps ==
  ASSUME RowsOK, NEW o \in Orders, NEW p, NEW st, NEW inc, NEW bkd, Create(o, p, st, inc, bkd)
  PROVE  OrderStep
<1>1. \A q \in Orders : order[q] # "none" => order'[q] = order[q] /\ booked'[q] = booked[q]
  BY DEF RowsOK, Create, NextOrder
<1>2. \A q \in Orders : booked[q] \in Nat
  BY DEF RowsOK
<1> QED BY <1>1, <1>2 DEF OrderStep, Books

\* A step that books nothing and brings no order back.
LEMMA QuietSteps ==
  ASSUME RowsOK, UNCHANGED booked, \A o \in Orders : order[o] = "cancelled" => order'[o] = "cancelled"
  PROVE  OrderStep
BY DEF RowsOK, OrderStep, Books

\* An assignment books nothing, and brings back the order it found only when
\* the student paid.
LEMMA AssignSteps ==
  ASSUME IInv, NEW r \in Requests, Assign(r)
  PROVE  OrderStep
<1>1. PICK a, s : a = at[r] /\ s = seen[r]
  OBVIOUS
<1>2. a \in Assigning /\ Sound(a, s) /\ s \in Sights /\ RowsOK
  BY <1>1 DEF IInv, Core, Seeing, RequestsOK, RequestsSound, Assign
<1>3. PICK o \in Orders :
        \/ /\ s.order = o
           /\ order' = [order EXCEPT ![o] = IF s.pays THEN "paid" ELSE @]
           /\ UNCHANGED <<item, included, booked>>
        \/ Create(o, s.package, IF a = "buy" THEN "checkout" ELSE "active", Lessons[s.package], 0)
  BY <1>1 DEF Assign
<1>4. CASE /\ s.order = o
           /\ order' = [order EXCEPT ![o] = IF s.pays THEN "paid" ELSE @]
           /\ UNCHANGED booked
  <2>1. ASSUME NEW q \in Orders
        PROVE  ~Books(q)
    BY <1>2, <1>4 DEF RowsOK, Books
  <2>2. ASSUME NEW q \in Orders, order[q] = "cancelled", order'[q] # "cancelled"
        PROVE  Revives(q)
    <3>1. q = o /\ s.pays
      BY <1>2, <1>4, <2>2 DEF RowsOK
    <3>2. a = "buy" /\ s.order = q /\ s.order # 0
      BY <1>2, <1>4, <3>1, ZeroIsNoOrder DEF Sound
    <3>3. Outrun(r)
      BY <1>1, <1>2, <2>2, <3>2 DEF Outrun
    <3>4. at'[r] \in {"done", "name"}
      <4>1. r \in DOMAIN at
        BY DEF IInv, Seeing, RequestsOK
      <4> QED BY <4>1 DEF Assign, Turn, Done
    <3> QED BY <1>1, <3>2, <3>3, <3>4 DEF Revives
  <2> QED BY <2>1, <2>2 DEF OrderStep
<1>5. CASE Create(o, s.package, IF a = "buy" THEN "checkout" ELSE "active", Lessons[s.package], 0)
  BY <1>2, <1>5, CreateSteps
<1> QED BY <1>3, <1>4, <1>5

\* consumePackageLessonCreditsInTx books on one active order what it has left.
LEMMA ConsumeSteps ==
  ASSUME RowsOK, NEW b \in Bookings, NEW n \in Nat \ {0}, NEW o \in Orders, Consume(b, n, o)
  PROVE  OrderStep
<1>1. /\ order' = order /\ order[o] \in ActiveStatuses
      /\ booked' = [booked EXCEPT ![o] = booked[o] + n]
  BY DEF Consume, Active
<1>2. booked[o] + n <= included[o]
  <2>1. booked[o] \in Nat /\ included[o] \in Nat /\ Room(o) >= n
    BY DEF RowsOK, Consume
  <2> QED BY <2>1 DEF Room, Minus
<1>3. \A q \in Orders : booked[q] \in Nat /\ (q # o => booked'[q] = booked[q])
  BY <1>1 DEF RowsOK
<1>4. booked'[o] = booked[o] + n
  BY <1>1 DEF RowsOK
<1> QED BY <1>1, <1>2, <1>3, <1>4 DEF OrderStep, Books

\* consumeSlots takes from active orders what they have left.
LEMMA StudentBookSteps ==
  ASSUME RowsOK, NEW b \in Bookings, NEW n \in Nat \ {0}, StudentBook(b, n)
  PROVE  OrderStep
<1>1. PICK take \in [Orders -> 0 .. n], taken \in 0 .. n :
        TakesFromOrders(n, take, taken) /\ booked' = [q \in Orders |-> booked[q] + take[q]]
  BY DEF StudentBook
<1>2. ASSUME NEW o \in Orders
      PROVE  /\ booked[o] \in Nat /\ included[o] \in Nat /\ take[o] \in Nat
             /\ booked'[o] = booked[o] + take[o]
  BY <1>1 DEF RowsOK
<1>3. ASSUME NEW o \in Orders, booked'[o] > booked[o]
      PROVE  order[o] \in ActiveStatuses /\ booked'[o] <= included[o]
  <2>1. take[o] > 0
    BY <1>2, <1>3
  <2>2. Active(o) /\ take[o] <= Room(o)
    BY <1>1, <2>1 DEF TakesFromOrders
  <2>3. booked[o] + take[o] <= included[o]
    BY <1>2, <2>1, <2>2 DEF Room, Minus
  <2> QED BY <1>2, <2>2, <2>3 DEF Active
<1>4. order' = order
  BY DEF StudentBook
<1> QED BY <1>3, <1>4 DEF OrderStep, Books

\* Nothing is booked by giving back.
LEMMA RestoreSteps ==
  ASSUME IInv, NEW b \in Bookings, Restore(b), UNCHANGED order
  PROVE  OrderStep
<1>1. \A o \in Orders : booked[o] \in Nat /\ booked'[o] \in Nat /\ booked'[o] <= booked[o]
  <2>1. CASE units[b] = 0 /\ UNCHANGED booked
    BY <2>1 DEF IInv, Core, RowsOK
  <2>2. CASE units[b] > 0 /\ booked' = [booked EXCEPT ![from[b]] = GivenBack(b)]
    <3>1. from[b] \in Orders /\ booked[from[b]] \in Nat /\ units[b] \in Nat
      BY <2>2 DEF IInv, Core, RowsOK, MetaNamesAnOrder
    <3>2. GivenBack(b) \in Nat /\ GivenBack(b) <= booked[from[b]]
      BY <3>1 DEF GivenBack, Minus
    <3> QED BY <2>2, <3>1, <3>2 DEF IInv, Core, RowsOK
  <2> QED BY <2>1, <2>2 DEF Restore
<1> QED BY <1>1 DEF OrderStep, Books

\* An archived booking gives back at most.
LEMMA CloseSteps ==
  ASSUME IInv, NEW b \in Bookings, Close(b), UNCHANGED order
  PROVE  OrderStep
<1>1. CASE Finalize(b, "archived")
  BY <1>1, RestoreSteps DEF Finalize
<1>2. CASE UNCHANGED booked
  BY <1>2, QuietSteps DEF IInv, Core
<1> QED BY <1>1, <1>2 DEF Close

\* An undone sale cancels its order.
LEMMA DetachSteps ==
  ASSUME IInv, NEW r \in Requests, Detach(r)
  PROVE  OrderStep
<1>1. PICK b \in Bookings : b = seen[r].booking
  BY LockedIsBooking DEF Detach, Archiving
<1>2. order' = [order EXCEPT ![from[b]] = "cancelled"] /\ booked' = booked
  BY <1>1 DEF Detach
<1>3. \A o \in Orders : order[o] = "cancelled" => order'[o] = "cancelled"
  BY <1>2 DEF IInv, Core, RowsOK
<1> QED BY <1>2, <1>3, QuietSteps DEF IInv, Core

\* What requests do by what they saw.
LEMMA RequestSteps ==
  ASSUME IInv, NEW r \in Requests, RequestNext(r)
  PROVE  OrderStep
<1> USE DEF orders
<1>1. RowsOK
  BY DEF IInv, Core
<1>2. ASSUME \/ \E p \in Packages, a \in Assigning : LookForOrder(r, p, a)
             \/ \E p \in Packages, a \in {"make", "sell"} : LookToEnsure(r, p, a)
             \/ \E b \in Bookings : LookToArchive(r, b)
             \/ NamePackage(r) \/ HasOrder(r)
      PROVE  OrderStep
  <2>1. UNCHANGED <<order, booked>>
    BY <1>2 DEF LookForOrder, LookToEnsure, LookToArchive, NamePackage, HasOrder
  <2> QED BY <1>1, <2>1, QuietSteps
<1>3. ASSUME Assign(r) PROVE OrderStep
  BY <1>3, AssignSteps
<1>4. ASSUME EnsureOrder(r) PROVE OrderStep
  BY <1>1, <1>4, CreateSteps DEF EnsureOrder
<1>5. ASSUME NEW b \in Bookings, SellNewOrder(r, b) PROVE OrderStep
  BY <1>1, <1>5, CreateSteps DEF SellNewOrder
<1>6. ASSUME NEW b \in Bookings, NEW n \in Lengths, PackageBook(r, b, n) PROVE OrderStep
  BY <1>1, <1>6, CreateSteps DEF PackageBook
<1>7. ASSUME Detach(r) PROVE OrderStep
  BY <1>7, DetachSteps
<1>8. ASSUME ArchiveAlone(r) PROVE OrderStep
  <2>1. PICK b \in Bookings : b = seen[r].booking
    BY <1>8, LockedIsBooking DEF ArchiveAlone, Archiving
  <2> QED BY <1>8, <2>1, CloseSteps DEF ArchiveAlone
<1> QED BY <1>2, <1>3, <1>4, <1>5, <1>6, <1>7, <1>8 DEF RequestNext

\* No step books more than is left, or brings an order back but for one that
\* was found before it was cancelled.
LEMMA NextSteps == IInv /\ [Next]_vars => OrderStep
<1> SUFFICES ASSUME IInv, [Next]_vars PROVE OrderStep
  OBVIOUS
<1> USE DEF orders
<1>1. RowsOK /\ \A n \in Lengths : n \in Nat \ {0}
  BY SizeAssumption DEF IInv, Core
<1>2. CASE StudentNext
  <2>1. ASSUME NEW e \in Extras, BuyExtra(e) PROVE OrderStep
    BY <1>1, <2>1, QuietSteps DEF BuyExtra
  <2>2. ASSUME NEW b \in Bookings, NEW n \in Lengths, StudentBook(b, n) \/ StudentBookCash(b, n)
        PROVE  OrderStep
    BY <1>1, <2>2, StudentBookSteps, QuietSteps DEF StudentBookCash
  <2>3. ASSUME NEW b \in Bookings, Cancel(b) PROVE OrderStep
    BY <2>3, RestoreSteps DEF Cancel, Finalize
  <2> QED BY <1>2, <2>1, <2>2, <2>3 DEF StudentNext
<1>3. CASE StaffNext
  <2>1. ASSUME NEW b \in Bookings, NEW n \in Lengths, StaffBook(b, n) PROVE OrderStep
    BY <1>1, <2>1, ConsumeSteps, CreateSteps DEF StaffBook, Bootstrap
  <2>2. ASSUME NEW b \in Bookings, Archive(b) PROVE OrderStep
    BY <2>2, CloseSteps DEF Archive
  <2>3. ASSUME \/ \E b \in Bookings : SellPackage(b)
               \/ \E b \in Bookings, st \in {"open", "closed"} : EditStatus(b, st)
               \/ ClearPackage
               \/ \E ct \in Typed : SetCounters(ct[1], ct[2])
        PROVE  OrderStep
    BY <1>1, <2>3, QuietSteps DEF SellPackage, EditStatus, ClearPackage, SetCounters
  <2> QED BY <1>3, <2>1, <2>2, <2>3 DEF StaffNext
<1>4. CASE UNCHANGED vars
  BY <1>1, <1>4, QuietSteps DEF vars
<1> QED BY <1>2, <1>3, <1>4, RequestSteps DEF Next

\* Lessons are booked only on an order the student still holds and only as
\* many as it has left, and only a purchase that found the order before it was
\* cancelled brings a cancelled order back.
THEOREM OnlyWhatIsLeftIsBooked == Spec => BooksOnlyWhatIsLeft
<1>1. IInv /\ [Next]_vars => [OrderStep]_vars
  BY NextSteps
<1> QED BY <1>1, Invariance, PTL DEF Spec, BooksOnlyWhatIsLeft, OrderStep, Books, Revives

-----------------------------------------------------------------------------
(* What a step may do to the package of the profile.                       *)

\* The profile stays at its package, and the active orders stay active.
LEMMA StaysHeld ==
  ASSUME ProfileHeld, package' = package,
         \A o \in Orders : order[o] \in ActiveStatuses => order'[o] \in ActiveStatuses /\ item'[o] = item[o]
  PROVE  ProfileHeld'
BY DEF ProfileHeld, ActiveOrders, Active

\* The profile moves to the package of an order that is active.
LEMMA MovesToHeld ==
  ASSUME NEW o \in Orders, order'[o] \in ActiveStatuses, package' = item'[o]
  PROVE  ProfileHeld'
BY DEF ProfileHeld, ActiveOrders, Active

\* A step that touches neither the orders nor the profile's package.
LEMMA QuietHolds ==
  ASSUME ProfileHeld, UNCHANGED <<order, item, package>>
  PROVE  ProfileHeld'
BY StaysHeld

\* A new order is active, and those that are there stay as they are: the
\* profile stays, or moves to the new one.
LEMMA CreateHolds ==
  ASSUME RowsOK, ProfileHeld, NEW o \in Orders, NEW p, NEW st \in ActiveStatuses, NEW inc, NEW bkd,
         Create(o, p, st, inc, bkd), package' \in {package, p}
  PROVE  ProfileHeld'
<1>1. /\ order'[o] \in ActiveStatuses /\ item'[o] = p
      /\ \A q \in Orders :
           order[q] \in ActiveStatuses => order'[q] \in ActiveStatuses /\ item'[q] = item[q]
  BY DEF RowsOK, Create, NextOrder, ActiveStatuses
<1> QED BY <1>1, StaysHeld, MovesToHeld

\* The order an assignment found is one the student holds, when no one has
\* cancelled it since, or one is made.
LEMMA AssignHolds ==
  ASSUME IInv, ProfileHeld, NEW r \in Requests, Assign(r), ~Outrun(r)
  PROVE  ProfileHeld'
<1>1. PICK a, s : a = at[r] /\ s = seen[r]
  OBVIOUS
<1>2. a \in Assigning /\ Sound(a, s) /\ RowsOK
  BY <1>1 DEF IInv, Core, Seeing, RequestsSound, Assign
<1>3. package' \in {package, s.package}
  BY <1>1 DEF Assign, WriteProfile
<1>4. PICK o \in Orders :
        \/ /\ s.order = o
           /\ order' = [order EXCEPT ![o] = IF s.pays THEN "paid" ELSE @]
           /\ UNCHANGED item
        \/ Create(o, s.package, IF a = "buy" THEN "checkout" ELSE "active", Lessons[s.package], 0)
  BY <1>1 DEF Assign
<1>5. CASE /\ s.order = o
           /\ order' = [order EXCEPT ![o] = IF s.pays THEN "paid" ELSE @]
           /\ UNCHANGED item
  <2>1. order[o] # "none" /\ item[o] = s.package /\ order[o] # "cancelled"
    BY <1>1, <1>2, <1>5, ZeroIsNoOrder DEF Sound, Outrun
  <2>2. order[o] \in ActiveStatuses
    BY <1>2, <2>1 DEF RowsOK
  <2>3. \A q \in Orders :
          order[q] \in ActiveStatuses => order'[q] \in ActiveStatuses /\ item'[q] = item[q]
    BY <1>2, <1>5 DEF RowsOK, ActiveStatuses
  <2>4. order'[o] \in ActiveStatuses /\ item'[o] = s.package
    BY <1>5, <2>1, <2>2, <2>3
  <2> QED BY <1>3, <2>3, <2>4, StaysHeld, MovesToHeld
<1>6. CASE Create(o, s.package, IF a = "buy" THEN "checkout" ELSE "active", Lessons[s.package], 0)
  <2>1. PICK st \in ActiveStatuses : Create(o, s.package, st, Lessons[s.package], 0)
    BY <1>6 DEF ActiveStatuses
  <2> QED BY <1>2, <1>3, <2>1, CreateHolds
<1> QED BY <1>4, <1>5, <1>6

\* StudentAdminService.update names the package of the order it assigned.
LEMMA NamePackageHolds ==
  ASSUME IInv, NEW r \in Requests, NamePackage(r), ~Outrun(r)
  PROVE  ProfileHeld'
<1>1. PICK s : s = seen[r]
  OBVIOUS
<1>2. Sound("name", s) /\ s \in Sights /\ RowsOK
  BY <1>1 DEF IInv, Core, Seeing, RequestsOK, RequestsSound, NamePackage
<1>3. s.order \in Orders /\ order[s.order] \in ActiveStatuses /\ item[s.order] = s.package
  <2>1. s.order \in Orders
    BY <1>2 DEF Sound, Sights
  <2>2. order[s.order] # "none" /\ order[s.order] # "cancelled" /\ item[s.order] = s.package
    BY <1>1, <1>2 DEF Sound, Outrun, NamePackage
  <2> QED BY <1>2, <2>1, <2>2 DEF RowsOK
<1>4. package' = s.package /\ order' = order /\ item' = item
  BY <1>1 DEF NamePackage, orders
<1> QED BY <1>3, <1>4, MovesToHeld

\* An undone sale takes the profile along to the order that was left, when no
\* one has cancelled it since.
LEMMA DetachHolds ==
  ASSUME IInv, ProfileHeld, NEW r \in Requests, Detach(r), ~Outrun(r)
  PROVE  ProfileHeld'
<1>1. PICK s : s = seen[r]
  OBVIOUS
<1>2. Sound("detach", s) /\ s \in Sights /\ RowsOK /\ at[r] = "detach"
  BY <1>1 DEF IInv, Core, Seeing, RequestsOK, RequestsSound, Detach
<1>3. PICK b : b = s.booking
  OBVIOUS
<1>4. /\ order' = [order EXCEPT ![from[b]] = "cancelled"] /\ item' = item
      /\ \/ package = item[from[b]] /\ WriteProfile(r)
         \/ package # item[from[b]] /\ UNCHANGED profile
  BY <1>1, <1>3 DEF Detach
<1>5. \A o \in Orders : o # from[b] /\ order[o] \in ActiveStatuses => order'[o] \in ActiveStatuses
  BY <1>2, <1>4 DEF RowsOK
<1>6. CASE package # item[from[b]] /\ UNCHANGED profile
  <2>1. SUFFICES ASSUME package # None PROVE ProfileHeld'
    BY <1>6 DEF ProfileHeld, profile
  <2>2. PICK o \in ActiveOrders : item[o] = package
    BY <2>1 DEF ProfileHeld
  <2>3. o \in Orders /\ o # from[b] /\ order[o] \in ActiveStatuses
    BY <1>6, <2>2 DEF ActiveOrders, Active
  <2>4. package' = item'[o] /\ order'[o] \in ActiveStatuses
    BY <1>4, <1>5, <1>6, <2>2, <2>3 DEF profile
  <2> QED BY <2>3, <2>4, MovesToHeld
<1>7. CASE WriteProfile(r)
  <2>1. package' = s.package
    BY <1>1, <1>2, <1>7 DEF WriteProfile, Sound
  <2>2. CASE s.order = 0
    BY <1>2, <2>1, <2>2 DEF Sound, ProfileHeld
  <2>3. CASE s.order # 0
    <3>1. s.order \in Orders /\ s.order # from[b]
      BY <1>2, <1>3, <2>3 DEF Sound, Sights
    <3>2. order[s.order] # "none" /\ item[s.order] = s.package /\ order[s.order] # "cancelled"
      BY <1>1, <1>2, <2>3 DEF Sound, Outrun
    <3>3. order[s.order] \in ActiveStatuses
      BY <1>2, <3>1, <3>2 DEF RowsOK
    <3> QED BY <1>4, <1>5, <2>1, <3>1, <3>2, <3>3, MovesToHeld
  <2> QED BY <2>2, <2>3
<1> QED BY <1>4, <1>6, <1>7

\* What a request does that no other has outrun.
LEMMA RequestHolds ==
  ASSUME IInv, ProfileHeld, NEW r \in Requests, RequestNext(r), Outrun(r) => at'[r] = at[r]
  PROVE  ProfileHeld'
<1> USE DEF orders, profile
<1>1. /\ RowsOK /\ "active" \in ActiveStatuses
      /\ r \in DOMAIN at
  BY DEF IInv, Core, Seeing, RequestsOK, ActiveStatuses
<1>2. ASSUME \/ \E p \in Packages, a \in Assigning : LookForOrder(r, p, a)
             \/ \E p \in Packages, a \in {"make", "sell"} : LookToEnsure(r, p, a)
             \/ \E b \in Bookings : LookToArchive(r, b)
             \/ HasOrder(r) \/ ArchiveAlone(r)
      PROVE  ProfileHeld'
  <2>1. UNCHANGED <<order, item, package>>
    BY <1>2 DEF LookForOrder, LookToEnsure, LookToArchive, HasOrder, ArchiveAlone
  <2> QED BY <2>1, QuietHolds
<1>3. ASSUME Assign(r) PROVE ProfileHeld'
  <2>1. at'[r] # at[r]
    BY <1>1, <1>3 DEF Assign, Turn, Done, Assigning
  <2> QED BY <1>3, <2>1, AssignHolds
<1>4. ASSUME NamePackage(r) PROVE ProfileHeld'
  <2>1. at'[r] # at[r]
    BY <1>1, <1>4 DEF NamePackage, Turn
  <2> QED BY <1>4, <2>1, NamePackageHolds
<1>5. ASSUME EnsureOrder(r) PROVE ProfileHeld'
  <2>1. package' \in {package, seen[r].package}
    BY <1>5 DEF EnsureOrder, WriteProfile
  <2> QED BY <1>1, <1>5, <2>1, CreateHolds DEF EnsureOrder
<1>6. ASSUME NEW b \in Bookings, SellNewOrder(r, b) PROVE ProfileHeld'
  <2>1. package' \in {package, seen[r].package}
    BY <1>6 DEF SellNewOrder, WriteProfile
  <2> QED BY <1>1, <1>6, <2>1, CreateHolds DEF SellNewOrder
<1>7. ASSUME NEW b \in Bookings, NEW n \in Lengths, PackageBook(r, b, n) PROVE ProfileHeld'
  <2>1. package' \in {package, seen[r].package}
    BY <1>7 DEF PackageBook
  <2> QED BY <1>1, <1>7, <2>1, CreateHolds DEF PackageBook
<1>8. ASSUME Detach(r) PROVE ProfileHeld'
  <2>1. at'[r] # at[r]
    BY <1>1, <1>8 DEF Detach, Turn, Done
  <2> QED BY <1>8, <2>1, DetachHolds
<1> QED BY <1>2, <1>3, <1>4, <1>5, <1>6, <1>7, <1>8 DEF RequestNext

\* No step but one of a request that was outrun leaves the profile at a package
\* the student does not hold.
LEMMA NextHolds ==
  ASSUME IInv, [Next]_vars, ProfileHeld, \A r \in Requests : Outrun(r) => at'[r] = at[r]
  PROVE  ProfileHeld'
<1> USE DEF orders, profile
<1>1. RowsOK /\ "active" \in ActiveStatuses
  BY DEF IInv, Core, ActiveStatuses
<1>2. CASE StudentNext
  BY <1>2, QuietHolds DEF StudentNext, BuyExtra, StudentBook, StudentBookCash, Cancel
<1>3. CASE StaffNext
  <2>1. ASSUME NEW b \in Bookings, NEW n \in Lengths, StaffBook(b, n) PROVE ProfileHeld'
    BY <1>1, <2>1, QuietHolds, CreateHolds DEF StaffBook, Consume, Bootstrap
  <2>2. ASSUME ClearPackage PROVE ProfileHeld'
    BY <2>2 DEF ClearPackage, ProfileHeld
  <2>3. ASSUME \/ \E b \in Bookings : Archive(b) \/ SellPackage(b)
               \/ \E b \in Bookings, st \in {"open", "closed"} : EditStatus(b, st)
               \/ \E ct \in Typed : SetCounters(ct[1], ct[2])
        PROVE  ProfileHeld'
    BY <2>3, QuietHolds DEF Archive, SellPackage, EditStatus, SetCounters
  <2> QED BY <1>3, <2>1, <2>2, <2>3 DEF StaffNext
<1>4. CASE \E r \in Requests : RequestNext(r)
  BY <1>4, RequestHolds
<1>5. CASE UNCHANGED vars
  BY <1>5, QuietHolds DEF vars
<1> QED BY <1>2, <1>3, <1>4, <1>5 DEF Next

\* No assignment, sale or undone sale leaves the profile at a package the
\* student does not hold, but for one that goes on with an order another
\* request cancelled after it was found.
THEOREM ProfileIsHeldOn == Spec => ProfileStaysHeld
<1>1. IInv /\ [Next]_vars =>
        [ProfileHeld /\ ~ProfileHeld' => \E r \in Requests : Outrun(r) /\ at'[r] # at[r]]_vars
  BY NextHolds
<1> QED BY <1>1, Invariance, PTL DEF Spec, ProfileStaysHeld

=============================================================================
