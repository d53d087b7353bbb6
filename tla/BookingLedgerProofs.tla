-------------------------- MODULE BookingLedgerProofs --------------------------
(***************************************************************************)
(* Proofs about BookingLedger for every price, every number of rows and    *)
(* any set of concurrent requests.                                         *)
(*                                                                         *)
(* Two invariants carry them.  Ledger only says over which rows and        *)
(* references the ledger ranges: that a refund is written once and that    *)
(* card income is kept rests on what each handler looks up before it       *)
(* writes.  IInv types the columns and adds that every row that was not    *)
(* deleted has money on it: the results about amounts rest on it.          *)
(*                                                                         *)
(* Amounts are sums over rows, so the first part is a theory of sums over  *)
(* finite sets, from what one element adds up to what cutting rows in      *)
(* their order takes off in all.                                           *)
(***************************************************************************)
EXTENDS BookingLedger, FiniteSetTheorems, TLAPS

-----------------------------------------------------------------------------
(* Sums over finite sets.                                                 *)

\* Induction over the subsets of a finite set: what holds of a set whenever it
\* holds of all it becomes by losing one element holds of the whole.
LEMMA SubsetInduction ==
  ASSUME NEW S, IsFiniteSet(S), NEW G, {} \in G,
         \A T \in SUBSET S : T # {} /\ (\A x \in T : T \ {x} \in G) => T \in G
  PROVE  S \in G
<1> DEFINE Bad == {T \in SUBSET S : T \notin G}
<1>1. SUFFICES ASSUME Bad # {} PROVE FALSE
  BY Zenon
<1>2. Bad \subseteq FiniteSubsetsOf(S)
  BY FS_FiniteSubsetsOfFinite, Zenon
<1>3. PICK T \in Bad : \A U \in Bad : <<U, T>> \notin StrictSubsetOrdering(S)
  <2>1. IsWellFoundedOn(StrictSubsetOrdering(S), FiniteSubsetsOf(S))
    BY FS_StrictSubsetOrderingWellFounded, Zenon
  <2>2. \E T \in Bad : \A U \in Bad : ~ (<<U, T>> \in StrictSubsetOrdering(S))
    <3> HIDE DEF Bad
    <3> QED BY <1>1, <1>2, <2>1, WFMin
  <2> QED BY <2>2, Zenon
<1>4. PICK x \in T : T \ {x} \in Bad
  OBVIOUS
<1>5. <<T \ {x}, T>> \in StrictSubsetOrdering(S)
  BY <1>3, <1>4 DEF StrictSubsetOrdering
<1> QED BY <1>3, <1>4, <1>5

\* Induction over the numbers, for a set.
LEMMA NatSetInduction ==
  ASSUME NEW G, 0 \in G, \A n \in Nat : n \in G => n + 1 \in G
  PROVE  \A n \in Nat : n \in G
<1> DEFINE Bad == Nat \ G
<1>1. SUFFICES ASSUME Bad # {} PROVE FALSE
  OBVIOUS
<1>2. PICK m \in Bad : \A n \in Bad : ~ (<<n, m>> \in OpToRel(<, Nat))
  <2> HIDE DEF Bad
  <2>1. Bad \subseteq Nat
    BY DEF Bad
  <2> QED BY <1>1, <2>1, NatLessThanWellFounded, WFMin
<1>3. m # 0 /\ m - 1 \in Nat /\ m = (m - 1) + 1
  OBVIOUS
<1>4. m - 1 \in Bad
  BY <1>3
<1>5. <<m - 1, m>> \in OpToRel(<, Nat)
  BY <1>3 DEF OpToRel
<1> QED BY <1>2, <1>4, <1>5

Pick(T) == CHOOSE x \in T : TRUE

\* g adds f up at T: 0, or the summand of the picked element and the rest.
Adds(g, f, T) == g[T] = (IF T = {} THEN 0 ELSE f[Pick(T)] + g[T \ {Pick(T)}])

\* g is the recursive function by which the library sums f over the subsets of S.
Sums(g, f, S) ==
  g = [T \in SUBSET S |-> IF T = {} THEN 0 ELSE f[Pick(T)] + g[T \ {Pick(T)}]]

\* The recursive function exists: it is built up by the size of the subsets.
LEMMA SumExists ==
  ASSUME NEW S, IsFiniteSet(S), NEW f
  PROVE  \E g : Sums(g, f, S)
<1> DEFINE Up(n, g) == \A T \in SUBSET S : Cardinality(T) <= n => Adds(g, f, T)
           N == {n \in Nat : \E g : Up(n, g)}
<1>1. \A T \in SUBSET S : IsFiniteSet(T) /\ Cardinality(T) \in Nat
  BY FS_Subset, FS_CardinalityType, Zenon
<1>2. \A T \in SUBSET S : T # {} => Pick(T) \in T /\ Cardinality(T \ {Pick(T)}) = Cardinality(T) - 1
  BY <1>1, FS_RemoveElement DEF Pick
<1>3. 0 \in N
  <2> DEFINE g == [T \in SUBSET S |-> 0]
  <2>1. Up(0, g)
    BY <1>1, FS_EmptySet DEF Adds
  <2> QED BY <2>1
<1>4. ASSUME NEW n \in Nat, n \in N
      PROVE  n + 1 \in N
  <2>1. PICK g : Up(n, g)
    BY <1>4
  <2> DEFINE h == [T \in SUBSET S |-> IF T = {} THEN 0
                     ELSE IF Cardinality(T) <= n THEN g[T] ELSE f[Pick(T)] + g[T \ {Pick(T)}]]
  <2>2. ASSUME NEW T \in SUBSET S, Cardinality(T) <= n + 1
        PROVE  Adds(h, f, T)
    <3>1. CASE T = {}
      BY <3>1 DEF Adds
    <3>2. CASE T # {}
      <4>1. /\ T \ {Pick(T)} \in SUBSET S /\ Cardinality(T \ {Pick(T)}) <= n
            /\ Cardinality({}) = 0 /\ {} \in SUBSET S
        BY <1>1, <1>2, <2>2, <3>2, FS_EmptySet
      <4>2. h[T \ {Pick(T)}] = g[T \ {Pick(T)}]
        <5>1. g[{}] = 0
          <6>1. Adds(g, f, {})
            BY <2>1, <4>1
          <6> QED BY <6>1 DEF Adds
        <5> QED BY <4>1, <5>1
      <4>3. h[T] = f[Pick(T)] + g[T \ {Pick(T)}]
        <5>1. Cardinality(T) <= n => g[T] = f[Pick(T)] + g[T \ {Pick(T)}]
          BY <2>1, <3>2 DEF Adds
        <5> QED BY <3>2, <5>1
      <4> HIDE DEF h
      <4> QED BY <3>2, <4>2, <4>3 DEF Adds
    <3> QED BY <3>1, <3>2
  <2> HIDE DEF h
  <2>3. Up(n + 1, h)
    BY <2>2
  <2> QED BY <2>3
<1>5. Cardinality(S) \in N
  <2> HIDE DEF N
  <2> QED BY <1>1, <1>3, <1>4, NatSetInduction
<1>6. PICK g : Up(Cardinality(S), g)
  BY <1>5
<1>7. \A T \in SUBSET S : Cardinality(T) <= Cardinality(S)
  BY FS_Subset
<1> DEFINE s == [T \in SUBSET S |-> g[T]]
<1>8. s = [T \in SUBSET S |-> IF T = {} THEN 0 ELSE f[Pick(T)] + s[T \ {Pick(T)}]]
  BY <1>2, <1>6, <1>7 DEF Adds
<1> QED BY <1>8, Zenon DEF Sums

\* SumFunctionOnSet is the value of such a function.
LEMMA SumUnfolds ==
  ASSUME NEW S, IsFiniteSet(S), NEW f
  PROVE  \E g : g[S] = SumFunctionOnSet(f, S) /\ \A T \in SUBSET S : Adds(g, f, T)
<1> DEFINE s == CHOOSE g : Sums(g, f, S)
<1>1. Sums(s, f, S)
  BY SumExists
<1>2. s[S] = SumFunctionOnSet(f, S)
  BY DEF SumFunctionOnSet, FoldFunctionOnSet, MapThenFoldSet, Pick, Sums
<1>3. \A T \in SUBSET S : Adds(s, f, T)
  <2> HIDE DEF s
  <2> QED BY <1>1 DEF Adds, Sums
<1> QED BY <1>2, <1>3

\* Two functions that add up f agree where both do.
LEMMA SumAgrees ==
  ASSUME NEW S, IsFiniteSet(S), NEW U \in SUBSET S, NEW f, NEW g, NEW h,
         \A T \in SUBSET S : Adds(g, f, T), \A T \in SUBSET U : Adds(h, f, T)
  PROVE  g[U] = h[U]
<1> DEFINE G == {T \in SUBSET U : g[T] = h[T]}
<1>1. {} \in G
  BY DEF Adds
<1>2. ASSUME NEW T \in SUBSET U, T # {}, \A x \in T : T \ {x} \in G
      PROVE  T \in G
  <2> DEFINE x == Pick(T)
  <2>1. x \in T /\ T \in SUBSET S /\ T \ {x} \in SUBSET U
    BY <1>2 DEF Pick
  <2>2. g[T \ {x}] = h[T \ {x}]
    BY <1>2, <2>1
  <2>3. g[T] = f[x] + g[T \ {x}] /\ h[T] = f[x] + h[T \ {x}]
    BY <1>2, <2>1 DEF Adds
  <2> QED BY <2>2, <2>3
<1>3. IsFiniteSet(U)
  BY FS_Subset
<1> HIDE DEF G
<1>4. U \in G
  <2>1. \A T \in SUBSET U : T # {} /\ (\A x \in T : T \ {x} \in G) => T \in G
    BY <1>2
  <2> QED BY <1>1, <1>3, <2>1, SubsetInduction
<1> QED BY <1>4 DEF G

\* Nothing adds up to 0.
LEMMA SumEmpty == ASSUME NEW f PROVE SumFunctionOnSet(f, {}) = 0
BY SumUnfolds, FS_EmptySet DEF Adds

\* Some element can be taken out of a sum.
LEMMA SumPick ==
  ASSUME NEW S, IsFiniteSet(S), S # {}, NEW f
  PROVE  \E x \in S : SumFunctionOnSet(f, S) = f[x] + SumFunctionOnSet(f, S \ {x})
<1> DEFINE x == Pick(S)
           U == S \ {x}
<1>1. x \in S
  BY DEF Pick
<1>2. PICK g : g[S] = SumFunctionOnSet(f, S) /\ \A T \in SUBSET S : Adds(g, f, T)
  BY SumUnfolds
<1>3. IsFiniteSet(U)
  BY FS_Subset
<1>4. PICK h : h[U] = SumFunctionOnSet(f, U) /\ \A T \in SUBSET U : Adds(h, f, T)
  BY <1>3, SumUnfolds
<1>5. g[U] = h[U]
  BY <1>2, <1>4, SumAgrees
<1>6. g[S] = f[x] + g[U]
  BY <1>2 DEF Adds
<1> HIDE DEF x
<1> QED BY <1>1, <1>2, <1>4, <1>5, <1>6

\* A sum of integers is an integer.
LEMMA SumInt ==
  ASSUME NEW S, IsFiniteSet(S), NEW f, \A x \in S : f[x] \in Int
  PROVE  SumFunctionOnSet(f, S) \in Int
<1> DEFINE G == {T \in SUBSET S : SumFunctionOnSet(f, T) \in Int}
<1>1. {} \in G
  BY SumEmpty
<1>2. ASSUME NEW T \in SUBSET S, T # {}, \A x \in T : T \ {x} \in G
      PROVE  T \in G
  <2>1. IsFiniteSet(T)
    BY FS_Subset
  <2>2. PICK x \in T : SumFunctionOnSet(f, T) = f[x] + SumFunctionOnSet(f, T \ {x})
    BY <1>2, <2>1, SumPick
  <2> QED BY <1>2, <2>2
<1> HIDE DEF G
<1>3. S \in G
  <2>1. \A T \in SUBSET S : T # {} /\ (\A x \in T : T \ {x} \in G) => T \in G
    BY <1>2
  <2> QED BY <1>1, <2>1, SubsetInduction
<1> QED BY <1>3 DEF G

\* A sum of naturals is a natural.
LEMMA SumNat ==
  ASSUME NEW S, IsFiniteSet(S), NEW f, \A x \in S : f[x] \in Nat
  PROVE  SumFunctionOnSet(f, S) \in Nat
<1> DEFINE G == {T \in SUBSET S : SumFunctionOnSet(f, T) \in Nat}
<1>1. {} \in G
  BY SumEmpty
<1>2. ASSUME NEW T \in SUBSET S, T # {}, \A x \in T : T \ {x} \in G
      PROVE  T \in G
  <2>1. IsFiniteSet(T)
    BY FS_Subset
  <2>2. PICK x \in T : SumFunctionOnSet(f, T) = f[x] + SumFunctionOnSet(f, T \ {x})
    BY <1>2, <2>1, SumPick
  <2> QED BY <1>2, <2>2
<1> HIDE DEF G
<1>3. S \in G
  <2>1. \A T \in SUBSET S : T # {} /\ (\A x \in T : T \ {x} \in G) => T \in G
    BY <1>2
  <2> QED BY <1>1, <2>1, SubsetInduction
<1> QED BY <1>3 DEF G

\* Any element may be taken out first.
LEMMA SumRemove ==
  ASSUME NEW S, IsFiniteSet(S), NEW f, \A y \in S : f[y] \in Int, NEW x \in S
  PROVE  SumFunctionOnSet(f, S) = f[x] + SumFunctionOnSet(f, S \ {x})
<1> DEFINE Out(T) == \A y \in T : SumFunctionOnSet(f, T) = f[y] + SumFunctionOnSet(f, T \ {y})
           G == {T \in SUBSET S : Out(T)}
<1>1. {} \in G
  OBVIOUS
<1>2. ASSUME NEW T \in SUBSET S, T # {}, \A y \in T : T \ {y} \in G, NEW y \in T
      PROVE  SumFunctionOnSet(f, T) = f[y] + SumFunctionOnSet(f, T \ {y})
  <2>1. IsFiniteSet(T) /\ IsFiniteSet(T \ {y})
    BY FS_Subset
  <2>2. PICK z \in T : SumFunctionOnSet(f, T) = f[z] + SumFunctionOnSet(f, T \ {z})
    BY <1>2, <2>1, SumPick
  <2>3. CASE z = y
    BY <2>2, <2>3
  <2>4. CASE z # y
    <3>1. SumFunctionOnSet(f, T \ {z}) = f[y] + SumFunctionOnSet(f, (T \ {z}) \ {y})
      BY <1>2, <2>4
    <3>2. SumFunctionOnSet(f, T \ {y}) = f[z] + SumFunctionOnSet(f, (T \ {y}) \ {z})
      BY <1>2, <2>4
    <3>3. (T \ {z}) \ {y} = (T \ {y}) \ {z}
      OBVIOUS
    <3>4. SumFunctionOnSet(f, (T \ {y}) \ {z}) \in Int
      <4>1. IsFiniteSet((T \ {y}) \ {z})
        BY <2>1, FS_Subset
      <4> QED BY <4>1, SumInt
    <3>5. f[y] \in Int /\ f[z] \in Int
      BY <1>2
    <3> DEFINE R == SumFunctionOnSet(f, (T \ {y}) \ {z})
    <3>6. SumFunctionOnSet(f, T) = f[z] + (f[y] + R) /\ SumFunctionOnSet(f, T \ {y}) = f[z] + R
      BY <2>2, <3>1, <3>2, <3>3, Zenon
    <3>7. R \in Int
      BY <3>4
    <3> HIDE DEF R
    <3> QED BY <3>5, <3>6, <3>7
  <2> QED BY <2>3, <2>4
<1>3. ASSUME NEW T \in SUBSET S, T # {}, \A y \in T : T \ {y} \in G
      PROVE  T \in G
  BY <1>2, <1>3
<1> HIDE DEF G
<1>4. S \in G
  <2>1. \A T \in SUBSET S : T # {} /\ (\A y \in T : T \ {y} \in G) => T \in G
    BY <1>3
  <2> QED BY <1>1, <2>1, SubsetInduction
<1> QED BY <1>4 DEF G

\* A sum depends on the values over the set only.
LEMMA SumSame ==
  ASSUME NEW S, IsFiniteSet(S), NEW f, NEW g, \A x \in S : f[x] \in Int /\ g[x] = f[x]
  PROVE  SumFunctionOnSet(g, S) = SumFunctionOnSet(f, S)
<1> DEFINE G == {T \in SUBSET S : SumFunctionOnSet(g, T) = SumFunctionOnSet(f, T)}
<1>1. {} \in G
  BY SumEmpty
<1>2. ASSUME NEW T \in SUBSET S, T # {}, \A x \in T : T \ {x} \in G
      PROVE  T \in G
  <2>1. PICK x \in T : TRUE
    BY <1>2
  <2>2. IsFiniteSet(T)
    BY FS_Subset
  <2>3. SumFunctionOnSet(f, T) = f[x] + SumFunctionOnSet(f, T \ {x})
    BY <2>2, SumRemove
  <2>4. SumFunctionOnSet(g, T) = g[x] + SumFunctionOnSet(g, T \ {x})
    BY <2>2, SumRemove
  <2> QED BY <1>2, <2>3, <2>4
<1> HIDE DEF G
<1>3. S \in G
  <2>1. \A T \in SUBSET S : T # {} /\ (\A x \in T : T \ {x} \in G) => T \in G
    BY <1>2
  <2> QED BY <1>1, <2>1, SubsetInduction
<1> QED BY <1>3 DEF G

\* One value changes.
LEMMA SumUpdate ==
  ASSUME NEW S, IsFiniteSet(S), NEW f, NEW g, NEW x \in S,
         \A y \in S : f[y] \in Int /\ g[y] \in Int, \A y \in S : y # x => g[y] = f[y]
  PROVE  SumFunctionOnSet(g, S) = SumFunctionOnSet(f, S) + g[x] - f[x]
<1>1. IsFiniteSet(S \ {x})
  BY FS_Subset
<1>2. SumFunctionOnSet(f, S) = f[x] + SumFunctionOnSet(f, S \ {x})
  BY SumRemove
<1>3. SumFunctionOnSet(g, S) = g[x] + SumFunctionOnSet(g, S \ {x})
  BY SumRemove
<1>4. SumFunctionOnSet(g, S \ {x}) = SumFunctionOnSet(f, S \ {x})
  BY <1>1, SumSame
<1>5. SumFunctionOnSet(f, S \ {x}) \in Int
  BY <1>1, SumInt
<1> QED BY <1>2, <1>3, <1>4, <1>5

\* The same for a function that is updated at one element.
LEMMA SumExcept ==
  ASSUME NEW S, IsFiniteSet(S), NEW f \in [S -> Int], NEW x \in S, NEW n \in Int
  PROVE  SumFunctionOnSet([f EXCEPT ![x] = n], S) = SumFunctionOnSet(f, S) + n - f[x]
<1> DEFINE g == [f EXCEPT ![x] = n]
<1>1. g[x] = n /\ \A y \in S : f[y] \in Int /\ g[y] \in Int
  OBVIOUS
<1>2. \A y \in S : y # x => g[y] = f[y]
  OBVIOUS
<1> HIDE DEF g
<1>3. SumFunctionOnSet(g, S) = SumFunctionOnSet(f, S) + g[x] - f[x]
  BY <1>1, <1>2, SumUpdate
<1> QED BY <1>1, <1>3 DEF g

\* Sums add up.
LEMMA SumAdd ==
  ASSUME NEW S, IsFiniteSet(S), NEW f, NEW g, NEW h,
         \A x \in S : f[x] \in Int /\ g[x] \in Int /\ h[x] = f[x] + g[x]
  PROVE  SumFunctionOnSet(h, S) = SumFunctionOnSet(f, S) + SumFunctionOnSet(g, S)
<1> DEFINE G == {T \in SUBSET S :
                   SumFunctionOnSet(h, T) = SumFunctionOnSet(f, T) + SumFunctionOnSet(g, T)}
<1>1. {} \in G
  BY SumEmpty
<1>2. ASSUME NEW T \in SUBSET S, T # {}, \A x \in T : T \ {x} \in G
      PROVE  T \in G
  <2>1. PICK x \in T : TRUE
    BY <1>2
  <2>2. IsFiniteSet(T) /\ IsFiniteSet(T \ {x})
    BY FS_Subset
  <2>3. /\ SumFunctionOnSet(f, T) = f[x] + SumFunctionOnSet(f, T \ {x})
        /\ SumFunctionOnSet(g, T) = g[x] + SumFunctionOnSet(g, T \ {x})
        /\ SumFunctionOnSet(h, T) = h[x] + SumFunctionOnSet(h, T \ {x})
    BY <2>2, SumRemove
  <2>4. SumFunctionOnSet(f, T \ {x}) \in Int /\ SumFunctionOnSet(g, T \ {x}) \in Int
    BY <2>2, SumInt
  <2> QED BY <1>2, <2>3, <2>4
<1> HIDE DEF G
<1>3. S \in G
  <2>1. \A T \in SUBSET S : T # {} /\ (\A x \in T : T \ {x} \in G) => T \in G
    BY <1>2
  <2> QED BY <1>1, <2>1, SubsetInduction
<1> QED BY <1>3 DEF G

\* Elements that add nothing may be left out.
LEMMA SumDrop ==
  ASSUME NEW S, IsFiniteSet(S), NEW f, \A x \in S : f[x] \in Int,
         NEW U \in SUBSET S, \A x \in S \ U : f[x] = 0
  PROVE  SumFunctionOnSet(f, S) = SumFunctionOnSet(f, U)
<1> DEFINE G == {T \in SUBSET S : SumFunctionOnSet(f, T) = SumFunctionOnSet(f, T \cap U)}
<1>1. {} \in G
  <2>1. {} \cap U = {}
    OBVIOUS
  <2> QED BY <2>1
<1>2. ASSUME NEW T \in SUBSET S, T # {}, \A x \in T : T \ {x} \in G
      PROVE  T \in G
  <2>1. PICK x \in T : TRUE
    BY <1>2
  <2>2. IsFiniteSet(T) /\ IsFiniteSet(T \cap U) /\ IsFiniteSet((T \ {x}) \cap U)
    BY FS_Subset
  <2>3. SumFunctionOnSet(f, T) = f[x] + SumFunctionOnSet(f, (T \ {x}) \cap U)
    <3>1. SumFunctionOnSet(f, T) = f[x] + SumFunctionOnSet(f, T \ {x})
      BY <2>2, SumRemove
    <3> QED BY <1>2, <3>1
  <2>4. ASSUME x \in U
        PROVE  SumFunctionOnSet(f, T) = SumFunctionOnSet(f, T \cap U)
    <3>1. SumFunctionOnSet(f, T \cap U) = f[x] + SumFunctionOnSet(f, (T \cap U) \ {x})
      BY <2>2, <2>4, SumRemove
    <3>2. (T \cap U) \ {x} = (T \ {x}) \cap U
      OBVIOUS
    <3> QED BY <2>3, <3>1, <3>2
  <2>5. ASSUME x \notin U
        PROVE  SumFunctionOnSet(f, T) = SumFunctionOnSet(f, T \cap U)
    <3>1. (T \ {x}) \cap U = T \cap U /\ f[x] = 0
      BY <2>5
    <3>2. \A y \in T \cap U : f[y] \in Int
      OBVIOUS
    <3>3. SumFunctionOnSet(f, T \cap U) \in Int
      BY <2>2, <3>2, SumInt
    <3>4. SumFunctionOnSet(f, T) = 0 + SumFunctionOnSet(f, T \cap U)
      BY <2>3, <3>1, Zenon
    <3> QED BY <3>3, <3>4
  <2>6. SumFunctionOnSet(f, T) = SumFunctionOnSet(f, T \cap U)
    BY <2>4, <2>5
  <2> QED BY <2>6
<1> HIDE DEF G
<1>3. S \in G
  <2>1. \A T \in SUBSET S : T # {} /\ (\A x \in T : T \ {x} \in G) => T \in G
    BY <1>2
  <2> QED BY <1>1, <2>1, SubsetInduction
<1>4. S \cap U = U
  OBVIOUS
<1> QED BY <1>3, <1>4 DEF G

\* A set of numbers has a least one.
LEMMA LeastOf ==
  ASSUME NEW T \in SUBSET Nat, T # {}
  PROVE  \E m \in T : \A n \in T : m <= n
<1>1. PICK m \in T : \A n \in T : ~ (<<n, m>> \in OpToRel(<, Nat))
  BY NatLessThanWellFounded, WFMin
<1>2. \A n \in T : ~(n < m)
  BY <1>1 DEF OpToRel
<1> QED BY <1>2

\* Taking e off rows of the sizes f, the highest row first: what is taken off
\* row r of T, and what is taken off in all.
Taken(f, e, T, r) == Least(f[r], Minus(e, SumFunctionOnSet(f, {q \in T : q > r})))

\* No row loses more than it has.
LEMMA TakenType ==
  ASSUME NEW T, IsFiniteSet(T), NEW f, \A q \in T : f[q] \in Nat, NEW e \in Nat, NEW r \in T
  PROVE  Taken(f, e, T, r) \in Nat /\ Taken(f, e, T, r) <= f[r]
<1>1. IsFiniteSet({q \in T : q > r})
  BY FS_Subset
<1>2. SumFunctionOnSet(f, {q \in T : q > r}) \in Nat
  BY <1>1, SumNat
<1> QED BY <1>2 DEF Taken, Least, Minus

\* What is taken off all rows is what was asked for, or everything.
LEMMA CutsAddUp ==
  ASSUME NEW S \in SUBSET Nat, IsFiniteSet(S), NEW f, \A q \in S : f[q] \in Nat, NEW e \in Nat
  PROVE  SumFunctionOnSet([r \in S |-> Taken(f, e, S, r)], S) = Least(e, SumFunctionOnSet(f, S))
<1> DEFINE C(T) == [r \in T |-> Taken(f, e, T, r)]
           G == {T \in SUBSET S : SumFunctionOnSet(C(T), T) = Least(e, SumFunctionOnSet(f, T))}
<1>1. {} \in G
  BY SumEmpty DEF Least
<1>2. ASSUME NEW T \in SUBSET S, T # {}, \A x \in T : T \ {x} \in G
      PROVE  T \in G
  <2>1. PICK x \in T : \A q \in T : x <= q
    BY <1>2, LeastOf
  <2> DEFINE U == T \ {x}
             u == SumFunctionOnSet(f, U)
  <2>2. IsFiniteSet(T) /\ IsFiniteSet(U)
    BY FS_Subset
  <2>3. u \in Nat /\ f[x] \in Nat
    BY <2>2, SumNat
  <2>4. SumFunctionOnSet(f, T) = f[x] + u
    <3>1. \A q \in T : f[q] \in Int
      OBVIOUS
    <3> QED BY <2>2, <3>1, SumRemove
  <2>5. SumFunctionOnSet(C(U), U) = Least(e, u)
    BY <1>2
  <2>6. \A r \in T : C(T)[r] \in Nat
    BY <2>2, TakenType
  <2>7. SumFunctionOnSet(C(T), T) = C(T)[x] + SumFunctionOnSet(C(T), U)
    <3> DEFINE c == C(T)
    <3>1. \A r \in T : c[r] \in Int
      BY <2>6
    <3> HIDE DEF c
    <3>2. SumFunctionOnSet(c, T) = c[x] + SumFunctionOnSet(c, T \ {x})
      BY <2>2, <3>1, SumRemove
    <3> QED BY <3>2 DEF c
  <2>8. SumFunctionOnSet(C(T), U) = SumFunctionOnSet(C(U), U)
    <3>1. ASSUME NEW r \in U
          PROVE  C(U)[r] \in Int /\ C(T)[r] = C(U)[r]
      <4>1. {q \in T : q > r} = {q \in U : q > r}
        <5>1. ~(x > r)
          BY <2>1
        <5> QED BY <5>1
      <4>2. C(T)[r] = C(U)[r]
        BY <4>1 DEF Taken
      <4> QED BY <2>6, <4>2
    <3> DEFINE c == C(T)
               d == C(U)
    <3>2. \A r \in U : d[r] \in Int /\ c[r] = d[r]
      BY <3>1
    <3> HIDE DEF c, d
    <3>3. SumFunctionOnSet(c, U) = SumFunctionOnSet(d, U)
      BY <2>2, <3>2, SumSame
    <3> QED BY <3>3 DEF c, d
  <2>9. C(T)[x] = Least(f[x], Minus(e, u))
    <3>1. \A q \in T : q > x <=> q # x
      <4>1. \A q \in T : q \in Nat
        OBVIOUS
      <4> QED BY <2>1, <4>1
    <3>2. {q \in T : q > x} = U
      BY <3>1
    <3> QED BY <3>2 DEF Taken
  <2>10. Least(f[x], Minus(e, u)) + Least(e, u) = Least(e, f[x] + u)
    BY <2>3 DEF Least, Minus
  <2> QED BY <2>4, <2>5, <2>7, <2>8, <2>9, <2>10
<1> HIDE DEF G
<1>3. S \in G
  <2>1. \A T \in SUBSET S : T # {} /\ (\A x \in T : T \ {x} \in G) => T \in G
    BY <1>2
  <2> QED BY <1>1, <2>1, SubsetInduction
<1> QED BY <1>3 DEF G

-----------------------------------------------------------------------------
(* What a step does to the columns.                                        *)

\* The ledger's columns are functions on its rows and references.
Ledger ==
  /\ out    = [k \in Refs |-> out[k]]
  /\ entry  = [r \in Rows |-> entry[r]]
  /\ gross  = [r \in Rows |-> gross[r]]
  /\ manual = [r \in Rows |-> manual[r]]

RefundsKept ==
  \A k \in Refs \ {Partial} : out[k] # 0 => out'[k] = out[k]

CardRowsKept ==
  \A r \in CompletedRows :
    ~manual[r] => /\ gross'[r] = gross[r]
                  /\ entry'[r] = "failed" => lesson' = "archived"
                  /\ entry'[r] # "deleted"

\* What a step does to the refund lines.
RefundStep == out' = [k \in Refs |-> out'[k]] /\ RefundsKept

\* What a step does to the income rows.
IncomeStep ==
  /\ entry'  = [r \in Rows |-> entry'[r]]
  /\ gross'  = [r \in Rows |-> gross'[r]]
  /\ manual' = [r \in Rows |-> manual'[r]]
  /\ CardRowsKept

\* Writing a refund line that is still empty keeps the others.
LEMMA WriteKeeps ==
  ASSUME Ledger, NEW k \in Refs, NEW amt, k = Partial \/ out[k] = 0,
         out' = [out EXCEPT ![k] = @ + amt]
  PROVE  RefundStep
BY DEF Ledger, RefundStep, RefundsKept

\* The booking's own references and those of its payments.
LEMMA RefsMembers == Own \in Refs /\ Synthetic \in Refs /\ Partial \in Refs /\ Rows \subseteq Refs
BY DEF Refs, Own, Synthetic, Partial

\* Normalizing only turns refunded rows into completed ones.
LEMMA NormalizedKeeps ==
  ASSUME Ledger
  PROVE  /\ Normalized = [r \in Rows |-> Normalized[r]]
         /\ \A r \in Rows : entry[r] # "refunded" => Normalized[r] = entry[r]
<1>1. CASE \E k \in Refs : out[k] > dead[k]
  BY <1>1 DEF Normalized, Ledger
<1>2. CASE ~ \E k \in Refs : out[k] > dead[k]
  BY <1>2 DEF Normalized, Ledger
<1> QED BY <1>1, <1>2

\* An inserted row takes an unused id.
LEMMA InsertKeeps ==
  ASSUME Ledger, NEW r \in Rows, NEW g, NEW st, NEW m, Insert(r, g, st, m)
  PROVE  IncomeStep
BY DEF Ledger, Insert, NextRow, Unused, IncomeStep, CardRowsKept, CompletedRows

\* The refund of a cancelled booking writes a line that was not there.
LEMMA CancellationKeeps ==
  ASSUME Ledger, CancellationRefund, UNCHANGED <<gross, manual>>
  PROVE  RefundStep /\ IncomeStep
<1>1. CASE UNCHANGED <<entry, refundLines>>
  BY <1>1 DEF Ledger, RefundStep, RefundsKept, IncomeStep, CardRowsKept, CompletedRows, refundLines
<1>2. ASSUME NEW k \in Refs, NEW amt, k = Partial \/ out[k] = 0, WriteRefund(k, amt)
      PROVE  RefundStep /\ IncomeStep
  <2>1. RefundStep
    BY <1>2, WriteKeeps DEF WriteRefund
  <2>2. entry' = Normalized
    BY <1>2 DEF WriteRefund
  <2>3. IncomeStep
    BY <2>2, NormalizedKeeps DEF Ledger, IncomeStep, CardRowsKept, CompletedRows
  <2> QED BY <2>1, <2>3
<1>3. \/ UNCHANGED <<entry, refundLines>>
      \/ out[Synthetic] = 0 /\ WriteRefund(Synthetic, Price)
      \/ out[Own] = 0 /\ WriteRefund(Own, Minus(IncomeAsNormalized, LiveRefunds))
      \/ WriteRefund(Partial, Price)
  BY DEF CancellationRefund
<1> QED BY <1>1, <1>2, <1>3, RefsMembers

\* Balancing the ledger cuts manual rows only.
LEMMA SyncKeeps ==
  ASSUME Ledger, NEW target, SyncIncome(target)
  PROVE  IncomeStep
<1> DEFINE excess  == Minus(ActiveIncome, target)
           settled == [r \in Rows |-> IF r \in ActiveRows /\ target > 0
                                      THEN "completed" ELSE entry[r]]
<1>1. CASE ActiveIncome < target
  <2>1. PICK r \in Rows : /\ NextRow(r)
                          /\ entry'  = [settled EXCEPT ![r] = "completed"]
                          /\ gross'  = [gross EXCEPT ![r] = Installment(target)]
                          /\ manual' = [manual EXCEPT ![r] = TRUE]
    BY <1>1 DEF SyncIncome
  <2>2. \A q \in CompletedRows : q # r /\ entry'[q] = "completed" /\ gross'[q] = gross[q]
    BY <2>1 DEF Ledger, CompletedRows, NextRow, Unused
  <2> QED
    BY <2>1, <2>2 DEF Ledger, IncomeStep, CardRowsKept
<1>2. CASE ~(ActiveIncome < target)
  <2>1. /\ entry' = [r \in Rows |-> IF Cut(r, excess) > 0 /\ Cut(r, excess) = gross[r]
                                     THEN "failed" ELSE settled[r]]
        /\ gross' = [r \in Rows |-> IF Cut(r, excess) > 0 /\ Cut(r, excess) < gross[r]
                                     THEN gross[r] - Cut(r, excess) ELSE gross[r]]
        /\ manual' = manual
    BY <1>2 DEF SyncIncome
  <2>2. \A r \in Rows : ~manual[r] => Cut(r, excess) = 0
    BY DEF Cut
  <2>3. \A r \in CompletedRows : ~manual[r] => entry'[r] = "completed" /\ gross'[r] = gross[r]
    BY <2>1, <2>2 DEF CompletedRows
  <2> QED
    BY <2>1, <2>3 DEF Ledger, IncomeStep, CardRowsKept
<1> QED BY <1>1, <1>2

\* A step that leaves the rows or the lines alone keeps them.
LEMMA RefundFrame ==
  ASSUME Ledger, out' = out
  PROVE  RefundStep
BY DEF Ledger, RefundStep, RefundsKept

\* A step that leaves the income rows alone keeps those of card payments.
LEMMA IncomeFrame ==
  ASSUME Ledger, UNCHANGED <<entry, gross, manual>>
  PROVE  IncomeStep
BY DEF Ledger, IncomeStep, CardRowsKept, CompletedRows

\* A row whose status is set to one it may have while the money is kept.
LEMMA StatusFrame ==
  ASSUME Ledger, NEW r, NEW st \in {"completed", "pending"},
         entry' = [entry EXCEPT ![r] = st], UNCHANGED <<gross, manual>>
  PROVE  IncomeStep
BY DEF Ledger, IncomeStep, CardRowsKept, CompletedRows

-----------------------------------------------------------------------------
(* One step of each actor.                                                 *)

\* What the student does to the ledger.
LEMMA StudentStep ==
  ASSUME Ledger, ByStudent
  PROVE  RefundStep /\ IncomeStep
<1>1. CASE CardPayment
  <2>1. RefundStep
    BY <1>1, RefundFrame DEF CardPayment, refundLines
  <2>2. CASE UNCHANGED incomeRows
    BY <2>1, <2>2, IncomeFrame DEF incomeRows
  <2>3. CASE \E r \in Rows : Insert(r, Remaining(Price), "completed", FALSE)
    BY <2>1, <2>3, InsertKeeps
  <2> QED BY <1>1, <2>2, <2>3 DEF CardPayment
<1>2. CASE CancelByStudent
  BY <1>2, RefundFrame, IncomeFrame DEF CancelByStudent, refundLines, incomeRows
<1> QED BY <1>1, <1>2 DEF ByStudent

\* What staff do to the ledger in one step.
LEMMA StaffStep ==
  ASSUME Ledger, ByStaff
  PROVE  RefundStep /\ IncomeStep
<1>1. CASE ApproveCancellation
  <2>1. CASE paidAt /\ lesson = "confirmed"
    BY <1>1, <2>1, CancellationKeeps DEF ApproveCancellation
  <2>2. CASE ~(paidAt /\ lesson = "confirmed")
    BY <1>1, <2>2, RefundFrame, IncomeFrame DEF ApproveCancellation, refundLines
  <2> QED BY <2>1, <2>2
<1>2. CASE RejectCancellation
  BY <1>2, RefundFrame, IncomeFrame DEF RejectCancellation, refundLines, incomeRows
<1>3. CASE Archive
  <2>1. RefundStep
    BY <1>3, RefundFrame DEF Archive
  <2>2. IncomeStep
    BY <1>3 DEF Archive, Ledger, IncomeStep, CardRowsKept, CompletedRows
  <2> QED BY <2>1, <2>2
<1>4. ASSUME NEW r \in Rows, RemoveManual(r)
      PROVE  RefundStep /\ IncomeStep
  <2>1. RefundStep
    BY <1>4, RefundFrame DEF RemoveManual, refundLines
  <2>2. IncomeStep
    BY <1>4 DEF RemoveManual, Ledger, IncomeStep, CardRowsKept, CompletedRows
  <2> QED BY <2>1, <2>2
<1>5. ASSUME NEW r \in Rows, ApproveRefund(r)
      PROVE  RefundStep /\ IncomeStep
  <2>1. PICK g \in 1 .. gross[r] : RefundPayment(r, g)
    BY <1>5 DEF ApproveRefund
  <2>2. RefundStep
    BY <1>5, <2>1, WriteKeeps, RefsMembers DEF RefundPayment, ApproveRefund
  <2>3. IncomeStep
    BY <2>1, NormalizedKeeps DEF RefundPayment, Ledger, IncomeStep, CardRowsKept, CompletedRows
  <2> QED BY <2>2, <2>3
<1> QED BY <1>1, <1>2, <1>3, <1>4, <1>5 DEF ByStaff

\* What staff's edit of the booking does to the ledger when it is written.
LEMMA PatchStep ==
  ASSUME Ledger, NEW a \in Requests, NEW status, NEW pay, PatchWrite(a, status, pay)
  PROVE  RefundStep /\ IncomeStep
<1> DEFINE next == Lifecycle(a, status, pay)
<1>1. CASE MarksRefunded(a, next)
  <2>1. CancellationRefund /\ UNCHANGED <<gross, manual, ask>>
    BY <1>1 DEF PatchWrite
  <2> QED BY <2>1, CancellationKeeps
<1>2. CASE ~MarksRefunded(a, next)
  <2>1. UNCHANGED refundLines
    BY <1>2 DEF PatchWrite
  <2>2. CASE lesson' \in Closed
    <3>1. UNCHANGED incomeRows
      BY <1>2, <2>2 DEF PatchWrite
    <3> QED BY <2>1, <3>1, RefundFrame, IncomeFrame DEF refundLines, incomeRows
  <2>3. CASE lesson' \notin Closed
    <3>1. SyncIncome(CollectedAs(pstatus', amount'))
      BY <1>2, <2>3 DEF PatchWrite
    <3> QED BY <2>1, <3>1, RefundFrame, SyncKeeps DEF refundLines
  <2> QED BY <2>2, <2>3
<1> QED BY <1>1, <1>2

\* What a request does to the ledger.
LEMMA RequestStep ==
  ASSUME Ledger, NEW a \in Requests, ByRequest(a)
  PROVE  RefundStep /\ IncomeStep
<1>1. ASSUME CreateRead(a) \/ CreateSum(a) \/ PatchRead(a) \/ RequestFails(a)
             \/ \E r \in Rows : RequestRefund(a, r) \/ RejectRefund(a, r)
      PROVE  RefundStep /\ IncomeStep
  <2>1. UNCHANGED <<incomeRows, refundLines>>
    BY <1>1 DEF CreateRead, CreateSum, PatchRead, RequestFails, RequestRefund, RejectRefund
  <2> QED BY <2>1, RefundFrame, IncomeFrame DEF incomeRows, refundLines
<1>2. CASE CreateInsert(a)
  <2>1. PICK r \in Rows, g \in 1 .. aim[a] : Insert(r, g, mark[a], TRUE)
    BY <1>2 DEF CreateInsert
  <2> QED BY <1>2, <2>1, InsertKeeps, RefundFrame DEF CreateInsert, refundLines
<1>3. CASE RequestRefundWrite(a)
  <2>1. UNCHANGED <<gross, manual, out>>
    BY <1>3 DEF RequestRefundWrite, refundLines
  <2>2. CASE entry[at[a]] = "deleted"
    BY <1>3, <2>1, <2>2, RefundFrame, IncomeFrame DEF RequestRefundWrite
  <2>3. CASE entry[at[a]] # "deleted"
    BY <1>3, <2>1, <2>3, RefundFrame, StatusFrame DEF RequestRefundWrite
  <2> QED BY <2>2, <2>3
<1>4. CASE RejectRefundWrite(a)
  <2>1. UNCHANGED <<gross, manual, out>>
    BY <1>4 DEF RejectRefundWrite, refundLines
  <2>2. CASE entry[at[a]] = "deleted"
    BY <1>4, <2>1, <2>2, RefundFrame, IncomeFrame DEF RejectRefundWrite
  <2>3. CASE entry[at[a]] # "deleted"
    BY <1>4, <2>1, <2>3, RefundFrame, StatusFrame DEF RejectRefundWrite
  <2> QED BY <2>2, <2>3
<1>5. CASE Patch(a)
  BY <1>5, PatchStep DEF Patch
<1> QED BY <1>1, <1>2, <1>3, <1>4, <1>5 DEF ByRequest

\* Every step of the system, and every stutter.
LEMMA LedgerStep ==
  ASSUME Ledger, [Next]_vars
  PROVE  RefundStep /\ IncomeStep
<1>1. CASE TimePasses
  BY <1>1, RefundFrame, IncomeFrame DEF TimePasses, refundLines, incomeRows
<1>2. CASE UNCHANGED vars
  BY <1>2, RefundFrame, IncomeFrame DEF vars, refundLines, incomeRows
<1> QED BY <1>1, <1>2, StudentStep, StaffStep, RequestStep DEF Next

\* The columns range over the rows and references, always.
LEMMA LedgerInductive == Spec => []Ledger
<1>1. Init => Ledger
  BY DEF Init, Ledger
<1>2. Ledger /\ [Next]_vars => Ledger'
  BY LedgerStep DEF Ledger, RefundStep, IncomeStep
<1> QED BY <1>1, <1>2, PTL DEF Spec

-----------------------------------------------------------------------------
(* Results.                                                                *)

\* A refund line of a payment, the booking's own one and the synthetic one are
\* each written at most once, whatever staff and student do in what order.
THEOREM RefundsAreWrittenOnce == Spec => RefundedOncePerRef
<1>1. Ledger /\ [Next]_vars => [RefundsKept]_vars
  BY LedgerStep DEF RefundStep
<1>2. [RefundsKept]_vars => [\A k \in Refs \ {Partial} : out[k] # 0 => out'[k] = out[k]]_vars
  BY DEF RefundsKept
<1> QED BY <1>1, <1>2, LedgerInductive, PTL DEF Spec, RefundedOncePerRef

\* Staff edits never change, delete or take back the row of a card payment.
THEOREM CardIncomeIsKept == Spec => CardIncomeKept
<1>1. Ledger /\ [Next]_vars => [CardRowsKept]_vars
  BY LedgerStep DEF IncomeStep
<1>2. [CardRowsKept]_vars =>
        [\A r \in CompletedRows :
           ~manual[r] => /\ gross'[r] = gross[r]
                         /\ entry'[r] = "failed" => lesson' = "archived"
                         /\ entry'[r] # "deleted"]_vars
  BY DEF CardRowsKept
<1> QED BY <1>1, <1>2, LedgerInductive, PTL DEF Spec, CardIncomeKept

-----------------------------------------------------------------------------
(* The types, with what the sums rest on.                                  *)

BookingOK ==
  /\ lesson \in BookingStatus
  /\ pstatus \in PaymentStatus
  /\ amount \in 0 .. Price
  /\ paidAt \in BOOLEAN
  /\ requested \in BOOLEAN
  /\ early \in BOOLEAN

\* A row that was not deleted has money on it, so a manual row that is cut to
\* nothing is failed and does not stay behind empty.
IncomeOK ==
  /\ entry \in [Rows -> EntryStatus]
  /\ gross \in [Rows -> 0 .. Price]
  /\ manual \in [Rows -> BOOLEAN]
  /\ ask \in [Rows -> BOOLEAN]
  /\ \A r \in Rows : entry[r] \notin {"none", "deleted"} => gross[r] > 0

RefundsOK ==
  /\ out \in [Refs -> 0 .. MaxOut]
  /\ dead \in [Refs -> 0 .. MaxOut]
  /\ \A k \in Refs : dead[k] <= out[k]

MemoryOK ==
  /\ pc \in [Requests -> {"idle", "sum", "insert", "ask", "reject", "patch"}]
  /\ at \in [Requests -> Rows]
  /\ aim \in [Requests -> 0 .. Price]
  /\ mark \in [Requests -> {"completed", "refunded", "failed"}]
  /\ seenLesson \in [Requests -> BookingStatus]
  /\ seenStatus \in [Requests -> PaymentStatus]
  /\ seenAmount \in [Requests -> 0 .. Price]
  /\ seenPaidAt \in [Requests -> BOOLEAN]

\* The row a request read is one that exists; a late write makes no other.
ReadRowsExist == \A a \in Requests : pc[a] \in {"ask", "reject"} => entry[at[a]] # "none"

IInv == BookingOK /\ IncomeOK /\ RefundsOK /\ MemoryOK /\ ReadRowsExist

\* No row disappears.
Grown == \A r \in Rows : entry[r] # "none" => entry'[r] # "none"

\* The bounds are numbers.
LEMMA Numbers == Price \in Nat \ {0} /\ MaxRows \in Nat \ {0} /\ MaxOut \in Nat
BY PriceAssumption, BoundAssumption

\* The ledger is finite, and so is every part of it.
LEMMA FiniteLedger == IsFiniteSet(Rows) /\ IsFiniteSet(Refs) /\ Rows \subseteq Nat
<1>1. IsFiniteSet(Rows)
  BY Numbers, FS_Interval DEF Rows
<1>2. IsFiniteSet({Own, Synthetic, Partial})
  <2>1. IsFiniteSet({} \cup {Own}) /\ IsFiniteSet(({} \cup {Own}) \cup {Synthetic})
    BY FS_EmptySet, FS_AddElement
  <2>2. IsFiniteSet((({} \cup {Own}) \cup {Synthetic}) \cup {Partial})
    BY <2>1, FS_AddElement
  <2>3. (({} \cup {Own}) \cup {Synthetic}) \cup {Partial} = {Own, Synthetic, Partial}
    OBVIOUS
  <2> QED BY <2>2, <2>3
<1>3. IsFiniteSet(Refs)
  BY <1>1, <1>2, FS_Union DEF Refs
<1>4. Rows \subseteq Nat
  BY Numbers DEF Rows
<1> QED BY <1>1, <1>3, <1>4

\* Any part of the income adds up to a number.
LEMMA IncomeTotals ==
  ASSUME IncomeOK, NEW T \in SUBSET Rows
  PROVE  IsFiniteSet(T) /\ SumFunctionOnSet(gross, T) \in Nat
<1>1. IsFiniteSet(T)
  BY FiniteLedger, FS_Subset
<1>2. \A r \in T : gross[r] \in Nat
  BY Numbers DEF IncomeOK
<1> QED BY <1>1, <1>2, SumNat

\* So does everything the handlers compute from the ledger.
LEMMA Totals ==
  ASSUME IncomeOK, RefundsOK
  PROVE  ActiveIncome \in Nat /\ IncomeAsNormalized \in Nat /\ LiveRefunds \in Nat
<1>1. ActiveIncome \in Nat /\ IncomeAsNormalized \in Nat
  BY IncomeTotals DEF ActiveIncome, IncomeAsNormalized, ActiveRows
<1>2. LiveRefunds \in Nat
  <2> DEFINE f == [k \in Refs |-> out[k] - dead[k]]
  <2>1. \A k \in Refs : f[k] \in Nat
    BY Numbers DEF RefundsOK
  <2> HIDE DEF f
  <2>2. SumFunctionOnSet(f, Refs) \in Nat
    BY <2>1, FiniteLedger, SumNat
  <2> QED BY <2>2 DEF LiveRefunds, f
<1> QED BY <1>1, <1>2

\* What a booking has collected lies between nothing and its price.
LEMMA CollectedType ==
  ASSUME NEW st \in PaymentStatus, NEW amt \in 0 .. Price
  PROVE  CollectedAs(st, amt) \in 0 .. Price
BY Numbers DEF CollectedAs, PaymentStatus, Least

\* What is left to record is no more than what was aimed at.
LEMMA RemainingType ==
  ASSUME IncomeOK, RefundsOK, NEW target \in 0 .. Price
  PROVE  Remaining(target) \in 0 .. target /\ Remaining(target) \in 0 .. Price
BY Totals, Numbers DEF Remaining, Minus

\* A finished request has forgotten everything.
LEMMA Finished ==
  ASSUME MemoryOK, NEW a \in Requests, Finish(a)
  PROVE  MemoryOK' /\ pc'[a] = "idle" /\ \A b \in Requests \ {a} : pc'[b] = pc[b] /\ at'[b] = at[b]
BY Numbers DEF MemoryOK, Finish, Rows, BookingStatus, PaymentStatus

\* A row that is still there is where a request that reads on looks for it.
LEMMA StillThere ==
  ASSUME MemoryOK, ReadRowsExist, Grown,
         \A b \in Requests : pc'[b] \in {"ask", "reject"} => pc'[b] = pc[b] /\ at'[b] = at[b]
  PROVE  ReadRowsExist'
BY DEF MemoryOK, ReadRowsExist, Grown

\* Income rows that are left alone.
LEMMA SameRows ==
  ASSUME IncomeOK, UNCHANGED incomeRows
  PROVE  IncomeOK' /\ Grown
BY DEF IncomeOK, Grown, incomeRows

\* A row that is inserted with money on it.
LEMMA Inserted ==
  ASSUME IncomeOK, NEW r \in Rows, NEW g \in 1 .. Price, NEW st \in {"completed", "refunded", "failed"},
         NEW m \in BOOLEAN, Insert(r, g, st, m)
  PROVE  IncomeOK' /\ Grown
BY Numbers DEF IncomeOK, Grown, Insert, EntryStatus

\* Normalizing turns refunded rows into completed ones, or does nothing.
LEMMA NormalizedType ==
  ASSUME IncomeOK
  PROVE  /\ Normalized \in [Rows -> EntryStatus]
         /\ \A r \in Rows : Normalized[r] = entry[r] \/ (entry[r] = "refunded" /\ Normalized[r] = "completed")
<1>1. CASE \E k \in Refs : out[k] > dead[k]
  BY <1>1 DEF Normalized, IncomeOK
<1>2. CASE ~ \E k \in Refs : out[k] > dead[k]
  BY <1>2 DEF Normalized, IncomeOK, EntryStatus
<1> QED BY <1>1, <1>2

\* A refund line that is written stays within its bound and above what is void.
LEMMA Written ==
  ASSUME IncomeOK, RefundsOK, NEW k \in Refs, NEW amt \in Nat, WriteRefund(k, amt),
         UNCHANGED <<gross, manual, ask>>
  PROVE  IncomeOK' /\ RefundsOK' /\ Grown
<1>1. RefundsOK'
  BY Numbers DEF RefundsOK, WriteRefund
<1>2. entry' = Normalized
  BY DEF WriteRefund
<1>3. IncomeOK' /\ Grown
  BY <1>2, NormalizedType DEF IncomeOK, Grown
<1> QED BY <1>1, <1>3

\* What the ledger allows to give back is a number.
LEMMA CapType ==
  ASSUME IncomeOK, RefundsOK
  PROVE  Minus(IncomeAsNormalized, LiveRefunds) \in Nat
BY Totals DEF Minus

\* applyBookingCancellationRefundLedgerInTx
LEMMA CancellationTyped ==
  ASSUME IncomeOK, RefundsOK, CancellationRefund, UNCHANGED <<gross, manual, ask>>
  PROVE  IncomeOK' /\ RefundsOK' /\ Grown
<1>1. CASE UNCHANGED <<entry, refundLines>>
  BY <1>1, SameRows DEF incomeRows, refundLines, RefundsOK
<1>2. CASE WriteRefund(Synthetic, Price) \/ WriteRefund(Partial, Price)
           \/ WriteRefund(Own, Minus(IncomeAsNormalized, LiveRefunds))
  BY <1>2, Written, CapType, RefsMembers, Numbers
<1> QED BY <1>1, <1>2 DEF CancellationRefund

\* Cutting leaves something on a row, or fails it with what it had.
LEMMA CutType ==
  ASSUME IncomeOK, NEW r \in Rows, NEW excess \in Nat
  PROVE  Cut(r, excess) \in 0 .. gross[r]
<1>1. NewerManual(r) \in SUBSET Rows
  BY DEF NewerManual, ActiveRows
<1>2. SumFunctionOnSet(gross, NewerManual(r)) \in Nat /\ gross[r] \in Nat
  BY <1>1, IncomeTotals, Numbers DEF IncomeOK
<1> QED BY <1>2 DEF Cut, Least, Minus

\* syncBookingCollectedIncome
LEMMA Synced ==
  ASSUME IncomeOK, RefundsOK, NEW target \in 0 .. Price, SyncIncome(target)
  PROVE  IncomeOK' /\ Grown
<1> DEFINE excess  == Minus(ActiveIncome, target)
           settled == [r \in Rows |-> IF r \in ActiveRows /\ target > 0 THEN "completed" ELSE entry[r]]
<1>1. ActiveIncome \in Nat /\ target \in Nat /\ target <= Price /\ Price \in Nat /\ excess \in Nat
  BY Totals, Numbers DEF Minus
<1>2. /\ settled \in [Rows -> EntryStatus]
      /\ \A r \in Rows : \/ settled[r] = entry[r]
                         \/ settled[r] = "completed" /\ entry[r] \in {"completed", "pending"}
  BY DEF IncomeOK, EntryStatus, ActiveRows
<1>3. CASE ActiveIncome < target
  <2>1. PICK r \in Rows : /\ NextRow(r)
                          /\ entry'  = [settled EXCEPT ![r] = "completed"]
                          /\ gross'  = [gross EXCEPT ![r] = Installment(target)]
                          /\ manual' = [manual EXCEPT ![r] = TRUE]
                          /\ ask' = ask
    BY <1>3 DEF SyncIncome
  <2>2. Installment(target) \in 1 .. Price
    BY <1>1, <1>3 DEF Installment, Minus
  <2> HIDE DEF settled
  <2>3. IncomeOK'
    BY <1>2, <2>1, <2>2, Numbers DEF IncomeOK, EntryStatus
  <2>4. Grown
    <3>1. ASSUME NEW q \in Rows, entry[q] # "none"
          PROVE  entry'[q] # "none"
      <4>1. settled[q] # "none"
        BY <1>2, <3>1
      <4> QED BY <1>2, <2>1, <4>1
    <3> QED BY <3>1 DEF Grown
  <2> QED BY <2>3, <2>4
<1>4. CASE ~(ActiveIncome < target)
  <2>1. /\ entry' = [r \in Rows |-> IF Cut(r, excess) > 0 /\ Cut(r, excess) = gross[r]
                                     THEN "failed" ELSE settled[r]]
        /\ gross' = [r \in Rows |-> IF Cut(r, excess) > 0 /\ Cut(r, excess) < gross[r]
                                     THEN gross[r] - Cut(r, excess) ELSE gross[r]]
        /\ UNCHANGED <<manual, ask>>
    BY <1>4 DEF SyncIncome
  <2>2. \A r \in Rows : Cut(r, excess) \in Nat /\ gross[r] \in 0 .. Price
    BY <1>1, CutType DEF IncomeOK
  <2> HIDE DEF settled, excess
  <2>3. gross' \in [Rows -> 0 .. Price]
    BY <2>1, <2>2, Numbers
  <2>4. entry' \in [Rows -> EntryStatus]
    BY <1>2, <2>1 DEF EntryStatus
  <2>5. \A r \in Rows : entry'[r] \notin {"none", "deleted"} => gross'[r] > 0
    <3>1. ASSUME NEW r \in Rows, entry'[r] \notin {"none", "deleted"}
          PROVE  gross'[r] > 0
      <4>1. gross[r] > 0
        <5>1. CASE Cut(r, excess) > 0 /\ Cut(r, excess) = gross[r]
          BY <5>1
        <5>2. CASE ~(Cut(r, excess) > 0 /\ Cut(r, excess) = gross[r])
          <6>1. settled[r] \notin {"none", "deleted"}
            BY <2>1, <3>1, <5>2
          <6>2. entry[r] \notin {"none", "deleted"}
            BY <1>2, <6>1
          <6> QED BY <6>2 DEF IncomeOK
        <5> QED BY <5>1, <5>2
      <4> QED BY <2>1, <2>2, <4>1, Numbers
    <3> QED BY <3>1
  <2>6. Grown
    <3>1. ASSUME NEW r \in Rows, entry[r] # "none"
          PROVE  entry'[r] # "none"
      <4>1. settled[r] # "none"
        BY <1>2, <3>1
      <4> QED BY <2>1, <4>1
    <3> QED BY <3>1 DEF Grown
  <2> QED BY <2>1, <2>3, <2>4, <2>5, <2>6 DEF IncomeOK
<1> QED BY <1>3, <1>4

-----------------------------------------------------------------------------
(* The types are kept.                                                     *)

\* A booking that has just been made.
LEMMA InitTypes == Init => IInv
<1> SUFFICES ASSUME Init PROVE IInv
  OBVIOUS
<1>1. BookingOK
  <2>1. 0 \in 0 .. Price
    BY Numbers
  <2> QED BY <2>1, Zenon DEF Init, BookingOK, BookingStatus, PaymentStatus
<1>2. IncomeOK
  BY Numbers DEF Init, IncomeOK, EntryStatus
<1>3. RefundsOK
  BY Numbers DEF Init, RefundsOK
<1>4. MemoryOK /\ ReadRowsExist
  <2>1. 1 \in Rows
    BY Numbers DEF Rows
  <2> QED BY <2>1, Numbers DEF Init, MemoryOK, ReadRowsExist, BookingStatus, PaymentStatus
<1> QED BY <1>1, <1>2, <1>3, <1>4 DEF IInv

\* A step that leaves the requests alone.
LEMMA OtherMemory ==
  ASSUME MemoryOK, ReadRowsExist, Grown, UNCHANGED memory
  PROVE  MemoryOK' /\ ReadRowsExist'
<1>1. MemoryOK'
  BY DEF MemoryOK, memory, loaded
<1>2. ReadRowsExist'
  BY StillThere DEF memory
<1> QED BY <1>1, <1>2

\* The student pays or cancels.
LEMMA StudentTypes ==
  ASSUME IInv, ByStudent
  PROVE  IInv'
<1> USE DEF IInv
<1>1. UNCHANGED refundLines /\ UNCHANGED memory
  BY DEF ByStudent, CardPayment, CancelByStudent
<1>2. RefundsOK'
  BY <1>1 DEF RefundsOK, refundLines
<1>3. BookingOK'
  <2>1. CASE CardPayment
    BY <2>1, Numbers DEF CardPayment, BookingOK, BookingStatus, PaymentStatus
  <2>2. CASE CancelByStudent
    BY <2>2 DEF CancelByStudent, BookingOK, BookingStatus, payment
  <2> QED BY <2>1, <2>2 DEF ByStudent
<1>4. IncomeOK' /\ Grown
  <2>1. CASE UNCHANGED incomeRows
    BY <2>1, SameRows
  <2>2. CASE Remaining(Price) > 0 /\ \E r \in Rows : Insert(r, Remaining(Price), "completed", FALSE)
    <3>1. Remaining(Price) \in 1 .. Price
      BY <2>2, RemainingType, Numbers
    <3> QED BY <2>2, <3>1, Inserted
  <2> QED BY <2>1, <2>2 DEF ByStudent, CardPayment, CancelByStudent
<1> QED BY <1>1, <1>2, <1>3, <1>4, OtherMemory

\* Staff decide, archive and delete income, one action at a time.
LEMMA StaffTypes ==
  ASSUME IInv, ByStaff
  PROVE  IInv'
<1> USE DEF IInv
<1>1. CASE ApproveCancellation
  <2>1. BookingOK' /\ UNCHANGED memory /\ UNCHANGED <<gross, manual, ask>>
    BY <1>1 DEF ApproveCancellation, BookingOK, BookingStatus, payment
  <2>2. CASE CancellationRefund
    BY <2>1, <2>2, CancellationTyped, OtherMemory
  <2>3. CASE UNCHANGED <<entry, refundLines>>
    BY <2>1, <2>3, SameRows, OtherMemory DEF incomeRows, RefundsOK, refundLines
  <2> QED BY <1>1, <2>2, <2>3 DEF ApproveCancellation
<1>2. CASE RejectCancellation
  BY <1>2, SameRows, OtherMemory DEF RejectCancellation, BookingOK, RefundsOK, refundLines, payment
<1>3. CASE Archive
  <2>1. BookingOK' /\ UNCHANGED memory
    BY <1>3 DEF Archive, BookingOK, BookingStatus, payment
  <2>2. RefundsOK'
    BY <1>3, Numbers DEF Archive, RefundsOK
  <2>3. IncomeOK' /\ Grown
    BY <1>3 DEF Archive, IncomeOK, Grown, EntryStatus
  <2> QED BY <2>1, <2>2, <2>3, OtherMemory
<1>4. ASSUME NEW r \in Rows, RemoveManual(r)
      PROVE  IInv'
  <2>1. BookingOK' /\ UNCHANGED memory /\ RefundsOK'
    BY <1>4 DEF RemoveManual, BookingOK, RefundsOK, bookingRow, payment, refundLines
  <2>2. IncomeOK' /\ Grown
    BY <1>4, Numbers DEF RemoveManual, IncomeOK, Grown, EntryStatus
  <2> QED BY <2>1, <2>2, OtherMemory
<1>5. ASSUME NEW r \in Rows, ApproveRefund(r)
      PROVE  IInv'
  <2>1. PICK g \in 1 .. gross[r] : RefundPayment(r, g)
    BY <1>5 DEF ApproveRefund
  <2>2. BookingOK' /\ UNCHANGED memory
    BY <2>1 DEF RefundPayment, BookingOK, bookingRow, payment
  <2>3. RefundsOK'
    <3>1. g \in Nat /\ r \in Refs
      BY RefsMembers, Numbers DEF IncomeOK
    <3> QED BY <2>1, <3>1, Numbers DEF RefundPayment, RefundsOK
  <2>4. IncomeOK' /\ Grown
    <3>1. gross[r] > 0
      BY Numbers DEF IncomeOK
    <3> QED BY <2>1, <3>1, NormalizedType DEF RefundPayment, IncomeOK, Grown, EntryStatus
  <2> QED BY <2>2, <2>3, <2>4, OtherMemory
<1> QED BY <1>1, <1>2, <1>3, <1>4, <1>5 DEF ByStaff

\* Staff's edit writes columns from what it read and brings the ledger in line.
LEMMA PatchTypes ==
  ASSUME IInv, NEW a \in Requests, NEW status \in PatchStatuses, NEW pay \in {Keep} \cup 0 .. Price,
         PatchWrite(a, status, pay)
  PROVE  IInv'
<1> USE DEF IInv
<1> DEFINE next == Lifecycle(a, status, pay)
<1>1. next \in BookingStatus
  BY DEF Lifecycle, MemoryOK, PatchStatuses, BookingStatus, Closed
<1>2. /\ lesson' \in BookingStatus
      /\ pstatus' \in PaymentStatus
      /\ amount' \in 0 .. Price
  <2>1. lesson' = Column(lesson, seenLesson[a], next)
    BY DEF PatchWrite
  <2>2. lesson' \in BookingStatus
    BY <1>1, <2>1 DEF Column, BookingOK
  <2>3. CASE pay = Keep
    <3>1. pstatus' = pstatus /\ amount' = amount
      BY <2>3 DEF PatchWrite, payment
    <3> QED BY <2>2, <3>1 DEF BookingOK
  <2>4. CASE pay # Keep
    <3>1. /\ pay \in 0 .. Price
          /\ pstatus' = Column(pstatus, seenStatus[a], PaymentStatusOf(pay))
          /\ amount' = Column(amount, seenAmount[a], pay)
      BY <2>4 DEF PatchWrite
    <3>2. PaymentStatusOf(pay) \in PaymentStatus
      BY DEF PaymentStatusOf, PaymentStatus
    <3> QED BY <2>2, <3>1, <3>2 DEF Column, BookingOK
  <2> QED BY <2>3, <2>4
<1>3. paidAt' \in BOOLEAN
  <2>1. CASE pay = Keep
    <3>1. paidAt' = paidAt
      BY <2>1 DEF PatchWrite, payment
    <3> QED BY <3>1, Zenon DEF BookingOK
  <2>2. CASE pay # Keep
    <3>1. paidAt' = (pay = Price \/ (paidAt /\ ~seenPaidAt[a]))
      BY <2>2, Zenon DEF PatchWrite
    <3> QED BY <3>1, Zenon
  <2> QED BY <2>1, <2>2
<1>4. BookingOK'
  <2>1. UNCHANGED <<requested, early>>
    BY DEF PatchWrite
  <2> QED BY <1>2, <1>3, <2>1, Zenon DEF BookingOK
<1>5. IncomeOK' /\ RefundsOK' /\ Grown
  <2>1. CASE MarksRefunded(a, next)
    <3>1. CancellationRefund /\ UNCHANGED <<gross, manual, ask>>
      BY <2>1 DEF PatchWrite
    <3> QED BY <3>1, CancellationTyped
  <2>2. CASE ~MarksRefunded(a, next)
    <3>1. RefundsOK'
      BY <2>2 DEF PatchWrite, RefundsOK, refundLines
    <3>2. CASE lesson' \in Closed
      <4>1. UNCHANGED incomeRows
        BY <2>2, <3>2 DEF PatchWrite
      <4> QED BY <3>1, <4>1, SameRows
    <3>3. CASE lesson' \notin Closed
      <4>1. SyncIncome(CollectedAs(pstatus', amount'))
        BY <2>2, <3>3 DEF PatchWrite
      <4>2. CollectedAs(pstatus', amount') \in 0 .. Price
        BY <1>2, CollectedType
      <4> QED BY <3>1, <4>1, <4>2, Synced
    <3> QED BY <3>2, <3>3
  <2> QED BY <2>1, <2>2
<1>6. /\ MemoryOK' /\ pc'[a] = "idle"
      /\ \A b \in Requests \ {a} : pc'[b] = pc[b] /\ at'[b] = at[b]
  BY Finished DEF PatchWrite
<1>7. ReadRowsExist'
  BY <1>5, <1>6, StillThere
<1> QED BY <1>4, <1>5, <1>6, <1>7

\* Each step of a request, one action at a time.
LEMMA RequestTypes ==
  ASSUME IInv, NEW a \in Requests, ByRequest(a)
  PROVE  IInv'
<1> USE DEF IInv
<1>1. ASSUME UNCHANGED <<bookingRow, early, incomeRows, refundLines>>, MemoryOK', ReadRowsExist'
      PROVE  IInv'
  <2>1. BookingOK' /\ RefundsOK'
    BY <1>1, Zenon DEF BookingOK, RefundsOK, bookingRow, payment, refundLines
  <2>2. IncomeOK'
    BY <1>1, SameRows
  <2> QED BY <1>1, <2>1, <2>2
<1>2. UNCHANGED incomeRows => Grown
  BY DEF Grown, incomeRows
<1>3. CASE CreateRead(a)
  <2>1. Collected \in 0 .. Price /\ Price \in 0 .. Price
    BY CollectedType, Numbers DEF Collected, BookingOK
  <2>2. MemoryOK'
    BY <1>3, <2>1 DEF CreateRead, MemoryOK, loaded
  <2>3. ReadRowsExist'
    BY <1>2, <1>3, StillThere DEF CreateRead, MemoryOK
  <2> QED BY <1>1, <1>3, <2>2, <2>3 DEF CreateRead
<1>4. CASE CreateSum(a)
  <2>1. CASE Remaining(aim[a]) > 0
    <3>1. aim[a] \in 0 .. Price
      BY DEF MemoryOK
    <3>2. Remaining(aim[a]) \in 0 .. Price
      BY <3>1, RemainingType
    <3>3. MemoryOK'
      BY <1>4, <2>1, <3>2 DEF CreateSum, MemoryOK, loaded
    <3>4. ReadRowsExist'
      BY <1>2, <1>4, <2>1, StillThere DEF CreateSum, MemoryOK
    <3> QED BY <1>1, <1>4, <3>3, <3>4 DEF CreateSum
  <2>2. CASE Finish(a)
    BY <1>1, <1>2, <1>4, <2>2, Finished, StillThere DEF CreateSum
  <2> QED BY <1>4, <2>1, <2>2 DEF CreateSum
<1>5. CASE CreateInsert(a)
  <2>1. PICK g \in 1 .. aim[a], r \in Rows : Insert(r, g, mark[a], TRUE)
    BY <1>5 DEF CreateInsert
  <2>2. /\ g \in 1 .. Price
        /\ mark[a] \in {"completed", "refunded", "failed"}
        /\ TRUE \in BOOLEAN
    BY Numbers DEF MemoryOK
  <2>3. IncomeOK' /\ Grown
    BY <2>1, <2>2, Inserted
  <2>4. BookingOK' /\ RefundsOK'
    BY <1>5, Zenon DEF CreateInsert, BookingOK, RefundsOK, bookingRow, payment, refundLines
  <2> QED BY <1>5, <2>3, <2>4, Finished, StillThere DEF CreateInsert
<1>6. ASSUME RequestRefundWrite(a) \/ RejectRefundWrite(a)
      PROVE  IInv'
  <2>1. BookingOK' /\ RefundsOK'
    BY <1>6, Zenon DEF RequestRefundWrite, RejectRefundWrite, BookingOK, RefundsOK, bookingRow, payment,
                       refundLines
  <2>2. entry[at[a]] # "none" /\ at[a] \in Rows
    BY <1>6 DEF RequestRefundWrite, RejectRefundWrite, ReadRowsExist, MemoryOK
  <2>3. \/ UNCHANGED incomeRows
        \/ /\ entry[at[a]] # "deleted"
           /\ \E st \in {"completed", "pending"}, q \in BOOLEAN :
                entry' = [entry EXCEPT ![at[a]] = st] /\ ask' = [ask EXCEPT ![at[a]] = q]
           /\ UNCHANGED <<gross, manual>>
    BY <1>6 DEF RequestRefundWrite, RejectRefundWrite, incomeRows
  <2>4. IncomeOK' /\ Grown
    <3>1. CASE UNCHANGED incomeRows
      BY <3>1, SameRows
    <3>2. ASSUME entry[at[a]] # "deleted", UNCHANGED <<gross, manual>>,
                 NEW st \in {"completed", "pending"}, NEW q \in BOOLEAN,
                 entry' = [entry EXCEPT ![at[a]] = st], ask' = [ask EXCEPT ![at[a]] = q]
          PROVE  IncomeOK' /\ Grown
      BY <2>2, <3>2 DEF IncomeOK, Grown, EntryStatus
    <3> QED BY <2>3, <3>1, <3>2
  <2> QED BY <1>6, <2>1, <2>4, Finished, StillThere DEF RequestRefundWrite, RejectRefundWrite
<1>7. CASE PatchRead(a)
  <2>1. MemoryOK'
    BY <1>7 DEF PatchRead, MemoryOK, BookingOK
  <2>2. ReadRowsExist'
    BY <1>2, <1>7, StillThere DEF PatchRead, MemoryOK
  <2> QED BY <1>1, <1>7, <2>1, <2>2 DEF PatchRead
<1>8. CASE Patch(a)
  BY <1>8, PatchTypes DEF Patch
<1>9. CASE RequestFails(a)
  BY <1>1, <1>2, <1>9, Finished, StillThere DEF RequestFails
<1>10. ASSUME NEW r \in Rows, RequestRefund(a, r) \/ RejectRefund(a, r)
       PROVE  IInv'
  <2>1. MemoryOK'
    BY <1>10 DEF RequestRefund, RejectRefund, MemoryOK, loaded
  <2>2. ReadRowsExist'
    BY <1>10 DEF RequestRefund, RejectRefund, Undecided, MemoryOK, ReadRowsExist, incomeRows
  <2> QED BY <1>1, <1>10, <2>1, <2>2 DEF RequestRefund, RejectRefund
<1> QED BY <1>3, <1>4, <1>5, <1>6, <1>7, <1>8, <1>9, <1>10 DEF ByRequest

\* The invariant is inductive.
LEMMA NextTypes == IInv /\ [Next]_vars => IInv'
<1> SUFFICES ASSUME IInv, [Next]_vars PROVE IInv'
  OBVIOUS
<1>1. ASSUME UNCHANGED <<bookingRow, incomeRows, refundLines, memory>>, early' \in BOOLEAN
      PROVE  IInv'
  <2>1. BookingOK' /\ RefundsOK'
    BY <1>1, Zenon DEF IInv, BookingOK, RefundsOK, bookingRow, payment, refundLines
  <2> QED BY <1>1, <2>1, SameRows, OtherMemory DEF IInv
<1>2. CASE TimePasses
  BY <1>1, <1>2 DEF TimePasses
<1>3. CASE UNCHANGED vars
  BY <1>1, <1>3 DEF vars, IInv, BookingOK
<1> QED BY <1>2, <1>3, StudentTypes, StaffTypes, RequestTypes DEF Next

\* It holds in every reachable state.
LEMMA TypesInvariant == Spec => []IInv
BY InitTypes, NextTypes, PTL DEF Spec

\* The columns of the booking and its ledger keep their types whatever staff,
\* student and late requests do: no amount goes below zero or above the price
\* and no more of a refund line is void than was written.
THEOREM LedgerTyped == Spec => []TypeOK
<1>1. IInv => TypeOK
  BY Zenon DEF IInv, BookingOK, IncomeOK, RefundsOK, MemoryOK, TypeOK
<1> QED BY <1>1, TypesInvariant, PTL

-----------------------------------------------------------------------------
(* Refunds and the income they are capped by.                              *)

\* A line that is written adds its money to what was given back, and the
\* completed income becomes what the cap was computed from.
LEMMA RefundAdds ==
  ASSUME IncomeOK, RefundsOK, NEW k \in Refs, NEW amt \in Nat, WriteRefund(k, amt), gross' = gross
  PROVE  LiveRefunds' = LiveRefunds + amt /\ CompletedIncome' = IncomeAsNormalized
<1> DEFINE f == [j \in Refs |-> out[j] - dead[j]]
           g == [j \in Refs |-> out'[j] - dead'[j]]
<1>1. out' = [out EXCEPT ![k] = @ + amt] /\ dead' = dead /\ entry' = Normalized
  BY DEF WriteRefund
<1>2. \A j \in Refs : out[j] \in Nat /\ dead[j] \in Nat
  BY Numbers DEF RefundsOK
<1>3. \A j \in Refs : f[j] \in Int /\ g[j] \in Int
  BY <1>1, <1>2 DEF RefundsOK
<1>4. \A j \in Refs : j # k => g[j] = f[j]
  BY <1>1 DEF RefundsOK
<1>5. g[k] = f[k] + amt
  BY <1>1, <1>2 DEF RefundsOK
<1>6. LiveRefunds = SumFunctionOnSet(f, Refs) /\ LiveRefunds' = SumFunctionOnSet(g, Refs)
  BY DEF LiveRefunds
<1> HIDE DEF f, g
<1>7. SumFunctionOnSet(g, Refs) = SumFunctionOnSet(f, Refs) + g[k] - f[k]
  <2>1. IsFiniteSet(Refs)
    BY FiniteLedger
  <2> QED BY <1>3, <1>4, <2>1, SumUpdate
<1>8. LiveRefunds \in Nat
  BY Totals
<1>9. LiveRefunds' = LiveRefunds + amt
  BY <1>3, <1>5, <1>6, <1>7, <1>8
<1>10. CompletedIncome' = IncomeAsNormalized
  BY <1>1 DEF CompletedIncome, CompletedRows, IncomeAsNormalized
<1> QED BY <1>9, <1>10

\* What a cancellation refund pays: nothing is written, or the price of a
\* booking without a ledger, or nothing because the income is given back
\* already, or what is left of the income, or the price out of more than that.
LEMMA CancellationPays ==
  ASSUME IncomeOK, RefundsOK, CancellationRefund, gross' = gross
  PROVE  \/ out' = out /\ out[Own] # 0
         \/ LiveRefunds' = Price /\ CompletedIncome' = 0
         \/ out' = out /\ CompletedIncome' <= LiveRefunds'
         \/ /\ LiveRefunds' <= CompletedIncome'
            /\ LiveRefunds' = CompletedIncome' \/ LiveRefunds' >= Price
<1> DEFINE I == IncomeAsNormalized
           L == LiveRefunds
           cap == Minus(I, L)
           l == LiveRefunds'
           i == CompletedIncome'
<1>1. I \in Nat /\ L \in Nat /\ cap \in Nat /\ Price \in Nat
  BY Totals, CapType, Numbers
<1>2. CASE out[Own] # 0 /\ UNCHANGED <<entry, refundLines>>
  BY <1>2 DEF refundLines
<1>3. CASE I = 0 /\ L = 0 /\ WriteRefund(Synthetic, Price)
  <2>1. l = L + Price /\ i = I
    BY <1>1, <1>3, RefundAdds, RefsMembers
  <2>2. l = Price /\ i = 0
    <3> HIDE DEF I, L, l, i
    <3> QED BY <1>1, <1>3, <2>1
  <2> QED BY <2>2
<1>4. CASE WriteRefund(Own, cap)
  <2>1. l = L + cap /\ i = I
    BY <1>1, <1>4, RefundAdds, RefsMembers
  <2>2. CASE I <= L
    <3>1. cap = 0
      BY <2>2 DEF Minus
    <3>2. out' = out
      <4>1. out[Own] + 0 = out[Own]
        BY RefsMembers, Numbers DEF RefundsOK
      <4> QED BY <1>4, <3>1, <4>1 DEF WriteRefund, RefundsOK
    <3>3. i <= l
      <4> HIDE DEF I, L, cap, l, i
      <4> QED BY <1>1, <2>1, <2>2, <3>1
    <3> QED BY <3>2, <3>3
  <2>3. CASE ~(I <= L)
    <3>1. cap = I - L
      BY <2>3 DEF Minus
    <3>2. l <= i /\ l = i
      <4> HIDE DEF I, L, cap, l, i
      <4> QED BY <1>1, <2>1, <3>1
    <3> QED BY <3>2
  <2> QED BY <2>2, <2>3
<1>5. CASE cap > Price /\ WriteRefund(Partial, Price)
  <2>1. l = L + Price /\ i = I
    BY <1>1, <1>5, RefundAdds, RefsMembers
  <2>2. L + Price <= I /\ L + Price >= Price
    <3> HIDE DEF I, L
    <3> QED BY <1>1, <1>5 DEF Minus
  <2>3. l <= i /\ l >= Price
    <3> HIDE DEF I, L, cap, l, i
    <3> QED BY <2>1, <2>2
  <2> QED BY <2>3
<1> QED BY <1>2, <1>3, <1>4, <1>5 DEF CancellationRefund

\* The cap of the ledger.
LEMMA CancellationCapped ==
  ASSUME IncomeOK, RefundsOK, CancellationRefund, gross' = gross,
         NEW k \in Refs, out'[k] > out[k]
  PROVE  LiveRefunds' <= CompletedIncome' \/ (CompletedIncome' = 0 /\ LiveRefunds' <= Price)
<1>1. out[k] \in Nat
  BY Numbers DEF RefundsOK
<1>2. out' # out
  BY <1>1
<1> DEFINE l == LiveRefunds'
           i == CompletedIncome'
<1>3. (l = Price /\ i = 0) \/ l <= i
  BY <1>2, CancellationPays
<1> HIDE DEF l, i
<1>4. l <= i \/ (i = 0 /\ l <= Price)
  BY <1>3, Numbers
<1> QED BY <1>4 DEF l, i

\* A booking whose own refund line is not written yet is paid back.
LEMMA CancellationSuffices ==
  ASSUME IncomeOK, RefundsOK, CancellationRefund, gross' = gross, out[Own] = 0,
         LiveRefunds' \in Nat, CompletedIncome' \in Nat
  PROVE  LiveRefunds' >= Least(Price, CompletedIncome')
<1> DEFINE l == LiveRefunds'
           i == CompletedIncome'
<1>1. \/ l = Price /\ i = 0
      \/ i <= l
      \/ l <= i /\ (l = i \/ l >= Price)
  BY CancellationPays
<1>2. i \in Nat /\ l \in Nat
  OBVIOUS
<1> HIDE DEF l, i
<1>3. l >= Least(Price, i)
  BY <1>1, <1>2, Numbers DEF Least
<1> QED BY <1>3 DEF l, i

\* The sums of the ledger are numbers, after a step as before it.
SumsOK == ActiveIncome \in Nat /\ CompletedIncome \in Nat /\ LiveRefunds \in Nat

\* The rows and the refund lines are finitely many.
LEMMA SumsNow == IncomeOK /\ RefundsOK => SumsOK
<1>1. CompletedRows \in SUBSET Rows
  BY DEF CompletedRows
<1> QED BY <1>1, Totals, IncomeTotals DEF CompletedIncome, SumsOK

\* The same after a step.
LEMMA SumsNext == IInv' => SumsOK'
<1>1. IInv => SumsOK
  BY SumsNow DEF IInv
<1> QED BY <1>1, PTL

\* A cancellation's line grows within the income or, without any, the price.
WithinIncome ==
  \A k \in {Own, Synthetic, Partial} :
    out'[k] > out[k] => \/ LiveRefunds' <= CompletedIncome'
                        \/ CompletedIncome' = 0 /\ LiveRefunds' <= Price

\* Lines that are left alone do not grow.
LEMMA SameLines ==
  ASSUME RefundsOK, \A k \in {Own, Synthetic, Partial} : out'[k] = out[k]
  PROVE  WithinIncome
<1>1. \A k \in {Own, Synthetic, Partial} : out[k] \in Nat
  BY RefsMembers, Numbers DEF RefundsOK
<1> QED BY <1>1 DEF WithinIncome

\* CancellationRefund is written by the approval and by an edit of staff only.
LEMMA RefundsCapped ==
  ASSUME IInv, [Next]_vars
  PROVE  WithinIncome
<1>1. CASE UNCHANGED out
  BY <1>1, SameLines DEF IInv
<1>2. CASE CancellationRefund /\ gross' = gross
  BY <1>2, CancellationCapped, RefsMembers DEF IInv, WithinIncome
<1>3. CASE TimePasses \/ ByStudent \/ UNCHANGED vars
  BY <1>1, <1>3 DEF TimePasses, ByStudent, CardPayment, CancelByStudent, refundLines, vars
<1>4. CASE ByStaff
  <2>1. CASE ApproveCancellation
    BY <1>1, <1>2, <2>1 DEF ApproveCancellation, refundLines
  <2>2. CASE RejectCancellation \/ Archive
    BY <1>1, <2>2 DEF RejectCancellation, Archive, refundLines
  <2>3. ASSUME NEW r \in Rows, RemoveManual(r) \/ ApproveRefund(r)
        PROVE  WithinIncome
    <3>1. CASE RemoveManual(r)
      BY <1>1, <3>1 DEF RemoveManual, refundLines
    <3>2. CASE ApproveRefund(r)
      <4>1. \A k \in {Own, Synthetic, Partial} : k # r
        BY Numbers DEF Rows, Own, Synthetic, Partial
      <4>2. PICK g \in 1 .. gross[r] : out' = [out EXCEPT ![r] = @ + g]
        BY <3>2 DEF ApproveRefund, RefundPayment
      <4>3. \A k \in {Own, Synthetic, Partial} : out'[k] = out[k]
        BY <4>1, <4>2, RefsMembers DEF IInv, RefundsOK
      <4> QED BY <4>3, SameLines DEF IInv
    <3> QED BY <2>3, <3>1, <3>2
  <2> QED BY <1>4, <2>1, <2>2, <2>3 DEF ByStaff
<1>5. ASSUME NEW a \in Requests, ByRequest(a)
      PROVE  WithinIncome
  <2>1. CASE Patch(a)
    BY <1>1, <1>2, <2>1 DEF Patch, PatchWrite, refundLines
  <2>2. CASE ~Patch(a)
    <3>1. UNCHANGED refundLines
      BY <1>5, <2>2 DEF ByRequest, CreateRead, CreateSum, CreateInsert, RequestRefundWrite, RejectRefundWrite,
                        PatchRead, RequestFails, RequestRefund, RejectRefund
    <3> QED BY <1>1, <3>1 DEF refundLines
  <2> QED BY <2>1, <2>2
<1> QED BY <1>3, <1>4, <1>5 DEF Next

\* What a cancellation gives back never lifts the refunds of the booking above
\* its completed income, or above its price when it has none.
THEOREM CancellationStaysWithinIncome == Spec => CancellationWithinIncome
<1>1. IInv /\ [Next]_vars => [WithinIncome]_vars
  BY RefundsCapped
<1>2. [WithinIncome]_vars =>
        [\A k \in {Own, Synthetic, Partial} :
           out'[k] > out[k] => \/ LiveRefunds' <= CompletedIncome'
                               \/ CompletedIncome' = 0 /\ LiveRefunds' <= Price]_vars
  BY DEF WithinIncome
<1> QED BY <1>1, <1>2, TypesInvariant, PTL DEF Spec, CancellationWithinIncome

\* Approving the cancellation of a paid booking pays back what the ledger shows
\* as collected, up to the price.
PaysBack ==
  ApproveCancellation /\ lesson' = "refunded" /\ out[Own] = 0
    => LiveRefunds' >= Least(Price, CompletedIncome')

\* The approval is the one step the property speaks of.
LEMMA ApprovalPays == IInv /\ [Next]_vars => PaysBack
<1> SUFFICES ASSUME IInv, [Next]_vars, ApproveCancellation, lesson' = "refunded", out[Own] = 0
             PROVE  LiveRefunds' >= Least(Price, CompletedIncome')
  BY DEF PaysBack
<1>1. CancellationRefund /\ gross' = gross
  BY DEF ApproveCancellation
<1>2. LiveRefunds' \in Nat /\ CompletedIncome' \in Nat
  BY NextTypes, SumsNext DEF SumsOK
<1> QED BY <1>1, <1>2, CancellationSuffices DEF IInv

\* Approving the cancellation of a paid booking gives back at least the collected
\* income, up to the price, refunds made before included
\* (staffApprovePracticalCancellation).
THEOREM CancellationAlwaysPaysBack == Spec => CancellationPaysBack
<1>1. IInv /\ [Next]_vars => [PaysBack]_vars
  BY ApprovalPays
<1>2. [PaysBack]_vars =>
        [ApproveCancellation /\ lesson' = "refunded" /\ out[Own] = 0
           => LiveRefunds' >= Least(Price, CompletedIncome')]_vars
  BY DEF PaysBack
<1> QED BY <1>1, <1>2, TypesInvariant, PTL DEF Spec, CancellationPaysBack

-----------------------------------------------------------------------------
(* An edit of staff brings the ledger in line with the booking.            *)

\* Rows A of the sizes f lose e, off the rows of M only, the highest first, and
\* the rows B of the sizes g stay.
Lost(f, e, M, r) == IF r \in M THEN Taken(f, e, M, r) ELSE 0

CutsTo(f, A, M, e, g, B) ==
  \/ SumFunctionOnSet(g, B) = SumFunctionOnSet(f, A) - e
  \/ SumFunctionOnSet(g, B) > SumFunctionOnSet(f, A) - e /\ M \cap B = {}

\* When rows that lose everything go, what stays is what was asked for, or it
\* is more and no row of M is left.
LEMMA CutLedger ==
  ASSUME NEW A \in SUBSET Nat, IsFiniteSet(A), NEW f, \A r \in A : f[r] \in Nat /\ f[r] > 0,
         NEW M \in SUBSET A, NEW e \in Nat,
         NEW B, B = {r \in A : Lost(f, e, M, r) # f[r]},
         NEW g, \A r \in B : g[r] = f[r] - Lost(f, e, M, r)
  PROVE  CutsTo(f, A, M, e, g, B)
<1> DEFINE c == [r \in A |-> Lost(f, e, M, r)]
           d == [r \in A |-> f[r] - c[r]]
           all == SumFunctionOnSet(f, A)
           cuts == SumFunctionOnSet(c, A)
           rest == SumFunctionOnSet(d, A)
           ofM == SumFunctionOnSet(f, M)
<1>1. IsFiniteSet(M) /\ IsFiniteSet(B)
  BY FS_Subset
<1>0. /\ \A r \in M : c[r] = Taken(f, e, M, r)
      /\ \A r \in A \ M : c[r] = 0
      /\ B = {r \in A : c[r] # f[r]}
      /\ \A r \in B : g[r] = f[r] - c[r]
  BY DEF Lost
<1> HIDE DEF c
<1>2. \A r \in M : c[r] \in Nat /\ c[r] <= f[r]
  <2>1. \A r \in M : f[r] \in Nat
    OBVIOUS
  <2>2. \A r \in M : Taken(f, e, M, r) \in Nat /\ Taken(f, e, M, r) <= f[r]
    BY <1>1, <2>1, TakenType
  <2> QED BY <1>0, <2>2
<1>3. \A r \in A : f[r] \in Int /\ c[r] \in Int /\ d[r] \in Int /\ d[r] \in Nat /\ f[r] = c[r] + d[r]
  BY <1>0, <1>2
<1>4. all = cuts + rest /\ cuts \in Int /\ rest \in Int
  <2> HIDE DEF d
  <2>1. SumFunctionOnSet(f, A) = SumFunctionOnSet(c, A) + SumFunctionOnSet(d, A)
    BY <1>3, SumAdd
  <2>2. SumFunctionOnSet(c, A) \in Int /\ SumFunctionOnSet(d, A) \in Int
    BY <1>3, SumInt
  <2> QED BY <2>1, <2>2
<1>5. cuts = Least(e, ofM)
  <2>1. cuts = SumFunctionOnSet(c, M)
    <3>1. \A r \in A : c[r] \in Int
      BY <1>3
    <3> QED BY <1>0, <3>1, SumDrop
  <2> DEFINE t == [r \in M |-> Taken(f, e, M, r)]
  <2>2. SumFunctionOnSet(t, M) = Least(e, ofM)
    BY <1>1, CutsAddUp
  <2>3. \A r \in M : t[r] \in Int /\ c[r] = t[r]
    BY <1>0, <1>2
  <2> HIDE DEF t
  <2>4. SumFunctionOnSet(c, M) = SumFunctionOnSet(t, M)
    BY <1>1, <2>3, SumSame
  <2> QED BY <2>1, <2>2, <2>4
<1>6. SumFunctionOnSet(g, B) = rest
  <2>1. \A r \in A \ B : d[r] = 0
    BY <1>0, <1>3
  <2>2. B \in SUBSET A /\ \A r \in B : d[r] \in Int /\ g[r] = d[r]
    BY <1>0, <1>3
  <2>3. \A r \in A : d[r] \in Int
    BY <1>3
  <2> HIDE DEF d
  <2>4. SumFunctionOnSet(d, A) = SumFunctionOnSet(d, B)
    BY <2>1, <2>2, <2>3, SumDrop
  <2>5. SumFunctionOnSet(g, B) = SumFunctionOnSet(d, B)
    BY <1>1, <2>2, SumSame
  <2> QED BY <2>4, <2>5
<1>7. ofM \in Nat
  BY <1>1, SumNat
<1>8. CASE e <= ofM
  <2>1. cuts = e
    BY <1>5, <1>8 DEF Least
  <2> HIDE DEF all, cuts, rest
  <2>2. rest = all - e
    BY <1>4, <2>1
  <2> QED BY <1>6, <2>2 DEF all, CutsTo
<1>9. CASE ~(e <= ofM)
  <2>1. cuts = ofM
    BY <1>5, <1>9 DEF Least
  <2>2. \A r \in M : d[r] = 0
    <3>1. SumFunctionOnSet(d, M) = 0
      <4>1. cuts = SumFunctionOnSet(c, M)
        <5>1. \A r \in A : c[r] \in Int
          BY <1>3
        <5> QED BY <1>0, <5>1, SumDrop
      <4>2. \A r \in M : c[r] \in Int /\ d[r] \in Int /\ f[r] = c[r] + d[r]
        BY <1>3
      <4> HIDE DEF d
      <4>3. SumFunctionOnSet(f, M) = SumFunctionOnSet(c, M) + SumFunctionOnSet(d, M)
        BY <1>1, <4>2, SumAdd
      <4>4. SumFunctionOnSet(d, M) \in Int
        BY <1>1, <4>2, SumInt
      <4>5. ofM = ofM + SumFunctionOnSet(d, M)
        BY <2>1, <4>1, <4>3
      <4> HIDE DEF ofM
      <4> QED BY <1>7, <4>4, <4>5
    <3>2. ASSUME NEW r \in M
          PROVE  d[r] = 0
      <4>1. IsFiniteSet(M \ {r})
        BY <1>1, FS_Subset
      <4>2. \A q \in M : d[q] \in Nat /\ d[q] \in Int
        BY <1>3
      <4> HIDE DEF d
      <4>3. SumFunctionOnSet(d, M) = d[r] + SumFunctionOnSet(d, M \ {r})
        BY <1>1, <4>2, SumRemove
      <4>4. SumFunctionOnSet(d, M \ {r}) \in Nat
        BY <4>1, <4>2, SumNat
      <4> QED BY <3>1, <4>2, <4>3, <4>4
    <3> QED BY <3>2
  <2>3. M \cap B = {}
    <3> HIDE DEF d
    <3>1. \A r \in M : f[r] = c[r]
      <4>1. \A r \in M : c[r] \in Int /\ d[r] = 0 /\ f[r] = c[r] + d[r]
        BY <1>3, <2>2
      <4> QED BY <4>1
    <3> QED BY <1>0, <3>1
  <2> HIDE DEF all, cuts, rest, ofM
  <2>4. rest > all - e
    BY <1>4, <1>7, <1>9, <2>1
  <2> QED BY <1>6, <2>3, <2>4 DEF all, CutsTo
<1> QED BY <1>8, <1>9

\* The ledger holds what the booking collected, or more on card rows alone.
Balanced(target) ==
  \/ ActiveIncome' = target
  \/ ActiveIncome' > target /\ \A r \in ActiveRows' : ~manual'[r]

\* syncBookingCollectedIncome, when too little is recorded: one row more.
LEMMA InstallmentBalances ==
  ASSUME IncomeOK, RefundsOK, NEW target \in 0 .. Price, SyncIncome(target), ActiveIncome < target
  PROVE  ActiveIncome' = target
<1> DEFINE settled == [r \in Rows |-> IF r \in ActiveRows /\ target > 0 THEN "completed" ELSE entry[r]]
           A == ActiveRows
           B == ActiveRows'
           f == gross
           g == gross'
<1>1. PICK r \in Rows : /\ NextRow(r)
                        /\ entry' = [settled EXCEPT ![r] = "completed"]
                        /\ gross' = [gross EXCEPT ![r] = Installment(target)]
  BY DEF SyncIncome
<1>2. ActiveIncome \in Nat /\ target \in Nat
  BY Totals, Numbers
<1>3. B = A \cup {r}
  BY <1>1 DEF ActiveRows, IncomeOK
<1>4. r \notin A
  BY <1>1 DEF NextRow, Unused, ActiveRows
<1>5. \A q \in A : q # r /\ f[q] \in Int /\ g[q] = f[q]
  BY <1>1, <1>4, Numbers DEF ActiveRows, IncomeOK
<1>6. g[r] = target - ActiveIncome
  BY <1>1, <1>2 DEF Installment, Minus, IncomeOK
<1>7. IsFiniteSet(A) /\ IsFiniteSet(B)
  BY <1>3, FiniteLedger, FS_Subset, FS_AddElement DEF ActiveRows
<1>8. ActiveIncome = SumFunctionOnSet(f, A) /\ ActiveIncome' = SumFunctionOnSet(g, B)
  BY DEF ActiveIncome
<1> HIDE DEF A, B, f, g
<1>9. SumFunctionOnSet(g, B) = g[r] + SumFunctionOnSet(g, A)
  <2>1. \A q \in B : g[q] \in Int
    BY <1>2, <1>3, <1>5, <1>6
  <2>2. r \in B /\ B \ {r} = A
    BY <1>3, <1>4
  <2>3. SumFunctionOnSet(g, B) = g[r] + SumFunctionOnSet(g, B \ {r})
    BY <1>7, <2>1, <2>2, SumRemove
  <2> QED BY <2>2, <2>3
<1>10. SumFunctionOnSet(g, A) = SumFunctionOnSet(f, A)
  BY <1>5, <1>7, SumSame
<1> QED BY <1>2, <1>6, <1>8, <1>9, <1>10

\* ... and when too much is: the manual rows are cut, the newest first.
LEMMA CutsBalance ==
  ASSUME IncomeOK, RefundsOK, NEW target \in 0 .. Price, SyncIncome(target), ~(ActiveIncome < target)
  PROVE  Balanced(target)
<1> DEFINE e == Minus(ActiveIncome, target)
           settled == [r \in Rows |-> IF r \in ActiveRows /\ target > 0 THEN "completed" ELSE entry[r]]
           A == ActiveRows
           M == {r \in A : manual[r]}
           c == [r \in Rows |-> Cut(r, e)]
           f == gross
           B == ActiveRows'
           g == gross'
<1>1. ActiveIncome \in Nat /\ target \in Nat /\ e \in Nat /\ ActiveIncome - e = target
  BY Totals, Numbers DEF Minus
<1>2. /\ entry' = [r \in Rows |-> IF Cut(r, e) > 0 /\ Cut(r, e) = gross[r] THEN "failed" ELSE settled[r]]
      /\ gross' = [r \in Rows |-> IF Cut(r, e) > 0 /\ Cut(r, e) < gross[r]
                                  THEN gross[r] - Cut(r, e) ELSE gross[r]]
      /\ manual' = manual
  BY DEF SyncIncome
<1>3. A \in SUBSET Nat /\ IsFiniteSet(A) /\ A \subseteq Rows /\ M \in SUBSET A
  BY FiniteLedger, FS_Subset DEF ActiveRows
<1>4. \A r \in A : f[r] \in Nat /\ f[r] > 0
  BY Numbers DEF ActiveRows, IncomeOK
<1>5. \A r \in Rows : c[r] = Cut(r, e) /\ c[r] \in 0 .. f[r] /\ f[r] \in Nat
  <2>1. \A r \in Rows : f[r] \in Nat
    BY Numbers DEF IncomeOK
  <2> HIDE DEF e
  <2> QED BY <1>1, <2>1, CutType
<1>6. \A r \in M : c[r] = Taken(f, e, M, r)
  <2>1. ASSUME NEW r \in M
        PROVE  c[r] = Taken(f, e, M, r)
    <3>1. NewerManual(r) = {q \in M : q > r}
      BY DEF NewerManual
    <3>2. Cut(r, e) = Least(f[r], Minus(e, SumFunctionOnSet(f, NewerManual(r))))
      BY DEF Cut
    <3> QED BY <1>3, <1>5, <3>1, <3>2 DEF Taken
  <2> QED BY <2>1
<1>7. \A r \in A \ M : c[r] = 0
  BY <1>3, <1>5 DEF Cut
<1>8. B = {r \in A : c[r] # f[r]}
  <2>1. ASSUME NEW r \in Rows
        PROVE  r \in B <=> r \in A /\ c[r] # f[r]
    <3>1. r \in B <=> entry'[r] \in {"completed", "pending"}
      BY <2>1 DEF ActiveRows
    <3>2. settled[r] \in {"completed", "pending"} <=> r \in A
      BY <2>1 DEF ActiveRows
    <3>3. entry'[r] = IF c[r] > 0 /\ c[r] = f[r] THEN "failed" ELSE settled[r]
      BY <1>2, <1>5
    <3> HIDE DEF A, B, c, f, settled
    <3> QED BY <1>4, <1>5, <3>1, <3>2, <3>3
  <2>2. B \subseteq Rows
    BY DEF ActiveRows
  <2> QED BY <1>3, <2>1, <2>2
<1>9. \A r \in B : g[r] = f[r] - c[r]
  <2>1. ASSUME NEW r \in B
        PROVE  g[r] = f[r] - c[r]
    <3>1. r \in Rows /\ c[r] # f[r]
      BY <1>3, <1>8
    <3>2. g[r] = IF c[r] > 0 /\ c[r] < f[r] THEN f[r] - c[r] ELSE f[r]
      BY <1>2, <1>5, <3>1
    <3> HIDE DEF c, f, g
    <3> QED BY <1>5, <3>1, <3>2
  <2> QED BY <2>1
<1>10. ActiveIncome = SumFunctionOnSet(f, A) /\ ActiveIncome' = SumFunctionOnSet(g, B)
  BY DEF ActiveIncome
<1>11. M \cap B = {} => \A r \in ActiveRows' : ~manual'[r]
  BY <1>2, <1>8
<1> DEFINE l == ActiveIncome'
<1>12. l = target \/ (l > target /\ M \cap B = {})
  <2> HIDE DEF e, A, M, c, f, B, g, l
  <2>1. \A r \in A : c[r] = Lost(f, e, M, r)
    BY <1>6, <1>7 DEF Lost
  <2>2. B = {r \in A : Lost(f, e, M, r) # f[r]} /\ \A r \in B : g[r] = f[r] - Lost(f, e, M, r)
    BY <1>8, <1>9, <2>1
  <2>3. A \in SUBSET Nat /\ IsFiniteSet(A) /\ M \in SUBSET A /\ e \in Nat
    BY <1>1, <1>3
  <2>4. CutsTo(f, A, M, e, g, B)
    BY <1>4, <2>2, <2>3, CutLedger
  <2> QED BY <1>1, <1>10, <2>4 DEF l, CutsTo
<1> QED BY <1>11, <1>12 DEF Balanced

\* Staff's edit of an open booking, written.
LEMMA EditBalances ==
  ASSUME IInv, [Next]_vars, NEW a \in Requests, Patch(a), lesson' \notin Closed
  PROVE  Balanced(Collected')
<1> USE DEF IInv
<1>1. PICK status \in PatchStatuses, pay \in {Keep} \cup 0 .. Price : PatchWrite(a, status, pay)
  BY DEF Patch
<1>2. ~MarksRefunded(a, Lifecycle(a, status, pay))
  <2>1. ASSUME MarksRefunded(a, Lifecycle(a, status, pay))
        PROVE  FALSE
    <3>1. Lifecycle(a, status, pay) = "refunded" /\ seenLesson[a] # "refunded"
      BY <2>1 DEF MarksRefunded
    <3>2. lesson' = "refunded"
      BY <1>1, <3>1 DEF PatchWrite, Column
    <3> QED BY <3>2 DEF Closed
  <2> QED BY <2>1
<1>3. SyncIncome(CollectedAs(pstatus', amount'))
  BY <1>1, <1>2 DEF PatchWrite
<1> DEFINE target == CollectedAs(pstatus', amount')
<1>4. target \in 0 .. Price
  <2>1. pstatus' \in PaymentStatus /\ amount' \in 0 .. Price
    BY NextTypes DEF BookingOK
  <2> QED BY <2>1, CollectedType
<1>5. Balanced(target)
  <2> HIDE DEF target
  <2> QED BY <1>3, <1>4, InstallmentBalances, CutsBalance DEF target, Balanced
<1> QED BY <1>5 DEF Collected

\* After staff edit an open booking, the income on its ledger is what the
\* booking says was collected; only rows of card payments may exceed it.
THEOREM EditsBalanceTheLedger == Spec => EditBalancesLedger
<1> DEFINE Edited == \A a \in Requests : Patch(a) /\ lesson' \notin Closed => Balanced(Collected')
<1>1. IInv /\ [Next]_vars => [Edited]_vars
  BY EditBalances
<1>2. [Edited]_vars =>
        [Ends("patch") /\ (\E a \in Requests : Patch(a)) /\ lesson' \notin Closed
           => \/ ActiveIncome' = Collected'
              \/ /\ ActiveIncome' > Collected'
                 /\ \A r \in ActiveRows' : ~manual'[r]]_vars
  BY DEF Balanced
<1> QED BY <1>1, <1>2, TypesInvariant, PTL DEF Spec, EditBalancesLedger

=============================================================================
