--------------------------- MODULE TotalsTheorems ---------------------------
(***************************************************************************)
(* The laws of Total that the ledger proofs cite: a total of natural       *)
(* amounts over a finite set of rows is a natural number, and changing one *)
(* row changes the total by exactly that much.                             *)
(***************************************************************************)
EXTENDS Totals, FiniteSetTheorems, WellFoundedInduction, TLAPS

\* A row of n microcents has n unit tokens.
LEMMA RowUnits ==
  ASSUME NEW x, NEW n \in Nat
  PROVE  IsFiniteSet({x} \X (1..n)) /\ Cardinality({x} \X (1..n)) = n
<1> DEFINE owner  == {x}
           numbers == 1..n
<1>1. IsFiniteSet(owner) /\ Cardinality(owner) = 1
  BY FS_Singleton
<1>2. IsFiniteSet(numbers) /\ Cardinality(numbers) = n
  BY FS_Interval
<1> HIDE DEF owner, numbers
<1>3. /\ IsFiniteSet(owner \X numbers)
      /\ Cardinality(owner \X numbers) = Cardinality(owner) * Cardinality(numbers)
  BY <1>1, <1>2, FS_Product
<1>4. IsFiniteSet(owner \X numbers) /\ Cardinality(owner \X numbers) = n
  BY <1>1, <1>2, <1>3
<1>5. QED
  BY <1>4 DEF owner, numbers

\* Finitely many rows have finitely many unit tokens.
LEMMA UnitsFinite ==
  ASSUME NEW S, IsFiniteSet(S), NEW f, \A x \in S : f[x] \in Nat
  PROVE  IsFiniteSet(Units(f, S))
<1> DEFINE tokens == [x \in S |-> {x} \X (1..f[x])]
           T == { {x} \X (1..f[x]) : x \in S }
<1>1. tokens \in Surjection(S, T)
  BY DEF Surjection
<1>2. IsFiniteSet(T)
  BY <1>1, FS_Surjection
<1>3. \A t \in T : IsFiniteSet(t)
  <2>1. \A x \in S : IsFiniteSet({x} \X (1..f[x]))
    BY RowUnits
  <2>2. QED
    BY <2>1
<1>4. IsFiniteSet(UNION T)
  BY <1>2, <1>3, FS_UNION
<1>5. QED
  BY <1>4 DEF Units

\* A total of natural amounts is a natural number.
LEMMA TotalIsNat ==
  ASSUME NEW S, IsFiniteSet(S), NEW f, \A x \in S : f[x] \in Nat
  PROVE  Total(f, S) \in Nat
BY UnitsFinite, FS_CardinalityType DEF Total

\* A total is the amount of any one row plus the total of the others.
LEMMA TotalSplit ==
  ASSUME NEW S, IsFiniteSet(S), NEW f, \A x \in S : f[x] \in Nat, NEW y \in S
  PROVE  /\ Total(f, S \ {y}) \in Nat
         /\ Total(f, S) = Total(f, S \ {y}) + f[y]
<1> DEFINE row    == {y} \X (1..f[y])
           others == Units(f, S \ {y})
<1>1. IsFiniteSet(S \ {y})
  BY FS_RemoveElement
<1>2. IsFiniteSet(others)
  BY <1>1, UnitsFinite
<1>3. IsFiniteSet(row) /\ Cardinality(row) = f[y]
  BY RowUnits
<1>4. Units(f, S) = others \cup row
  BY DEF Units
<1>5. others \cap row = {}
  BY DEF Units
<1>6. Cardinality(others \cup row) = Cardinality(others) + Cardinality(row)
  <2>1. Cardinality(others \cap row) = 0
    BY <1>5, FS_EmptySet
  <2>2. Cardinality(others) \in Nat
    BY <1>2, FS_CardinalityType
  <2> HIDE DEF others, row
  <2>3. Cardinality(others \cup row)
          = Cardinality(others) + Cardinality(row) - Cardinality(others \cap row)
    BY <1>2, <1>3, FS_Union
  <2>4. QED
    BY <1>3, <2>1, <2>2, <2>3
<1>7. QED
  BY <1>1, <1>3, <1>4, <1>6, TotalIsNat DEF Total

\* Totals of amounts that agree on every row agree.
LEMMA TotalSame ==
  ASSUME NEW S, NEW f, NEW h, \A x \in S : f[x] = h[x]
  PROVE  Total(f, S) = Total(h, S)
<1>1. Units(f, S) = Units(h, S)
  BY DEF Units
<1>2. QED
  BY <1>1 DEF Total

\* Changing one row changes the total by the difference.
LEMMA TotalUpdate ==
  ASSUME NEW S, IsFiniteSet(S), NEW y \in S,
         NEW f, \A x \in S : f[x] \in Nat,
         NEW h, \A x \in S : h[x] \in Nat,
         \A x \in S \ {y} : f[x] = h[x]
  PROVE  Total(h, S) = Total(f, S) - f[y] + h[y]
<1>1. Total(f, S \ {y}) = Total(h, S \ {y})
  BY TotalSame
<1>2. QED
  BY <1>1, TotalSplit

\* No row exceeds the total.
LEMMA TotalBoundsRow ==
  ASSUME NEW S, IsFiniteSet(S), NEW f, \A x \in S : f[x] \in Nat, NEW y \in S
  PROVE  f[y] <= Total(f, S)
<1>1. f[y] \in Nat
  OBVIOUS
<1>2. /\ Total(f, S \ {y}) \in Nat
      /\ Total(f, S) = Total(f, S \ {y}) + f[y]
  BY TotalSplit
<1>3. QED
  BY <1>1, <1>2

\* Rows without an amount add nothing.
LEMMA TotalZero ==
  ASSUME NEW S, NEW f, \A x \in S : f[x] = 0
  PROVE  Total(f, S) = 0
<1>1. Units(f, S) = {}
  BY DEF Units
<1>2. QED
  BY <1>1, FS_EmptySet DEF Total

\* Smaller amounts have a smaller total.
LEMMA TotalMonotone ==
  ASSUME NEW S, IsFiniteSet(S),
         NEW f, \A x \in S : f[x] \in Nat,
         NEW h, \A x \in S : h[x] \in Nat,
         \A x \in S : h[x] <= f[x]
  PROVE  Total(h, S) <= Total(f, S)
<1>1. Units(h, S) \subseteq Units(f, S)
  BY DEF Units
<1>2. QED
  BY <1>1, UnitsFinite, FS_Subset DEF Total

\* Rows without an amount can be left out.
LEMMA TotalOfPart ==
  ASSUME NEW S, NEW T \in SUBSET S, NEW f, \A x \in S \ T : f[x] = 0
  PROVE  Total(f, S) = Total(f, T)
<1>1. Units(f, S) = Units(f, T)
  BY DEF Units
<1>2. QED
  BY <1>1 DEF Total

\* Fewer rows have a smaller total.
LEMMA TotalOfSubset ==
  ASSUME NEW S, IsFiniteSet(S), NEW f, \A x \in S : f[x] \in Nat, NEW T \in SUBSET S
  PROVE  Total(f, T) <= Total(f, S)
<1>1. Units(f, T) \in SUBSET Units(f, S)
  BY DEF Units
<1>2. QED
  BY <1>1, UnitsFinite, FS_Subset DEF Total

\* Of some sets of rows, one contains no other.
LEMMA SmallestSet ==
  ASSUME NEW S, IsFiniteSet(S), NEW F \in SUBSET (SUBSET S), F # {}
  PROVE  \E P \in F : \A Q \in F : Q \subseteq P => Q = P
<1> DEFINE inside == StrictSubsetOrdering(S)
<1>1. IsWellFoundedOn(inside, SUBSET S)
  BY FS_StrictSubsetOrderingWellFounded, FS_FiniteSubsetsOfFinite
<1>2. PICK P \in F : \A Q \in F : ~(<<Q, P>> \in inside)
  <2> HIDE DEF inside
  <2>1. QED
    BY <1>1, WFMin
<1>3. QED
  BY <1>2 DEF StrictSubsetOrdering

\* R is a strict order of P.
Orders(R, P) ==
    /\ \A x \in P : <<x, x>> \notin R
    /\ \A x, y, z \in P : <<x, y>> \in R /\ <<y, z>> \in R => <<x, z>> \in R

\* A finite set that is ordered by R has a last element.
LEMMA LastElement ==
  ASSUME NEW P, IsFiniteSet(P), P # {}, NEW R, Orders(R, P)
  PROVE  \E y \in P : \A z \in P : <<y, z>> \notin R
<1> DEFINE after(x) == { z \in P : <<x, z>> \in R }
           F == { after(x) : x \in P }
<1>1. F \in SUBSET (SUBSET P) /\ F # {}
  <2>1. \A x \in P : after(x) \in SUBSET P
    OBVIOUS
  <2>2. PICK w \in P : TRUE
    OBVIOUS
  <2>3. after(w) \in F
    OBVIOUS
  <2> HIDE DEF after
  <2>4. QED
    BY <2>1, <2>3
<1>2. PICK A \in F : \A B \in F : B \subseteq A => B = A
  <2> HIDE DEF F
  <2>1. QED
    BY <1>1, SmallestSet
<1>3. PICK y \in P : A = after(y)
  OBVIOUS
<1>4. ASSUME NEW z \in P, <<y, z>> \in R PROVE FALSE
  <2>1. z \in after(y) /\ z \notin after(z)
    BY <1>4 DEF Orders
  <2>2. after(z) \subseteq after(y)
    BY <1>4 DEF Orders
  <2>3. after(z) \in F
    OBVIOUS
  <2>4. QED
    BY <1>2, <1>3, <2>1, <2>2, <2>3
<1>5. QED
  BY <1>4

\* A total of sums is the sum of the totals.
LEMMA TotalSum ==
  ASSUME NEW S, IsFiniteSet(S),
         NEW f, \A x \in S : f[x] \in Nat,
         NEW h, \A x \in S : h[x] \in Nat,
         NEW k, \A x \in S : k[x] = f[x] + h[x]
  PROVE  Total(k, S) = Total(f, S) + Total(h, S)
<1> DEFINE Bad == { P \in SUBSET S : Total(k, P) # Total(f, P) + Total(h, P) }
<1>1. ASSUME Bad # {} PROVE FALSE
  <2>1. PICK P \in Bad : \A Q \in Bad : Q \subseteq P => Q = P
    <3>1. Bad \in SUBSET (SUBSET S)
      OBVIOUS
    <3> HIDE DEF Bad
    <3>2. QED
      BY <1>1, <3>1, SmallestSet
  <2>2. P \subseteq S /\ IsFiniteSet(P)
    BY FS_Subset
  <2>3. P # {}
    <3>1. ASSUME P = {} PROVE Total(k, P) = 0 /\ Total(f, P) = 0 /\ Total(h, P) = 0
      <4>1. \A x \in P : k[x] = 0 /\ f[x] = 0 /\ h[x] = 0
        BY <3>1
      <4>2. QED
        BY <4>1, TotalZero
    <3>2. Total(k, P) # Total(f, P) + Total(h, P)
      BY <2>1
    <3>3. QED
      BY <3>1, <3>2
  <2>4. PICK y \in P : TRUE
    BY <2>3
  <2> DEFINE rest == P \ {y}
  <2>5. rest \notin Bad
    BY <2>1, <2>4
  <2>6. Total(k, rest) = Total(f, rest) + Total(h, rest)
    BY <2>2, <2>5
  <2>7. \A x \in P : f[x] \in Nat /\ h[x] \in Nat /\ k[x] \in Nat
    BY <2>2
  <2>8. /\ Total(f, P) = Total(f, rest) + f[y] /\ Total(f, rest) \in Nat
        /\ Total(h, P) = Total(h, rest) + h[y] /\ Total(h, rest) \in Nat
        /\ Total(k, P) = Total(k, rest) + k[y]
    BY <2>2, <2>4, <2>7, TotalSplit
  <2>9. k[y] = f[y] + h[y] /\ f[y] \in Nat /\ h[y] \in Nat
    BY <2>2, <2>4
  <2>10. Total(k, P) = Total(f, P) + Total(h, P)
    <3> HIDE DEF rest
    <3>1. QED
      BY <2>6, <2>8, <2>9
  <2>11. QED
    BY <2>1, <2>10
<1>2. QED
  BY <1>1
=============================================================================
