-------------------------- MODULE QuietLedgerProofs --------------------------
(***************************************************************************)
(* Theorems of QuietLedger, for any tables of requests, any scenario, any  *)
(* prices and any clock.                                                   *)
(*                                                                         *)
(* The argument has four parts.                                            *)
(*   1. Sums over finite sets.  A set of subsets that has the empty set    *)
(*      and grows by single elements reaches the whole set, by a least     *)
(*      counterexample; every law of Total follows from it.                *)
(*   2. Pure calculations.  A quote funds what its tranches add up to,     *)
(*      takes from no mandate more than it has room for, and charges a     *)
(*      rate that covers the lenders'; so the lenders' rounded parts of    *)
(*      the interest never exceed the interest.                            *)
(*   3. The inductive invariant IInv: the four invariants of QuietLedger   *)
(*      that a step can rely on, the types, and LoanTerms, that a loan     *)
(*      keeps what its quote promised.  One lemma per operation.           *)
(*   4. Closing loans.  A repayment and a liquidation are the same change, *)
(*      of one loan or of several: no check of distributeRepayment fails,  *)
(*      what leaves the reserves is what leaves the mandates, and what     *)
(*      payer and backstop lose is what the lenders and the protocol get   *)
(*      and the debt that ends.                                            *)
(***************************************************************************)
EXTENDS QuietLedger, FiniteSetTheorems, FunctionTheorems, WellFoundedInduction, TLAPS

-----------------------------------------------------------------------------
(***************************************************************************)
(* Sums over finite sets                                                   *)
(***************************************************************************)
Units(f, S) == UNION {{i} \X (1..f[i]) : i \in S}

\* f is an amount at every element of the finite set S.
Amounts(f, S) == IsFiniteSet(S) /\ \A i \in S : f[i] \in Nat

LEMMA CountTo ==
  ASSUME NEW n \in Nat
  PROVE  IsFiniteSet(1..n) /\ Cardinality(1..n) = n
BY FS_Interval

\* A set of sets that has {} and grows with any new element reaches every finite set:
\* otherwise, of the subsets it misses, take one of the fewest elements.
LEMMA FiniteInduction ==
  ASSUME NEW S, IsFiniteSet(S), NEW Good, {} \in Good,
         \A T \in SUBSET S : \A x \in S \ T : T \in Good => T \cup {x} \in Good
  PROVE  S \in Good
<1> DEFINE Bad == {T \in SUBSET S : T \notin Good}
           Sizes == {n \in Nat : \E T \in Bad : Cardinality(T) = n}
<1>1. \A T \in SUBSET S : IsFiniteSet(T) /\ Cardinality(T) \in Nat
  BY FS_Subset, FS_CardinalityType
<1>2. SUFFICES ASSUME S \notin Good PROVE FALSE
  OBVIOUS
<1>3. Sizes # {} /\ Sizes \subseteq Nat
  BY <1>1, <1>2
<1> HIDE DEF Sizes
<1>4. PICK n \in Sizes : \A k \in Sizes : ~ (<<k, n>> \in OpToRel(<, Nat))
  BY <1>3, NatLessThanWellFounded, WFMin
<1>5. \A k \in Sizes : ~ (k < n)
  BY <1>3, <1>4 DEF OpToRel
<1>6. PICK T \in Bad : Cardinality(T) = n
  BY DEF Sizes
<1>7. PICK x : x \in T
  BY <1>6
<1>8. T \ {x} \in SUBSET S /\ Cardinality(T \ {x}) = n - 1
  BY <1>1, <1>6, <1>7, FS_RemoveElement
<1>9. n - 1 < n /\ n - 1 \in Nat
  <2>1. Cardinality(T \ {x}) \in Nat /\ n \in Nat
    BY <1>1, <1>3, <1>8
  <2> QED
    BY <1>8, <2>1
<1>10. T \ {x} \in Good
  BY <1>5, <1>8, <1>9 DEF Sizes
<1>11. (T \ {x}) \cup {x} = T
  BY <1>7
<1> QED
  BY <1>6, <1>7, <1>8, <1>10, <1>11

LEMMA UnitsFinite ==
  ASSUME NEW f, NEW S, Amounts(f, S)
  PROVE  IsFiniteSet(Units(f, S))
<1> DEFINE cells == {{i} \X (1..f[i]) : i \in S}
           part == [i \in S |-> {i} \X (1..f[i])]
<1>1. \A i \in S : IsFiniteSet({i} \X (1..f[i]))
  <2> SUFFICES ASSUME NEW i \in S PROVE IsFiniteSet({i} \X (1..f[i]))
    OBVIOUS
  <2>1. IsFiniteSet({i})
    BY FS_Singleton
  <2>2. IsFiniteSet(1..f[i])
    BY CountTo DEF Amounts
  <2> QED
    BY <2>1, <2>2, FS_Product
<1>2. part \in Surjection(S, cells)
  BY DEF Surjection
<1>3. IsFiniteSet(cells)
  BY <1>2, FS_Surjection DEF Amounts
<1> QED
  BY <1>1, <1>3, FS_UNION DEF Units

LEMMA TotalType ==
  ASSUME NEW f, NEW S, Amounts(f, S)
  PROVE  Total(f, S) \in Nat
BY UnitsFinite, FS_CardinalityType DEF Total, Units

LEMMA TotalEmpty == \A f : Total(f, {}) = 0
BY FS_EmptySet DEF Total

LEMMA TotalUnion ==
  ASSUME NEW f, NEW S, NEW T, Amounts(f, S), Amounts(f, T), S \cap T = {}
  PROVE  Total(f, S \cup T) = Total(f, S) + Total(f, T)
<1>1. Units(f, S \cup T) = Units(f, S) \cup Units(f, T)
  BY DEF Units
<1>2. Units(f, S) \cap Units(f, T) = {}
  BY DEF Units
<1>3. IsFiniteSet(Units(f, S)) /\ IsFiniteSet(Units(f, T))
  BY UnitsFinite
<1>4. Cardinality(Units(f, S)) \in Nat /\ Cardinality(Units(f, T)) \in Nat
  BY <1>3, FS_CardinalityType
<1>5. Cardinality(Units(f, S) \cup Units(f, T)) =
        Cardinality(Units(f, S)) + Cardinality(Units(f, T))
  <2> DEFINE A == Units(f, S)
             B == Units(f, T)
  <2> HIDE DEF A, B
  <2>1. IsFiniteSet(A) /\ IsFiniteSet(B) /\ A \cap B = {}
    BY <1>2, <1>3 DEF A, B
  <2>2. Cardinality(A \cup B) = Cardinality(A) + Cardinality(B) - Cardinality(A \cap B)
    BY <2>1, FS_Union
  <2>3. Cardinality(A \cap B) = 0
    BY <2>1, FS_EmptySet
  <2>4. Cardinality(A \cup B) = Cardinality(A) + Cardinality(B)
    BY <1>4, <2>2, <2>3 DEF A, B
  <2> QED
    BY <2>4 DEF A, B
<1> QED
  BY <1>1, <1>5 DEF Total, Units

LEMMA TotalOne ==
  ASSUME NEW f, NEW x, f[x] \in Nat
  PROVE  Total(f, {x}) = f[x]
<1>1. Units(f, {x}) = {x} \X (1..f[x])
  BY DEF Units
<1>2. Cardinality({x} \X (1..f[x])) = 1 * f[x]
  <2>1. Cardinality(1..f[x]) = f[x] /\ IsFiniteSet(1..f[x])
    BY CountTo
  <2>2. Cardinality({x}) = 1 /\ IsFiniteSet({x})
    BY FS_Singleton
  <2>3. Cardinality({x} \X (1..f[x])) = Cardinality({x}) * Cardinality(1..f[x])
    BY <2>1, <2>2, FS_Product
  <2> QED
    BY <2>1, <2>2, <2>3
<1> QED
  BY <1>1, <1>2 DEF Total, Units

LEMMA TotalAdd ==
  ASSUME NEW f, NEW S, NEW x, Amounts(f, S), f[x] \in Nat, x \notin S
  PROVE  Total(f, S \cup {x}) = Total(f, S) + f[x]
<1>1. Amounts(f, {x}) /\ S \cap {x} = {}
  BY FS_Singleton DEF Amounts
<1> QED
  BY <1>1, TotalUnion, TotalOne

LEMMA TotalSame ==
  ASSUME NEW f, NEW g, NEW S, \A i \in S : f[i] = g[i]
  PROVE  Total(f, S) = Total(g, S)
<1>1. {{i} \X (1..f[i]) : i \in S} = {{i} \X (1..g[i]) : i \in S}
  OBVIOUS
<1> QED
  BY <1>1 DEF Total

LEMMA TotalZero ==
  ASSUME NEW f, NEW S, \A i \in S : f[i] = 0
  PROVE  Total(f, S) = 0
<1>1. Units(f, S) = {}
  BY DEF Units
<1> QED
  BY <1>1, FS_EmptySet DEF Total, Units

LEMMA TotalAtMost ==
  ASSUME NEW f, NEW g, NEW S, Amounts(f, S), Amounts(g, S), \A i \in S : f[i] <= g[i]
  PROVE  Total(f, S) <= Total(g, S)
<1>1. Units(f, S) \subseteq Units(g, S)
  <2>1. \A i \in S : 1..f[i] \subseteq 1..g[i]
    BY DEF Amounts
  <2> QED
    BY <2>1 DEF Units
<1> QED
  BY <1>1, UnitsFinite, FS_Subset DEF Total, Units

\* The sum over a part of a set, and one element's share.
LEMMA TotalSubset ==
  ASSUME NEW f, NEW S, NEW T \in SUBSET S, Amounts(f, S)
  PROVE  /\ Amounts(f, T) /\ Amounts(f, S \ T)
         /\ Total(f, S) = Total(f, T) + Total(f, S \ T)
         /\ Total(f, T) <= Total(f, S)
<1>1. Amounts(f, T) /\ Amounts(f, S \ T)
  BY FS_Subset, FS_Difference DEF Amounts
<1>2. T \cap (S \ T) = {} /\ S = T \cup (S \ T)
  OBVIOUS
<1>3. Total(f, S) = Total(f, T) + Total(f, S \ T)
  BY <1>1, <1>2, TotalUnion
<1> QED
  BY <1>1, <1>3, TotalType

LEMMA TotalPick ==
  ASSUME NEW f, NEW S, NEW x \in S, Amounts(f, S)
  PROVE  /\ Amounts(f, S \ {x})
         /\ Total(f, S) = f[x] + Total(f, S \ {x})
         /\ f[x] <= Total(f, S)
<1>1. {x} \in SUBSET S /\ f[x] \in Nat
  BY DEF Amounts
<1>2. /\ Amounts(f, S \ {x})
      /\ Total(f, S) = Total(f, {x}) + Total(f, S \ {x})
      /\ Total(f, {x}) <= Total(f, S)
  <2> DEFINE T == {x}
  <2>1. T \in SUBSET S
    BY <1>1
  <2> HIDE DEF T
  <2>2. /\ Amounts(f, S \ T)
        /\ Total(f, S) = Total(f, T) + Total(f, S \ T)
        /\ Total(f, T) <= Total(f, S)
    BY <2>1, TotalSubset
  <2> QED
    BY <2>2 DEF T
<1> QED
  BY <1>1, <1>2, TotalOne

LEMMA TotalGrow ==
  ASSUME NEW f, NEW S, Amounts(f, S), NEW U \in SUBSET S, NEW x \in S \ U
  PROVE  /\ Amounts(f, U) /\ f[x] \in Nat
         /\ Total(f, U \cup {x}) = Total(f, U) + f[x]
<1>1. Amounts(f, U) /\ f[x] \in Nat
  BY TotalSubset DEF Amounts
<1> QED
  BY <1>1, TotalAdd

\* One entry of a sum changes.
LEMMA TotalChange ==
  ASSUME NEW f, NEW g, NEW S, NEW x \in S, Amounts(f, S), Amounts(g, S),
         \A i \in S \ {x} : g[i] = f[i]
  PROVE  Total(g, S) = Total(f, S) - f[x] + g[x]
<1>1. /\ Total(f, S) = f[x] + Total(f, S \ {x})
      /\ Total(g, S) = g[x] + Total(g, S \ {x})
      /\ Amounts(f, S \ {x})
  BY TotalPick
<1>2. Total(g, S \ {x}) = Total(f, S \ {x})
  BY TotalSame
<1>3. f[x] \in Nat /\ g[x] \in Nat /\ Total(f, S \ {x}) \in Nat
  BY <1>1, TotalType DEF Amounts
<1> QED
  BY <1>1, <1>2, <1>3

LEMMA TotalPlus ==
  ASSUME NEW f, NEW g, NEW h, NEW S, Amounts(f, S), Amounts(g, S),
         \A i \in S : h[i] = f[i] + g[i]
  PROVE  Total(h, S) = Total(f, S) + Total(g, S)
<1> DEFINE Good == {T \in SUBSET S : Total(h, T) = Total(f, T) + Total(g, T)}
<1>1. {} \in Good
  BY TotalEmpty
<1>2. ASSUME NEW T \in SUBSET S, NEW x \in S \ T, T \in Good
      PROVE  T \cup {x} \in Good
  <2>1. Amounts(f, T) /\ Amounts(g, T) /\ Amounts(h, T)
    <3>1. Amounts(h, S)
      BY DEF Amounts
    <3> QED
      BY <3>1, TotalSubset
  <2>2. f[x] \in Nat /\ g[x] \in Nat /\ h[x] = f[x] + g[x] /\ h[x] \in Nat
    BY DEF Amounts
  <2>3. /\ Total(f, T \cup {x}) = Total(f, T) + f[x]
        /\ Total(g, T \cup {x}) = Total(g, T) + g[x]
        /\ Total(h, T \cup {x}) = Total(h, T) + h[x]
    BY <2>1, <2>2, TotalAdd
  <2>4. Total(f, T) \in Nat /\ Total(g, T) \in Nat
    BY <2>1, TotalType
  <2> QED
    BY <1>2, <2>2, <2>3, <2>4
<1>3. IsFiniteSet(S)
  BY DEF Amounts
<1> HIDE DEF Good
<1>4. S \in Good
  BY <1>1, <1>2, <1>3, FiniteInduction
<1> QED
  BY <1>4 DEF Good

LEMMA TotalMinus ==
  ASSUME NEW f, NEW g, NEW h, NEW S, Amounts(f, S), Amounts(g, S), Amounts(h, S),
         \A i \in S : h[i] = f[i] - g[i]
  PROVE  Total(h, S) = Total(f, S) - Total(g, S)
<1>1. \A i \in S : f[i] = h[i] + g[i]
  BY DEF Amounts
<1>2. Total(f, S) = Total(h, S) + Total(g, S)
  BY <1>1, TotalPlus
<1> QED
  BY <1>2, TotalType

\* Every entry of h is c times that of f.
Multiple(h, c, f, S) == \A i \in S : h[i] = c * f[i]

LEMMA TotalTimes ==
  ASSUME NEW f, NEW h, NEW c \in Nat, NEW S, Amounts(f, S), Amounts(h, S),
         Multiple(h, c, f, S)
  PROVE  Total(h, S) = c * Total(f, S)
<1> DEFINE Good == {T \in SUBSET S : Total(h, T) = c * Total(f, T)}
<1>1. {} \in Good
  BY TotalEmpty
<1>2. ASSUME NEW T \in SUBSET S, NEW x \in S \ T, T \in Good
      PROVE  T \cup {x} \in Good
  <2>1. Amounts(f, T) /\ Amounts(h, T)
    BY TotalSubset
  <2>2. f[x] \in Nat /\ h[x] \in Nat /\ h[x] = c * f[x]
    BY DEF Amounts, Multiple
  <2>3. /\ Total(f, T \cup {x}) = Total(f, T) + f[x]
        /\ Total(h, T \cup {x}) = Total(h, T) + h[x]
    BY <2>1, <2>2, TotalAdd
  <2>4. Total(f, T) \in Nat /\ Total(h, T) = c * Total(f, T)
    BY <1>2, <2>1, TotalType
  <2>5. c * (Total(f, T) + f[x]) = c * Total(f, T) + c * f[x]
    BY <2>2, <2>4
  <2> QED
    BY <2>2, <2>3, <2>4, <2>5
<1>3. IsFiniteSet(S)
  BY DEF Amounts
<1> HIDE DEF Good
<1>4. S \in Good
  BY <1>1, <1>2, <1>3, FiniteInduction
<1> QED
  BY <1>4 DEF Good

\* A sum over D is the sum, over the owners, of the sums of what each owns.
LEMMA TotalByOwner ==
  ASSUME NEW f, NEW D, Amounts(f, D), NEW O, IsFiniteSet(O),
         NEW part, \A o \in O : part[o] \in SUBSET D,
         \A m \in D : \E o \in O : m \in part[o],
         \A m \in D : \A o1, o2 \in O : m \in part[o1] /\ m \in part[o2] => o1 = o2,
         NEW sums, \A o \in O : sums[o] = Total(f, part[o])
  PROVE  Amounts(sums, O) /\ Total(sums, O) = Total(f, D)
<1> DEFINE Part(U) == {m \in D : \E o \in U : m \in part[o]}
           Good == {U \in SUBSET O : Total(sums, U) = Total(f, Part(U))}
<1>1. ASSUME NEW T \in SUBSET D PROVE Amounts(f, T) /\ Total(f, T) \in Nat
  BY TotalSubset, TotalType
<1>2. Amounts(sums, O)
  BY <1>1 DEF Amounts
<1>3. {} \in Good
  BY TotalEmpty
<1>4. ASSUME NEW U \in SUBSET O, NEW o \in O \ U, U \in Good
      PROVE  U \cup {o} \in Good
  <2>1. Total(sums, U \cup {o}) = Total(sums, U) + sums[o]
    BY <1>2, TotalGrow
  <2>2. Part(U \cup {o}) = Part(U) \cup part[o] /\ Part(U) \cap part[o] = {}
    OBVIOUS
  <2>3. Part(U) \in SUBSET D /\ part[o] \in SUBSET D
    OBVIOUS
  <2> HIDE DEF Part
  <2>4. Total(f, Part(U) \cup part[o]) = Total(f, Part(U)) + Total(f, part[o])
    BY <1>1, <2>2, <2>3, TotalUnion
  <2> QED
    BY <1>4, <2>1, <2>2, <2>4
<1> HIDE DEF Good
<1>5. O \in Good
  BY <1>3, <1>4, FiniteInduction
<1>6. Part(O) = D
  OBVIOUS
<1> QED
  BY <1>2, <1>5, <1>6 DEF Good

\* The units of a matrix, counted by rows and by columns.
RowSums(rows, F, S, T) ==
  \A i \in S : (\A m \in T : F[i][m] \in Nat) /\ rows[i] = Total(F[i], T)

ColumnSums(cols, col, F, S, T) ==
  \A m \in T : (\A i \in S : col[m][i] = F[i][m]) /\ cols[m] = Total(col[m], S)

LEMMA TotalSwap ==
  ASSUME NEW F, NEW S, IsFiniteSet(S), NEW T, IsFiniteSet(T),
         NEW rows, RowSums(rows, F, S, T),
         NEW col, NEW cols, ColumnSums(cols, col, F, S, T)
  PROVE  /\ Amounts(rows, S) /\ Amounts(cols, T)
         /\ Total(rows, S) = Total(cols, T)
<1> DEFINE Cols(U) == [m \in T |-> Total(col[m], U)]
           Good == {U \in SUBSET S : Total(rows, U) = Total(Cols(U), T)}
<1>0. /\ \A i \in S : (\A m \in T : F[i][m] \in Nat) /\ rows[i] = Total(F[i], T)
      /\ \A m \in T : (\A i \in S : col[m][i] = F[i][m]) /\ cols[m] = Total(col[m], S)
  BY DEF RowSums, ColumnSums
<1>1. ASSUME NEW m \in T PROVE Amounts(col[m], S)
  BY <1>0 DEF Amounts
<1>2. ASSUME NEW i \in S PROVE Amounts(F[i], T) /\ rows[i] = Total(F[i], T) /\ rows[i] \in Nat
  BY <1>0, TotalType DEF Amounts
<1>3. Amounts(rows, S)
  BY <1>2 DEF Amounts
<1>4. ASSUME NEW U \in SUBSET S PROVE Amounts(Cols(U), T)
  <2>1. ASSUME NEW m \in T PROVE Total(col[m], U) \in Nat
    BY <1>1, TotalSubset, TotalType
  <2> QED
    BY <2>1 DEF Amounts
<1>5. {} \in Good
  <2>1. Total(rows, {}) = 0
    BY TotalEmpty
  <2>2. \A m \in T : Cols({})[m] = 0
    BY TotalEmpty
  <2>3. Total(Cols({}), T) = 0
    BY <2>2, TotalZero
  <2> QED
    BY <2>1, <2>3
<1>6. ASSUME NEW U \in SUBSET S, NEW x \in S \ U, U \in Good
      PROVE  U \cup {x} \in Good
  <2>1. Total(rows, U \cup {x}) = Total(rows, U) + rows[x]
    BY <1>3, TotalGrow
  <2>2. ASSUME NEW m \in T PROVE Cols(U \cup {x})[m] = Cols(U)[m] + F[x][m]
    <3> DEFINE c == col[m]
    <3>1. Amounts(c, S) /\ c[x] = F[x][m]
      BY <1>0, <1>1
    <3> HIDE DEF c
    <3>2. Total(c, U \cup {x}) = Total(c, U) + c[x]
      BY <3>1, TotalGrow
    <3> QED
      BY <3>1, <3>2 DEF c
  <2>3. Total(Cols(U \cup {x}), T) = Total(Cols(U), T) + Total(F[x], T)
    <3> DEFINE c == Cols(U)
               r == F[x]
               d == Cols(U \cup {x})
    <3>1. Amounts(c, T) /\ Amounts(r, T) /\ \A m \in T : d[m] = c[m] + r[m]
      BY <1>2, <1>4, <2>2
    <3> HIDE DEF c, r, d
    <3>2. Total(d, T) = Total(c, T) + Total(r, T)
      BY <3>1, TotalPlus
    <3> QED
      BY <3>2 DEF c, r, d
  <2> QED
    BY <1>2, <1>6, <2>1, <2>3
<1> HIDE DEF Good
<1>7. S \in Good
  BY <1>5, <1>6, FiniteInduction
<1>8. \A m \in T : cols[m] = Cols(S)[m]
  BY <1>0
<1>9. Amounts(cols, T) /\ Total(cols, T) = Total(Cols(S), T)
  <2> DEFINE c == Cols(S)
  <2>1. Amounts(c, T) /\ \A m \in T : cols[m] = c[m]
    BY <1>4, <1>8
  <2> HIDE DEF c
  <2>2. Amounts(cols, T) /\ Total(cols, T) = Total(c, T)
    BY <2>1, TotalSame DEF Amounts
  <2> QED
    BY <2>2 DEF c
<1> QED
  BY <1>3, <1>7, <1>9 DEF Good

-----------------------------------------------------------------------------
(***************************************************************************)
(* Types and the inductive invariant                                       *)
(***************************************************************************)
Typed ==
  /\ TypeOK
  /\ mandates \in [DOMAIN mandates -> Mandate]
  /\ loans \in [DOMAIN loans -> Loan]

\* The lenders' rates, weighted with what they lend.
Weighted(t) == [m \in MandateIds |-> t[m] * MandateTerms[m].minAPR]

\* The tranches add up to the principal, and no lender was promised more of the
\* interest than the borrower pays.
Sound(l) ==
  /\ l.principal > 0 /\ l.apr > 0
  /\ Total(l.tranches, MandateIds) = l.principal
  /\ Total(Weighted(l.tranches), MandateIds) <= l.apr * l.principal

LoanTerms ==
  /\ DOMAIN loans \subseteq processed
  /\ \A i \in DOMAIN loans :
       /\ Sound(loans[i])
       /\ \A m \in MandateIds : loans[i].tranches[m] > 0 => m \in DOMAIN mandates

-----------------------------------------------------------------------------
(***************************************************************************)
(* Pure calculations                                                       *)
(***************************************************************************)
LEMMA Division ==
  ASSUME NEW a \in Nat, NEW b \in Nat \ {0}
  PROVE  /\ a \div b \in Nat
         /\ (a \div b) * b <= a
         /\ a < (a \div b) * b + b
OBVIOUS

LEMMA Product == \A a, b \in Nat : a * b \in Nat
OBVIOUS

LEMMA Constants ==
  /\ Scale \in Nat \ {0} /\ Day \in Nat \ {0} /\ Year \in Nat \ {0}
  /\ BPS * Year \in Nat \ {0}
BY ConstantsAssumption DEF BPS

\* Accruing interest changes nothing but the interest and its time.
LEMMA AccrueFacts ==
  ASSUME NEW l \in Loan, NEW now \in Times
  PROVE  /\ Accrue(l, now) \in Loan
         /\ Accrue(l, now).principal = l.principal /\ Accrue(l, now).apr = l.apr
         /\ Accrue(l, now).tranches = l.tranches /\ Accrue(l, now).collateral = l.collateral
         /\ Accrue(l, now).status = l.status
<1>1. CASE now <= l.lastAccruedAt
  BY <1>1 DEF Accrue
<1>2. CASE ~(now <= l.lastAccruedAt)
  <2> DEFINE apr == l.apr + (IF Late(l, now) THEN 300 ELSE 0)
             more == (l.principal * apr * (now - l.lastAccruedAt) * Scale) \div (BPS * Year)
  <2>1. apr \in Nat /\ l.principal \in Nat /\ now - l.lastAccruedAt \in Nat /\ l.accrued \in Nat
    <3>1. l.principal \in Nat /\ l.accrued \in Nat /\ l.apr \in Nat /\ l.lastAccruedAt \in Times
      BY DEF Loan
    <3>2. now \in Nat /\ l.lastAccruedAt \in Nat
      BY <3>1, ConstantsAssumption
    <3> QED
      BY <1>2, <3>1, <3>2
  <2> HIDE DEF apr
  <2>2. l.principal * apr \in Nat
    BY <2>1, Product
  <2>3. l.principal * apr * (now - l.lastAccruedAt) \in Nat
    BY <2>1, <2>2, Product
  <2>4. l.principal * apr * (now - l.lastAccruedAt) * Scale \in Nat
    BY <2>3, Constants, Product
  <2>5. more \in Nat
    BY <2>4, Constants, Division
  <2>6. Accrue(l, now) = [l EXCEPT !.accrued = @ + more, !.lastAccruedAt = now]
    BY <1>2 DEF Accrue, apr
  <2> HIDE DEF more
  <2>7. l.accrued + more \in Nat
    BY <2>1, <2>5
  <2> QED
    BY <2>6, <2>7 DEF Loan
<1> QED
  BY <1>1, <1>2

LEMMA InterestFacts ==
  ASSUME NEW l \in Loan
  PROVE  Interest(l) \in Nat /\ Debt(l) = l.principal + Interest(l) /\ Debt(l) \in Nat
<1>1. l.accrued \in Nat /\ l.principal \in Nat
  BY DEF Loan
<1>2. l.accrued \div Scale \in Nat
  BY <1>1, Constants, Division
<1> QED
  BY <1>1, <1>2 DEF Interest, Debt

\* A loan that was just accrued or opened is an open one.
LEMMA StatusIsOpen ==
  \A l, p, now : Status(l, p, now) \in {"healthy", "restricted", "warning", "liquidatable"}
BY DEF Status

\* A lender's part of the interest, as the code rounds it.
LEMMA LenderInterestFacts ==
  ASSUME NEW l \in Loan, l.principal > 0, l.apr > 0, NEW m \in MandateIds
  PROVE  /\ LenderInterest(l, m) \in Nat
         /\ l.tranches[m] = 0 => LenderInterest(l, m) = 0
         /\ (l.apr * l.principal) * LenderInterest(l, m)
              <= Interest(l) * Weighted(l.tranches)[m]
<1> DEFINE I == Interest(l)
           t == l.tranches[m]
           P == l.principal
           r == MandateTerms[m].minAPR
           share == (I * t) \div P
           part == (share * r) \div l.apr
<1>1. I \in Nat /\ t \in Nat /\ P \in Nat \ {0} /\ r \in Nat /\ l.apr \in Nat \ {0}
  BY InterestFacts, TablesAssumption DEF Loan
<1>2. LenderInterest(l, m) = part /\ Weighted(l.tranches)[m] = t * r
  BY DEF LenderInterest, Weighted
<1> HIDE DEF I, t, P, r
<1>3. I * t \in Nat /\ share \in Nat /\ share * P <= I * t
  BY <1>1, Product, Division
<1>4. t = 0 => share = 0
  BY <1>1, <1>3
<1> HIDE DEF share
<1>5. share * r \in Nat /\ part \in Nat /\ part * l.apr <= share * r
  BY <1>1, <1>3, Product, Division
<1>6. share = 0 => part = 0
  BY <1>1, <1>5
<1> HIDE DEF part
<1>7. (l.apr * P) * part <= I * (t * r)
  <2>1. (part * l.apr) * P <= (share * r) * P
    BY <1>1, <1>3, <1>5
  <2>2. (share * P) * r <= (I * t) * r
    BY <1>1, <1>3
  <2>3. (share * r) * P = (share * P) * r /\ (I * t) * r = I * (t * r)
        /\ (part * l.apr) * P = (l.apr * P) * part
    BY <1>1, <1>3, <1>5
  <2>4. /\ (part * l.apr) * P \in Int /\ (share * r) * P \in Int
        /\ (I * t) * r \in Int /\ (share * P) * r \in Int
    BY <1>1, <1>3, <1>5
  <2> QED
    BY <2>1, <2>2, <2>3, <2>4
<1> QED
  BY <1>2, <1>4, <1>5, <1>6, <1>7 DEF P, I, t

\* The lenders' parts are at most the whole: the difference is the protocol's.
LEMMA LendersShare ==
  ASSUME NEW l \in Loan, Sound(l)
  PROVE  /\ Amounts([m \in MandateIds |-> LenderInterest(l, m)], MandateIds)
         /\ LendersInterest(l) \in Nat
         /\ LendersInterest(l) <= Interest(l)
<1> DEFINE part == [m \in MandateIds |-> LenderInterest(l, m)]
           w == Weighted(l.tranches)
           c == l.apr * l.principal
           scaled == [m \in MandateIds |-> c * part[m]]
           bound == [m \in MandateIds |-> Interest(l) * w[m]]
<1>1. l.principal > 0 /\ l.apr > 0 /\ l.principal \in Nat /\ l.apr \in Nat /\ Interest(l) \in Nat
      /\ IsFiniteSet(MandateIds)
  BY InterestFacts, TablesAssumption DEF Sound, Loan
<1>2. c \in Nat /\ c > 0
  BY <1>1
<1>3. Amounts(part, MandateIds)
  BY <1>1, LenderInterestFacts DEF Amounts
<1>4. Amounts(w, MandateIds)
  <2>1. ASSUME NEW m \in MandateIds PROVE l.tranches[m] * MandateTerms[m].minAPR \in Nat
    BY TablesAssumption, Product DEF Loan
  <2> QED
    BY <1>1, <2>1 DEF Amounts, Weighted
<1>5. \A m \in MandateIds : scaled[m] <= bound[m]
  BY <1>1, LenderInterestFacts
<1>6. Total(w, MandateIds) <= c
  BY DEF Sound
<1>7. LendersInterest(l) = Total(part, MandateIds)
  BY DEF LendersInterest
<1> HIDE DEF part, w, c
<1>8. Amounts(scaled, MandateIds) /\ Amounts(bound, MandateIds)
  <2>1. ASSUME NEW m \in MandateIds PROVE scaled[m] \in Nat /\ bound[m] \in Nat
    BY <1>1, <1>2, <1>3, <1>4, Product DEF Amounts
  <2> QED
    BY <1>1, <2>1 DEF Amounts
<1>9. Total(scaled, MandateIds) = c * Total(part, MandateIds)
      /\ Total(bound, MandateIds) = Interest(l) * Total(w, MandateIds)
  <2>1. Multiple(scaled, c, part, MandateIds) /\ Multiple(bound, Interest(l), w, MandateIds)
    BY DEF Multiple
  <2> HIDE DEF scaled, bound
  <2> QED
    BY <1>1, <1>2, <1>3, <1>4, <1>8, <2>1, TotalTimes
<1>10. Total(scaled, MandateIds) <= Total(bound, MandateIds)
  <2> HIDE DEF scaled, bound
  <2> QED
    BY <1>5, <1>8, TotalAtMost
<1>11. c * Total(part, MandateIds) <= c * Interest(l)
  <2>1. Total(part, MandateIds) \in Nat /\ Total(w, MandateIds) \in Nat
    BY <1>3, <1>4, TotalType
  <2>2. Interest(l) * Total(w, MandateIds) <= Interest(l) * c
    BY <1>1, <1>2, <1>6, <2>1
  <2> QED
    BY <1>1, <1>2, <1>9, <1>10, <2>1, <2>2
<1>12. Total(part, MandateIds) <= Interest(l)
  BY <1>1, <1>2, <1>3, <1>11, TotalType
<1> QED
  BY <1>3, <1>7, <1>12, TotalType DEF part

-----------------------------------------------------------------------------
(***************************************************************************)
(* Quotes                                                                  *)
(***************************************************************************)
LEMMA Requests ==
  ASSUME NEW q \in LoanIds
  PROVE  /\ BorrowRequests[q].borrower \in Owners
         /\ BorrowRequests[q].amount \in Nat /\ BorrowRequests[q].collateral \in Nat
         /\ BorrowRequests[q].term \in Nat /\ BorrowRequests[q].maxAPR \in Nat
         /\ BorrowRequests[q].expiresAt \in Nat
BY TablesAssumption

LEMMA MandateFacts ==
  ASSUME NEW m \in MandateIds
  PROVE  /\ MandateTerms[m].lender \in Owners
         /\ MandateTerms[m].amount \in Nat /\ MandateTerms[m].minAPR \in Nat
         /\ MandateTerms[m].cap \in Nat
BY TablesAssumption

\* What a mandate has room for is an amount, and at most what it has available.
LEMMA RoomFacts ==
  ASSUME Typed, NEW m \in DOMAIN mandates
  PROVE  Room(m) \in Nat /\ Room(m) <= mandates[m].available /\ Room(m) <= MandateTerms[m].cap
<1>1. mandates[m].available \in Nat /\ MandateTerms[m].cap \in Nat
  BY MandateFacts DEF Typed, TypeOK, Mandate
<1> QED
  BY <1>1 DEF Room, Min2

LEMMA EligibleFacts ==
  ASSUME Typed, NEW r
  PROVE  /\ Eligible(r) \subseteq DOMAIN mandates /\ Eligible(r) \subseteq MandateIds
         /\ IsFiniteSet(Eligible(r))
         /\ Amounts([m \in Eligible(r) |-> Room(m)], Eligible(r))
<1>1. Eligible(r) \subseteq DOMAIN mandates /\ Eligible(r) \subseteq MandateIds
  BY DEF Eligible, Typed, TypeOK
<1>2. IsFiniteSet(Eligible(r))
  BY <1>1, TablesAssumption, FS_Subset
<1> QED
  BY <1>1, <1>2, RoomFacts DEF Amounts

\* The mandates are tried one after the other.
LEMMA BeforeIsOrder ==
  ASSUME NEW q \in LoanIds, NEW m \in MandateIds, NEW n \in MandateIds
  PROVE  /\ ~Before(q, m, m)
         /\ m # n => Before(q, m, n) \/ Before(q, n, m)
         /\ \A k \in MandateIds : Before(q, k, m) /\ Before(q, m, n) => Before(q, k, n)
<1>1. \A k \in MandateIds : MandateTerms[k].minAPR \in Nat /\ TieBreak[q][k] \in Nat
  BY TablesAssumption
<1>2. TieBreak[q][m] = TieBreak[q][n] => m = n
  BY TablesAssumption
<1> QED
  BY <1>1, <1>2 DEF Before

LEMMA TranchesFacts ==
  ASSUME Typed, NEW q \in LoanIds
  PROVE  /\ Tranches(q) \in [MandateIds -> Nat]
         /\ \A m \in MandateIds : Tranches(q)[m] > 0 => m \in Eligible(BorrowRequests[q])
         /\ \A m \in DOMAIN mandates : Tranches(q)[m] <= mandates[m].available
         /\ \A m \in MandateIds : Tranches(q)[m] > 0 => Tranches(q)[m] <= MandateTerms[m].cap
         /\ Total(Tranches(q), MandateIds) <= BorrowRequests[q].amount
<1> DEFINE r == BorrowRequests[q]
           E == Eligible(r)
           room == [m \in E |-> Room(m)]
           ahead(m) == {n \in E : Before(q, n, m)}
           t == Tranches(q)
<1>1. /\ E \subseteq DOMAIN mandates /\ E \subseteq MandateIds
      /\ Amounts(room, E) /\ r.amount \in Nat
  BY EligibleFacts, Requests
<1>2. \A m \in MandateIds :
        t[m] = IF m \notin E THEN 0
               ELSE Min2(room[m], Positive(r.amount - Total(room, ahead(m))))
  BY DEF Tranches
<1>3. \A m \in E : room[m] \in Nat /\ room[m] <= mandates[m].available
                  /\ room[m] <= MandateTerms[m].cap
  BY <1>1, RoomFacts
<1>4. t = [m \in MandateIds |-> t[m]]
  BY DEF Tranches
<1> HIDE DEF t, room
<1>5. ASSUME NEW m \in E
      PROVE  /\ Total(room, ahead(m)) \in Nat
             /\ t[m] \in Nat /\ t[m] <= room[m]
             /\ t[m] > 0 => Total(room, ahead(m)) + t[m] <= r.amount
  <2>1. Total(room, ahead(m)) \in Nat
    BY <1>1, TotalSubset, TotalType
  <2>2. m \in MandateIds /\ room[m] \in Nat
    BY <1>1, <1>3
  <2>3. t[m] = Min2(room[m], Positive(r.amount - Total(room, ahead(m))))
    BY <1>2, <2>2
  <2> HIDE DEF ahead, r, E
  <2> QED
    BY <1>1, <2>1, <2>2, <2>3 DEF Min2, Positive
<1>6. \A m \in MandateIds : t[m] \in Nat /\ (t[m] > 0 => m \in E)
  <2>1. \A m \in MandateIds : m \notin E => t[m] = 0
    BY <1>2
  <2>2. \A m \in E : t[m] \in Nat
    BY <1>5
  <2> HIDE DEF E
  <2> QED
    BY <2>1, <2>2
<1>7. ASSUME NEW m \in E, NEW n \in E, Before(q, m, n)
      PROVE  Total(room, ahead(m)) + room[m] <= Total(room, ahead(n))
  <2> DEFINE A == ahead(m)
             B == ahead(n)
  <2>1. m \notin A /\ A \cup {m} \subseteq B /\ A \cup {m} \in SUBSET E /\ A \in SUBSET E
        /\ B \in SUBSET E
    BY <1>1, <1>7, BeforeIsOrder
  <2> HIDE DEF A, B
  <2>2. Total(room, A \cup {m}) = Total(room, A) + room[m]
    BY <1>1, <2>1, TotalGrow
  <2>3. Amounts(room, B) /\ A \cup {m} \in SUBSET B
    BY <1>1, <2>1, TotalSubset
  <2>4. Total(room, A \cup {m}) <= Total(room, B)
    BY <2>3, TotalSubset
  <2> QED
    BY <2>2, <2>4 DEF A, B
<1>8. Total(t, MandateIds) <= r.amount
  <2> DEFINE U == Units(t, MandateIds)
             place == [u \in U |-> Total(room, ahead(u[1])) + u[2]]
  <2>1. \A u \in U : /\ u = <<u[1], u[2]>> /\ u[1] \in E /\ u[2] \in 1..t[u[1]]
                     /\ t[u[1]] \in Nat /\ t[u[1]] > 0
    BY <1>6 DEF Units
  <2>2. ASSUME NEW u \in U PROVE place[u] \in 1..r.amount
    BY <1>1, <1>5, <2>1
  <2>3. ASSUME NEW u \in U, NEW v \in U, Before(q, u[1], v[1])
        PROVE  place[u] < place[v]
    <3>1. u[1] \in E /\ v[1] \in E /\ u[2] \in Nat /\ v[2] \in Nat /\ v[2] >= 1
          /\ u[2] <= t[u[1]]
      BY <2>1
    <3>2. Total(room, ahead(u[1])) + room[u[1]] <= Total(room, ahead(v[1]))
      BY <1>7, <2>3, <3>1
    <3>3. /\ Total(room, ahead(u[1])) \in Nat /\ Total(room, ahead(v[1])) \in Nat
          /\ t[u[1]] \in Nat /\ t[u[1]] <= room[u[1]] /\ room[u[1]] \in Nat
      BY <1>3, <1>5, <3>1
    <3>4. place[u] = Total(room, ahead(u[1])) + u[2] /\ place[v] = Total(room, ahead(v[1])) + v[2]
      OBVIOUS
    <3> HIDE DEF place, ahead
    <3> QED
      BY <3>1, <3>2, <3>3, <3>4
  <2>4. ASSUME NEW u \in U, NEW v \in U, place[u] = place[v]
        PROVE  u = v
    <3>1. place[u] \in Int /\ place[v] \in Int
      BY <2>2
    <3>2. ~Before(q, u[1], v[1]) /\ ~Before(q, v[1], u[1])
      <4> HIDE DEF place
      <4> QED
        BY <2>3, <2>4, <3>1
    <3>3. u[1] = v[1]
      BY <1>1, <2>1, <3>2, BeforeIsOrder
    <3>4. Total(room, ahead(u[1])) + u[2] = Total(room, ahead(u[1])) + v[2]
      BY <2>4, <3>3
    <3>5. u[2] \in Nat /\ v[2] \in Nat /\ Total(room, ahead(u[1])) \in Nat
      BY <1>5, <2>1
    <3>6. u[2] = v[2]
      <4> HIDE DEF ahead
      <4> QED
        BY <3>4, <3>5
    <3> QED
      BY <2>1, <3>3, <3>6
  <2>5. place \in Injection(U, 1..r.amount)
    BY <2>2, <2>4 DEF Injection, IsInjective
  <2>6. IsFiniteSet(1..r.amount) /\ Cardinality(1..r.amount) = r.amount
    BY <1>1, CountTo
  <2> HIDE DEF place, U
  <2>7. Cardinality(U) <= r.amount
    BY <2>5, <2>6, FS_Injection
  <2> QED
    BY <2>7 DEF U, Units, Total
<1>9. \A m \in DOMAIN mandates : t[m] <= mandates[m].available
  <2> SUFFICES ASSUME NEW m \in DOMAIN mandates PROVE t[m] <= mandates[m].available
    OBVIOUS
  <2>1. m \in MandateIds /\ mandates[m].available \in Nat
    BY DEF Typed, TypeOK, Mandate
  <2>2. CASE m \notin E
    <3>1. t[m] = 0
      BY <1>2, <2>1, <2>2
    <3> QED
      BY <2>1, <3>1
  <2>3. CASE m \in E
    <3>1. room[m] \in Nat /\ room[m] <= mandates[m].available /\ t[m] \in Nat /\ t[m] <= room[m]
      BY <1>3, <1>5, <2>3
    <3> QED
      BY <2>1, <3>1
  <2> QED
    BY <2>2, <2>3
<1>10. \A m \in MandateIds : t[m] > 0 => t[m] <= MandateTerms[m].cap
  <2> SUFFICES ASSUME NEW m \in MandateIds, t[m] > 0 PROVE t[m] <= MandateTerms[m].cap
    OBVIOUS
  <2>1. m \in E
    BY <1>6
  <2>2. /\ room[m] \in Nat /\ room[m] <= MandateTerms[m].cap /\ MandateTerms[m].cap \in Nat
        /\ t[m] \in Nat /\ t[m] <= room[m]
    BY <1>3, <1>5, <2>1, MandateFacts
  <2> QED
    BY <2>2
<1> QED
  BY <1>4, <1>6, <1>8, <1>9, <1>10 DEF t

\* A mandate lends only when those before it have given all they have room for.
LEMMA BestRatesFirst ==
  ASSUME Typed, NEW q \in LoanIds
  PROVE  /\ \A m \in MandateIds : Tranches(q)[m] > 0 => Tranches(q)[m] <= Room(m)
         /\ \A m \in MandateIds, n \in Eligible(BorrowRequests[q]) :
              Tranches(q)[m] > 0 /\ Before(q, n, m) => Tranches(q)[n] = Room(n)
<1> DEFINE r == BorrowRequests[q]
           E == Eligible(r)
           room == [m \in E |-> Room(m)]
           ahead(m) == {n \in E : Before(q, n, m)}
           t == Tranches(q)
<1>1. /\ E \subseteq DOMAIN mandates /\ E \subseteq MandateIds
      /\ Amounts(room, E) /\ r.amount \in Nat
  BY EligibleFacts, Requests
<1>2. \A m \in MandateIds :
        /\ t[m] = IF m \notin E THEN 0
                  ELSE Min2(room[m], Positive(r.amount - Total(room, ahead(m))))
        /\ t[m] > 0 => m \in E
  BY TranchesFacts DEF Tranches
<1>3. \A m \in E : room[m] \in Nat /\ room[m] = Room(m) /\ Total(room, ahead(m)) \in Nat
  BY <1>1, RoomFacts, TotalSubset, TotalType
<1> HIDE DEF t, room
<1>4. ASSUME NEW m \in E
      PROVE  t[m] <= room[m] /\ (t[m] > 0 => Total(room, ahead(m)) < r.amount)
  <2> DEFINE A == Total(room, ahead(m))
  <2>1. t[m] = Min2(room[m], Positive(r.amount - A)) /\ room[m] \in Nat /\ A \in Nat
    BY <1>1, <1>2, <1>3
  <2> HIDE DEF A, r, E
  <2>2. t[m] <= room[m] /\ (t[m] > 0 => A < r.amount)
    BY <1>1, <2>1 DEF Min2, Positive
  <2> QED
    BY <2>2 DEF A
<1>5. ASSUME NEW m \in E, NEW n \in E, t[m] > 0, Before(q, n, m)
      PROVE  t[n] = room[n]
  <2> DEFINE A == ahead(n)
             B == ahead(m)
             R == Total(room, A)
  <2>1. n \notin A /\ A \cup {n} \in SUBSET E /\ A \in SUBSET E /\ B \in SUBSET E
        /\ A \cup {n} \in SUBSET B
    BY <1>1, <1>5, BeforeIsOrder
  <2>2. Total(room, B) < r.amount
    BY <1>4, <1>5
  <2>3. t[n] = Min2(room[n], Positive(r.amount - R)) /\ room[n] \in Nat /\ R \in Nat
    BY <1>1, <1>2, <1>3
  <2> HIDE DEF A, B
  <2>4. Total(room, A \cup {n}) = R + room[n]
    BY <1>1, <2>1, TotalGrow
  <2>5. Amounts(room, B)
    BY <1>1, <2>1, TotalSubset
  <2>6. Total(room, A \cup {n}) <= Total(room, B) /\ Total(room, B) \in Nat
    BY <2>1, <2>5, TotalSubset, TotalType
  <2> HIDE DEF R, r, E
  <2> QED
    BY <1>1, <2>2, <2>3, <2>4, <2>6 DEF Min2, Positive
<1> QED
  BY <1>1, <1>2, <1>3, <1>4, <1>5 DEF t

LEMMA QuotientBounds ==
  ASSUME NEW a \in Nat, NEW b \in Nat \ {0}
  PROVE  /\ \A c \in Nat : a <= c * b => a \div b <= c
         /\ a <= (a \div b + 50) * b
         /\ a <= ((a + b - 1) \div b) * b
         /\ (a + b - 1) \div b \in Nat
<1>1. a \div b \in Nat /\ (a \div b) * b <= a /\ a < (a \div b) * b + b
  BY Division
<1> DEFINE d == a \div b
           e == (a + b - 1) \div b
<1>2. a + b - 1 \in Nat
  OBVIOUS
<1>3. e \in Nat /\ e * b <= a + b - 1 /\ a + b - 1 < e * b + b
  BY <1>2, Division
<1> HIDE DEF e
<1>4. e * b \in Nat /\ a <= e * b
  BY <1>3
<1>5. d \in Nat /\ d * b <= a /\ a < d * b + b
  BY <1>1
<1> HIDE DEF d
<1>6. \A c \in Nat : a <= c * b => d <= c
  <2> SUFFICES ASSUME NEW c \in Nat, a <= c * b, c < d PROVE FALSE
    BY <1>5
  <2>1. (c + 1) * b <= d * b /\ (c + 1) * b = c * b + b
    BY <1>5
  <2> QED
    BY <1>5, <2>1
<1>7. a <= (d + 50) * b
  <2>1. (d + 50) * b = d * b + 50 * b /\ d * b \in Nat /\ 50 * b >= b
    BY <1>5
  <2> QED
    BY <1>5, <2>1
<1> QED
  BY <1>3, <1>4, <1>6, <1>7 DEF d, e

\* What a quote promises to both sides.
LEMMA QuoteFacts ==
  ASSUME Typed, NEW q \in LoanIds, NEW p, Quotable(q, p)
  PROVE  /\ QuoteOf(q) \in Quote
         /\ QuoteOf(q).tranches = Tranches(q)
         /\ QuoteOf(q).amount = Total(Tranches(q), MandateIds)
         /\ QuoteOf(q).amount > 0 /\ QuoteOf(q).amount <= BorrowRequests[q].amount
         /\ QuoteOf(q).apr > 0 /\ QuoteOf(q).apr <= BorrowRequests[q].maxAPR
         /\ Total(Weighted(Tranches(q)), MandateIds) <= QuoteOf(q).apr * QuoteOf(q).amount
         /\ QuoteOf(q).collateral * BorrowRequests[q].amount
              >= BorrowRequests[q].collateral * QuoteOf(q).amount
<1> DEFINE r == BorrowRequests[q]
           t == Tranches(q)
           funded == Total(t, MandateIds)
           w == Weighted(t)
           W == Total(w, MandateIds)
           coll == (r.collateral * funded + r.amount - 1) \div r.amount
           top == r.maxAPR - 50
           scaled == [m \in MandateIds |-> top * t[m]]
<1>1. QuoteOf(q) = [amount |-> funded, collateral |-> coll, apr |-> (W \div funded) + 50,
                    tranches |-> t]
  BY DEF QuoteOf, LenderAPR, Weighted
<1>2. /\ r.amount \in Nat \ {0} /\ r.collateral \in Nat /\ r.maxAPR \in Nat /\ r.maxAPR >= 650
      /\ funded > 0
  BY Requests DEF Quotable
<1>3. /\ t \in [MandateIds -> Nat] /\ funded <= r.amount
      /\ \A m \in MandateIds : t[m] > 0 => m \in Eligible(r)
  BY TranchesFacts
<1>4. IsFiniteSet(MandateIds) /\ Amounts(t, MandateIds) /\ funded \in Nat
  BY <1>3, TablesAssumption, TotalType DEF Amounts
<1>5. top \in Nat
  BY <1>2
<1>6. ASSUME NEW m \in MandateIds
      PROVE  /\ w[m] \in Nat /\ scaled[m] \in Nat /\ w[m] <= scaled[m] /\ scaled[m] = top * t[m]
  <2> DEFINE a == MandateTerms[m].minAPR
             u == t[m]
  <2>1. a \in Nat /\ u \in Nat /\ w[m] = u * a /\ scaled[m] = top * u
    BY <1>3, MandateFacts DEF Weighted
  <2>2. u > 0 => a <= top
    BY <1>2, <1>3, <2>1 DEF Eligible
  <2> HIDE DEF a, u, top, w
  <2>3. u * a \in Nat /\ top * u \in Nat /\ u * a <= top * u
    <3>1. CASE u = 0
      BY <1>5, <2>1, <3>1
    <3>2. CASE u > 0
      BY <1>5, <2>1, <2>2, <3>2
    <3> QED
      BY <2>1, <3>1, <3>2
  <2> QED
    BY <2>1, <2>3
<1> HIDE DEF t, w, scaled, top
<1>7. Amounts(w, MandateIds) /\ Amounts(scaled, MandateIds)
  BY <1>4, <1>6 DEF Amounts
<1>8. W \in Nat /\ W <= top * funded
  <2>1. Multiple(scaled, top, t, MandateIds)
    BY <1>6 DEF Multiple
  <2>2. Total(scaled, MandateIds) = top * funded
    BY <1>4, <1>5, <1>7, <2>1, TotalTimes
  <2>3. \A m \in MandateIds : w[m] <= scaled[m]
    BY <1>6
  <2> QED
    BY <1>7, <2>2, <2>3, TotalAtMost, TotalType
<1> HIDE DEF funded, W, r
<1>9. /\ W \div funded \in Nat /\ W \div funded <= top
      /\ W <= (W \div funded + 50) * funded
  BY <1>2, <1>4, <1>5, <1>8, QuotientBounds, Division
<1>10. coll \in Nat /\ r.collateral * funded <= coll * r.amount
  <2>1. r.collateral * funded \in Nat
    BY <1>2, <1>4, Product
  <2> QED
    BY <1>2, <2>1, QuotientBounds
<1> HIDE DEF coll
<1>11. /\ (W \div funded) + 50 \in Nat /\ (W \div funded) + 50 > 0
       /\ (W \div funded) + 50 <= r.maxAPR
  BY <1>2, <1>9 DEF top
<1> DEFINE apr == (W \div funded) + 50
<1> HIDE DEF apr
<1>12. apr \in Nat /\ apr > 0 /\ apr <= r.maxAPR /\ W <= apr * funded
  BY <1>9, <1>11 DEF apr
<1>13. /\ QuoteOf(q).amount = funded /\ QuoteOf(q).collateral = coll
       /\ QuoteOf(q).apr = apr /\ QuoteOf(q).tranches = t
       /\ QuoteOf(q) \in Quote
  BY <1>1, <1>3, <1>4, <1>10, <1>12 DEF Quote, apr
<1> QED
  BY <1>2, <1>3, <1>10, <1>12, <1>13 DEF t, w, W, funded, r

-----------------------------------------------------------------------------
(***************************************************************************)
(* The vault's tokens                                                      *)
(***************************************************************************)
LEMMA IdsDiffer ==
  ASSUME NEW id
  PROVE  /\ id \in DOMAIN Openings => id \notin DOMAIN Deposits \cup DOMAIN BackstopDeposits \cup
              LoanIds \cup DOMAIN Withdrawals \cup DOMAIN MandateWithdrawals
         /\ id \in DOMAIN Deposits => id \notin DOMAIN BackstopDeposits \cup
              LoanIds \cup DOMAIN Withdrawals \cup DOMAIN MandateWithdrawals
         /\ id \in DOMAIN BackstopDeposits => id \notin DOMAIN Deposits \cup
              LoanIds \cup DOMAIN Withdrawals \cup DOMAIN MandateWithdrawals
         /\ id \in LoanIds => id \notin DOMAIN Deposits \cup DOMAIN BackstopDeposits \cup
              DOMAIN Withdrawals \cup DOMAIN MandateWithdrawals
         /\ id \in DOMAIN Repayments => id \notin DOMAIN Deposits \cup DOMAIN BackstopDeposits \cup
              LoanIds \cup DOMAIN Withdrawals \cup DOMAIN MandateWithdrawals
         /\ id \in DOMAIN Withdrawals => id \notin DOMAIN Deposits \cup DOMAIN BackstopDeposits \cup
              LoanIds \cup DOMAIN MandateWithdrawals
         /\ id \in DOMAIN MandateWithdrawals => id \notin DOMAIN Deposits \cup
              DOMAIN BackstopDeposits \cup LoanIds \cup DOMAIN Withdrawals
         /\ id \in RiskTicks => id \notin DOMAIN Deposits \cup DOMAIN BackstopDeposits \cup
              LoanIds \cup DOMAIN Withdrawals \cup DOMAIN MandateWithdrawals
<1>1. \A i, j \in 1..8 : i # j => id \notin IdTables[i] \/ id \notin IdTables[j]
  BY ConstantsAssumption
<1>2. /\ IdTables[1] = DOMAIN Openings /\ IdTables[2] = DOMAIN Deposits
      /\ IdTables[3] = DOMAIN BackstopDeposits /\ IdTables[4] = LoanIds
      /\ IdTables[5] = DOMAIN Repayments /\ IdTables[6] = DOMAIN Withdrawals
      /\ IdTables[7] = DOMAIN MandateWithdrawals /\ IdTables[8] = RiskTicks
  BY DEF IdTables
<1>3. /\ 1 \in 1..8 /\ 2 \in 1..8 /\ 3 \in 1..8 /\ 4 \in 1..8 /\ 5 \in 1..8 /\ 6 \in 1..8
      /\ 7 \in 1..8 /\ 8 \in 1..8
  OBVIOUS
<1> QED
  BY <1>1, <1>2, <1>3

LEMMA TablesFinite ==
  /\ IsFiniteSet(DOMAIN Deposits) /\ IsFiniteSet(DOMAIN BackstopDeposits)
  /\ IsFiniteSet(DOMAIN Withdrawals) /\ IsFiniteSet(DOMAIN MandateWithdrawals)
  /\ IsFiniteSet(LoanIds) /\ IsFiniteSet(MandateIds) /\ IsFiniteSet(Owners)
<1>1. /\ DOMAIN Deposits \in SUBSET OperationIds /\ DOMAIN BackstopDeposits \in SUBSET OperationIds
      /\ DOMAIN Withdrawals \in SUBSET OperationIds
      /\ DOMAIN MandateWithdrawals \in SUBSET OperationIds /\ LoanIds \in SUBSET OperationIds
  BY DEF OperationIds
<1>2. IsFiniteSet(OperationIds)
  BY TablesAssumption
<1>3. \A T \in SUBSET OperationIds : IsFiniteSet(T)
  BY <1>2, FS_Subset
<1> QED
  BY <1>1, <1>3, TablesAssumption

\* What one processed request adds to the sum over a table of requests.
LEMMA SumStep ==
  ASSUME NEW f, NEW S, Amounts(f, S), NEW done, NEW id, id \notin done
  PROVE  /\ Total(f, S \cap done) \in Nat
         /\ id \in S => Total(f, S \cap (done \cup {id})) = Total(f, S \cap done) + f[id]
         /\ id \notin S => Total(f, S \cap (done \cup {id})) = Total(f, S \cap done)
<1> DEFINE D == S \cap done
           E == S \cap (done \cup {id})
<1>1. D \in SUBSET S /\ id \notin D
  OBVIOUS
<1>2. id \in S => E = D \cup {id}
  OBVIOUS
<1>3. id \notin S => E = D
  OBVIOUS
<1> HIDE DEF D, E
<1>4. Total(f, D) \in Nat
  BY <1>1, TotalSubset, TotalType
<1>5. id \in S => Total(f, E) = Total(f, D) + f[id]
  BY <1>1, <1>2, TotalGrow
<1>6. id \notin S => Total(f, E) = Total(f, D)
  BY <1>3
<1> QED
  BY <1>4, <1>5, <1>6 DEF D, E

Paid(table, asset, id) ==
  IF id \in DOMAIN table /\ table[id].asset = asset THEN table[id].amount ELSE 0

LEMMA MovedStep ==
  ASSUME NEW table, IsFiniteSet(DOMAIN table), \A i \in DOMAIN table : table[i].amount \in Nat,
         NEW asset, NEW id, Unprocessed(id), Process(id)
  PROVE  /\ Moved(table, asset) \in Nat
         /\ Moved(table, asset)' = Moved(table, asset) + Paid(table, asset, id)
<1> DEFINE amount == [i \in DOMAIN table |-> table[i].amount]
           S == {i \in DOMAIN table : table[i].asset = asset}
           ids(done) == {i \in DOMAIN table \cap done : table[i].asset = asset}
           part(done) == [i \in ids(done) |-> table[i].amount]
<1>1. processed' = processed \cup {id} /\ id \notin processed
  BY DEF Unprocessed, Process
<1>2. ASSUME NEW done
      PROVE  Total(part(done), ids(done)) = Total(amount, S \cap done)
  <2>1. ids(done) = S \cap done
    OBVIOUS
  <2>2. \A i \in ids(done) : part(done)[i] = amount[i]
    OBVIOUS
  <2> HIDE DEF ids, part, amount
  <2> QED
    BY <2>1, <2>2, TotalSame
<1>3. /\ Moved(table, asset) = Total(part(processed), ids(processed))
      /\ Moved(table, asset)' = Total(part(processed'), ids(processed'))
  BY DEF Moved
<1>4. Amounts(amount, S)
  <2>1. S \in SUBSET DOMAIN table
    OBVIOUS
  <2>2. IsFiniteSet(S)
    BY <2>1, FS_Subset
  <2> QED
    BY <2>2 DEF Amounts
<1>5. Paid(table, asset, id) = IF id \in S THEN amount[id] ELSE 0
  BY DEF Paid
<1> HIDE DEF amount, S, part, ids
<1>6. /\ Total(amount, S \cap processed) \in Nat
      /\ id \in S => Total(amount, S \cap (processed \cup {id})) =
                       Total(amount, S \cap processed) + amount[id]
      /\ id \notin S => Total(amount, S \cap (processed \cup {id})) = Total(amount, S \cap processed)
  BY <1>1, <1>4, SumStep
<1> QED
  BY <1>1, <1>2, <1>3, <1>5, <1>6

Backed(id) == IF id \in DOMAIN BackstopDeposits THEN BackstopDeposits[id] ELSE 0
Drawn(id) == IF id \in DOMAIN MandateWithdrawals THEN MandateWithdrawals[id].amount ELSE 0

Lent == Total([i \in DOMAIN loans |-> loans[i].principal], DOMAIN loans)

\* A processed request moves its own tokens, and lending moves the principal.
LEMMA HeldStep ==
  ASSUME NEW id, Unprocessed(id), Process(id), Lent \in Int, Lent' \in Int
  PROVE  /\ HeldUsdt0 \in Int /\ HeldFxrp \in Int
         /\ HeldUsdt0' = HeldUsdt0 + Paid(Deposits, "USDT0", id) + Backed(id)
                         - Paid(Withdrawals, "USDT0", id) - Drawn(id) - (Lent' - Lent)
         /\ HeldFxrp' = HeldFxrp + Paid(Deposits, "FXRP", id) - Paid(Withdrawals, "FXRP", id)
<1>1. /\ \A i \in DOMAIN Deposits : Deposits[i].amount \in Nat
      /\ \A i \in DOMAIN Withdrawals : Withdrawals[i].amount \in Nat
      /\ \A i \in DOMAIN BackstopDeposits : BackstopDeposits[i] \in Nat
      /\ \A i \in DOMAIN MandateWithdrawals : MandateWithdrawals[i].amount \in Nat
  BY TablesAssumption
<1>2. ASSUME NEW asset
      PROVE  /\ Moved(Deposits, asset) \in Nat
             /\ Moved(Deposits, asset)' = Moved(Deposits, asset) + Paid(Deposits, asset, id)
             /\ Moved(Withdrawals, asset) \in Nat
             /\ Moved(Withdrawals, asset)' = Moved(Withdrawals, asset) + Paid(Withdrawals, asset, id)
  BY <1>1, TablesFinite, MovedStep
<1> DEFINE backed(done) == Total(BackstopDeposits, DOMAIN BackstopDeposits \cap done)
           part(D) == [i \in D |-> MandateWithdrawals[i].amount]
           drawn(done) == Total(part(DOMAIN MandateWithdrawals \cap done),
                                DOMAIN MandateWithdrawals \cap done)
<1>3. processed' = processed \cup {id} /\ id \notin processed
  BY DEF Unprocessed, Process
<1>4. backed(processed) \in Nat /\ backed(processed') = backed(processed) + Backed(id)
  <2> DEFINE S == DOMAIN BackstopDeposits
  <2>1. Amounts(BackstopDeposits, S)
    BY <1>1, TablesFinite DEF Amounts
  <2>2. Backed(id) = IF id \in S THEN BackstopDeposits[id] ELSE 0
    BY DEF Backed
  <2> HIDE DEF S
  <2>3. /\ Total(BackstopDeposits, S \cap processed) \in Nat
        /\ id \in S => Total(BackstopDeposits, S \cap (processed \cup {id})) =
                         Total(BackstopDeposits, S \cap processed) + BackstopDeposits[id]
        /\ id \notin S => Total(BackstopDeposits, S \cap (processed \cup {id})) =
                            Total(BackstopDeposits, S \cap processed)
    BY <1>3, <2>1, SumStep
  <2> QED
    BY <1>3, <2>2, <2>3 DEF S
<1>5. drawn(processed) \in Nat /\ drawn(processed') = drawn(processed) + Drawn(id)
  <2> DEFINE S == DOMAIN MandateWithdrawals
             amount == part(S)
  <2>1. Amounts(amount, S)
    BY <1>1, TablesFinite DEF Amounts
  <2>2. ASSUME NEW done PROVE drawn(done) = Total(amount, S \cap done)
    <3> DEFINE D == S \cap done
    <3>1. \A i \in D : part(D)[i] = amount[i]
      OBVIOUS
    <3>2. drawn(done) = Total(part(D), D)
      OBVIOUS
    <3> HIDE DEF part, drawn, amount, D
    <3> QED
      BY <3>1, <3>2, TotalSame DEF D
  <2>3. Drawn(id) = IF id \in S THEN amount[id] ELSE 0
    BY DEF Drawn
  <2> HIDE DEF S, amount, drawn
  <2>4. /\ Total(amount, S \cap processed) \in Nat
        /\ id \in S => Total(amount, S \cap (processed \cup {id})) =
                         Total(amount, S \cap processed) + amount[id]
        /\ id \notin S => Total(amount, S \cap (processed \cup {id})) = Total(amount, S \cap processed)
    BY <1>3, <2>1, SumStep
  <2> QED
    BY <1>3, <2>2, <2>3, <2>4
<1>6. /\ HeldUsdt0 = Moved(Deposits, "USDT0") + backed(processed) - Moved(Withdrawals, "USDT0")
                     - drawn(processed) - Lent
      /\ HeldUsdt0' = Moved(Deposits, "USDT0")' + backed(processed') - Moved(Withdrawals, "USDT0")'
                     - drawn(processed') - Lent'
      /\ HeldFxrp = Moved(Deposits, "FXRP") - Moved(Withdrawals, "FXRP")
      /\ HeldFxrp' = Moved(Deposits, "FXRP")' - Moved(Withdrawals, "FXRP")'
  BY DEF HeldUsdt0, HeldFxrp, Lent
<1>7. /\ Paid(Deposits, "USDT0", id) \in Nat /\ Paid(Withdrawals, "USDT0", id) \in Nat
      /\ Paid(Deposits, "FXRP", id) \in Nat /\ Paid(Withdrawals, "FXRP", id) \in Nat
      /\ Backed(id) \in Nat /\ Drawn(id) \in Nat
  BY <1>1 DEF Paid, Backed, Drawn
<1> HIDE DEF backed, drawn, part
<1> QED
  BY <1>2, <1>4, <1>5, <1>6, <1>7

-----------------------------------------------------------------------------
(***************************************************************************)
(* Reserves, mandates and loans                                            *)
(***************************************************************************)
\* What a mandate offers and has lent.
Offers == [m \in DOMAIN mandates |-> mandates[m].available + mandates[m].allocated]

LEMMA MandatesTyped ==
  ASSUME Typed
  PROVE  /\ DOMAIN mandates \in SUBSET MandateIds /\ IsFiniteSet(DOMAIN mandates)
         /\ \A m \in DOMAIN mandates :
              /\ mandates[m] \in Mandate
              /\ mandates[m].available \in Nat /\ mandates[m].allocated \in Nat
              /\ mandates[m].active \in BOOLEAN
              /\ MandateTerms[m].lender \in Owners
         /\ Amounts(Offers, DOMAIN mandates)
         /\ \A o : MandatesOf(o) \in SUBSET DOMAIN mandates /\ IsFiniteSet(MandatesOf(o))
                  /\ Amounts(Offers, MandatesOf(o)) /\ Total(Offers, MandatesOf(o)) \in Nat
<1>1. DOMAIN mandates \in SUBSET MandateIds /\ \A m \in DOMAIN mandates : mandates[m] \in Mandate
  BY DEF Typed, TypeOK
<1>2. IsFiniteSet(DOMAIN mandates)
  BY <1>1, TablesFinite, FS_Subset
<1>3. \A m \in DOMAIN mandates : /\ mandates[m].available \in Nat /\ mandates[m].allocated \in Nat
                                /\ mandates[m].active \in BOOLEAN
                                /\ MandateTerms[m].lender \in Owners
  BY <1>1, MandateFacts DEF Mandate
<1>4. Amounts(Offers, DOMAIN mandates)
  BY <1>2, <1>3 DEF Amounts, Offers
<1>5. \A o : MandatesOf(o) \in SUBSET DOMAIN mandates
  BY DEF MandatesOf
<1>6. \A o : IsFiniteSet(MandatesOf(o)) /\ Amounts(Offers, MandatesOf(o))
           /\ Total(Offers, MandatesOf(o)) \in Nat
  BY <1>2, <1>4, <1>5, FS_Subset, TotalSubset, TotalType
<1> QED
  BY <1>1, <1>2, <1>3, <1>4, <1>5, <1>6

\* ReservedIsMandates, in terms of the offers.
LEMMA ReservedSum ==
  ReservedIsMandates <=>
    /\ \A o \in Owners : usdt0Reserved[o] = Total(Offers, MandatesOf(o))
    /\ \A m \in DOMAIN mandates : mandates[m].active \/ mandates[m].available = 0
<1>1. ASSUME NEW o
      PROVE  Total([m \in MandatesOf(o) |-> mandates[m].available + mandates[m].allocated],
                   MandatesOf(o)) = Total(Offers, MandatesOf(o))
  <2> DEFINE f == [m \in MandatesOf(o) |-> mandates[m].available + mandates[m].allocated]
  <2>1. \A m \in MandatesOf(o) : f[m] = Offers[m]
    BY DEF Offers, MandatesOf
  <2> HIDE DEF f
  <2>2. Total(f, MandatesOf(o)) = Total(Offers, MandatesOf(o))
    BY <2>1, TotalSame
  <2> QED
    BY <2>2 DEF f
<1> QED
  BY <1>1 DEF ReservedIsMandates

LEMMA ReservedSumAfter ==
  (ReservedIsMandates <=>
    /\ \A o \in Owners : usdt0Reserved[o] = Total(Offers, MandatesOf(o))
    /\ \A m \in DOMAIN mandates : mandates[m].active \/ mandates[m].available = 0)'
BY ReservedSum, PTL

\* Every mandate has one lender.
LEMMA MandatesByOwner ==
  ASSUME Typed, NEW f, Amounts(f, DOMAIN mandates),
         NEW sums, \A o \in Owners : sums[o] = Total(f, MandatesOf(o))
  PROVE  Amounts(sums, Owners) /\ Total(sums, Owners) = Total(f, DOMAIN mandates)
<1> DEFINE part == [o \in Owners |-> MandatesOf(o)]
           D == DOMAIN mandates
<1>1. Amounts(f, D) /\ IsFiniteSet(Owners)
  BY TablesFinite
<1>2. \A o \in Owners : part[o] \in SUBSET D /\ sums[o] = Total(f, part[o])
  BY MandatesTyped
<1>3. /\ \A m \in D : \E o \in Owners : m \in part[o]
      /\ \A m \in D : \A o1, o2 \in Owners : m \in part[o1] /\ m \in part[o2] => o1 = o2
  BY MandatesTyped DEF MandatesOf
<1> HIDE DEF part, D
<1>4. Amounts(sums, Owners) /\ Total(sums, Owners) = Total(f, D)
  BY <1>1, <1>2, <1>3, TotalByOwner
<1> QED
  BY <1>4 DEF D

LEMMA ReservedTotal ==
  ASSUME Typed, ReservedIsMandates
  PROVE  Total(usdt0Reserved, Owners) = Total(Offers, DOMAIN mandates)
BY MandatesTyped, ReservedSum, MandatesByOwner

\* Mandates return or withdraw what dec says, and the reserves follow.
MandatesGive(dec) ==
  \A m \in DOMAIN mandates :
    /\ dec[m] \in Nat
    /\ mandates'[m].available + mandates'[m].allocated = Offers[m] - dec[m]
    /\ mandates'[m].active \/ mandates'[m].available = 0

ReservesFollow(dec) ==
  \A o \in Owners : usdt0Reserved'[o] = usdt0Reserved[o] - Total(dec, MandatesOf(o))

LEMMA ReservesStep ==
  ASSUME Typed, ReservedIsMandates, mandates' \in [DOMAIN mandates -> Mandate], NEW dec,
         MandatesGive(dec), ReservesFollow(dec)
  PROVE  ReservedIsMandates' /\ \A o \in Owners : usdt0Reserved'[o] \in Nat
<1>0. /\ \A m \in DOMAIN mandates :
           /\ dec[m] \in Nat
           /\ mandates'[m].available + mandates'[m].allocated = Offers[m] - dec[m]
           /\ mandates'[m].active \/ mandates'[m].available = 0
      /\ \A o \in Owners : usdt0Reserved'[o] = usdt0Reserved[o] - Total(dec, MandatesOf(o))
  BY DEF MandatesGive, ReservesFollow
<1>1. DOMAIN mandates' = DOMAIN mandates /\ \A m \in DOMAIN mandates : mandates'[m] \in Mandate
  OBVIOUS
<1>2. \A o : MandatesOf(o)' = MandatesOf(o)
  BY <1>1 DEF MandatesOf
<1>3. \A m \in DOMAIN mandates : Offers'[m] = Offers[m] - dec[m] /\ Offers'[m] \in Nat
  BY <1>0, <1>1 DEF Offers, Mandate
<1>4. ASSUME NEW o \in Owners
      PROVE  usdt0Reserved'[o] = Total(Offers', MandatesOf(o)) /\ usdt0Reserved'[o] \in Nat
  <2> DEFINE M == MandatesOf(o)
             f == Offers
             g == Offers'
  <2>1. Amounts(f, M) /\ M \in SUBSET DOMAIN mandates /\ IsFiniteSet(M)
    BY MandatesTyped
  <2>2. Amounts(g, M) /\ Amounts(dec, M)
    BY <1>0, <1>3, <2>1 DEF Amounts
  <2>3. \A m \in M : g[m] = f[m] - dec[m]
    BY <1>3, <2>1
  <2>4. usdt0Reserved[o] = Total(f, M)
    BY ReservedSum
  <2> HIDE DEF M, f, g
  <2>5. Total(g, M) = Total(f, M) - Total(dec, M) /\ Total(g, M) \in Nat
    BY <2>1, <2>2, <2>3, TotalMinus, TotalType
  <2>6. usdt0Reserved'[o] = usdt0Reserved[o] - Total(dec, M)
    BY <1>0 DEF M
  <2> QED
    BY <2>4, <2>5, <2>6 DEF M, f, g
<1>5. /\ \A o \in Owners : usdt0Reserved'[o] = Total(Offers', MandatesOf(o)')
      /\ \A m \in DOMAIN mandates' : mandates'[m].active \/ mandates'[m].available = 0
  BY <1>0, <1>1, <1>2, <1>4
<1>6. ReservedIsMandates'
  BY <1>5, ReservedSumAfter
<1> QED
  BY <1>4, <1>6

\* Returned is the sum of the loans' tranches, whatever their interest.
LEMMA ReturnedType ==
  ASSUME NEW S, IsFiniteSet(S), NEW ls, \A i \in S : ls[i] \in Loan, NEW m \in MandateIds
  PROVE  Returned(S, ls, m) \in Nat
<1> DEFINE f == [i \in S |-> ls[i].tranches[m]]
<1>1. Amounts(f, S)
  BY DEF Amounts, Loan
<1> HIDE DEF f
<1>2. Total(f, S) \in Nat
  BY <1>1, TotalType
<1> QED
  BY <1>2 DEF Returned, f

LEMMA ReturnedSame ==
  ASSUME NEW S, NEW ls, NEW ks, NEW m, \A i \in S : ls[i].tranches = ks[i].tranches
  PROVE  Returned(S, ls, m) = Returned(S, ks, m)
<1> DEFINE f == [i \in S |-> ls[i].tranches[m]]
           g == [i \in S |-> ks[i].tranches[m]]
<1>1. \A i \in S : f[i] = g[i]
  OBVIOUS
<1> HIDE DEF f, g
<1>2. Total(f, S) = Total(g, S)
  BY <1>1, TotalSame
<1> QED
  BY <1>2 DEF Returned, f, g

LEMMA ReturnedSplit ==
  ASSUME NEW T, IsFiniteSet(T), NEW ls, \A i \in T : ls[i] \in Loan, NEW m \in MandateIds,
         NEW S \in SUBSET T
  PROVE  /\ Returned(T, ls, m) = Returned(S, ls, m) + Returned(T \ S, ls, m)
         /\ Returned(S, ls, m) \in Nat /\ Returned(T \ S, ls, m) \in Nat
<1> DEFINE f(U) == [i \in U |-> ls[i].tranches[m]]
<1>1. Amounts(f(T), T)
  BY DEF Amounts, Loan
<1>2. ASSUME NEW U \in SUBSET T PROVE Total(f(U), U) = Total(f(T), U) /\ Total(f(U), U) \in Nat
  <2> DEFINE g == f(U)
             h == f(T)
  <2>1. Amounts(h, T) /\ \A i \in U : g[i] = h[i]
    BY <1>1
  <2> HIDE DEF f, g, h
  <2>2. Total(g, U) = Total(h, U)
    BY <2>1, TotalSame
  <2>3. Amounts(h, U)
    BY <2>1, TotalSubset
  <2>4. Total(h, U) \in Nat
    BY <2>3, TotalType
  <2> QED
    BY <2>2, <2>4 DEF g, h
<1> HIDE DEF f
<1>3. Total(f(T), T) = Total(f(T), S) + Total(f(T), T \ S)
  BY <1>1, TotalSubset
<1>4. S \in SUBSET T /\ T \ S \in SUBSET T
  OBVIOUS
<1>5. Total(f(T), T) = Total(f(S), S) + Total(f(T \ S), T \ S)
      /\ Total(f(S), S) \in Nat /\ Total(f(T \ S), T \ S) \in Nat
  BY <1>2, <1>3, <1>4
<1> QED
  BY <1>5 DEF Returned, f

Principal(S, ls) == Total([i \in S |-> ls[i].principal], S)

LEMMA PrincipalSplit ==
  ASSUME NEW T, IsFiniteSet(T), NEW ls, \A i \in T : ls[i] \in Loan, NEW S \in SUBSET T
  PROVE  /\ Principal(T, ls) = Principal(S, ls) + Principal(T \ S, ls)
         /\ Principal(S, ls) \in Nat /\ Principal(T \ S, ls) \in Nat /\ Principal(T, ls) \in Nat
<1> DEFINE f(U) == [i \in U |-> ls[i].principal]
<1>1. Amounts(f(T), T)
  BY DEF Amounts, Loan
<1>2. ASSUME NEW U \in SUBSET T PROVE Total(f(U), U) = Total(f(T), U) /\ Total(f(U), U) \in Nat
  <2> DEFINE g == f(U)
             h == f(T)
  <2>1. Amounts(h, T) /\ \A i \in U : g[i] = h[i]
    BY <1>1
  <2> HIDE DEF f, g, h
  <2>2. Total(g, U) = Total(h, U)
    BY <2>1, TotalSame
  <2>3. Amounts(h, U)
    BY <2>1, TotalSubset
  <2>4. Total(h, U) \in Nat
    BY <2>3, TotalType
  <2> QED
    BY <2>2, <2>4 DEF g, h
<1> HIDE DEF f
<1>3. Total(f(T), T) = Total(f(T), S) + Total(f(T), T \ S)
  BY <1>1, TotalSubset
<1>4. S \in SUBSET T /\ T \ S \in SUBSET T
  OBVIOUS
<1>5. Total(f(T), T) = Total(f(S), S) + Total(f(T \ S), T \ S)
      /\ Total(f(S), S) \in Nat /\ Total(f(T \ S), T \ S) \in Nat
  BY <1>2, <1>3, <1>4
<1> QED
  BY <1>5 DEF Principal, f

LEMMA PrincipalSame ==
  ASSUME NEW S, NEW ls, NEW ks, \A i \in S : ls[i].principal = ks[i].principal
  PROVE  Principal(S, ls) = Principal(S, ks)
<1> DEFINE f == [i \in S |-> ls[i].principal]
           g == [i \in S |-> ks[i].principal]
<1>1. \A i \in S : f[i] = g[i]
  OBVIOUS
<1> HIDE DEF f, g
<1>2. Total(f, S) = Total(g, S)
  BY <1>1, TotalSame
<1> QED
  BY <1>2 DEF Principal, f, g

\* The tranches of sound loans, added up by mandate, are their principal.
LEMMA TranchesArePrincipal ==
  ASSUME NEW S, IsFiniteSet(S), NEW ls, \A i \in S : ls[i] \in Loan /\ Sound(ls[i]),
         NEW cols, \A m \in MandateIds : cols[m] = Returned(S, ls, m)
  PROVE  Amounts(cols, MandateIds) /\ Total(cols, MandateIds) = Principal(S, ls)
<1> DEFINE F == [i \in S |-> ls[i].tranches]
           rows == [i \in S |-> ls[i].principal]
           col == [m \in MandateIds |-> [i \in S |-> ls[i].tranches[m]]]
<1>1. \A i \in S : /\ \A m \in MandateIds : F[i][m] \in Nat
                  /\ rows[i] = Total(F[i], MandateIds)
  BY DEF Loan, Sound
<1>2. \A m \in MandateIds : /\ \A i \in S : col[m][i] = F[i][m]
                            /\ cols[m] = Total(col[m], S)
  BY DEF Returned
<1>3. Principal(S, ls) = Total(rows, S)
  BY DEF Principal
<1>4. IsFiniteSet(MandateIds)
  BY TablesFinite
<1> HIDE DEF F, rows, col
<1>5. Amounts(cols, MandateIds) /\ Total(rows, S) = Total(cols, MandateIds)
  <2>1. RowSums(rows, F, S, MandateIds)
    BY <1>1 DEF RowSums
  <2>2. ColumnSums(cols, col, F, S, MandateIds)
    BY <1>2 DEF ColumnSums
  <2> QED
    BY <1>4, <2>1, <2>2, TotalSwap
<1> QED
  BY <1>3, <1>5

\* What a sum does not count may be left out.
LEMMA TotalOutside ==
  ASSUME NEW f, NEW S, NEW T \in SUBSET S, Amounts(f, S), \A i \in S \ T : f[i] = 0
  PROVE  Amounts(f, T) /\ Total(f, S) = Total(f, T)
<1>1. Amounts(f, T) /\ Total(f, S) = Total(f, T) + Total(f, S \ T)
  BY TotalSubset
<1>2. Total(f, S \ T) = 0
  BY TotalZero
<1>3. Total(f, T) \in Nat
  BY <1>1, TotalType
<1> QED
  BY <1>1, <1>2, <1>3

\* A sum with one entry.
LEMMA TotalSingle ==
  ASSUME NEW f, NEW S, NEW x, Amounts(f, S), f[x] \in Nat, \A i \in S : i # x => f[i] = 0
  PROVE  /\ x \in S => Total(f, S) = f[x]
         /\ x \notin S => Total(f, S) = 0
<1>1. ASSUME x \in S PROVE Total(f, S) = f[x]
  <2>1. Total(f, S) = f[x] + Total(f, S \ {x})
    BY <1>1, TotalPick
  <2>2. Total(f, S \ {x}) = 0
    BY TotalZero
  <2> QED
    BY <2>1, <2>2
<1>2. ASSUME x \notin S PROVE Total(f, S) = 0
  BY <1>2, TotalZero
<1> QED
  BY <1>1, <1>2

\* One account's balance changes.
LEMMA AccountChange ==
  ASSUME NEW f \in [Owners -> Nat], NEW g \in [Owners -> Nat], NEW o \in Owners,
         \A i \in Owners : i # o => g[i] = f[i]
  PROVE  /\ Total(f, Owners) \in Nat /\ Total(g, Owners) \in Nat
         /\ Total(g, Owners) = Total(f, Owners) - f[o] + g[o]
<1> DEFINE S == Owners
<1>1. Amounts(f, S) /\ Amounts(g, S) /\ o \in S /\ \A i \in S \ {o} : g[i] = f[i]
  BY TablesFinite DEF Amounts
<1> HIDE DEF S
<1>2. Total(g, S) = Total(f, S) - f[o] + g[o]
  BY <1>1, TotalChange
<1>3. Total(f, S) \in Nat /\ Total(g, S) \in Nat
  BY <1>1, TotalType
<1> QED
  BY <1>2, <1>3 DEF S

-----------------------------------------------------------------------------
(***************************************************************************)
(* The inductive invariant                                                 *)
(***************************************************************************)
\* The first line of Usdt0Solvent; the second follows from MandatesInStep.
Usdt0Balanced ==
  HeldUsdt0 + activeDebt = Total(usdt0, Owners) + Total(usdt0Reserved, Owners)
                           + protocolReserve + backstopUsdt0

IInv ==
  /\ Typed
  /\ LoanTerms
  /\ MandatesInStep
  /\ CollateralBacksLoan
  /\ Usdt0Balanced
  /\ FxrpSolvent

LEMMA LoansTyped ==
  ASSUME Typed
  PROVE  /\ DOMAIN loans \in SUBSET LoanIds /\ IsFiniteSet(DOMAIN loans)
         /\ OpenLoans \in SUBSET DOMAIN loans /\ IsFiniteSet(OpenLoans)
         /\ \A i \in DOMAIN loans : loans[i] \in Loan
         /\ Lent = Principal(DOMAIN loans, loans) /\ Lent \in Nat
<1>1. DOMAIN loans \in SUBSET LoanIds /\ \A i \in DOMAIN loans : loans[i] \in Loan
  BY DEF Typed, TypeOK
<1>2. OpenLoans \in SUBSET DOMAIN loans
  BY DEF OpenLoans
<1>3. IsFiniteSet(DOMAIN loans) /\ IsFiniteSet(OpenLoans)
  BY <1>1, <1>2, TablesFinite, FS_Subset
<1>4. Lent = Principal(DOMAIN loans, loans)
  BY DEF Lent, Principal
<1>5. Principal(DOMAIN loans, loans) \in Nat
  BY <1>1, <1>3, PrincipalSplit
<1> QED
  BY <1>1, <1>2, <1>3, <1>4, <1>5

\* The loans return nothing to a mandate that does not exist.
LEMMA NothingElsewhere ==
  ASSUME Typed, LoanTerms, NEW S \in SUBSET DOMAIN loans, NEW m \in MandateIds \ DOMAIN mandates
  PROVE  Returned(S, loans, m) = 0
<1> DEFINE f == [i \in S |-> loans[i].tranches[m]]
<1>1. \A i \in S : f[i] = 0
  <2>1. \A i \in S : loans[i].tranches[m] \in Nat
    BY LoansTyped DEF Loan
  <2>2. \A i \in S : ~ (loans[i].tranches[m] > 0)
    BY DEF LoanTerms
  <2> QED
    BY <2>1, <2>2
<1> HIDE DEF f
<1>2. Total(f, S) = 0
  BY <1>1, TotalZero
<1> QED
  BY <1>2 DEF Returned, f

\* What is lent is covered by what the lenders have reserved.
LEMMA ActiveDebtCovered ==
  ASSUME Typed, LoanTerms, MandatesInStep
  PROVE  activeDebt <= Total(usdt0Reserved, Owners)
<1> DEFINE D == DOMAIN mandates
           cols == [m \in MandateIds |-> Returned(OpenLoans, loans, m)]
           off == Offers
<1>1. Amounts(cols, MandateIds) /\ Total(cols, MandateIds) = Principal(OpenLoans, loans)
  BY LoansTyped, TranchesArePrincipal DEF LoanTerms
<1>2. D \in SUBSET MandateIds /\ Amounts(off, D)
  BY MandatesTyped
<1>3. \A m \in MandateIds \ D : cols[m] = 0
  BY NothingElsewhere, LoansTyped
<1>4. \A m \in D : cols[m] <= off[m]
  <2> SUFFICES ASSUME NEW m \in D PROVE cols[m] <= off[m]
    OBVIOUS
  <2>1. mandates[m].allocated = Returned(OpenLoans, loans, m)
    BY DEF MandatesInStep, AllocatedIsLent
  <2>2. mandates[m].available \in Nat /\ mandates[m].allocated \in Nat /\ m \in MandateIds
    BY MandatesTyped
  <2>3. off[m] = mandates[m].available + mandates[m].allocated
    BY DEF Offers
  <2>4. cols[m] = mandates[m].allocated
    BY <2>1, <2>2
  <2> QED
    BY <2>2, <2>3, <2>4
<1>5. activeDebt = Principal(OpenLoans, loans) /\ Total(usdt0Reserved, Owners) = Total(off, D)
  BY ReservedTotal DEF MandatesInStep, AllocatedIsLent, Principal
<1> HIDE DEF D, cols, off
<1>6. Amounts(cols, D) /\ Total(cols, MandateIds) = Total(cols, D)
  BY <1>1, <1>2, <1>3, TotalOutside
<1>7. Total(cols, D) <= Total(off, D)
  BY <1>2, <1>4, <1>6, TotalAtMost
<1> QED
  BY <1>1, <1>5, <1>6, <1>7

-----------------------------------------------------------------------------
(***************************************************************************)
(* Steps that leave the loans alone                                        *)
(***************************************************************************)
LEMMA LoansKept ==
  ASSUME IInv, loans' = loans, loanOf' = loanOf, fxrpReserved' = fxrpReserved,
         activeDebt' = activeDebt, processed \subseteq processed',
         DOMAIN mandates \subseteq DOMAIN mandates', DOMAIN mandates' \subseteq MandateIds,
         \A m \in DOMAIN mandates : mandates'[m].allocated = mandates[m].allocated,
         \A m \in DOMAIN mandates' \ DOMAIN mandates : mandates'[m].allocated = 0
  PROVE  LoanTerms' /\ AllocatedIsLent' /\ CollateralBacksLoan' /\ Lent' = Lent
<1>1. OpenLoans' = OpenLoans
  BY DEF OpenLoans
<1>2. LoanTerms'
  BY DEF IInv, LoanTerms
<1>3. AllocatedIsLent'
  <2>1. ASSUME NEW m \in DOMAIN mandates'
        PROVE  mandates'[m].allocated = Returned(OpenLoans, loans, m)
    <3>1. CASE m \in DOMAIN mandates
      BY <3>1 DEF IInv, MandatesInStep, AllocatedIsLent
    <3>2. CASE m \notin DOMAIN mandates
      BY <3>2, NothingElsewhere, LoansTyped DEF IInv
    <3> QED
      BY <3>1, <3>2
  <2>2. \A m \in DOMAIN mandates' : mandates'[m].allocated = Returned(OpenLoans', loans', m)
    BY <1>1, <2>1
  <2>3. activeDebt' = Total([i \in OpenLoans' |-> loans'[i].principal], OpenLoans')
    BY <1>1 DEF IInv, MandatesInStep, AllocatedIsLent
  <2> QED
    BY <2>2, <2>3 DEF AllocatedIsLent, Returned
<1>4. CollateralBacksLoan'
  BY <1>1 DEF IInv, CollateralBacksLoan
<1>5. Lent' = Lent
  BY DEF Lent
<1> QED
  BY <1>2, <1>3, <1>4, <1>5

\* A step that leaves the mandates and what is reserved for them alone, too.
LEMMA BooksKept ==
  ASSUME IInv, loans' = loans, loanOf' = loanOf, fxrpReserved' = fxrpReserved,
         activeDebt' = activeDebt, processed \subseteq processed',
         mandates' = mandates, usdt0Reserved' = usdt0Reserved
  PROVE  LoanTerms' /\ MandatesInStep' /\ CollateralBacksLoan' /\ Lent' = Lent
<1>1. DOMAIN mandates \subseteq MandateIds
  BY DEF IInv, Typed, TypeOK
<1>2. LoanTerms' /\ AllocatedIsLent' /\ CollateralBacksLoan' /\ Lent' = Lent
  BY <1>1, LoansKept
<1>3. ReservedIsMandates'
  BY DEF IInv, MandatesInStep, ReservedIsMandates, MandatesOf
<1> QED
  BY <1>2, <1>3 DEF MandatesInStep

\* The sums are numbers.
LEMMA Sums ==
  ASSUME Typed
  PROVE  /\ Total(usdt0, Owners) \in Nat /\ Total(usdt0Reserved, Owners) \in Nat
         /\ Total(fxrp, Owners) \in Nat /\ Total(fxrpReserved, Owners) \in Nat
         /\ protocolReserve \in Nat /\ backstopUsdt0 \in Nat /\ backstopFxrp \in Nat
         /\ activeDebt \in Nat /\ Lent \in Nat
<1>1. /\ usdt0 \in [Owners -> Nat] /\ usdt0Reserved \in [Owners -> Nat]
      /\ fxrp \in [Owners -> Nat] /\ fxrpReserved \in [Owners -> Nat]
      /\ protocolReserve \in Nat /\ backstopUsdt0 \in Nat /\ backstopFxrp \in Nat
      /\ activeDebt \in Nat
  BY DEF Typed, TypeOK
<1>2. \A f \in [Owners -> Nat] : Amounts(f, Owners)
  BY TablesFinite DEF Amounts
<1>3. \A f \in [Owners -> Nat] : Total(f, Owners) \in Nat
  BY <1>2, TotalType
<1> QED
  BY <1>1, <1>3, LoansTyped

\* A step that processes no request and lends nothing moves no tokens.
LEMMA HeldSame ==
  ASSUME loans' = loans, processed' = processed
  PROVE  HeldUsdt0' = HeldUsdt0 /\ HeldFxrp' = HeldFxrp
BY DEF HeldUsdt0, HeldFxrp, Moved

LEMMA InitStep == Init => IInv
<1> SUFFICES ASSUME Init PROVE IInv
  OBVIOUS
<1>1. DOMAIN mandates = {} /\ DOMAIN loans = {} /\ processed = {}
  BY DEF Init
<1>2. Typed
  BY <1>1 DEF Init, Typed, TypeOK
<1>3. OpenLoans = {} /\ \A o : MandatesOf(o) = {}
  BY <1>1 DEF OpenLoans, MandatesOf
<1>4. LoanTerms /\ CollateralBacksLoan
  BY <1>1, <1>3 DEF Init, LoanTerms, CollateralBacksLoan
<1>5. MandatesInStep
  <2>1. \A f : Total(f, {}) = 0
    BY TotalEmpty
  <2>2. ReservedIsMandates
    BY <1>1, <1>3, <2>1 DEF Init, ReservedIsMandates
  <2>3. AllocatedIsLent
    BY <1>1, <1>3, <2>1 DEF Init, AllocatedIsLent
  <2> QED
    BY <2>2, <2>3 DEF MandatesInStep
<1>6. Usdt0Balanced /\ FxrpSolvent
  <2>1. \A f : Total(f, {}) = 0
    BY TotalEmpty
  <2>2. HeldUsdt0 = 0 /\ HeldFxrp = 0
    <3>1. \A table, asset : {id \in DOMAIN table \cap processed : table[id].asset = asset} = {}
      BY <1>1
    <3>2. \A table, asset : Moved(table, asset) = 0
      BY <2>1, <3>1 DEF Moved
    <3>3. DOMAIN BackstopDeposits \cap processed = {} /\ DOMAIN MandateWithdrawals \cap processed = {}
      BY <1>1
    <3> QED
      BY <1>1, <2>1, <3>2, <3>3 DEF HeldUsdt0, HeldFxrp
  <2>3. \A o \in Owners : usdt0[o] = 0 /\ usdt0Reserved[o] = 0 /\ fxrp[o] = 0 /\ fxrpReserved[o] = 0
    BY DEF Init
  <2>4. /\ Total(usdt0, Owners) = 0 /\ Total(usdt0Reserved, Owners) = 0
        /\ Total(fxrp, Owners) = 0 /\ Total(fxrpReserved, Owners) = 0
    BY <2>3, TotalZero
  <2> QED
    BY <2>2, <2>4 DEF Init, Usdt0Balanced, FxrpSolvent
<1> QED
  BY <1>2, <1>4, <1>5, <1>6 DEF IInv

LEMMA OpenAccountStep ==
  ASSUME IInv, UNCHANGED scenario, NEW id \in DOMAIN Openings, OpenAccount(id)
  PROVE  IInv'
<1> USE DEF OpenAccount
<1>1. Unprocessed(id) /\ Process(id) /\ processed \subseteq processed'
  BY DEF Process
<1>2. Typed'
  <2>1. Openings[id] \in Owners /\ id \in OperationIds
    BY TablesAssumption DEF OperationIds
  <2>2. nonce' \in [Owners -> Nat] /\ processed' \subseteq OperationIds
    BY <2>1 DEF IInv, Typed, TypeOK, ConsumeNonce, Process
  <2> QED
    BY <2>2 DEF IInv, Typed, TypeOK, poolVars
<1>3. LoanTerms' /\ MandatesInStep' /\ CollateralBacksLoan' /\ Lent' = Lent
  BY <1>1, BooksKept
<1>4. Usdt0Balanced' /\ FxrpSolvent'
  <2>1. /\ Paid(Deposits, "USDT0", id) = 0 /\ Paid(Withdrawals, "USDT0", id) = 0
        /\ Paid(Deposits, "FXRP", id) = 0 /\ Paid(Withdrawals, "FXRP", id) = 0
        /\ Backed(id) = 0 /\ Drawn(id) = 0
    BY IdsDiffer DEF Paid, Backed, Drawn
  <2>2. Lent \in Nat
    BY Sums DEF IInv
  <2>3. HeldUsdt0' = HeldUsdt0 /\ HeldFxrp' = HeldFxrp
    BY <1>1, <1>3, <2>1, <2>2, HeldStep
  <2> QED
    BY <2>3 DEF IInv, Usdt0Balanced, FxrpSolvent, poolVars
<1> QED
  BY <1>2, <1>3, <1>4 DEF IInv

LEMMA DepositStep ==
  ASSUME IInv, UNCHANGED scenario, NEW id \in DOMAIN Deposits, Deposit(id)
  PROVE  IInv'
<1> DEFINE o == Deposits[id].owner
           a == Deposits[id].amount
<1>1. /\ Unprocessed(id) /\ Process(id)
      /\ usdt0' = IF Deposits[id].asset = "USDT0" THEN [usdt0 EXCEPT ![o] = @ + a] ELSE usdt0
      /\ fxrp' = IF Deposits[id].asset = "FXRP" THEN [fxrp EXCEPT ![o] = @ + a] ELSE fxrp
      /\ UNCHANGED <<usdt0Reserved, fxrpReserved, nonce, loanOf, mandates, loans, price,
                     activeDebt, protocolReserve, backstopUsdt0, backstopFxrp, clock>>
  BY DEF Deposit, poolVars
<1>2. processed \subseteq processed' /\ id \in OperationIds
  BY <1>1 DEF Process, OperationIds
<1>3. o \in Owners /\ a \in Nat /\ Deposits[id].asset \in {"FXRP", "USDT0"}
  BY TablesAssumption DEF Assets
<1>4. usdt0 \in [Owners -> Nat] /\ fxrp \in [Owners -> Nat]
  BY DEF IInv, Typed, TypeOK
<1>5. /\ Paid(Deposits, "USDT0", id) = IF Deposits[id].asset = "USDT0" THEN a ELSE 0
      /\ Paid(Deposits, "FXRP", id) = IF Deposits[id].asset = "FXRP" THEN a ELSE 0
      /\ Paid(Withdrawals, "USDT0", id) = 0 /\ Paid(Withdrawals, "FXRP", id) = 0
      /\ Backed(id) = 0 /\ Drawn(id) = 0
  BY IdsDiffer DEF Paid, Backed, Drawn
<1> HIDE DEF o, a
<1>6. LoanTerms' /\ MandatesInStep' /\ CollateralBacksLoan' /\ Lent' = Lent
  BY <1>1, <1>2, BooksKept
<1>7. /\ usdt0' \in [Owners -> Nat]
      /\ Total(usdt0', Owners) = Total(usdt0, Owners) + Paid(Deposits, "USDT0", id)
  <2>1. CASE Deposits[id].asset = "USDT0"
    <3>1. /\ usdt0[o] \in Nat /\ usdt0'[o] = usdt0[o] + a
          /\ usdt0' \in [Owners -> Nat] /\ \A i \in Owners : i # o => usdt0'[i] = usdt0[i]
      BY <1>1, <1>3, <1>4, <2>1
    <3>2. /\ Total(usdt0, Owners) \in Nat
          /\ Total(usdt0', Owners) = Total(usdt0, Owners) - usdt0[o] + usdt0'[o]
      BY <1>3, <1>4, <3>1, AccountChange
    <3> QED
      BY <1>3, <1>5, <2>1, <3>1, <3>2
  <2>2. CASE Deposits[id].asset # "USDT0"
    <3>1. usdt0' = usdt0 /\ Paid(Deposits, "USDT0", id) = 0 /\ Total(usdt0, Owners) \in Nat
      BY <1>1, <1>5, <2>2, Sums DEF IInv
    <3> QED
      BY <1>4, <3>1
  <2> QED
    BY <2>1, <2>2
<1>8. /\ fxrp' \in [Owners -> Nat]
      /\ Total(fxrp', Owners) = Total(fxrp, Owners) + Paid(Deposits, "FXRP", id)
  <2>1. CASE Deposits[id].asset = "FXRP"
    <3>1. /\ fxrp[o] \in Nat /\ fxrp'[o] = fxrp[o] + a
          /\ fxrp' \in [Owners -> Nat] /\ \A i \in Owners : i # o => fxrp'[i] = fxrp[i]
      BY <1>1, <1>3, <1>4, <2>1
    <3>2. /\ Total(fxrp, Owners) \in Nat
          /\ Total(fxrp', Owners) = Total(fxrp, Owners) - fxrp[o] + fxrp'[o]
      BY <1>3, <1>4, <3>1, AccountChange
    <3> QED
      BY <1>3, <1>5, <2>1, <3>1, <3>2
  <2>2. CASE Deposits[id].asset # "FXRP"
    <3>1. fxrp' = fxrp /\ Paid(Deposits, "FXRP", id) = 0 /\ Total(fxrp, Owners) \in Nat
      BY <1>1, <1>5, <2>2, Sums DEF IInv
    <3> QED
      BY <1>4, <3>1
  <2> QED
    BY <2>1, <2>2
<1>9. Typed'
  BY <1>1, <1>2, <1>7, <1>8 DEF IInv, Typed, TypeOK, Process
<1>10. Usdt0Balanced' /\ FxrpSolvent'
  <2>1. Lent \in Nat /\ Lent' \in Nat
    BY <1>6, Sums DEF IInv
  <2>2. /\ HeldUsdt0 \in Int /\ HeldFxrp \in Int
        /\ HeldUsdt0' = HeldUsdt0 + Paid(Deposits, "USDT0", id) + Backed(id)
                         - Paid(Withdrawals, "USDT0", id) - Drawn(id) - (Lent' - Lent)
        /\ HeldFxrp' = HeldFxrp + Paid(Deposits, "FXRP", id) - Paid(Withdrawals, "FXRP", id)
    BY <1>1, <2>1, HeldStep
  <2>3. Paid(Deposits, "USDT0", id) \in Nat /\ Paid(Deposits, "FXRP", id) \in Nat
    BY <1>3, <1>5
  <2>4. HeldUsdt0' = HeldUsdt0 + Paid(Deposits, "USDT0", id)
        /\ HeldFxrp' = HeldFxrp + Paid(Deposits, "FXRP", id)
    BY <1>5, <1>6, <2>1, <2>2, <2>3
  <2> QED
    BY <1>1, <1>7, <1>8, <2>2, <2>3, <2>4, Sums DEF IInv, Usdt0Balanced, FxrpSolvent
<1> QED
  BY <1>6, <1>9, <1>10 DEF IInv

LEMMA SeedBackstopStep ==
  ASSUME IInv, UNCHANGED scenario, NEW id \in DOMAIN BackstopDeposits, SeedBackstop(id)
  PROVE  IInv'
<1>1. /\ Unprocessed(id) /\ Process(id)
      /\ backstopUsdt0' = backstopUsdt0 + BackstopDeposits[id]
      /\ UNCHANGED <<usdt0, usdt0Reserved, fxrp, fxrpReserved, nonce, loanOf, mandates, loans,
                     price, activeDebt, protocolReserve, backstopFxrp, clock>>
  BY DEF SeedBackstop, accountVars
<1>2. processed \subseteq processed' /\ id \in OperationIds /\ BackstopDeposits[id] \in Nat
  BY <1>1, TablesAssumption DEF Process, OperationIds
<1>3. LoanTerms' /\ MandatesInStep' /\ CollateralBacksLoan' /\ Lent' = Lent
  BY <1>1, <1>2, BooksKept
<1>4. Typed'
  BY <1>1, <1>2 DEF IInv, Typed, TypeOK, Process
<1>5. Usdt0Balanced' /\ FxrpSolvent'
  <2>1. /\ Paid(Deposits, "USDT0", id) = 0 /\ Paid(Withdrawals, "USDT0", id) = 0
        /\ Paid(Deposits, "FXRP", id) = 0 /\ Paid(Withdrawals, "FXRP", id) = 0
        /\ Backed(id) = BackstopDeposits[id] /\ Drawn(id) = 0
    BY IdsDiffer DEF Paid, Backed, Drawn
  <2>2. Lent \in Nat /\ Lent' \in Nat
    BY <1>3, Sums DEF IInv
  <2>3. /\ HeldUsdt0 \in Int /\ HeldFxrp \in Int
        /\ HeldUsdt0' = HeldUsdt0 + Paid(Deposits, "USDT0", id) + Backed(id)
                         - Paid(Withdrawals, "USDT0", id) - Drawn(id) - (Lent' - Lent)
        /\ HeldFxrp' = HeldFxrp + Paid(Deposits, "FXRP", id) - Paid(Withdrawals, "FXRP", id)
    BY <1>1, <2>2, HeldStep
  <2>4. HeldUsdt0' = HeldUsdt0 + BackstopDeposits[id] /\ HeldFxrp' = HeldFxrp
    BY <1>2, <1>3, <2>1, <2>2, <2>3
  <2> QED
    BY <1>1, <1>2, <2>3, <2>4, Sums DEF IInv, Usdt0Balanced, FxrpSolvent
<1> QED
  BY <1>3, <1>4, <1>5 DEF IInv

LEMMA TickStep ==
  ASSUME IInv, UNCHANGED scenario, NEW t \in Times, Tick(t)
  PROVE  IInv'
<1>1. /\ clock' = t
      /\ UNCHANGED <<usdt0, usdt0Reserved, fxrp, fxrpReserved, nonce, loanOf, mandates, loans,
                     processed, price, activeDebt, protocolReserve, backstopUsdt0, backstopFxrp>>
  BY DEF Tick, accountVars, poolVars
<1>2. Typed'
  BY <1>1 DEF IInv, Typed, TypeOK
<1>3. LoanTerms' /\ MandatesInStep' /\ CollateralBacksLoan'
  BY <1>1, BooksKept
<1>4. Usdt0Balanced' /\ FxrpSolvent'
  BY <1>1, HeldSame DEF IInv, Usdt0Balanced, FxrpSolvent
<1> QED
  BY <1>2, <1>3, <1>4 DEF IInv

LEMMA StutterStep ==
  ASSUME IInv, UNCHANGED vars
  PROVE  IInv'
<1>1. UNCHANGED <<usdt0, usdt0Reserved, fxrp, fxrpReserved, nonce, loanOf, mandates, loans,
                  processed, price, activeDebt, protocolReserve, backstopUsdt0, backstopFxrp,
                  clock, scenario>>
  BY DEF vars, accountVars, poolVars
<1>2. Typed'
  BY <1>1 DEF IInv, Typed, TypeOK
<1>3. LoanTerms' /\ MandatesInStep' /\ CollateralBacksLoan'
  BY <1>1, BooksKept
<1>4. Usdt0Balanced' /\ FxrpSolvent'
  BY <1>1, HeldSame DEF IInv, Usdt0Balanced, FxrpSolvent
<1> QED
  BY <1>2, <1>3, <1>4 DEF IInv

-----------------------------------------------------------------------------
(***************************************************************************)
(* Mandates and withdrawals                                                *)
(***************************************************************************)
LEMMA SetMandateStep ==
  ASSUME IInv, UNCHANGED scenario, NEW m \in MandateIds, SetMandate(m)
  PROVE  IInv'
<1> DEFINE o == MandateTerms[m].lender
           a == MandateTerms[m].amount
           new == [available |-> a, allocated |-> 0, active |-> TRUE, createdAt |-> clock]
<1>1. /\ m \notin DOMAIN mandates /\ a <= usdt0[o]
      /\ usdt0' = [usdt0 EXCEPT ![o] = @ - a]
      /\ usdt0Reserved' = [usdt0Reserved EXCEPT ![o] = @ + a]
      /\ mandates' = With(mandates, m, new)
      /\ nonce' = [nonce EXCEPT ![o] = @ + 1]
      /\ UNCHANGED <<fxrp, fxrpReserved, loanOf, loans, processed, price, activeDebt,
                     protocolReserve, backstopUsdt0, backstopFxrp, clock>>
  BY DEF SetMandate, poolVars, ConsumeNonce
<1>2. o \in Owners /\ a \in Nat
  BY MandateFacts
<1>3. usdt0 \in [Owners -> Nat] /\ usdt0Reserved \in [Owners -> Nat] /\ clock \in Times
  BY DEF IInv, Typed, TypeOK
<1>4. new \in Mandate /\ new.available = a /\ new.allocated = 0 /\ new.active
  BY <1>2, <1>3 DEF Mandate
<1> HIDE DEF o, a, new
<1>5. /\ DOMAIN mandates' = DOMAIN mandates \cup {m}
      /\ \A n \in DOMAIN mandates : mandates'[n] = mandates[n]
      /\ mandates'[m] = new
      /\ mandates' = [n \in DOMAIN mandates' |-> mandates'[n]]
  BY <1>1 DEF With
<1>6. /\ usdt0' \in [Owners -> Nat] /\ usdt0'[o] = usdt0[o] - a
      /\ \A i \in Owners : i # o => usdt0'[i] = usdt0[i]
      /\ usdt0Reserved' \in [Owners -> Nat] /\ usdt0Reserved'[o] = usdt0Reserved[o] + a
      /\ \A i \in Owners : i # o => usdt0Reserved'[i] = usdt0Reserved[i]
  BY <1>1, <1>2, <1>3
<1>7. Typed'
  <2>1. /\ DOMAIN mandates' \subseteq MandateIds
        /\ \A n \in DOMAIN mandates' : mandates'[n] \in Mandate
    BY <1>4, <1>5 DEF IInv, Typed, TypeOK
  <2>2. mandates' \in [DOMAIN mandates' -> Mandate]
    BY <1>5, <2>1
  <2>3. nonce' \in [Owners -> Nat]
    BY <1>1, <1>2 DEF IInv, Typed, TypeOK
  <2> QED
    BY <1>1, <1>6, <2>1, <2>2, <2>3 DEF IInv, Typed, TypeOK
<1>8. LoanTerms' /\ AllocatedIsLent' /\ CollateralBacksLoan' /\ Lent' = Lent
  <2>1. /\ DOMAIN mandates \subseteq DOMAIN mandates' /\ DOMAIN mandates' \subseteq MandateIds
        /\ \A n \in DOMAIN mandates : mandates'[n].allocated = mandates[n].allocated
        /\ \A n \in DOMAIN mandates' \ DOMAIN mandates : mandates'[n].allocated = 0
    BY <1>4, <1>5, <1>7 DEF Typed, TypeOK
  <2> QED
    BY <1>1, <2>1, LoansKept
<1>9. ReservedIsMandates'
  <2>1. /\ \A n \in DOMAIN mandates : Offers'[n] = Offers[n]
        /\ Offers'[m] = a
    BY <1>2, <1>4, <1>5 DEF Offers
  <2>2. MandatesOf(o)' = MandatesOf(o) \cup {m} /\ \A i : i # o => MandatesOf(i)' = MandatesOf(i)
    BY <1>5 DEF MandatesOf, o
  <2>3. ASSUME NEW i \in Owners
        PROVE  usdt0Reserved'[i] = Total(Offers', MandatesOf(i)')
    <3> DEFINE f == Offers
               g == Offers'
               M == MandatesOf(i)
    <3>1. Amounts(f, M) /\ M \in SUBSET DOMAIN mandates /\ usdt0Reserved[i] = Total(f, M)
      BY MandatesTyped, ReservedSum DEF IInv, MandatesInStep
    <3>2. \A n \in M : g[n] = f[n]
      BY <2>1, <3>1
    <3>3. m \notin M /\ g[m] = a
      BY <1>1, <2>1, <3>1
    <3>4. MandatesOf(i)' = IF i = o THEN M \cup {m} ELSE M
      BY <2>2
    <3> HIDE DEF f, g, M
    <3>5. Amounts(g, M) /\ Total(g, M) = Total(f, M)
      BY <3>1, <3>2, TotalSame DEF Amounts
    <3>6. Total(g, M \cup {m}) = Total(g, M) + a
      BY <1>2, <3>3, <3>5, TotalAdd
    <3>7. usdt0Reserved'[i] = Total(g, MandatesOf(i)')
      BY <1>6, <3>1, <3>4, <3>5, <3>6
    <3> QED
      BY <3>7 DEF g
  <2>4. \A n \in DOMAIN mandates' : mandates'[n].active \/ mandates'[n].available = 0
    BY <1>4, <1>5 DEF IInv, MandatesInStep, ReservedIsMandates
  <2> QED
    BY <2>3, <2>4, ReservedSumAfter
<1>10. Usdt0Balanced' /\ FxrpSolvent'
  <2>1. HeldUsdt0' = HeldUsdt0 /\ HeldFxrp' = HeldFxrp
    BY <1>1, HeldSame
  <2>2. /\ Total(usdt0, Owners) \in Nat
        /\ Total(usdt0', Owners) = Total(usdt0, Owners) - usdt0[o] + usdt0'[o]
        /\ Total(usdt0Reserved, Owners) \in Nat
        /\ Total(usdt0Reserved', Owners) =
             Total(usdt0Reserved, Owners) - usdt0Reserved[o] + usdt0Reserved'[o]
    BY <1>2, <1>3, <1>6, AccountChange
  <2>3. usdt0[o] \in Nat /\ usdt0Reserved[o] \in Nat
    BY <1>2, <1>3
  <2>4. Total(usdt0', Owners) + Total(usdt0Reserved', Owners) =
          Total(usdt0, Owners) + Total(usdt0Reserved, Owners)
    BY <1>2, <1>6, <2>2, <2>3
  <2> QED
    BY <1>1, <2>1, <2>4 DEF IInv, Usdt0Balanced, FxrpSolvent
<1> QED
  BY <1>7, <1>8, <1>9, <1>10 DEF IInv, MandatesInStep

\* Mandate m loses a units of what it offers, and no other mandate changes.
OneShrinks(m, a) ==
  /\ mandates' \in [DOMAIN mandates -> Mandate]
  /\ \A n \in DOMAIN mandates : n # m => mandates'[n] = mandates[n]
  /\ mandates'[m].available = mandates[m].available - a
  /\ mandates'[m].allocated = mandates[m].allocated
  /\ mandates'[m].active \/ mandates'[m].available = 0

\* Unlent money leaves one mandate of lender o: the reserve follows.
LEMMA MandateShrinks ==
  ASSUME IInv, NEW m \in DOMAIN mandates, NEW o, o = MandateTerms[m].lender, NEW a \in Nat,
         OneShrinks(m, a), usdt0Reserved' = [usdt0Reserved EXCEPT ![o] = @ - a]
  PROVE  /\ o \in Owners
         /\ ReservedIsMandates'
         /\ usdt0Reserved' \in [Owners -> Nat]
         /\ usdt0Reserved'[o] = usdt0Reserved[o] - a
         /\ Total(usdt0Reserved', Owners) = Total(usdt0Reserved, Owners) - a
<1> DEFINE dec == [n \in DOMAIN mandates |-> IF n = m THEN a ELSE 0]
<1>1. o \in Owners /\ usdt0Reserved \in [Owners -> Nat]
  BY MandatesTyped DEF IInv, Typed, TypeOK
<1>2. /\ \A n \in DOMAIN mandates : dec[n] \in Nat /\ (n # m => dec[n] = 0)
      /\ dec[m] = a
  OBVIOUS
<1> HIDE DEF dec
<1>3. \A n \in DOMAIN mandates : 
        /\ mandates'[n].available + mandates'[n].allocated = Offers[n] - dec[n]
        /\ mandates'[n].active \/ mandates'[n].available = 0
  <2> SUFFICES ASSUME NEW n \in DOMAIN mandates
               PROVE  /\ mandates'[n].available + mandates'[n].allocated = Offers[n] - dec[n]
                      /\ mandates'[n].active \/ mandates'[n].available = 0
    OBVIOUS
  <2>1. /\ mandates[n].available \in Nat /\ mandates[n].allocated \in Nat
        /\ Offers[n] = mandates[n].available + mandates[n].allocated
        /\ mandates[n].active \/ mandates[n].available = 0
    BY MandatesTyped DEF IInv, Offers, MandatesInStep, ReservedIsMandates
  <2>2. CASE n = m
    BY <1>2, <2>1, <2>2 DEF OneShrinks
  <2>3. CASE n # m
    BY <1>2, <2>1, <2>3 DEF OneShrinks
  <2> QED
    BY <2>2, <2>3
<1>4. ASSUME NEW i \in Owners
      PROVE  /\ i = o => Total(dec, MandatesOf(i)) = a
             /\ i # o => Total(dec, MandatesOf(i)) = 0
  <2> DEFINE M == MandatesOf(i)
  <2>1. M \in SUBSET DOMAIN mandates /\ IsFiniteSet(M) /\ (m \in M <=> i = o)
    BY MandatesTyped DEF IInv, MandatesOf
  <2> HIDE DEF M
  <2>2. Amounts(dec, M) /\ \A n \in M : n # m => dec[n] = 0
    BY <1>2, <2>1 DEF Amounts
  <2>3. (m \in M => Total(dec, M) = dec[m]) /\ (m \notin M => Total(dec, M) = 0)
    BY <1>2, <2>2, TotalSingle
  <2> QED
    BY <1>2, <2>1, <2>3 DEF M
<1>5. \A i \in Owners : usdt0Reserved'[i] = usdt0Reserved[i] - Total(dec, MandatesOf(i))
  BY <1>1, <1>4
<1>6. ReservedIsMandates' /\ \A i \in Owners : usdt0Reserved'[i] \in Nat
  <2>1. MandatesGive(dec)
    BY <1>2, <1>3 DEF MandatesGive
  <2>2. ReservesFollow(dec)
    BY <1>5 DEF ReservesFollow
  <2>3. Typed /\ ReservedIsMandates /\ mandates' \in [DOMAIN mandates -> Mandate]
    BY DEF IInv, MandatesInStep, OneShrinks
  <2> QED
    BY <2>1, <2>2, <2>3, ReservesStep
<1>7. /\ usdt0Reserved' \in [Owners -> Nat] /\ usdt0Reserved'[o] = usdt0Reserved[o] - a
      /\ \A i \in Owners : i # o => usdt0Reserved'[i] = usdt0Reserved[i]
  BY <1>1, <1>6
<1>8. /\ Total(usdt0Reserved, Owners) \in Nat
      /\ Total(usdt0Reserved', Owners) =
           Total(usdt0Reserved, Owners) - usdt0Reserved[o] + usdt0Reserved'[o]
  BY <1>1, <1>7, AccountChange
<1>9. usdt0Reserved[o] \in Nat
  BY <1>1
<1> QED
  BY <1>1, <1>6, <1>7, <1>8, <1>9

LEMMA CancelMandateStep ==
  ASSUME IInv, UNCHANGED scenario, NEW m \in DOMAIN mandates, CancelMandate(m)
  PROVE  IInv'
<1> DEFINE o == MandateTerms[m].lender
           a == mandates[m].available
<1>1. /\ usdt0Reserved' = [usdt0Reserved EXCEPT ![o] = @ - a]
      /\ usdt0' = [usdt0 EXCEPT ![o] = @ + a]
      /\ mandates' = [mandates EXCEPT ![m].available = 0, ![m].active = FALSE]
      /\ nonce' = [nonce EXCEPT ![o] = @ + 1]
      /\ UNCHANGED <<fxrp, fxrpReserved, loanOf, loans, processed, price, activeDebt,
                     protocolReserve, backstopUsdt0, backstopFxrp, clock>>
  BY DEF CancelMandate, poolVars, ConsumeNonce
<1>2. mandates \in [DOMAIN mandates -> Mandate] /\ DOMAIN mandates \subseteq MandateIds
  BY DEF IInv, Typed, TypeOK
<1>3. o \in Owners /\ a \in Nat
  BY <1>2, MandatesTyped DEF IInv
<1>4. /\ mandates' \in [DOMAIN mandates -> Mandate]
      /\ \A n \in DOMAIN mandates : n # m => mandates'[n] = mandates[n]
      /\ mandates'[m].available = 0 /\ mandates'[m].allocated = mandates[m].allocated
  BY <1>1, <1>2 DEF Mandate
<1>5. OneShrinks(m, a)
  BY <1>3, <1>4 DEF OneShrinks
<1>6. /\ ReservedIsMandates'
      /\ usdt0Reserved' \in [Owners -> Nat]
      /\ Total(usdt0Reserved', Owners) = Total(usdt0Reserved, Owners) - a
  BY <1>1, <1>3, <1>4, <1>5, MandateShrinks
<1>7. usdt0 \in [Owners -> Nat] /\ nonce \in [Owners -> Nat]
  BY DEF IInv, Typed, TypeOK
<1> HIDE DEF o, a
<1>8. /\ usdt0' \in [Owners -> Nat] /\ usdt0'[o] = usdt0[o] + a /\ usdt0[o] \in Nat
      /\ \A i \in Owners : i # o => usdt0'[i] = usdt0[i]
      /\ nonce' \in [Owners -> Nat]
  BY <1>1, <1>3, <1>7
<1>9. Typed'
  BY <1>1, <1>2, <1>4, <1>6, <1>8 DEF IInv, Typed, TypeOK
<1>10. LoanTerms' /\ AllocatedIsLent' /\ CollateralBacksLoan' /\ Lent' = Lent
  <2>1. /\ DOMAIN mandates' = DOMAIN mandates
        /\ \A n \in DOMAIN mandates : mandates'[n].allocated = mandates[n].allocated
    BY <1>4
  <2> QED
    BY <1>1, <1>2, <2>1, LoansKept
<1>11. Usdt0Balanced' /\ FxrpSolvent'
  <2>1. HeldUsdt0' = HeldUsdt0 /\ HeldFxrp' = HeldFxrp
    BY <1>1, HeldSame
  <2>2. /\ Total(usdt0, Owners) \in Nat
        /\ Total(usdt0', Owners) = Total(usdt0, Owners) - usdt0[o] + usdt0'[o]
        /\ Total(usdt0Reserved, Owners) \in Nat
    BY <1>3, <1>7, <1>8, AccountChange, Sums DEF IInv
  <2>3. Total(usdt0', Owners) + Total(usdt0Reserved', Owners) =
          Total(usdt0, Owners) + Total(usdt0Reserved, Owners)
    BY <1>3, <1>6, <1>8, <2>2
  <2> QED
    BY <1>1, <2>1, <2>3 DEF IInv, Usdt0Balanced, FxrpSolvent
<1> QED
  BY <1>6, <1>9, <1>10, <1>11 DEF IInv, MandatesInStep

\* A mandate that retires keeps its money, and offers none when it stops matching.
LEMMA RetireFacts ==
  ASSUME NEW d \in Mandate, d.active \/ d.available = 0
  PROVE  /\ Retire(d) \in Mandate
         /\ Retire(d).available = d.available /\ Retire(d).allocated = d.allocated
         /\ Retire(d).active \/ Retire(d).available = 0
<1>1. d.active \in BOOLEAN
  BY DEF Mandate
<1> QED
  BY <1>1 DEF Mandate, Retire

LEMMA WithdrawFromMandateStep ==
  ASSUME IInv, UNCHANGED scenario, NEW id \in DOMAIN MandateWithdrawals, WithdrawFromMandate(id)
  PROVE  IInv'
<1> DEFINE m == MandateWithdrawals[id].mandate
           o == MandateTerms[m].lender
           a == MandateWithdrawals[id].amount
           less == [mandates[m] EXCEPT !.available = @ - a]
<1>1. /\ Unprocessed(id) /\ Process(id)
      /\ m \in DOMAIN mandates /\ mandates[m].active /\ a <= mandates[m].available
      /\ usdt0Reserved' = [usdt0Reserved EXCEPT ![o] = @ - a]
      /\ mandates' = [mandates EXCEPT ![m] = Retire(less)]
      /\ nonce' = [nonce EXCEPT ![o] = @ + 1]
      /\ UNCHANGED <<usdt0, fxrp, fxrpReserved, loanOf, loans, price, activeDebt,
                     protocolReserve, backstopUsdt0, backstopFxrp, clock>>
  BY DEF WithdrawFromMandate, poolVars, ConsumeNonce
<1>2. mandates \in [DOMAIN mandates -> Mandate] /\ DOMAIN mandates \subseteq MandateIds
  BY DEF IInv, Typed, TypeOK
<1>3. /\ a \in Nat /\ id \in OperationIds
      /\ Drawn(id) = a /\ Backed(id) = 0
      /\ Paid(Deposits, "USDT0", id) = 0 /\ Paid(Withdrawals, "USDT0", id) = 0
      /\ Paid(Deposits, "FXRP", id) = 0 /\ Paid(Withdrawals, "FXRP", id) = 0
  BY TablesAssumption, IdsDiffer DEF Paid, Backed, Drawn, OperationIds
<1>4. /\ mandates[m] \in Mandate /\ mandates[m].available \in Nat /\ o \in Owners
  BY <1>1, MandatesTyped DEF IInv
<1>5. /\ less \in Mandate /\ less.available = mandates[m].available - a
      /\ less.allocated = mandates[m].allocated /\ less.active
  BY <1>1, <1>3, <1>4 DEF Mandate
<1> HIDE DEF m, o, a, less
<1>6. /\ Retire(less) \in Mandate
      /\ Retire(less).available = less.available /\ Retire(less).allocated = less.allocated
      /\ Retire(less).active \/ Retire(less).available = 0
  BY <1>5, RetireFacts
<1>7. /\ mandates' \in [DOMAIN mandates -> Mandate]
      /\ \A n \in DOMAIN mandates : n # m => mandates'[n] = mandates[n]
      /\ mandates'[m] = Retire(less)
  BY <1>1, <1>2, <1>6
<1>8. /\ ReservedIsMandates'
      /\ usdt0Reserved' \in [Owners -> Nat]
      /\ Total(usdt0Reserved', Owners) = Total(usdt0Reserved, Owners) - a
  <2>1. /\ o = MandateTerms[m].lender /\ m \in DOMAIN mandates
        /\ mandates'[m].available = mandates[m].available - a
        /\ mandates'[m].allocated = mandates[m].allocated
        /\ mandates'[m].active \/ mandates'[m].available = 0
    BY <1>1, <1>5, <1>6, <1>7 DEF o
  <2>2. OneShrinks(m, a)
    BY <1>7, <2>1 DEF OneShrinks
  <2> QED
    BY <1>1, <1>3, <2>1, <2>2, MandateShrinks
<1>9. nonce' \in [Owners -> Nat] /\ processed' \subseteq OperationIds /\ processed \subseteq processed'
  BY <1>1, <1>3, <1>4 DEF IInv, Typed, TypeOK, Process
<1>10. Typed'
  BY <1>1, <1>2, <1>7, <1>8, <1>9 DEF IInv, Typed, TypeOK
<1>11. LoanTerms' /\ AllocatedIsLent' /\ CollateralBacksLoan' /\ Lent' = Lent
  <2>1. /\ DOMAIN mandates' = DOMAIN mandates
        /\ \A n \in DOMAIN mandates : mandates'[n].allocated = mandates[n].allocated
    BY <1>5, <1>6, <1>7
  <2> QED
    BY <1>1, <1>2, <1>9, <2>1, LoansKept
<1>12. Usdt0Balanced' /\ FxrpSolvent'
  <2>1. Lent \in Nat /\ Lent' \in Nat
    BY <1>11, Sums DEF IInv
  <2>2. /\ HeldUsdt0 \in Int /\ HeldFxrp \in Int
        /\ HeldUsdt0' = HeldUsdt0 + Paid(Deposits, "USDT0", id) + Backed(id)
                         - Paid(Withdrawals, "USDT0", id) - Drawn(id) - (Lent' - Lent)
        /\ HeldFxrp' = HeldFxrp + Paid(Deposits, "FXRP", id) - Paid(Withdrawals, "FXRP", id)
    BY <1>1, <2>1, HeldStep
  <2>3. HeldUsdt0' = HeldUsdt0 - a /\ HeldFxrp' = HeldFxrp
    BY <1>3, <1>11, <2>1, <2>2
  <2>4. /\ Total(usdt0, Owners) \in Nat /\ Total(usdt0Reserved, Owners) \in Nat
        /\ protocolReserve \in Nat /\ backstopUsdt0 \in Nat /\ activeDebt \in Nat
    BY Sums DEF IInv
  <2>5. Usdt0Balanced'
    BY <1>1, <1>3, <1>8, <2>2, <2>3, <2>4 DEF IInv, Usdt0Balanced
  <2>6. FxrpSolvent'
    BY <1>1, <2>3 DEF IInv, FxrpSolvent
  <2> QED
    BY <2>5, <2>6
<1> QED
  BY <1>8, <1>10, <1>11, <1>12 DEF IInv, MandatesInStep

LEMMA WithdrawFxrp ==
  ASSUME IInv, UNCHANGED scenario, NEW id \in DOMAIN Withdrawals, Withdraw(id),
         Withdrawals[id].asset = "FXRP"
  PROVE  IInv'
<1> DEFINE o == Withdrawals[id].owner
           a == Withdrawals[id].amount
<1>1. /\ Unprocessed(id) /\ Process(id) /\ a <= fxrp[o]
      /\ fxrp' = [fxrp EXCEPT ![o] = @ - a]
      /\ nonce' = [nonce EXCEPT ![o] = @ + 1]
      /\ UNCHANGED <<usdt0, usdt0Reserved, mandates, fxrpReserved, loanOf, loans, price, activeDebt,
                     protocolReserve, backstopUsdt0, backstopFxrp, clock>>
  BY DEF Withdraw, poolVars, ConsumeNonce
<1>2. /\ o \in Owners /\ a \in Nat /\ id \in OperationIds
      /\ Drawn(id) = 0 /\ Backed(id) = 0
      /\ Paid(Deposits, "USDT0", id) = 0 /\ Paid(Withdrawals, "USDT0", id) = 0
      /\ Paid(Deposits, "FXRP", id) = 0 /\ Paid(Withdrawals, "FXRP", id) = a
  BY TablesAssumption, IdsDiffer DEF Paid, Backed, Drawn, OperationIds
<1>3. fxrp \in [Owners -> Nat] /\ nonce \in [Owners -> Nat]
  BY DEF IInv, Typed, TypeOK
<1> HIDE DEF o, a
<1>4. /\ fxrp' \in [Owners -> Nat] /\ fxrp'[o] = fxrp[o] - a /\ fxrp[o] \in Nat
      /\ \A i \in Owners : i # o => fxrp'[i] = fxrp[i]
      /\ nonce' \in [Owners -> Nat]
  BY <1>1, <1>2, <1>3
<1>5. processed' \subseteq OperationIds /\ processed \subseteq processed'
  BY <1>1, <1>2 DEF IInv, Typed, TypeOK, Process
<1>6. Typed'
  BY <1>1, <1>4, <1>5 DEF IInv, Typed, TypeOK
<1>7. LoanTerms' /\ MandatesInStep' /\ CollateralBacksLoan' /\ Lent' = Lent
  BY <1>1, <1>5, BooksKept
<1>8. Usdt0Balanced' /\ FxrpSolvent'
  <2>1. Lent \in Nat /\ Lent' \in Nat
    BY <1>7, Sums DEF IInv
  <2>2. /\ HeldUsdt0 \in Int /\ HeldFxrp \in Int
        /\ HeldUsdt0' = HeldUsdt0 + Paid(Deposits, "USDT0", id) + Backed(id)
                         - Paid(Withdrawals, "USDT0", id) - Drawn(id) - (Lent' - Lent)
        /\ HeldFxrp' = HeldFxrp + Paid(Deposits, "FXRP", id) - Paid(Withdrawals, "FXRP", id)
    BY <1>1, <2>1, HeldStep
  <2>3. HeldUsdt0' = HeldUsdt0 /\ HeldFxrp' = HeldFxrp - a
    BY <1>2, <1>7, <2>1, <2>2
  <2>4. /\ Total(fxrp, Owners) \in Nat
        /\ Total(fxrp', Owners) = Total(fxrp, Owners) - fxrp[o] + fxrp'[o]
    BY <1>2, <1>3, <1>4, AccountChange
  <2>5. Total(fxrp', Owners) = Total(fxrp, Owners) - a
    BY <1>2, <1>4, <2>4
  <2>6. Total(fxrpReserved, Owners) \in Nat /\ backstopFxrp \in Nat
    BY Sums DEF IInv
  <2>7. FxrpSolvent'
    BY <1>1, <1>2, <2>2, <2>3, <2>4, <2>5, <2>6 DEF IInv, FxrpSolvent
  <2>8. Usdt0Balanced'
    BY <1>1, <2>3 DEF IInv, Usdt0Balanced
  <2> QED
    BY <2>7, <2>8
<1> QED
  BY <1>6, <1>7, <1>8 DEF IInv

\* What a withdrawal takes from the lender's mandates, when it needs any of them.
LEMMA WithdrawUsdt0 ==
  ASSUME IInv, UNCHANGED scenario, NEW id \in DOMAIN Withdrawals, Withdraw(id),
         Withdrawals[id].asset # "FXRP"
  PROVE  IInv'
<1> DEFINE o == Withdrawals[id].owner
           a == Withdrawals[id].amount
           rest == Positive(a - usdt0[o])
           U == {n \in MandatesOf(o) : mandates[n].active}
           unlent == [m \in U |-> mandates[m].available]
           taken == [m \in U |->
                       Min2(unlent[m], Positive(rest - Total(unlent, {n \in U : Older(n, m)})))]
           less(m) == [mandates[m] EXCEPT !.available = @ - taken[m]]
           dec == [n \in DOMAIN mandates |-> IF rest = 0 \/ n \notin U THEN 0 ELSE taken[n]]
<1>1. /\ Unprocessed(id) /\ Process(id) /\ Withdrawals[id].asset = "USDT0"
      /\ rest = Total(taken, U)
      /\ usdt0' = [usdt0 EXCEPT ![o] = Positive(@ - a)]
      /\ usdt0Reserved' = [usdt0Reserved EXCEPT ![o] = @ - rest]
      /\ mandates' = [m \in DOMAIN mandates |->
                        IF rest = 0 \/ m \notin MandatesOf(o) THEN mandates[m]
                        ELSE IF m \notin U THEN Retire(mandates[m]) ELSE Retire(less(m))]
      /\ nonce' = [nonce EXCEPT ![o] = @ + 1]
      /\ UNCHANGED <<fxrp, fxrpReserved, loanOf, loans, price, activeDebt,
                     protocolReserve, backstopUsdt0, backstopFxrp, clock>>
  BY DEF Withdraw, poolVars, ConsumeNonce
<1>2. /\ o \in Owners /\ a \in Nat /\ id \in OperationIds
      /\ Drawn(id) = 0 /\ Backed(id) = 0
      /\ Paid(Deposits, "USDT0", id) = 0 /\ Paid(Withdrawals, "USDT0", id) = a
      /\ Paid(Deposits, "FXRP", id) = 0 /\ Paid(Withdrawals, "FXRP", id) = 0
  BY <1>1, TablesAssumption, IdsDiffer DEF Paid, Backed, Drawn, OperationIds
<1>3. usdt0 \in [Owners -> Nat] /\ nonce \in [Owners -> Nat] /\ usdt0Reserved \in [Owners -> Nat]
      /\ mandates \in [DOMAIN mandates -> Mandate] /\ DOMAIN mandates \subseteq MandateIds
  BY DEF IInv, Typed, TypeOK
<1>4. rest \in Nat /\ Positive(usdt0[o] - a) = usdt0[o] - a + rest /\ Positive(usdt0[o] - a) \in Nat
  BY <1>2, <1>3 DEF Positive
<1>5. U \in SUBSET MandatesOf(o) /\ MandatesOf(o) \in SUBSET DOMAIN mandates
      /\ U \in SUBSET DOMAIN mandates /\ IsFiniteSet(U)
  <2>1. MandatesOf(o) \in SUBSET DOMAIN mandates /\ IsFiniteSet(MandatesOf(o))
    BY MandatesTyped DEF IInv
  <2>2. U \in SUBSET MandatesOf(o)
    OBVIOUS
  <2> QED
    BY <2>1, <2>2, FS_Subset
<1>6. ASSUME NEW m \in U
      PROVE  taken[m] \in Nat /\ taken[m] <= mandates[m].available
  <2> DEFINE before == {n \in U : Older(n, m)}
             t == Total(unlent, before)
  <2>1. \A n \in U : unlent[n] \in Nat /\ unlent[n] = mandates[n].available
    BY <1>5, MandatesTyped DEF IInv
  <2>2. before \in SUBSET U
    OBVIOUS
  <2>3. taken[m] = Min2(unlent[m], Positive(rest - t))
    OBVIOUS
  <2> HIDE DEF unlent, before, taken, rest
  <2>4. t \in Nat
    <3> DEFINE V == U
    <3>1. Amounts(unlent, V) /\ before \in SUBSET V
      BY <1>5, <2>1, <2>2 DEF Amounts
    <3> HIDE DEF V
    <3>2. Amounts(unlent, before)
      BY <3>1, TotalSubset
    <3> QED
      BY <3>2, TotalType
  <2> QED
    BY <1>4, <2>1, <2>3, <2>4 DEF Min2, Positive
<1>7. ASSUME NEW m \in U
      PROVE  /\ less(m) \in Mandate
             /\ less(m).available = mandates[m].available - taken[m]
             /\ less(m).allocated = mandates[m].allocated /\ less(m).active
  <2>1. mandates[m] \in Mandate /\ mandates[m].available \in Nat /\ mandates[m].active
    BY <1>3, <1>5, MandatesTyped DEF IInv
  <2>2. taken[m] \in Nat /\ taken[m] <= mandates[m].available
    BY <1>6
  <2> HIDE DEF taken
  <2> QED
    BY <2>1, <2>2 DEF Mandate
<1>8. /\ \A n \in DOMAIN mandates : rest = 0 \/ n \notin U => dec[n] = 0
      /\ \A n \in U : rest # 0 => dec[n] = taken[n]
  BY <1>5
<1> HIDE DEF less, taken, unlent, dec, rest, o, a, U
<1>9. ASSUME NEW m \in DOMAIN mandates
      PROVE  /\ mandates[m] \in Mandate
             /\ mandates[m].available \in Nat /\ mandates[m].allocated \in Nat
             /\ Offers[m] = mandates[m].available + mandates[m].allocated
             /\ mandates[m].active \/ mandates[m].available = 0
  BY MandatesTyped DEF IInv, Offers, MandatesInStep, ReservedIsMandates
<1>10. ASSUME NEW m \in DOMAIN mandates
       PROVE  /\ dec[m] \in Nat
              /\ mandates'[m] \in Mandate
              /\ mandates'[m].allocated = mandates[m].allocated
              /\ mandates'[m].available = mandates[m].available - dec[m]
              /\ mandates'[m].active \/ mandates'[m].available = 0
  <2>1. CASE rest = 0 \/ m \notin MandatesOf(o)
    <3>1. mandates'[m] = mandates[m] /\ dec[m] = 0
      BY <1>1, <1>5, <1>8, <2>1
    <3> QED
      BY <1>9, <3>1
  <2>2. CASE rest # 0 /\ m \in MandatesOf(o) /\ m \notin U
    <3>1. mandates'[m] = Retire(mandates[m]) /\ dec[m] = 0
      BY <1>1, <1>8, <2>2
    <3>2. /\ Retire(mandates[m]) \in Mandate
          /\ Retire(mandates[m]).available = mandates[m].available
          /\ Retire(mandates[m]).allocated = mandates[m].allocated
          /\ Retire(mandates[m]).active \/ Retire(mandates[m]).available = 0
      BY <1>9, RetireFacts
    <3> QED
      BY <1>9, <3>1, <3>2
  <2>3. CASE rest # 0 /\ m \in MandatesOf(o) /\ m \in U
    <3>1. mandates'[m] = Retire(less(m)) /\ dec[m] = taken[m]
      BY <1>1, <1>8, <2>3
    <3>2. /\ Retire(less(m)) \in Mandate
          /\ Retire(less(m)).available = less(m).available
          /\ Retire(less(m)).allocated = less(m).allocated
          /\ Retire(less(m)).active \/ Retire(less(m)).available = 0
      BY <1>7, <2>3, RetireFacts
    <3> QED
      BY <1>6, <1>7, <2>3, <3>1, <3>2
  <2> QED
    BY <2>1, <2>2, <2>3
<1>11. mandates' \in [DOMAIN mandates -> Mandate]
  BY <1>1, <1>10
<1>12. ASSUME NEW i \in Owners
       PROVE  /\ i = o => Total(dec, MandatesOf(i)) = rest
              /\ i # o => Total(dec, MandatesOf(i)) = 0
  <2> DEFINE M == MandatesOf(i)
  <2>1. M \in SUBSET DOMAIN mandates /\ IsFiniteSet(M) /\ (i # o => M \cap U = {})
    BY <1>5, MandatesTyped DEF IInv, MandatesOf
  <2>2. i = o => U \in SUBSET M
    BY <1>5
  <2> HIDE DEF M
  <2>3. ASSUME rest = 0 \/ i # o PROVE Total(dec, M) = 0
    <3>1. \A n \in M : dec[n] = 0
      BY <1>8, <2>1, <2>3
    <3> QED
      BY <3>1, TotalZero
  <2>4. ASSUME rest # 0, i = o PROVE Total(dec, M) = rest
    <3>1. Amounts(dec, M) /\ U \in SUBSET M /\ \A n \in M \ U : dec[n] = 0
      BY <1>8, <1>10, <2>1, <2>2, <2>4 DEF Amounts
    <3>2. Total(dec, M) = Total(dec, U)
      BY <3>1, TotalOutside
    <3>3. Total(dec, U) = Total(taken, U)
      BY <1>8, <2>4, TotalSame
    <3> QED
      BY <1>1, <3>2, <3>3
  <2>5. i = o => Total(dec, M) = rest
    BY <2>3, <2>4
  <2> QED
    BY <2>3, <2>5 DEF M
<1>13. \A i \in Owners : usdt0Reserved'[i] = usdt0Reserved[i] - Total(dec, MandatesOf(i))
  BY <1>1, <1>3, <1>4, <1>12
<1>14. ReservedIsMandates' /\ \A i \in Owners : usdt0Reserved'[i] \in Nat
  <2>1. MandatesGive(dec)
    BY <1>9, <1>10 DEF MandatesGive
  <2>2. ReservesFollow(dec)
    BY <1>13 DEF ReservesFollow
  <2> QED
    BY <1>11, <2>1, <2>2, ReservesStep DEF IInv, MandatesInStep
<1>15. /\ usdt0Reserved' \in [Owners -> Nat] /\ usdt0Reserved'[o] = usdt0Reserved[o] - rest
       /\ \A i \in Owners : i # o => usdt0Reserved'[i] = usdt0Reserved[i]
       /\ usdt0' \in [Owners -> Nat] /\ usdt0'[o] = usdt0[o] - a + rest
       /\ \A i \in Owners : i # o => usdt0'[i] = usdt0[i]
       /\ nonce' \in [Owners -> Nat]
  BY <1>1, <1>2, <1>3, <1>4, <1>14
<1>16. processed' \subseteq OperationIds /\ processed \subseteq processed'
  BY <1>1, <1>2 DEF IInv, Typed, TypeOK, Process
<1>17. Typed'
  BY <1>1, <1>3, <1>11, <1>15, <1>16 DEF IInv, Typed, TypeOK
<1>18. LoanTerms' /\ AllocatedIsLent' /\ CollateralBacksLoan' /\ Lent' = Lent
  <2>1. DOMAIN mandates' = DOMAIN mandates
    BY <1>11
  <2> QED
    BY <1>1, <1>3, <1>10, <1>16, <2>1, LoansKept
<1>19. Usdt0Balanced' /\ FxrpSolvent'
  <2>1. Lent \in Nat /\ Lent' \in Nat
    BY <1>18, Sums DEF IInv
  <2>2. /\ HeldUsdt0 \in Int /\ HeldFxrp \in Int
        /\ HeldUsdt0' = HeldUsdt0 + Paid(Deposits, "USDT0", id) + Backed(id)
                         - Paid(Withdrawals, "USDT0", id) - Drawn(id) - (Lent' - Lent)
        /\ HeldFxrp' = HeldFxrp + Paid(Deposits, "FXRP", id) - Paid(Withdrawals, "FXRP", id)
    BY <1>1, <2>1, HeldStep
  <2>3. HeldUsdt0' = HeldUsdt0 - a /\ HeldFxrp' = HeldFxrp
    BY <1>2, <1>18, <2>1, <2>2
  <2>4. /\ Total(usdt0, Owners) \in Nat
        /\ Total(usdt0', Owners) = Total(usdt0, Owners) - usdt0[o] + usdt0'[o]
        /\ Total(usdt0Reserved, Owners) \in Nat
        /\ Total(usdt0Reserved', Owners) =
             Total(usdt0Reserved, Owners) - usdt0Reserved[o] + usdt0Reserved'[o]
    BY <1>2, <1>3, <1>15, AccountChange
  <2>5. usdt0[o] \in Nat /\ usdt0Reserved[o] \in Nat
    BY <1>2, <1>3
  <2>6. Total(usdt0', Owners) + Total(usdt0Reserved', Owners) =
          Total(usdt0, Owners) + Total(usdt0Reserved, Owners) - a
    BY <1>2, <1>4, <1>15, <2>4, <2>5
  <2>7. protocolReserve \in Nat /\ backstopUsdt0 \in Nat /\ activeDebt \in Nat
        /\ Total(usdt0', Owners) \in Nat /\ Total(usdt0Reserved', Owners) \in Nat
    BY <1>2, <1>3, <1>15, AccountChange, Sums DEF IInv
  <2>8. Usdt0Balanced'
    <3>1. /\ protocolReserve' = protocolReserve /\ backstopUsdt0' = backstopUsdt0
          /\ activeDebt' = activeDebt
          /\ HeldUsdt0 + activeDebt = Total(usdt0, Owners) + Total(usdt0Reserved, Owners)
                                      + protocolReserve + backstopUsdt0
      BY <1>1 DEF IInv, Usdt0Balanced
    <3>2. HeldUsdt0' + activeDebt' = Total(usdt0', Owners) + Total(usdt0Reserved', Owners)
                                     + protocolReserve' + backstopUsdt0'
      <4>1. /\ HeldUsdt0 \in Int /\ HeldUsdt0' = HeldUsdt0 - a /\ a \in Nat
            /\ Total(usdt0, Owners) \in Nat /\ Total(usdt0Reserved, Owners) \in Nat
        BY <1>2, <2>2, <2>3, <2>4
      <4> QED
        <5>1. HeldUsdt0' + activeDebt' = HeldUsdt0 - a + activeDebt
          BY <3>1, <4>1
        <5>2. HeldUsdt0 - a + activeDebt = Total(usdt0, Owners) + Total(usdt0Reserved, Owners) - a
                                     + protocolReserve + backstopUsdt0
          BY <2>7, <3>1, <4>1
        <5>3. Total(usdt0, Owners) + Total(usdt0Reserved, Owners) - a =
                Total(usdt0', Owners) + Total(usdt0Reserved', Owners)
          BY <2>6, <2>7, <4>1
        <5> QED
          BY <5>1, <5>2, <5>3, <3>1
    <3> QED
      BY <3>2 DEF Usdt0Balanced
  <2>9. FxrpSolvent'
    BY <1>1, <2>3 DEF IInv, FxrpSolvent
  <2> QED
    BY <2>8, <2>9
<1> QED
  BY <1>14, <1>17, <1>18, <1>19 DEF IInv, MandatesInStep

-----------------------------------------------------------------------------
(***************************************************************************)
(* Loans                                                                   *)
(***************************************************************************)
\* What one loan of a set adds.
LEMMA PrincipalPick ==
  ASSUME NEW T, IsFiniteSet(T), NEW q \in T, NEW ls, \A i \in T : ls[i] \in Loan
  PROVE  Principal(T, ls) = Principal(T \ {q}, ls) + ls[q].principal
<1> DEFINE f == [i \in T |-> ls[i].principal]
           g == [i \in T \ {q} |-> ls[i].principal]
<1>1. Amounts(f, T) /\ f[q] = ls[q].principal /\ ls[q].principal \in Nat
  BY DEF Amounts, Loan
<1>2. \A i \in T \ {q} : g[i] = f[i]
  OBVIOUS
<1>3. Principal(T, ls) = Total(f, T) /\ Principal(T \ {q}, ls) = Total(g, T \ {q})
  BY DEF Principal
<1> HIDE DEF f, g
<1>4. Total(f, T) = f[q] + Total(f, T \ {q}) /\ Amounts(f, T \ {q})
  BY <1>1, TotalPick
<1>5. Total(g, T \ {q}) = Total(f, T \ {q})
  BY <1>2, TotalSame
<1>6. Total(f, T \ {q}) \in Nat
  BY <1>4, TotalType
<1> QED
  BY <1>1, <1>3, <1>4, <1>5, <1>6

LEMMA ReturnedPick ==
  ASSUME NEW T, IsFiniteSet(T), NEW q \in T, NEW ls, \A i \in T : ls[i] \in Loan,
         NEW m \in MandateIds
  PROVE  Returned(T, ls, m) = Returned(T \ {q}, ls, m) + ls[q].tranches[m]
<1> DEFINE f == [i \in T |-> ls[i].tranches[m]]
           g == [i \in T \ {q} |-> ls[i].tranches[m]]
<1>0. Amounts(f, T)
  BY DEF Amounts, Loan
<1>1. f[q] = ls[q].tranches[m] /\ ls[q].tranches[m] \in Nat
  BY DEF Loan
<1>2. \A i \in T \ {q} : g[i] = f[i]
  OBVIOUS
<1>3. Returned(T, ls, m) = Total(f, T) /\ Returned(T \ {q}, ls, m) = Total(g, T \ {q})
  BY DEF Returned
<1> HIDE DEF f, g
<1>4. Total(f, T) = f[q] + Total(f, T \ {q}) /\ Amounts(f, T \ {q})
  BY <1>0, TotalPick
<1>5. Total(g, T \ {q}) = Total(f, T \ {q})
  BY <1>2, TotalSame
<1>6. Total(f, T \ {q}) \in Nat
  BY <1>4, TotalType
<1> QED
  BY <1>1, <1>3, <1>4, <1>5, <1>6

\* Mandate d when t of it is lent.
Lending(d, t) == [d EXCEPT !.available = @ - t, !.allocated = @ + t]

LEMMA LendingFacts ==
  ASSUME NEW d \in Mandate, NEW t \in Nat, t <= d.available
  PROVE  /\ Lending(d, t) \in Mandate
         /\ Lending(d, t).available = d.available - t /\ Lending(d, t).allocated = d.allocated + t
         /\ Lending(d, t).active = d.active
<1> DEFINE e == Lending(d, t)
<1>1. d.available \in Nat /\ d.allocated \in Nat
  BY DEF Mandate
<1>2. d.available - t \in Nat /\ d.allocated + t \in Nat
  BY <1>1
<1>3. /\ e.available = d.available - t /\ e.allocated = d.allocated + t
      /\ e.active = d.active /\ e.createdAt = d.createdAt
  BY DEF Mandate, Lending
<1> QED
  BY <1>2, <1>3 DEF Mandate, Lending

\* Whatever quote the client has signed, the one the engine accepts is the one it would give
\* now (sameQuote).
LEMMA AcceptedIsFresh ==
  ASSUME NEW q \in LoanIds, NEW p \in Prices, AcceptQuote(q, p)
  PROVE  LET fresh == QuoteOf(q)
             b == BorrowRequests[q].borrower
             loan == [principal |-> fresh.amount, collateral |-> fresh.collateral,
                      apr |-> fresh.apr, tranches |-> fresh.tranches,
                      maturesAt |-> clock + BorrowRequests[q].term * Day,
                      lastAccruedAt |-> clock, accrued |-> 0, status |-> "healthy"]
         IN /\ fresh.collateral <= fxrp[b]
            /\ fxrp' = [fxrp EXCEPT ![b] = @ - fresh.collateral]
            /\ fxrpReserved' = [fxrpReserved EXCEPT ![b] = @ + fresh.collateral]
            /\ mandates' = [m \in DOMAIN mandates |-> Lending(mandates[m], fresh.tranches[m])]
            /\ loans' = With(loans, q, [loan EXCEPT !.status = Status(loan, p, clock)])
            /\ activeDebt' = activeDebt + fresh.amount
BY DEF AcceptQuote, SameQuote, Lending

LEMMA AcceptQuoteStep ==
  ASSUME IInv, UNCHANGED scenario, NEW q \in LoanIds, NEW p \in Prices, AcceptQuote(q, p)
  PROVE  IInv'
<1> DEFINE r == BorrowRequests[q]
           b == r.borrower
           fresh == QuoteOf(q)
           loan == [principal |-> fresh.amount, collateral |-> fresh.collateral,
                    apr |-> fresh.apr, tranches |-> fresh.tranches,
                    maturesAt |-> clock + r.term * Day, lastAccruedAt |-> clock,
                    accrued |-> 0, status |-> "healthy"]
           new == [loan EXCEPT !.status = Status(loan, p, clock)]
           c == fresh.collateral
           lent(m) == Lending(mandates[m], fresh.tranches[m])
<1>1. /\ Unprocessed(q) /\ Process(q) /\ Quotable(q, p) /\ loanOf[b] = None /\ c <= fxrp[b]
      /\ fxrp' = [fxrp EXCEPT ![b] = @ - c]
      /\ fxrpReserved' = [fxrpReserved EXCEPT ![b] = @ + c]
      /\ mandates' = [m \in DOMAIN mandates |-> lent(m)]
      /\ loans' = With(loans, q, new)
      /\ loanOf' = [loanOf EXCEPT ![b] = q]
      /\ activeDebt' = activeDebt + fresh.amount
      /\ price' = p
      /\ nonce' = [nonce EXCEPT ![b] = @ + 1]
      /\ UNCHANGED <<usdt0, usdt0Reserved, protocolReserve, backstopUsdt0, backstopFxrp,
                     clock>>
  BY AcceptedIsFresh DEF AcceptQuote, MayBorrow, ConsumeNonce, poolVars, Lending
<1>2. /\ b \in Owners /\ r.term \in Nat /\ clock \in Times /\ clock \in Nat
      /\ mandates \in [DOMAIN mandates -> Mandate] /\ DOMAIN mandates \subseteq MandateIds
      /\ loans \in [DOMAIN loans -> Loan]
      /\ fxrp \in [Owners -> Nat] /\ fxrpReserved \in [Owners -> Nat]
      /\ loanOf \in [Owners -> LoanIds \cup {None}] /\ nonce \in [Owners -> Nat]
  BY Requests, ConstantsAssumption DEF IInv, Typed, TypeOK
<1>3. /\ fresh \in Quote /\ fresh.amount > 0 /\ fresh.apr > 0
      /\ Total(fresh.tranches, MandateIds) = fresh.amount
      /\ Total(Weighted(fresh.tranches), MandateIds) <= fresh.apr * fresh.amount
      /\ fresh.tranches \in [MandateIds -> Nat]
      /\ \A m \in MandateIds : fresh.tranches[m] > 0 => m \in DOMAIN mandates
      /\ \A m \in DOMAIN mandates : fresh.tranches[m] <= mandates[m].available
  BY <1>1, QuoteFacts, TranchesFacts, EligibleFacts DEF IInv
<1>4. fresh.amount \in Nat /\ fresh.collateral \in Nat /\ fresh.apr \in Nat
  BY <1>3 DEF Quote
<1> HIDE DEF fresh, r
<1>5. clock + r.term * Day \in Nat
  BY <1>2, Product, Constants
<1>6. /\ new \in Loan /\ IsOpen(new) /\ new.principal = fresh.amount /\ new.collateral = c
      /\ new.apr = fresh.apr /\ new.tranches = fresh.tranches
  BY <1>2, <1>3, <1>4, <1>5, StatusIsOpen DEF Loan, IsOpen
<1> HIDE DEF loan, new
<1>7. Sound(new)
  BY <1>3, <1>6 DEF Sound
<1>8. q \notin DOMAIN loans /\ q \notin OpenLoans /\ q # None
  BY <1>1, ConstantsAssumption DEF IInv, LoanTerms, Unprocessed, OpenLoans
<1>9. /\ DOMAIN loans' = DOMAIN loans \cup {q}
      /\ \A i \in DOMAIN loans : loans'[i] = loans[i]
      /\ loans'[q] = new
      /\ loans' = [i \in DOMAIN loans' |-> loans'[i]]
  BY <1>1, <1>8 DEF With
<1>10. OpenLoans' = OpenLoans \cup {q}
  BY <1>6, <1>8, <1>9 DEF OpenLoans
<1>11. ASSUME NEW m \in DOMAIN mandates
       PROVE  /\ mandates'[m] \in Mandate
              /\ mandates'[m].available = mandates[m].available - fresh.tranches[m]
              /\ mandates'[m].allocated = mandates[m].allocated + fresh.tranches[m]
              /\ mandates'[m].available + mandates'[m].allocated = Offers[m] - 0
              /\ mandates'[m].active \/ mandates'[m].available = 0
  <2>1. /\ mandates[m] \in Mandate /\ mandates[m].available \in Nat /\ mandates[m].allocated \in Nat
        /\ Offers[m] = mandates[m].available + mandates[m].allocated
        /\ mandates[m].active \/ mandates[m].available = 0
    BY MandatesTyped DEF IInv, Offers, MandatesInStep, ReservedIsMandates
  <2>2. fresh.tranches[m] \in Nat /\ fresh.tranches[m] <= mandates[m].available
    BY <1>2, <1>3
  <2>3. mandates'[m] = lent(m)
    BY <1>1
  <2>4. /\ mandates'[m] \in Mandate
        /\ mandates'[m].available = mandates[m].available - fresh.tranches[m]
        /\ mandates'[m].allocated = mandates[m].allocated + fresh.tranches[m]
        /\ mandates'[m].active = mandates[m].active
    BY <2>1, <2>2, <2>3, LendingFacts
  <2> QED
    BY <2>1, <2>2, <2>4
<1> HIDE DEF lent
<1>12. mandates' \in [DOMAIN mandates -> Mandate]
  BY <1>1, <1>11
<1>13. ReservedIsMandates'
  <2> DEFINE dec == [m \in DOMAIN mandates |-> 0]
  <2>1. \A o \in Owners : Total(dec, MandatesOf(o)) = 0 /\ usdt0Reserved[o] \in Nat
    <3>1. \A o : MandatesOf(o) \in SUBSET DOMAIN mandates
      BY MandatesTyped DEF IInv
    <3>2. \A o : \A m \in MandatesOf(o) : dec[m] = 0
      BY <3>1
    <3> HIDE DEF dec
    <3> QED
      BY <3>2, TotalZero DEF IInv, Typed, TypeOK
  <2>2. \A m \in DOMAIN mandates : dec[m] = 0
    OBVIOUS
  <2> HIDE DEF dec
  <2>3. MandatesGive(dec)
    BY <1>11, <2>2 DEF MandatesGive
  <2>4. ReservesFollow(dec)
    BY <1>1, <2>1 DEF ReservesFollow
  <2> QED
    BY <1>12, <2>3, <2>4, ReservesStep DEF IInv, MandatesInStep
<1>14. /\ Principal(OpenLoans', loans') = Principal(OpenLoans, loans) + fresh.amount
       /\ \A m \in MandateIds : Returned(OpenLoans', loans', m) =
                                  Returned(OpenLoans, loans, m) + fresh.tranches[m]
  <2>1. PICK S, ls, ks : S = OpenLoans /\ ls = loans /\ ks = loans'
    OBVIOUS
  <2>2. /\ IsFiniteSet(S) /\ q \notin S
        /\ \A i \in S : ls[i] \in Loan
        /\ \A i \in S : ks[i] = ls[i]
    BY <1>8, <1>9, <2>1, LoansTyped DEF IInv
  <2>3. ks[q] \in Loan /\ ks[q].principal = fresh.amount /\ ks[q].tranches = fresh.tranches
    BY <1>6, <1>9, <2>1
  <2>4. PICK T : T = S \cup {q}
    OBVIOUS
  <2>5. q \in T /\ T \ {q} = S /\ IsFiniteSet(T) /\ \A i \in T : ks[i] \in Loan
    BY <2>2, <2>3, <2>4, FS_AddElement
  <2>6. Principal(T, ks) = Principal(S, ls) + fresh.amount
    <3>1. Principal(T, ks) = Principal(T \ {q}, ks) + ks[q].principal
      BY <2>5, PrincipalPick
    <3>2. Principal(S, ks) = Principal(S, ls)
      BY <2>2, PrincipalSame
    <3> QED
      BY <2>3, <2>5, <3>1, <3>2
  <2>7. ASSUME NEW m \in MandateIds
        PROVE  Returned(T, ks, m) = Returned(S, ls, m) + fresh.tranches[m]
    <3>1. Returned(T, ks, m) = Returned(T \ {q}, ks, m) + ks[q].tranches[m]
      BY <2>5, ReturnedPick
    <3>2. Returned(S, ks, m) = Returned(S, ls, m)
      BY <2>2, ReturnedSame
    <3> QED
      BY <2>3, <2>5, <3>1, <3>2
  <2> QED
    BY <1>10, <2>1, <2>4, <2>6, <2>7
<1>15. Lent' = Lent + fresh.amount
  <2>1. PICK S, ls, ks : S = DOMAIN loans /\ ls = loans /\ ks = loans'
    OBVIOUS
  <2>2. /\ IsFiniteSet(S) /\ q \notin S
        /\ \A i \in S : ls[i] \in Loan
        /\ \A i \in S : ks[i] = ls[i]
    BY <1>8, <1>9, <2>1, LoansTyped DEF IInv
  <2>3. ks[q] \in Loan /\ ks[q].principal = fresh.amount
    BY <1>6, <1>9, <2>1
  <2>4. PICK T : T = S \cup {q}
    OBVIOUS
  <2>5. q \in T /\ T \ {q} = S /\ IsFiniteSet(T) /\ \A i \in T : ks[i] \in Loan
    BY <2>2, <2>3, <2>4, FS_AddElement
  <2>6. Lent = Principal(S, ls) /\ Lent' = Principal(T, ks)
    BY <1>9, <2>1, <2>4 DEF Lent, Principal
  <2>7. Principal(T, ks) = Principal(T \ {q}, ks) + ks[q].principal
    BY <2>5, PrincipalPick
  <2>8. Principal(S, ks) = Principal(S, ls)
    BY <2>2, PrincipalSame
  <2> QED
    BY <2>3, <2>5, <2>6, <2>7, <2>8
<1>16. AllocatedIsLent'
  <2>1. \A m \in DOMAIN mandates' : mandates'[m].allocated = Returned(OpenLoans', loans', m)
    BY <1>2, <1>11, <1>12, <1>14 DEF IInv, MandatesInStep, AllocatedIsLent
  <2>2. activeDebt' = Principal(OpenLoans', loans')
    BY <1>1, <1>14 DEF IInv, MandatesInStep, AllocatedIsLent, Principal
  <2> QED
    BY <2>1, <2>2 DEF AllocatedIsLent, Principal, Returned
<1>17. LoanTerms'
  <2>1. DOMAIN loans' \subseteq processed'
    BY <1>1, <1>9 DEF IInv, LoanTerms, Process
  <2>2. ASSUME NEW i \in DOMAIN loans'
        PROVE  /\ Sound(loans'[i])
               /\ \A m \in MandateIds : loans'[i].tranches[m] > 0 => m \in DOMAIN mandates'
    <3>1. CASE i = q
      BY <1>3, <1>6, <1>7, <1>9, <1>12, <3>1
    <3>2. CASE i # q
      BY <1>9, <1>12, <3>2 DEF IInv, LoanTerms
    <3> QED
      BY <3>1, <3>2
  <2> QED
    BY <2>1, <2>2 DEF LoanTerms, Sound
<1>18. /\ fxrp' \in [Owners -> Nat] /\ fxrp'[b] = fxrp[b] - c /\ fxrp[b] \in Nat
       /\ \A i \in Owners : i # b => fxrp'[i] = fxrp[i]
       /\ fxrpReserved' \in [Owners -> Nat] /\ fxrpReserved'[b] = fxrpReserved[b] + c
       /\ fxrpReserved[b] \in Nat
       /\ \A i \in Owners : i # b => fxrpReserved'[i] = fxrpReserved[i]
       /\ loanOf' \in [Owners -> LoanIds \cup {None}] /\ loanOf'[b] = q
       /\ \A i \in Owners : i # b => loanOf'[i] = loanOf[i]
       /\ nonce' \in [Owners -> Nat]
  BY <1>1, <1>2, <1>4
<1>19. CollateralBacksLoan'
  <2>1. /\ \A i \in OpenLoans : loanOf[BorrowRequests[i].borrower] = i
        /\ \A o \in Owners : /\ loanOf[o] # None => /\ loanOf[o] \in OpenLoans
                                                  /\ BorrowRequests[loanOf[o]].borrower = o
                             /\ fxrpReserved[o] = IF loanOf[o] = None THEN 0
                                                  ELSE loans[loanOf[o]].collateral
    BY DEF IInv, CollateralBacksLoan
  <2>2. ASSUME NEW i \in OpenLoans'
        PROVE  loanOf'[BorrowRequests[i].borrower] = i
    <3>1. CASE i = q
      BY <1>18, <3>1 DEF r
    <3>2. CASE i # q
      <4>1. i \in OpenLoans /\ i \in LoanIds /\ i # None
        BY <1>10, <3>2, LoansTyped, ConstantsAssumption DEF IInv
      <4>2. loanOf[BorrowRequests[i].borrower] = i /\ BorrowRequests[i].borrower \in Owners
        BY <2>1, <4>1, Requests
      <4>3. BorrowRequests[i].borrower # b
        BY <1>1, <4>1, <4>2
      <4> QED
        BY <1>18, <4>2, <4>3
    <3> QED
      BY <3>1, <3>2
  <2>3. ASSUME NEW o \in Owners
        PROVE  /\ loanOf'[o] # None => /\ loanOf'[o] \in OpenLoans'
                                       /\ BorrowRequests[loanOf'[o]].borrower = o
               /\ fxrpReserved'[o] = IF loanOf'[o] = None THEN 0
                                     ELSE loans'[loanOf'[o]].collateral
    <3>1. CASE o = b
      BY <1>1, <1>2, <1>4, <1>6, <1>8, <1>9, <1>10, <1>18, <2>1, <3>1 DEF r
    <3>2. CASE o # b
      BY <1>9, <1>10, <1>18, <2>1, <3>2, LoansTyped DEF IInv
    <3> QED
      BY <3>1, <3>2
  <2> QED
    BY <2>2, <2>3 DEF CollateralBacksLoan
<1>20. Typed'
  <2>1. /\ DOMAIN loans' \subseteq LoanIds
        /\ \A i \in DOMAIN loans' : loans'[i] \in Loan
    BY <1>6, <1>9 DEF IInv, Typed, TypeOK
  <2>2. loans' \in [DOMAIN loans' -> Loan]
    BY <1>9, <2>1
  <2>3. processed' \subseteq OperationIds
    BY <1>1 DEF IInv, Typed, TypeOK, Process, OperationIds
  <2>4. activeDebt' \in Nat
    BY <1>1, <1>4 DEF IInv, Typed, TypeOK
  <2> QED
    BY <1>1, <1>2, <1>12, <1>18, <2>1, <2>2, <2>3, <2>4 DEF IInv, Typed, TypeOK
<1>21. Usdt0Balanced' /\ FxrpSolvent'
  <2>1. Lent \in Nat /\ Lent' \in Nat
    BY <1>4, <1>15, Sums DEF IInv
  <2>2. /\ HeldUsdt0 \in Int /\ HeldFxrp \in Int
        /\ HeldUsdt0' = HeldUsdt0 + Paid(Deposits, "USDT0", q) + Backed(q)
                         - Paid(Withdrawals, "USDT0", q) - Drawn(q) - (Lent' - Lent)
        /\ HeldFxrp' = HeldFxrp + Paid(Deposits, "FXRP", q) - Paid(Withdrawals, "FXRP", q)
    BY <1>1, <2>1, HeldStep
  <2>3. /\ Drawn(q) = 0 /\ Backed(q) = 0
        /\ Paid(Deposits, "USDT0", q) = 0 /\ Paid(Withdrawals, "USDT0", q) = 0
        /\ Paid(Deposits, "FXRP", q) = 0 /\ Paid(Withdrawals, "FXRP", q) = 0
    BY IdsDiffer DEF Paid, Backed, Drawn
  <2>4. HeldUsdt0' = HeldUsdt0 - fresh.amount /\ HeldFxrp' = HeldFxrp
    BY <1>4, <1>15, <2>1, <2>2, <2>3
  <2>5. /\ Total(fxrp, Owners) \in Nat
        /\ Total(fxrp', Owners) = Total(fxrp, Owners) - fxrp[b] + fxrp'[b]
        /\ Total(fxrpReserved, Owners) \in Nat
        /\ Total(fxrpReserved', Owners) =
             Total(fxrpReserved, Owners) - fxrpReserved[b] + fxrpReserved'[b]
    BY <1>2, <1>18, AccountChange
  <2>6. Total(fxrp', Owners) + Total(fxrpReserved', Owners) =
          Total(fxrp, Owners) + Total(fxrpReserved, Owners)
    BY <1>4, <1>18, <2>5
  <2>7. FxrpSolvent'
    BY <1>1, <2>4, <2>6 DEF IInv, FxrpSolvent
  <2>8. HeldUsdt0' + activeDebt' = HeldUsdt0 + activeDebt
    BY <1>1, <1>4, <2>2, <2>4, Sums DEF IInv
  <2>9. Usdt0Balanced'
    BY <1>1, <2>8 DEF IInv, Usdt0Balanced
  <2> QED
    BY <2>7, <2>9
<1> QED
  BY <1>13, <1>16, <1>17, <1>19, <1>20, <1>21 DEF IInv, MandatesInStep

-----------------------------------------------------------------------------
(***************************************************************************)
(* Closing loans                                                           *)
(***************************************************************************)
\* The loans of S are open, and stand in ls with more interest than in loans.
Closing(S, ls) ==
  /\ S \subseteq OpenLoans
  /\ \A i \in S : /\ ls[i] \in Loan
                  /\ ls[i].principal = loans[i].principal /\ ls[i].apr = loans[i].apr
                  /\ ls[i].tranches = loans[i].tranches

LEMMA ClosingFacts ==
  ASSUME Typed, LoanTerms, NEW S, NEW ls, Closing(S, ls)
  PROVE  /\ IsFiniteSet(S) /\ S \in SUBSET DOMAIN loans
         /\ \A i \in S : ls[i] \in Loan
         /\ \A i \in S : Sound(ls[i])
         /\ \A i \in S : \A m \in MandateIds : ls[i].tranches[m] > 0 => m \in DOMAIN mandates
         /\ Principal(S, ls) = Principal(S, loans)
         /\ \A m : Returned(S, ls, m) = Returned(S, loans, m)
<1>1. S \in SUBSET OpenLoans /\ OpenLoans \in SUBSET DOMAIN loans /\ IsFiniteSet(OpenLoans)
  BY LoansTyped DEF Closing
<1>2. IsFiniteSet(S) /\ S \in SUBSET DOMAIN loans
  BY <1>1, FS_Subset
<1>3. \A i \in S : /\ ls[i] \in Loan
                  /\ ls[i].principal = loans[i].principal /\ ls[i].apr = loans[i].apr
                  /\ ls[i].tranches = loans[i].tranches
  BY DEF Closing
<1>4. \A i \in S : Sound(ls[i])
  BY <1>2, <1>3 DEF LoanTerms, Sound
<1>5. \A i \in S : \A m \in MandateIds : ls[i].tranches[m] > 0 => m \in DOMAIN mandates
  BY <1>2, <1>3 DEF LoanTerms
<1>6. Principal(S, ls) = Principal(S, loans)
  BY <1>3, PrincipalSame
<1>7. \A m : Returned(S, ls, m) = Returned(S, loans, m)
  BY <1>3, ReturnedSame
<1> QED
  BY <1>2, <1>3, <1>4, <1>5, <1>6, <1>7

\* What the closing loans return to a mandate is part of what it has lent.
LEMMA ReturnedFits ==
  ASSUME Typed, LoanTerms, AllocatedIsLent, NEW S, NEW ls, Closing(S, ls),
         NEW m \in DOMAIN mandates
  PROVE  /\ Returned(S, ls, m) \in Nat
         /\ Returned(S, ls, m) <= mandates[m].allocated
         /\ Returned(OpenLoans \ S, loans, m) = mandates[m].allocated - Returned(S, ls, m)
<1>1. PICK T, ks : T = OpenLoans /\ ks = loans
  OBVIOUS
<1>2. IsFiniteSet(T) /\ S \in SUBSET T /\ m \in MandateIds
  BY <1>1, LoansTyped, MandatesTyped DEF Closing
<1>3. \A i \in T : ks[i] \in Loan
  BY <1>1, LoansTyped
<1>4. /\ Returned(T, ks, m) = Returned(S, ks, m) + Returned(T \ S, ks, m)
      /\ Returned(S, ks, m) \in Nat /\ Returned(T \ S, ks, m) \in Nat
  BY <1>2, <1>3, ReturnedSplit
<1>5. mandates[m].allocated = Returned(T, ks, m)
  BY <1>1 DEF AllocatedIsLent
<1>6. Returned(S, ls, m) = Returned(S, ks, m)
  BY <1>1, ClosingFacts
<1> QED
  BY <1>1, <1>4, <1>5, <1>6

LEMMA PrincipalFits ==
  ASSUME Typed, LoanTerms, AllocatedIsLent, NEW S, NEW ls, Closing(S, ls)
  PROVE  /\ Principal(S, ls) \in Nat
         /\ Principal(S, ls) <= activeDebt
         /\ Principal(OpenLoans \ S, loans) = activeDebt - Principal(S, ls)
<1>1. PICK T, ks : T = OpenLoans /\ ks = loans
  OBVIOUS
<1>2. IsFiniteSet(T) /\ S \in SUBSET T
  BY <1>1, LoansTyped DEF Closing
<1>3. \A i \in T : ks[i] \in Loan
  BY <1>1, LoansTyped
<1>4. /\ Principal(T, ks) = Principal(S, ks) + Principal(T \ S, ks)
      /\ Principal(S, ks) \in Nat /\ Principal(T \ S, ks) \in Nat
  BY <1>2, <1>3, PrincipalSplit
<1>5. activeDebt = Principal(T, ks)
  BY <1>1 DEF AllocatedIsLent, Principal
<1>6. Principal(S, ls) = Principal(S, ks)
  BY <1>1, ClosingFacts
<1> QED
  BY <1>1, <1>4, <1>5, <1>6

\* What leaves the reserves when the loans of S close: the returns to cancelled mandates.
Leaves(S, ls) == [m \in DOMAIN mandates |-> IF mandates[m].active THEN 0 ELSE Returned(S, ls, m)]

LEMMA RefundFacts ==
  ASSUME Typed, LoanTerms, ReservedIsMandates, AllocatedIsLent, NEW S, NEW ls, Closing(S, ls),
         NEW o \in Owners
  PROVE  /\ Refund(S, ls, o) \in Nat
         /\ Refund(S, ls, o) = Total(Leaves(S, ls), MandatesOf(o))
         /\ Refund(S, ls, o) <= usdt0Reserved[o]
<1> DEFINE M == MandatesOf(o)
           f == [m \in M |-> IF mandates[m].active THEN 0 ELSE Returned(S, ls, m)]
           g == Leaves(S, ls)
           off == Offers
<1>1. M \in SUBSET DOMAIN mandates /\ IsFiniteSet(M) /\ Amounts(off, M)
      /\ usdt0Reserved[o] = Total(off, M)
  BY MandatesTyped, ReservedSum
<1>2. \A m \in M : f[m] = g[m]
  BY <1>1 DEF Leaves
<1>3. ASSUME NEW m \in M PROVE g[m] \in Nat /\ g[m] <= off[m]
  <2>1. /\ Returned(S, ls, m) \in Nat /\ Returned(S, ls, m) <= mandates[m].allocated
        /\ mandates[m].available \in Nat /\ mandates[m].allocated \in Nat
    BY <1>1, ReturnedFits, MandatesTyped
  <2>2. off[m] = mandates[m].available + mandates[m].allocated
    BY <1>1 DEF Offers
  <2>3. g[m] = IF mandates[m].active THEN 0 ELSE Returned(S, ls, m)
    BY <1>1 DEF Leaves
  <2> QED
    BY <2>1, <2>2, <2>3
<1>4. Refund(S, ls, o) = Total(f, M)
  BY DEF Refund
<1> HIDE DEF M, f, g, off
<1>5. Total(f, M) = Total(g, M)
  BY <1>2, TotalSame
<1>6. Amounts(g, M)
  BY <1>1, <1>3 DEF Amounts
<1>7. Total(g, M) \in Nat /\ Total(g, M) <= Total(off, M)
  BY <1>1, <1>3, <1>6, TotalType, TotalAtMost
<1> QED
  BY <1>1, <1>4, <1>5, <1>7 DEF M, g

\* No check of distributeRepayment fails for open loans.
LEMMA ClosingIsDistributable ==
  ASSUME Typed, LoanTerms, MandatesInStep, NEW S, NEW ls, Closing(S, ls)
  PROVE  Distributable(S, ls)
<1>1. \A m \in DOMAIN mandates : Returned(S, ls, m) <= mandates[m].allocated
  BY ReturnedFits DEF MandatesInStep
<1>2. \A o \in Owners : Refund(S, ls, o) <= usdt0Reserved[o]
  BY RefundFacts DEF MandatesInStep
<1>3. \A i \in S : ls[i] \in Loan /\ Sound(ls[i])
  BY ClosingFacts
<1>4. \A i \in S : /\ Total(ls[i].tranches, MandateIds) = ls[i].principal
                  /\ LendersInterest(ls[i]) <= Interest(ls[i])
  BY <1>3, LendersShare DEF Sound
<1> QED
  BY <1>1, <1>2, <1>4 DEF Distributable

\* The lenders' part of one loan's interest, lender by lender.
LEMMA ShareByOwner ==
  ASSUME Typed, NEW l \in Loan, Sound(l),
         \A m \in MandateIds : l.tranches[m] > 0 => m \in DOMAIN mandates,
         NEW sums, \A o \in Owners :
           sums[o] = Total([m \in MandatesOf(o) |-> LenderInterest(l, m)], MandatesOf(o))
  PROVE  Amounts(sums, Owners) /\ Total(sums, Owners) = LendersInterest(l)
<1> DEFINE part == [m \in MandateIds |-> LenderInterest(l, m)]
           D == DOMAIN mandates
<1>1. Amounts(part, MandateIds) /\ LendersInterest(l) = Total(part, MandateIds)
  BY LendersShare DEF LendersInterest
<1>2. D \in SUBSET MandateIds
  BY MandatesTyped
<1>3. \A m \in MandateIds \ D : part[m] = 0
  <2> SUFFICES ASSUME NEW m \in MandateIds \ D PROVE LenderInterest(l, m) = 0
    OBVIOUS
  <2>1. l.tranches[m] \in Nat /\ ~ (l.tranches[m] > 0)
    BY DEF Loan
  <2>2. l.tranches[m] = 0 /\ l.principal > 0 /\ l.apr > 0
    BY <2>1 DEF Sound
  <2> QED
    BY <2>2, LenderInterestFacts
<1>4. ASSUME NEW o \in Owners PROVE sums[o] = Total(part, MandatesOf(o))
  <2> DEFINE M == MandatesOf(o)
             f == [m \in M |-> LenderInterest(l, m)]
  <2>1. M \in SUBSET MandateIds
    BY MandatesTyped
  <2>2. \A m \in M : f[m] = part[m]
    BY <2>1
  <2>3. sums[o] = Total(f, M)
    OBVIOUS
  <2> HIDE DEF f, M, part
  <2>4. Total(f, M) = Total(part, M)
    BY <2>2, TotalSame
  <2> QED
    BY <2>3, <2>4 DEF M
<1> HIDE DEF part, D
<1>5. Amounts(part, D) /\ Total(part, MandateIds) = Total(part, D)
  BY <1>1, <1>2, <1>3, TotalOutside
<1>6. Amounts(part, DOMAIN mandates)
  BY <1>5 DEF D
<1>7. Amounts(sums, Owners) /\ Total(sums, Owners) = Total(part, DOMAIN mandates)
  BY <1>4, <1>6, MandatesByOwner
<1> QED
  BY <1>1, <1>5, <1>7 DEF D

\* What lender o earns from the closing loans.
Earned(S, ls, o) ==
  Total([i \in S |-> Total([m \in MandatesOf(o) |-> LenderInterest(ls[i], m)], MandatesOf(o))], S)

\* All lenders together earn the lenders' parts of the loans' interest.
LEMMA EarnedTotal ==
  ASSUME Typed, LoanTerms, NEW S, NEW ls, Closing(S, ls),
         NEW shares, \A i \in S : shares[i] = LendersInterest(ls[i]),
         NEW earned, \A o \in Owners : earned[o] = Earned(S, ls, o)
  PROVE  /\ Amounts(shares, S) /\ Amounts(earned, Owners)
         /\ Total(earned, Owners) = Total(shares, S)
<1> DEFINE of(i, o) == Total([m \in MandatesOf(o) |-> LenderInterest(ls[i], m)], MandatesOf(o))
           F == [i \in S |-> [o \in Owners |-> of(i, o)]]
           col == [o \in Owners |-> [i \in S |-> of(i, o)]]
<1>1. IsFiniteSet(S) /\ IsFiniteSet(Owners)
  BY ClosingFacts, TablesFinite
<1>2. ASSUME NEW i \in S
      PROVE  /\ Amounts(F[i], Owners)
             /\ shares[i] = Total(F[i], Owners)
  <2>1. /\ ls[i] \in Loan /\ Sound(ls[i])
        /\ \A m \in MandateIds : ls[i].tranches[m] > 0 => m \in DOMAIN mandates
    BY ClosingFacts
  <2> DEFINE sums == F[i]
             l == ls[i]
  <2>2. \A o \in Owners :
          sums[o] = Total([m \in MandatesOf(o) |-> LenderInterest(l, m)], MandatesOf(o))
    OBVIOUS
  <2> HIDE DEF sums, l, F
  <2>3. Amounts(sums, Owners) /\ Total(sums, Owners) = LendersInterest(l)
    BY <2>1, <2>2, ShareByOwner DEF l
  <2> QED
    BY <2>3 DEF sums, l
<1>3. \A i \in S : \A o \in Owners : F[i][o] \in Nat
  BY <1>2 DEF Amounts
<1>4. \A o \in Owners : /\ \A i \in S : col[o][i] = F[i][o]
                       /\ earned[o] = Total(col[o], S)
  BY DEF Earned
<1> HIDE DEF F, col
<1>5. PICK T : T = Owners
  OBVIOUS
<1>6. /\ Amounts(shares, S) /\ Amounts(earned, T)
      /\ Total(shares, S) = Total(earned, T)
  <2>1. IsFiniteSet(S) /\ IsFiniteSet(T)
    BY <1>1, <1>5
  <2>2. RowSums(shares, F, S, T)
    BY <1>2, <1>3, <1>5 DEF RowSums
  <2>3. ColumnSums(earned, col, F, S, T)
    BY <1>4, <1>5 DEF ColumnSums
  <2> QED
    BY <2>1, <2>2, <2>3, TotalSwap
<1> QED
  BY <1>5, <1>6

\* The mandates and what is reserved for them, when loans close.
LEMMA DistributeBooks ==
  ASSUME Typed, LoanTerms, MandatesInStep, NEW S, NEW ls, Closing(S, ls), NEW charge,
         Distribute(S, ls, charge)
  PROVE  /\ mandates' \in [DOMAIN mandates -> Mandate]
         /\ \A m \in DOMAIN mandates :
              mandates'[m].allocated = mandates[m].allocated - Returned(S, ls, m)
         /\ ReservedIsMandates'
         /\ usdt0Reserved' \in [Owners -> Nat]
         /\ \A o \in Owners : usdt0Reserved'[o] = usdt0Reserved[o] - Refund(S, ls, o)
<1> DEFINE ret(m) == Returned(S, ls, m)
           paid(m) == [mandates[m] EXCEPT
                         !.allocated = @ - ret(m),
                         !.available = IF mandates[m].active THEN @ + ret(m) ELSE @]
           dec == Leaves(S, ls)
<1>1. /\ usdt0Reserved' = [o \in Owners |-> usdt0Reserved[o] - Refund(S, ls, o)]
      /\ mandates' = [m \in DOMAIN mandates |->
                        IF ret(m) = 0 THEN mandates[m] ELSE Retire(paid(m))]
  BY DEF Distribute
<1>2. ReservedIsMandates /\ AllocatedIsLent
  BY DEF MandatesInStep
<1>3. ASSUME NEW m \in DOMAIN mandates
      PROVE  /\ mandates[m] \in Mandate
             /\ mandates[m].available \in Nat /\ mandates[m].allocated \in Nat
             /\ mandates[m].active \in BOOLEAN
             /\ Offers[m] = mandates[m].available + mandates[m].allocated
             /\ mandates[m].active \/ mandates[m].available = 0
             /\ ret(m) \in Nat /\ ret(m) <= mandates[m].allocated
             /\ dec[m] = IF mandates[m].active THEN 0 ELSE ret(m)
  BY <1>2, MandatesTyped, ReturnedFits DEF Offers, ReservedIsMandates, Leaves
<1>4. ASSUME NEW m \in DOMAIN mandates
      PROVE  /\ paid(m) \in Mandate
             /\ paid(m).allocated = mandates[m].allocated - ret(m)
             /\ paid(m).available + paid(m).allocated = Offers[m] - dec[m]
             /\ paid(m).active \/ paid(m).available = 0
  <2> DEFINE r == ret(m)
             d == mandates[m]
             e == paid(m)
  <2>1. /\ d \in Mandate /\ d.available \in Nat /\ d.allocated \in Nat /\ d.active \in BOOLEAN
        /\ Offers[m] = d.available + d.allocated
        /\ d.active \/ d.available = 0
        /\ r \in Nat /\ r <= d.allocated
        /\ dec[m] = IF d.active THEN 0 ELSE r
    BY <1>3
  <2>2. /\ e.allocated = d.allocated - r
        /\ e.available = IF d.active THEN d.available + r ELSE d.available
        /\ e.active = d.active /\ e.createdAt = d.createdAt
        /\ e = [d EXCEPT !.allocated = e.allocated, !.available = e.available]
    BY <2>1 DEF Mandate
  <2> HIDE DEF r, d, e, dec, ret
  <2>3. e.allocated \in Nat /\ e.available \in Nat
    BY <2>1, <2>2
  <2>4. e \in Mandate
    BY <2>1, <2>2, <2>3 DEF Mandate
  <2>5. e.available + e.allocated = Offers[m] - dec[m]
    <3>1. CASE d.active
      BY <2>1, <2>2, <3>1
    <3>2. CASE ~d.active
      BY <2>1, <2>2, <3>2
    <3> QED
      BY <3>1, <3>2
  <2>6. e.active \/ e.available = 0
    BY <2>1, <2>2
  <2> QED
    BY <2>2, <2>4, <2>5, <2>6 DEF r, d, e
<1> HIDE DEF paid, ret, dec
<1>5. ASSUME NEW m \in DOMAIN mandates
      PROVE  /\ mandates'[m] \in Mandate
             /\ mandates'[m].allocated = mandates[m].allocated - ret(m)
             /\ mandates'[m].available + mandates'[m].allocated = Offers[m] - dec[m]
             /\ mandates'[m].active \/ mandates'[m].available = 0
             /\ dec[m] \in Nat
  <2>1. CASE ret(m) = 0
    <3>1. mandates'[m] = mandates[m] /\ dec[m] = 0
      BY <1>1, <1>3, <2>1
    <3> QED
      BY <1>3, <2>1, <3>1
  <2>2. CASE ret(m) # 0
    <3>1. mandates'[m] = Retire(paid(m))
      BY <1>1, <2>2
    <3>2. /\ Retire(paid(m)) \in Mandate
          /\ Retire(paid(m)).available = paid(m).available
          /\ Retire(paid(m)).allocated = paid(m).allocated
          /\ Retire(paid(m)).active \/ Retire(paid(m)).available = 0
      BY <1>4, RetireFacts
    <3> QED
      BY <1>3, <1>4, <3>1, <3>2
  <2> QED
    BY <2>1, <2>2
<1>6. mandates' \in [DOMAIN mandates -> Mandate]
  BY <1>1, <1>5
<1>7. \A o \in Owners : usdt0Reserved'[o] = usdt0Reserved[o] - Refund(S, ls, o)
  BY <1>1
<1>8. \A o \in Owners : Refund(S, ls, o) = Total(dec, MandatesOf(o))
  BY <1>2, RefundFacts DEF dec
<1>9. ReservedIsMandates' /\ \A o \in Owners : usdt0Reserved'[o] \in Nat
  <2>1. MandatesGive(dec)
    BY <1>5 DEF MandatesGive
  <2>2. ReservesFollow(dec)
    BY <1>7, <1>8 DEF ReservesFollow
  <2> QED
    BY <1>2, <1>6, <2>1, <2>2, ReservesStep
<1>10. usdt0Reserved' \in [Owners -> Nat]
  BY <1>1, <1>9
<1>11. \A m \in DOMAIN mandates : mandates'[m].allocated = mandates[m].allocated - Returned(S, ls, m)
  BY <1>5 DEF ret
<1> QED
  BY <1>6, <1>7, <1>9, <1>10, <1>11

\* One sum is split between the accounts, another is taken from them.
LEMMA AccountsMove ==
  ASSUME NEW f, NEW g, NEW less, NEW more,
         Amounts(f, Owners), Amounts(g, Owners), Amounts(less, Owners), Amounts(more, Owners),
         \A o \in Owners : g[o] = (f[o] + more[o]) - less[o]
  PROVE  Total(g, Owners) = (Total(f, Owners) + Total(more, Owners)) - Total(less, Owners)
<1> DEFINE S == Owners
           h == [o \in S |-> f[o] + more[o]]
<1>1. \A o \in S : h[o] = f[o] + more[o] /\ g[o] = h[o] - less[o]
  OBVIOUS
<1>2. \A o \in S : h[o] \in Nat
  BY DEF Amounts
<1> HIDE DEF S, h
<1>3. /\ Amounts(f, S) /\ Amounts(g, S) /\ Amounts(less, S) /\ Amounts(more, S) /\ Amounts(h, S)
  BY <1>2 DEF S, Amounts
<1>4. Total(h, S) = Total(f, S) + Total(more, S)
  BY <1>1, <1>3, TotalPlus
<1>5. Total(g, S) = Total(h, S) - Total(less, S)
  BY <1>1, <1>3, TotalMinus
<1> QED
  BY <1>4, <1>5 DEF S

\* The money of a repayment or a liquidation: what is paid in, less what is lost to the
\* lenders' rounding, is interest that the lenders and the protocol divide.
LEMMA DistributeMoney ==
  ASSUME Typed, LoanTerms, MandatesInStep, NEW S, NEW ls, Closing(S, ls),
         NEW charge, Amounts(charge, Owners), \A o \in Owners : charge[o] <= usdt0[o],
         Distribute(S, ls, charge),
         NEW interest, \A i \in S : interest[i] = Interest(ls[i])
  PROVE  /\ usdt0' \in [Owners -> Nat]
         /\ protocolReserve' \in Nat
         /\ Amounts(interest, S)
         /\ Total(usdt0', Owners) + Total(usdt0Reserved', Owners) + protocolReserve'
              = Total(usdt0, Owners) + Total(usdt0Reserved, Owners) + protocolReserve
                - Total(charge, Owners) + Total(interest, S)
<1> DEFINE refund == [o \in Owners |-> Refund(S, ls, o)]
           earned == [o \in Owners |-> Earned(S, ls, o)]
           shares == [i \in S |-> LendersInterest(ls[i])]
           fees == [i \in S |-> Interest(ls[i]) - LendersInterest(ls[i])]
           credit == [o \in Owners |-> Credit(S, ls, o)]
<1>1. /\ usdt0' = [o \in Owners |-> usdt0[o] - charge[o] + credit[o]]
      /\ protocolReserve' = protocolReserve + Total(fees, S)
  BY DEF Distribute
<1>2. usdt0 \in [Owners -> Nat] /\ usdt0Reserved \in [Owners -> Nat] /\ IsFiniteSet(Owners)
  BY TablesFinite DEF Typed, TypeOK
<1>3. \A o \in Owners : /\ refund[o] \in Nat /\ usdt0Reserved'[o] = usdt0Reserved[o] - refund[o]
                       /\ usdt0Reserved'[o] \in Nat
  BY RefundFacts, DistributeBooks DEF MandatesInStep
<1>4. /\ Amounts(shares, S) /\ Amounts(earned, Owners) /\ Total(earned, Owners) = Total(shares, S)
  <2>1. \A i \in S : shares[i] = LendersInterest(ls[i])
    OBVIOUS
  <2>2. \A o \in Owners : earned[o] = Earned(S, ls, o)
    OBVIOUS
  <2> HIDE DEF shares, earned
  <2> QED
    BY <2>1, <2>2, EarnedTotal
<1>5. \A o \in Owners : earned[o] \in Nat /\ charge[o] \in Nat
  BY <1>4 DEF Amounts
<1>6. \A o \in Owners : credit[o] = refund[o] + earned[o]
  BY DEF Credit, Earned
<1>7. \A o \in Owners : credit[o] \in Nat
  BY <1>3, <1>5, <1>6
<1>8. /\ \A i \in S : interest[i] \in Nat /\ shares[i] \in Nat /\ shares[i] <= interest[i]
                      /\ fees[i] = interest[i] - shares[i]
      /\ IsFiniteSet(S)
  BY ClosingFacts, LendersShare, InterestFacts
<1> HIDE DEF refund, earned, shares, fees, credit
<1>9. \A i \in S : fees[i] \in Nat
  BY <1>8
<1>10. Amounts(interest, S) /\ Amounts(shares, S) /\ Amounts(fees, S)
  BY <1>8, <1>9 DEF Amounts
<1>11. /\ Total(fees, S) = Total(interest, S) - Total(shares, S)
       /\ Total(fees, S) \in Nat /\ Total(interest, S) \in Nat /\ Total(shares, S) \in Nat
  BY <1>8, <1>10, TotalMinus, TotalType
<1>12. \A o \in Owners : usdt0'[o] \in Nat /\ usdt0'[o] = (usdt0[o] + credit[o]) - charge[o]
  BY <1>1, <1>2, <1>5, <1>7
<1>13. usdt0' \in [Owners -> Nat]
  BY <1>1, <1>12
<1>14. /\ Amounts(usdt0, Owners) /\ Amounts(usdt0', Owners) /\ Amounts(usdt0Reserved, Owners)
       /\ Amounts(usdt0Reserved', Owners) /\ Amounts(refund, Owners) /\ Amounts(credit, Owners)
  BY <1>2, <1>3, <1>7, <1>13 DEF Amounts
<1>15. Total(credit, Owners) = Total(refund, Owners) + Total(earned, Owners)
  BY <1>4, <1>6, <1>14, TotalPlus
<1>16. Total(usdt0', Owners) = (Total(usdt0, Owners) + Total(credit, Owners)) - Total(charge, Owners)
  BY <1>12, <1>14, AccountsMove
<1>17. Total(usdt0Reserved', Owners) = Total(usdt0Reserved, Owners) - Total(refund, Owners)
  BY <1>3, <1>14, TotalMinus
<1>18. /\ Total(usdt0, Owners) \in Nat /\ Total(usdt0Reserved, Owners) \in Nat
       /\ Total(refund, Owners) \in Nat /\ Total(earned, Owners) \in Nat
       /\ Total(charge, Owners) \in Nat /\ protocolReserve \in Nat
  BY <1>4, <1>14, TotalType DEF Typed, TypeOK
<1>19. protocolReserve' \in Nat
  BY <1>1, <1>11, <1>18
<1>20. Total(usdt0', Owners) + Total(usdt0Reserved', Owners) + protocolReserve'
              = Total(usdt0, Owners) + Total(usdt0Reserved, Owners) + protocolReserve
                - Total(charge, Owners) + Total(interest, S)
  <2>1. Total(usdt0', Owners) = Total(usdt0, Owners) + Total(refund, Owners) + Total(earned, Owners)
                                 - Total(charge, Owners)
    BY <1>15, <1>16, <1>18
  <2>2. protocolReserve' = protocolReserve + Total(interest, S) - Total(earned, Owners)
    BY <1>1, <1>4, <1>11, <1>18
  <2> QED
    BY <1>11, <1>17, <1>18, <2>1, <2>2
<1> QED
  BY <1>10, <1>13, <1>19, <1>20

\* The loans of S close, and the others keep their terms.
Closed(S) ==
  /\ loans' \in [DOMAIN loans -> Loan]
  /\ \A i \in S : ~IsOpen(loans'[i])
  /\ \A i \in DOMAIN loans \ S : IsOpen(loans'[i]) <=> IsOpen(loans[i])
  /\ \A i \in DOMAIN loans : /\ loans'[i].principal = loans[i].principal
                             /\ loans'[i].apr = loans[i].apr
                             /\ loans'[i].tranches = loans[i].tranches
                             /\ loans'[i].collateral = loans[i].collateral

LEMMA LoansClose ==
  ASSUME Typed, LoanTerms, MandatesInStep, NEW S, NEW ls, Closing(S, ls), NEW charge,
         Distribute(S, ls, charge), Closed(S), processed \subseteq processed'
  PROVE  /\ OpenLoans' = OpenLoans \ S
         /\ LoanTerms' /\ MandatesInStep' /\ Lent' = Lent
         /\ activeDebt' \in Nat /\ activeDebt' = activeDebt - Principal(S, ls)
<1>1. /\ DOMAIN loans' = DOMAIN loans
      /\ \A i \in S : ~IsOpen(loans'[i])
      /\ \A i \in DOMAIN loans \ S : IsOpen(loans'[i]) <=> IsOpen(loans[i])
      /\ \A i \in DOMAIN loans : /\ loans'[i].principal = loans[i].principal
                                 /\ loans'[i].apr = loans[i].apr
                                 /\ loans'[i].tranches = loans[i].tranches
  BY DEF Closed
<1>2. OpenLoans' = OpenLoans \ S
  BY <1>1 DEF OpenLoans
<1>3. DOMAIN mandates' = DOMAIN mandates /\ ReservedIsMandates'
      /\ \A m \in DOMAIN mandates :
           mandates'[m].allocated = mandates[m].allocated - Returned(S, ls, m)
  BY DistributeBooks
<1>4. LoanTerms'
  <2>1. DOMAIN loans' \subseteq processed'
    BY <1>1 DEF LoanTerms
  <2>2. ASSUME NEW i \in DOMAIN loans'
        PROVE  /\ Sound(loans'[i])
               /\ \A m \in MandateIds : loans'[i].tranches[m] > 0 => m \in DOMAIN mandates'
    <3>1. /\ Sound(loans[i])
          /\ \A m \in MandateIds : loans[i].tranches[m] > 0 => m \in DOMAIN mandates
      BY <1>1 DEF LoanTerms
    <3> QED
      BY <1>1, <1>3, <3>1 DEF Sound
  <2> QED
    BY <2>1, <2>2 DEF LoanTerms, Sound
<1>5. \A i \in OpenLoans \ S : /\ loans'[i].principal = loans[i].principal
                              /\ loans'[i].tranches = loans[i].tranches
  BY <1>1, LoansTyped
<1>6. PICK T, ks, new : T = OpenLoans \ S /\ ks = loans /\ new = loans'
  OBVIOUS
<1>7. Principal(T, new) = Principal(T, ks) /\ \A m : Returned(T, new, m) = Returned(T, ks, m)
  <2>1. \A i \in T : new[i].principal = ks[i].principal /\ new[i].tranches = ks[i].tranches
    BY <1>5, <1>6
  <2> QED
    BY <2>1, PrincipalSame, ReturnedSame
<1>8. activeDebt' = activeDebt - Principal(S, ls)
  BY DEF Distribute, Principal
<1>9. /\ Principal(S, ls) \in Nat /\ Principal(S, ls) <= activeDebt /\ activeDebt \in Nat
      /\ Principal(OpenLoans \ S, loans) = activeDebt - Principal(S, ls)
  BY PrincipalFits DEF MandatesInStep, Typed, TypeOK
<1>10. AllocatedIsLent'
  <2>1. ASSUME NEW m \in DOMAIN mandates'
        PROVE  mandates'[m].allocated = Returned(OpenLoans', loans', m)
    <3>1. Returned(OpenLoans \ S, loans, m) = mandates[m].allocated - Returned(S, ls, m)
      BY <1>3, ReturnedFits DEF MandatesInStep
    <3> QED
      BY <1>2, <1>3, <1>6, <1>7, <3>1
  <2>2. activeDebt' = Principal(OpenLoans', loans')
    BY <1>2, <1>6, <1>7, <1>8, <1>9
  <2> QED
    BY <2>1, <2>2 DEF AllocatedIsLent, Principal, Returned
<1>11. Lent' = Lent
  <2>1. PICK D, a, b : D = DOMAIN loans /\ a = loans /\ b = loans'
    OBVIOUS
  <2>2. \A i \in D : b[i].principal = a[i].principal
    BY <1>1, <2>1
  <2>3. Principal(D, b) = Principal(D, a)
    BY <2>2, PrincipalSame
  <2>4. Lent = Principal(D, a) /\ Lent' = Principal(D, b)
    BY <1>1, <2>1 DEF Lent, Principal
  <2> QED
    BY <2>3, <2>4
<1> QED
  BY <1>2, <1>3, <1>4, <1>8, <1>9, <1>10, <1>11 DEF MandatesInStep

\* What the loans of S owe, as they stand in ls.
Owed(S, ls) == Total([i \in S |-> Debt(ls[i])], S)

LEMMA OwedFacts ==
  ASSUME Typed, LoanTerms, NEW S, NEW ls, Closing(S, ls), NEW interest,
         \A i \in S : interest[i] = Interest(ls[i])
  PROVE  Owed(S, ls) \in Nat /\ Owed(S, ls) = Principal(S, ls) + Total(interest, S)
<1> DEFINE debt == [i \in S |-> Debt(ls[i])]
           principal == [i \in S |-> ls[i].principal]
<1>1. IsFiniteSet(S) /\ \A i \in S : ls[i] \in Loan
  BY ClosingFacts
<1>2. \A i \in S : /\ principal[i] \in Nat /\ interest[i] \in Nat /\ debt[i] \in Nat
                  /\ debt[i] = principal[i] + interest[i]
  BY <1>1, InterestFacts DEF Loan
<1>3. Owed(S, ls) = Total(debt, S) /\ Principal(S, ls) = Total(principal, S)
  BY DEF Owed, Principal
<1> HIDE DEF debt, principal
<1>4. Amounts(debt, S) /\ Amounts(principal, S) /\ Amounts(interest, S)
  BY <1>1, <1>2 DEF Amounts
<1>5. Total(debt, S) = Total(principal, S) + Total(interest, S) /\ Total(debt, S) \in Nat
  BY <1>2, <1>4, TotalPlus, TotalType
<1> QED
  BY <1>3, <1>5

\* Closing loans moves no tokens: the payer's and the backstop's loss is what is owed.
LEMMA ClosingKeepsMoney ==
  ASSUME IInv, NEW S, NEW ls, Closing(S, ls),
         NEW charge, Amounts(charge, Owners), \A o \in Owners : charge[o] <= usdt0[o],
         Distribute(S, ls, charge), Closed(S),
         NEW id \in DOMAIN Repayments \cup RiskTicks, Unprocessed(id), Process(id),
         backstopUsdt0' \in Nat,
         Total(charge, Owners) + (backstopUsdt0 - backstopUsdt0') = Owed(S, ls)
  PROVE  Usdt0Balanced' /\ HeldFxrp' = HeldFxrp
<1> DEFINE interest == [i \in S |-> Interest(ls[i])]
<1>1. \A i \in S : interest[i] = Interest(ls[i])
  OBVIOUS
<1> HIDE DEF interest
<1>2. Typed /\ LoanTerms /\ MandatesInStep /\ Usdt0Balanced
  BY DEF IInv
<1>3. /\ usdt0' \in [Owners -> Nat]
      /\ protocolReserve' \in Nat
      /\ Amounts(interest, S)
      /\ Total(usdt0', Owners) + Total(usdt0Reserved', Owners) + protocolReserve'
           = Total(usdt0, Owners) + Total(usdt0Reserved, Owners) + protocolReserve
             - Total(charge, Owners) + Total(interest, S)
  BY <1>1, <1>2, DistributeMoney
<1>4. Owed(S, ls) = Principal(S, ls) + Total(interest, S) /\ Principal(S, ls) \in Nat
  BY <1>1, <1>2, OwedFacts, PrincipalFits DEF MandatesInStep
<1>5. processed \subseteq processed'
  BY DEF Process
<1>6. Lent' = Lent /\ activeDebt' \in Nat /\ activeDebt' = activeDebt - Principal(S, ls)
  BY <1>2, <1>5, LoansClose
<1>7. /\ Paid(Deposits, "USDT0", id) = 0 /\ Paid(Withdrawals, "USDT0", id) = 0
      /\ Paid(Deposits, "FXRP", id) = 0 /\ Paid(Withdrawals, "FXRP", id) = 0
      /\ Backed(id) = 0 /\ Drawn(id) = 0
  BY IdsDiffer DEF Paid, Backed, Drawn
<1>8. Lent \in Nat
  BY <1>2, Sums
<1>9. HeldUsdt0' = HeldUsdt0 /\ HeldFxrp' = HeldFxrp /\ HeldUsdt0 \in Int
  BY <1>6, <1>7, <1>8, HeldStep
<1>10. usdt0Reserved' \in [Owners -> Nat]
  BY <1>2, DistributeBooks
<1>11. \A f \in [Owners -> Nat] : Total(f, Owners) \in Nat
  <2>1. \A f \in [Owners -> Nat] : Amounts(f, Owners)
    BY TablesFinite DEF Amounts
  <2> QED
    BY <2>1, TotalType
<1>12. /\ Total(usdt0, Owners) \in Nat /\ Total(usdt0Reserved, Owners) \in Nat
       /\ Total(usdt0', Owners) \in Nat /\ Total(usdt0Reserved', Owners) \in Nat
       /\ Total(charge, Owners) \in Nat /\ Total(interest, S) \in Nat
       /\ protocolReserve \in Nat /\ backstopUsdt0 \in Nat /\ activeDebt \in Nat
  BY <1>2, <1>3, <1>10, <1>11, Sums, TotalType
<1>13. HeldUsdt0 + activeDebt' = Total(usdt0', Owners) + Total(usdt0Reserved', Owners)
                                  + protocolReserve' + backstopUsdt0'
  <2>1. HeldUsdt0 + activeDebt = Total(usdt0, Owners) + Total(usdt0Reserved, Owners)
                                 + protocolReserve + backstopUsdt0
    BY <1>2 DEF Usdt0Balanced
  <2> QED
    BY <1>3, <1>4, <1>6, <1>9, <1>12, <2>1
<1> QED
  BY <1>9, <1>13 DEF Usdt0Balanced

LEMMA RepayStep ==
  ASSUME IInv, UNCHANGED scenario, NEW id \in DOMAIN Repayments, Repay(id)
  PROVE  IInv'
<1> DEFINE o == Repayments[id].owner
           i == loanOf[o]
           l == Accrue(loans[i], clock)
           ls == [loans EXCEPT ![i] = l]
           done == [l EXCEPT !.status = "closed"]
           charge == [x \in Owners |-> IF x = o THEN Debt(l) ELSE 0]
           c == l.collateral
<1>1. /\ Unprocessed(id) /\ Process(id) /\ i # None
      /\ Debt(l) <= usdt0[o]
      /\ Distribute({i}, ls, charge)
      /\ fxrpReserved' = [fxrpReserved EXCEPT ![o] = @ - c]
      /\ fxrp' = [fxrp EXCEPT ![o] = @ + c]
      /\ loans' = [ls EXCEPT ![i].status = "closed"]
      /\ loanOf' = [loanOf EXCEPT ![o] = None]
      /\ nonce' = [nonce EXCEPT ![o] = @ + 1]
      /\ UNCHANGED <<price, backstopUsdt0, backstopFxrp, clock>>
  BY DEF Repay, ConsumeNonce
<1>2. /\ o \in Owners /\ clock \in Times
      /\ loans \in [DOMAIN loans -> Loan]
      /\ usdt0 \in [Owners -> Nat]
      /\ fxrp \in [Owners -> Nat] /\ fxrpReserved \in [Owners -> Nat]
      /\ loanOf \in [Owners -> LoanIds \cup {None}] /\ nonce \in [Owners -> Nat]
      /\ backstopUsdt0 \in Nat
  BY TablesAssumption DEF IInv, Typed, TypeOK
<1>3. /\ i \in OpenLoans /\ i \in DOMAIN loans /\ i \in LoanIds /\ loans[i] \in Loan
      /\ fxrpReserved[o] = loans[i].collateral
  BY <1>1, <1>2, LoansTyped DEF IInv, CollateralBacksLoan
<1>4. /\ l \in Loan /\ l.principal = loans[i].principal /\ l.apr = loans[i].apr
      /\ l.tranches = loans[i].tranches /\ c = loans[i].collateral
  BY <1>2, <1>3, AccrueFacts
<1>5. c \in Nat /\ Debt(l) \in Nat
  BY <1>4, InterestFacts DEF Loan
<1> HIDE DEF l
<1>6. ls[i] = l /\ \A j \in DOMAIN loans : j # i => ls[j] = loans[j]
  BY <1>2, <1>3
<1>7. /\ done \in Loan /\ done.principal = l.principal /\ done.apr = l.apr
      /\ done.tranches = l.tranches /\ done.collateral = l.collateral /\ ~IsOpen(done)
  BY <1>4 DEF Loan, IsOpen
<1>8. /\ DOMAIN loans' = DOMAIN loans /\ loans'[i] = done
      /\ \A j \in DOMAIN loans : j # i => loans'[j] = loans[j]
      /\ loans' = [j \in DOMAIN loans |-> loans'[j]]
  BY <1>1, <1>2, <1>3
<1>9. Closing({i}, ls)
  BY <1>3, <1>4, <1>6 DEF Closing
<1>10. Amounts(charge, Owners) /\ \A x \in Owners : charge[x] <= usdt0[x]
  BY <1>1, <1>2, <1>5, TablesFinite DEF Amounts
<1>11. Total(charge, Owners) = Debt(l)
  <2>1. o \in Owners /\ charge[o] = Debt(l) /\ \A x \in Owners : x # o => charge[x] = 0
    BY <1>2
  <2> HIDE DEF charge, o
  <2>2. charge[o] \in Nat
    BY <1>5, <2>1
  <2> QED
    BY <1>10, <2>1, <2>2, TotalSingle
<1>12. Owed({i}, ls) = Debt(l)
  <2> DEFINE f == [j \in {i} |-> Debt(ls[j])]
  <2>1. f[i] = Debt(l) /\ f[i] \in Nat
    BY <1>5, <1>6
  <2>2. Owed({i}, ls) = Total(f, {i})
    BY DEF Owed
  <2> HIDE DEF f, ls, i
  <2> QED
    BY <2>1, <2>2, TotalOne
<1>13. Closed({i})
  <2>1. loans' \in [DOMAIN loans -> Loan]
    BY <1>2, <1>7, <1>8
  <2>2. \A j \in DOMAIN loans : /\ loans'[j].principal = loans[j].principal
                                /\ loans'[j].apr = loans[j].apr
                                /\ loans'[j].tranches = loans[j].tranches
                                /\ loans'[j].collateral = loans[j].collateral
    BY <1>4, <1>7, <1>8
  <2> QED
    BY <1>7, <1>8, <2>1, <2>2 DEF Closed
<1> HIDE DEF ls, charge, done
<1>14. Typed /\ LoanTerms /\ MandatesInStep /\ CollateralBacksLoan
  BY DEF IInv
<1>15. processed \subseteq processed' /\ id \in DOMAIN Repayments \cup RiskTicks /\ id \in OperationIds
  BY <1>1 DEF Process, OperationIds
<1>16. /\ OpenLoans' = OpenLoans \ {i} /\ LoanTerms' /\ MandatesInStep' /\ activeDebt' \in Nat
  BY <1>1, <1>9, <1>13, <1>14, <1>15, LoansClose
<1>17. Total(charge, Owners) + (backstopUsdt0 - backstopUsdt0') = Owed({i}, ls)
       /\ backstopUsdt0' \in Nat
  BY <1>1, <1>2, <1>5, <1>11, <1>12
<1>18. Usdt0Balanced' /\ HeldFxrp' = HeldFxrp
  BY <1>1, <1>9, <1>10, <1>13, <1>15, <1>17, ClosingKeepsMoney
<1>19. /\ usdt0' \in [Owners -> Nat] /\ protocolReserve' \in Nat
       /\ usdt0Reserved' \in [Owners -> Nat] /\ mandates' \in [DOMAIN mandates -> Mandate]
  <2> DEFINE interest == [j \in {i} |-> Interest(ls[j])]
  <2>1. \A j \in {i} : interest[j] = Interest(ls[j])
    OBVIOUS
  <2> HIDE DEF interest
  <2> QED
    BY <1>1, <1>9, <1>10, <1>14, <2>1, DistributeMoney, DistributeBooks
<1>20. /\ fxrp' \in [Owners -> Nat] /\ fxrp'[o] = fxrp[o] + c
       /\ fxrp[o] \in Nat
       /\ \A x \in Owners : x # o => fxrp'[x] = fxrp[x]
       /\ fxrpReserved' \in [Owners -> Nat] /\ fxrpReserved'[o] = 0 /\ fxrpReserved[o] = c
       /\ \A x \in Owners : x # o => fxrpReserved'[x] = fxrpReserved[x]
       /\ loanOf' \in [Owners -> LoanIds \cup {None}] /\ loanOf'[o] = None
       /\ \A x \in Owners : x # o => loanOf'[x] = loanOf[x]
       /\ nonce' \in [Owners -> Nat]
  BY <1>1, <1>2, <1>3, <1>4, <1>5
<1>21. CollateralBacksLoan'
  <2>1. /\ \A j \in OpenLoans : loanOf[BorrowRequests[j].borrower] = j
        /\ \A x \in Owners : /\ loanOf[x] # None => /\ loanOf[x] \in OpenLoans
                                                    /\ BorrowRequests[loanOf[x]].borrower = x
                             /\ fxrpReserved[x] = IF loanOf[x] = None THEN 0
                                                  ELSE loans[loanOf[x]].collateral
    BY <1>14 DEF CollateralBacksLoan
  <2>2. BorrowRequests[i].borrower = o
    BY <1>1, <1>2, <2>1
  <2>3. ASSUME NEW j \in OpenLoans' PROVE loanOf'[BorrowRequests[j].borrower] = j
    <3>1. j \in OpenLoans /\ j # i /\ j \in LoanIds
      BY <1>16, LoansTyped, <1>14
    <3>2. BorrowRequests[j].borrower \in Owners /\ loanOf[BorrowRequests[j].borrower] = j
      BY <2>1, <3>1, Requests
    <3>3. BorrowRequests[j].borrower # o
      BY <3>1, <3>2
    <3> QED
      BY <1>20, <3>2, <3>3
  <2>4. ASSUME NEW x \in Owners
        PROVE  /\ loanOf'[x] # None => /\ loanOf'[x] \in OpenLoans'
                                       /\ BorrowRequests[loanOf'[x]].borrower = x
               /\ fxrpReserved'[x] = IF loanOf'[x] = None THEN 0
                                     ELSE loans'[loanOf'[x]].collateral
    <3>1. CASE x = o
      BY <1>20, <3>1
    <3>2. CASE x # o
      <4>1. loanOf'[x] = loanOf[x] /\ fxrpReserved'[x] = fxrpReserved[x]
        BY <1>20, <3>2
      <4>2. ASSUME loanOf[x] # None
            PROVE  /\ loanOf[x] \in OpenLoans /\ BorrowRequests[loanOf[x]].borrower = x
                   /\ loanOf[x] # i /\ loans'[loanOf[x]] = loans[loanOf[x]]
        <5>1. loanOf[x] \in OpenLoans /\ BorrowRequests[loanOf[x]].borrower = x
          BY <2>1, <4>2
        <5>2. loanOf[x] # i
          BY <2>2, <3>2, <5>1
        <5> QED
          BY <1>8, <1>14, <5>1, <5>2, LoansTyped
      <4> QED
        BY <1>16, <2>1, <4>1, <4>2
    <3> QED
      BY <3>1, <3>2
  <2> QED
    BY <2>3, <2>4 DEF CollateralBacksLoan
<1>22. FxrpSolvent'
  <2>1. /\ Total(fxrp, Owners) \in Nat
        /\ Total(fxrp', Owners) = Total(fxrp, Owners) - fxrp[o] + fxrp'[o]
        /\ Total(fxrpReserved, Owners) \in Nat
        /\ Total(fxrpReserved', Owners) =
             Total(fxrpReserved, Owners) - fxrpReserved[o] + fxrpReserved'[o]
    BY <1>2, <1>20, AccountChange
  <2>2. Total(fxrp', Owners) + Total(fxrpReserved', Owners) =
          Total(fxrp, Owners) + Total(fxrpReserved, Owners)
    BY <1>5, <1>20, <2>1
  <2> QED
    BY <1>1, <1>18, <2>2 DEF IInv, FxrpSolvent
<1>23. Typed'
  <2>1. processed' \subseteq OperationIds
    BY <1>1, <1>15 DEF IInv, Typed, TypeOK, Process
  <2>2. loans' \in [DOMAIN loans' -> Loan] /\ DOMAIN loans' \subseteq LoanIds
        /\ \A j \in DOMAIN loans' : loans'[j] \in Loan
    BY <1>8, <1>13 DEF IInv, Typed, TypeOK, Closed
  <2>3. mandates' \in [DOMAIN mandates' -> Mandate] /\ DOMAIN mandates' \subseteq MandateIds
        /\ \A m \in DOMAIN mandates' : mandates'[m] \in Mandate
    BY <1>19 DEF IInv, Typed, TypeOK
  <2> QED
    BY <1>1, <1>16, <1>17, <1>19, <1>20, <2>1, <2>2, <2>3 DEF IInv, Typed, TypeOK
<1> QED
  BY <1>16, <1>18, <1>21, <1>22, <1>23 DEF IInv

\* The backstop takes at most a loan's collateral.
LEMMA SeizedFacts ==
  ASSUME NEW l \in Loan, NEW p \in Prices
  PROVE  Seized(l, p) \in Nat /\ Seized(l, p) <= l.collateral
<1>1. Debt(l) \in Nat /\ Scale \in Nat /\ l.collateral \in Nat /\ p \in Nat \ {0} /\ BPS \in Nat
  BY InterestFacts, ConstantsAssumption DEF Loan, BPS
<1>2. p * 9500 \in Nat \ {0}
  BY <1>1
<1>3. Debt(l) * Scale \in Nat
  BY <1>1, Product
<1>4. Debt(l) * Scale * BPS \in Nat
  BY <1>1, <1>3, Product
<1>5. (Debt(l) * Scale * BPS) \div (p * 9500) \in Nat
  BY <1>2, <1>4, Division
<1> QED
  BY <1>1, <1>5 DEF Seized, Min2

BorrowedBy(L, o) == {i \in L : BorrowRequests[i].borrower = o}

HaveBorrowers(L) == \A i \in L : BorrowRequests[i].borrower \in Owners /\ i # None

BorrowerSums(sums, f, L) == \A o \in Owners : sums[o] = Total(f, BorrowedBy(L, o))

\* A sum over loans, borrower by borrower.
LEMMA SumByBorrower ==
  ASSUME CollateralBacksLoan, NEW L \in SUBSET OpenLoans, HaveBorrowers(L),
         NEW f, Amounts(f, L), NEW sums, BorrowerSums(sums, f, L)
  PROVE  /\ Amounts(sums, Owners) /\ Total(sums, Owners) = Total(f, L)
         /\ \A o \in Owners : /\ loanOf[o] \in L => sums[o] = f[loanOf[o]]
                              /\ loanOf[o] \notin L => sums[o] = 0
<1> DEFINE part == [o \in Owners |-> BorrowedBy(L, o)]
<1>1. /\ \A o \in Owners : part[o] \in SUBSET L
      /\ \A i \in L : \E o \in Owners : i \in part[o]
      /\ \A i \in L : \A o1, o2 \in Owners : i \in part[o1] /\ i \in part[o2] => o1 = o2
      /\ \A o \in Owners : sums[o] = Total(f, part[o])
  BY DEF BorrowedBy, HaveBorrowers, BorrowerSums
<1>2. ASSUME NEW o \in Owners
      PROVE  /\ loanOf[o] \in L => part[o] = {loanOf[o]}
             /\ loanOf[o] \notin L => part[o] = {}
  <2>1. \A i \in L : BorrowRequests[i].borrower = o => loanOf[o] = i
    BY DEF CollateralBacksLoan, HaveBorrowers
  <2>2. loanOf[o] \in L => BorrowRequests[loanOf[o]].borrower = o
    BY DEF CollateralBacksLoan, HaveBorrowers
  <2> QED
    BY <2>1, <2>2 DEF BorrowedBy
<1> HIDE DEF part
<1>3. Amounts(sums, Owners) /\ Total(sums, Owners) = Total(f, L)
  BY <1>1, TablesFinite, TotalByOwner
<1>4. ASSUME NEW o \in Owners
      PROVE  /\ loanOf[o] \in L => sums[o] = f[loanOf[o]]
             /\ loanOf[o] \notin L => sums[o] = 0
  <2>1. ASSUME loanOf[o] \in L PROVE sums[o] = f[loanOf[o]]
    <3>1. sums[o] = Total(f, {loanOf[o]}) /\ f[loanOf[o]] \in Nat
      BY <1>1, <1>2, <2>1 DEF Amounts
    <3> QED
      BY <3>1, TotalOne
  <2>2. ASSUME loanOf[o] \notin L PROVE sums[o] = 0
    BY <1>1, <1>2, <2>2, TotalEmpty
  <2> QED
    BY <2>1, <2>2
<1> QED
  BY <1>3, <1>4

LEMMA RiskTickStep ==
  ASSUME IInv, UNCHANGED scenario, NEW id \in RiskTicks, NEW p \in Prices, RiskTick(id, p)
  PROVE  IInv'
<1> DEFINE accrued == [i \in DOMAIN loans |->
                         IF IsOpen(loans[i]) THEN Accrue(loans[i], clock) ELSE loans[i]]
           now == [i \in DOMAIN loans |->
                     IF IsOpen(loans[i])
                     THEN [accrued[i] EXCEPT !.status = Status(accrued[i], p, clock)]
                     ELSE loans[i]]
           none == [o \in Owners |-> 0]
<1>1. /\ Unprocessed(id) /\ Process(id) /\ price' = p
      /\ UNCHANGED <<nonce, clock>>
  BY DEF RiskTick
<1>2. PICK L \in SUBSET OpenLoans :
        /\ Liquidated(L, now)
        /\ Distribute(L, now, none)
        /\ backstopUsdt0' = backstopUsdt0 - Owed(L, now)
        /\ backstopFxrp' = backstopFxrp + Total([i \in L |-> Seized(now[i], p)], L)
        /\ fxrpReserved' =
             [o \in Owners |->
                fxrpReserved[o] - Total([i \in L |-> now[i].collateral], BorrowedBy(L, o))]
        /\ fxrp' =
             [o \in Owners |->
                fxrp[o] + Total([i \in L |-> now[i].collateral - Seized(now[i], p)], BorrowedBy(L, o))]
        /\ loans' = [i \in DOMAIN loans |->
                       IF i \in L THEN [now[i] EXCEPT !.status = "liquidated"] ELSE now[i]]
        /\ loanOf' = [o \in Owners |-> IF loanOf[o] \in L THEN None ELSE loanOf[o]]
  BY DEF RiskTick, Owed, BorrowedBy
<1>3. PICK ls :
        /\ ls = now
        /\ Liquidated(L, ls)
        /\ Distribute(L, ls, none)
        /\ backstopUsdt0' = backstopUsdt0 - Owed(L, ls)
        /\ backstopFxrp' = backstopFxrp + Total([i \in L |-> Seized(ls[i], p)], L)
        /\ fxrpReserved' =
             [o \in Owners |-> fxrpReserved[o] - Total([i \in L |-> ls[i].collateral], BorrowedBy(L, o))]
        /\ fxrp' =
             [o \in Owners |->
                fxrp[o] + Total([i \in L |-> ls[i].collateral - Seized(ls[i], p)], BorrowedBy(L, o))]
        /\ loans' = [i \in DOMAIN loans |->
                       IF i \in L THEN [ls[i] EXCEPT !.status = "liquidated"] ELSE ls[i]]
        /\ loanOf' = [o \in Owners |-> IF loanOf[o] \in L THEN None ELSE loanOf[o]]
  BY <1>2
<1>4. /\ Typed /\ LoanTerms /\ MandatesInStep /\ CollateralBacksLoan
      /\ loans \in [DOMAIN loans -> Loan] /\ DOMAIN loans \subseteq LoanIds
      /\ usdt0 \in [Owners -> Nat] /\ clock \in Times
      /\ fxrp \in [Owners -> Nat] /\ fxrpReserved \in [Owners -> Nat]
      /\ loanOf \in [Owners -> LoanIds \cup {None}]
      /\ backstopUsdt0 \in Nat /\ backstopFxrp \in Nat
  BY DEF IInv, Typed, TypeOK
<1>5. ASSUME NEW i \in DOMAIN loans
      PROVE  /\ ls[i] \in Loan
             /\ ls[i].principal = loans[i].principal /\ ls[i].apr = loans[i].apr
             /\ ls[i].tranches = loans[i].tranches /\ ls[i].collateral = loans[i].collateral
             /\ IsOpen(ls[i]) <=> IsOpen(loans[i])
  <2> DEFINE l == loans[i]
             a == Accrue(l, clock)
             s == Status(a, p, clock)
  <2>1. l \in Loan
    BY <1>4
  <2>2. ls = now
    BY <1>3
  <2>3. CASE IsOpen(l)
    <3>1. /\ a \in Loan /\ a.principal = l.principal /\ a.apr = l.apr
          /\ a.tranches = l.tranches /\ a.collateral = l.collateral
      BY <1>4, <2>1, AccrueFacts
    <3>2. s \in {"healthy", "restricted", "warning", "liquidatable"}
      BY StatusIsOpen
    <3>3. ls[i] = [a EXCEPT !.status = s]
      BY <2>2, <2>3
    <3> HIDE DEF a, s
    <3> QED
      BY <2>3, <3>1, <3>2, <3>3 DEF Loan, IsOpen
  <2>4. CASE ~IsOpen(l)
    <3>1. ls[i] = l
      BY <2>2, <2>4
    <3> QED
      BY <2>1, <3>1
  <2> QED
    BY <2>3, <2>4
<1> HIDE DEF now, accrued
<1>6. L \in SUBSET DOMAIN loans
  BY <1>4, LoansTyped
<1>7. Closing(L, ls)
  BY <1>5, <1>6 DEF Closing
<1>8. IsFiniteSet(L) /\ \A i \in L : ls[i] \in Loan
  BY <1>4, <1>7, ClosingFacts
<1>9. /\ DOMAIN loans' = DOMAIN loans
      /\ \A i \in L : loans'[i] = [ls[i] EXCEPT !.status = "liquidated"]
      /\ \A i \in DOMAIN loans \ L : loans'[i] = ls[i]
  BY <1>3, <1>6
<1>10. ASSUME NEW i \in L
       PROVE  /\ loans'[i] \in Loan /\ ~IsOpen(loans'[i])
              /\ loans'[i].principal = ls[i].principal /\ loans'[i].apr = ls[i].apr
              /\ loans'[i].tranches = ls[i].tranches
              /\ loans'[i].collateral = ls[i].collateral
  <2> DEFINE l == ls[i]
  <2>1. l \in Loan /\ loans'[i] = [l EXCEPT !.status = "liquidated"]
    BY <1>8, <1>9
  <2> HIDE DEF l
  <2>2. /\ [l EXCEPT !.status = "liquidated"] \in Loan
        /\ ~IsOpen([l EXCEPT !.status = "liquidated"])
    BY <2>1 DEF Loan, IsOpen
  <2> QED
    BY <2>1, <2>2 DEF l, Loan
<1>11. Closed(L)
  <2>1. loans' \in [DOMAIN loans -> Loan]
    BY <1>3, <1>5, <1>9, <1>10
  <2>2. ASSUME NEW i \in DOMAIN loans
        PROVE  /\ loans'[i].principal = loans[i].principal
               /\ loans'[i].apr = loans[i].apr
               /\ loans'[i].tranches = loans[i].tranches
               /\ loans'[i].collateral = loans[i].collateral
    BY <1>5, <1>9, <1>10
  <2>3. \A i \in DOMAIN loans \ L : IsOpen(loans'[i]) <=> IsOpen(loans[i])
    BY <1>5, <1>9
  <2> QED
    BY <1>10, <2>1, <2>2, <2>3 DEF Closed
<1>12. processed \subseteq processed' /\ id \in DOMAIN Repayments \cup RiskTicks /\ id \in OperationIds
  BY <1>1 DEF Process, OperationIds
<1>13. Distribute(L, ls, none)
  BY <1>3
<1>14. Amounts(none, Owners) /\ Total(none, Owners) = 0 /\ \A o \in Owners : none[o] <= usdt0[o]
  <2>1. \A o \in Owners : none[o] = 0
    OBVIOUS
  <2> HIDE DEF none
  <2> QED
    BY <1>4, <2>1, TablesFinite, TotalZero DEF Amounts
<1> HIDE DEF none
<1>15. /\ OpenLoans' = OpenLoans \ L /\ LoanTerms' /\ MandatesInStep' /\ activeDebt' \in Nat
  BY <1>4, <1>7, <1>11, <1>12, <1>13, LoansClose
<1>16. Owed(L, ls) \in Nat
  <2> DEFINE interest == [j \in L |-> Interest(ls[j])]
  <2>1. \A j \in L : interest[j] = Interest(ls[j])
    OBVIOUS
  <2> HIDE DEF interest
  <2> QED
    BY <1>4, <1>7, <2>1, OwedFacts
<1>17. /\ backstopUsdt0' \in Nat
       /\ Total(none, Owners) + (backstopUsdt0 - backstopUsdt0') = Owed(L, ls)
  <2>1. Owed(L, ls) <= backstopUsdt0
    BY <1>3 DEF Liquidated, Owed
  <2> QED
    BY <1>3, <1>4, <1>14, <1>16, <2>1
<1>18. Usdt0Balanced' /\ HeldFxrp' = HeldFxrp
  BY <1>1, <1>7, <1>11, <1>12, <1>13, <1>14, <1>17, ClosingKeepsMoney
<1>19. /\ usdt0' \in [Owners -> Nat] /\ protocolReserve' \in Nat
       /\ usdt0Reserved' \in [Owners -> Nat] /\ mandates' \in [DOMAIN mandates -> Mandate]
  <2> DEFINE interest == [j \in L |-> Interest(ls[j])]
  <2>1. \A j \in L : interest[j] = Interest(ls[j])
    OBVIOUS
  <2> HIDE DEF interest
  <2> QED
    BY <1>4, <1>7, <1>13, <1>14, <2>1, DistributeMoney, DistributeBooks

<1> DEFINE coll == [i \in L |-> ls[i].collateral]
           seized == [i \in L |-> Seized(ls[i], p)]
           rest == [i \in L |-> ls[i].collateral - Seized(ls[i], p)]
           taken == [o \in Owners |-> Total(coll, BorrowedBy(L, o))]
           given == [o \in Owners |-> Total(rest, BorrowedBy(L, o))]
<1>20. /\ fxrpReserved' = [o \in Owners |-> fxrpReserved[o] - taken[o]]
       /\ fxrp' = [o \in Owners |-> fxrp[o] + given[o]]
       /\ backstopFxrp' = backstopFxrp + Total(seized, L)
  BY <1>3
<1>21. \A i \in L : /\ coll[i] \in Nat /\ seized[i] \in Nat /\ seized[i] <= coll[i]
                   /\ rest[i] = coll[i] - seized[i]
                   /\ coll[i] = loans[i].collateral
  BY <1>5, <1>6, <1>8, SeizedFacts DEF Loan
<1>22. BorrowerSums(taken, coll, L)
  BY DEF BorrowerSums
<1>23. BorrowerSums(given, rest, L)
  BY DEF BorrowerSums
<1> HIDE DEF coll, seized, rest, taken, given
<1>24. \A i \in L : rest[i] \in Nat
  BY <1>21
<1>25. Amounts(coll, L) /\ Amounts(seized, L) /\ Amounts(rest, L)
  BY <1>8, <1>21, <1>24 DEF Amounts
<1>26. HaveBorrowers(L)
  BY <1>4, <1>6, Requests, ConstantsAssumption DEF HaveBorrowers
<1>27. /\ Amounts(taken, Owners) /\ Total(taken, Owners) = Total(coll, L)
       /\ \A o \in Owners : /\ loanOf[o] \in L => taken[o] = coll[loanOf[o]]
                            /\ loanOf[o] \notin L => taken[o] = 0
  BY <1>4, <1>22, <1>25, <1>26, SumByBorrower
<1>28. /\ Amounts(given, Owners) /\ Total(given, Owners) = Total(rest, L)
       /\ \A o \in Owners : /\ loanOf[o] \in L => given[o] = rest[loanOf[o]]
                            /\ loanOf[o] \notin L => given[o] = 0
  BY <1>4, <1>23, <1>25, <1>26, SumByBorrower
<1>29. /\ Total(rest, L) = Total(coll, L) - Total(seized, L)
       /\ Total(rest, L) \in Nat /\ Total(coll, L) \in Nat /\ Total(seized, L) \in Nat
  BY <1>21, <1>25, TotalMinus, TotalType
<1>30. ASSUME NEW o \in Owners
       PROVE  /\ loanOf[o] # None => /\ loanOf[o] \in OpenLoans
                                     /\ BorrowRequests[loanOf[o]].borrower = o
              /\ fxrpReserved[o] = IF loanOf[o] = None THEN 0 ELSE loans[loanOf[o]].collateral
              /\ loanOf'[o] = IF loanOf[o] \in L THEN None ELSE loanOf[o]
              /\ loanOf[o] \in L => fxrpReserved'[o] = 0
              /\ loanOf[o] \notin L => fxrpReserved'[o] = fxrpReserved[o]
              /\ fxrpReserved'[o] \in Nat
  <2>1. /\ loanOf[o] # None => /\ loanOf[o] \in OpenLoans
                               /\ BorrowRequests[loanOf[o]].borrower = o
        /\ fxrpReserved[o] = IF loanOf[o] = None THEN 0 ELSE loans[loanOf[o]].collateral
    BY <1>4 DEF CollateralBacksLoan
  <2>2. loanOf'[o] = (IF loanOf[o] \in L THEN None ELSE loanOf[o])
    BY <1>3
  <2>3. fxrpReserved'[o] = fxrpReserved[o] - taken[o] /\ fxrpReserved[o] \in Nat
    BY <1>4, <1>20
  <2>4. ASSUME loanOf[o] \in L PROVE fxrpReserved'[o] = 0
    <3>1. loanOf[o] # None
      BY <1>26, <2>4 DEF HaveBorrowers
    <3>2. taken[o] = loans[loanOf[o]].collateral
      BY <1>21, <1>27, <2>4
    <3> QED
      BY <2>1, <2>3, <3>1, <3>2
  <2>5. ASSUME loanOf[o] \notin L PROVE fxrpReserved'[o] = fxrpReserved[o]
    BY <1>27, <2>3, <2>5
  <2> QED
    BY <2>1, <2>2, <2>3, <2>4, <2>5
<1>31. fxrpReserved' \in [Owners -> Nat] /\ loanOf' \in [Owners -> LoanIds \cup {None}]
  BY <1>3, <1>4, <1>20, <1>30
<1>32. CollateralBacksLoan'
  <2>1. ASSUME NEW i \in OpenLoans' PROVE loanOf'[BorrowRequests[i].borrower] = i
    <3>1. i \in OpenLoans /\ i \notin L /\ i \in LoanIds
      BY <1>4, <1>15, LoansTyped
    <3>2. BorrowRequests[i].borrower \in Owners /\ loanOf[BorrowRequests[i].borrower] = i
      BY <1>4, <3>1, Requests DEF CollateralBacksLoan
    <3> QED
      BY <1>30, <3>1, <3>2
  <2>2. ASSUME NEW o \in Owners
        PROVE  /\ loanOf'[o] # None => /\ loanOf'[o] \in OpenLoans'
                                       /\ BorrowRequests[loanOf'[o]].borrower = o
               /\ fxrpReserved'[o] = IF loanOf'[o] = None THEN 0
                                     ELSE loans'[loanOf'[o]].collateral
    <3>1. CASE loanOf[o] \in L
      BY <1>30, <3>1
    <3>2. CASE loanOf[o] \notin L
      <4>1. loanOf'[o] = loanOf[o] /\ fxrpReserved'[o] = fxrpReserved[o]
        BY <1>30, <3>2
      <4>2. ASSUME loanOf[o] # None
            PROVE  /\ loanOf[o] \in OpenLoans /\ BorrowRequests[loanOf[o]].borrower = o
                   /\ loans'[loanOf[o]].collateral = loans[loanOf[o]].collateral
        <5>1. loanOf[o] \in OpenLoans /\ BorrowRequests[loanOf[o]].borrower = o
          BY <1>30, <4>2
        <5>2. loanOf[o] \in DOMAIN loans
          BY <1>4, <5>1, LoansTyped
        <5> QED
          BY <1>11, <5>1, <5>2 DEF Closed
      <4> QED
        BY <1>15, <1>30, <3>2, <4>1, <4>2
    <3> QED
      BY <3>1, <3>2
  <2> QED
    BY <2>1, <2>2 DEF CollateralBacksLoan
<1>33. fxrp' \in [Owners -> Nat] /\ \A o \in Owners : fxrp'[o] = fxrp[o] + given[o]
  <2>1. \A o \in Owners : given[o] \in Nat
    BY <1>28 DEF Amounts
  <2> QED
    BY <1>4, <1>20, <2>1
<1>34. FxrpSolvent'
  <2>1. /\ Amounts(fxrp, Owners) /\ Amounts(fxrp', Owners)
        /\ Amounts(fxrpReserved, Owners) /\ Amounts(fxrpReserved', Owners)
    BY <1>4, <1>31, <1>33, TablesFinite DEF Amounts
  <2>2. Total(fxrp', Owners) = Total(fxrp, Owners) + Total(given, Owners)
    BY <1>28, <1>33, <2>1, TotalPlus
  <2>3. \A o \in Owners : fxrpReserved'[o] = fxrpReserved[o] - taken[o]
    BY <1>20
  <2>4. Total(fxrpReserved', Owners) = Total(fxrpReserved, Owners) - Total(taken, Owners)
    BY <1>27, <2>1, <2>3, TotalMinus
  <2>5. Total(fxrp, Owners) \in Nat /\ Total(fxrpReserved, Owners) \in Nat
    BY <2>1, TotalType
  <2>6. Total(fxrp', Owners) + Total(fxrpReserved', Owners) + backstopFxrp'
          = Total(fxrp, Owners) + Total(fxrpReserved, Owners) + backstopFxrp
    BY <1>4, <1>20, <1>27, <1>28, <1>29, <2>2, <2>4, <2>5
  <2> QED
    BY <1>18, <2>6 DEF IInv, FxrpSolvent
<1>35. Typed'
  <2>1. processed' \subseteq OperationIds
    BY <1>1, <1>12 DEF IInv, Typed, TypeOK, Process
  <2>2. loans' \in [DOMAIN loans' -> Loan] /\ DOMAIN loans' \subseteq LoanIds
        /\ \A j \in DOMAIN loans' : loans'[j] \in Loan
    BY <1>4, <1>9, <1>11 DEF Closed
  <2>3. mandates' \in [DOMAIN mandates' -> Mandate] /\ DOMAIN mandates' \subseteq MandateIds
        /\ \A m \in DOMAIN mandates' : mandates'[m] \in Mandate
    BY <1>19 DEF IInv, Typed, TypeOK
  <2>4. backstopFxrp' \in Nat
    BY <1>4, <1>20, <1>29
  <2> QED
    BY <1>1, <1>15, <1>17, <1>19, <1>31, <1>33, <2>1, <2>2, <2>3, <2>4 DEF IInv, Typed, TypeOK
<1> QED
  BY <1>15, <1>18, <1>32, <1>34, <1>35 DEF IInv

-----------------------------------------------------------------------------
(***************************************************************************)
(* The specification                                                       *)
(***************************************************************************)
LEMMA NextStep ==
  ASSUME IInv, [Next]_vars
  PROVE  IInv'
<1>1. CASE UNCHANGED vars
  BY <1>1, StutterStep
<1>2. CASE Next
  <2>1. UNCHANGED scenario
    BY <1>2 DEF Next
  <2>2. /\ scenario.requests \subseteq OperationIds
        /\ \A m \in scenario.mandates : m \in MandateIds
    BY ConstantsAssumption DEF IInv, Typed, TypeOK
  <2>3. ASSUME NEW id \in scenario.requests, Request(id) PROVE IInv'
    <3>1. CASE id \in DOMAIN Openings /\ OpenAccount(id)
      BY <2>1, <3>1, OpenAccountStep
    <3>2. CASE id \in DOMAIN Deposits /\ Deposit(id)
      BY <2>1, <3>2, DepositStep
    <3>3. CASE id \in DOMAIN BackstopDeposits /\ SeedBackstop(id)
      BY <2>1, <3>3, SeedBackstopStep
    <3>4. CASE id \in DOMAIN Withdrawals /\ Withdraw(id)
      BY <2>1, <3>4, WithdrawFxrp, WithdrawUsdt0
    <3>5. CASE id \in DOMAIN MandateWithdrawals /\ WithdrawFromMandate(id)
      BY <2>1, <3>5, WithdrawFromMandateStep
    <3>6. CASE id \in LoanIds /\ \E p \in Prices : AcceptQuote(id, p)
      BY <2>1, <3>6, AcceptQuoteStep
    <3>7. CASE id \in DOMAIN Repayments /\ Repay(id)
      BY <2>1, <3>7, RepayStep
    <3>8. CASE id \in RiskTicks /\ \E p \in Prices : RiskTick(id, p)
      BY <2>1, <3>8, RiskTickStep
    <3> QED
      BY <2>3, <3>1, <3>2, <3>3, <3>4, <3>5, <3>6, <3>7, <3>8 DEF Request
  <2>4. ASSUME NEW m \in scenario.mandates, SetMandate(m) PROVE IInv'
    BY <2>1, <2>2, <2>4, SetMandateStep
  <2>5. ASSUME NEW m \in DOMAIN mandates, CancelMandate(m) PROVE IInv'
    BY <2>1, <2>5, CancelMandateStep
  <2>6. ASSUME NEW t \in Times, Tick(t) PROVE IInv'
    BY <2>1, <2>6, TickStep
  <2> QED
    BY <1>2, <2>3, <2>4, <2>5, <2>6 DEF Next
<1> QED
  BY <1>1, <1>2

LEMMA IInvHolds == Spec => []IInv
<1>1. IInv /\ [Next]_vars => IInv'
  BY NextStep
<1> QED
  BY InitStep, <1>1, PTL DEF Spec

\* Every amount stays a natural number: none of the subtractions the engine does
\* without a check (Repay, distributeRepayment, liquidateInState) wraps around.
THEOREM LedgerTypes == Spec => []TypeOK
<1>1. IInv => TypeOK
  BY DEF IInv, Typed
<1> QED
  BY <1>1, IInvHolds, PTL

\* No deposit, loan, repayment, liquidation or withdrawal creates or loses money
\* of either token, for any tables of requests and any prices.
THEOREM LedgerIsSolvent == Spec => []Solvent
<1>1. IInv => Solvent
  BY ActiveDebtCovered DEF IInv, Solvent, Usdt0Solvent, Usdt0Balanced
<1> QED
  BY <1>1, IInvHolds, PTL

\* The lenders' reserves, their mandates and the open loans agree (SetMandate,
\* CancelMandate, Withdraw, WithdrawFromMandate, AcceptQuote, distributeRepayment).
THEOREM MandatesStayInStep == Spec => []MandatesInStep
<1>1. IInv => MandatesInStep
  BY DEF IInv
<1> QED
  BY <1>1, IInvHolds, PTL

\* An account has one open loan at most, and has reserved its collateral and no
\* more (AcceptQuote, Repay, liquidateInState).
THEOREM LoansAreCollateralized == Spec => []CollateralBacksLoan
<1>1. IInv => CollateralBacksLoan
  BY DEF IInv
<1> QED
  BY <1>1, IInvHolds, PTL

\* No check of distributeRepayment ever stands in the way of a repayment or a
\* liquidation, however long the loans have run.
THEOREM LoansStayClosable == Spec => []LoansCanClose
<1>1. ASSUME IInv PROVE LoansCanClose
  <2> DEFINE now == [i \in DOMAIN loans |-> Accrue(loans[i], clock)]
  <2>1. Typed /\ LoanTerms /\ MandatesInStep /\ clock \in Times
    BY <1>1 DEF IInv, Typed, TypeOK
  <2>2. \A i \in OpenLoans : i \in DOMAIN loans /\ loans[i] \in Loan
    BY <2>1, LoansTyped
  <2>3. Closing(OpenLoans, now)
    BY <2>1, <2>2, AccrueFacts DEF Closing
  <2>4. Distributable(OpenLoans, now)
    BY <2>1, <2>3, ClosingIsDistributable
  <2> QED
    BY <2>4 DEF LoansCanClose
<1>2. IInv => LoansCanClose
  BY <1>1
<1> QED
  BY <1>2, IInvHolds, PTL

\* The loan that an acceptance opens.
LEMMA AcceptedWithinTerms ==
  ASSUME Typed, NEW q \in LoanIds, NEW p \in Prices, AcceptQuote(q, p), q \notin DOMAIN loans
  PROVE  DOMAIN loans' = DOMAIN loans \cup {q} /\ OpensWithinTerms(q)
<1> DEFINE r == BorrowRequests[q]
           fresh == QuoteOf(q)
           loan == [principal |-> fresh.amount, collateral |-> fresh.collateral,
                    apr |-> fresh.apr, tranches |-> fresh.tranches,
                    maturesAt |-> clock + r.term * Day, lastAccruedAt |-> clock,
                    accrued |-> 0, status |-> "healthy"]
           new == [loan EXCEPT !.status = Status(loan, p, clock)]
           t == Tranches(q)
<1>1. Quotable(q, p) /\ loans' = With(loans, q, new)
  BY AcceptedIsFresh DEF AcceptQuote
<1>2. DOMAIN loans' = DOMAIN loans \cup {q} /\ loans'[q] = new
  BY <1>1 DEF With
<1>3. /\ new.principal = fresh.amount /\ new.collateral = fresh.collateral
      /\ new.apr = fresh.apr /\ new.tranches = fresh.tranches
  OBVIOUS
<1>4. clock < r.expiresAt
  BY <1>1 DEF Quotable
<1>5. /\ fresh.amount <= r.amount /\ fresh.apr <= r.maxAPR
      /\ fresh.collateral * r.amount >= r.collateral * fresh.amount
      /\ fresh.tranches = t
      /\ Total(Weighted(t), MandateIds) <= fresh.apr * fresh.amount
  BY <1>1, QuoteFacts
<1>6. /\ \A m \in MandateIds : t[m] > 0 => m \in Eligible(r) /\ t[m] <= Room(m)
      /\ \A m \in MandateIds, n \in Eligible(r) : t[m] > 0 /\ Before(q, n, m) => t[n] = Room(n)
  BY TranchesFacts, BestRatesFirst
<1>7. Eligible(r) \subseteq DOMAIN mandates /\ DOMAIN mandates \subseteq MandateIds
  BY EligibleFacts DEF Typed, TypeOK
<1> HIDE DEF fresh, new, r, t
<1>8. ASSUME NEW m \in MandateIds, t[m] > 0
      PROVE  /\ m \in DOMAIN mandates /\ mandates[m].active /\ r.term \in MandateTerms[m].terms
             /\ MandateTerms[m].minAPR + 50 <= r.maxAPR
             /\ t[m] <= Room(m)
  BY <1>6, <1>8 DEF Eligible
<1>9. ASSUME NEW m \in MandateIds, NEW n \in DOMAIN mandates, t[m] > 0,
             mandates[n].active, r.term \in MandateTerms[n].terms,
             MandateTerms[n].minAPR + 50 <= r.maxAPR, mandates[n].available > 0,
             MandateTerms[n].minAPR < MandateTerms[m].minAPR
      PROVE  t[n] = Room(n)
  BY <1>6, <1>9 DEF Eligible, Before
<1>10. \A m \in MandateIds : new.tranches[m] = t[m]
  BY <1>3, <1>5
<1>11. [m \in MandateIds |-> new.tranches[m] * MandateTerms[m].minAPR] = Weighted(t)
  BY <1>3, <1>5 DEF Weighted
<1> QED
  BY <1>2, <1>3, <1>4, <1>5, <1>7, <1>8, <1>9, <1>10, <1>11 DEF OpensWithinTerms, r

\* The loans a borrower repays or the backstop takes over, as they close.
LEMMA RepayCloses ==
  ASSUME IInv, NEW id \in DOMAIN Repayments, Repay(id)
  PROVE  LET o == Repayments[id].owner
             i == loanOf[o]
             l == Accrue(loans[i], clock)
             ls == [loans EXCEPT ![i] = l]
         IN Closing({i}, ls)
<1> DEFINE o == Repayments[id].owner
           i == loanOf[o]
           l == Accrue(loans[i], clock)
           ls == [loans EXCEPT ![i] = l]
<1>1. o \in Owners /\ clock \in Times /\ loans \in [DOMAIN loans -> Loan] /\ i # None
  BY TablesAssumption DEF IInv, Typed, TypeOK, Repay
<1>2. i \in OpenLoans /\ i \in DOMAIN loans /\ loans[i] \in Loan
  BY <1>1, LoansTyped DEF IInv, CollateralBacksLoan
<1>3. /\ l \in Loan /\ l.principal = loans[i].principal /\ l.apr = loans[i].apr
      /\ l.tranches = loans[i].tranches
  BY <1>1, <1>2, AccrueFacts
<1> HIDE DEF l
<1>4. ls[i] = l
  BY <1>1, <1>2
<1> HIDE DEF ls
<1>5. Closing({i}, ls)
  BY <1>2, <1>3, <1>4 DEF Closing
<1> QED
  BY <1>5 DEF ls, l

LEMMA RiskTickCloses ==
  ASSUME IInv, NEW id, NEW p \in Prices, RiskTick(id, p)
  PROVE  /\ DOMAIN loans' = DOMAIN loans
         /\ \E L \in SUBSET OpenLoans : \E ls :
              Closing(L, ls) /\ Distribute(L, ls, [o \in Owners |-> 0])
<1> DEFINE accrued == [i \in DOMAIN loans |->
                         IF IsOpen(loans[i]) THEN Accrue(loans[i], clock) ELSE loans[i]]
           now == [i \in DOMAIN loans |->
                     IF IsOpen(loans[i])
                     THEN [accrued[i] EXCEPT !.status = Status(accrued[i], p, clock)]
                     ELSE loans[i]]
<1>1. PICK L \in SUBSET OpenLoans :
        /\ Distribute(L, now, [o \in Owners |-> 0])
        /\ loans' = [i \in DOMAIN loans |->
                       IF i \in L THEN [now[i] EXCEPT !.status = "liquidated"] ELSE now[i]]
  BY DEF RiskTick
<1>2. ASSUME NEW i \in L
      PROVE  /\ now[i] \in Loan
             /\ now[i].principal = loans[i].principal /\ now[i].apr = loans[i].apr
             /\ now[i].tranches = loans[i].tranches
  <2> DEFINE l == loans[i]
             a == Accrue(l, clock)
             s == Status(a, p, clock)
  <2>1. l \in Loan /\ clock \in Times /\ i \in DOMAIN loans /\ IsOpen(l)
    BY LoansTyped DEF IInv, Typed, TypeOK, OpenLoans
  <2>2. a \in Loan /\ a.principal = l.principal /\ a.apr = l.apr /\ a.tranches = l.tranches
    BY <2>1, AccrueFacts
  <2>3. s \in {"healthy", "restricted", "warning", "liquidatable"}
    BY StatusIsOpen
  <2>4. now[i] = [a EXCEPT !.status = s]
    BY <2>1
  <2> HIDE DEF a, s, now
  <2> QED
    BY <2>2, <2>3, <2>4 DEF Loan
<1>3. DOMAIN loans' = DOMAIN loans
  BY <1>1
<1> HIDE DEF now
<1>4. Closing(L, now)
  BY <1>2 DEF Closing
<1> QED
  BY <1>1, <1>3, <1>4

\* Whatever quotes the clients sign, a loan opens within its borrower's and its lenders' terms
\* as they are at that moment, and past no cheaper mandate with room (AcceptQuote, quote).
THEOREM LoansOpenOnCurrentTerms == Spec => LoansOpenWithinTerms
<1>1. ASSUME IInv, Next, NEW q \in DOMAIN loans' \ DOMAIN loans
      PROVE  OpensWithinTerms(q)
  <2>1. Typed
    BY <1>1 DEF IInv
  <2>2. ASSUME NEW id, Request(id) PROVE OpensWithinTerms(q)
    <3>1. ASSUME loans' = loans PROVE FALSE
      BY <1>1, <3>1
    <3>2. CASE id \in LoanIds /\ \E p \in Prices : AcceptQuote(id, p)
      <4>1. id \notin DOMAIN loans
        BY <1>1, <3>2 DEF IInv, LoanTerms, AcceptQuote, Unprocessed
      <4>2. DOMAIN loans' = DOMAIN loans \cup {id} /\ OpensWithinTerms(id)
        BY <2>1, <3>2, <4>1, AcceptedWithinTerms
      <4> QED
        BY <1>1, <4>2
    <3>3. CASE id \in DOMAIN Repayments /\ Repay(id)
      <4>1. DOMAIN loans' = DOMAIN loans
        BY <3>3 DEF Repay
      <4> QED
        BY <1>1, <4>1
    <3>4. CASE id \in RiskTicks /\ \E p \in Prices : RiskTick(id, p)
      <4>0. PICK p \in Prices : RiskTick(id, p)
        BY <3>4
      <4>1. DOMAIN loans' = DOMAIN loans
        BY <1>1, <4>0, RiskTickCloses
      <4> QED
        BY <1>1, <4>1
    <3>5. CASE \/ OpenAccount(id) \/ Deposit(id) \/ SeedBackstop(id) \/ Withdraw(id)
               \/ WithdrawFromMandate(id)
      <4>1. loans' = loans
        BY <3>5 DEF OpenAccount, Deposit, SeedBackstop, Withdraw, WithdrawFromMandate
      <4> QED
        BY <3>1, <4>1
    <3> QED
      BY <2>2, <3>2, <3>3, <3>4, <3>5 DEF Request
  <2>3. ASSUME NEW m, SetMandate(m) \/ CancelMandate(m) \/ Tick(m) PROVE FALSE
    <3>1. loans' = loans
      BY <2>3 DEF SetMandate, CancelMandate, Tick
    <3> QED
      BY <1>1, <3>1
  <2> QED
    BY <1>1, <2>2, <2>3 DEF Next
<1>2. IInv /\ [Next]_vars => [\A q \in DOMAIN loans' \ DOMAIN loans : OpensWithinTerms(q)]_vars
  BY <1>1
<1>3. Spec => [][\A q \in DOMAIN loans' \ DOMAIN loans : OpensWithinTerms(q)]_vars
  BY <1>2, IInvHolds, PTL DEF Spec
<1> QED
  BY <1>3 DEF LoansOpenWithinTerms

LEMMA DistributeKeeps ==
  ASSUME IInv, NEW S, NEW ls, Closing(S, ls), NEW charge, Distribute(S, ls, charge),
         NEW o \in Owners, charge[o] = 0
  PROVE  usdt0'[o] + usdt0Reserved'[o] >= usdt0[o] + usdt0Reserved[o]
<1> DEFINE earned == [x \in Owners |-> Earned(S, ls, x)]
           shares == [i \in S |-> LendersInterest(ls[i])]
           refund == Refund(S, ls, o)
<1>1. Typed /\ LoanTerms /\ MandatesInStep
  BY DEF IInv
<1>2. earned[o] \in Nat
  <2>1. \A i \in S : shares[i] = LendersInterest(ls[i])
    OBVIOUS
  <2>2. \A x \in Owners : earned[x] = Earned(S, ls, x)
    OBVIOUS
  <2> HIDE DEF shares, earned
  <2>3. Amounts(earned, Owners)
    BY <1>1, <2>1, <2>2, EarnedTotal
  <2> QED
    BY <2>3 DEF Amounts
<1>3. Credit(S, ls, o) = refund + earned[o]
  BY DEF Credit, Earned
<1>4. usdt0'[o] = usdt0[o] - charge[o] + Credit(S, ls, o)
  BY DEF Distribute
<1>5. usdt0Reserved'[o] = usdt0Reserved[o] - refund
  BY DEF Distribute
<1>6. refund \in Nat
  BY <1>1, RefundFacts DEF MandatesInStep
<1>7. usdt0[o] \in Nat /\ usdt0Reserved[o] \in Nat
  BY <1>1 DEF Typed, TypeOK
<1> HIDE DEF earned, refund
<1> QED
  BY <1>2, <1>3, <1>4, <1>5, <1>6, <1>7

\* What LendersKeepTheirMoney says of one account.
KeepsMoney(o) ==
  nonce'[o] = nonce[o] => usdt0'[o] + usdt0Reserved'[o] >= usdt0[o] + usdt0Reserved[o]

\* An account's money shrinks only by its own signed requests (Repay, Withdraw,
\* WithdrawFromMandate): no other account, and no liquidation, costs a lender anything.
THEOREM LendersLoseNothing == Spec => LendersKeepTheirMoney
<1>1. ASSUME IInv, Next, NEW o \in Owners PROVE KeepsMoney(o)
  <2>1. /\ usdt0 \in [Owners -> Nat] /\ usdt0Reserved \in [Owners -> Nat]
        /\ nonce \in [Owners -> Nat]
    BY <1>1 DEF IInv, Typed, TypeOK
  <2>2. ASSUME usdt0' = usdt0, usdt0Reserved' = usdt0Reserved PROVE KeepsMoney(o)
    BY <2>1, <2>2 DEF KeepsMoney
  <2>3. ASSUME NEW b, nonce' = [nonce EXCEPT ![b] = @ + 1],
               \A x \in Owners : x # b => /\ usdt0'[x] = usdt0[x]
                                          /\ usdt0Reserved'[x] = usdt0Reserved[x]
        PROVE  KeepsMoney(o)
    BY <2>1, <2>3 DEF KeepsMoney
  <2>4. ASSUME NEW id, Request(id) PROVE KeepsMoney(o)
    <3>1. CASE OpenAccount(id) \/ SeedBackstop(id)
               \/ \E p \in Prices : AcceptQuote(id, p)
      <4>1. usdt0' = usdt0 /\ usdt0Reserved' = usdt0Reserved
        BY <3>1 DEF OpenAccount, SeedBackstop, AcceptQuote, accountVars
      <4> QED
        BY <2>2, <4>1
    <3>2. CASE id \in DOMAIN Deposits /\ Deposit(id)
      <4>1. Deposits[id].owner \in Owners /\ Deposits[id].amount \in Nat
        BY <3>2, TablesAssumption
      <4>2. usdt0'[o] >= usdt0[o] /\ usdt0'[o] \in Nat /\ usdt0Reserved' = usdt0Reserved
        BY <2>1, <3>2, <4>1 DEF Deposit
      <4> QED
        BY <2>1, <4>2 DEF KeepsMoney
    <3>3. CASE id \in DOMAIN Withdrawals /\ Withdraw(id)
      <4> DEFINE b == Withdrawals[id].owner
      <4>1. nonce' = [nonce EXCEPT ![b] = @ + 1]
        BY <3>3 DEF Withdraw, ConsumeNonce
      <4>2. \A x \in Owners : x # b => /\ usdt0'[x] = usdt0[x]
                                       /\ usdt0Reserved'[x] = usdt0Reserved[x]
        BY <2>1, <3>3 DEF Withdraw
      <4> QED
        BY <2>3, <4>1, <4>2
    <3>4. CASE id \in DOMAIN MandateWithdrawals /\ WithdrawFromMandate(id)
      <4> DEFINE b == MandateTerms[MandateWithdrawals[id].mandate].lender
      <4>1. nonce' = [nonce EXCEPT ![b] = @ + 1]
        BY <3>4 DEF WithdrawFromMandate, ConsumeNonce
      <4>2. \A x \in Owners : x # b => /\ usdt0'[x] = usdt0[x]
                                       /\ usdt0Reserved'[x] = usdt0Reserved[x]
        BY <2>1, <3>4 DEF WithdrawFromMandate
      <4> QED
        BY <2>3, <4>1, <4>2
    <3>5. CASE id \in DOMAIN Repayments /\ Repay(id)
      <4> DEFINE b == Repayments[id].owner
                 i == loanOf[b]
                 l == Accrue(loans[i], clock)
                 ls == [loans EXCEPT ![i] = l]
                 charge == [x \in Owners |-> IF x = b THEN Debt(l) ELSE 0]
      <4>1. nonce' = [nonce EXCEPT ![b] = @ + 1] /\ Distribute({i}, ls, charge)
        BY <3>5 DEF Repay, ConsumeNonce
      <4>2. Closing({i}, ls)
        BY <1>1, <3>5, RepayCloses
      <4>3. CASE o = b
        BY <2>1, <4>1, <4>3 DEF KeepsMoney
      <4>4. CASE o # b
        <5>1. charge[o] = 0
          BY <4>4
        <5> HIDE DEF charge, ls, i
        <5>2. usdt0'[o] + usdt0Reserved'[o] >= usdt0[o] + usdt0Reserved[o]
          BY <1>1, <4>1, <4>2, <5>1, DistributeKeeps
        <5> QED
          BY <5>2 DEF KeepsMoney
      <4> QED
        BY <4>3, <4>4
    <3>6. CASE \E p \in Prices : RiskTick(id, p)
      <4> DEFINE charge == [x \in Owners |-> 0]
      <4>0. PICK p \in Prices : RiskTick(id, p)
        BY <3>6
      <4>1. PICK L, ls : Closing(L, ls) /\ Distribute(L, ls, charge)
        BY <1>1, <4>0, RiskTickCloses
      <4>2. charge[o] = 0
        OBVIOUS
      <4> HIDE DEF charge
      <4>3. usdt0'[o] + usdt0Reserved'[o] >= usdt0[o] + usdt0Reserved[o]
        BY <1>1, <4>1, <4>2, DistributeKeeps
      <4> QED
        BY <4>3 DEF KeepsMoney
    <3> QED
      BY <2>4, <3>1, <3>2, <3>3, <3>4, <3>5, <3>6 DEF Request
  <2>5. ASSUME NEW m, SetMandate(m) \/ CancelMandate(m) PROVE KeepsMoney(o)
    <3> DEFINE b == MandateTerms[m].lender
    <3>1. nonce' = [nonce EXCEPT ![b] = @ + 1]
      BY <2>5 DEF SetMandate, CancelMandate, ConsumeNonce
    <3>2. \A x \in Owners : x # b => /\ usdt0'[x] = usdt0[x]
                                     /\ usdt0Reserved'[x] = usdt0Reserved[x]
      BY <2>1, <2>5 DEF SetMandate, CancelMandate
    <3> QED
      BY <2>3, <3>1, <3>2
  <2>6. ASSUME NEW t, Tick(t) PROVE KeepsMoney(o)
    BY <2>2, <2>6 DEF Tick, accountVars
  <2> QED
    BY <1>1, <2>4, <2>5, <2>6 DEF Next
<1>2. IInv /\ [Next]_vars => [\A o \in Owners : KeepsMoney(o)]_vars
  BY <1>1
<1>3. Spec => [][\A o \in Owners : KeepsMoney(o)]_vars
  BY <1>2, IInvHolds, PTL DEF Spec
<1> QED
  BY <1>3 DEF LendersKeepTheirMoney, KeepsMoney
=============================================================================
