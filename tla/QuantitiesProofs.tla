-------------------------- MODULE QuantitiesProofs --------------------------
(***************************************************************************)
(* Facts about sums of quantities: what the SUM(quantity) ... GROUP BY of   *)
(* the sweeper and the row-by-row updates of the other transactions add up  *)
(* to.                                                                     *)
(***************************************************************************)
EXTENDS Quantities, FiniteSetTheorems, TLAPS

\* The rows are finitely many, and so are their pieces: every sum is a number.
LEMMA TotalType ==
  ASSUME NEW S, IsFiniteSet(S), NEW qty, NEW p
  PROVE  /\ IsFiniteSet(Pieces(S, qty, p))
         /\ Total(S, qty, p) \in Nat
<1>1. IsFiniteSet(1..MaxQty)
  BY MaxQtyAssumption, FS_Interval
<1>2. IsFiniteSet(S \X (1..MaxQty))
  BY <1>1, FS_Product
<1>3. Pieces(S, qty, p) \in SUBSET (S \X (1..MaxQty))
  BY DEF Pieces
<1>4. IsFiniteSet(Pieces(S, qty, p))
  BY <1>2, <1>3, FS_Subset
<1>5. QED
  BY <1>4, FS_CardinalityType DEF Total

\* No rows, no pieces.
LEMMA TotalEmpty ==
  ASSUME NEW qty, NEW p
  PROVE  Total({}, qty, p) = 0
<1>1. Pieces({}, qty, p) = {}
  BY DEF Pieces
<1>2. QED
  BY <1>1, FS_EmptySet DEF Total

\* The sum over one row is what the row says.
LEMMA TotalOne ==
  ASSUME NEW x, NEW qty, NEW p, qty[x][p] \in 0..MaxQty
  PROVE  Total({x}, qty, p) = qty[x][p]
<1> DEFINE n == qty[x][p]
<1>1. n \in Nat /\ n <= MaxQty
  BY MaxQtyAssumption
<1> HIDE DEF n
<1>2. Pieces({x}, qty, p) = {x} \X (1..n)
  BY <1>1, MaxQtyAssumption DEF Pieces, n
<1>3. IsFiniteSet(1..n) /\ Cardinality(1..n) = n
  BY <1>1, FS_Interval
<1>4. IsFiniteSet({x}) /\ Cardinality({x}) = 1
  BY FS_Singleton
<1>5. Cardinality({x} \X (1..n)) = Cardinality({x}) * Cardinality(1..n)
  BY <1>3, <1>4, FS_Product
<1>6. 1 * n = n
  BY <1>1
<1>7. QED
  BY <1>2, <1>3, <1>4, <1>5, <1>6 DEF Total, n

\* The sum over two separate sets of rows is the sum of their sums.
LEMMA TotalUnion ==
  ASSUME NEW S, IsFiniteSet(S), NEW T, IsFiniteSet(T), S \cap T = {},
         NEW qty, NEW p
  PROVE  Total(S \cup T, qty, p) = Total(S, qty, p) + Total(T, qty, p)
<1> DEFINE A == Pieces(S, qty, p)
           B == Pieces(T, qty, p)
<1>1. IsFiniteSet(A) /\ IsFiniteSet(B)
  BY TotalType
<1>2. Pieces(S \cup T, qty, p) = A \cup B
  BY DEF Pieces
<1>3. A \cap B = {}
  BY DEF Pieces
<1>4. Cardinality(A \cap B) = 0
  BY <1>3, FS_EmptySet
<1>5. Cardinality(A) \in Nat /\ Cardinality(B) \in Nat
  BY <1>1, FS_CardinalityType
<1>6. Cardinality(A \cup B) = Cardinality(A) + Cardinality(B) - Cardinality(A \cap B)
  BY <1>1, FS_Union
<1> HIDE DEF A, B
<1>7. Cardinality(A \cup B) = Cardinality(A) + Cardinality(B)
  BY <1>4, <1>5, <1>6
<1>8. QED
  BY <1>2, <1>7 DEF Total, A, B

\* A sum depends on nothing but the rows it is over.
LEMMA TotalSame ==
  ASSUME NEW S, NEW qty1, NEW qty2, NEW p,
         \A x \in S : qty1[x][p] = qty2[x][p]
  PROVE  Total(S, qty1, p) = Total(S, qty2, p)
<1>1. Pieces(S, qty1, p) = Pieces(S, qty2, p)
  BY DEF Pieces
<1>2. QED
  BY <1>1 DEF Total

\* A new row adds what it says.
LEMMA TotalAdd ==
  ASSUME NEW S, IsFiniteSet(S), NEW T, NEW x \in T, x \notin S, T = S \cup {x},
         NEW qty, NEW p, qty[x][p] \in 0..MaxQty
  PROVE  Total(T, qty, p) = Total(S, qty, p) + qty[x][p]
<1>1. IsFiniteSet({x}) /\ S \cap {x} = {}
  BY FS_Singleton
<1>2. Total(T, qty, p) = Total(S, qty, p) + Total({x}, qty, p)
  BY <1>1, TotalUnion
<1>3. Total({x}, qty, p) = qty[x][p]
  BY TotalOne
<1>4. QED
  BY <1>2, <1>3

\* Rows that leave take their sum with them.
LEMMA TotalDiff ==
  ASSUME NEW S, IsFiniteSet(S), NEW T, T \subseteq S, NEW qty, NEW p
  PROVE  Total(S \ T, qty, p) = Total(S, qty, p) - Total(T, qty, p)
<1>1. IsFiniteSet(T) /\ IsFiniteSet(S \ T)
  BY FS_Subset
<1>2. (S \ T) \cap T = {} /\ S = (S \ T) \cup T
  OBVIOUS
<1>3. Total(S, qty, p) = Total(S \ T, qty, p) + Total(T, qty, p)
  BY <1>1, <1>2, TotalUnion
<1>4. Total(S \ T, qty, p) \in Nat /\ Total(T, qty, p) \in Nat
  BY <1>1, TotalType
<1>5. QED
  BY <1>3, <1>4

\* One row that leaves takes what it says.
LEMMA TotalRemove ==
  ASSUME NEW S, IsFiniteSet(S), NEW x \in S, NEW T, T = S \ {x},
         NEW qty, NEW p, qty[x][p] \in 0..MaxQty
  PROVE  Total(T, qty, p) = Total(S, qty, p) - qty[x][p]
<1>1. {x} \subseteq S
  OBVIOUS
<1>2. Total(T, qty, p) = Total(S, qty, p) - Total({x}, qty, p)
  BY <1>1, TotalDiff
<1>3. Total({x}, qty, p) = qty[x][p]
  BY TotalOne
<1>4. QED
  BY <1>2, <1>3
=============================================================================
