------------------------ MODULE MegaPrologue_proofs -------------------------
(***************************************************************************)
(* The tables that the prologue of the Mega layers derives from the matrix *)
(* of counts fit together for any number of ranks, experts, tokens and any *)
(* size of a tile.  Every table is a sum over a set of ranks or experts.   *)
(* A sum of natural numbers is the size of a set, that of the pairs of an  *)
(* index and a number below its summand, so that what is true of sums      *)
(* follows from what is true of finite sets.                               *)
(*                                                                         *)
(* The tables of a handle agree because of the barriers.  The calls a      *)
(* rank has made say where in its program it is, so that whoever has left  *)
(* a barrier of a prologue knows that everybody has reached it.  What the  *)
(* ranks have written by then, counts and origin slots, is therefore known *)
(* and stays until the next prologue; see PrologueInv.                     *)
(***************************************************************************)
EXTENDS MegaMoE, FiniteSetTheorems, WellFoundedInduction, TLAPS

Sum(F, S) == SumFunctionOnSet([x \in S |-> F[x]], S)

Stack(F, S) == {p \in S \X Nat : p[2] < F[p[1]]}

-----------------------------------------------------------------------------
\* A set of numbers that is not empty has a least one.
LEMMA LeastOf ==
  ASSUME NEW S \in SUBSET Nat, S # {}
  PROVE  \E x \in S : \A y \in S : x <= y
<1>. DEFINE R == OpToRel(<, Nat)
<1>1. IsWellFoundedOn(R, Nat)
  BY NatLessThanWellFounded
<1>2. \A x, y \in Nat : <<y, x>> \in R <=> y < x
  BY DEF OpToRel
<1>. HIDE DEF R
<1>3. PICK x \in S : \A y \in S : ~ (<<y, x>> \in R)
  BY <1>1, WFMin
<1>4. \A y \in S : y \in Nat /\ x \in Nat /\ ~ (y < x)
  BY <1>2, <1>3
<1>. QED
  BY <1>4

\* Among subsets of a finite set that are not as they should be one is smallest.
LEMMA SmallestOf ==
  ASSUME NEW S, IsFiniteSet(S), NEW Bad \in SUBSET (SUBSET S), Bad # {}
  PROVE  \E T \in Bad : \A x \in T : T \ {x} \notin Bad
<1>. DEFINE Size == {n \in Nat : \E T \in Bad : Cardinality(T) = n}
<1>1. \A T \in Bad : IsFiniteSet(T) /\ Cardinality(T) \in Nat
  BY FS_Subset, FS_CardinalityType
<1>2. Size # {} /\ Size \in SUBSET Nat
  BY <1>1
<1>3. PICK n \in Size : \A m \in Size : n <= m
  <2>. HIDE DEF Size
  <2>. QED
    BY <1>2, LeastOf
<1>4. PICK T \in Bad : Cardinality(T) = n
  BY <1>3
<1>5. ASSUME NEW x \in T, T \ {x} \in Bad PROVE FALSE
  <2>1. Cardinality(T \ {x}) = n - 1 /\ n \in Nat
    BY <1>1, <1>3, <1>4, FS_RemoveElement
  <2>2. Cardinality(T \ {x}) \in Size
    BY <1>1, <1>5
  <2>. HIDE DEF Size
  <2>. QED
    BY <1>3, <2>1, <2>2
<1>. QED
  BY <1>5

\* Sets that grow from the empty one element by element include the whole.
LEMMA GrowsToAll ==
  ASSUME NEW S, IsFiniteSet(S), NEW Good, {} \in Good,
         \A T \in SUBSET S : \A x \in S \ T : T \in Good => T \cup {x} \in Good
  PROVE  \A T \in SUBSET S : T \in Good
<1>. DEFINE Bad == {T \in SUBSET S : T \notin Good}
<1>. SUFFICES ASSUME Bad # {} PROVE FALSE
  OBVIOUS
<1>1. PICK T \in Bad : \A x \in T : T \ {x} \notin Bad
  BY SmallestOf
<1>2. PICK x \in T : TRUE
  BY <1>1
<1>3. T \ {x} \in Good /\ T \ {x} \in SUBSET S /\ x \in S \ (T \ {x})
  BY <1>1, <1>2
<1>4. (T \ {x}) \cup {x} = T
  BY <1>2
<1>5. (T \ {x}) \cup {x} \in Good
  BY <1>3
<1>. QED
  BY <1>1, <1>4, <1>5

-----------------------------------------------------------------------------
(* Sums.                                                                   *)

LEMMA PileSize ==
  ASSUME NEW x, NEW n \in Nat
  PROVE  /\ IsFiniteSet({x} \X (0 .. n - 1))
         /\ Cardinality({x} \X (0 .. n - 1)) = n
<1>1. IsFiniteSet(0 .. n - 1) /\ Cardinality(0 .. n - 1) = n
  BY FS_Interval
<1>2. IsFiniteSet({x}) /\ Cardinality({x}) = 1
  BY FS_Singleton
<1>. QED
  BY <1>1, <1>2, FS_Product

LEMMA StackSplit ==
  ASSUME NEW F, NEW S, NEW x \in S, F[x] \in Nat, IsFiniteSet(Stack(F, S \ {x}))
  PROVE  /\ IsFiniteSet(Stack(F, S))
         /\ Cardinality(Stack(F, S)) = F[x] + Cardinality(Stack(F, S \ {x}))
         /\ Cardinality(Stack(F, S \ {x})) \in Nat
<1>. DEFINE A == Stack(F, S \ {x})
            B == {x} \X (0 .. F[x] - 1)
<1>1. IsFiniteSet(A) /\ IsFiniteSet(B) /\ Cardinality(B) = F[x] /\ Cardinality(A) \in Nat
  BY PileSize, FS_CardinalityType
<1>2. Stack(F, S) = A \cup B /\ A \cap B = {}
  BY DEF Stack
<1>. HIDE DEF A, B
<1>3. IsFiniteSet(A \cup B)
      /\ Cardinality(A \cup B) = Cardinality(A) + Cardinality(B) - Cardinality(A \cap B)
  BY <1>1, FS_Union
<1>4. Cardinality(A \cap B) = 0
  BY <1>2, FS_EmptySet
<1>. QED
  BY <1>1, <1>2, <1>3, <1>4 DEF A

LEMMA StackFinite ==
  ASSUME NEW F, NEW S, IsFiniteSet(S), \A x \in S : F[x] \in Nat
  PROVE  \A T \in SUBSET S : IsFiniteSet(Stack(F, T)) /\ Cardinality(Stack(F, T)) \in Nat
<1>. DEFINE Good == {T \in SUBSET S : IsFiniteSet(Stack(F, T))}
<1>1. {} \in Good
  <2>1. Stack(F, {}) = {}
    BY DEF Stack
  <2>. QED
    BY <2>1, FS_EmptySet
<1>2. ASSUME NEW T \in SUBSET S, NEW x \in S \ T, T \in Good PROVE T \cup {x} \in Good
  <2>1. (T \cup {x}) \ {x} = T
    OBVIOUS
  <2>. QED
    BY <1>2, <2>1, StackSplit
<1>. HIDE DEF Good
<1>3. \A T \in SUBSET S : T \in Good
  BY <1>1, <1>2, GrowsToAll
<1>. QED
  BY <1>3, FS_CardinalityType DEF Good

\* What the fold of the library computes, whatever order CHOOSE takes.
LEMMA SumIsStack ==
  ASSUME NEW F, NEW S, IsFiniteSet(S), \A x \in S : F[x] \in Nat
  PROVE  Sum(F, S) = Cardinality(Stack(F, S)) /\ Sum(F, S) \in Nat
<1>. DEFINE fun == [x \in S |-> F[x]]
            Step(h, s) == IF s = {} THEN 0
                          ELSE fun[CHOOSE x \in s : TRUE] + h[s \ {CHOOSE x \in s : TRUE}]
            iter == CHOOSE h : h = [s \in SUBSET S |-> Step(h, s)]
            size == [s \in SUBSET S |-> Cardinality(Stack(F, s))]
<1>0. ASSUME NEW s \in SUBSET S, NEW x \in s
      PROVE  Cardinality(Stack(F, s)) = F[x] + Cardinality(Stack(F, s \ {x}))
  <2>1. IsFiniteSet(Stack(F, s \ {x})) /\ F[x] \in Nat
    BY StackFinite
  <2>. QED
    BY <2>1, StackSplit
<1>1. Sum(F, S) = iter[S]
  BY DEF Sum, SumFunctionOnSet, FoldFunctionOnSet, MapThenFoldSet
<1>2. \A s \in SUBSET S : s # {} =>
        LET x == CHOOSE y \in s : TRUE
        IN  /\ x \in s /\ s \ {x} \in SUBSET S /\ fun[x] = F[x]
            /\ Cardinality(Stack(F, s)) = F[x] + Cardinality(Stack(F, s \ {x}))
  <2>. SUFFICES ASSUME NEW s \in SUBSET S, s # {}, NEW x, x = CHOOSE y \in s : TRUE
                PROVE  /\ x \in s /\ s \ {x} \in SUBSET S /\ fun[x] = F[x]
                       /\ Cardinality(Stack(F, s)) = F[x] + Cardinality(Stack(F, s \ {x}))
    OBVIOUS
  <2>1. x \in s /\ s \ {x} \in SUBSET S /\ fun[x] = F[x] /\ F[x] \in Nat
    OBVIOUS
  <2>. QED
    BY <1>0, <2>1
<1>3. Cardinality(Stack(F, {})) = 0
  <2>1. Stack(F, {}) = {}
    BY DEF Stack
  <2>. QED
    BY <2>1, FS_EmptySet
<1>4. \A s \in SUBSET S : size[s] = Step(size, s)
  <2>. SUFFICES ASSUME NEW s \in SUBSET S PROVE size[s] = Step(size, s)
    OBVIOUS
  <2>1. CASE s = {}
    BY <1>3, <2>1
  <2>2. CASE s # {}
    BY <1>2, <2>2
  <2>. QED
    BY <2>1, <2>2
<1>5. size = [s \in SUBSET S |-> Step(size, s)]
  BY <1>4
<1>6. iter = [s \in SUBSET S |-> Step(iter, s)]
  BY <1>5
<1>7. \A s \in SUBSET S : iter[s] = Step(iter, s)
  <2>. HIDE DEF iter, Step
  <2>. QED
    BY <1>6
<1>. HIDE DEF iter
<1>. DEFINE Bad == {s \in SUBSET S : iter[s] # size[s]}
<1>8. ASSUME Bad # {} PROVE FALSE
  <2>1. PICK s \in Bad : \A x \in s : s \ {x} \notin Bad
    BY <1>8, SmallestOf
  <2>2. iter[s] # size[s] /\ s \in SUBSET S
    BY <2>1
  <2>3. s # {}
    BY <1>3, <1>7, <2>2
  <2>4. PICK x : x = CHOOSE y \in s : TRUE
    OBVIOUS
  <2>5. x \in s /\ s \ {x} \in SUBSET S /\ iter[s \ {x}] = size[s \ {x}]
    BY <1>2, <2>1, <2>2, <2>3, <2>4
  <2>6. size[s] = F[x] + size[s \ {x}] /\ iter[s] = F[x] + iter[s \ {x}]
    BY <1>2, <1>7, <2>2, <2>3, <2>4
  <2>. QED
    BY <2>2, <2>5, <2>6
<1>9. iter[S] = size[S]
  BY <1>8
<1>. QED
  BY <1>1, <1>9, StackFinite

\* The laws of sums that the tables need.
LEMMA SumEmpty ==
  ASSUME NEW F
  PROVE  Sum(F, {}) = 0
<1>1. Stack(F, {}) = {}
  BY DEF Stack
<1>2. Sum(F, {}) = Cardinality(Stack(F, {}))
  BY SumIsStack, FS_EmptySet
<1>. QED
  BY <1>1, <1>2, FS_EmptySet

LEMMA SumSplit ==
  ASSUME NEW F, NEW A, NEW B, IsFiniteSet(A \cup B), \A x \in A \cup B : F[x] \in Nat,
         A \cap B = {}
  PROVE  Sum(F, A \cup B) = Sum(F, A) + Sum(F, B)
<1>. DEFINE S == A \cup B
<1>1. IsFiniteSet(A) /\ IsFiniteSet(B)
  BY FS_Subset
<1>2. /\ Sum(F, S) = Cardinality(Stack(F, S))
      /\ Sum(F, A) = Cardinality(Stack(F, A))
      /\ Sum(F, B) = Cardinality(Stack(F, B))
  BY <1>1, SumIsStack
<1>3. /\ IsFiniteSet(Stack(F, A)) /\ IsFiniteSet(Stack(F, B))
      /\ Cardinality(Stack(F, A)) \in Nat /\ Cardinality(Stack(F, B)) \in Nat
  <2>1. \A x \in A : F[x] \in Nat
    OBVIOUS
  <2>2. \A x \in B : F[x] \in Nat
    OBVIOUS
  <2>. QED
    BY <1>1, <2>1, <2>2, StackFinite
<1>4. Stack(F, S) = Stack(F, A) \cup Stack(F, B) /\ Stack(F, A) \cap Stack(F, B) = {}
  BY DEF Stack
<1>5. Cardinality(Stack(F, A) \cup Stack(F, B))
        = Cardinality(Stack(F, A)) + Cardinality(Stack(F, B))
            - Cardinality(Stack(F, A) \cap Stack(F, B))
  BY <1>3, FS_Union
<1>6. Cardinality(Stack(F, A) \cap Stack(F, B)) = 0
  BY <1>4, FS_EmptySet
<1>7. Cardinality(Stack(F, A) \cup Stack(F, B)) = Cardinality(Stack(F, A)) + Cardinality(Stack(F, B))
  BY <1>3, <1>5, <1>6
<1>. QED
  BY <1>2, <1>4, <1>7

LEMMA SumOne ==
  ASSUME NEW F, NEW x, F[x] \in Nat
  PROVE  Sum(F, {x}) = F[x]
<1>1. Stack(F, {x}) = {x} \X (0 .. F[x] - 1)
  BY DEF Stack
<1>2. Sum(F, {x}) = Cardinality(Stack(F, {x}))
  BY SumIsStack, FS_Singleton
<1>. QED
  BY <1>1, <1>2, PileSize

LEMMA SumAdd ==
  ASSUME NEW F, NEW S, IsFiniteSet(S), NEW x, x \notin S, \A y \in S \cup {x} : F[y] \in Nat
  PROVE  Sum(F, S \cup {x}) = Sum(F, S) + F[x]
<1>1. IsFiniteSet(S \cup {x})
  BY FS_AddElement
<1>2. Sum(F, S \cup {x}) = Sum(F, S) + Sum(F, {x})
  <2>1. S \cap {x} = {}
    OBVIOUS
  <2>. QED
    BY <1>1, <2>1, SumSplit
<1>. QED
  BY <1>2, SumOne

LEMMA SumMore ==
  ASSUME NEW F, NEW S, IsFiniteSet(S), \A x \in S : F[x] \in Nat, NEW T \in SUBSET S
  PROVE  Sum(F, T) <= Sum(F, S) /\ Sum(F, T) \in Nat /\ Sum(F, S) \in Nat
<1>1. IsFiniteSet(T) /\ IsFiniteSet(S \ T)
  BY FS_Subset
<1>2. T \cup (S \ T) = S /\ T \cap (S \ T) = {}
  OBVIOUS
<1>3. Sum(F, S) = Sum(F, T) + Sum(F, S \ T)
  BY <1>2, SumSplit
<1>4. Sum(F, T) \in Nat /\ Sum(F, S \ T) \in Nat
  BY <1>1, SumIsStack
<1>. QED
  BY <1>3, <1>4

LEMMA SumSame ==
  ASSUME NEW F, NEW G, NEW S, \A x \in S : F[x] = G[x]
  PROVE  Sum(F, S) = Sum(G, S)
<1>1. [x \in S |-> F[x]] = [x \in S |-> G[x]]
  OBVIOUS
<1>. QED
  BY <1>1 DEF Sum

-----------------------------------------------------------------------------
(* Numbers.                                                                *)

LEMMA Numbers ==
  /\ NumRanks \in Nat /\ IsFiniteSet(Ranks) /\ Ranks = 0 .. NumRanks - 1
  /\ ExpertsPerRank \in Nat /\ ExpertsPerRank > 0
  /\ BlockM \in Nat /\ BlockM > 0
  /\ NBlocks \in Nat /\ NBlocks > 0
  /\ NumTokens \in Nat /\ NumTokens > 0
  /\ TopK \in Nat /\ TopK > 0
BY XgmiAssumption, MegaAssumption, FS_CardinalityType DEF NumRanks

LEMMA Division ==
  ASSUME NEW n \in Nat, NEW d \in Nat, d > 0
  PROVE  /\ n \div d \in Nat /\ n % d \in 0 .. d - 1
         /\ n = d * (n \div d) + (n % d)
         /\ d * (n \div d) <= n /\ n < d * (n \div d) + d
OBVIOUS

LEMMA Monotone ==
  ASSUME NEW d \in Nat, NEW a \in Int, NEW b \in Int, a <= b
  PROVE  d * a <= d * b
OBVIOUS

LEMMA QuotientIs ==
  ASSUME NEW n \in Nat, NEW d \in Nat, d > 0, NEW a \in Int, d * a <= n, n < d * a + d
  PROVE  n \div d = a
<1>. DEFINE b == n \div d
<1>1. b \in Nat /\ d * b <= n /\ n < d * b + d
  BY Division
<1>. HIDE DEF b
<1>2. CASE a < b
  <2>1. d * (a + 1) <= d * b /\ d * (a + 1) = d * a + d
    BY <1>1, <1>2, Monotone
  <2>. QED
    BY <1>1, <2>1
<1>3. CASE b < a
  <2>1. d * (b + 1) <= d * a /\ d * (b + 1) = d * b + d
    BY <1>1, <1>3, Monotone
  <2>. QED
    BY <1>1, <2>1
<1>4. CASE a = b
  BY <1>4 DEF b
<1>. QED
  BY <1>1, <1>2, <1>3, <1>4

LEMMA PaddedIs ==
  ASSUME NEW n \in Nat
  PROVE  /\ Padded(n) \in Nat /\ n <= Padded(n) /\ Padded(n) <= n + BlockM - 1
         /\ \E k \in Nat : Padded(n) = BlockM * k
<1>. DEFINE k == (n + BlockM - 1) \div BlockM
<1>1. n + BlockM - 1 \in Nat
  BY Numbers
<1>2. k \in Nat /\ BlockM * k <= n + BlockM - 1 /\ n + BlockM - 1 < BlockM * k + BlockM
  BY <1>1, Numbers, Division
<1>3. Padded(n) = k * BlockM
  BY DEF Padded
<1>. HIDE DEF k
<1>4. k * BlockM = BlockM * k /\ BlockM * k \in Nat
  BY <1>2, Numbers
<1>. QED
  BY <1>2, <1>3, <1>4, Numbers

LEMMA OwnerIs ==
  ASSUME NEW e \in Experts
  PROVE  /\ Owner(e) \in Ranks /\ e \in Nat /\ e \in Local(Owner(e))
         /\ e % ExpertsPerRank \in 0 .. ExpertsPerRank - 1
         /\ e = ExpertsPerRank * Owner(e) + (e % ExpertsPerRank)
<1>1. e \in Nat /\ e < NumRanks * ExpertsPerRank
  <2>1. NumRanks * ExpertsPerRank \in Nat
    BY Numbers
  <2>. QED
    BY <2>1, Numbers DEF Experts
<1>2. /\ Owner(e) \in Nat /\ e % ExpertsPerRank \in 0 .. ExpertsPerRank - 1
      /\ e = ExpertsPerRank * Owner(e) + (e % ExpertsPerRank)
  BY <1>1, Numbers, Division DEF Owner
<1>3. Owner(e) < NumRanks
  <2>. SUFFICES ASSUME NumRanks <= Owner(e) PROVE FALSE
    BY <1>2, Numbers
  <2>1. ExpertsPerRank * NumRanks <= ExpertsPerRank * Owner(e)
    <3>1. ExpertsPerRank \in Nat /\ NumRanks \in Int /\ Owner(e) \in Int
      BY <1>2, Numbers
    <3>. QED
      BY <3>1, Monotone
  <2>2. ExpertsPerRank * NumRanks = NumRanks * ExpertsPerRank
    BY Numbers
  <2>. QED
    BY <1>1, <1>2, <2>1, <2>2, Numbers
<1>. QED
  BY <1>1, <1>2, <1>3, Numbers DEF Local

LEMMA LocalRange ==
  ASSUME NEW r \in Ranks
  PROVE  /\ Local(r) = ExpertsPerRank * r .. ExpertsPerRank * r + ExpertsPerRank - 1
         /\ ExpertsPerRank * r \in Nat
<1>. DEFINE first == ExpertsPerRank * r
            last  == first + ExpertsPerRank - 1
<1>1. r \in Nat /\ r + 1 <= NumRanks
  BY Numbers
<1>2. first \in Nat /\ last \in Nat /\ last - first + 1 = ExpertsPerRank
  BY <1>1, Numbers
<1>3. last < NumRanks * ExpertsPerRank /\ NumRanks * ExpertsPerRank \in Nat
  <2>1. ExpertsPerRank * (r + 1) <= ExpertsPerRank * NumRanks
    BY <1>1, Numbers, Monotone
  <2>2. ExpertsPerRank * (r + 1) = first + ExpertsPerRank
        /\ ExpertsPerRank * NumRanks = NumRanks * ExpertsPerRank
    BY <1>1, Numbers
  <2>. QED
    BY <1>1, <1>2, <2>1, <2>2, Numbers
<1>4. ASSUME NEW e \in Local(r) PROVE e \in first .. last
  <2>1. e \in Nat /\ e = ExpertsPerRank * r + (e % ExpertsPerRank)
        /\ e % ExpertsPerRank \in 0 .. ExpertsPerRank - 1
    BY <1>4, OwnerIs DEF Local
  <2>. QED
    BY <2>1, <1>2, Numbers
<1>5. ASSUME NEW e \in first .. last PROVE e \in Local(r)
  <2>1. e \in Nat /\ ExpertsPerRank * r <= e /\ e < ExpertsPerRank * r + ExpertsPerRank
    BY <1>2, Numbers
  <2>2. Owner(e) = r
    BY <1>1, <2>1, Numbers, QuotientIs DEF Owner
  <2>3. e \in Experts
    BY <1>2, <1>3, Numbers DEF Experts
  <2>. QED
    BY <2>2, <2>3 DEF Local
<1>. QED
  BY <1>2, <1>4, <1>5

LEMMA LocalIs ==
  ASSUME NEW r \in Ranks
  PROVE  /\ IsFiniteSet(Local(r)) /\ Cardinality(Local(r)) = ExpertsPerRank
         /\ Local(r) \subseteq Experts
<1>. DEFINE first == ExpertsPerRank * r
            last  == first + ExpertsPerRank - 1
<1>1. Local(r) = first .. last /\ first \in Nat
  BY LocalRange
<1>. HIDE DEF first
<1>2. last \in Nat /\ first <= last /\ last - first + 1 = ExpertsPerRank
  BY <1>1, Numbers
<1>. HIDE DEF last
<1>3. IsFiniteSet(first .. last) /\ Cardinality(first .. last) = last - first + 1
  BY <1>1, <1>2, FS_Interval
<1>. QED
  BY <1>1, <1>2, <1>3 DEF Local

LEMMA ExpertsFinite ==
  /\ IsFiniteSet(Experts) /\ IsFiniteSet(Slots) /\ Cardinality(Slots) = NumTokens * TopK
  /\ IsFiniteSet(Tokens) /\ Cardinality(Tokens) = NumTokens
  /\ NumTokens * TopK \in Nat
<1>1. NumRanks * ExpertsPerRank \in Nat /\ NumTokens * TopK \in Nat
  BY Numbers
<1>2. IsFiniteSet(Experts)
  BY <1>1, FS_Interval DEF Experts
<1>3. IsFiniteSet(Slots) /\ Cardinality(Slots) = NumTokens * TopK
  <2>. DEFINE n == NumTokens * TopK
  <2>1. n \in Nat
    BY <1>1
  <2>. HIDE DEF n
  <2>2. IsFiniteSet(0 .. n - 1) /\ Cardinality(0 .. n - 1) = n
    BY <2>1, FS_Interval
  <2>. QED
    BY <2>2 DEF n, Slots
<1>4. IsFiniteSet(Tokens) /\ Cardinality(Tokens) = NumTokens
  BY Numbers, FS_Interval DEF Tokens
<1>. QED
  BY <1>1, <1>2, <1>3, <1>4

-----------------------------------------------------------------------------
(* The tables.                                                             *)

Matrices == [Ranks -> [Experts -> Nat]]

Column(c, e)    == [q \in Ranks |-> c[q][e]]
Before(q)       == {p \in Ranks : p < q}
PaddedTotals(c) == [e \in Experts |-> Padded(ExpertTotal(c, e))]
Earlier(e)      == {f \in Local(Owner(e)) : f < e}

LEMMA Columns ==
  ASSUME NEW c \in Matrices, NEW e \in Experts
  PROVE  /\ ExpertTotal(c, e) = Sum(Column(c, e), Ranks)
         /\ \A q : SegmentStart(c, q, e) = PoolBase(c, e) + Sum(Column(c, e), Before(q))
         /\ \A q \in Ranks : Column(c, e)[q] \in Nat
         /\ ExpertTotal(c, e) \in Nat
<1>1. \A q \in Ranks : Column(c, e)[q] \in Nat /\ Column(c, e)[q] = c[q][e]
  BY DEF Matrices, Column
<1>2. \A S \in SUBSET Ranks : SumOver(S, LAMBDA q : c[q][e]) = Sum(Column(c, e), S)
  <2>. SUFFICES ASSUME NEW S \in SUBSET Ranks
                PROVE  SumOver(S, LAMBDA q : c[q][e]) = Sum(Column(c, e), S)
    OBVIOUS
  <2>1. [q \in S |-> c[q][e]] = [q \in S |-> Column(c, e)[q]]
    BY <1>1
  <2>. QED
    BY <2>1 DEF SumOver, Sum
<1>3. ExpertTotal(c, e) = Sum(Column(c, e), Ranks)
  BY <1>2 DEF ExpertTotal
<1>4. \A q : SegmentStart(c, q, e) = PoolBase(c, e) + Sum(Column(c, e), Before(q))
  BY <1>2 DEF SegmentStart, Before
<1>5. Sum(Column(c, e), Ranks) \in Nat
  BY <1>1, Numbers, SumIsStack
<1>. QED
  BY <1>1, <1>3, <1>4, <1>5

LEMMA Totals ==
  ASSUME NEW c \in Matrices
  PROVE  \A e \in Experts :
           /\ PaddedTotals(c)[e] = Padded(ExpertTotal(c, e)) /\ PaddedTotals(c)[e] \in Nat
           /\ ExpertTotal(c, e) <= PaddedTotals(c)[e]
           /\ \E k \in Nat : PaddedTotals(c)[e] = BlockM * k
BY Columns, PaddedIs DEF PaddedTotals

LEMMA Bases ==
  ASSUME NEW c \in Matrices
  PROVE  /\ \A e \in Experts : PoolBase(c, e) = Sum(PaddedTotals(c), Earlier(e))
         /\ \A r \in Ranks : RealTiles(c, r) = Sum(PaddedTotals(c), Local(r)) \div BlockM
<1>1. \A S \in SUBSET Experts :
        SumOver(S, LAMBDA e : Padded(ExpertTotal(c, e))) = Sum(PaddedTotals(c), S)
  <2>. SUFFICES ASSUME NEW S \in SUBSET Experts
                PROVE  SumOver(S, LAMBDA e : Padded(ExpertTotal(c, e))) = Sum(PaddedTotals(c), S)
    OBVIOUS
  <2>1. [e \in S |-> Padded(ExpertTotal(c, e))] = [e \in S |-> PaddedTotals(c)[e]]
    BY Totals
  <2>. QED
    BY <2>1 DEF SumOver, Sum
<1>2. \A e \in Experts : Earlier(e) \subseteq Experts
  BY DEF Earlier, Local
<1>3. \A e \in Experts : PoolBase(c, e) = Sum(PaddedTotals(c), Earlier(e))
  BY <1>1, <1>2 DEF PoolBase, Earlier
<1>4. \A r \in Ranks : Local(r) \subseteq Experts
  BY LocalIs
<1>. QED
  BY <1>1, <1>3, <1>4 DEF RealTiles

LEMMA Multiple ==
  ASSUME NEW c \in Matrices, NEW S \in SUBSET Experts
  PROVE  \E k \in Nat : Sum(PaddedTotals(c), S) = BlockM * k
<1>. DEFINE F == PaddedTotals(c)
            Good == {T \in SUBSET Experts : \E k \in Nat : Sum(F, T) = BlockM * k}
<1>1. {} \in Good
  <2>1. Sum(F, {}) = BlockM * 0
    BY SumEmpty, Numbers
  <2>. QED
    BY <2>1
<1>2. ASSUME NEW T \in SUBSET Experts, NEW e \in Experts \ T, T \in Good PROVE T \cup {e} \in Good
  <2>1. PICK k \in Nat : Sum(F, T) = BlockM * k
    BY <1>2
  <2>2. PICK m \in Nat : F[e] = BlockM * m
    BY Totals
  <2>3. Sum(F, T \cup {e}) = Sum(F, T) + F[e]
    <3>1. IsFiniteSet(T) /\ \A y \in T \cup {e} : F[y] \in Nat
      BY Totals, ExpertsFinite, FS_Subset
    <3>. HIDE DEF F
    <3>. QED
      BY <3>1, SumAdd
  <2>4. Sum(F, T \cup {e}) = BlockM * (k + m) /\ k + m \in Nat
    BY <2>1, <2>2, <2>3, Numbers
  <2>. QED
    BY <2>4
<1>. HIDE DEF Good
<1>3. S \in Good
  BY <1>1, <1>2, ExpertsFinite, GrowsToAll
<1>. QED
  BY <1>3 DEF Good

LEMMA EarlierThan ==
  ASSUME NEW c \in Matrices, NEW e \in Experts, NEW S \in SUBSET Experts,
         Earlier(e) \cup {e} \subseteq S
  PROVE  /\ PoolBase(c, e) + PaddedTotals(c)[e] <= Sum(PaddedTotals(c), S)
         /\ PoolBase(c, e) \in Nat /\ Sum(PaddedTotals(c), S) \in Nat
<1>. DEFINE F == PaddedTotals(c)
            E == Earlier(e)
<1>1. IsFiniteSet(S) /\ \A f \in S : F[f] \in Nat
  BY Totals, ExpertsFinite, FS_Subset
<1>2. PoolBase(c, e) = Sum(F, E)
  BY Bases
<1>3. e \notin E /\ IsFiniteSet(E)
  <2>1. e \notin E
    BY OwnerIs DEF Earlier
  <2>2. E \subseteq S
    OBVIOUS
  <2>. QED
    BY <1>1, <2>1, <2>2, FS_Subset
<1>. HIDE DEF F, E
<1>4. E \cup {e} \in SUBSET S
  BY DEF E
<1>5. Sum(F, E \cup {e}) = Sum(F, E) + F[e]
  BY <1>1, <1>3, <1>4, SumAdd
<1>6. Sum(F, E \cup {e}) <= Sum(F, S) /\ Sum(F, S) \in Nat
  BY <1>1, <1>4, SumMore
<1>7. Sum(F, E) \in Nat
  <2>1. E \in SUBSET S
    BY <1>4
  <2>. QED
    BY <1>1, <2>1, SumMore
<1>. QED
  BY <1>2, <1>5, <1>6, <1>7 DEF F

\* The experts of a rank have parts of its pool one after the other.
LEMMA BasesApart ==
  ASSUME NEW c \in Matrices, NEW e \in Experts, NEW f \in Experts, Owner(f) = Owner(e), f < e
  PROVE  PoolBase(c, f) + PaddedTotals(c)[f] <= PoolBase(c, e)
<1>1. Earlier(f) \cup {f} \subseteq Earlier(e)
  <2>. SUFFICES ASSUME NEW g \in Earlier(f) \cup {f} PROVE g \in Earlier(e)
    OBVIOUS
  <2>1. g \in Experts /\ Owner(g) = Owner(e) /\ (g < f \/ g = f)
    BY DEF Earlier, Local
  <2>2. e \in Nat /\ f \in Nat /\ g \in Nat
    BY <2>1, OwnerIs
  <2>. QED
    BY <2>1, <2>2 DEF Earlier, Local
<1>2. Earlier(e) \in SUBSET Experts
  BY DEF Earlier, Local
<1>3. PoolBase(c, f) + PaddedTotals(c)[f] <= Sum(PaddedTotals(c), Earlier(e))
  BY <1>1, <1>2, EarlierThan
<1>. QED
  BY <1>3, Bases

LEMMA BaseIs ==
  ASSUME NEW c \in Matrices, NEW r \in Ranks, NEW e \in Local(r)
  PROVE  /\ PoolBase(c, e) \in Nat
         /\ \E k \in Nat : PoolBase(c, e) = BlockM * k
         /\ PoolBase(c, e) + PaddedTotals(c)[e] <= Sum(PaddedTotals(c), Local(r))
<1>1. e \in Experts /\ Owner(e) = r /\ Local(r) \in SUBSET Experts
  BY LocalIs DEF Local
<1>2. Earlier(e) \cup {e} \subseteq Local(r)
  BY <1>1 DEF Earlier
<1>3. Earlier(e) \in SUBSET Experts /\ PoolBase(c, e) = Sum(PaddedTotals(c), Earlier(e))
  BY <1>1, Bases DEF Earlier
<1>. QED
  BY <1>1, <1>2, <1>3, EarlierThan, Multiple

\* A rank's tiles are those of its padded rows.
LEMMA TilesAre ==
  ASSUME NEW c \in Matrices, NEW r \in Ranks
  PROVE  /\ RealTiles(c, r) \in Nat
         /\ Sum(PaddedTotals(c), Local(r)) = BlockM * RealTiles(c, r)
<1>1. Local(r) \in SUBSET Experts
  BY LocalIs
<1>2. PICK k \in Nat : Sum(PaddedTotals(c), Local(r)) = BlockM * k
  BY <1>1, Multiple
<1>3. BlockM * k \in Nat /\ BlockM * k <= BlockM * k /\ BlockM * k < BlockM * k + BlockM /\ k \in Int
  BY Numbers
<1>. DEFINE n == BlockM * k
<1>. HIDE DEF n
<1>4. n \div BlockM = k
  BY <1>3, Numbers, QuotientIs DEF n
<1>. QED
  BY <1>2, <1>4, Bases DEF n

\* A tile has rows of one expert only, and is one of the rank's.
LEMMA TileOfRow ==
  ASSUME NEW c \in Matrices, NEW r \in Ranks, NEW e \in Local(r),
         NEW row \in Nat, PoolBase(c, e) <= row, row < PoolBase(c, e) + PaddedTotals(c)[e]
  PROVE  /\ row \div BlockM \in 0 .. RealTiles(c, r) - 1
         /\ TileToExpert(c, r, row \div BlockM) = e
<1>. DEFINE i == row \div BlockM
<1>0. e \in Experts /\ Owner(e) = r /\ \A f \in Local(r) : f \in Experts /\ Owner(f) = r
  BY DEF Local
<1>1. i \in Nat /\ BlockM * i <= row /\ row < BlockM * i + BlockM
  BY Numbers, Division
<1>. HIDE DEF i
<1>2. PoolBase(c, e) <= BlockM * i
  <2>1. PICK k \in Nat : PoolBase(c, e) = BlockM * k
    BY BaseIs
  <2>2. CASE k <= i
    BY <1>1, <2>1, <2>2, Numbers, Monotone
  <2>3. CASE i + 1 <= k
    <3>1. BlockM * (i + 1) <= BlockM * k /\ BlockM * (i + 1) = BlockM * i + BlockM
      BY <1>1, <2>3, Numbers, Monotone
    <3>. QED
      BY <1>1, <2>1, <3>1, Numbers
  <2>. QED
    BY <1>1, <2>2, <2>3
<1>3. BlockM * i < PoolBase(c, e) + PaddedTotals(c)[e]
  <2>1. PaddedTotals(c)[e] \in Nat /\ PoolBase(c, e) \in Nat /\ BlockM * i \in Nat
    BY <1>0, <1>1, Totals, BaseIs, Numbers
  <2>. QED
    BY <1>1, <2>1
<1>4. ASSUME NEW f \in Local(r), PoolBase(c, f) <= BlockM * i,
             BlockM * i < PoolBase(c, f) + PaddedTotals(c)[f]
      PROVE  f = e
  <2>1. e \in Nat /\ f \in Nat /\ BlockM * i \in Nat
    BY <1>0, <1>1, OwnerIs, Numbers
  <2>2. PaddedTotals(c)[e] \in Nat /\ PoolBase(c, e) \in Nat
        /\ PaddedTotals(c)[f] \in Nat /\ PoolBase(c, f) \in Nat
    BY <1>0, Totals, BaseIs
  <2>3. CASE f < e
    <3>1. PoolBase(c, f) + PaddedTotals(c)[f] <= PoolBase(c, e)
      BY <1>0, <2>3, BasesApart
    <3>. QED
      BY <1>2, <1>4, <2>1, <2>2, <3>1
  <2>4. CASE e < f
    <3>1. PoolBase(c, e) + PaddedTotals(c)[e] <= PoolBase(c, f)
      BY <1>0, <2>4, BasesApart
    <3>. QED
      BY <1>3, <1>4, <2>1, <2>2, <3>1
  <2>. QED
    BY <2>1, <2>3, <2>4
<1>5. TileToExpert(c, r, i) = e
  <2>1. i * BlockM = BlockM * i
    BY <1>1, Numbers
  <2>2. \A f \in Local(r) : Padded(ExpertTotal(c, f)) = PaddedTotals(c)[f]
    BY <1>0, Totals
  <2>. QED
    BY <1>2, <1>3, <1>4, <2>1, <2>2 DEF TileToExpert
<1>6. i < RealTiles(c, r)
  <2>1. BlockM * i < BlockM * RealTiles(c, r) /\ RealTiles(c, r) \in Nat
    BY <1>0, <1>1, <1>3, BaseIs, TilesAre, Totals, Numbers
  <2>2. CASE RealTiles(c, r) <= i
    BY <1>1, <2>1, <2>2, Numbers, Monotone
  <2>. QED
    BY <1>1, <2>1, <2>2
<1>7. RealTiles(c, r) \in Nat
  BY TilesAre
<1>. QED
  BY <1>1, <1>5, <1>6, <1>7 DEF i

\* The rows of a sender for an expert come after those of the senders before.
LEMMA SegmentIs ==
  ASSUME NEW c \in Matrices, NEW e \in Experts, NEW q \in Ranks
  PROVE  /\ SegmentStart(c, q, e) \in Nat /\ c[q][e] \in Nat
         /\ PoolBase(c, e) <= SegmentStart(c, q, e)
         /\ SegmentStart(c, q, e) + c[q][e] <= PoolBase(c, e) + ExpertTotal(c, e)
         /\ \A p \in Ranks : q < p => SegmentStart(c, q, e) + c[q][e] <= SegmentStart(c, p, e)
<1>. DEFINE F == Column(c, e)
            B == Before(q)
<1>1. \A p \in Ranks : F[p] \in Nat
  BY Columns
<1>2. F[q] = c[q][e] /\ q \in Nat /\ \A p \in Ranks : p \in Nat
  BY Numbers DEF Column
<1>3. PoolBase(c, e) \in Nat
  BY OwnerIs, BaseIs
<1>4. q \notin B /\ B \subseteq Ranks /\ IsFiniteSet(B)
  <2>1. q \notin B /\ B \subseteq Ranks
    BY <1>2 DEF Before
  <2>. QED
    BY <2>1, Numbers, FS_Subset
<1>5. /\ ExpertTotal(c, e) = Sum(F, Ranks)
      /\ \A p : SegmentStart(c, p, e) = PoolBase(c, e) + Sum(F, Before(p))
  BY Columns
<1>. HIDE DEF F
<1>6. Sum(F, B \cup {q}) = Sum(F, B) + F[q] /\ Sum(F, B) \in Nat
  <2>1. \A p \in B \cup {q} : F[p] \in Nat
    BY <1>1, <1>4
  <2>. HIDE DEF B
  <2>. QED
    BY <1>4, <2>1, SumAdd, SumIsStack
<1>7. ASSUME NEW S \in SUBSET Ranks, B \cup {q} \subseteq S
      PROVE  Sum(F, B) + F[q] <= Sum(F, S) /\ Sum(F, S) \in Nat
  <2>1. IsFiniteSet(S) /\ \A p \in S : F[p] \in Nat
    BY <1>1, Numbers, FS_Subset
  <2>2. B \cup {q} \in SUBSET S
    BY <1>7
  <2>. HIDE DEF B
  <2>. QED
    BY <1>6, <2>1, <2>2, SumMore
<1>8. Sum(F, B) + F[q] <= Sum(F, Ranks) /\ Sum(F, Ranks) \in Nat
  BY <1>4, <1>7
<1>9. ASSUME NEW p \in Ranks, q < p
      PROVE  Sum(F, B) + F[q] <= Sum(F, Before(p)) /\ Sum(F, Before(p)) \in Nat
  <2>1. \A x \in B \cup {q} : x \in Before(p)
    BY <1>2, <1>4, <1>9 DEF Before
  <2>2. B \cup {q} \subseteq Before(p) /\ Before(p) \subseteq Ranks
    BY <2>1 DEF Before
  <2>. HIDE DEF B
  <2>. QED
    BY <1>7, <2>2
<1>. HIDE DEF B
<1>10. SegmentStart(c, q, e) = PoolBase(c, e) + Sum(F, B)
  BY <1>5 DEF B
<1>11. ASSUME NEW p \in Ranks, q < p
       PROVE  SegmentStart(c, q, e) + c[q][e] <= SegmentStart(c, p, e)
  BY <1>1, <1>2, <1>3, <1>5, <1>6, <1>9, <1>10, <1>11
<1>. QED
  BY <1>1, <1>2, <1>3, <1>5, <1>6, <1>8, <1>10, <1>11

\* A row of a segment is one of its expert and of no other segment of the rank.
LEMMA RowsOfSegments ==
  ASSUME NEW c \in Matrices, NEW r \in Ranks, NEW e \in Local(r), NEW q \in Ranks,
         NEW row \in Rows(SegmentStart(c, q, e), c[q][e])
  PROVE  /\ row \in Nat
         /\ row \in Rows(PoolBase(c, e), ExpertTotal(c, e))
         /\ PoolBase(c, e) <= row /\ row < PoolBase(c, e) + PaddedTotals(c)[e]
         /\ \A f \in Local(r), p \in Ranks :
              row \in Rows(SegmentStart(c, p, f), c[p][f]) => f = e /\ p = q
<1>0. e \in Experts /\ \A f \in Local(r) : f \in Experts /\ Owner(f) = r
  BY DEF Local
<1>1. \A f \in Local(r), p \in Ranks :
        row \in Rows(SegmentStart(c, p, f), c[p][f]) =>
          /\ row \in Nat /\ SegmentStart(c, p, f) <= row /\ row < SegmentStart(c, p, f) + c[p][f]
          /\ PoolBase(c, f) <= row /\ row < PoolBase(c, f) + ExpertTotal(c, f)
          /\ row < PoolBase(c, f) + PaddedTotals(c)[f]
  <2>. SUFFICES ASSUME NEW f \in Local(r), NEW p \in Ranks,
                       row \in Rows(SegmentStart(c, p, f), c[p][f])
                PROVE  /\ row \in Nat /\ SegmentStart(c, p, f) <= row
                       /\ row < SegmentStart(c, p, f) + c[p][f]
                       /\ PoolBase(c, f) <= row /\ row < PoolBase(c, f) + ExpertTotal(c, f)
                       /\ row < PoolBase(c, f) + PaddedTotals(c)[f]
    OBVIOUS
  <2>1. /\ SegmentStart(c, p, f) \in Nat /\ c[p][f] \in Nat
        /\ PoolBase(c, f) <= SegmentStart(c, p, f)
        /\ SegmentStart(c, p, f) + c[p][f] <= PoolBase(c, f) + ExpertTotal(c, f)
    BY <1>0, SegmentIs
  <2>2. /\ PoolBase(c, f) \in Nat /\ ExpertTotal(c, f) \in Nat /\ PaddedTotals(c)[f] \in Nat
        /\ ExpertTotal(c, f) <= PaddedTotals(c)[f]
    BY <1>0, BaseIs, Columns, Totals
  <2>3. row \in Int /\ SegmentStart(c, p, f) <= row /\ row <= SegmentStart(c, p, f) + c[p][f] - 1
    BY <2>1 DEF Rows
  <2>. QED
    BY <2>1, <2>2, <2>3
<1>2. ASSUME NEW f \in Local(r), NEW p \in Ranks, row \in Rows(SegmentStart(c, p, f), c[p][f])
      PROVE  f = e
  <2>1. /\ PoolBase(c, f) \in Nat /\ PaddedTotals(c)[f] \in Nat /\ f \in Nat
        /\ PoolBase(c, e) \in Nat /\ PaddedTotals(c)[e] \in Nat /\ e \in Nat
    BY <1>0, BaseIs, Totals, OwnerIs
  <2>2. /\ PoolBase(c, f) <= row /\ row < PoolBase(c, f) + PaddedTotals(c)[f] /\ row \in Nat
        /\ PoolBase(c, e) <= row /\ row < PoolBase(c, e) + PaddedTotals(c)[e]
    BY <1>1, <1>2
  <2>3. f < e => PoolBase(c, f) + PaddedTotals(c)[f] <= PoolBase(c, e)
    BY <1>0, BasesApart
  <2>4. e < f => PoolBase(c, e) + PaddedTotals(c)[e] <= PoolBase(c, f)
    BY <1>0, BasesApart
  <2>. QED
    BY <2>1, <2>2, <2>3, <2>4
<1>3. ASSUME NEW p \in Ranks, row \in Rows(SegmentStart(c, p, e), c[p][e])
      PROVE  p = q
  <2>1. /\ SegmentStart(c, p, e) \in Nat /\ c[p][e] \in Nat /\ p \in Nat
        /\ SegmentStart(c, q, e) \in Nat /\ c[q][e] \in Nat /\ q \in Nat
    BY <1>0, SegmentIs, Numbers
  <2>2. /\ SegmentStart(c, p, e) <= row /\ row < SegmentStart(c, p, e) + c[p][e] /\ row \in Nat
        /\ SegmentStart(c, q, e) <= row /\ row < SegmentStart(c, q, e) + c[q][e]
    BY <1>1, <1>3
  <2>3. p < q => SegmentStart(c, p, e) + c[p][e] <= SegmentStart(c, q, e)
    BY <1>0, SegmentIs
  <2>4. q < p => SegmentStart(c, q, e) + c[q][e] <= SegmentStart(c, p, e)
    BY <1>0, SegmentIs
  <2>. QED
    BY <2>1, <2>2, <2>3, <2>4
<1>4. row \in Rows(PoolBase(c, e), ExpertTotal(c, e))
  <2>1. PoolBase(c, e) \in Nat /\ ExpertTotal(c, e) \in Nat
    BY <1>0, BaseIs, Columns
  <2>2. row \in Nat /\ PoolBase(c, e) <= row /\ row < PoolBase(c, e) + ExpertTotal(c, e)
    BY <1>1
  <2>. QED
    BY <2>1, <2>2 DEF Rows
<1>. QED
  BY <1>1, <1>2, <1>3, <1>4

\* Every real row of an expert is of some sender's segment.
LEMMA SegmentsCover ==
  ASSUME NEW c \in Matrices, NEW e \in Experts, NEW row \in Rows(PoolBase(c, e), ExpertTotal(c, e))
  PROVE  \E q \in Ranks : row \in Rows(SegmentStart(c, q, e), c[q][e])
<1>. DEFINE F == Column(c, e)
            After == {q \in Ranks : row < SegmentStart(c, q, e) + c[q][e]}
<1>1. PoolBase(c, e) \in Nat /\ ExpertTotal(c, e) \in Nat
  BY OwnerIs, BaseIs, Columns
<1>2. row \in Nat /\ PoolBase(c, e) <= row /\ row < PoolBase(c, e) + ExpertTotal(c, e)
  BY <1>1 DEF Rows
<1>3. /\ ExpertTotal(c, e) = Sum(F, Ranks)
      /\ \A p : SegmentStart(c, p, e) = PoolBase(c, e) + Sum(F, Before(p))
      /\ \A p \in Ranks : F[p] \in Nat /\ F[p] = c[p][e]
  BY Columns DEF Column
<1>. HIDE DEF F
<1>4. ASSUME NEW p \in Ranks
      PROVE  Sum(F, Before(p) \cup {p}) = Sum(F, Before(p)) + c[p][e]
  <2>1. p \notin Before(p) /\ Before(p) \subseteq Ranks
    BY Numbers DEF Before
  <2>2. IsFiniteSet(Before(p)) /\ \A y \in Before(p) \cup {p} : F[y] \in Nat
    BY <1>3, <2>1, Numbers, FS_Subset
  <2>3. Sum(F, Before(p) \cup {p}) = Sum(F, Before(p)) + F[p]
    BY <2>1, <2>2, SumAdd
  <2>. QED
    BY <1>3, <2>3
<1>5. After # {}
  <2>1. Ranks # {}
    <3>1. CASE Ranks = {}
      BY <1>1, <1>2, <1>3, <3>1, SumEmpty
    <3>. QED
      BY <3>1
  <2>. DEFINE last == NumRanks - 1
  <2>2. last \in Ranks /\ Before(last) \cup {last} = Ranks
    BY <2>1, Numbers DEF Before
  <2>. HIDE DEF last
  <2>3. SegmentStart(c, last, e) + c[last][e] = PoolBase(c, e) + ExpertTotal(c, e)
    <3>1. Sum(F, Before(last)) \in Nat /\ c[last][e] \in Nat
      <4>1. IsFiniteSet(Before(last)) /\ \A y \in Before(last) : F[y] \in Nat
        BY <1>3, Numbers, FS_Subset DEF Before
      <4>. QED
        BY <1>3, <2>2, <4>1, SumIsStack
    <3>. QED
      BY <1>1, <1>3, <1>4, <2>2, <3>1
  <2>. QED
    BY <1>2, <2>2, <2>3
<1>6. PICK q \in After : \A p \in After : q <= p
  <2>1. After \in SUBSET Nat
    BY Numbers
  <2>. HIDE DEF After
  <2>. QED
    BY <1>5, <2>1, LeastOf
<1>7. q \in Ranks /\ row < SegmentStart(c, q, e) + c[q][e]
  BY <1>6
<1>8. SegmentStart(c, q, e) <= row
  <2>1. CASE q = 0
    <3>1. Before(q) = {}
      BY <2>1, Numbers DEF Before
    <3>2. SegmentStart(c, q, e) = PoolBase(c, e) + Sum(F, {})
      BY <1>3, <3>1
    <3>. QED
      BY <1>1, <1>2, <3>2, SumEmpty
  <2>2. CASE q # 0
    <3>1. q - 1 \in Ranks /\ Before(q) = Before(q - 1) \cup {q - 1}
      BY <1>7, <2>2, Numbers DEF Before
    <3>2. q - 1 \notin After
      BY <1>6, <1>7, Numbers
    <3>3. SegmentStart(c, q - 1, e) + c[q - 1][e] <= row
      BY <1>2, <3>1, <3>2, SegmentIs
    <3>4. SegmentStart(c, q, e) = PoolBase(c, e) + (Sum(F, Before(q - 1)) + c[q - 1][e])
      BY <1>3, <1>4, <3>1
    <3>5. SegmentStart(c, q - 1, e) = PoolBase(c, e) + Sum(F, Before(q - 1))
      BY <1>3
    <3>6. Sum(F, Before(q - 1)) \in Nat /\ c[q - 1][e] \in Nat
      <4>1. IsFiniteSet(Before(q - 1)) /\ \A y \in Before(q - 1) : F[y] \in Nat
        BY <1>3, Numbers, FS_Subset DEF Before
      <4>. QED
        BY <1>3, <3>1, <4>1, SumIsStack
    <3>. QED
      BY <1>1, <3>3, <3>4, <3>5, <3>6
  <2>. QED
    BY <2>1, <2>2
<1>9. SegmentStart(c, q, e) \in Nat /\ c[q][e] \in Nat
  BY <1>7, SegmentIs
<1>. QED
  BY <1>2, <1>7, <1>8, <1>9 DEF Rows

LEMMA TaskIsInt ==
  ASSUME NEW e \in Experts
  PROVE  TaskIndex(e) \in Nat
<1>1. Owner(e) \in Nat /\ e % ExpertsPerRank \in Nat /\ NumRanks \in Nat
  BY OwnerIs, Numbers
<1>. QED
  BY <1>1 DEF TaskIndex

\* Tasks, and with them the parts of dispatched_token_idx, are in some order.
LEMMA TasksDiffer ==
  ASSUME NEW e \in Experts, NEW f \in Experts, TaskIndex(e) = TaskIndex(f)
  PROVE  e = f
<1>. DEFINE a == e % ExpertsPerRank
            b == f % ExpertsPerRank
<1>1. /\ Owner(e) \in 0 .. NumRanks - 1 /\ a \in Nat /\ e = ExpertsPerRank * Owner(e) + a
      /\ Owner(f) \in 0 .. NumRanks - 1 /\ b \in Nat /\ f = ExpertsPerRank * Owner(f) + b
  BY OwnerIs, Numbers
<1>2. a * NumRanks + Owner(e) = b * NumRanks + Owner(f)
  BY DEF TaskIndex
<1>. HIDE DEF a, b
<1>. DEFINE n == a * NumRanks + Owner(e)
<1>3. NumRanks \in Nat /\ NumRanks > 0 /\ n \in Nat
  BY <1>1, Numbers
<1>4. NumRanks * a <= n /\ n < NumRanks * a + NumRanks
  BY <1>1, <1>3
<1>5. NumRanks * b <= n /\ n < NumRanks * b + NumRanks
  <2>1. n = NumRanks * b + Owner(f)
    BY <1>1, <1>2, <1>3
  <2>. HIDE DEF n
  <2>. QED
    BY <1>1, <1>3, <2>1
<1>. HIDE DEF n
<1>6. a = n \div NumRanks /\ b = n \div NumRanks
  <2>1. a \in Int /\ b \in Int
    BY <1>1
  <2>. QED
    BY <1>3, <1>4, <1>5, <2>1, QuotientIs
<1>7. Owner(e) = Owner(f)
  BY <1>1, <1>2, <1>3, <1>6
<1>. QED
  BY <1>1, <1>6, <1>7

LEMMA OffsetsApart ==
  ASSUME NEW c \in Matrices, NEW r \in Ranks, NEW e \in Experts
  PROVE  /\ SourceOffset(c, r, e) \in Nat
         /\ \A f \in Experts : TaskIndex(e) < TaskIndex(f) =>
              SourceOffset(c, r, e) + c[r][e] <= SourceOffset(c, r, f)
<1>. DEFINE F == c[r]
            T(f) == {g \in Experts : TaskIndex(g) < TaskIndex(f)}
<1>1. \A f \in Experts : F[f] \in Nat
  BY DEF Matrices
<1>2. \A f \in Experts : SourceOffset(c, r, f) = Sum(F, T(f))
  BY DEF SourceOffset, SumOver, Sum
<1>3. \A f \in Experts : TaskIndex(f) \in Nat
  BY TaskIsInt
<1>. HIDE DEF F
<1>4. \A f \in Experts : IsFiniteSet(T(f)) /\ Sum(F, T(f)) \in Nat
  <2>. SUFFICES ASSUME NEW f \in Experts PROVE IsFiniteSet(T(f)) /\ Sum(F, T(f)) \in Nat
    OBVIOUS
  <2>1. IsFiniteSet(T(f)) /\ \A g \in T(f) : F[g] \in Nat
    BY <1>1, ExpertsFinite, FS_Subset
  <2>. QED
    BY <2>1, SumIsStack
<1>5. ASSUME NEW f \in Experts, TaskIndex(e) < TaskIndex(f)
      PROVE  SourceOffset(c, r, e) + c[r][e] <= SourceOffset(c, r, f)
  <2>1. T(e) \cup {e} \in SUBSET T(f) /\ e \notin T(e)
    BY <1>3, <1>5
  <2>2. IsFiniteSet(T(f)) /\ \A g \in T(f) : F[g] \in Nat
    BY <1>1, <1>4
  <2>3. IsFiniteSet(T(e)) /\ \A g \in T(e) \cup {e} : F[g] \in Nat
    BY <1>1, <1>4
  <2>. HIDE DEF T
  <2>4. Sum(F, T(e) \cup {e}) = Sum(F, T(e)) + F[e]
    BY <2>1, <2>3, SumAdd
  <2>5. Sum(F, T(e) \cup {e}) <= Sum(F, T(f))
    BY <2>1, <2>2, SumMore
  <2>. QED
    BY <1>2, <2>4, <2>5 DEF F
<1>. QED
  BY <1>2, <1>4, <1>5

-----------------------------------------------------------------------------
(* The capacity of a pool.                                                 *)

\* The counts a routing of one layer gives, and the slots they count.
To(R, q, e)  == {s \in Slots : R[q][s] = e}
Matrix(R)    == [q \in Ranks |-> [e \in Experts |-> Cardinality(To(R, q, e))]]
RowsSent(R, S, E) == {p \in S \X Slots : R[p[1]][p[2]] \in E}

LEMMA ToFinite ==
  ASSUME NEW R, NEW q, NEW e
  PROVE  IsFiniteSet(To(R, q, e)) /\ Cardinality(To(R, q, e)) \in 0 .. Cardinality(Slots)
<1>1. To(R, q, e) \in SUBSET Slots
  BY DEF To
<1>2. IsFiniteSet(Slots) /\ Cardinality(Slots) \in Nat
  BY ExpertsFinite
<1>3. IsFiniteSet(To(R, q, e)) /\ Cardinality(To(R, q, e)) <= Cardinality(Slots)
  BY <1>1, <1>2, FS_Subset
<1>4. Cardinality(To(R, q, e)) \in Nat
  BY <1>3, FS_CardinalityType
<1>. QED
  BY <1>2, <1>3, <1>4

LEMMA MatrixIs ==
  ASSUME NEW R
  PROVE  Matrix(R) \in Matrices
BY ToFinite, ExpertsFinite DEF Matrix, Matrices

LEMMA TotalSent ==
  ASSUME NEW R, NEW e \in Experts
  PROVE  ExpertTotal(Matrix(R), e) = Cardinality(RowsSent(R, Ranks, {e}))
<1>. DEFINE c == Matrix(R)
            F == Column(c, e)
            Good == {S \in SUBSET Ranks :
                       /\ IsFiniteSet(RowsSent(R, S, {e}))
                       /\ Sum(F, S) = Cardinality(RowsSent(R, S, {e}))}
<1>0. c \in Matrices
  BY MatrixIs
<1>1. \A q \in Ranks : F[q] = Cardinality(To(R, q, e)) /\ F[q] \in Nat
  BY ToFinite, ExpertsFinite DEF Column, Matrix
<1>2. ExpertTotal(c, e) = Sum(F, Ranks)
  BY <1>0, Columns
<1>. HIDE DEF F
<1>3. {} \in Good
  <2>1. RowsSent(R, {}, {e}) = {}
    BY DEF RowsSent
  <2>. QED
    BY <2>1, FS_EmptySet, SumEmpty
<1>4. ASSUME NEW S \in SUBSET Ranks, NEW q \in Ranks \ S, S \in Good PROVE S \cup {q} \in Good
  <2>. DEFINE A == RowsSent(R, S, {e})
              B == {q} \X To(R, q, e)
  <2>1. RowsSent(R, S \cup {q}, {e}) = A \cup B /\ A \cap B = {}
    BY DEF RowsSent, To
  <2>2. IsFiniteSet(A) /\ Cardinality(A) \in Nat /\ Sum(F, S) = Cardinality(A)
    BY <1>4, FS_CardinalityType
  <2>3. IsFiniteSet(B) /\ Cardinality(B) = F[q]
    <3>1. IsFiniteSet({q}) /\ Cardinality({q}) = 1
      BY FS_Singleton
    <3>2. IsFiniteSet(B) /\ Cardinality(B) = 1 * Cardinality(To(R, q, e))
      BY <3>1, ToFinite, FS_Product
    <3>. QED
      BY <1>1, <3>2
  <2>. HIDE DEF A, B
  <2>4. IsFiniteSet(A \cup B)
        /\ Cardinality(A \cup B) = Cardinality(A) + Cardinality(B) - Cardinality(A \cap B)
    BY <2>2, <2>3, FS_Union
  <2>5. Cardinality(A \cap B) = 0
    BY <2>1, FS_EmptySet
  <2>6. Sum(F, S \cup {q}) = Sum(F, S) + F[q]
    <3>1. IsFiniteSet(S) /\ \A y \in S \cup {q} : F[y] \in Nat
      BY <1>1, Numbers, FS_Subset
    <3>. QED
      BY <1>4, <3>1, SumAdd
  <2>7. Sum(F, S \cup {q}) = Cardinality(A \cup B)
    BY <1>1, <2>2, <2>3, <2>4, <2>5, <2>6
  <2>. QED
    BY <2>1, <2>4, <2>7
<1>. HIDE DEF Good
<1>5. Ranks \in Good
  <2>1. \A S \in SUBSET Ranks : S \in Good
    BY <1>3, <1>4, Numbers, GrowsToAll
  <2>. QED
    BY <2>1
<1>. QED
  BY <1>2, <1>5 DEF Good

\* What a set of experts receives, and how much padding adds to it.
LEMMA ReceivedBy ==
  ASSUME NEW R, NEW E \in SUBSET Experts
  PROVE  LET c == Matrix(R) IN
         /\ IsFiniteSet(RowsSent(R, Ranks, E))
         /\ Sum(PaddedTotals(c), E)
              <= Cardinality(RowsSent(R, Ranks, E)) + Cardinality(E) * (BlockM - 1)
<1>. DEFINE c == Matrix(R)
            F == PaddedTotals(c)
            Good == {S \in SUBSET Experts :
                       /\ IsFiniteSet(RowsSent(R, Ranks, S))
                       /\ Sum(F, S)
                            <= Cardinality(RowsSent(R, Ranks, S)) + Cardinality(S) * (BlockM - 1)}
<1>0. c \in Matrices
  BY MatrixIs
<1>1. \A e \in Experts :
        /\ F[e] \in Nat /\ ExpertTotal(c, e) \in Nat
        /\ F[e] <= Cardinality(RowsSent(R, Ranks, {e})) + (BlockM - 1)
        /\ ExpertTotal(c, e) = Cardinality(RowsSent(R, Ranks, {e}))
  <2>. SUFFICES ASSUME NEW e \in Experts
                PROVE  /\ F[e] \in Nat /\ ExpertTotal(c, e) \in Nat
                       /\ F[e] <= Cardinality(RowsSent(R, Ranks, {e})) + (BlockM - 1)
                       /\ ExpertTotal(c, e) = Cardinality(RowsSent(R, Ranks, {e}))
    OBVIOUS
  <2>1. ExpertTotal(c, e) = Cardinality(RowsSent(R, Ranks, {e}))
    BY TotalSent
  <2>. HIDE DEF c
  <2>2. F[e] = Padded(ExpertTotal(c, e)) /\ F[e] \in Nat /\ ExpertTotal(c, e) \in Nat
    BY <1>0, Totals, Columns
  <2>3. Padded(ExpertTotal(c, e)) <= ExpertTotal(c, e) + BlockM - 1
    BY <2>2, PaddedIs
  <2>. QED
    BY <2>1, <2>2, <2>3, Numbers
<1>. HIDE DEF c, F
<1>2. IsFiniteSet(Ranks \X Slots)
  BY Numbers, ExpertsFinite, FS_Product
<1>3. \A S : IsFiniteSet(RowsSent(R, Ranks, S)) /\ Cardinality(RowsSent(R, Ranks, S)) \in Nat
  <2>. SUFFICES ASSUME NEW S
                PROVE  /\ IsFiniteSet(RowsSent(R, Ranks, S))
                       /\ Cardinality(RowsSent(R, Ranks, S)) \in Nat
    OBVIOUS
  <2>1. RowsSent(R, Ranks, S) \in SUBSET (Ranks \X Slots)
    BY DEF RowsSent
  <2>2. IsFiniteSet(RowsSent(R, Ranks, S))
    BY <1>2, <2>1, FS_Subset
  <2>. QED
    BY <2>2, FS_CardinalityType
<1>4. {} \in Good
  <2>1. RowsSent(R, Ranks, {}) = {}
    BY DEF RowsSent
  <2>2. Sum(F, {}) = 0 /\ Cardinality({}) = 0 /\ IsFiniteSet({})
    BY SumEmpty, FS_EmptySet
  <2>. QED
    BY <2>1, <2>2, Numbers, SMTT(30), ZenonT(30)
<1>5. ASSUME NEW S \in SUBSET Experts, NEW e \in Experts \ S, S \in Good PROVE S \cup {e} \in Good
  <2>. DEFINE A == RowsSent(R, Ranks, S)
              B == RowsSent(R, Ranks, {e})
              C == RowsSent(R, Ranks, S \cup {e})
  <2>1. C = A \cup B /\ A \cap B = {}
    BY DEF RowsSent
  <2>2. /\ IsFiniteSet(A) /\ Cardinality(A) \in Nat /\ IsFiniteSet(B) /\ Cardinality(B) \in Nat
        /\ IsFiniteSet(C)
    BY <1>3
  <2>3. Sum(F, S) <= Cardinality(A) + Cardinality(S) * (BlockM - 1)
    BY <1>5
  <2>4. F[e] <= Cardinality(B) + (BlockM - 1) /\ F[e] \in Nat
    BY <1>1
  <2>. HIDE DEF A, B, C
  <2>5. Cardinality(A \cup B) = Cardinality(A) + Cardinality(B) - Cardinality(A \cap B)
    BY <2>2, FS_Union
  <2>6. Cardinality(C) = Cardinality(A) + Cardinality(B)
    <3>1. Cardinality(A \cap B) = 0
      BY <2>1, FS_EmptySet
    <3>. QED
      BY <2>1, <2>2, <2>5, <3>1
  <2>7. IsFiniteSet(S) /\ \A y \in S \cup {e} : F[y] \in Nat
    BY <1>1, ExpertsFinite, FS_Subset
  <2>8. Sum(F, S \cup {e}) = Sum(F, S) + F[e] /\ Sum(F, S) \in Nat
    BY <2>7, SumAdd, SumIsStack
  <2>9. Cardinality(S) \in Nat /\ Cardinality(S \cup {e}) = Cardinality(S) + 1
    BY <2>7, FS_AddElement, FS_CardinalityType
  <2>10. Cardinality(S \cup {e}) * (BlockM - 1) = Cardinality(S) * (BlockM - 1) + (BlockM - 1)
         /\ Cardinality(S) * (BlockM - 1) \in Int
    <3>. DEFINE n == Cardinality(S)
                k == BlockM - 1
    <3>1. n \in Int /\ k \in Int
      BY <2>9, Numbers
    <3>. HIDE DEF n, k
    <3>2. (n + 1) * k = n * k + k /\ n * k \in Int
      BY <3>1
    <3>. QED
      BY <2>9, <3>2 DEF n, k
  <2>11. Sum(F, S \cup {e}) <= Cardinality(C) + Cardinality(S \cup {e}) * (BlockM - 1)
    BY <2>2, <2>3, <2>4, <2>6, <2>8, <2>10, Numbers
  <2>. QED
    BY <2>2, <2>11 DEF C
<1>. HIDE DEF Good
<1>6. E \in Good
  BY <1>4, <1>5, ExpertsFinite, GrowsToAll
<1>. QED
  BY <1>6 DEF Good, F, c

LEMMA TokenIs ==
  ASSUME NEW s \in Slots
  PROVE  TokenOf(s) \in Tokens
<1>1. s \in Nat /\ s < NumTokens * TopK /\ NumTokens * TopK \in Nat
  BY ExpertsFinite DEF Slots
<1>2. TokenOf(s) \in Nat /\ TopK * TokenOf(s) <= s
  BY <1>1, Numbers, Division DEF TokenOf
<1>3. TokenOf(s) < NumTokens
  <2>. SUFFICES ASSUME NumTokens <= TokenOf(s) PROVE FALSE
    BY <1>2, Numbers
  <2>1. TopK * NumTokens <= TopK * TokenOf(s) /\ TopK * NumTokens = NumTokens * TopK
    <3>1. TopK \in Nat /\ NumTokens \in Int /\ TokenOf(s) \in Int
      BY <1>2, Numbers
    <3>. QED
      BY <3>1, Monotone
  <2>2. TopK * TokenOf(s) \in Nat
    BY <1>2, Numbers
  <2>. QED
    BY <1>1, <1>2, <2>1, <2>2
<1>. QED
  BY <1>2, <1>3, Numbers DEF Tokens

LEMMA FewEnough ==
  ASSUME NEW R \in [Ranks -> [Slots -> Experts \cup {NoExpert}]], NEW r \in Ranks,
         \A q \in Ranks : \A s, z \in Slots :
           s # z /\ TokenOf(s) = TokenOf(z) /\ R[q][s] # NoExpert => R[q][s] # R[q][z]
  PROVE  Cardinality(RowsSent(R, Ranks, Local(r)))
           <= NumRanks * NumTokens * (IF TopK < ExpertsPerRank THEN TopK ELSE ExpertsPerRank)
<1>. DEFINE A == RowsSent(R, Ranks, Local(r))
            B == Ranks \X Slots
            C == Ranks \X (Tokens \X Local(r))
            f == [p \in A |-> <<p[1], <<TokenOf(p[2]), R[p[1]][p[2]]>>>>]
<1>1. IsFiniteSet(B) /\ Cardinality(B) = NumRanks * (NumTokens * TopK)
  BY Numbers, ExpertsFinite, FS_Product DEF NumRanks
<1>2. IsFiniteSet(C) /\ Cardinality(C) = NumRanks * (NumTokens * ExpertsPerRank)
  <2>1. IsFiniteSet(Tokens \X Local(r))
        /\ Cardinality(Tokens \X Local(r)) = NumTokens * ExpertsPerRank
    BY ExpertsFinite, LocalIs, FS_Product
  <2>. QED
    BY <2>1, Numbers, FS_Product DEF NumRanks
<1>3. Cardinality(A) <= Cardinality(B)
  <2>1. A \in SUBSET B
    BY DEF RowsSent
  <2>. HIDE DEF A, B
  <2>. QED
    BY <1>1, <2>1, FS_Subset
<1>4. Cardinality(A) <= Cardinality(C)
  <2>1. \A s \in Slots : TokenOf(s) \in Tokens
    BY TokenIs
  <2>2. \A p \in A : p[1] \in Ranks /\ p[2] \in Slots /\ p = <<p[1], p[2]>>
                     /\ R[p[1]][p[2]] \in Local(r) /\ R[p[1]][p[2]] # NoExpert
    BY MegaAssumption, LocalIs DEF RowsSent
  <2>3. f \in [A -> C]
    <3>. HIDE DEF A
    <3>. QED
      BY <2>1, <2>2
  <2>4. ASSUME NEW p \in A, NEW z \in A, f[p] = f[z] PROVE p = z
    <3>. HIDE DEF A
    <3>1. p[1] = z[1] /\ TokenOf(p[2]) = TokenOf(z[2]) /\ R[p[1]][p[2]] = R[z[1]][z[2]]
      BY <2>4
    <3>2. p[2] = z[2]
      BY <2>2, <3>1
    <3>. QED
      BY <2>2, <3>1, <3>2
  <2>. HIDE DEF A, C, f
  <2>5. f \in Injection(A, C)
    BY <2>3, <2>4 DEF Injection, IsInjective
  <2>. QED
    BY <1>2, <2>5, FS_Injection
<1>. HIDE DEF A, B, C
<1>5. /\ NumRanks * NumTokens * TopK = NumRanks * (NumTokens * TopK)
      /\ NumRanks * NumTokens * ExpertsPerRank = NumRanks * (NumTokens * ExpertsPerRank)
  BY Numbers
<1>. QED
  BY <1>1, <1>2, <1>3, <1>4, <1>5 DEF A

(***************************************************************************)
(* The rows a rank receives fit into its pool, the padding of each expert  *)
(* included, for every routing whose choices for a token differ: the bound *)
(* of get_num_max_pool_tokens is enough.                                   *)
(***************************************************************************)
THEOREM PoolSuffices ==
  ASSUME NEW R \in Routings, NEW l \in Layers, NEW r \in Ranks
  PROVE  LET c == Matrix(R[l]) IN
         /\ Sum(PaddedTotals(c), Local(r)) <= PoolTokens
         /\ PoolTokens \in Nat
<1>. DEFINE c == Matrix(R[l])
            m == IF TopK < ExpertsPerRank THEN TopK ELSE ExpertsPerRank
            n == NumRanks * NumTokens * m + ExpertsPerRank * (BlockM - 1)
<1>1. R[l] \in [Ranks -> [Slots -> Experts \cup {NoExpert}]]
  BY MegaAssumption
<1>2. Cardinality(RowsSent(R[l], Ranks, Local(r))) <= NumRanks * NumTokens * m
  BY <1>1, FewEnough, ChoicesAssumption
<1>3. /\ IsFiniteSet(RowsSent(R[l], Ranks, Local(r)))
      /\ Sum(PaddedTotals(c), Local(r))
           <= Cardinality(RowsSent(R[l], Ranks, Local(r))) + Cardinality(Local(r)) * (BlockM - 1)
      /\ Cardinality(Local(r)) = ExpertsPerRank
  BY ReceivedBy, LocalIs
<1>4. Cardinality(RowsSent(R[l], Ranks, Local(r))) \in Nat
  BY <1>3, FS_CardinalityType
<1>5. Sum(PaddedTotals(c), Local(r)) \in Nat
  <2>1. c \in Matrices
    BY MatrixIs
  <2>. HIDE DEF c
  <2>2. IsFiniteSet(Local(r)) /\ \A e \in Local(r) : PaddedTotals(c)[e] \in Nat
    BY <2>1, LocalIs, Totals
  <2>. QED
    BY <2>2, SumIsStack
<1>. HIDE DEF c
<1>6. m \in Nat /\ NumRanks * NumTokens * m \in Nat /\ ExpertsPerRank * (BlockM - 1) \in Nat
  <2>1. m \in Nat
    BY Numbers
  <2>2. NumRanks * NumTokens \in Nat /\ BlockM - 1 \in Nat
    BY Numbers
  <2>. HIDE DEF m
  <2>. QED
    BY <2>1, <2>2, Numbers
<1>7. n \in Nat /\ Sum(PaddedTotals(c), Local(r)) <= n
  <2>. HIDE DEF m
  <2>. QED
    BY <1>2, <1>3, <1>4, <1>5, <1>6
<1>8. PoolTokens = Padded(n)
  BY DEF PoolTokens
<1>. HIDE DEF n
<1>9. n <= Padded(n) /\ Padded(n) \in Nat
  BY <1>7, PaddedIs
<1>. QED
  BY <1>5, <1>7, <1>8, <1>9 DEF c

\* A rank that has no tile to spare has a row to compute.
LEMMA FullPool ==
  ASSUME NEW c \in Matrices, NEW r \in Ranks, ~ (RealTiles(c, r) < MaxTiles)
  PROVE  \E e \in Local(r) : ExpertTotal(c, e) # 0
<1>. SUFFICES ASSUME \A e \in Local(r) : ExpertTotal(c, e) = 0
              PROVE  RealTiles(c, r) = 0 /\ MaxTiles \in Nat /\ MaxTiles > 0
  BY SMTT(30)
<1>1. RealTiles(c, r) = 0
  <2>1. \A e \in Local(r) : PaddedTotals(c)[e] = 0
    <3>. SUFFICES ASSUME NEW e \in Local(r) PROVE PaddedTotals(c)[e] = 0
      OBVIOUS
    <3>1. e \in Experts
      BY DEF Local
    <3>2. PaddedTotals(c)[e] = Padded(0)
      BY <3>1, Totals
    <3>3. Padded(0) \in Nat /\ Padded(0) <= 0 + BlockM - 1
      BY PaddedIs
    <3>4. PICK k \in Nat : Padded(0) = BlockM * k
      BY PaddedIs
    <3>5. ~ (k >= 1)
      <4>1. k >= 1 => BlockM * 1 <= BlockM * k
        BY Monotone, Numbers
      <4>. QED
        BY <3>3, <3>4, <4>1, Numbers
    <3>6. k = 0
      BY <3>5
    <3>. QED
      BY <3>2, <3>4, <3>6, Numbers
  <2>2. Stack(PaddedTotals(c), Local(r)) = {}
    BY <2>1 DEF Stack
  <2>3. IsFiniteSet(Local(r)) /\ \A e \in Local(r) : PaddedTotals(c)[e] \in Nat
    BY <2>1, LocalIs
  <2>4. Sum(PaddedTotals(c), Local(r)) = 0
    BY <2>2, <2>3, SumIsStack, FS_EmptySet
  <2>5. RealTiles(c, r) \in Nat /\ BlockM * RealTiles(c, r) = 0
    BY <2>4, TilesAre
  <2>. DEFINE k == RealTiles(c, r)
  <2>. HIDE DEF k
  <2>6. k \in Nat /\ BlockM * k = 0
    BY <2>5 DEF k
  <2>7. k >= 1 => BlockM * 1 <= BlockM * k
    BY <2>6, Monotone, Numbers
  <2>8. k = 0
    BY <2>6, <2>7, Numbers
  <2>. QED
    BY <2>8 DEF k
<1>2. MaxTiles \in Nat /\ MaxTiles > 0
  <2>. DEFINE m == IF TopK < ExpertsPerRank THEN TopK ELSE ExpertsPerRank
              n == NumRanks * NumTokens * m + ExpertsPerRank * (BlockM - 1)
  <2>1. m \in Nat /\ m >= 1 /\ NumRanks >= 1
    BY Numbers
  <2>2. NumRanks * NumTokens \in Nat /\ NumRanks * NumTokens >= 1
    <3>1. NumRanks * 1 <= NumRanks * NumTokens
      BY Numbers, Monotone
    <3>. QED
      BY <2>1, <3>1, Numbers
  <2>. HIDE DEF m
  <2>3. n \in Nat /\ n >= 1
    <3>. DEFINE a == NumRanks * NumTokens
    <3>1. a \in Nat /\ a >= 1
      BY <2>2
    <3>. HIDE DEF a
    <3>2. a * 1 <= a * m
      BY <2>1, <3>1, Monotone
    <3>3. a * m \in Nat /\ a * m >= 1
      BY <2>1, <3>1, <3>2
    <3>4. ExpertsPerRank * (BlockM - 1) \in Nat
      BY Numbers
    <3>. QED
      BY <3>3, <3>4 DEF a
  <2>4. PoolTokens = Padded(n)
    BY DEF PoolTokens, m
  <2>. HIDE DEF n
  <2>5. PICK k \in Nat : PoolTokens = BlockM * k /\ PoolTokens >= 1
    BY <2>3, <2>4, PaddedIs
  <2>6. k >= 1
    BY <2>5, Numbers
  <2>7. PoolTokens \in Nat /\ BlockM * k <= PoolTokens /\ PoolTokens < BlockM * k + BlockM
    BY <2>5, Numbers
  <2>8. MaxTiles = k
    BY <2>7, QuotientIs, Numbers DEF MaxTiles
  <2>. QED
    BY <2>6, <2>8
<1>. QED
  BY <1>1, <1>2

-----------------------------------------------------------------------------
(* The scatter of one rank's slots.                                        *)

Valid(R, q)       == {s \in Slots : R[q][s] # NoExpert}
Dest(R, q, f, s)  == SegmentStart(Matrix(R), q, R[q][s]) + f[s]
Index(R, q, f, s) == SourceOffset(Matrix(R), q, R[q][s]) + f[s]

\* The places that atomics may give to the slots of each expert.
Places(R, q) ==
  {f \in [Valid(R, q) -> 0 .. Cardinality(Slots) - 1] :
     \A s \in Valid(R, q) :
       /\ f[s] < Cardinality(To(R, q, R[q][s]))
       /\ \A z \in To(R, q, R[q][s]) \ {s} : f[z] # f[s]}

Choosing == [Ranks -> [Slots -> Experts \cup {NoExpert}]]
Segment(R, q, e) == Rows(SegmentStart(Matrix(R), q, e), Matrix(R)[q][e])

LEMMA PlaceIs ==
  ASSUME NEW R \in Choosing, NEW q \in Ranks, NEW f \in Places(R, q), NEW s \in Valid(R, q)
  PROVE  /\ s \in Slots /\ R[q][s] \in Experts /\ s \in To(R, q, R[q][s])
         /\ f[s] \in Nat /\ f[s] < Matrix(R)[q][R[q][s]]
         /\ Dest(R, q, f, s) \in Segment(R, q, R[q][s])
<1>1. s \in Slots /\ R[q][s] \in Experts /\ s \in To(R, q, R[q][s])
  BY DEF Valid, Choosing, To
<1>2. f[s] \in Nat /\ f[s] < Cardinality(To(R, q, R[q][s]))
  <2>1. f[s] \in 0 .. Cardinality(Slots) - 1 /\ Cardinality(Slots) \in Nat
    BY ExpertsFinite DEF Places
  <2>. QED
    BY <2>1 DEF Places
<1>3. Matrix(R)[q][R[q][s]] = Cardinality(To(R, q, R[q][s]))
  BY <1>1 DEF Matrix
<1>4. SegmentStart(Matrix(R), q, R[q][s]) \in Nat /\ Matrix(R)[q][R[q][s]] \in Nat
  BY <1>1, MatrixIs, SegmentIs
<1>5. Dest(R, q, f, s) \in Segment(R, q, R[q][s])
  BY <1>2, <1>3, <1>4 DEF Dest, Segment, Rows
<1>. QED
  BY <1>1, <1>2, <1>3, <1>5

LEMMA DestsDiffer ==
  ASSUME NEW R \in Choosing, NEW q \in Ranks, NEW f \in Places(R, q),
         NEW s \in Valid(R, q), NEW z \in Valid(R, q),
         Owner(R[q][s]) = Owner(R[q][z]), Dest(R, q, f, s) = Dest(R, q, f, z)
  PROVE  s = z
<1>. DEFINE e == R[q][s]
            r == Owner(e)
<1>1. /\ e \in Experts /\ s \in To(R, q, e) /\ f[s] \in Nat /\ Dest(R, q, f, s) \in Segment(R, q, e)
      /\ R[q][z] \in Experts /\ z \in To(R, q, R[q][z]) /\ f[z] \in Nat
      /\ Dest(R, q, f, z) \in Segment(R, q, R[q][z])
  BY PlaceIs
<1>2. r \in Ranks /\ e \in Local(r) /\ R[q][z] \in Local(r)
  BY <1>1, OwnerIs
<1>3. R[q][z] = e
  BY <1>1, <1>2, MatrixIs, RowsOfSegments DEF Segment
<1>4. SegmentStart(Matrix(R), q, e) \in Nat
  BY <1>1, MatrixIs, SegmentIs
<1>5. f[s] = f[z]
  BY <1>1, <1>3, <1>4 DEF Dest
<1>6. z \in To(R, q, e)
  BY <1>1, <1>3
<1>. QED
  BY <1>5, <1>6 DEF Places

LEMMA IndexesDiffer ==
  ASSUME NEW R \in Choosing, NEW q \in Ranks, NEW f \in Places(R, q),
         NEW s \in Valid(R, q), NEW z \in Valid(R, q),
         Index(R, q, f, s) = Index(R, q, f, z)
  PROVE  s = z
<1>. DEFINE c == Matrix(R)
            e == R[q][s]
            d == R[q][z]
<1>1. /\ e \in Experts /\ s \in To(R, q, e) /\ f[s] \in Nat /\ f[s] < c[q][e]
      /\ d \in Experts /\ z \in To(R, q, d) /\ f[z] \in Nat /\ f[z] < c[q][d]
  BY PlaceIs
<1>2. /\ SourceOffset(c, q, e) \in Nat /\ SourceOffset(c, q, d) \in Nat
      /\ c[q][e] \in Nat /\ c[q][d] \in Nat
      /\ TaskIndex(e) < TaskIndex(d) => SourceOffset(c, q, e) + c[q][e] <= SourceOffset(c, q, d)
      /\ TaskIndex(d) < TaskIndex(e) => SourceOffset(c, q, d) + c[q][d] <= SourceOffset(c, q, e)
  BY <1>1, MatrixIs, OffsetsApart, SegmentIs
<1>3. SourceOffset(c, q, e) + f[s] = SourceOffset(c, q, d) + f[z]
  BY DEF Index
<1>4. TaskIndex(e) \in Int /\ TaskIndex(d) \in Int
  <2>. HIDE DEF e, d
  <2>. QED
    BY <1>1, TaskIsInt
<1>. HIDE DEF c
<1>5. TaskIndex(e) = TaskIndex(d)
  <2>. HIDE DEF e, d
  <2>. QED
    BY <1>1, <1>2, <1>3, <1>4
<1>6. e = d
  BY <1>1, <1>5, TasksDiffer
<1>7. f[s] = f[z]
  <2>. HIDE DEF e, d
  <2>. QED
    BY <1>1, <1>2, <1>3, <1>6
<1>. QED
  BY <1>1, <1>6, <1>7 DEF Places

\* The places of an expert's slots are all there are.
LEMMA SegmentFilled ==
  ASSUME NEW R \in Choosing, NEW q \in Ranks, NEW f \in Places(R, q), NEW e \in Experts,
         NEW row \in Segment(R, q, e)
  PROVE  \E s \in Valid(R, q) : R[q][s] = e /\ Dest(R, q, f, s) = row
<1>. DEFINE T == To(R, q, e)
            n == Cardinality(T)
            g == [s \in T |-> f[s]]
            start == SegmentStart(Matrix(R), q, e)
<1>1. IsFiniteSet(T) /\ n \in Nat
  BY ToFinite, FS_CardinalityType
<1>2. start \in Nat /\ Matrix(R)[q][e] = n
  BY MatrixIs, SegmentIs DEF Matrix
<1>3. row - start \in 0 .. n - 1 /\ row \in Int
  BY <1>1, <1>2 DEF Segment, Rows
<1>4. \A s \in T : s \in Valid(R, q) /\ R[q][s] = e
  BY MegaAssumption DEF To, Valid
<1>5. \A s \in T : f[s] \in 0 .. n - 1
  <2>. SUFFICES ASSUME NEW s \in T PROVE f[s] \in 0 .. n - 1
    OBVIOUS
  <2>1. f[s] \in Nat /\ f[s] < Matrix(R)[q][e]
    BY <1>4, PlaceIs
  <2>. QED
    BY <1>1, <1>2, <2>1
<1>6. \A s, z \in T : f[s] = f[z] => s = z
  BY <1>4 DEF Places
<1>. HIDE DEF n, T
<1>7. g \in Injection(T, 0 .. n - 1)
  BY <1>5, <1>6 DEF Injection, IsInjective
<1>8. IsFiniteSet(0 .. n - 1) /\ Cardinality(0 .. n - 1) = n
  BY <1>1, FS_Interval
<1>9. g \in Surjection(T, 0 .. n - 1)
  <2>. HIDE DEF g
  <2>1. Cardinality(T) = Cardinality(0 .. n - 1)
    BY <1>8 DEF n
  <2>. QED
    BY <1>7, <1>8, <2>1, FS_Injection
<1>10. PICK s \in T : g[s] = row - start
  <2>. HIDE DEF g, start
  <2>. QED
    BY <1>3, <1>9 DEF Surjection
<1>11. Dest(R, q, f, s) = row
  <2>1. Dest(R, q, f, s) = start + f[s] /\ f[s] = row - start
    BY <1>4, <1>10 DEF Dest
  <2>. QED
    BY <1>2, <1>3, <2>1
<1>. QED
  BY <1>4, <1>11

-----------------------------------------------------------------------------
(***************************************************************************)
(* xgmi_barrier is a barrier for any finite set of ranks and any number of *)
(* calls.  Sent(q, p) counts the additions rank q has made to the words of *)
(* rank p.  A word of p is the number of ranks whose count is, modulo four *)
(* in the half of the cycle in which their addition stands in that word.   *)
(* Since a rank returns only when that number is everybody or nobody, the  *)
(* counts of two ranks at a third are at most one call around its own, so  *)
(* "everybody" and "nobody" say that all are in the call.                  *)
(*                                                                         *)
(* The kernels of the Mega layers use the barrier only as it may be used,  *)
(* so whatever else they do, the barrier inside them is still a barrier.   *)
(***************************************************************************)
Sent(q, p) == IF p \in unsent[q] THEN calls[q] - 1 ELSE calls[q]

\* After n additions, the last to word w has raised it.
Up(n, w) == IF w = 0 THEN n % 4 \in {1, 2} ELSE n % 4 \in {2, 3}

Raised(p, w) == {q \in Ranks : Up(Sent(q, p), w)}

Typed ==
  /\ calls   \in [Ranks -> Nat]
  /\ returns \in [Ranks -> Nat]
  /\ counter \in [Ranks -> Nat]
  /\ status  \in [Ranks -> 0 .. 3]
  /\ unsent  \in [Ranks -> SUBSET Ranks]
  /\ signal  \in [Ranks -> [{0, 1} -> Int]]
  /\ at      \in [Ranks -> {"out", "send", "wait"}]

\* The counter and the status read from it follow the calls.
InStep ==
  \A r \in Ranks :
    /\ at[r] = "out"  => returns[r] = calls[r] /\ counter[r] = calls[r] /\ unsent[r] = {}
    /\ at[r] = "send" => /\ calls[r] = returns[r] + 1 /\ counter[r] = returns[r]
                         /\ status[r] = returns[r] % 4
    /\ at[r] = "wait" => /\ calls[r] = returns[r] + 1 /\ counter[r] = calls[r]
                         /\ status[r] = returns[r] % 4 /\ unsent[r] = {}

\* A word counts the ranks whose addition stands in it.
WordsCount ==
  \A p \in Ranks, w \in {0, 1} : signal[p][w] = Cardinality(Raised(p, w))

\* A call that returned was signalled by every rank.
ReturnsSignalled ==
  \A p, q \in Ranks : returns[p] <= Sent(q, p)

IInv ==
  /\ Typed
  /\ InStep
  /\ WordsCount
  /\ ReturnsSignalled

-----------------------------------------------------------------------------
\* The cycle of four, one step on.
LEMMA NextInCycle ==
  ASSUME NEW n \in Nat
  PROVE  /\ n % 4 \in 0 .. 3
         /\ (n + 1) % 4 = IF n % 4 = 3 THEN 0 ELSE (n % 4) + 1
OBVIOUS

\* One more addition changes the word it goes to, in its direction, only.
LEMMA AdditionTurns ==
  ASSUME NEW n \in Nat, NEW w \in {0, 1}
  PROVE  LET s == n % 4 IN
         /\ w # Word(s) => (Up(n + 1, w) <=> Up(n, w))
         /\ w = Word(s) /\ CountsUp(s) => ~ Up(n, w) /\ Up(n + 1, w)
         /\ w = Word(s) /\ ~ CountsUp(s) => Up(n, w) /\ ~ Up(n + 1, w)
<1>1. n % 4 \in 0 .. 3 /\ (n + 1) % 4 = IF n % 4 = 3 THEN 0 ELSE (n % 4) + 1
  BY NextInCycle
<1>2. CASE n % 4 = 0
  BY <1>1, <1>2 DEF Up, Word, CountsUp
<1>3. CASE n % 4 = 1
  BY <1>1, <1>3 DEF Up, Word, CountsUp
<1>4. CASE n % 4 = 2
  BY <1>1, <1>4 DEF Up, Word, CountsUp
<1>5. CASE n % 4 = 3
  BY <1>1, <1>5 DEF Up, Word, CountsUp
<1>. QED
  BY <1>1, <1>2, <1>3, <1>4, <1>5

\* Sets of ranks are finite and have a size.
LEMMA RaisedFinite ==
  ASSUME NEW p, NEW w
  PROVE  IsFiniteSet(Raised(p, w)) /\ Cardinality(Raised(p, w)) \in Nat
<1>1. Raised(p, w) \in SUBSET Ranks
  BY DEF Raised
<1>2. IsFiniteSet(Raised(p, w))
  BY <1>1, XgmiAssumption, FS_Subset
<1>. QED
  BY <1>2, FS_CardinalityType

LEMMA SentIsNat ==
  ASSUME Typed, InStep, NEW q \in Ranks, NEW p \in Ranks
  PROVE  /\ Sent(q, p) \in Nat
         /\ Sent(q, p) <= calls[q]
         /\ calls[q] <= returns[q] + 1
         /\ at[q] # "send" => Sent(q, p) = calls[q]
BY DEF Typed, InStep, Sent

(***************************************************************************)
(* A waiting rank whose word equals its target has been signalled by all   *)
(* ranks in this call.  This is what makes the equality test safe.         *)
(***************************************************************************)
LEMMA TargetMeansAll ==
  ASSUME IInv, NEW r \in Ranks, at[r] = "wait",
         signal[r][Word(status[r])] = Target(status[r])
  PROVE  \A q \in Ranks : Sent(q, r) >= calls[r]
<1>. DEFINE n == returns[r]
            w == Word(status[r])
<1>1. /\ n \in Nat /\ calls[r] = n + 1 /\ status[r] = n % 4
      /\ n % 4 \in 0 .. 3 /\ w \in {0, 1}
  BY NextInCycle DEF IInv, Typed, InStep, Word
<1>2. \A q \in Ranks : Sent(q, r) \in {n, n + 1, n + 2}
  <2>. TAKE q \in Ranks
  <2>1. Sent(q, r) \in Nat /\ Sent(q, r) <= returns[q] + 1
    BY SentIsNat DEF IInv, Typed
  <2>2. returns[q] <= Sent(r, q) /\ Sent(r, q) = n + 1
    BY <1>1, SentIsNat DEF IInv, ReturnsSignalled
  <2>3. n <= Sent(q, r) /\ returns[q] \in Nat
    BY DEF IInv, ReturnsSignalled, Typed
  <2>. QED
    BY <1>1, <2>1, <2>2, <2>3
<1>3. signal[r][w] = Cardinality(Raised(r, w))
  BY <1>1 DEF IInv, WordsCount
<1>4. CASE CountsUp(status[r])
  <2>1. Cardinality(Raised(r, w)) = Cardinality(Ranks)
    BY <1>3, <1>4 DEF Target
  <2>2. Raised(r, w) \in SUBSET Ranks
    BY DEF Raised
  <2>3. Raised(r, w) = Ranks
    BY <2>1, <2>2, FS_Subset, XgmiAssumption
  <2>4. ~ Up(n, w)
    BY <1>1, <1>4, AdditionTurns
  <2>5. \A q \in Ranks : Sent(q, r) # n
    BY <2>3, <2>4 DEF Raised
  <2>. QED
    BY <1>1, <1>2, <2>5
<1>5. CASE ~ CountsUp(status[r])
  <2>1. Cardinality(Raised(r, w)) = 0
    BY <1>3, <1>5 DEF Target
  <2>2. Raised(r, w) = {}
    BY <2>1, RaisedFinite, FS_EmptySet
  <2>3. Up(n, w)
    BY <1>1, <1>5, AdditionTurns
  <2>4. \A q \in Ranks : Sent(q, r) # n
    BY <2>2, <2>3 DEF Raised
  <2>. QED
    BY <1>1, <1>2, <2>4
<1>. QED
  BY <1>4, <1>5

-----------------------------------------------------------------------------
LEMMA InitIInv == XgmiInit => IInv
<1>. SUFFICES ASSUME XgmiInit PROVE IInv
  OBVIOUS
<1>1. Typed /\ InStep
  BY DEF XgmiInit, Typed, InStep
<1>2. \A p, q \in Ranks : Sent(q, p) = 0
  BY DEF XgmiInit, Sent
<1>3. WordsCount
  <2>. SUFFICES ASSUME NEW p \in Ranks, NEW w \in {0, 1}
               PROVE  signal[p][w] = Cardinality(Raised(p, w))
    BY DEF WordsCount
  <2>1. ~ Up(0, w)
    BY DEF Up
  <2>2. Raised(p, w) = {}
    BY <1>2, <2>1 DEF Raised
  <2>. QED
    BY <2>2, FS_EmptySet DEF XgmiInit
<1>4. ReturnsSignalled
  BY <1>2 DEF ReturnsSignalled, XgmiInit
<1>. QED
  BY <1>1, <1>3, <1>4 DEF IInv

\* A step that leaves Sent alone leaves what the words count alone.
LEMMA SameSent ==
  ASSUME IInv, UNCHANGED signal,
         \A p, q \in Ranks : Sent(q, p)' = Sent(q, p)
  PROVE  WordsCount'
<1>. SUFFICES ASSUME NEW p \in Ranks, NEW w \in {0, 1}
             PROVE  signal'[p][w] = Cardinality(Raised(p, w)')
  BY DEF WordsCount
<1>1. Raised(p, w)' = Raised(p, w)
  BY DEF Raised, Up
<1>. QED
  BY <1>1 DEF IInv, WordsCount

LEMMA CallKeeps ==
  ASSUME IInv, NEW r \in Ranks, Call(r)
  PROVE  IInv'
<1>0. counter[r] % 4 \in 0 .. 3 /\ calls[r] + 1 \in Nat /\ Ranks \in SUBSET Ranks
  <2>1. counter[r] \in Nat /\ calls[r] \in Nat
    BY DEF IInv, Typed
  <2>2. counter[r] % 4 \in 0 .. 3
    BY <2>1, NextInCycle
  <2>3. calls[r] + 1 \in Nat
    BY <2>1
  <2>4. Ranks \in SUBSET Ranks
    OBVIOUS
  <2>. QED
    BY <2>2, <2>3, <2>4
<1>1. Typed'
  BY <1>0 DEF IInv, Typed, Call
<1>2. InStep'
  BY DEF IInv, Typed, InStep, Call
<1>3. \A p, q \in Ranks : Sent(q, p)' = Sent(q, p)
  <2>. TAKE p, q \in Ranks
  <2>1. CASE q = r
    <3>1. unsent[r] = {} /\ unsent'[r] = Ranks /\ calls'[r] = calls[r] + 1 /\ calls[r] \in Nat
      BY DEF IInv, Typed, InStep, Call
    <3>. QED
      BY <2>1, <3>1 DEF Sent
  <2>2. CASE q # r
    BY <2>2 DEF IInv, Typed, Call, Sent
  <2>. QED
    BY <2>1, <2>2
<1>4. WordsCount'
  BY <1>3, SameSent DEF Call
<1>5. ReturnsSignalled'
  BY <1>3 DEF IInv, ReturnsSignalled, Call
<1>. QED
  BY <1>1, <1>2, <1>4, <1>5 DEF IInv

LEMMA AdvanceKeeps ==
  ASSUME IInv, NEW r \in Ranks, Advance(r)
  PROVE  IInv'
<1>1. Typed'
  BY DEF IInv, Typed, Advance
<1>2. InStep'
  BY DEF IInv, Typed, InStep, Advance
<1>3. \A p, q \in Ranks : Sent(q, p)' = Sent(q, p)
  BY DEF Advance, Sent
<1>4. WordsCount'
  BY <1>3, SameSent DEF Advance
<1>5. ReturnsSignalled'
  BY <1>3 DEF IInv, ReturnsSignalled, Advance
<1>. QED
  BY <1>1, <1>2, <1>4, <1>5 DEF IInv

LEMMA ReturnKeeps ==
  ASSUME IInv, NEW r \in Ranks, Return(r)
  PROVE  IInv'
<1>1. Typed'
  BY DEF IInv, Typed, Return
<1>2. InStep'
  BY DEF IInv, Typed, InStep, Return
<1>3. \A p, q \in Ranks : Sent(q, p)' = Sent(q, p)
  BY DEF Return, Sent
<1>4. WordsCount'
  BY <1>3, SameSent DEF Return
<1>5. \A q \in Ranks : Sent(q, r) >= returns[r] + 1
  BY TargetMeansAll DEF IInv, InStep, Return
<1>6. ReturnsSignalled'
  BY <1>3, <1>5 DEF IInv, Typed, ReturnsSignalled, Return
<1>. QED
  BY <1>1, <1>2, <1>4, <1>6 DEF IInv

LEMMA SendKeeps ==
  ASSUME IInv, NEW r \in Ranks, NEW t \in Ranks, Send(r, t)
  PROVE  IInv'
<1>. DEFINE n == returns[r]
            word == Word(status[r])
<1>1. /\ at[r] = "send" /\ t \in unsent[r]
      /\ n \in Nat /\ calls[r] = n + 1 /\ status[r] = n % 4 /\ word \in {0, 1}
  BY NextInCycle DEF IInv, Typed, InStep, Send, Word
<1>2. Typed'
  <2>1. AddValue(status[r]) \in Int
    BY DEF AddValue
  <2>. QED
    BY <1>1, <2>1 DEF IInv, Typed, Send
<1>3. InStep'
  BY <1>1 DEF IInv, Typed, InStep, Send
<1>4. \A p, q \in Ranks : q # r \/ p # t => Sent(q, p)' = Sent(q, p)
  BY DEF IInv, Typed, Send, Sent
<1>5. Sent(r, t) = n /\ Sent(r, t)' = n + 1
  BY <1>1 DEF IInv, Typed, Send, Sent
<1>6. WordsCount'
  <2>. SUFFICES ASSUME NEW p \in Ranks, NEW w \in {0, 1}
               PROVE  signal'[p][w] = Cardinality(Raised(p, w)')
    BY DEF WordsCount
  <2>1. signal[p][w] = Cardinality(Raised(p, w))
    BY DEF IInv, WordsCount
  <2>2. signal'[p][w] = IF p = t /\ w = word THEN signal[p][w] + AddValue(status[r])
                                             ELSE signal[p][w]
    BY <1>1 DEF IInv, Typed, Send
  <2>3. CASE p # t
    <3>1. Raised(p, w)' = Raised(p, w)
      BY <1>4, <2>3 DEF Raised, Up
    <3>. QED
      BY <2>1, <2>2, <2>3, <3>1
  <2>4. CASE p = t /\ w # word
    <3>1. Up(n + 1, w) <=> Up(n, w)
      BY <1>1, <2>4, AdditionTurns
    <3>2. Raised(t, w)' = Raised(t, w)
      BY <1>4, <1>5, <3>1 DEF Raised, Up
    <3>. QED
      BY <2>1, <2>2, <2>4, <3>2
  <2>5. CASE p = t /\ w = word /\ CountsUp(status[r])
    <3>1. ~ Up(n, w) /\ Up(n + 1, w)
      BY <1>1, <2>5, AdditionTurns
    <3>2. r \notin Raised(t, w) /\ Raised(t, w)' = Raised(t, w) \cup {r}
      BY <1>4, <1>5, <3>1 DEF Raised, Up
    <3>3. Cardinality(Raised(t, w)') = Cardinality(Raised(t, w)) + 1
      BY <3>2, RaisedFinite, FS_AddElement
    <3>4. AddValue(status[r]) = 1
      BY <2>5 DEF AddValue
    <3>. QED
      BY <2>1, <2>2, <2>5, <3>3, <3>4
  <2>6. CASE p = t /\ w = word /\ ~ CountsUp(status[r])
    <3>1. Up(n, w) /\ ~ Up(n + 1, w)
      BY <1>1, <2>6, AdditionTurns
    <3>2. r \in Raised(t, w) /\ Raised(t, w)' = Raised(t, w) \ {r}
      BY <1>4, <1>5, <3>1 DEF Raised, Up
    <3>3. Cardinality(Raised(t, w)') = Cardinality(Raised(t, w)) - 1
      BY <3>2, RaisedFinite, FS_RemoveElement
    <3>4. AddValue(status[r]) = -1
      BY <2>6 DEF AddValue
    <3>5. Cardinality(Raised(t, w)) \in Nat
      BY RaisedFinite
    <3>. QED
      BY <2>1, <2>2, <2>6, <3>3, <3>4, <3>5
  <2>. QED
    BY <2>3, <2>4, <2>5, <2>6
<1>7. ReturnsSignalled'
  BY <1>1, <1>4, <1>5 DEF IInv, ReturnsSignalled, Send, Typed
<1>. QED
  BY <1>2, <1>3, <1>6, <1>7 DEF IInv

LEMMA NextIInv == IInv /\ [XgmiNext]_xgmiVars => IInv'
<1>. SUFFICES ASSUME IInv, [XgmiNext]_xgmiVars PROVE IInv'
  OBVIOUS
<1>1. CASE XgmiNext
  BY <1>1, CallKeeps, SendKeeps, AdvanceKeeps, ReturnKeeps DEF XgmiNext, XgmiStep
<1>2. CASE UNCHANGED xgmiVars
  <2>1. Typed' /\ InStep'
    BY <1>2 DEF xgmiVars, IInv, Typed, InStep
  <2>2. \A p, q \in Ranks : Sent(q, p)' = Sent(q, p)
    BY <1>2 DEF xgmiVars, Sent
  <2>3. WordsCount'
    BY <1>2, <2>2, SameSent DEF xgmiVars
  <2>4. ReturnsSignalled'
    BY <1>2, <2>2 DEF xgmiVars, IInv, ReturnsSignalled
  <2>. QED
    BY <2>1, <2>3, <2>4 DEF IInv
<1>. QED
  BY <1>1, <1>2

-----------------------------------------------------------------------------
(***************************************************************************)
(* A step of the barrier is a step of the abstract one or none of it.      *)
(***************************************************************************)
LEMMA StepRefines ==
  IInv /\ [XgmiNext]_xgmiVars => [AbstractBarrier!Next]_(AbstractBarrier!barrierVars)
<1>. SUFFICES ASSUME IInv, XgmiNext
             PROVE  [AbstractBarrier!Next]_(AbstractBarrier!barrierVars)
  BY DEF xgmiVars, AbstractBarrier!barrierVars
<1>1. PICK r \in Ranks : Call(r) \/ XgmiStep(r)
  BY DEF XgmiNext
<1>2. CASE Call(r)
  <2>1. AbstractBarrier!Enter(r)
    BY <1>2 DEF Call, AbstractBarrier!Enter, IInv, InStep, Typed
  <2>. QED
    BY <2>1 DEF AbstractBarrier!Next
<1>3. CASE Return(r)
  <2>1. \A q \in Ranks : calls[q] >= calls[r]
    <3>. TAKE q \in Ranks
    <3>1. Sent(q, r) >= calls[r]
      BY <1>3, TargetMeansAll DEF Return
    <3>2. Sent(q, r) \in Nat /\ Sent(q, r) <= calls[q]
      BY SentIsNat DEF IInv
    <3>. QED
      BY <3>1, <3>2 DEF IInv, Typed
  <2>2. AbstractBarrier!Leave(r)
    BY <1>3, <2>1 DEF Return, AbstractBarrier!Leave, IInv, InStep, Typed
  <2>. QED
    BY <2>2 DEF AbstractBarrier!Next
<1>4. CASE Advance(r) \/ \E t \in Ranks : Send(r, t)
  BY <1>4 DEF Advance, Send, AbstractBarrier!barrierVars
<1>. QED
  BY <1>1, <1>2, <1>3, <1>4 DEF XgmiStep

(***************************************************************************)
(* The cross-rank barrier of the Mega prologue implements the abstract     *)
(* barrier, for every finite set of ranks and every number of calls.       *)
(***************************************************************************)
THEOREM XgmiRefinesBarrier == XgmiSpec => XgmiImplementsBarrier
<1>1. XgmiInit => AbstractBarrier!Init
  BY DEF XgmiInit, AbstractBarrier!Init
<1>. QED
  BY <1>1, InitIInv, NextIInv, StepRefines, PTL
     DEF XgmiSpec, XgmiImplementsBarrier, AbstractBarrier!Spec

-----------------------------------------------------------------------------
\* Every kernel step takes a step of the barrier or leaves its state alone.
LEMMA KernelsStepTheBarrier ==
  ASSUME NEW r \in Ranks, RankStep(r)
  PROVE  [XgmiNext]_xgmiVars
<1>1. CASE PrologueStep(r)
  <2>1. CASE BarrierStep(r)
    <3>1. Call(r) \/ XgmiStep(r)
      BY <2>1 DEF BarrierStep, XgmiStep
    <3>. QED
      BY <3>1 DEF XgmiNext
  <2>2. CASE Histogram(r)
    BY <2>2 DEF Histogram
  <2>3. CASE PushCounts(r)
    BY <2>3 DEF PushCounts
  <2>4. CASE BuildTables(r)
    BY <2>4 DEF BuildTables
  <2>5. CASE Scatter(r)
    BY <2>5 DEF Scatter
  <2>6. CASE CloneSlots(r)
    BY <2>6 DEF CloneSlots
  <2>7. CASE SaveWeights(r)
    BY <2>7 DEF SaveWeights
  <2>. QED
    BY <1>1, <2>1, <2>2, <2>3, <2>4, <2>5, <2>6, <2>7 DEF PrologueStep
<1>2. CASE DispatchStep(r)
  <2>1. CASE BeginDispatch(r)
    BY <2>1 DEF BeginDispatch
  <2>2. CASE EndDispatch(r)
    BY <2>2 DEF EndDispatch
  <2>3. CASE WeightGrad2(r)
    BY <2>3 DEF WeightGrad2
  <2>4. ASSUME NEW e \in Experts, PushTask(r, e) PROVE UNCHANGED xgmiVars
    BY <2>4 DEF PushTask
  <2>5. ASSUME NEW e \in Experts, SignalTask(r, e) PROVE UNCHANGED xgmiVars
    BY <2>5 DEF SignalTask
  <2>6. ASSUME NEW piece \in Tiles \cup Experts, FinishPiece(r, piece)
        PROVE  UNCHANGED xgmiVars
    BY <2>6 DEF FinishPiece
  <2>. QED
    BY <1>2, <2>1, <2>2, <2>3, <2>4, <2>5, <2>6 DEF DispatchStep
<1>3. CASE CombineStep(r)
  <2>1. CASE BeginCombine(r)
    BY <2>1 DEF BeginCombine
  <2>2. CASE AlignEmptyTiles(r)
    BY <2>2 DEF AlignEmptyTiles
  <2>3. CASE EndCombine(r)
    BY <2>3 DEF EndCombine
  <2>4. ASSUME NEW i \in Tiles, NEW n \in 1 .. NBlocks, StoreBlock(r, i, n) \/ CountBlock(r, i, n)
        PROVE  UNCHANGED xgmiVars
    BY <2>4 DEF StoreBlock, CountBlock
  <2>5. ASSUME NEW seg \in Experts \X Ranks, PushSegment(r, seg) PROVE UNCHANGED xgmiVars
    BY <2>5 DEF PushSegment
  <2>6. ASSUME NEW seg \in Experts \X Ranks, SignalSegment(r, seg) PROVE UNCHANGED xgmiVars
    BY <2>6 DEF SignalSegment
  <2>7. ASSUME NEW t \in Tokens, ReduceToken(r, t) PROVE UNCHANGED xgmiVars
    BY <2>7 DEF ReduceToken
  <2>. QED
    BY <1>3, <2>1, <2>2, <2>3, <2>4, <2>5, <2>6, <2>7 DEF CombineStep
<1>. QED
  BY <1>1, <1>2, <1>3 DEF RankStep

(***************************************************************************)
(* In every execution of the Mega kernels, with every program, routing and *)
(* number of ranks, no rank leaves a prologue barrier before all are in it.*)
(***************************************************************************)
THEOREM MegaImplementsBarrier == Spec => XgmiImplementsBarrier
<1>1. Init => XgmiInit
  BY DEF Init
<1>2. [Next]_megaVars => [XgmiNext]_xgmiVars
  BY KernelsStepTheBarrier DEF Next, megaVars
<1>3. Spec => XgmiSpec
  BY <1>1, <1>2, PTL DEF Spec, XgmiSpec
<1>. QED
  BY <1>3, XgmiRefinesBarrier, PTL
-----------------------------------------------------------------------------
(***************************************************************************)
(* The prologue.  A rank at stage n of the kernel i of its program is at   *)
(* place 8 * i + n; only a prologue has more than two stages.              *)
(***************************************************************************)
StageNo == [start |-> 0, b1 |-> 1, push |-> 2, b3 |-> 3, tables |-> 4, scatter |-> 5,
            e |-> 6, clone |-> 7, run |-> 1]
Passed  == [start |-> 0, b1 |-> 0, push |-> 1, b3 |-> 1, tables |-> 2, scatter |-> 2,
            e |-> 2, clone |-> 3, run |-> 0]

Place(r) == 8 * pc[r] + StageNo[stage[r]]
Reached(r, i, n) == 8 * i + n <= Place(r)

PrologueAt(P, i) == i \in 1 .. Len(P) /\ P[i].kind = "prologue"
ProloguesBefore(P, i) == {j \in 1 .. Len(P) : P[j].kind = "prologue" /\ j < i}

PlaceOK ==
  /\ program \in Programs /\ routing \in Routings
  /\ pc \in [Ranks -> 1 .. Len(program) + 1]
  /\ stage \in [Ranks -> DOMAIN StageNo]
  /\ \A r \in Ranks : stage[r] # "start" =>
       Running(r) /\ (stage[r] = "run" <=> program[pc[r]].kind # "prologue")

\* Every prologue of a rank makes three calls of the barrier.
CallsOK ==
  \A r \in Ranks :
    /\ returns[r] = 3 * Cardinality(ProloguesBefore(program, pc[r])) + Passed[stage[r]]
    /\ at[r] # "out" => stage[r] \in DOMAIN Following

\* Between the count and the clean-up, SCRATCH_SEND holds the rank's counts.
Counted == {"b1", "push", "b3", "tables", "scatter"}
Expected(r) ==
  [send   |-> IF stage[r] \in Counted THEN Matrix(routing[Layer(r)])[r] ELSE NoCounts,
   within |-> NoCounts]
ScratchOK == scratch = [r \in Ranks |-> Expected(r)]

\* The last prologue in which q has pushed is the one its counts are of.
CountsOK ==
  /\ counts \in [Ranks -> [Ranks -> [Experts -> 0 .. Cardinality(Slots)]]]
  /\ \A p, q \in Ranks, i \in 1 .. Len(program) :
       /\ PrologueAt(program, i) /\ Reached(q, i, 3)
       /\ \A j \in 1 .. Len(program) : PrologueAt(program, j) /\ i < j => ~ Reached(q, j, 3)
       => counts[p][q] = Matrix(routing[program[i].layer])[q]

Tables ==
  {"sendRow", "sendCount", "offset", "recvRow", "recvCount", "base", "total", "expert"}
HasTables(h, R, r) ==
  /\ DOMAIN h = Tables \cup {"token", "slot", "weight"}
  /\ \A field \in Tables : h[field] = TablesOf(Matrix(R), r)[field]

TokensOK(R, r, token) ==
  \A e \in Experts : \A k \in 0 .. Matrix(R)[r][e] - 1 :
    token[SourceOffset(Matrix(R), r, e) + k] \in Tokens

HandleOK ==
  /\ handle = [r \in Ranks |-> [l \in Layers |-> handle[r][l]]]
  /\ \A r \in Ranks, l \in Layers : handle[r][l].slot # <<>> =>
       \E i \in 1 .. Len(program) :
         PrologueAt(program, i) /\ program[i].layer = l /\ Reached(r, i, 8)
  /\ \A r \in Ranks, i \in 1 .. Len(program) : PrologueAt(program, i) /\ Reached(r, i, 5) =>
       LET l == program[i].layer
           h == handle[r][l]
       IN  /\ HasTables(h, routing[l], r)
           /\ h.weight \in {<<>>, h.slot}
           /\ ~ Reached(r, i, 8) => h.weight = <<>>
           /\ Reached(r, i, 6) => TokensOK(routing[l], r, h.token)

\* The slots of q that r has recorded for its segments of a layer.
Agree(q, r, l, slot) ==
  \A e \in Local(r) : \A row \in Segment(routing[l], q, e) :
    /\ \E s \in Slots :
         /\ slot[row] = <<l, q, s>>
         /\ routing[l][q][s] = e
         /\ handle[q][l].token[SourceOffset(Matrix(routing[l]), q, e)
                                 + (row - SegmentStart(Matrix(routing[l]), q, e))] = TokenOf(s)
    /\ \A other \in Segment(routing[l], q, e) : other # row => slot[other] # slot[row]

\* A rank that has not entered a later prologue still has what was recorded.
Current(r, i) ==
  \A j \in 1 .. Len(program) : PrologueAt(program, j) /\ i < j => ~ Reached(r, j, 1)

OriginOK ==
  /\ origin = [r \in Ranks |-> [row \in PoolRows |-> origin[r][row]]]
  /\ \A r \in Ranks, row \in PoolRows :
       origin[r][row] \in {NoRow} \cup (Layers \X Ranks \X Slots)
  /\ \A r \in Ranks, i \in 1 .. Len(program) : PrologueAt(program, i) /\ Current(r, i) =>
       LET l == program[i].layer IN
       /\ \A q \in Ranks : Reached(q, i, 6) => Agree(q, r, l, origin[r])
       /\ Reached(r, i, 8) => handle[r][l].slot = origin[r]

SlotsOK ==
  \A q, r \in Ranks, i \in 1 .. Len(program) : PrologueAt(program, i) /\ Reached(r, i, 8) =>
    LET l == program[i].layer IN Agree(q, r, l, handle[r][l].slot)

PrologueInv ==
  /\ IInv
  /\ PlaceOK /\ CallsOK /\ ScratchOK /\ CountsOK
  /\ HandleOK /\ OriginOK /\ SlotsOK

-----------------------------------------------------------------------------
(***************************************************************************)
(* Programs: what the operations of a layer give.                          *)
(***************************************************************************)
LEMMA ProgramIs ==
  ASSUME NEW P \in Programs
  PROVE  /\ Len(P) \in Nat
         /\ \A i \in 1 .. Len(P) :
              P[i] \in [kind : Kinds, layer : Layers]
         /\ LayerByLayer(P)
<1>1. P \in Seq([kind : Kinds, layer : Layers])
  BY MegaAssumption
<1>2. LayerByLayer(P)
  BY ProgramAssumption
<1>. DEFINE K == [kind : Kinds, layer : Layers]
<1>3. P \in Seq(K)
  BY <1>1
<1>. HIDE DEF K
<1>4. Len(P) \in Nat /\ \A i \in 1 .. Len(P) : P[i] \in K
  BY <1>3
<1>. QED
  BY <1>2, <1>4 DEF K

LEMMA OperationOf ==
  ASSUME NEW P \in Programs, NEW i \in 1 .. Len(P)
  PROVE  \E k \in Nat : \E a \in 1 .. 4 :
           /\ i = 4 * k + a /\ 4 * k + 4 <= Len(P)
           /\ P[i].layer = OpLayer(P, k)
           /\ \/ /\ IsOperation(P, k, ForwardKinds)
                 /\ P[i].kind = ForwardKinds[a]
                 /\ \A j \in 0 .. k - 1 : OpLayer(P, j) # OpLayer(P, k)
              \/ /\ IsOperation(P, k, BackwardKinds)
                 /\ P[i].kind = BackwardKinds[a]
<1>. DEFINE k == (i - 1) \div 4
            a == ((i - 1) % 4) + 1
<1>1. /\ Len(P) \in Nat /\ i \in Nat /\ i >= 1 /\ i <= Len(P) /\ LayerByLayer(P)
  BY ProgramIs
<1>2. Len(P) % 4 = 0
  BY <1>1 DEF LayerByLayer
<1>3. /\ k \in 0 .. (Len(P) \div 4) - 1 /\ a \in 1 .. 4
      /\ i = 4 * k + a /\ 4 * k + 4 <= Len(P)
  BY <1>1, <1>2
<1>. HIDE DEF k, a
<1>4. \/ /\ IsOperation(P, k, ForwardKinds)
         /\ \A j \in 0 .. k - 1 : OpLayer(P, j) # OpLayer(P, k)
      \/ IsOperation(P, k, BackwardKinds)
  BY <1>1, <1>3 DEF LayerByLayer
<1>5. ASSUME IsOperation(P, k, ForwardKinds)
      PROVE  P[i].layer = OpLayer(P, k) /\ P[i].kind = ForwardKinds[a]
  BY <1>3, <1>5, SMTT(30), ZenonT(30) DEF IsOperation
<1>6. ASSUME IsOperation(P, k, BackwardKinds)
      PROVE  P[i].layer = OpLayer(P, k) /\ P[i].kind = BackwardKinds[a]
  BY <1>3, <1>6, SMTT(30), ZenonT(30) DEF IsOperation
<1>7. k \in Nat
  BY <1>3
<1>. QED
  BY <1>3, <1>4, <1>5, <1>6, <1>7

\* A prologue is the first kernel of a forward.
LEMMA PrologueIs ==
  ASSUME NEW P \in Programs, NEW i, PrologueAt(P, i)
  PROVE  \E k \in Nat : /\ i = 4 * k + 1 /\ 4 * k + 4 <= Len(P)
                        /\ P[i].layer = OpLayer(P, k)
                        /\ IsOperation(P, k, ForwardKinds)
                        /\ \A j \in 0 .. k - 1 : OpLayer(P, j) # OpLayer(P, k)
<1>1. i \in 1 .. Len(P) /\ P[i].kind = "prologue"
  BY DEF PrologueAt
<1>2. PICK k \in Nat, a \in 1 .. 4 :
        /\ i = 4 * k + a /\ 4 * k + 4 <= Len(P)
        /\ P[i].layer = OpLayer(P, k)
        /\ \/ /\ IsOperation(P, k, ForwardKinds)
              /\ P[i].kind = ForwardKinds[a]
              /\ \A j \in 0 .. k - 1 : OpLayer(P, j) # OpLayer(P, k)
           \/ /\ IsOperation(P, k, BackwardKinds)
              /\ P[i].kind = BackwardKinds[a]
  BY <1>1, OperationOf
<1>3. BackwardKinds[a] # "prologue" /\ (ForwardKinds[a] = "prologue" => a = 1)
  BY DEF ForwardKinds, BackwardKinds
<1>. QED
  BY <1>1, <1>2, <1>3

\* A layer has one prologue.
LEMMA OnePrologue ==
  ASSUME NEW P \in Programs, NEW i, NEW j, PrologueAt(P, i), PrologueAt(P, j),
         P[i].layer = P[j].layer
  PROVE  i = j
<1>1. PICK k \in Nat : /\ i = 4 * k + 1 /\ P[i].layer = OpLayer(P, k)
                       /\ \A m \in 0 .. k - 1 : OpLayer(P, m) # OpLayer(P, k)
  BY PrologueIs
<1>2. PICK n \in Nat : /\ j = 4 * n + 1 /\ P[j].layer = OpLayer(P, n)
                       /\ \A m \in 0 .. n - 1 : OpLayer(P, m) # OpLayer(P, n)
  BY PrologueIs
<1>3. OpLayer(P, k) = OpLayer(P, n)
  BY <1>1, <1>2
<1>4. ~ (k < n) /\ ~ (n < k)
  BY <1>1, <1>2, <1>3
<1>. QED
  BY <1>1, <1>2, <1>4

\* The weights are saved three kernels after the layer's prologue.
LEMMA SaveIs ==
  ASSUME NEW P \in Programs, NEW i \in 1 .. Len(P), P[i].kind = "save"
  PROVE  /\ PrologueAt(P, i - 3) /\ P[i - 3].layer = P[i].layer
         /\ \A j \in 1 .. Len(P) : PrologueAt(P, j) /\ i - 3 < j => i < j
<1>1. PICK k \in Nat, a \in 1 .. 4 :
        /\ i = 4 * k + a /\ 4 * k + 4 <= Len(P)
        /\ P[i].layer = OpLayer(P, k)
        /\ \/ /\ IsOperation(P, k, ForwardKinds)
              /\ P[i].kind = ForwardKinds[a]
              /\ \A j \in 0 .. k - 1 : OpLayer(P, j) # OpLayer(P, k)
           \/ /\ IsOperation(P, k, BackwardKinds)
              /\ P[i].kind = BackwardKinds[a]
  BY OperationOf
<1>2. BackwardKinds[a] # "save" /\ (ForwardKinds[a] = "save" => a = 4)
  BY DEF ForwardKinds, BackwardKinds
<1>3. IsOperation(P, k, ForwardKinds) /\ a = 4 /\ i - 3 = 4 * k + 1
  BY <1>1, <1>2
<1>4. P[4 * k + 1] = [kind |-> ForwardKinds[1], layer |-> OpLayer(P, k)]
  BY <1>3 DEF IsOperation
<1>5. PrologueAt(P, i - 3) /\ P[i - 3].layer = P[i].layer
  <2>1. i - 3 \in 1 .. Len(P)
    BY <1>1, <1>3, ProgramIs
  <2>. QED
    BY <1>1, <1>3, <1>4, <2>1 DEF PrologueAt, ForwardKinds
<1>6. ASSUME NEW j \in 1 .. Len(P), PrologueAt(P, j), i - 3 < j
      PROVE  i < j
  <2>1. PICK n \in Nat : j = 4 * n + 1
    BY <1>6, PrologueIs
  <2>. QED
    BY <1>1, <1>3, <1>6, <2>1
<1>. QED
  BY <1>5, <1>6

\* How many prologues come before a kernel.
LEMMA PrologueCount ==
  ASSUME NEW P \in Programs, NEW i \in Nat, NEW j \in Nat, i <= j
  PROVE  LET Before_(n) == Cardinality(ProloguesBefore(P, n)) IN
         /\ Before_(i) \in Nat /\ Before_(j) \in Nat /\ Before_(i) <= Before_(j)
         /\ PrologueAt(P, i) /\ i < j => Before_(i) + 1 <= Before_(j)
         /\ PrologueAt(P, i) => Before_(i + 1) = Before_(i) + 1
         /\ ~ PrologueAt(P, i) => Before_(i + 1) = Before_(i)
<1>1. Len(P) \in Nat
  BY ProgramIs
<1>2. IsFiniteSet(1 .. Len(P))
  BY <1>1, FS_Interval
<1>3. \A n \in Nat : IsFiniteSet(ProloguesBefore(P, n)) /\ Cardinality(ProloguesBefore(P, n)) \in Nat
  <2>. TAKE n \in Nat
  <2>1. ProloguesBefore(P, n) \in SUBSET (1 .. Len(P))
    BY DEF ProloguesBefore
  <2>. QED
    BY <1>2, <2>1, FS_Subset, FS_CardinalityType
<1>4. \A m, n \in Nat : m <= n => Cardinality(ProloguesBefore(P, m)) <= Cardinality(ProloguesBefore(P, n))
  <2>. SUFFICES ASSUME NEW m \in Nat, NEW n \in Nat, m <= n
               PROVE  Cardinality(ProloguesBefore(P, m)) <= Cardinality(ProloguesBefore(P, n))
    OBVIOUS
  <2>1. ProloguesBefore(P, m) \in SUBSET ProloguesBefore(P, n)
    BY <1>1 DEF ProloguesBefore
  <2>. QED
    BY <1>3, <2>1, FS_Subset
<1>5. PrologueAt(P, i) => Cardinality(ProloguesBefore(P, i + 1)) = Cardinality(ProloguesBefore(P, i)) + 1
  <2>. SUFFICES ASSUME PrologueAt(P, i)
               PROVE  Cardinality(ProloguesBefore(P, i + 1)) = Cardinality(ProloguesBefore(P, i)) + 1
    OBVIOUS
  <2>1. ProloguesBefore(P, i + 1) = ProloguesBefore(P, i) \cup {i}
    BY <1>1 DEF ProloguesBefore, PrologueAt
  <2>2. i \notin ProloguesBefore(P, i)
    BY DEF ProloguesBefore
  <2>. QED
    BY <1>3, <2>1, <2>2, FS_AddElement
<1>6. ~ PrologueAt(P, i) => Cardinality(ProloguesBefore(P, i + 1)) = Cardinality(ProloguesBefore(P, i))
  <2>. SUFFICES ASSUME ~ PrologueAt(P, i)
               PROVE  ProloguesBefore(P, i + 1) = ProloguesBefore(P, i)
    OBVIOUS
  <2>. QED
    BY <1>1 DEF ProloguesBefore, PrologueAt
<1>7. PrologueAt(P, i) /\ i < j => Cardinality(ProloguesBefore(P, i)) + 1 <= Cardinality(ProloguesBefore(P, j))
  <2>. SUFFICES ASSUME PrologueAt(P, i), i < j
               PROVE  Cardinality(ProloguesBefore(P, i)) + 1 <= Cardinality(ProloguesBefore(P, j))
    OBVIOUS
  <2>1. i + 1 \in Nat /\ i + 1 <= j
    OBVIOUS
  <2>. QED
    BY <1>4, <1>5, <2>1
<1>. QED
  BY <1>3, <1>4, <1>5, <1>6, <1>7

-----------------------------------------------------------------------------
(***************************************************************************)
(* Where the ranks are.                                                    *)
(***************************************************************************)
LEMMA StagesAre ==
  /\ DOMAIN StageNo = {"start", "b1", "push", "b3", "tables", "scatter", "e", "clone", "run"}
  /\ StageNo["start"] = 0 /\ StageNo["b1"] = 1 /\ StageNo["push"] = 2 /\ StageNo["b3"] = 3
  /\ StageNo["tables"] = 4 /\ StageNo["scatter"] = 5 /\ StageNo["e"] = 6
  /\ StageNo["clone"] = 7 /\ StageNo["run"] = 1
  /\ Passed["start"] = 0 /\ Passed["b1"] = 0 /\ Passed["push"] = 1 /\ Passed["b3"] = 1
  /\ Passed["tables"] = 2 /\ Passed["scatter"] = 2 /\ Passed["e"] = 2
  /\ Passed["clone"] = 3 /\ Passed["run"] = 0
  /\ DOMAIN Following = {"b1", "b3", "e"}
  /\ Following["b1"] = "push" /\ Following["b3"] = "tables" /\ Following["e"] = "clone"
BY DEF StageNo, Passed, Following

LEMMA PlacesDiffer ==
  ASSUME NEW x \in Nat, NEW y \in Nat, NEW m \in 1 .. 8, NEW n \in 1 .. 8
  PROVE  8 * x + m = 8 * y + n <=> x = y /\ m = n
<1>1. ASSUME NEW a \in Nat, NEW b \in Nat, a < b
      PROVE  8 * a + 8 <= 8 * b
  BY <1>1
<1>2. x < y => 8 * x + m < 8 * y + n
  BY <1>1
<1>3. y < x => 8 * y + n < 8 * x + m
  BY <1>1
<1>. QED
  BY <1>2, <1>3

LEMMA PlaceIsNat ==
  ASSUME PlaceOK, NEW r \in Ranks
  PROVE  /\ pc[r] \in Nat /\ pc[r] >= 1 /\ Len(program) \in Nat
         /\ stage[r] \in DOMAIN StageNo
         /\ StageNo[stage[r]] \in 0 .. 7
         /\ Place(r) = 8 * pc[r] + StageNo[stage[r]] /\ Place(r) \in Nat
<1>1. /\ pc[r] \in Nat /\ pc[r] >= 1 /\ Len(program) \in Nat
      /\ stage[r] \in DOMAIN StageNo
  BY ProgramIs DEF PlaceOK
<1>2. StageNo[stage[r]] \in 0 .. 7
  BY <1>1, StagesAre
<1>. QED
  BY <1>1, <1>2, SMTT(30), ZenonT(30) DEF Place

\* A rank that has passed a barrier of a prologue has had all its returns ...
LEMMA ReturnsAtLeast ==
  ASSUME IInv, PlaceOK, CallsOK, NEW r \in Ranks, NEW i, PrologueAt(program, i)
  PROVE  LET k == 3 * Cardinality(ProloguesBefore(program, i)) IN
         /\ Reached(r, i, 2) => returns[r] >= k + 1
         /\ Reached(r, i, 4) => returns[r] >= k + 2
         /\ Reached(r, i, 7) => returns[r] >= k + 3
<1>. DEFINE B(n) == Cardinality(ProloguesBefore(program, n))
<1>1. i \in Nat /\ program \in Programs
  BY DEF PrologueAt, PlaceOK
<1>2. /\ pc[r] \in Nat /\ stage[r] \in DOMAIN StageNo /\ StageNo[stage[r]] \in 0 .. 7
      /\ Place(r) = 8 * pc[r] + StageNo[stage[r]]
  BY PlaceIsNat
<1>3. returns[r] = 3 * B(pc[r]) + Passed[stage[r]] /\ B(pc[r]) \in Nat /\ B(i) \in Nat
  BY <1>1, <1>2, PrologueCount DEF CallsOK
<1>4. Passed[stage[r]] \in 0 .. 3
  BY <1>2, StagesAre
<1>5. CASE pc[r] < i
  <2>1. ~ Reached(r, i, 2) /\ ~ Reached(r, i, 4) /\ ~ Reached(r, i, 7)
    BY <1>1, <1>2, <1>5 DEF Reached
  <2>. QED
    BY <2>1
<1>6. CASE pc[r] > i
  <2>1. B(i) + 1 <= B(pc[r])
    BY <1>1, <1>2, <1>6, PrologueCount
  <2>. QED
    BY <1>3, <1>4, <2>1
<1>7. CASE pc[r] = i
  <2>1. /\ Reached(r, i, 2) => StageNo[stage[r]] >= 2
        /\ Reached(r, i, 4) => StageNo[stage[r]] >= 4
        /\ Reached(r, i, 7) => StageNo[stage[r]] >= 7
    BY <1>1, <1>2, <1>7 DEF Reached
  <2>2. /\ StageNo[stage[r]] >= 2 => Passed[stage[r]] >= 1
        /\ StageNo[stage[r]] >= 4 => Passed[stage[r]] >= 2
        /\ StageNo[stage[r]] >= 7 => Passed[stage[r]] >= 3
    BY <1>2, StagesAre
  <2>. QED
    BY <1>3, <1>4, <1>7, <2>1, <2>2
<1>. QED
  BY <1>1, <1>2, <1>5, <1>6, <1>7

\* ... and one that has not come to it has not called it.
LEMMA CallsAtMost ==
  ASSUME IInv, PlaceOK, CallsOK, NEW r \in Ranks, NEW i, PrologueAt(program, i)
  PROVE  LET k == 3 * Cardinality(ProloguesBefore(program, i)) IN
         /\ ~ Reached(r, i, 1) => calls[r] <= k
         /\ ~ Reached(r, i, 3) => calls[r] <= k + 1
         /\ ~ Reached(r, i, 6) => calls[r] <= k + 2
<1>. DEFINE B(n) == Cardinality(ProloguesBefore(program, n))
            C == IF stage[r] \in DOMAIN Following THEN 1 ELSE 0
<1>1. i \in Nat /\ program \in Programs
  BY DEF PrologueAt, PlaceOK
<1>2. /\ pc[r] \in Nat /\ stage[r] \in DOMAIN StageNo /\ StageNo[stage[r]] \in 0 .. 7
      /\ Place(r) = 8 * pc[r] + StageNo[stage[r]]
  BY PlaceIsNat
<1>3. returns[r] = 3 * B(pc[r]) + Passed[stage[r]] /\ B(pc[r]) \in Nat /\ B(i) \in Nat
  BY <1>1, <1>2, PrologueCount DEF CallsOK
<1>4. calls[r] <= returns[r] + C /\ calls[r] \in Nat /\ returns[r] \in Nat
  BY DEF IInv, Typed, InStep, CallsOK
<1>5. Passed[stage[r]] + C \in 0 .. 3 /\ Passed[stage[r]] \in 0 .. 3 /\ C \in 0 .. 1
  BY <1>2, StagesAre
<1>6. calls[r] <= 3 * B(pc[r]) + Passed[stage[r]] + C
  BY <1>3, <1>4, <1>5
<1>7. CASE pc[r] < i
  <2>1. CASE PrologueAt(program, pc[r])
    <3>1. B(pc[r]) + 1 <= B(i)
      BY <1>1, <1>2, <1>7, <2>1, PrologueCount
    <3>. QED
      BY <1>3, <1>4, <1>5, <1>6, <3>1
  <2>2. CASE ~ PrologueAt(program, pc[r])
    <3>1. B(pc[r]) <= B(i)
      BY <1>1, <1>2, <1>7, PrologueCount
    <3>2. stage[r] \in {"start", "run"}
      BY <1>1, <1>2, <2>2 DEF PlaceOK, Running, PrologueAt
    <3>3. Passed[stage[r]] + C = 0
      BY <3>2, StagesAre
    <3>. QED
      BY <1>3, <1>4, <1>5, <1>6, <3>1, <3>3
  <2>. QED
    BY <2>1, <2>2
<1>8. CASE pc[r] > i
  <2>1. Reached(r, i, 1) /\ Reached(r, i, 3) /\ Reached(r, i, 6)
    BY <1>1, <1>2, <1>8 DEF Reached
  <2>. QED
    BY <2>1
<1>9. CASE pc[r] = i
  <2>1. /\ ~ Reached(r, i, 1) => StageNo[stage[r]] < 1
        /\ ~ Reached(r, i, 3) => StageNo[stage[r]] < 3
        /\ ~ Reached(r, i, 6) => StageNo[stage[r]] < 6
    BY <1>1, <1>2, <1>9 DEF Reached
  <2>2. stage[r] # "run"
    BY <1>1, <1>9 DEF PlaceOK, PrologueAt, Running
  <2>3. /\ StageNo[stage[r]] < 1 => Passed[stage[r]] + C <= 0
        /\ StageNo[stage[r]] < 3 => Passed[stage[r]] + C <= 1
        /\ StageNo[stage[r]] < 6 => Passed[stage[r]] + C <= 2
    BY <1>2, <2>2, StagesAre
  <2>. HIDE DEF C
  <2>. QED
    BY <1>3, <1>4, <1>5, <1>6, <1>9, <2>1, <2>3
<1>. QED
  BY <1>1, <1>2, <1>7, <1>8, <1>9

(***************************************************************************)
(* The three barriers of a prologue, seen from the places of the ranks.    *)
(***************************************************************************)
LEMMA Meets ==
  ASSUME IInv, PlaceOK, CallsOK, NEW r \in Ranks, NEW q \in Ranks, NEW i, PrologueAt(program, i)
  PROVE  /\ Reached(r, i, 2) => Reached(q, i, 1)
         /\ Reached(r, i, 4) => Reached(q, i, 3)
         /\ Reached(r, i, 7) => Reached(q, i, 6)
<1>. DEFINE k == 3 * Cardinality(ProloguesBefore(program, i))
<1>1. k \in Nat
  <2>1. i \in Nat /\ program \in Programs
    BY DEF PrologueAt, PlaceOK
  <2>2. Cardinality(ProloguesBefore(program, i)) \in Nat
    BY <2>1, PrologueCount
  <2>. QED
    BY <2>2
<1>2. returns[r] <= calls[q] /\ returns[r] \in Nat /\ calls[q] \in Nat
  <2>1. returns[r] <= Sent(q, r)
    BY DEF IInv, ReturnsSignalled
  <2>2. Sent(q, r) \in Nat /\ Sent(q, r) <= calls[q]
    BY SentIsNat DEF IInv
  <2>. QED
    BY <2>1, <2>2 DEF IInv, Typed
<1>3. /\ Reached(r, i, 2) => returns[r] >= k + 1
      /\ Reached(r, i, 4) => returns[r] >= k + 2
      /\ Reached(r, i, 7) => returns[r] >= k + 3
  BY ReturnsAtLeast
<1>4. /\ ~ Reached(q, i, 1) => calls[q] <= k
      /\ ~ Reached(q, i, 3) => calls[q] <= k + 1
      /\ ~ Reached(q, i, 6) => calls[q] <= k + 2
  BY CallsAtMost
<1>. HIDE DEF k
<1>. QED
  BY <1>1, <1>2, <1>3, <1>4

-----------------------------------------------------------------------------
(***************************************************************************)
(* Handles.                                                                *)
(***************************************************************************)
LEMMA TablesAre ==
  ASSUME NEW R, NEW r, NEW h, HasTables(h, R, r)
  PROVE  /\ \A e \in Experts : /\ h.sendRow[e] = SegmentStart(Matrix(R), r, e)
                              /\ h.offset[e] = SourceOffset(Matrix(R), r, e)
         /\ h.sendCount = Matrix(R)[r]
         /\ \A e \in Local(r) : /\ \A q \in Ranks :
                                   /\ h.recvRow[e][q] = SegmentStart(Matrix(R), q, e)
                                   /\ h.recvCount[e][q] = Matrix(R)[q][e]
                               /\ h.base[e] = PoolBase(Matrix(R), e)
                               /\ h.total[e] = ExpertTotal(Matrix(R), e)
         /\ DOMAIN h.expert = 0 .. RealTiles(Matrix(R), r) - 1
         /\ \A i \in 0 .. RealTiles(Matrix(R), r) - 1 :
              h.expert[i] = TileToExpert(Matrix(R), r, i)
<1>. DEFINE c == Matrix(R)
<1>. HIDE DEF c
<1>1. /\ h.sendRow   = [e \in Experts |-> SegmentStart(c, r, e)]
      /\ h.sendCount = c[r]
      /\ h.offset    = [e \in Experts |-> SourceOffset(c, r, e)]
      /\ h.recvRow   = [e \in Local(r) |-> [q \in Ranks |-> SegmentStart(c, q, e)]]
      /\ h.recvCount = [e \in Local(r) |-> [q \in Ranks |-> c[q][e]]]
      /\ h.base      = [e \in Local(r) |-> PoolBase(c, e)]
      /\ h.total     = [e \in Local(r) |-> ExpertTotal(c, e)]
      /\ h.expert    = [i \in 0 .. RealTiles(c, r) - 1 |-> TileToExpert(c, r, i)]
  BY DEF HasTables, Tables, TablesOf, c
<1>. QED
  BY <1>1 DEF c

LEMMA NewTables ==
  ASSUME NEW R, NEW r
  PROVE  LET h == TablesOf(Matrix(R), r) IN
         HasTables(h, R, r) /\ h.token = <<>> /\ h.slot = <<>> /\ h.weight = <<>>
BY DEF HasTables, Tables, TablesOf

\* A field filled in leaves the rest.
IsFilled(g, h, f, x) ==
  /\ DOMAIN g = DOMAIN h /\ g[f] = x
  /\ \A k \in DOMAIN h \ {f} : g[k] = h[k]

LEMMA FilledIn ==
  ASSUME NEW R, NEW r, NEW h, HasTables(h, R, r), NEW f \in {"token", "slot", "weight"},
         NEW x, NEW g, IsFilled(g, h, f, x)
  PROVE  /\ HasTables(g, R, r)
         /\ f = "token"  => g.token = x /\ g.slot = h.slot /\ g.weight = h.weight
         /\ f = "slot"   => g.slot = x /\ g.token = h.token /\ g.weight = h.weight
         /\ f = "weight" => g.weight = x /\ g.token = h.token /\ g.slot = h.slot
BY DEF HasTables, Tables, IsFilled

LEMMA RoutingIs ==
  ASSUME PlaceOK, NEW l \in Layers
  PROVE  /\ routing[l] \in Choosing
         /\ \A r \in Ranks : /\ Sum(PaddedTotals(Matrix(routing[l])), Local(r)) <= PoolTokens
                             /\ PoolTokens \in Nat
         /\ Matrix(routing[l]) \in Matrices
<1>1. routing \in Routings
  BY DEF PlaceOK
<1>2. routing[l] \in Choosing
  BY <1>1, MegaAssumption DEF Choosing
<1>. QED
  BY <1>1, <1>2, PoolSuffices, MatrixIs

\* The rows of a segment lie in the pool.
LEMMA SegmentInPool ==
  ASSUME PlaceOK, NEW l \in Layers, NEW r \in Ranks, NEW e \in Local(r), NEW q \in Ranks,
         NEW row \in Segment(routing[l], q, e)
  PROVE  row \in PoolRows
<1>. DEFINE c == Matrix(routing[l])
<1>1. /\ c \in Matrices /\ PoolTokens \in Nat
      /\ Sum(PaddedTotals(c), Local(r)) <= PoolTokens
  BY RoutingIs
<1>2. row \in Rows(SegmentStart(c, q, e), c[q][e])
  BY DEF Segment
<1>. HIDE DEF c
<1>3. row \in Nat /\ row < PoolBase(c, e) + PaddedTotals(c)[e]
  BY <1>1, <1>2, RowsOfSegments
<1>4. /\ PoolBase(c, e) + PaddedTotals(c)[e] <= Sum(PaddedTotals(c), Local(r))
      /\ PoolBase(c, e) \in Nat
  BY <1>1, BaseIs
<1>5. e \in Experts
  BY LocalIs
<1>6. PaddedTotals(c)[e] \in Nat /\ Sum(PaddedTotals(c), Local(r)) \in Nat
  BY <1>1, <1>5, Totals, TilesAre, Numbers
<1>. QED
  BY <1>1, <1>3, <1>4, <1>6 DEF PoolRows

-----------------------------------------------------------------------------
(***************************************************************************)
(* Steps.                                                                  *)
(***************************************************************************)
Others(r) == \A q \in Ranks \ {r} : pc'[q] = pc[q] /\ stage'[q] = stage[q]

\* Steps that have nothing to do with the prologue.
Quiet(r) ==
  /\ Running(r) /\ program[pc[r]].kind # "prologue"
  /\ \/ Stay
     \/ stage[r] = "start" /\ GoTo(r, "run")
     \/ NextKernel(r)
  /\ UNCHANGED <<program, routing, scratch, counts, handle, origin, xgmiVars>>

LEMMA Steps ==
  ASSUME PlaceOK, NEW r \in Ranks, RankStep(r)
  PROVE  \/ Histogram(r) \/ BarrierStep(r) \/ PushCounts(r) \/ BuildTables(r)
         \/ Scatter(r) \/ CloneSlots(r) \/ SaveWeights(r) \/ Quiet(r)
<1>1. ASSUME DispatchStep(r) PROVE Quiet(r)
  <2>1. CASE BeginDispatch(r)
    BY <2>1 DEF BeginDispatch, Quiet, In, Dispatches, dataVars
  <2>2. CASE EndDispatch(r)
    BY <2>2 DEF EndDispatch, Quiet, In, Dispatches, dataVars, localVars
  <2>3. CASE WeightGrad2(r)
    BY <2>3 DEF WeightGrad2, Quiet, In, dataVars, localVars
  <2>4. ASSUME NEW e \in Experts, PushTask(r, e) PROVE Quiet(r)
    BY <2>4 DEF PushTask, Quiet, In, Dispatches, localVars
  <2>5. ASSUME NEW e \in Experts, SignalTask(r, e) PROVE Quiet(r)
    BY <2>5 DEF SignalTask, Quiet, In, Dispatches, localVars
  <2>6. ASSUME NEW piece \in Tiles \cup Experts, FinishPiece(r, piece) PROVE Quiet(r)
    BY <2>6 DEF FinishPiece, Quiet, In, Dispatches, dataVars, localVars
  <2>. QED
    BY <1>1, <2>1, <2>2, <2>3, <2>4, <2>5, <2>6 DEF DispatchStep
<1>2. ASSUME CombineStep(r) PROVE Quiet(r)
  <2>1. CASE BeginCombine(r)
    BY <2>1 DEF BeginCombine, Quiet, In, dataVars
  <2>2. CASE AlignEmptyTiles(r)
    BY <2>2 DEF AlignEmptyTiles, Quiet, In, dataVars
  <2>3. CASE EndCombine(r)
    BY <2>3 DEF EndCombine, Quiet, In, dataVars, localVars
  <2>4. ASSUME NEW i \in Tiles, NEW n \in 1 .. NBlocks, StoreBlock(r, i, n) \/ CountBlock(r, i, n)
        PROVE  Quiet(r)
    BY <2>4 DEF StoreBlock, CountBlock, Quiet, In, dataVars
  <2>5. ASSUME NEW seg \in Experts \X Ranks, PushSegment(r, seg) PROVE Quiet(r)
    BY <2>5 DEF PushSegment, Quiet, In, localVars
  <2>6. ASSUME NEW seg \in Experts \X Ranks, SignalSegment(r, seg) PROVE Quiet(r)
    BY <2>6 DEF SignalSegment, Quiet, In, localVars
  <2>7. ASSUME NEW t \in Tokens, ReduceToken(r, t) PROVE Quiet(r)
    BY <2>7 DEF ReduceToken, Quiet, In, dataVars, localVars
  <2>. QED
    BY <1>2, <2>1, <2>2, <2>3, <2>4, <2>5, <2>6, <2>7 DEF CombineStep
<1>. QED
  BY <1>1, <1>2 DEF RankStep, PrologueStep

\* A step of r that takes it to stage n of the prologue it is in ...
Comes(r, n) ==
  /\ PrologueAt(program, pc[r]) /\ Place(r) = 8 * pc[r] + n - 1
  /\ \A q \in Ranks, i \in 1 .. Len(program), m \in 1 .. 8 :
       PrologueAt(program, i) =>
         (Reached(q, i, m)' <=> Reached(q, i, m) \/ (q = r /\ i = pc[r] /\ m = n))

\* ... and one that leaves the ranks where they are, as far as prologues go.
Stays ==
  \A q \in Ranks, i \in 1 .. Len(program), m \in 1 .. 8 :
    PrologueAt(program, i) => (Reached(q, i, m)' <=> Reached(q, i, m))

LEMMA ComesNext ==
  ASSUME PlaceOK, NEW r \in Ranks, UNCHANGED program, PrologueAt(program, pc[r]), Others(r),
         Place(r)' = Place(r) + 1, NEW n \in 1 .. 8, n = StageNo[stage[r]] + 1
  PROVE  Comes(r, n)
<1>0. Place(r) = 8 * pc[r] + n - 1
  BY PlaceIsNat, SMTT(30), ZenonT(30)
<1>. SUFFICES ASSUME NEW q \in Ranks, NEW i \in 1 .. Len(program), NEW m \in 1 .. 8
             PROVE  Reached(q, i, m)' <=> Reached(q, i, m) \/ (q = r /\ i = pc[r] /\ m = n)
  BY <1>0 DEF Comes
<1>1. CASE q # r
  BY <1>1 DEF Reached, Place, Others
<1>2. CASE q = r
  <2>1. pc[r] \in Nat /\ Place(r) \in Nat /\ i \in Nat
    BY PlaceIsNat
  <2>2. Reached(r, i, m)' <=> 8 * i + m <= Place(r) + 1
    BY DEF Reached
  <2>3. 8 * i + m = 8 * pc[r] + n <=> i = pc[r] /\ m = n
    <3>1. ASSUME NEW x \in Nat, NEW y \in Nat
          PROVE  8 * x + m = 8 * y + n <=> x = y /\ m = n
      BY PlacesDiffer, SMTT(30), ZenonT(30)
    <3>. QED
      BY <2>1, <3>1
  <2>4. 8 * i + m <= Place(r) + 1 <=> 8 * i + m <= Place(r) \/ 8 * i + m = Place(r) + 1
    BY <2>1
  <2>5. Place(r) + 1 = 8 * pc[r] + n
    BY <1>0, <2>1
  <2>. QED
    BY <1>2, <2>2, <2>3, <2>4, <2>5 DEF Reached
<1>. QED
  BY <1>1, <1>2

LEMMA QuietStays ==
  ASSUME PlaceOK, NEW r \in Ranks, Quiet(r)
  PROVE  Stays /\ Others(r) /\ PlaceOK'
<1>1. /\ pc[r] \in 1 .. Len(program) /\ ~ PrologueAt(program, pc[r])
      /\ stage[r] \in {"start", "run"} /\ Len(program) \in Nat
      /\ pc \in [Ranks -> 1 .. Len(program) + 1] /\ stage \in [Ranks -> DOMAIN StageNo]
  BY PlaceIsNat DEF Quiet, PlaceOK, Running, PrologueAt
<1>2. CASE Stay
  BY <1>2 DEF Quiet, Stay, Stays, Others, Reached, Place, PlaceOK, Running
<1>3. CASE stage[r] = "start" /\ GoTo(r, "run")
  <2>1. /\ pc' = pc /\ stage' \in [Ranks -> DOMAIN StageNo] /\ stage'[r] = "run"
        /\ program' = program /\ routing' = routing
        /\ \A q \in Ranks \ {r} : stage'[q] = stage[q]
    BY <1>1, <1>3, StagesAre DEF GoTo, Quiet
  <2>2. PlaceOK'
    BY <1>1, <2>1 DEF Quiet, PlaceOK, Running
  <2>3. Place(r) = 8 * pc[r] /\ Place(r)' = 8 * pc[r] + 1
    BY <1>1, <1>3, <2>1, StagesAre DEF Place
  <2>4. Stays
    <3>. SUFFICES ASSUME NEW q \in Ranks, NEW i \in 1 .. Len(program), NEW m \in 1 .. 8,
                        PrologueAt(program, i)
                 PROVE  Reached(q, i, m)' <=> Reached(q, i, m)
      BY DEF Stays
    <3>1. CASE q # r
      BY <2>1, <3>1 DEF Reached, Place
    <3>2. CASE q = r
      <4>1. i # pc[r]
        BY <1>1
      <4>. QED
        BY <1>1, <2>3, <3>2, <4>1 DEF Reached
    <3>. QED
      BY <3>1, <3>2
  <2>. QED
    BY <2>1, <2>2, <2>4 DEF Others
<1>4. CASE NextKernel(r)
  <2>1. /\ pc' \in [Ranks -> 1 .. Len(program) + 1] /\ stage' \in [Ranks -> DOMAIN StageNo]
        /\ pc'[r] = pc[r] + 1 /\ stage'[r] = "start"
        /\ program' = program /\ routing' = routing
        /\ \A q \in Ranks \ {r} : pc'[q] = pc[q] /\ stage'[q] = stage[q]
    BY <1>1, <1>4, StagesAre DEF NextKernel, Quiet
  <2>2. PlaceOK'
    BY <1>1, <2>1 DEF Quiet, PlaceOK, Running
  <2>3. Place(r) \in {8 * pc[r], 8 * pc[r] + 1} /\ Place(r)' = 8 * (pc[r] + 1)
    BY <1>1, <2>1, StagesAre DEF Place
  <2>4. Stays
    <3>. SUFFICES ASSUME NEW q \in Ranks, NEW i \in 1 .. Len(program), NEW m \in 1 .. 8,
                        PrologueAt(program, i)
                 PROVE  Reached(q, i, m)' <=> Reached(q, i, m)
      BY DEF Stays
    <3>1. CASE q # r
      BY <2>1, <3>1 DEF Reached, Place
    <3>2. CASE q = r
      <4>1. i # pc[r] /\ pc[r] \in Nat
        BY <1>1
      <4>. QED
        BY <2>3, <3>2, <4>1 DEF Reached
    <3>. QED
      BY <3>1, <3>2
  <2>. QED
    BY <2>1, <2>2, <2>4 DEF Others
<1>. QED
  BY <1>2, <1>3, <1>4 DEF Quiet

LEMMA AtPrologue ==
  ASSUME PlaceOK, NEW r \in Ranks, NEW w, In(r, {"prologue"}, w)
  PROVE  /\ PrologueAt(program, pc[r]) /\ stage[r] = w /\ Layer(r) \in Layers
         /\ Layer(r) = program[pc[r]].layer /\ pc[r] \in 1 .. Len(program)
<1>1. pc[r] \in 1 .. Len(program) /\ program[pc[r]].kind = "prologue" /\ stage[r] = w
  BY PlaceIsNat DEF In, Running
<1>2. program[pc[r]].layer \in Layers
  BY <1>1, ProgramIs DEF PlaceOK
<1>. QED
  BY <1>1, <1>2 DEF PrologueAt, Layer

LEMMA AtBarrier ==
  ASSUME PlaceOK, NEW r \in Ranks, Running(r), stage[r] \in DOMAIN Following
  PROVE  In(r, {"prologue"}, stage[r])
BY StagesAre DEF PlaceOK, In

\* The moves from one stage of a prologue to the next.
LEMMA GoesOn ==
  ASSUME PlaceOK, NEW r \in Ranks, NEW v, In(r, {"prologue"}, v), NEW w,
         w \in DOMAIN StageNo \ {"start", "run"}, StageNo[w] = StageNo[v] + 1,
         GoTo(r, w), UNCHANGED <<program, routing>>
  PROVE  /\ Comes(r, StageNo[w]) /\ Others(r) /\ PlaceOK'
         /\ pc'[r] = pc[r] /\ stage'[r] = w
<1>1. /\ PrologueAt(program, pc[r]) /\ stage[r] = v /\ pc[r] \in 1 .. Len(program)
      /\ Len(program) \in Nat
  BY AtPrologue, PlaceIsNat
<1>2. /\ pc' = pc /\ stage' \in [Ranks -> DOMAIN StageNo] /\ stage'[r] = w
      /\ \A q \in Ranks \ {r} : stage'[q] = stage[q]
  BY DEF GoTo, PlaceOK
<1>3. PlaceOK'
  BY <1>1, <1>2 DEF PlaceOK, Running, PrologueAt
<1>4. Others(r)
  BY <1>2 DEF Others
<1>5. StageNo[v] \in 0 .. 7 /\ StageNo[w] \in 1 .. 8 /\ pc[r] \in Nat
  BY <1>1, PlaceIsNat, StagesAre
<1>6. Place(r)' = Place(r) + 1
  BY <1>1, <1>2, <1>5 DEF Place
<1>7. Comes(r, StageNo[w])
  BY <1>1, <1>4, <1>5, <1>6, ComesNext
<1>. QED
  BY <1>2, <1>3, <1>4, <1>7

LEMMA GoesOut ==
  ASSUME PlaceOK, NEW r \in Ranks, In(r, {"prologue"}, "clone"),
         NextKernel(r), UNCHANGED <<program, routing>>
  PROVE  /\ Comes(r, 8) /\ Others(r) /\ PlaceOK'
         /\ pc'[r] = pc[r] + 1 /\ stage'[r] = "start"
<1>1. /\ PrologueAt(program, pc[r]) /\ stage[r] = "clone" /\ pc[r] \in 1 .. Len(program)
      /\ Len(program) \in Nat
  BY AtPrologue, PlaceIsNat
<1>2. /\ stage' \in [Ranks -> DOMAIN StageNo] /\ stage'[r] = "start"
      /\ pc' \in [Ranks -> 1 .. Len(program) + 1] /\ pc'[r] = pc[r] + 1
      /\ \A q \in Ranks \ {r} : pc'[q] = pc[q] /\ stage'[q] = stage[q]
  BY <1>1, StagesAre DEF NextKernel, PlaceOK
<1>3. PlaceOK'
  BY <1>1, <1>2 DEF PlaceOK, Running, PrologueAt
<1>4. Others(r)
  BY <1>2 DEF Others
<1>5. StageNo["clone"] = 7 /\ StageNo["start"] = 0 /\ pc[r] \in Nat
  BY <1>1, StagesAre
<1>6. Place(r)' = Place(r) + 1
  BY <1>1, <1>2, <1>5 DEF Place
<1>7. Comes(r, 8)
  BY <1>1, <1>4, <1>5, <1>6, ComesNext
<1>. QED
  BY <1>2, <1>3, <1>4, <1>7

\* The save is no prologue: for the prologues, its rank stays where it is.
LEMMA SaveMoves ==
  ASSUME PlaceOK, NEW r \in Ranks, SaveWeights(r)
  PROVE  Stays /\ Others(r) /\ PlaceOK' /\ pc'[r] = pc[r] + 1 /\ stage'[r] = "start"
<1>1. /\ pc[r] \in 1 .. Len(program) /\ program[pc[r]].kind = "save"
      /\ stage[r] = "start" /\ Len(program) \in Nat
      /\ pc \in [Ranks -> 1 .. Len(program) + 1] /\ stage \in [Ranks -> DOMAIN StageNo]
  BY PlaceIsNat DEF SaveWeights, In, Running, PlaceOK
<1>2. /\ stage' \in [Ranks -> DOMAIN StageNo] /\ stage'[r] = "start"
      /\ pc' \in [Ranks -> 1 .. Len(program) + 1] /\ pc'[r] = pc[r] + 1
      /\ program' = program /\ routing' = routing
      /\ \A q \in Ranks \ {r} : pc'[q] = pc[q] /\ stage'[q] = stage[q]
  BY <1>1, StagesAre DEF SaveWeights, NextKernel
<1>3. PlaceOK'
  BY <1>1, <1>2 DEF PlaceOK, Running
<1>4. Others(r)
  BY <1>2 DEF Others
<1>5. Place(r) = 8 * pc[r] /\ Place(r)' = 8 * (pc[r] + 1)
  BY <1>1, <1>2, StagesAre DEF Place
<1>6. Stays
  <2>. SUFFICES ASSUME NEW q \in Ranks, NEW i \in 1 .. Len(program), NEW m \in 1 .. 8,
                      PrologueAt(program, i)
               PROVE  Reached(q, i, m)' <=> Reached(q, i, m)
    BY DEF Stays
  <2>1. CASE q # r
    BY <1>2, <2>1 DEF Reached, Place
  <2>2. CASE q = r
    <3>1. i # pc[r] /\ pc[r] \in Nat
      BY <1>1 DEF PrologueAt
    <3>. QED
      BY <1>5, <2>2, <3>1 DEF Reached
  <2>. QED
    BY <2>1, <2>2
<1>. QED
  BY <1>2, <1>3, <1>4, <1>6

-----------------------------------------------------------------------------
(***************************************************************************)
(* Three calls of the barrier in every prologue.                           *)
(***************************************************************************)
LEMMA CallsKept ==
  ASSUME IInv, PlaceOK, CallsOK, NEW r \in Ranks, Others(r), UNCHANGED program,
         \A q \in Ranks \ {r} : returns'[q] = returns[q] /\ at'[q] = at[q],
         returns'[r] - returns[r]
           = (3 * Cardinality(ProloguesBefore(program, pc'[r])) + Passed[stage'[r]])
             - (3 * Cardinality(ProloguesBefore(program, pc[r])) + Passed[stage[r]]),
         3 * Cardinality(ProloguesBefore(program, pc'[r])) + Passed[stage'[r]] \in Nat,
         returns'[r] \in Nat,
         at'[r] # "out" => stage'[r] \in DOMAIN Following
  PROVE  CallsOK'
<1>. SUFFICES ASSUME NEW q \in Ranks
             PROVE  /\ returns'[q] = 3 * Cardinality(ProloguesBefore(program', pc'[q])) + Passed[stage'[q]]
                    /\ at'[q] # "out" => stage'[q] \in DOMAIN Following
  BY DEF CallsOK
<1>1. CASE q # r
  BY <1>1 DEF CallsOK, Others
<1>2. CASE q = r
  <2>. DEFINE new == 3 * Cardinality(ProloguesBefore(program, pc'[r])) + Passed[stage'[r]]
              old == 3 * Cardinality(ProloguesBefore(program, pc[r])) + Passed[stage[r]]
  <2>1. returns[r] = old /\ returns[r] \in Nat /\ new \in Nat
    BY DEF CallsOK, IInv, Typed
  <2>2. returns'[r] - returns[r] = new - old
    OBVIOUS
  <2>. HIDE DEF new, old
  <2>3. returns'[r] = new
    BY <2>1, <2>2
  <2>. QED
    BY <1>2, <2>3 DEF new
<1>. QED
  BY <1>1, <1>2

LEMMA SameCalls ==
  ASSUME IInv, PlaceOK, CallsOK, NEW r \in Ranks, Others(r), UNCHANGED <<program, returns, at>>,
         \/ pc'[r] = pc[r] /\ Passed[stage'[r]] = Passed[stage[r]]
         \/ /\ pc'[r] = pc[r] + 1 /\ ~ PrologueAt(program, pc[r])
            /\ Passed[stage'[r]] = Passed[stage[r]],
         stage[r] \notin DOMAIN Following
  PROVE  CallsOK'
<1>1. pc[r] \in Nat /\ program \in Programs /\ stage[r] \in DOMAIN StageNo
  BY PlaceIsNat DEF PlaceOK
<1>2. /\ Cardinality(ProloguesBefore(program, pc[r])) \in Nat
      /\ ~ PrologueAt(program, pc[r]) =>
           Cardinality(ProloguesBefore(program, pc[r] + 1)) = Cardinality(ProloguesBefore(program, pc[r]))
  BY <1>1, PrologueCount
<1>3. Passed[stage[r]] \in Nat
  BY <1>1, StagesAre
<1>4. at[r] = "out" /\ returns[r] \in Nat
  BY DEF CallsOK, IInv, Typed
<1>5. Cardinality(ProloguesBefore(program, pc'[r])) = Cardinality(ProloguesBefore(program, pc[r]))
  BY <1>2
<1>. QED
  BY <1>2, <1>3, <1>4, <1>5, CallsKept

LEMMA QuietCalls ==
  ASSUME IInv, PlaceOK, CallsOK, NEW r \in Ranks, Quiet(r)
  PROVE  CallsOK'
<1>1. /\ ~ PrologueAt(program, pc[r]) /\ stage[r] \in {"start", "run"}
      /\ pc \in [Ranks -> 1 .. Len(program) + 1] /\ stage \in [Ranks -> DOMAIN StageNo]
  BY DEF Quiet, PlaceOK, Running, PrologueAt
<1>2. Others(r) /\ UNCHANGED <<program, returns, at>>
  BY QuietStays DEF Quiet, xgmiVars
<1>3. \/ pc'[r] = pc[r] /\ stage'[r] \in {stage[r], "run"}
      \/ pc'[r] = pc[r] + 1 /\ stage'[r] = "start"
  BY <1>1 DEF Quiet, Stay, GoTo, NextKernel
<1>4. Passed[stage'[r]] = Passed[stage[r]] /\ stage[r] \notin DOMAIN Following
  BY <1>1, <1>3, StagesAre
<1>. QED
  BY <1>1, <1>2, <1>3, <1>4, SameCalls

-----------------------------------------------------------------------------
(***************************************************************************)
(* What a step leaves as it is.                                            *)
(***************************************************************************)
LEMMA NewScratch ==
  ASSUME ScratchOK, NEW r \in Ranks, Others(r), UNCHANGED <<program, routing>>,
         NEW new, scratch' = [scratch EXCEPT ![r] = new], new = Expected(r)'
  PROVE  ScratchOK'
<1>1. \A q \in Ranks \ {r} : Expected(q)' = Expected(q)
  BY DEF Others, Expected, Layer
<1>2. scratch' = [q \in Ranks |-> Expected(q)']
  BY <1>1 DEF ScratchOK
<1>. QED
  BY <1>2 DEF ScratchOK

LEMMA SameScratch ==
  ASSUME ScratchOK, NEW r \in Ranks, Others(r), UNCHANGED <<program, routing, scratch>>,
         \/ pc'[r] = pc[r] /\ (stage'[r] \in Counted <=> stage[r] \in Counted)
         \/ stage'[r] \notin Counted /\ stage[r] \notin Counted
  PROVE  ScratchOK'
<1>1. Expected(r)' = Expected(r)
  BY DEF Expected, Layer
<1>2. scratch[r] = Expected(r) /\ scratch' = [scratch EXCEPT ![r] = Expected(r)]
  BY DEF ScratchOK
<1>. QED
  BY <1>1, <1>2, NewScratch

LEMMA SameCounts ==
  ASSUME CountsOK, UNCHANGED <<program, routing, counts>>,
         \A q \in Ranks, i \in 1 .. Len(program) :
           PrologueAt(program, i) => (Reached(q, i, 3)' <=> Reached(q, i, 3))
  PROVE  CountsOK'
BY DEF CountsOK

LEMMA SameHandles ==
  ASSUME HandleOK, OriginOK, SlotsOK, UNCHANGED <<program, routing, handle, origin>>,
         \A q \in Ranks, i \in 1 .. Len(program) : PrologueAt(program, i) =>
           /\ Reached(q, i, 5)' <=> Reached(q, i, 5)
           /\ Reached(q, i, 6)' <=> Reached(q, i, 6)
           /\ Reached(q, i, 8)' <=> Reached(q, i, 8)
           /\ Reached(q, i, 1) => Reached(q, i, 1)'
  PROVE  HandleOK' /\ OriginOK' /\ SlotsOK'
<1>1. HandleOK'
  BY DEF HandleOK
<1>2. \A r \in Ranks, i \in 1 .. Len(program) :
        Current(r, i)' => Current(r, i)
  BY DEF Current
<1>3. \A q, r, l, slot : Agree(q, r, l, slot)' <=> Agree(q, r, l, slot)
  BY DEF Agree
<1>4. OriginOK'
  BY <1>2, <1>3 DEF OriginOK
<1>5. SlotsOK'
  BY <1>3 DEF SlotsOK
<1>. QED
  BY <1>1, <1>4, <1>5

LEMMA ComesHandles ==
  ASSUME HandleOK, OriginOK, SlotsOK, UNCHANGED <<program, routing, handle, origin>>,
         NEW r \in Ranks, NEW n \in (1 .. 8) \ {5, 6, 8}, Comes(r, n) \/ Stays
  PROVE  HandleOK' /\ OriginOK' /\ SlotsOK'
<1>1. \A q \in Ranks, i \in 1 .. Len(program) : PrologueAt(program, i) =>
        /\ Reached(q, i, 5)' <=> Reached(q, i, 5)
        /\ Reached(q, i, 6)' <=> Reached(q, i, 6)
        /\ Reached(q, i, 8)' <=> Reached(q, i, 8)
        /\ Reached(q, i, 1) => Reached(q, i, 1)'
  BY DEF Comes, Stays
<1>. QED
  BY <1>1, SameHandles

LEMMA ComesCounts ==
  ASSUME CountsOK, UNCHANGED <<program, routing, counts>>,
         NEW r \in Ranks, NEW n \in (1 .. 8) \ {3}, Comes(r, n) \/ Stays
  PROVE  CountsOK'
<1>1. \A q \in Ranks, i \in 1 .. Len(program) :
        PrologueAt(program, i) => (Reached(q, i, 3)' <=> Reached(q, i, 3))
  BY DEF Comes, Stays
<1>. QED
  BY <1>1, SameCounts

-----------------------------------------------------------------------------
(***************************************************************************)
(* The steps, one by one.                                                  *)
(***************************************************************************)
LEMMA InvOfQuiet ==
  ASSUME PrologueInv, NEW r \in Ranks, Quiet(r)
  PROVE  PlaceOK' /\ CallsOK' /\ ScratchOK' /\ CountsOK' /\ HandleOK' /\ OriginOK' /\ SlotsOK'
<1>. USE DEF PrologueInv
<1>1. Stays /\ Others(r) /\ PlaceOK'
  BY QuietStays
<1>2. CallsOK'
  BY QuietCalls
<1>3. UNCHANGED <<program, routing, scratch, counts, handle, origin>>
  BY DEF Quiet
<1>4. stage[r] \notin Counted /\ stage'[r] \notin Counted
  BY DEF Quiet, PlaceOK, Running, Stay, GoTo, NextKernel, Counted
<1>5. ScratchOK'
  BY <1>1, <1>3, <1>4, SameScratch
<1>6. CountsOK'
  BY <1>1, <1>3, SameCounts DEF Stays
<1>7. 1 \in (1 .. 8) \ {5, 6, 8}
  OBVIOUS
<1>8. HandleOK' /\ OriginOK' /\ SlotsOK'
  BY <1>1, <1>3, <1>7, ComesHandles
<1>. QED
  BY <1>1, <1>2, <1>5, <1>6, <1>8

LEMMA InvOfHistogram ==
  ASSUME PrologueInv, NEW r \in Ranks, Histogram(r)
  PROVE  PlaceOK' /\ CallsOK' /\ ScratchOK' /\ CountsOK' /\ HandleOK' /\ OriginOK' /\ SlotsOK'
<1>. USE DEF PrologueInv
<1>1. /\ In(r, {"prologue"}, "start") /\ GoTo(r, "b1")
      /\ UNCHANGED <<program, routing, counts, handle, origin, returns, at>>
  BY DEF Histogram, dataVars, xgmiVars
<1>2. /\ PrologueAt(program, pc[r]) /\ stage[r] = "start" /\ Layer(r) \in Layers
  BY <1>1, AtPrologue
<1>3. /\ Comes(r, 1) /\ Others(r) /\ PlaceOK' /\ pc'[r] = pc[r] /\ stage'[r] = "b1"
  <2>1. /\ "b1" \in DOMAIN StageNo \ {"start", "run"} /\ StageNo["b1"] = StageNo["start"] + 1
        /\ StageNo["b1"] = 1
    BY StagesAre
  <2>. QED
    BY <1>1, <2>1, GoesOn
<1>4. CallsOK'
  BY <1>1, <1>2, <1>3, StagesAre, SameCalls
<1>5. ScratchOK'
  <2>. DEFINE new == [scratch[r] EXCEPT !.send = [e \in Experts |-> @[e] + Chosen(r, e)]]
  <2>1. scratch' = [scratch EXCEPT ![r] = new]
    BY DEF Histogram
  <2>2. scratch[r] = [send |-> NoCounts, within |-> NoCounts]
    BY <1>2 DEF ScratchOK, Expected, Counted
  <2>3. \A e \in Experts : NoCounts[e] + Chosen(r, e) = Matrix(routing[Layer(r)])[r][e]
    <3>. TAKE e \in Experts
    <3>1. Chosen(r, e) = Matrix(routing[Layer(r)])[r][e]
      BY DEF Chosen, SlotsTo, Choices, Matrix, To
    <3>2. Cardinality(To(routing[Layer(r)], r, e)) \in Nat
      BY ToFinite, ExpertsFinite
    <3>3. Matrix(routing[Layer(r)])[r][e] \in Nat
      BY <3>2 DEF Matrix
    <3>. QED
      BY <3>1, <3>3 DEF NoCounts
  <2>4. Matrix(routing[Layer(r)])[r] = [e \in Experts |-> Matrix(routing[Layer(r)])[r][e]]
    BY DEF Matrix
  <2>5. [e \in Experts |-> scratch[r].send[e] + Chosen(r, e)] = Matrix(routing[Layer(r)])[r]
    BY <2>2, <2>3, <2>4
  <2>6. new = [send |-> Matrix(routing[Layer(r)])[r], within |-> NoCounts]
    BY <2>2, <2>5
  <2>7. Expected(r)' = [send |-> Matrix(routing[Layer(r)])[r], within |-> NoCounts]
    BY <1>1, <1>3 DEF Expected, Counted, Layer
  <2>. HIDE DEF new
  <2>. QED
    BY <1>1, <1>3, <2>1, <2>6, <2>7, NewScratch
<1>6. CountsOK'
  BY <1>1, <1>3, ComesCounts
<1>7. HandleOK' /\ OriginOK' /\ SlotsOK'
  BY <1>1, <1>3, ComesHandles
<1>. QED
  BY <1>3, <1>4, <1>5, <1>6, <1>7

LEMMA InvOfBarrier ==
  ASSUME PrologueInv, NEW r \in Ranks, BarrierStep(r)
  PROVE  PlaceOK' /\ CallsOK' /\ ScratchOK' /\ CountsOK' /\ HandleOK' /\ OriginOK' /\ SlotsOK'
<1>. USE DEF PrologueInv
<1>1. /\ Running(r) /\ stage[r] \in DOMAIN Following
      /\ UNCHANGED <<program, routing, scratch, counts, handle, origin>>
  BY DEF BarrierStep, dataVars, localVars
<1>2. In(r, {"prologue"}, stage[r]) /\ PrologueAt(program, pc[r]) /\ pc[r] \in Nat
  BY <1>1, AtBarrier, AtPrologue, PlaceIsNat
<1>3. CASE Stay /\ (Call(r) \/ (\E t \in Ranks : Send(r, t)) \/ Advance(r))
  <2>1. PlaceOK' /\ Stays /\ Others(r)
    BY <1>1, <1>3 DEF Stay, PlaceOK, Running, Stays, Others, Reached, Place
  <2>2. CallsOK'
    <3>1. /\ returns' = returns
          /\ \A q \in Ranks \ {r} : at'[q] = at[q]
      BY <1>3 DEF Call, Send, Advance, IInv, Typed
    <3>2. pc' = pc /\ stage' = stage
      BY <1>3 DEF Stay
    <3>. QED
      BY <1>1, <3>1, <3>2 DEF CallsOK
  <2>3. ScratchOK'
    BY <1>1, <1>3, <2>1, SameScratch DEF Stay
  <2>4. CountsOK'
    BY <1>1, <2>1, SameCounts DEF Stays
  <2>5. 1 \in (1 .. 8) \ {5, 6, 8}
    OBVIOUS
  <2>6. HandleOK' /\ OriginOK' /\ SlotsOK'
    BY <1>1, <2>1, <2>5, ComesHandles
  <2>. QED
    BY <2>1, <2>2, <2>3, <2>4, <2>6
<1>4. CASE Return(r) /\ GoTo(r, Following[stage[r]])
  <2>. DEFINE w == Following[stage[r]]
              n == StageNo[w]
  <2>1. /\ w \in DOMAIN StageNo \ {"start", "run"} /\ StageNo[w] = StageNo[stage[r]] + 1
        /\ n \in (1 .. 8) \ {3, 5, 6, 8}
        /\ Passed[w] = Passed[stage[r]] + 1 /\ Passed[w] \in Nat /\ Passed[stage[r]] \in Nat
        /\ w \in Counted <=> stage[r] \in Counted
    BY <1>1, StagesAre DEF Counted
  <2>2. GoTo(r, w)
    BY <1>4
  <2>. HIDE DEF w
  <2>3. Comes(r, n) /\ Others(r) /\ PlaceOK' /\ pc'[r] = pc[r] /\ stage'[r] = w
    BY <1>1, <1>2, <2>1, <2>2, GoesOn
  <2>4. CallsOK'
    <3>1. /\ returns'[r] = returns[r] + 1 /\ returns[r] \in Nat
          /\ at'[r] = "out"
          /\ \A q \in Ranks \ {r} : returns'[q] = returns[q] /\ at'[q] = at[q]
      BY <1>4 DEF Return, IInv, Typed
    <3>2. Cardinality(ProloguesBefore(program, pc[r])) \in Nat
      BY <1>2, PrologueCount DEF PlaceOK
    <3>. QED
      BY <1>1, <2>1, <2>3, <3>1, <3>2, CallsKept
  <2>. HIDE DEF n
  <2>5. ScratchOK'
    BY <1>1, <2>1, <2>3, SameScratch
  <2>6. CountsOK'
    BY <1>1, <2>1, <2>3, ComesCounts
  <2>7. HandleOK' /\ OriginOK' /\ SlotsOK'
    BY <1>1, <2>1, <2>3, ComesHandles
  <2>. QED
    BY <2>3, <2>4, <2>5, <2>6, <2>7
<1>. QED
  BY <1>3, <1>4 DEF BarrierStep

LEMMA RowOfMatrix ==
  ASSUME NEW R, NEW r \in Ranks
  PROVE  /\ Matrix(R)[r] \in [Experts -> 0 .. Cardinality(Slots)]
         /\ Matrix(R) = [q \in Ranks |-> Matrix(R)[q]]
<1>1. \A e \in Experts : Cardinality(To(R, r, e)) \in 0 .. Cardinality(Slots)
  BY ToFinite
<1>. QED
  BY <1>1 DEF Matrix

LEMMA InvOfPush ==
  ASSUME PrologueInv, NEW r \in Ranks, PushCounts(r)
  PROVE  PlaceOK' /\ CallsOK' /\ ScratchOK' /\ CountsOK' /\ HandleOK' /\ OriginOK' /\ SlotsOK'
<1>. USE DEF PrologueInv
<1>1. /\ In(r, {"prologue"}, "push") /\ GoTo(r, "b3")
      /\ UNCHANGED <<program, routing, scratch, handle, origin, returns, at>>
  BY DEF PushCounts, localVars, xgmiVars
<1>2. /\ PrologueAt(program, pc[r]) /\ stage[r] = "push" /\ Layer(r) \in Layers
      /\ Layer(r) = program[pc[r]].layer
  BY <1>1, AtPrologue
<1>3. /\ Comes(r, 3) /\ Others(r) /\ PlaceOK' /\ pc'[r] = pc[r] /\ stage'[r] = "b3"
  <2>1. /\ "b3" \in DOMAIN StageNo \ {"start", "run"} /\ StageNo["b3"] = StageNo["push"] + 1
        /\ StageNo["b3"] = 3
    BY StagesAre
  <2>. QED
    BY <1>1, <2>1, GoesOn
<1>4. CallsOK'
  BY <1>1, <1>2, <1>3, StagesAre, SameCalls
<1>5. ScratchOK'
  BY <1>1, <1>2, <1>3, SameScratch DEF Counted
<1>6. CountsOK'
  <2>. DEFINE row == Matrix(routing[Layer(r)])[r]
  <2>1. scratch[r].send = row
    BY <1>2 DEF ScratchOK, Expected, Counted
  <2>2. row \in [Experts -> 0 .. Cardinality(Slots)]
    BY RowOfMatrix
  <2>. HIDE DEF row
  <2>3. counts \in [Ranks -> [Ranks -> [Experts -> 0 .. Cardinality(Slots)]]]
    BY DEF CountsOK
  <2>4. counts' = [p \in Ranks |-> [counts[p] EXCEPT ![r] = row]]
    BY <2>1 DEF PushCounts
  <2>5. counts' \in [Ranks -> [Ranks -> [Experts -> 0 .. Cardinality(Slots)]]]
    BY <2>2, <2>3, <2>4
  <2>6. \A p \in Ranks : /\ counts'[p][r] = row
                         /\ \A q \in Ranks \ {r} : counts'[p][q] = counts[p][q]
    BY <2>3, <2>4
  <2>7. ASSUME NEW p \in Ranks, NEW q \in Ranks, NEW i \in 1 .. Len(program),
               PrologueAt(program, i), Reached(q, i, 3)',
               \A j \in 1 .. Len(program) : PrologueAt(program, j) /\ i < j => ~ Reached(q, j, 3)'
        PROVE  counts'[p][q] = Matrix(routing[program[i].layer])[q]
    <3>1. CASE q # r
      <4>1. \A j \in 1 .. Len(program) :
              PrologueAt(program, j) => (Reached(q, j, 3)' <=> Reached(q, j, 3))
        BY <1>3, <3>1 DEF Comes
      <4>2. counts[p][q] = Matrix(routing[program[i].layer])[q]
        BY <2>7, <4>1 DEF CountsOK
      <4>. QED
        BY <2>6, <3>1, <4>2
    <3>2. CASE q = r
      <4>1. i = pc[r]
        <5>1. Place(r) = 8 * pc[r] + 2
          BY <1>3 DEF Comes
        <5>2. ~ (i < pc[r])
          <6>1. PICK k \in 1 .. Len(program) : k = pc[r] /\ PrologueAt(program, k)
            BY <1>2 DEF PrologueAt
          <6>2. Reached(r, k, 3)'
            BY <1>3, <6>1 DEF Comes
          <6>. QED
            BY <2>7, <3>2, <6>1, <6>2
        <5>3. ~ (pc[r] < i)
          <6>. SUFFICES ASSUME pc[r] < i PROVE FALSE
            OBVIOUS
          <6>1. Reached(r, i, 3)
            BY <1>3, <2>7, <3>2, <5>1 DEF Comes
          <6>2. pc[r] \in Nat /\ i \in Nat
            BY PlaceIsNat
          <6>. QED
            BY <5>1, <6>1, <6>2 DEF Reached
        <5>4. pc[r] \in Nat /\ i \in Nat
          BY PlaceIsNat
        <5>. QED
          BY <5>2, <5>3, <5>4
      <4>. QED
        BY <1>2, <2>6, <3>2, <4>1 DEF row
    <3>. QED
      BY <3>1, <3>2
  <2>8. program' = program /\ routing' = routing
    BY <1>1
  <2>. QED
    BY <2>5, <2>7, <2>8 DEF CountsOK
<1>7. HandleOK' /\ OriginOK' /\ SlotsOK'
  BY <1>1, <1>3, ComesHandles
<1>. QED
  BY <1>3, <1>4, <1>5, <1>6, <1>7

\* Earlier stages of a prologue, and prologues, are reached before later ones.
LEMMA ReachedBefore ==
  ASSUME PlaceOK, NEW r \in Ranks, NEW i \in 1 .. Len(program), NEW n \in 1 .. 8, Reached(r, i, n)
  PROVE  /\ \A m \in 1 .. n : Reached(r, i, m)
         /\ \A j \in 1 .. Len(program) : \A m \in 1 .. 8 : j < i => Reached(r, j, m)
<1>1. i \in Nat /\ Place(r) \in Nat /\ 8 * i + n <= Place(r) /\ Len(program) \in Nat
  BY PlaceIsNat DEF Reached
<1>2. \A m \in 1 .. n : Reached(r, i, m)
  BY <1>1 DEF Reached
<1>3. ASSUME NEW j \in 1 .. Len(program), NEW m \in 1 .. 8, j < i
      PROVE  Reached(r, j, m)
  <2>1. j + 1 <= i /\ j \in Nat
    BY <1>1, <1>3
  <2>2. 8 * (j + 1) <= 8 * i
    BY <1>1, <2>1
  <2>. QED
    BY <1>1, <2>1, <2>2 DEF Reached
<1>. QED
  BY <1>2, <1>3

\* What a rank in a prologue has reached.
LEMMA ReachedHere ==
  ASSUME PlaceOK, NEW r \in Ranks, NEW w, In(r, {"prologue"}, w)
  PROVE  /\ \A n \in 1 .. 8 : Reached(r, pc[r], n) <=> n <= StageNo[w]
         /\ \A j \in 1 .. Len(program) : \A n \in 1 .. 8 : pc[r] < j => ~ Reached(r, j, n)
         /\ \A j \in 1 .. Len(program) : \A n \in 1 .. 8 : j < pc[r] => Reached(r, j, n)
<1>1. /\ pc[r] \in Nat /\ Len(program) \in Nat /\ stage[r] = w /\ StageNo[w] \in 0 .. 7
      /\ Place(r) = 8 * pc[r] + StageNo[w]
  BY AtPrologue, PlaceIsNat
<1>2. ASSUME NEW n \in 1 .. 8
      PROVE  Reached(r, pc[r], n) <=> n <= StageNo[w]
  <2>1. Reached(r, pc[r], n) <=> 8 * pc[r] + n <= 8 * pc[r] + StageNo[w]
    BY <1>1 DEF Reached
  <2>2. \A x \in Nat, y \in 0 .. 7 : 8 * x + n <= 8 * x + y <=> n <= y
    OBVIOUS
  <2>. QED
    BY <1>1, <2>1, <2>2
<1>3. ASSUME NEW j \in 1 .. Len(program), NEW n \in 1 .. 8, pc[r] < j
      PROVE  ~ Reached(r, j, n)
  <2>1. pc[r] + 1 <= j /\ j \in Nat
    BY <1>1, <1>3
  <2>2. 8 * (pc[r] + 1) <= 8 * j
    BY <1>1, <2>1
  <2>. QED
    BY <1>1, <2>1, <2>2, SMTT(30), ZenonT(30) DEF Reached
<1>4. ASSUME NEW j \in 1 .. Len(program), NEW n \in 1 .. 8, j < pc[r]
      PROVE  Reached(r, j, n)
  <2>1. j + 1 <= pc[r] /\ j \in Nat
    BY <1>1, <1>4
  <2>2. 8 * (j + 1) <= 8 * pc[r]
    BY <1>1, <2>1
  <2>. QED
    BY <1>1, <2>1, <2>2, SMTT(30), ZenonT(30) DEF Reached
<1>. QED
  BY <1>2, <1>3, <1>4

\* Once r has passed the barrier of the counts, its matrix is the layer's.
LEMMA CountsLanded ==
  ASSUME PrologueInv, NEW r \in Ranks, In(r, {"prologue"}, "tables")
  PROVE  counts[r] = Matrix(routing[Layer(r)])
<1>. USE DEF PrologueInv
<1>1. /\ PrologueAt(program, pc[r]) /\ Layer(r) = program[pc[r]].layer
      /\ pc[r] \in 1 .. Len(program)
  BY AtPrologue
<1>2. Reached(r, pc[r], 4) /\ \A j \in 1 .. Len(program) : pc[r] < j => ~ Reached(r, j, 1)
  BY ReachedHere, StagesAre
<1>3. ASSUME NEW q \in Ranks
      PROVE  counts[r][q] = Matrix(routing[Layer(r)])[q]
  <2>1. Reached(q, pc[r], 3)
    BY <1>1, <1>2, Meets
  <2>2. ASSUME NEW j \in 1 .. Len(program), PrologueAt(program, j), pc[r] < j
        PROVE  ~ Reached(q, j, 3)
    <3>. SUFFICES ASSUME Reached(q, j, 3) PROVE FALSE
      OBVIOUS
    <3>1. Reached(q, j, 2)
      BY ReachedBefore
    <3>2. Reached(r, j, 1)
      BY <2>2, <3>1, Meets
    <3>. QED
      BY <1>2, <2>2, <3>2
  <2>. QED
    BY <1>1, <2>1, <2>2 DEF CountsOK
<1>4. counts[r] = [q \in Ranks |-> counts[r][q]]
  BY DEF CountsOK
<1>5. Matrix(routing[Layer(r)]) = [q \in Ranks |-> Matrix(routing[Layer(r)])[q]]
  BY RowOfMatrix
<1>. QED
  BY <1>3, <1>4, <1>5

LEMMA Here ==
  ASSUME PlaceOK, NEW r \in Ranks, NEW w, In(r, {"prologue"}, w),
         NEW i, PrologueAt(program, i), program[i].layer = Layer(r)
  PROVE  i = pc[r]
BY AtPrologue, OnePrologue DEF PlaceOK

\* A handle replaced, and the others as they were.
Replaced(r, L, new) == handle' = [handle EXCEPT ![r][L] = new]

LEMMA OneHandle ==
  ASSUME HandleOK, NEW r \in Ranks, NEW L \in Layers, NEW new, Replaced(r, L, new)
  PROVE  /\ handle' = [q \in Ranks |-> [l \in Layers |-> handle'[q][l]]]
         /\ handle'[r][L] = new
         /\ \A q \in Ranks, l \in Layers : q # r \/ l # L => handle'[q][l] = handle[q][l]
<1>1. handle = [q \in Ranks |-> [l \in Layers |-> handle[q][l]]]
  BY DEF HandleOK
<1>2. \A q \in Ranks : handle[q] = [l \in Layers |-> handle[q][l]]
  BY <1>1
<1>3. handle' = [q \in Ranks |-> [l \in Layers |-> IF q = r /\ l = L THEN new ELSE handle[q][l]]]
  <2>1. DOMAIN handle = Ranks
    BY <1>1
  <2>2. \A q \in Ranks : handle'[q] = [l \in Layers |-> IF q = r /\ l = L THEN new ELSE handle[q][l]]
    <3>. TAKE q \in Ranks
    <3>1. handle'[q] = IF q = r THEN [handle[r] EXCEPT ![L] = new] ELSE handle[q]
      BY <2>1 DEF Replaced
    <3>2. DOMAIN handle[q] = Layers
      BY <1>2
    <3>3. CASE q = r
      BY <1>2, <3>1, <3>2, <3>3
    <3>4. CASE q # r
      BY <1>2, <3>1, <3>4
    <3>. QED
      BY <3>3, <3>4
  <2>. QED
    BY <2>1, <2>2 DEF Replaced
<1>4. \A q \in Ranks : handle'[q] = [l \in Layers |-> IF q = r /\ l = L THEN new ELSE handle[q][l]]
  BY <1>3
<1>5. \A q \in Ranks, l \in Layers :
        handle'[q][l] = IF q = r /\ l = L THEN new ELSE handle[q][l]
  <2>. TAKE q \in Ranks, l \in Layers
  <2>1. handle'[q] = [m \in Layers |-> IF q = r /\ m = L THEN new ELSE handle[q][m]]
    BY <1>4
  <2>. QED
    BY <2>1
<1>6. \A q \in Ranks : handle'[q] = [l \in Layers |-> handle'[q][l]]
  BY <1>4, <1>5
<1>7. handle' = [q \in Ranks |-> handle'[q]]
  BY <1>3
<1>8. handle' = [q \in Ranks |-> [l \in Layers |-> handle'[q][l]]]
  BY <1>6, <1>7
<1>. QED
  BY <1>5, <1>8

\* What is known of a handle from its tables on.
LEMMA HandleIs ==
  ASSUME HandleOK, NEW r \in Ranks, NEW i \in 1 .. Len(program), PrologueAt(program, i),
         Reached(r, i, 5), NEW l, l = program[i].layer, NEW h, h = handle[r][l]
  PROVE  /\ HasTables(h, routing[l], r) /\ h.weight \in {<<>>, h.slot}
         /\ ~ Reached(r, i, 8) => h.weight = <<>>
         /\ Reached(r, i, 6) => TokensOK(routing[l], r, h.token)
BY DEF HandleOK

LEMMA InvOfTables ==
  ASSUME PrologueInv, NEW r \in Ranks, BuildTables(r)
  PROVE  PlaceOK' /\ CallsOK' /\ ScratchOK' /\ CountsOK' /\ HandleOK' /\ OriginOK' /\ SlotsOK'
<1>. USE DEF PrologueInv
<1>. DEFINE L == Layer(r)
            T == TablesOf(Matrix(routing[L]), r)
<1>1. /\ In(r, {"prologue"}, "tables") /\ GoTo(r, "scatter")
      /\ UNCHANGED <<program, routing, scratch, counts, origin, returns, at>>
  BY DEF BuildTables, dataVars, xgmiVars
<1>2. /\ PrologueAt(program, pc[r]) /\ stage[r] = "tables" /\ L \in Layers
      /\ L = program[pc[r]].layer /\ pc[r] \in 1 .. Len(program)
  BY <1>1, AtPrologue
<1>3. /\ Comes(r, 5) /\ Others(r) /\ PlaceOK' /\ pc'[r] = pc[r] /\ stage'[r] = "scatter"
  <2>1. /\ "scatter" \in DOMAIN StageNo \ {"start", "run"}
        /\ StageNo["scatter"] = StageNo["tables"] + 1 /\ StageNo["scatter"] = 5
    BY StagesAre
  <2>. QED
    BY <1>1, <2>1, GoesOn
<1>4. CallsOK'
  BY <1>1, <1>2, <1>3, StagesAre, SameCalls
<1>5. ScratchOK'
  BY <1>1, <1>2, <1>3, SameScratch DEF Counted
<1>6. CountsOK'
  BY <1>1, <1>3, ComesCounts
<1>7. Replaced(r, L, T)
  BY <1>1, CountsLanded DEF BuildTables, Replaced
<1>. HIDE DEF L, T
<1>8. /\ handle' = [q \in Ranks |-> [l \in Layers |-> handle'[q][l]]]
      /\ handle'[r][L] = T
      /\ \A q \in Ranks, l \in Layers : q # r \/ l # L => handle'[q][l] = handle[q][l]
  <2>1. HandleOK /\ L \in Layers
    BY <1>2
  <2>. QED
    BY <1>7, <2>1, OneHandle
<1>9. HasTables(T, routing[L], r) /\ T.token = <<>> /\ T.slot = <<>> /\ T.weight = <<>>
  BY NewTables DEF T
<1>10. \A i \in 1 .. Len(program) :
         PrologueAt(program, i) => program[i].layer \in Layers /\ (program[i].layer = L => i = pc[r])
  BY <1>1, Here, ProgramIs DEF PlaceOK, L
<1>11. ~ Reached(r, pc[r], 6) /\ ~ Reached(r, pc[r], 8)
  BY <1>1, ReachedHere, StagesAre
<1>12. \A q \in Ranks, i \in 1 .. Len(program) : PrologueAt(program, i) =>
         /\ Reached(q, i, 6)' <=> Reached(q, i, 6)
         /\ Reached(q, i, 8)' <=> Reached(q, i, 8)
         /\ Reached(q, i, 1)' <=> Reached(q, i, 1)
         /\ q # r \/ i # pc[r] => (Reached(q, i, 5)' <=> Reached(q, i, 5))
  BY <1>3 DEF Comes
<1>13. HandleOK'
  <2>1. ASSUME NEW q \in Ranks, NEW l \in Layers, handle'[q][l].slot # <<>>
        PROVE  \E i \in 1 .. Len(program) :
                 PrologueAt(program, i) /\ program[i].layer = l /\ Reached(q, i, 8)'
    BY <1>8, <1>9, <1>12, <2>1 DEF HandleOK
  <2>2. ASSUME NEW q \in Ranks, NEW i \in 1 .. Len(program), PrologueAt(program, i), Reached(q, i, 5)'
        PROVE  LET l == program[i].layer
                   h == handle'[q][l]
               IN  /\ HasTables(h, routing[l], q)
                   /\ h.weight \in {<<>>, h.slot}
                   /\ ~ Reached(q, i, 8)' => h.weight = <<>>
                   /\ Reached(q, i, 6)' => TokensOK(routing[l], q, h.token)
    <3>1. CASE q = r /\ program[i].layer = L
      <4>1. i = pc[r] /\ handle'[q][program[i].layer] = T
        BY <1>8, <1>10, <2>2, <3>1
      <4>2. ~ Reached(q, i, 6)'
        BY <1>11, <1>12, <2>2, <3>1, <4>1
      <4>. QED
        BY <1>9, <3>1, <4>1, <4>2
    <3>2. CASE q # r \/ program[i].layer # L
      <4>1. q # r \/ i # pc[r]
        BY <1>2, <3>2
      <4>2. handle'[q][program[i].layer] = handle[q][program[i].layer]
        BY <1>8, <1>10, <2>2, <3>2
      <4>3. /\ Reached(q, i, 5) /\ (Reached(q, i, 8)' <=> Reached(q, i, 8))
            /\ Reached(q, i, 6)' <=> Reached(q, i, 6)
        BY <1>12, <2>2, <4>1
      <4>. DEFINE h == handle[q][program[i].layer]
      <4>4. /\ HasTables(h, routing[program[i].layer], q) /\ h.weight \in {<<>>, h.slot}
            /\ ~ Reached(q, i, 8) => h.weight = <<>>
            /\ Reached(q, i, 6) => TokensOK(routing[program[i].layer], q, h.token)
        BY <2>2, <4>3 DEF HandleOK
      <4>5. handle'[q][program[i].layer] = h
        BY <4>2
      <4>. HIDE DEF h
      <4>. QED
        BY <4>3, <4>4, <4>5
    <3>. QED
      BY <3>1, <3>2
  <2>3. program' = program /\ routing' = routing
    BY <1>1
  <2>. QED
    BY <1>8, <2>1, <2>2, <2>3 DEF HandleOK
<1>14. \A q, p \in Ranks, l \in Layers : \A slot :
         q # r \/ l # L => (Agree(q, p, l, slot)' <=> Agree(q, p, l, slot))
  BY <1>1, <1>8 DEF Agree
<1>15. OriginOK'
  <2>1. ASSUME NEW p \in Ranks, NEW i \in 1 .. Len(program), PrologueAt(program, i), Current(p, i)'
        PROVE  LET l == program[i].layer IN
               /\ \A q \in Ranks : Reached(q, i, 6)' => Agree(q, p, l, origin[p])'
               /\ Reached(p, i, 8)' => handle'[p][l].slot = origin[p]
    <3>. DEFINE l == program[i].layer
    <3>1. Current(p, i)
      BY <1>1, <1>12, <2>1 DEF Current
    <3>2. l \in Layers
      BY <1>10, <2>1
    <3>3. ASSUME NEW q \in Ranks, Reached(q, i, 6)'
          PROVE  Agree(q, p, l, origin[p])' /\ (q # r \/ l # L)
      <4>1. Reached(q, i, 6) /\ Agree(q, p, l, origin[p])
        BY <1>12, <2>1, <3>1, <3>3 DEF OriginOK
      <4>2. q # r \/ l # L
        BY <1>10, <1>11, <2>1, <4>1
      <4>3. origin' = origin /\ program' = program
        BY <1>1
      <4>. QED
        BY <1>14, <3>2, <4>1, <4>2, <4>3
    <3>4. ASSUME Reached(p, i, 8)'
          PROVE  handle'[p][l].slot = origin[p]
      <4>1. Reached(p, i, 8) /\ handle[p][l].slot = origin[p]
        BY <1>12, <2>1, <3>1, <3>4 DEF OriginOK
      <4>2. p # r \/ l # L
        BY <1>10, <1>11, <2>1, <4>1
      <4>. QED
        BY <1>8, <3>2, <4>1, <4>2
    <3>. QED
      BY <3>3, <3>4
  <2>2. program' = program /\ routing' = routing /\ origin' = origin
    BY <1>1
  <2>. QED
    BY <2>1, <2>2 DEF OriginOK
<1>16. SlotsOK'
  <2>1. ASSUME NEW q \in Ranks, NEW p \in Ranks, NEW i \in 1 .. Len(program),
               PrologueAt(program, i), Reached(p, i, 8)'
        PROVE  Agree(q, p, program[i].layer, handle[p][program[i].layer].slot)'
    <3>. DEFINE l == program[i].layer
    <3>1. Reached(p, i, 8) /\ Agree(q, p, l, handle[p][l].slot) /\ l \in Layers
      BY <1>10, <1>12, <2>1 DEF SlotsOK
    <3>2. Reached(q, i, 6)
      <4>1. Reached(p, i, 7)
        BY <3>1, ReachedBefore
      <4>. QED
        BY <2>1, <4>1, Meets
    <3>3. (q # r \/ l # L) /\ (p # r \/ l # L)
      BY <1>10, <1>11, <2>1, <3>1, <3>2
    <3>4. handle'[p][l] = handle[p][l] /\ program' = program
      BY <1>1, <1>8, <3>1, <3>3
    <3>. QED
      BY <1>14, <3>1, <3>3, <3>4
  <2>2. program' = program
    BY <1>1
  <2>. QED
    BY <2>1, <2>2 DEF SlotsOK
<1>. QED
  BY <1>3, <1>4, <1>5, <1>6, <1>13, <1>15, <1>16

LEMMA InvOfClone ==
  ASSUME PrologueInv, NEW r \in Ranks, CloneSlots(r)
  PROVE  PlaceOK' /\ CallsOK' /\ ScratchOK' /\ CountsOK' /\ HandleOK' /\ OriginOK' /\ SlotsOK'
<1>. USE DEF PrologueInv
<1>. DEFINE L == Layer(r)
            old == handle[r][L]
            new == [old EXCEPT !.slot = origin[r]]
<1>1. /\ In(r, {"prologue"}, "clone") /\ NextKernel(r)
      /\ UNCHANGED <<program, routing, scratch, counts, origin, returns, at>>
  BY DEF CloneSlots, dataVars, xgmiVars
<1>2. /\ PrologueAt(program, pc[r]) /\ stage[r] = "clone" /\ L \in Layers
      /\ L = program[pc[r]].layer /\ pc[r] \in 1 .. Len(program)
  BY <1>1, AtPrologue
<1>3. Comes(r, 8) /\ Others(r) /\ PlaceOK' /\ pc'[r] = pc[r] + 1 /\ stage'[r] = "start"
  BY <1>1, GoesOut
<1>4. CallsOK'
  <2>1. program \in Programs /\ pc[r] \in Nat
    BY PlaceIsNat DEF PlaceOK
  <2>5. returns[r] \in Nat
    BY DEF IInv, Typed
  <2>6. at[r] = "out"
    BY <1>2, StagesAre DEF CallsOK
  <2>7. Passed[stage[r]] = 3 /\ Passed[stage'[r]] = 0
    BY <1>2, <1>3, StagesAre
  <2>2. /\ Cardinality(ProloguesBefore(program, pc[r])) \in Nat
        /\ Cardinality(ProloguesBefore(program, pc[r] + 1))
             = Cardinality(ProloguesBefore(program, pc[r])) + 1
    BY <1>2, <2>1, PrologueCount
  <2>. DEFINE b == Cardinality(ProloguesBefore(program, pc[r]))
  <2>3. /\ Cardinality(ProloguesBefore(program, pc'[r])) = b + 1
        /\ b \in Nat
    BY <1>3, <2>2
  <2>4. 3 * (b + 1) + 0 \in Nat /\ (3 * (b + 1) + 0) - (3 * b + 3) = 0
    BY <2>3
  <2>8. returns'[r] = returns[r] /\ at'[r] = at[r] /\ returns'[r] - returns[r] = 0
    BY <1>1, <2>5
  <2>9. \A q \in Ranks \ {r} : returns'[q] = returns[q] /\ at'[q] = at[q]
    BY <1>1
  <2>10. program' = program
    BY <1>1
  <2>. HIDE DEF b
  <2>11. /\ 3 * Cardinality(ProloguesBefore(program, pc'[r])) + Passed[stage'[r]] = 3 * (b + 1) + 0
         /\ 3 * Cardinality(ProloguesBefore(program, pc[r])) + Passed[stage[r]] = 3 * b + 3
    BY <2>3, <2>7 DEF b
  <2>. QED
    BY <1>3, <2>4, <2>5, <2>6, <2>8, <2>9, <2>10, <2>11, CallsKept
<1>5. ScratchOK'
  BY <1>1, <1>2, <1>3, SameScratch DEF Counted
<1>6. CountsOK'
  BY <1>1, <1>3, ComesCounts
<1>7. Replaced(r, L, new)
  BY <1>1 DEF CloneSlots, Replaced
<1>8. /\ Reached(r, pc[r], 5) /\ Reached(r, pc[r], 6) /\ Reached(r, pc[r], 7)
      /\ ~ Reached(r, pc[r], 8)
      /\ \A j \in 1 .. Len(program) : pc[r] < j => ~ Reached(r, j, 1)
  BY <1>1, ReachedHere, StagesAre
<1>9. /\ HasTables(old, routing[L], r) /\ old.weight = <<>>
      /\ TokensOK(routing[L], r, old.token)
  BY <1>2, <1>8, HandleIs
<1>. HIDE DEF L, old
<1>10. /\ HasTables(new, routing[L], r) /\ new.weight = <<>> /\ new.slot = origin[r]
       /\ new.token = old.token
  <2>1. IsFilled(new, old, "slot", origin[r])
    BY <1>9 DEF IsFilled, HasTables
  <2>. HIDE DEF new
  <2>. QED
    BY <1>9, <2>1, FilledIn
<1>. HIDE DEF new
<1>11. /\ handle' = [q \in Ranks |-> [l \in Layers |-> handle'[q][l]]]
       /\ handle'[r][L] = new
       /\ \A q \in Ranks, l \in Layers : q # r \/ l # L => handle'[q][l] = handle[q][l]
  <2>1. HandleOK /\ L \in Layers
    BY <1>2
  <2>. QED
    BY <1>7, <2>1, OneHandle
<1>12. ASSUME NEW q \in Ranks, NEW l \in Layers
       PROVE  handle'[q][l].token = handle[q][l].token
  <2>1. CASE q = r /\ l = L
    BY <1>10, <1>11, <2>1 DEF old
  <2>2. CASE q # r \/ l # L
    BY <1>11, <2>2
  <2>. QED
    BY <2>1, <2>2
<1>. HIDE DEF L, old
<1>13. \A i \in 1 .. Len(program) :
         PrologueAt(program, i) => program[i].layer \in Layers /\ (program[i].layer = L => i = pc[r])
  BY <1>1, Here, ProgramIs DEF PlaceOK, L
<1>14. \A q \in Ranks, i \in 1 .. Len(program) : PrologueAt(program, i) =>
         /\ Reached(q, i, 6)' <=> Reached(q, i, 6)
         /\ Reached(q, i, 5)' <=> Reached(q, i, 5)
         /\ Reached(q, i, 1)' <=> Reached(q, i, 1)
         /\ Reached(q, i, 8)' <=> Reached(q, i, 8) \/ (q = r /\ i = pc[r])
  BY <1>3 DEF Comes
<1>15. HandleOK'
  <2>1. ASSUME NEW q \in Ranks, NEW l \in Layers, handle'[q][l].slot # <<>>
        PROVE  \E i \in 1 .. Len(program) :
                 PrologueAt(program, i) /\ program[i].layer = l /\ Reached(q, i, 8)'
    <3>1. CASE q = r /\ l = L
      BY <1>2, <1>14, <3>1
    <3>2. CASE q # r \/ l # L
      BY <1>11, <1>14, <2>1, <3>2 DEF HandleOK
    <3>. QED
      BY <3>1, <3>2
  <2>2. ASSUME NEW q \in Ranks, NEW i \in 1 .. Len(program), PrologueAt(program, i), Reached(q, i, 5)'
        PROVE  LET l == program[i].layer
                   h == handle'[q][l]
               IN  /\ HasTables(h, routing[l], q)
                   /\ h.weight \in {<<>>, h.slot}
                   /\ ~ Reached(q, i, 8)' => h.weight = <<>>
                   /\ Reached(q, i, 6)' => TokensOK(routing[l], q, h.token)
    <3>1. CASE q = r /\ program[i].layer = L
      <4>1. i = pc[r] /\ handle'[q][program[i].layer] = new
        BY <1>11, <1>13, <2>2, <3>1
      <4>. QED
        BY <1>9, <1>10, <3>1, <4>1
    <3>2. CASE q # r \/ program[i].layer # L
      <4>1. q # r \/ i # pc[r]
        BY <1>2, <3>2
      <4>2. handle'[q][program[i].layer] = handle[q][program[i].layer]
        BY <1>11, <1>13, <2>2, <3>2
      <4>3. /\ Reached(q, i, 5) /\ (Reached(q, i, 8)' <=> Reached(q, i, 8))
            /\ Reached(q, i, 6)' <=> Reached(q, i, 6)
        BY <1>14, <2>2, <4>1
      <4>. DEFINE h == handle[q][program[i].layer]
      <4>4. /\ HasTables(h, routing[program[i].layer], q) /\ h.weight \in {<<>>, h.slot}
            /\ ~ Reached(q, i, 8) => h.weight = <<>>
            /\ Reached(q, i, 6) => TokensOK(routing[program[i].layer], q, h.token)
        BY <2>2, <4>3 DEF HandleOK
      <4>5. handle'[q][program[i].layer] = h
        BY <4>2
      <4>. HIDE DEF h
      <4>. QED
        BY <4>3, <4>4, <4>5
    <3>. QED
      BY <3>1, <3>2
  <2>3. program' = program /\ routing' = routing
    BY <1>1
  <2>. QED
    BY <1>11, <2>1, <2>2, <2>3 DEF HandleOK
<1>16. \A q, p \in Ranks, l \in Layers : \A slot : Agree(q, p, l, slot)' <=> Agree(q, p, l, slot)
  BY <1>1, <1>12 DEF Agree
<1>17. OriginOK'
  <2>1. ASSUME NEW p \in Ranks, NEW i \in 1 .. Len(program), PrologueAt(program, i), Current(p, i)'
        PROVE  LET l == program[i].layer IN
               /\ \A q \in Ranks : Reached(q, i, 6)' => Agree(q, p, l, origin[p])'
               /\ Reached(p, i, 8)' => handle'[p][l].slot = origin[p]
    <3>. DEFINE l == program[i].layer
    <3>1. Current(p, i)
      BY <1>1, <1>14, <2>1 DEF Current
    <3>2. l \in Layers
      BY <1>13, <2>1
    <3>3. ASSUME NEW q \in Ranks, Reached(q, i, 6)'
          PROVE  Agree(q, p, l, origin[p])'
      <4>1. Reached(q, i, 6) /\ Agree(q, p, l, origin[p])
        BY <1>14, <2>1, <3>1, <3>3 DEF OriginOK
      <4>2. origin' = origin /\ program' = program
        BY <1>1
      <4>. QED
        BY <1>16, <3>2, <4>1, <4>2
    <3>4. ASSUME Reached(p, i, 8)'
          PROVE  handle'[p][l].slot = origin[p]
      <4>1. CASE p = r /\ l = L
        BY <1>10, <1>11, <4>1
      <4>2. CASE p # r \/ l # L
        <5>1. Reached(p, i, 8) /\ handle[p][l].slot = origin[p]
          BY <1>2, <1>14, <2>1, <3>1, <3>4, <4>2 DEF OriginOK
        <5>. QED
          BY <1>11, <3>2, <4>2, <5>1
      <4>. QED
        BY <4>1, <4>2
    <3>. QED
      BY <3>3, <3>4
  <2>2. program' = program /\ routing' = routing /\ origin' = origin
    BY <1>1
  <2>. QED
    BY <2>1, <2>2 DEF OriginOK
<1>18. SlotsOK'
  <2>1. ASSUME NEW q \in Ranks, NEW p \in Ranks, NEW i \in 1 .. Len(program),
               PrologueAt(program, i), Reached(p, i, 8)'
        PROVE  Agree(q, p, program[i].layer, handle[p][program[i].layer].slot)'
    <3>. DEFINE l == program[i].layer
    <3>1. l \in Layers /\ program' = program
      BY <1>1, <1>13, <2>1
    <3>2. CASE p = r /\ l = L
      <4>1. i = pc[r] /\ handle'[p][l].slot = origin[r]
        BY <1>10, <1>11, <1>13, <2>1, <3>2
      <4>2. Reached(q, i, 6)
        BY <1>8, <2>1, <4>1, Meets
      <4>3. Current(r, i)
        BY <1>8, <4>1 DEF Current
      <4>4. Agree(q, r, l, origin[r])
        BY <2>1, <4>2, <4>3 DEF OriginOK
      <4>. QED
        BY <1>16, <3>1, <3>2, <4>1, <4>4
    <3>3. CASE p # r \/ l # L
      <4>1. Reached(p, i, 8) /\ Agree(q, p, l, handle[p][l].slot)
        BY <1>2, <1>14, <2>1, <3>3 DEF SlotsOK
      <4>2. handle'[p][l] = handle[p][l]
        BY <1>11, <3>1, <3>3
      <4>. QED
        BY <1>16, <3>1, <4>1, <4>2
    <3>. QED
      BY <3>2, <3>3
  <2>2. program' = program
    BY <1>1
  <2>. QED
    BY <2>1, <2>2 DEF SlotsOK
<1>. QED
  BY <1>3, <1>4, <1>5, <1>6, <1>15, <1>17, <1>18

LEMMA InvOfSave ==
  ASSUME PrologueInv, NEW r \in Ranks, SaveWeights(r)
  PROVE  PlaceOK' /\ CallsOK' /\ ScratchOK' /\ CountsOK' /\ HandleOK' /\ OriginOK' /\ SlotsOK'
<1>. USE DEF PrologueInv
<1>. DEFINE L == Layer(r)
            old == handle[r][L]
            new == [old EXCEPT !.weight = origin[r]]
            k == pc[r] - 3
<1>1. /\ Running(r) /\ program[pc[r]].kind = "save" /\ stage[r] = "start"
      /\ UNCHANGED <<program, routing, scratch, counts, origin, returns, at>>
  BY DEF SaveWeights, In, dataVars, xgmiVars
<1>2. Stays /\ Others(r) /\ PlaceOK' /\ pc'[r] = pc[r] + 1 /\ stage'[r] = "start"
  BY SaveMoves
<1>3. pc[r] \in 1 .. Len(program) /\ Len(program) \in Nat /\ program \in Programs
  BY <1>1, PlaceIsNat DEF Running, PlaceOK
<1>4. CallsOK'
  BY <1>1, <1>2, StagesAre, SameCalls DEF PrologueAt
<1>5. ScratchOK'
  BY <1>1, <1>2, SameScratch DEF Counted
<1>6. CountsOK'
  BY <1>1, <1>2, SameCounts DEF Stays
<1>7. Replaced(r, L, new)
  BY DEF SaveWeights, Replaced
<1>8. /\ PrologueAt(program, k) /\ program[k].layer = L /\ L \in Layers /\ k \in 1 .. Len(program)
      /\ \A j \in 1 .. Len(program) : PrologueAt(program, j) /\ k < j => pc[r] < j
  BY <1>1, <1>3, SaveIs, ProgramIs DEF Layer, PrologueAt
<1>9. Reached(r, k, 8) /\ Reached(r, k, 5) /\ Current(r, k)
  <2>1. Place(r) = 8 * pc[r] /\ pc[r] \in Nat
    BY <1>1, <1>3, StagesAre DEF Place
  <2>2. Reached(r, k, 8) /\ Reached(r, k, 5)
    BY <2>1 DEF Reached
  <2>3. ASSUME NEW j \in 1 .. Len(program), PrologueAt(program, j), k < j
        PROVE  ~ Reached(r, j, 1)
    <3>1. pc[r] < j /\ j \in Nat
      BY <1>3, <1>8, <2>3
    <3>. QED
      BY <2>1, <3>1 DEF Reached
  <2>. QED
    BY <2>2, <2>3 DEF Current
<1>. HIDE DEF k
<1>10. old.slot = origin[r] /\ HasTables(old, routing[L], r)
  <2>1. k \in 1 .. Len(program) /\ PrologueAt(program, k) /\ L = program[k].layer
    BY <1>8
  <2>. HIDE DEF L
  <2>2. HasTables(old, routing[L], r)
    BY <1>9, <2>1, HandleIs
  <2>3. old.slot = origin[r]
    BY <1>9, <2>1 DEF OriginOK
  <2>. QED
    BY <2>2, <2>3
<1>. HIDE DEF L, old
<1>11. /\ HasTables(new, routing[L], r) /\ new.weight = new.slot
       /\ new.token = old.token /\ new.slot = old.slot
  <2>1. IsFilled(new, old, "weight", origin[r])
    BY <1>10 DEF IsFilled, HasTables
  <2>. HIDE DEF new
  <2>. QED
    BY <1>10, <2>1, FilledIn
<1>. HIDE DEF new
<1>12. /\ handle' = [q \in Ranks |-> [l \in Layers |-> handle'[q][l]]]
       /\ handle'[r][L] = new
       /\ \A q \in Ranks, l \in Layers : q # r \/ l # L => handle'[q][l] = handle[q][l]
  <2>1. HandleOK /\ L \in Layers
    BY <1>8
  <2>. QED
    BY <1>7, <2>1, OneHandle
<1>13. ASSUME NEW q \in Ranks, NEW l \in Layers
       PROVE  handle'[q][l].token = handle[q][l].token /\ handle'[q][l].slot = handle[q][l].slot
  <2>1. CASE q = r /\ l = L
    BY <1>11, <1>12, <2>1 DEF old
  <2>2. CASE q # r \/ l # L
    BY <1>12, <2>2
  <2>. QED
    BY <2>1, <2>2
<1>. HIDE DEF L, old
<1>14. \A i \in 1 .. Len(program) :
         PrologueAt(program, i) => program[i].layer \in Layers /\ (program[i].layer = L => i = k)
  BY <1>3, <1>8, OnePrologue, ProgramIs
<1>15. \A q \in Ranks, i \in 1 .. Len(program) : PrologueAt(program, i) =>
         /\ Reached(q, i, 6)' <=> Reached(q, i, 6)
         /\ Reached(q, i, 5)' <=> Reached(q, i, 5)
         /\ Reached(q, i, 1)' <=> Reached(q, i, 1)
         /\ Reached(q, i, 8)' <=> Reached(q, i, 8)
  BY <1>2 DEF Stays
<1>16. HandleOK'
  <2>1. ASSUME NEW q \in Ranks, NEW l \in Layers, handle'[q][l].slot # <<>>
        PROVE  \E i \in 1 .. Len(program) :
                 PrologueAt(program, i) /\ program[i].layer = l /\ Reached(q, i, 8)'
    BY <1>13, <1>15, <2>1 DEF HandleOK
  <2>2. ASSUME NEW q \in Ranks, NEW i \in 1 .. Len(program), PrologueAt(program, i), Reached(q, i, 5)'
        PROVE  LET l == program[i].layer
                   h == handle'[q][l]
               IN  /\ HasTables(h, routing[l], q)
                   /\ h.weight \in {<<>>, h.slot}
                   /\ ~ Reached(q, i, 8)' => h.weight = <<>>
                   /\ Reached(q, i, 6)' => TokensOK(routing[l], q, h.token)
    <3>. DEFINE h == handle[q][program[i].layer]
    <3>1. /\ HasTables(h, routing[program[i].layer], q) /\ h.weight \in {<<>>, h.slot}
          /\ ~ Reached(q, i, 8) => h.weight = <<>>
          /\ Reached(q, i, 6) => TokensOK(routing[program[i].layer], q, h.token)
      BY <1>15, <2>2 DEF HandleOK
    <3>2. CASE q = r /\ program[i].layer = L
      <4>1. i = k /\ handle'[q][program[i].layer] = new /\ h = old
        BY <1>12, <1>14, <2>2, <3>2 DEF old
      <4>2. Reached(q, i, 8)'
        BY <1>9, <1>15, <2>2, <3>2, <4>1
      <4>. HIDE DEF h
      <4>. QED
        BY <1>11, <1>15, <2>2, <3>1, <3>2, <4>1, <4>2
    <3>3. CASE q # r \/ program[i].layer # L
      <4>1. handle'[q][program[i].layer] = h
        BY <1>12, <1>14, <2>2, <3>3
      <4>. HIDE DEF h
      <4>. QED
        BY <1>15, <2>2, <3>1, <4>1
    <3>. QED
      BY <3>2, <3>3
  <2>3. program' = program /\ routing' = routing
    BY <1>1
  <2>. QED
    BY <1>12, <2>1, <2>2, <2>3 DEF HandleOK
<1>17. \A q, p \in Ranks, l \in Layers : \A slot : Agree(q, p, l, slot)' <=> Agree(q, p, l, slot)
  BY <1>1, <1>13 DEF Agree
<1>18. OriginOK'
  <2>1. ASSUME NEW p \in Ranks, NEW i \in 1 .. Len(program), PrologueAt(program, i), Current(p, i)'
        PROVE  LET l == program[i].layer IN
               /\ \A q \in Ranks : Reached(q, i, 6)' => Agree(q, p, l, origin[p])'
               /\ Reached(p, i, 8)' => handle'[p][l].slot = origin[p]
    <3>. DEFINE l == program[i].layer
    <3>1. Current(p, i) /\ l \in Layers /\ origin' = origin /\ program' = program
      BY <1>1, <1>14, <1>15, <2>1 DEF Current
    <3>2. ASSUME NEW q \in Ranks, Reached(q, i, 6)'
          PROVE  Agree(q, p, l, origin[p])'
      <4>1. Agree(q, p, l, origin[p])
        BY <1>15, <2>1, <3>1, <3>2 DEF OriginOK
      <4>. QED
        BY <1>17, <3>1, <4>1
    <3>3. ASSUME Reached(p, i, 8)'
          PROVE  handle'[p][l].slot = origin[p]
      BY <1>13, <1>15, <2>1, <3>1, <3>3 DEF OriginOK
    <3>. QED
      BY <3>2, <3>3
  <2>2. program' = program /\ routing' = routing /\ origin' = origin
    BY <1>1
  <2>. QED
    BY <2>1, <2>2 DEF OriginOK
<1>19. SlotsOK'
  <2>1. ASSUME NEW q \in Ranks, NEW p \in Ranks, NEW i \in 1 .. Len(program),
               PrologueAt(program, i), Reached(p, i, 8)'
        PROVE  Agree(q, p, program[i].layer, handle[p][program[i].layer].slot)'
    <3>. DEFINE l == program[i].layer
    <3>1. l \in Layers /\ program' = program /\ handle'[p][l].slot = handle[p][l].slot
      BY <1>1, <1>13, <1>14, <2>1
    <3>2. Agree(q, p, l, handle[p][l].slot)
      BY <1>15, <2>1 DEF SlotsOK
    <3>. QED
      BY <1>17, <3>1, <3>2
  <2>2. program' = program
    BY <1>1
  <2>. QED
    BY <2>1, <2>2 DEF SlotsOK
<1>. QED
  BY <1>2, <1>4, <1>5, <1>6, <1>16, <1>18, <1>19

-----------------------------------------------------------------------------
(***************************************************************************)
(* The scatter.                                                            *)
(***************************************************************************)
WithinOf(r, place, s) == scratch[r].within[Choices(r)[s]] + place[s]
DestOf(r, place, s)   == H(r).sendRow[Choices(r)[s]] + WithinOf(r, place, s)
IndexOf(r, place, s)  == H(r).offset[Choices(r)[s]] + WithinOf(r, place, s)
TokensFrom(r, place) ==
  [i \in {IndexOf(r, place, s) : s \in DOMAIN place} |->
     TokenOf(CHOOSE s \in DOMAIN place : IndexOf(r, place, s) = i)]
Landed(r, place, p, row) ==
  {s \in DOMAIN place : Owner(Choices(r)[s]) = p /\ DestOf(r, place, s) = row}
OriginFrom(r, place) ==
  [p \in Ranks |-> [row \in PoolRows |->
     IF Landed(r, place, p, row) = {} THEN origin[p][row]
     ELSE <<Layer(r), r, CHOOSE s \in Landed(r, place, p, row) : TRUE>>]]

LEMMA ScatterIs ==
  ASSUME NEW r \in Ranks, Scatter(r)
  PROVE  \E place \in PlacesOf(r) :
           /\ handle' = [handle EXCEPT ![r][Layer(r)].token = TokensFrom(r, place)]
           /\ origin' = OriginFrom(r, place)
BY DEF Scatter, TokensFrom, OriginFrom, Landed, IndexOf, DestOf, WithinOf

LEMMA PlacesAre ==
  ASSUME PrologueInv, NEW r \in Ranks, In(r, {"prologue"}, "scatter"), NEW place \in PlacesOf(r)
  PROVE  LET R == routing[Layer(r)] IN
         /\ R \in Choosing /\ place \in Places(R, r) /\ DOMAIN place = Valid(R, r)
         /\ \A s \in Valid(R, r) : /\ Choices(r)[s] = R[r][s]
                                  /\ DestOf(r, place, s) = Dest(R, r, place, s)
                                  /\ IndexOf(r, place, s) = Index(R, r, place, s)
<1>. USE DEF PrologueInv
<1>. DEFINE R == routing[Layer(r)]
<1>1. /\ PrologueAt(program, pc[r]) /\ stage[r] = "scatter" /\ Layer(r) \in Layers
      /\ Layer(r) = program[pc[r]].layer /\ pc[r] \in 1 .. Len(program)
  BY AtPrologue
<1>2. R \in Choosing
  BY <1>1, RoutingIs
<1>3. Reached(r, pc[r], 5)
  BY ReachedHere, StagesAre
<1>4. HasTables(H(r), R, r)
  BY <1>1, <1>3, HandleIs DEF H
<1>5. scratch[r].within = NoCounts
  BY DEF ScratchOK, Expected
<1>6. Choices(r) = R[r]
  BY DEF Choices
<1>. HIDE DEF R
<1>7. place \in Places(R, r) /\ DOMAIN place = Valid(R, r)
  <2>1. {s \in Slots : Choices(r)[s] # NoExpert} = Valid(R, r)
    BY <1>6 DEF Valid
  <2>2. \A e : SlotsTo(r, e) = To(R, r, e) /\ Chosen(r, e) = Cardinality(To(R, r, e))
    BY <1>6 DEF Chosen, SlotsTo, To
  <2>3. place \in [Valid(R, r) -> 0 .. Cardinality(Slots) - 1]
    BY <2>1 DEF PlacesOf
  <2>4. ASSUME NEW s \in Valid(R, r)
        PROVE  /\ place[s] < Cardinality(To(R, r, R[r][s]))
               /\ \A z \in To(R, r, R[r][s]) \ {s} : place[z] # place[s]
    <3>1. /\ place[s] < Chosen(r, Choices(r)[s])
          /\ \A z \in SlotsTo(r, Choices(r)[s]) \ {s} : place[z] # place[s]
      BY <2>1 DEF PlacesOf
    <3>. QED
      BY <1>6, <2>2, <3>1
  <2>. QED
    BY <2>3, <2>4 DEF Places
<1>8. ASSUME NEW s \in Valid(R, r)
      PROVE  /\ DestOf(r, place, s) = Dest(R, r, place, s)
             /\ IndexOf(r, place, s) = Index(R, r, place, s)
  <2>1. R[r][s] \in Experts /\ place[s] \in Nat
    BY <1>2, <1>7, PlaceIs
  <2>2. WithinOf(r, place, s) = place[s]
    BY <1>5, <1>6, <2>1 DEF WithinOf, NoCounts
  <2>3. /\ H(r).sendRow[R[r][s]] = SegmentStart(Matrix(R), r, R[r][s])
        /\ H(r).offset[R[r][s]] = SourceOffset(Matrix(R), r, R[r][s])
    BY <1>4, <2>1, TablesAre
  <2>. QED
    BY <1>6, <2>2, <2>3 DEF DestOf, IndexOf, Dest, Index
<1>. QED
  BY <1>2, <1>6, <1>7, <1>8 DEF R

LEMMA TokensScattered ==
  ASSUME PrologueInv, NEW r \in Ranks, In(r, {"prologue"}, "scatter"), NEW place \in PlacesOf(r)
  PROVE  LET R == routing[Layer(r)] IN
         /\ \A s \in Valid(R, r) : TokensFrom(r, place)[Index(R, r, place, s)] = TokenOf(s)
         /\ TokensOK(R, r, TokensFrom(r, place))
<1>. DEFINE R == routing[Layer(r)]
            t == TokensFrom(r, place)
<1>1. /\ R \in Choosing /\ place \in Places(R, r) /\ DOMAIN place = Valid(R, r)
      /\ \A s \in Valid(R, r) : IndexOf(r, place, s) = Index(R, r, place, s)
  BY PlacesAre
<1>. HIDE DEF R
<1>2. ASSUME NEW s \in Valid(R, r)
      PROVE  t[Index(R, r, place, s)] = TokenOf(s)
  <2>. DEFINE i == IndexOf(r, place, s)
              z == CHOOSE y \in DOMAIN place : IndexOf(r, place, y) = i
  <2>1. i \in {IndexOf(r, place, y) : y \in DOMAIN place}
    BY <1>1
  <2>2. z \in DOMAIN place /\ IndexOf(r, place, z) = i
    BY <1>1
  <2>3. t[i] = TokenOf(z)
    BY <2>1 DEF TokensFrom
  <2>. HIDE DEF z
  <2>4. Index(R, r, place, z) = Index(R, r, place, s) /\ z \in Valid(R, r)
    BY <1>1, <2>2
  <2>5. z = s
    BY <1>1, <2>4, IndexesDiffer
  <2>. QED
    BY <1>1, <2>3, <2>5
<1>3. TokensOK(R, r, t)
  <2>. SUFFICES ASSUME NEW e \in Experts, NEW k \in 0 .. Matrix(R)[r][e] - 1
               PROVE  t[SourceOffset(Matrix(R), r, e) + k] \in Tokens
    BY DEF TokensOK
  <2>1. SegmentStart(Matrix(R), r, e) \in Nat /\ Matrix(R)[r][e] \in Nat
    BY <1>1, MatrixIs, SegmentIs
  <2>2. SegmentStart(Matrix(R), r, e) + k \in Segment(R, r, e)
    BY <2>1 DEF Segment, Rows
  <2>3. PICK s \in Valid(R, r) : R[r][s] = e /\ Dest(R, r, place, s) = SegmentStart(Matrix(R), r, e) + k
    BY <1>1, <2>2, SegmentFilled
  <2>4. place[s] \in Nat /\ s \in Slots
    BY <1>1, PlaceIs
  <2>5. place[s] = k
    BY <2>1, <2>3, <2>4 DEF Dest
  <2>6. Index(R, r, place, s) = SourceOffset(Matrix(R), r, e) + k
    BY <2>3, <2>5 DEF Index
  <2>. HIDE DEF t
  <2>7. t[SourceOffset(Matrix(R), r, e) + k] = TokenOf(s)
    BY <1>2, <2>6
  <2>. QED
    BY <2>4, <2>7, TokenIs
<1>. QED
  BY <1>2, <1>3 DEF R

LEMMA RowsScattered ==
  ASSUME PrologueInv, NEW r \in Ranks, In(r, {"prologue"}, "scatter"), NEW place \in PlacesOf(r)
  PROVE  LET R == routing[Layer(r)]
             o == OriginFrom(r, place)
         IN
         /\ o = [p \in Ranks |-> [row \in PoolRows |-> o[p][row]]]
         /\ \A p \in Ranks : \A e \in Local(p) : \A row \in Segment(R, r, e) :
              \E s \in Valid(R, r) : /\ R[r][s] = e /\ Dest(R, r, place, s) = row
                                    /\ o[p][row] = <<Layer(r), r, s>>
         /\ \A p \in Ranks, row \in PoolRows :
              \/ o[p][row] = origin[p][row]
              \/ \E s \in Valid(R, r) : /\ o[p][row] = <<Layer(r), r, s>>
                                       /\ R[r][s] \in Local(p) /\ row \in Segment(R, r, R[r][s])
<1>. DEFINE R == routing[Layer(r)]
            o == OriginFrom(r, place)
            L == Layer(r)
<1>1. /\ R \in Choosing /\ place \in Places(R, r) /\ DOMAIN place = Valid(R, r)
      /\ \A s \in Valid(R, r) : /\ Choices(r)[s] = R[r][s]
                               /\ DestOf(r, place, s) = Dest(R, r, place, s)
  BY PlacesAre
<1>2. L \in Layers /\ PlaceOK
  BY AtPrologue DEF PrologueInv
<1>3. \A p \in Ranks, row \in PoolRows :
        o[p][row] = IF Landed(r, place, p, row) = {} THEN origin[p][row]
                    ELSE <<L, r, CHOOSE s \in Landed(r, place, p, row) : TRUE>>
  BY DEF OriginFrom
<1>4. o = [p \in Ranks |-> [row \in PoolRows |-> o[p][row]]]
  BY DEF OriginFrom
<1>5. ASSUME NEW p \in Ranks, NEW e \in Local(p), NEW row \in Segment(R, r, e)
      PROVE  \E s \in Valid(R, r) : /\ R[r][s] = e /\ Dest(R, r, place, s) = row
                                   /\ o[p][row] = <<L, r, s>>
  <2>1. row \in PoolRows
    BY <1>2, SegmentInPool
  <2>. HIDE DEF R, o, L
  <2>2. e \in Experts /\ Owner(e) = p
    BY LocalIs DEF Local
  <2>3. PICK s \in Valid(R, r) : R[r][s] = e /\ Dest(R, r, place, s) = row
    BY <1>1, <2>2, SegmentFilled
  <2>4. s \in Landed(r, place, p, row)
    BY <1>1, <2>2, <2>3 DEF Landed
  <2>5. ASSUME NEW z \in Landed(r, place, p, row)
        PROVE  z = s
    <3>1. z \in Valid(R, r) /\ Owner(R[r][z]) = p /\ Dest(R, r, place, z) = row
      BY <1>1 DEF Landed
    <3>. QED
      BY <1>1, <2>2, <2>3, <3>1, DestsDiffer
  <2>6. (CHOOSE z \in Landed(r, place, p, row) : TRUE) = s
    BY <2>4, <2>5
  <2>7. o[p][row] = <<L, r, s>>
    BY <1>3, <2>1, <2>4, <2>6
  <2>. QED
    BY <2>3, <2>7
<1>6. ASSUME NEW p \in Ranks, NEW row \in PoolRows, o[p][row] # origin[p][row]
      PROVE  \E s \in Valid(R, r) : /\ o[p][row] = <<L, r, s>>
                                   /\ R[r][s] \in Local(p) /\ row \in Segment(R, r, R[r][s])
  <2>. HIDE DEF R, o, L
  <2>. DEFINE s == CHOOSE z \in Landed(r, place, p, row) : TRUE
  <2>1. Landed(r, place, p, row) # {} /\ o[p][row] = <<L, r, s>>
    BY <1>3, <1>6
  <2>2. s \in Landed(r, place, p, row)
    BY <2>1
  <2>. HIDE DEF s
  <2>3. s \in Valid(R, r) /\ Owner(R[r][s]) = p /\ Dest(R, r, place, s) = row
    BY <1>1, <2>2 DEF Landed
  <2>4. R[r][s] \in Experts /\ row \in Segment(R, r, R[r][s])
    BY <1>1, <2>3, PlaceIs
  <2>5. R[r][s] \in Local(p)
    BY <2>3, <2>4 DEF Local
  <2>. QED
    BY <2>1, <2>3, <2>4, <2>5
<1>. QED
  BY <1>4, <1>5, <1>6

LEMMA CleanedIs ==
  ASSUME NEW a, NEW b, NEW x
  PROVE  Cleaned([[send |-> a, within |-> b] EXCEPT !.within = x])
           = [send |-> NoCounts, within |-> NoCounts]
<1>1. PICK u : u = [[send |-> a, within |-> b] EXCEPT !.within = x]
  OBVIOUS
<1>2. u = [send |-> a, within |-> x]
  BY <1>1
<1>3. [u EXCEPT !.send = NoCounts] = [send |-> NoCounts, within |-> x]
  BY <1>2
<1>4. PICK w : w = [u EXCEPT !.send = NoCounts]
  OBVIOUS
<1>7. w = [send |-> NoCounts, within |-> x]
  BY <1>3, <1>4
<1>5. [w EXCEPT !.within = NoCounts] = [send |-> NoCounts, within |-> NoCounts]
  BY <1>7
<1>6. Cleaned(u) = [send |-> NoCounts, within |-> NoCounts]
  BY <1>4, <1>5 DEF Cleaned
<1>. QED
  BY <1>1, <1>6

LEMMA ScatterCleans ==
  ASSUME NEW r \in Ranks, Scatter(r)
  PROVE  \E x : scratch' = [scratch EXCEPT ![r] = Cleaned([scratch[r] EXCEPT !.within = x])]
BY DEF Scatter

LEMMA InvOfScatter ==
  ASSUME PrologueInv, NEW r \in Ranks, Scatter(r)
  PROVE  PlaceOK' /\ CallsOK' /\ ScratchOK' /\ CountsOK' /\ HandleOK' /\ OriginOK' /\ SlotsOK'
<1>. USE DEF PrologueInv
<1>0. PICK L, R, old : L = Layer(r) /\ R = routing[L] /\ old = handle[r][L]
  OBVIOUS
<1>1. /\ In(r, {"prologue"}, "scatter") /\ GoTo(r, "e")
      /\ UNCHANGED <<program, routing, counts, returns, at>>
  BY DEF Scatter, xgmiVars
<1>2. /\ PrologueAt(program, pc[r]) /\ stage[r] = "scatter" /\ L \in Layers
      /\ L = program[pc[r]].layer /\ pc[r] \in 1 .. Len(program)
  BY <1>0, <1>1, AtPrologue
<1>3. /\ Comes(r, 6) /\ Others(r) /\ PlaceOK' /\ pc'[r] = pc[r] /\ stage'[r] = "e"
  <2>1. /\ "e" \in DOMAIN StageNo \ {"start", "run"}
        /\ StageNo["e"] = StageNo["scatter"] + 1 /\ StageNo["e"] = 6
    BY StagesAre
  <2>. QED
    BY <1>1, <2>1, GoesOn
<1>4. CallsOK'
  BY <1>1, <1>2, <1>3, StagesAre, SameCalls
<1>5. ScratchOK'
  <2>0. PICK x : scratch' = [scratch EXCEPT ![r] = Cleaned([scratch[r] EXCEPT !.within = x])]
    BY ScatterCleans
  <2>. DEFINE v == Cleaned([scratch[r] EXCEPT !.within = x])
  <2>1. scratch' = [scratch EXCEPT ![r] = v]
    BY <2>0
  <2>2. v = [send |-> NoCounts, within |-> NoCounts]
    <3>1. PICK a, b : scratch[r] = [send |-> a, within |-> b]
      BY DEF ScratchOK, Expected
    <3>. QED
      BY <3>1, CleanedIs
  <2>3. Expected(r)' = [send |-> NoCounts, within |-> NoCounts]
    BY <1>3 DEF Expected, Counted
  <2>. HIDE DEF v
  <2>. QED
    BY <1>1, <1>3, <2>1, <2>2, <2>3, NewScratch
<1>6. CountsOK'
  BY <1>1, <1>3, ComesCounts
<1>7. PICK place \in PlacesOf(r) :
        /\ handle' = [handle EXCEPT ![r][Layer(r)].token = TokensFrom(r, place)]
        /\ origin' = OriginFrom(r, place)
  BY ScatterIs
<1>70. PICK t, o, new : /\ t = TokensFrom(r, place) /\ o = OriginFrom(r, place)
                       /\ new = [old EXCEPT !.token = t]
  OBVIOUS
<1>8. Replaced(r, L, new)
  BY <1>0, <1>7, <1>70 DEF Replaced
<1>9. /\ R \in Choosing /\ place \in Places(R, r)
      /\ \A s \in Valid(R, r) : t[Index(R, r, place, s)] = TokenOf(s)
      /\ TokensOK(R, r, t)
  BY <1>0, <1>1, <1>70, PlacesAre, TokensScattered
<1>10. /\ o = [p \in Ranks |-> [row \in PoolRows |-> o[p][row]]]
       /\ \A p \in Ranks : \A e \in Local(p) : \A row \in Segment(R, r, e) :
            \E s \in Valid(R, r) : R[r][s] = e /\ Dest(R, r, place, s) = row /\ o[p][row] = <<L, r, s>>
       /\ \A p \in Ranks, row \in PoolRows :
            \/ o[p][row] = origin[p][row]
            \/ \E s \in Valid(R, r) : /\ o[p][row] = <<L, r, s>>
                                     /\ R[r][s] \in Local(p) /\ row \in Segment(R, r, R[r][s])
  BY <1>0, <1>1, <1>70, RowsScattered
<1>11. origin' = o
  BY <1>7, <1>70
<1>12. /\ Reached(r, pc[r], 5) /\ ~ Reached(r, pc[r], 6) /\ ~ Reached(r, pc[r], 8)
       /\ Reached(r, pc[r], 2)
       /\ \A j \in 1 .. Len(program) : pc[r] < j => ~ Reached(r, j, 1) /\ ~ Reached(r, j, 6)
  BY <1>1, ReachedHere, StagesAre
<1>13. HasTables(old, R, r) /\ old.weight \in {<<>>, old.slot} /\ old.weight = <<>>
  BY <1>0, <1>2, <1>12, HandleIs
<1>14. /\ HasTables(new, R, r) /\ new.weight = <<>> /\ new.slot = old.slot /\ new.token = t
  <2>1. IsFilled(new, old, "token", t)
    BY <1>13, <1>70 DEF IsFilled, HasTables
  <2>. QED
    BY <1>13, <2>1, FilledIn
<1>15. /\ handle' = [q \in Ranks |-> [l \in Layers |-> handle'[q][l]]]
       /\ handle'[r][L] = new
       /\ \A q \in Ranks, l \in Layers : q # r \/ l # L => handle'[q][l] = handle[q][l]
  <2>1. HandleOK /\ L \in Layers
    BY <1>2
  <2>. QED
    BY <1>8, <2>1, OneHandle
<1>16. ASSUME NEW q \in Ranks, NEW l \in Layers
       PROVE  /\ handle'[q][l].slot = handle[q][l].slot
              /\ q # r \/ l # L => handle'[q][l].token = handle[q][l].token
  <2>1. CASE q = r /\ l = L
    BY <1>0, <1>14, <1>15, <2>1
  <2>2. CASE q # r \/ l # L
    BY <1>15, <2>2
  <2>. QED
    BY <2>1, <2>2
<1>17. \A i \in 1 .. Len(program) :
         PrologueAt(program, i) => program[i].layer \in Layers /\ (program[i].layer = L => i = pc[r])
  BY <1>0, <1>1, Here, ProgramIs DEF PlaceOK
<1>18. \A q \in Ranks, i \in 1 .. Len(program) : PrologueAt(program, i) =>
         /\ Reached(q, i, 6)' <=> Reached(q, i, 6) \/ (q = r /\ i = pc[r])
         /\ Reached(q, i, 5)' <=> Reached(q, i, 5)
         /\ Reached(q, i, 1)' <=> Reached(q, i, 1)
         /\ Reached(q, i, 8)' <=> Reached(q, i, 8)
  BY <1>3 DEF Comes
<1>19. HandleOK'
  <2>1. ASSUME NEW q \in Ranks, NEW l \in Layers, handle'[q][l].slot # <<>>
        PROVE  \E i \in 1 .. Len(program) :
                 PrologueAt(program, i) /\ program[i].layer = l /\ Reached(q, i, 8)'
    BY <1>16, <1>18, <2>1 DEF HandleOK
  <2>2. ASSUME NEW q \in Ranks, NEW i \in 1 .. Len(program), PrologueAt(program, i), Reached(q, i, 5)'
        PROVE  LET l == program[i].layer
                   h == handle'[q][l]
               IN  /\ HasTables(h, routing[l], q)
                   /\ h.weight \in {<<>>, h.slot}
                   /\ ~ Reached(q, i, 8)' => h.weight = <<>>
                   /\ Reached(q, i, 6)' => TokensOK(routing[l], q, h.token)
    <3>1. CASE q = r /\ program[i].layer = L
      <4>1. handle'[q][program[i].layer] = new
        BY <1>15, <3>1
      <4>. QED
        BY <1>0, <1>9, <1>14, <3>1, <4>1
    <3>2. CASE q # r \/ program[i].layer # L
      <4>1. q # r \/ i # pc[r]
        BY <1>2, <3>2
      <4>2. handle'[q][program[i].layer] = handle[q][program[i].layer]
        BY <1>15, <1>17, <2>2, <3>2
      <4>3. /\ Reached(q, i, 5) /\ (Reached(q, i, 8)' <=> Reached(q, i, 8))
            /\ Reached(q, i, 6)' <=> Reached(q, i, 6)
        BY <1>18, <2>2, <4>1
      <4>. DEFINE h == handle[q][program[i].layer]
      <4>4. /\ HasTables(h, routing[program[i].layer], q) /\ h.weight \in {<<>>, h.slot}
            /\ ~ Reached(q, i, 8) => h.weight = <<>>
            /\ Reached(q, i, 6) => TokensOK(routing[program[i].layer], q, h.token)
        BY <2>2, <4>3 DEF HandleOK
      <4>5. handle'[q][program[i].layer] = h
        BY <4>2
      <4>. HIDE DEF h
      <4>. QED
        BY <4>3, <4>4, <4>5
    <3>. QED
      BY <3>1, <3>2
  <2>3. program' = program /\ routing' = routing
    BY <1>1
  <2>. QED
    BY <1>15, <2>1, <2>2, <2>3 DEF HandleOK
<1>20. \A q, p \in Ranks, l \in Layers : \A slot :
         q # r \/ l # L => (Agree(q, p, l, slot)' <=> Agree(q, p, l, slot))
  BY <1>1, <1>16 DEF Agree
\* What r has just written agrees with its tokens ...
<1>21. ASSUME NEW p \in Ranks
       PROVE  Agree(r, p, L, origin[p])'
  <2>. SUFFICES ASSUME NEW e \in Local(p), NEW row \in Segment(R, r, e)
               PROVE  /\ \E s \in Slots :
                           /\ o[p][row] = <<L, r, s>>
                           /\ R[r][s] = e
                           /\ t[SourceOffset(Matrix(R), r, e) + (row - SegmentStart(Matrix(R), r, e))]
                                = TokenOf(s)
                      /\ \A other \in Segment(R, r, e) : other # row => o[p][other] # o[p][row]
    BY <1>0, <1>1, <1>11, <1>14, <1>15 DEF Agree
  <2>1. PICK s \in Valid(R, r) : /\ R[r][s] = e /\ Dest(R, r, place, s) = row
                                /\ o[p][row] = <<L, r, s>>
    BY <1>10
  <2>2. /\ s \in Slots /\ place[s] \in Nat /\ e \in Experts
        /\ SegmentStart(Matrix(R), r, e) \in Nat
    BY <1>9, <2>1, PlaceIs, LocalIs, MatrixIs, SegmentIs
  <2>3. row - SegmentStart(Matrix(R), r, e) = place[s]
    BY <2>1, <2>2 DEF Dest
  <2>4. t[SourceOffset(Matrix(R), r, e) + (row - SegmentStart(Matrix(R), r, e))] = TokenOf(s)
    BY <1>9, <2>1, <2>3 DEF Index
  <2>5. ASSUME NEW other \in Segment(R, r, e), other # row
        PROVE  o[p][other] # o[p][row]
    <3>1. PICK z \in Valid(R, r) : /\ R[r][z] = e /\ Dest(R, r, place, z) = other
                                  /\ o[p][other] = <<L, r, z>>
      BY <1>10, SMTT(30), ZenonT(30)
    <3>2. z # s
      BY <2>1, <2>5, <3>1
    <3>. QED
      BY <2>1, <3>1, <3>2
  <2>. QED
    BY <2>1, <2>2, <2>4, <2>5
\* ... and what the others have written for this layer is still there.
<1>22. ASSUME NEW p \in Ranks, NEW q \in Ranks, q # r, Agree(q, p, L, origin[p])
       PROVE  Agree(q, p, L, origin[p])'
  <2>1. ASSUME NEW e \in Local(p), NEW row \in Segment(R, q, e)
        PROVE  o[p][row] = origin[p][row]
    <3>1. row \in PoolRows
      BY <1>0, <1>2, <2>1, SegmentInPool
    <3>2. ASSUME NEW s \in Valid(R, r), R[r][s] \in Local(p), row \in Segment(R, r, R[r][s])
          PROVE  FALSE
      <4>1. Matrix(R) \in Matrices
        BY MatrixIs
      <4>. QED
        BY <1>22, <2>1, <3>2, <4>1, RowsOfSegments DEF Segment
    <3>. QED
      BY <1>10, <3>1, <3>2
  <2>2. Agree(q, p, L, o[p])
    BY <1>0, <1>22, <2>1 DEF Agree
  <2>4. Agree(q, p, L, o[p])' <=> Agree(q, p, L, o[p])
    BY <1>2, <1>20, <1>22
  <2>. QED
    BY <1>11, <2>2, <2>4
<1>23. OriginOK'
  <2>1. ASSUME NEW p \in Ranks, NEW i \in 1 .. Len(program), PrologueAt(program, i), Current(p, i)'
        PROVE  LET l == program[i].layer IN
               /\ \A q \in Ranks : Reached(q, i, 6)' => Agree(q, p, l, origin[p])'
               /\ Reached(p, i, 8)' => handle'[p][l].slot = o[p]
    <3>1. PICK l \in Layers : l = program[i].layer
      BY <1>17, <2>1
    <3>2. Current(p, i)
      BY <1>1, <1>18, <2>1 DEF Current
    <3>3. Reached(p, pc[r], 1)
      BY <1>2, <1>12, Meets
    <3>4. ~ (i < pc[r])
      BY <1>2, <3>2, <3>3 DEF Current
    <3>5. i \in Nat /\ pc[r] \in Nat
      BY PlaceIsNat
    <3>6. ASSUME NEW q \in Ranks, Reached(q, i, 6), pc[r] < i
          PROVE  FALSE
      <4>1. Reached(q, i, 2)
        BY <3>6, ReachedBefore
      <4>2. Reached(r, i, 1)
        BY <2>1, <4>1, Meets
      <4>. QED
        BY <1>12, <3>6, <4>2
    <3>7. ASSUME NEW q \in Ranks, Reached(q, i, 6)'
          PROVE  Agree(q, p, l, origin[p])'
      <4>1. i = pc[r]
        BY <1>18, <2>1, <3>4, <3>5, <3>6, <3>7
      <4>2. l = L
        BY <1>2, <3>1, <4>1
      <4>3. CASE q = r
        BY <1>21, <4>2, <4>3
      <4>4. CASE q # r
        <5>1. Reached(q, i, 6)
          BY <1>18, <2>1, <3>7, <4>4
        <5>2. Agree(q, p, l, origin[p])
          BY <2>1, <3>1, <3>2, <5>1 DEF OriginOK
        <5>. QED
          BY <1>22, <4>2, <4>4, <5>2
      <4>. QED
        BY <4>3, <4>4
    <3>8. ASSUME Reached(p, i, 8)'
          PROVE  FALSE
      <4>1. Reached(p, i, 8)
        BY <1>18, <2>1, <3>8
      <4>2. Reached(p, i, 7) /\ Reached(p, i, 6)
        BY <4>1, ReachedBefore
      <4>3. Reached(r, i, 6)
        BY <2>1, <4>2, Meets
      <4>4. i # pc[r]
        BY <1>12, <4>3
      <4>. QED
        BY <3>4, <3>5, <3>6, <4>2, <4>4
    <3>9. program' = program
      BY <1>1
    <3>. QED
      BY <3>1, <3>7, <3>8, <3>9
  <2>2. program' = program /\ routing' = routing /\ origin' = o
    BY <1>1, <1>11
  <2>3. ASSUME NEW p \in Ranks, NEW row \in PoolRows
        PROVE  o[p][row] \in {NoRow} \cup (Layers \X Ranks \X Slots)
    <3>1. origin[p][row] \in {NoRow} \cup (Layers \X Ranks \X Slots)
      BY DEF OriginOK
    <3>2. ASSUME NEW s \in Valid(R, r)
          PROVE  <<L, r, s>> \in Layers \X Ranks \X Slots
      BY <1>2 DEF Valid
    <3>3. CASE o[p][row] = origin[p][row]
      BY <3>1, <3>3
    <3>4. CASE \E s \in Valid(R, r) : o[p][row] = <<L, r, s>>
      BY <3>2, <3>4
    <3>. QED
      BY <1>10, <3>3, <3>4
  <2>. QED
    BY <1>10, <2>1, <2>2, <2>3 DEF OriginOK
<1>24. SlotsOK'
  <2>1. ASSUME NEW q \in Ranks, NEW p \in Ranks, NEW i \in 1 .. Len(program),
               PrologueAt(program, i), Reached(p, i, 8)'
        PROVE  Agree(q, p, program[i].layer, handle[p][program[i].layer].slot)'
    <3>1. PICK l \in Layers : l = program[i].layer
      BY <1>17, <2>1
    <3>2. Reached(p, i, 8) /\ Agree(q, p, l, handle[p][l].slot)
      BY <1>18, <2>1, <3>1 DEF SlotsOK
    <3>3. Reached(q, i, 6)
      <4>1. Reached(p, i, 7)
        BY <3>2, ReachedBefore
      <4>. QED
        BY <2>1, <4>1, Meets
    <3>4. q # r \/ l # L
      BY <1>12, <1>17, <2>1, <3>1, <3>3
    <3>5. handle'[p][l].slot = handle[p][l].slot /\ program' = program
      BY <1>1, <1>16, <3>1
    <3>. QED
      BY <1>20, <3>1, <3>2, <3>4, <3>5
  <2>2. program' = program
    BY <1>1
  <2>. QED
    BY <2>1, <2>2 DEF SlotsOK
<1>. QED
  BY <1>3, <1>4, <1>5, <1>6, <1>19, <1>23, <1>24

-----------------------------------------------------------------------------
LEMMA InitPrologueInv == Init => PrologueInv
<1>. SUFFICES ASSUME Init PROVE PrologueInv
  OBVIOUS
<1>1. IInv
  BY InitIInv DEF Init
<1>2. /\ program \in Programs /\ routing \in Routings /\ Len(program) \in Nat
      /\ pc = [r \in Ranks |-> 1] /\ stage = [r \in Ranks |-> "start"]
  BY ProgramIs DEF Init
<1>3. PlaceOK
  BY <1>2, StagesAre DEF PlaceOK
<1>4. CallsOK
  <2>1. ProloguesBefore(program, 1) = {}
    BY <1>2 DEF ProloguesBefore
  <2>2. Cardinality(ProloguesBefore(program, 1)) = 0
    BY <2>1, FS_EmptySet
  <2>3. returns = [r \in Ranks |-> 0] /\ at = [r \in Ranks |-> "out"]
    BY DEF Init, XgmiInit
  <2>. QED
    BY <1>2, <2>2, <2>3, StagesAre DEF CallsOK
<1>5. ScratchOK
  BY <1>2 DEF Init, ScratchOK, Expected, Counted
<1>6. \A r \in Ranks, i \in 1 .. Len(program), n \in 1 .. 8 : ~ Reached(r, i, n)
  <2>. TAKE r \in Ranks, i \in 1 .. Len(program), n \in 1 .. 8
  <2>1. Place(r) = 8
    BY <1>2, StagesAre DEF Place
  <2>2. i \in Nat /\ i >= 1 /\ n \in Nat /\ n >= 1
    BY <1>2
  <2>. QED
    BY <2>1, <2>2 DEF Reached
<1>7. CountsOK
  <2>1. 0 \in 0 .. Cardinality(Slots)
    BY ExpertsFinite, FS_CardinalityType
  <2>2. counts \in [Ranks -> [Ranks -> [Experts -> 0 .. Cardinality(Slots)]]]
    BY <2>1 DEF Init, NoCounts
  <2>. QED
    BY <1>6, <2>2 DEF CountsOK
<1>8. HandleOK
  <2>1. handle = [r \in Ranks |-> [l \in Layers |-> NoHandle]]
    BY DEF Init
  <2>2. \A r \in Ranks, l \in Layers : handle[r][l] = NoHandle
    BY <2>1
  <2>3. handle = [r \in Ranks |-> [l \in Layers |-> handle[r][l]]]
    BY <2>1, <2>2
  <2>4. \A r \in Ranks, l \in Layers : handle[r][l].slot = <<>>
    BY <2>2 DEF NoHandle
  <2>. QED
    BY <1>6, <2>3, <2>4 DEF HandleOK
<1>9. OriginOK
  <2>1. origin = [r \in Ranks |-> [row \in PoolRows |-> NoRow]]
    BY DEF Init
  <2>2. \A r \in Ranks, row \in PoolRows : origin[r][row] = NoRow
    BY <2>1
  <2>3. origin = [r \in Ranks |-> [row \in PoolRows |-> origin[r][row]]]
    BY <2>1, <2>2
  <2>. QED
    BY <1>6, <2>2, <2>3 DEF OriginOK
<1>10. SlotsOK
  BY <1>6 DEF SlotsOK
<1>. QED
  BY <1>1, <1>3, <1>4, <1>5, <1>7, <1>8, <1>9, <1>10 DEF PrologueInv

LEMMA NextPrologueInv == PrologueInv /\ [Next]_megaVars => PrologueInv'
<1>. SUFFICES ASSUME PrologueInv, [Next]_megaVars PROVE PrologueInv'
  OBVIOUS
<1>1. ASSUME NEW r \in Ranks, RankStep(r)
      PROVE  PrologueInv'
  <2>1. IInv'
    BY <1>1, KernelsStepTheBarrier, NextIInv DEF PrologueInv
  <2>2. PlaceOK' /\ CallsOK' /\ ScratchOK' /\ CountsOK' /\ HandleOK' /\ OriginOK' /\ SlotsOK'
    <3>1. PlaceOK
      BY DEF PrologueInv
    <3>2. \/ Histogram(r) \/ BarrierStep(r) \/ PushCounts(r) \/ BuildTables(r)
          \/ Scatter(r) \/ CloneSlots(r) \/ SaveWeights(r) \/ Quiet(r)
      BY <1>1, <3>1, Steps
    <3>. QED
      BY <3>2, InvOfHistogram, InvOfBarrier, InvOfPush, InvOfTables, InvOfScatter,
         InvOfClone, InvOfSave, InvOfQuiet
  <2>. QED
    BY <2>1, <2>2 DEF PrologueInv
<1>2. CASE UNCHANGED megaVars
  <2>1. UNCHANGED <<program, routing, pc, stage, scratch, counts, handle, origin, returns, at>>
    BY <1>2 DEF megaVars, dataVars, localVars, xgmiVars
  <2>2. IInv'
    BY <1>2, NextIInv DEF PrologueInv, megaVars
  <2>3. PlaceOK' /\ CallsOK' /\ ScratchOK' /\ Stays
    BY <2>1 DEF PrologueInv, PlaceOK, CallsOK, ScratchOK, Running, Expected, Layer,
                Stays, Reached, Place
  <2>4. CountsOK'
    BY <2>1, <2>3, SameCounts DEF PrologueInv, Stays
  <2>5. HandleOK' /\ OriginOK' /\ SlotsOK'
    <3>1. \A q \in Ranks, i \in 1 .. Len(program) : PrologueAt(program, i) =>
            /\ Reached(q, i, 5)' <=> Reached(q, i, 5)
            /\ Reached(q, i, 6)' <=> Reached(q, i, 6)
            /\ Reached(q, i, 8)' <=> Reached(q, i, 8)
            /\ Reached(q, i, 1) => Reached(q, i, 1)'
      BY <2>3 DEF Stays
    <3>. QED
      BY <2>1, <3>1, SameHandles DEF PrologueInv
  <2>. QED
    BY <2>2, <2>3, <2>4, <2>5 DEF PrologueInv
<1>. QED
  BY <1>1, <1>2 DEF Next

\* A finished handle is that of the layer's routing, on every rank.
LEMMA FinishedHandle ==
  ASSUME PrologueInv, NEW r \in Ranks, NEW l \in Layers, handle[r][l].slot # <<>>
  PROVE  /\ \A q \in Ranks : /\ HasTables(handle[q][l], routing[l], q)
                             /\ Agree(q, r, l, handle[r][l].slot)
         /\ handle[r][l].weight \in {<<>>, handle[r][l].slot}
         /\ Matrix(routing[l]) \in Matrices
<1>. USE DEF PrologueInv
<1>1. PICK i \in 1 .. Len(program) :
        PrologueAt(program, i) /\ program[i].layer = l /\ Reached(r, i, 8)
  BY DEF HandleOK
<1>2. Reached(r, i, 7) /\ Reached(r, i, 5)
  BY <1>1, ReachedBefore
<1>3. ASSUME NEW q \in Ranks
      PROVE  HasTables(handle[q][l], routing[l], q) /\ Agree(q, r, l, handle[r][l].slot)
  <2>1. Reached(q, i, 6)
    BY <1>1, <1>2, Meets
  <2>2. Reached(q, i, 5)
    BY <2>1, ReachedBefore
  <2>3. HasTables(handle[q][l], routing[l], q)
    BY <1>1, <2>2, HandleIs
  <2>4. Agree(q, r, l, handle[r][l].slot)
    BY <1>1 DEF SlotsOK
  <2>. QED
    BY <2>3, <2>4
<1>4. handle[r][l].weight \in {<<>>, handle[r][l].slot}
  BY <1>1, <1>2, HandleIs
<1>. QED
  BY <1>3, <1>4, MatrixIs

LEMMA HandlesAgree == PrologueInv => HandleTablesAgree
<1>. SUFFICES ASSUME PrologueInv, NEW r \in Ranks, NEW l \in Layers, handle[r][l].slot # <<>>,
                    NEW e \in Local(r), NEW q \in Ranks
             PROVE  LET h == handle[r][l]
                        segment == Rows(h.recvRow[e][q], h.recvCount[e][q])
                        sender  == handle[q][l]
                    IN
                    /\ segment \subseteq {row \in RealRows(h, e) : h.expert[row \div BlockM] = e}
                    /\ segment = Rows(sender.sendRow[e], sender.sendCount[e])
                    /\ \A row \in segment :
                         /\ \E s \in Slots :
                              /\ h.slot[row] = <<l, q, s>>
                              /\ routing[l][q][s] = e
                              /\ sender.token[sender.offset[e] + row - sender.sendRow[e]] = TokenOf(s)
                         /\ \A other \in segment \ {row} : h.slot[other] # h.slot[row]
                         /\ h.weight # <<>> => h.weight[row] = h.slot[row]
  BY DEF HandleTablesAgree
<1>. DEFINE R == routing[l]
            c == Matrix(R)
            h == handle[r][l]
            sender == handle[q][l]
            segment == Rows(h.recvRow[e][q], h.recvCount[e][q])
<1>1. /\ HasTables(h, R, r) /\ HasTables(sender, R, q) /\ Agree(q, r, l, h.slot)
      /\ h.weight \in {<<>>, h.slot} /\ c \in Matrices
  BY FinishedHandle
<1>2. e \in Experts
  BY LocalIs
<1>3. /\ h.recvRow[e][q] = SegmentStart(c, q, e) /\ h.recvCount[e][q] = c[q][e]
      /\ h.base[e] = PoolBase(c, e) /\ h.total[e] = ExpertTotal(c, e)
      /\ \A i \in 0 .. RealTiles(c, r) - 1 : h.expert[i] = TileToExpert(c, r, i)
      /\ sender.sendRow[e] = SegmentStart(c, q, e) /\ sender.sendCount = c[q]
      /\ sender.offset[e] = SourceOffset(c, q, e)
  <2>. HIDE DEF h, sender, R
  <2>. QED
    BY <1>1, <1>2, TablesAre
<1>4. segment = Segment(R, q, e) /\ segment = Rows(sender.sendRow[e], sender.sendCount[e])
  BY <1>3 DEF Segment
<1>5. ASSUME NEW row \in segment
      PROVE  /\ row \in RealRows(h, e) /\ h.expert[row \div BlockM] = e
             /\ \E s \in Slots :
                  /\ h.slot[row] = <<l, q, s>>
                  /\ routing[l][q][s] = e
                  /\ sender.token[sender.offset[e] + row - sender.sendRow[e]] = TokenOf(s)
             /\ \A other \in segment \ {row} : h.slot[other] # h.slot[row]
             /\ h.weight # <<>> => h.weight[row] = h.slot[row]
  <2>1. row \in Rows(SegmentStart(c, q, e), c[q][e])
    BY <1>4 DEF Segment
  <2>. HIDE DEF c, segment
  <2>2. /\ row \in Nat /\ row \in Rows(PoolBase(c, e), ExpertTotal(c, e))
        /\ PoolBase(c, e) <= row /\ row < PoolBase(c, e) + PaddedTotals(c)[e]
    BY <1>1, <2>1, RowsOfSegments
  <2>3. /\ row \div BlockM \in 0 .. RealTiles(c, r) - 1
        /\ TileToExpert(c, r, row \div BlockM) = e
    BY <1>1, <2>2, TileOfRow
  <2>4. row \in RealRows(h, e) /\ h.expert[row \div BlockM] = e
    BY <1>3, <2>2, <2>3 DEF RealRows
  <2>5. PICK s \in Slots :
          /\ h.slot[row] = <<l, q, s>> /\ R[q][s] = e
          /\ sender.token[SourceOffset(c, q, e) + (row - SegmentStart(c, q, e))] = TokenOf(s)
    BY <1>1, <1>4, SMTT(30), ZenonT(30) DEF Agree, c
  <2>6. /\ SourceOffset(c, q, e) \in Nat /\ SegmentStart(c, q, e) \in Nat
    BY <1>1, <1>2, OffsetsApart, SegmentIs
  <2>7. sender.offset[e] + row - sender.sendRow[e]
          = SourceOffset(c, q, e) + (row - SegmentStart(c, q, e))
    BY <1>3, <2>2, <2>6
  <2>8. \A other \in segment \ {row} : h.slot[other] # h.slot[row]
    BY <1>1, <1>4, SMTT(30), ZenonT(30) DEF Agree
  <2>. QED
    BY <1>1, <2>4, <2>5, <2>7, <2>8
<1>. QED
  BY <1>4, <1>5

(***************************************************************************)
(* The tables of a handle fit together on every pair of ranks, for every   *)
(* number of ranks and experts, every program and every routing.           *)
(***************************************************************************)
THEOREM HandlesFit == Spec => []HandleTablesAgree
<1>1. Init => PrologueInv
  BY InitPrologueInv
<1>2. PrologueInv /\ [Next]_megaVars => PrologueInv'
  BY NextPrologueInv
<1>3. PrologueInv => HandleTablesAgree
  BY HandlesAgree
<1>. QED
  BY <1>1, <1>2, <1>3, PTL DEF Spec
=============================================================================
