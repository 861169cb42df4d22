--------------------------- MODULE AsyncTP_proofs ---------------------------
(***************************************************************************)
(* The asynchronous calls of a group, for any number of ranks and chunks   *)
(* and any programs: the barrier of the scatters is a barrier, and a call  *)
(* works on its own data unless a gather follows it at once.               *)
(*                                                                         *)
(* A word of the signal pad has one setter and one taker, which go through *)
(* the same calls in the same order.  Puts and Takes count what each has   *)
(* done to it, from its call and its place in the call, and the word is    *)
(* the difference: neither can be more than one ahead, so a signal that is *)
(* taken is the one that was meant.                                        *)
(***************************************************************************)
EXTENDS AsyncTP, FiniteSetTheorems, TLAPS

InGather(r)  == at[r] \in {"wait", "gemm", "join"}
InScatter(r) == at[r] \in {"put", "take", "scatter", "reduce"}

\* Calls before call k of one kind.
CallsBefore(k, kind) == {j \in 1 .. k - 1 : program[j] = kind}
Gathers(k)  == Cardinality(CallsBefore(k, "gather"))
Scatters(k) == Cardinality(CallsBefore(k, "scatter"))

\* How often the word that q sets for o in step s is used before call k, ...
Before(k, o, q, s) ==
  (IF o # q THEN Gathers(k) ELSE 0) + (IF s = 0 THEN 2 * Scatters(k) ELSE 0)

\* ... in call k, ...
Uses(k, o, q, s) ==
  IF program[k] = "gather" THEN IF o # q THEN 1 ELSE 0
  ELSE IF program[k] = "scatter" /\ s = 0 THEN 2 ELSE 0

\* ... and so far by q, which sets it, ...
PutsIn(q, o, s) ==
  IF InGather(q) THEN IF o # q /\ sent[q][o] >= 2 * s + 2 THEN 1 ELSE 0
  ELSE IF InScatter(q) /\ s = 0
       THEN (round[q] - 1) + (IF at[q] = "put" /\ o >= word[q] THEN 0 ELSE 1)
  ELSE 0
Puts(q, o, s) == Before(call[q], o, q, s) + PutsIn(q, o, s)

\* ... and by o, which takes it.
Taken(o, q, s) == s < Arrived(o) \/ (at[o] = "wait" /\ s = used[o] /\ q < word[o])
TakesIn(o, q, s) ==
  IF InGather(o) THEN IF o # q /\ Taken(o, q, s) THEN 1 ELSE 0
  ELSE IF InScatter(o) /\ s = 0
       THEN (round[o] - 1)
            + (IF at[o] = "put" \/ (at[o] = "take" /\ q >= word[o]) THEN 0 ELSE 1)
  ELSE 0
Takes(o, q, s) == Before(call[o], o, q, s) + TakesIn(o, q, s)

-----------------------------------------------------------------------------
(* The inductive invariant.                                                *)

PlaceOK(r) ==
  /\ InGather(r) => /\ Running(r, "gather")
                    /\ word[r] # r
                    /\ at[r] = "join" => used[r] = NumSplits
                    /\ at[r] # "join" => used[r] < NumSplits
                    /\ at[r] = "gemm" => word[r] = FirstWord(r)
  /\ InScatter(r) => /\ Running(r, "scatter")
                     /\ at[r] = "scatter" => round[r] = 1 /\ word[r] = 0
                     /\ at[r] = "reduce" => round[r] = 2
                     /\ round[r] = 1 /\ at[r] # "scatter" => written[r] = {}
                     /\ round[r] = 2 => written[r] = Ranks \X Steps
  /\ at[r] = "meet" => Running(r, "other")

PadOK == \A o, q \in Ranks, s \in Steps : pad[o][s][q] = Puts(q, o, s) - Takes(o, q, s)

Together == \A r, q \in Ranks : Left(r) <= Entered(q)

\* Whoever is through another collective has met everybody there.
MetOK ==
  \A r, q \in Ranks, j \in Calls : program[j] = "other" /\ call[q] > j => call[r] >= j

\* Call k is not followed by a gather.
Protected(k) == k + 1 \in Calls => program[k + 1] # "gather"

\* q has written its part s of the gather, or scatter, k into r's workspace.
HasGathered(q, r, s, k) ==
  call[q] > k \/ (call[q] = k /\ InGather(q) /\ sent[q][r] >= 2 * s + 1)
HasScattered(q, r, s, k) ==
  call[q] > k \/ (call[q] = k /\ InScatter(q) /\ <<r, s>> \in written[q])

\* What was written for call k stays, until the rank is through with call k.
GatherData ==
  \A r, q \in Ranks, s \in Steps, k \in Calls :
    /\ r # q /\ program[k] = "gather" /\ Protected(k) /\ call[r] <= k
    /\ HasGathered(q, r, s, k)
    => mem[r][GatherCell(q, r, s)] = <<k, q, s>>

ScatterData ==
  \A r, q \in Ranks, s \in Steps, k \in Calls :
    /\ program[k] = "scatter" /\ Protected(k) /\ call[r] <= k
    /\ HasScattered(q, r, s, k)
    => mem[r][ScatterCell(q, s)] = <<k, q, s>>

IInv ==
  /\ TypeOK
  /\ \A r \in Ranks : PlaceOK(r)
  /\ PadOK /\ Together /\ MetOK
  /\ GatherData /\ ScatterData

-----------------------------------------------------------------------------
(* Counting calls.                                                         *)

LEMMA Numbers ==
  /\ NumRanks \in Nat /\ NumRanks >= 2 /\ NumSplits \in Nat /\ NumSplits >= 1
  /\ Ranks \subseteq Nat /\ Steps \subseteq Nat /\ 0 \in Ranks /\ 0 \in Steps
  /\ \A r \in Ranks : r \in Nat /\ r < NumRanks
  /\ \A s \in Steps : s \in Nat /\ s < NumSplits
BY AsyncAssumption DEF Ranks, Steps

LEMMA ProgramLength ==
  ASSUME program \in Programs
  PROVE  Len(program) \in Nat /\ Calls \subseteq Nat \ {0}
BY AsyncAssumption DEF Calls

LEMMA CallsCounted ==
  ASSUME NEW k \in Nat, NEW kind
  PROVE  /\ IsFiniteSet(CallsBefore(k, kind))
         /\ Cardinality(CallsBefore(k, kind)) \in Nat
         /\ k > 0 => Cardinality(CallsBefore(k + 1, kind))
                       = Cardinality(CallsBefore(k, kind)) + IF program[k] = kind THEN 1 ELSE 0
<1>. DEFINE c == k - 1
            A == CallsBefore(k, kind)
            B == CallsBefore(k + 1, kind)
<1>1. IsFiniteSet(1 .. c)
  <2>. c \in Int
    OBVIOUS
  <2>. HIDE DEF c
  <2>. QED
    BY FS_Interval
<1>2. A \in SUBSET (1 .. c)
  BY DEF CallsBefore
<1>3. IsFiniteSet(A) /\ Cardinality(A) \in Nat
  BY <1>1, <1>2, FS_Subset, FS_CardinalityType
<1>4. ASSUME k > 0 PROVE B = IF program[k] = kind THEN A \cup {k} ELSE A
  <2>1. \A j : j \in 1 .. (k + 1) - 1 <=> j \in 1 .. k - 1 \/ j = k
    BY <1>4
  <2>. QED
    BY <2>1 DEF CallsBefore
<1>5. k \notin A
  BY DEF CallsBefore
<1>. HIDE DEF A, B
<1>. SUFFICES /\ IsFiniteSet(A) /\ Cardinality(A) \in Nat
              /\ k > 0 => Cardinality(B) = Cardinality(A) + IF program[k] = kind THEN 1 ELSE 0
  BY DEF A, B
<1>6. Cardinality(A \cup {k}) = Cardinality(A) + 1
  BY <1>3, <1>5, FS_AddElement
<1>7. ASSUME k > 0
      PROVE  Cardinality(B) = Cardinality(A) + IF program[k] = kind THEN 1 ELSE 0
  <2>1. CASE program[k] = kind
    BY <1>4, <1>6, <1>7, <2>1
  <2>2. CASE program[k] # kind
    <3>1. B = A
      BY <1>4, <1>7, <2>2
    <3>. QED
      BY <1>3, <2>2, <3>1
  <2>. QED
    BY <2>1, <2>2
<1>. QED
  BY <1>3, <1>7

LEMMA CallsGrow ==
  ASSUME NEW a \in Nat, NEW b \in Nat, a <= b, NEW kind
  PROVE  Cardinality(CallsBefore(a, kind)) <= Cardinality(CallsBefore(b, kind))
<1>1. CallsBefore(a, kind) \in SUBSET CallsBefore(b, kind)
  BY DEF CallsBefore
<1>. QED
  BY <1>1, CallsCounted, FS_Subset

LEMMA CallCounts ==
  ASSUME NEW k \in Nat \ {0}
  PROVE  /\ Gathers(k) \in Nat /\ Scatters(k) \in Nat
         /\ Gathers(k + 1) = Gathers(k) + IF program[k] = "gather" THEN 1 ELSE 0
         /\ Scatters(k + 1) = Scatters(k) + IF program[k] = "scatter" THEN 1 ELSE 0
         /\ Gathers(k + 1) \in Nat /\ Scatters(k + 1) \in Nat
<1>1. k \in Nat /\ k + 1 \in Nat /\ k > 0
  OBVIOUS
<1>. QED
  BY <1>1, CallsCounted DEF Gathers, Scatters

LEMMA CountsGrow ==
  ASSUME NEW a \in Nat, NEW b \in Nat, a <= b
  PROVE  Gathers(a) <= Gathers(b) /\ Scatters(a) <= Scatters(b)
BY CallsGrow DEF Gathers, Scatters

\* There are no more scatters before a call than calls.
LEMMA ScattersBound ==
  ASSUME NEW k \in Nat \ {0}
  PROVE  Scatters(k) <= k - 1
<1>. DEFINE c == k - 1
<1>1. c \in Nat
  OBVIOUS
<1>2. CallsBefore(k, "scatter") \in SUBSET (1 .. c)
  BY DEF CallsBefore
<1>. HIDE DEF c
<1>3. IsFiniteSet(1 .. c) /\ Cardinality(1 .. c) = c
  <2>1. 1 \in Int /\ c \in Int /\ c - 1 + 1 = c
    BY <1>1
  <2>. QED
    BY <1>1, <2>1, FS_Interval
<1>4. Cardinality(CallsBefore(k, "scatter")) <= c
  BY <1>2, <1>3, FS_Subset
<1>. QED
  BY <1>4 DEF c, Scatters

LEMMA BeforeSteps ==
  ASSUME NEW k \in Nat \ {0}, NEW o, NEW q, NEW s
  PROVE  /\ Before(k, o, q, s) \in Nat
         /\ Before(k + 1, o, q, s) = Before(k, o, q, s) + Uses(k, o, q, s)
         /\ Before(k + 1, o, q, s) \in Nat
         /\ Uses(k, o, q, s) \in {0, 1, 2}
<1>. DEFINE g == Gathers(k)
            c == Scatters(k)
<1>1. /\ g \in Nat /\ c \in Nat
      /\ Gathers(k + 1) = g + IF program[k] = "gather" THEN 1 ELSE 0
      /\ Scatters(k + 1) = c + IF program[k] = "scatter" THEN 1 ELSE 0
  BY CallCounts
<1>2. /\ Before(k, o, q, s) = (IF o # q THEN g ELSE 0) + (IF s = 0 THEN 2 * c ELSE 0)
      /\ Before(k + 1, o, q, s) = (IF o # q THEN Gathers(k + 1) ELSE 0)
                                    + (IF s = 0 THEN 2 * Scatters(k + 1) ELSE 0)
  BY DEF Before, g, c
<1>. HIDE DEF g, c
<1>3. CASE program[k] = "gather"
  <2>1. Gathers(k + 1) = g + 1 /\ Scatters(k + 1) = c
    BY <1>1, <1>3
  <2>2. Uses(k, o, q, s) = IF o # q THEN 1 ELSE 0
    BY <1>3 DEF Uses
  <2>. QED
    BY <1>1, <1>2, <2>1, <2>2
<1>4. CASE program[k] = "scatter"
  <2>1. Gathers(k + 1) = g /\ Scatters(k + 1) = c + 1
    BY <1>1, <1>4
  <2>2. Uses(k, o, q, s) = IF s = 0 THEN 2 ELSE 0
    BY <1>4 DEF Uses
  <2>. QED
    BY <1>1, <1>2, <2>1, <2>2
<1>5. CASE program[k] \notin {"gather", "scatter"}
  <2>1. Gathers(k + 1) = g /\ Scatters(k + 1) = c
    BY <1>1, <1>5
  <2>2. Uses(k, o, q, s) = 0
    BY <1>5 DEF Uses
  <2>. QED
    BY <1>1, <1>2, <2>1, <2>2
<1>. QED
  BY <1>3, <1>4, <1>5

LEMMA BeforeGrows ==
  ASSUME NEW a \in Nat \ {0}, NEW b \in Nat \ {0}, a <= b, NEW o, NEW q, NEW s
  PROVE  Before(a, o, q, s) <= Before(b, o, q, s)
<1>1. /\ Gathers(a) \in Nat /\ Gathers(b) \in Nat /\ Gathers(a) <= Gathers(b)
      /\ Scatters(a) \in Nat /\ Scatters(b) \in Nat /\ Scatters(a) <= Scatters(b)
  BY CallCounts, CountsGrow
<1>. QED
  BY <1>1 DEF Before

-----------------------------------------------------------------------------
(* Blocks of the workspace.                                                *)

\* Rows of equal length, put one after the other, do not meet.
LEMMA RowsApart ==
  ASSUME NEW m \in Nat, NEW a \in Nat, NEW b \in Nat, NEW x \in Nat, NEW y \in Nat,
         x < m, y < m, a * m + x = b * m + y
  PROVE  a = b /\ x = y
<1>1. ASSUME NEW i \in Nat, NEW j \in Nat, i < j
      PROVE  i * m + m <= j * m
  <2>1. PICK e \in Nat : j = i + 1 + e
    <3>1. j - i - 1 \in Nat /\ j = i + 1 + (j - i - 1)
      BY <1>1
    <3>. QED
      BY <3>1
  <2>2. j * m = i * m + m + e * m
    BY <2>1
  <2>3. e * m \in Nat /\ i * m \in Nat
    OBVIOUS
  <2>. QED
    BY <2>2, <2>3
<1>2. a * m \in Nat /\ b * m \in Nat
  OBVIOUS
<1>3. ~ (a < b)
  <2>1. a < b => a * m + m <= b * m
    BY <1>1
  <2>. QED
    BY <1>2, <2>1
<1>4. ~ (b < a)
  <2>1. b < a => b * m + m <= a * m
    BY <1>1
  <2>. QED
    BY <1>2, <2>1
<1>5. a = b
  BY <1>3, <1>4
<1>. QED
  BY <1>2, <1>5

LEMMA RowsFit ==
  ASSUME NEW m \in Nat, NEW n \in Nat, NEW a \in Nat, NEW x \in Nat, x < m, a < n
  PROVE  a * m + x \in Nat /\ a * m + x < n * m
<1>1. PICK e \in Nat : n = a + 1 + e
  <2>1. n - a - 1 \in Nat /\ n = a + 1 + (n - a - 1)
    OBVIOUS
  <2>. QED
    BY <2>1
<1>2. n * m = a * m + m + e * m
  BY <1>1
<1>3. e * m \in Nat /\ a * m \in Nat
  OBVIOUS
<1>. QED
  BY <1>2, <1>3

\* The place of q among the peers of r.
SlotOf(q, r) == IF q < r THEN q ELSE q - 1

LEMMA SlotFacts ==
  ASSUME NEW r \in Ranks, NEW q \in Ranks, q # r
  PROVE  /\ SlotOf(q, r) \in Nat /\ SlotOf(q, r) < NumRanks - 1
         /\ \A p \in Ranks : p # r /\ SlotOf(p, r) = SlotOf(q, r) => p = q
         /\ Cardinality({p \in Peers(r) : p < q}) = SlotOf(q, r)
<1>1. /\ r \in Nat /\ q \in Nat /\ r < NumRanks /\ q < NumRanks /\ NumRanks \in Nat
      /\ \A p \in Ranks : p \in Nat
  BY Numbers
<1>2. /\ SlotOf(q, r) \in Nat /\ SlotOf(q, r) < NumRanks - 1
      /\ \A p \in Ranks : p # r /\ SlotOf(p, r) = SlotOf(q, r) => p = q
  BY <1>1 DEF SlotOf
<1>. DEFINE l == q - 1
            I == 0 .. l
            P == {p \in Peers(r) : p < q}
<1>3. IsFiniteSet(I) /\ Cardinality(I) = q
  <2>. l \in Int /\ 0 \in Int
    BY <1>1
  <2>1. IsFiniteSet(I) /\ Cardinality(I) = IF 0 > l THEN 0 ELSE l - 0 + 1
    <3>. HIDE DEF l
    <3>. QED
      BY FS_Interval
  <2>. HIDE DEF I
  <2>. QED
    BY <1>1, <2>1
<1>4. P = I \ {r}
  BY <1>1 DEF Peers, Ranks
<1>5. r \in I <=> ~ (q < r)
  BY <1>1
<1>. HIDE DEF I, P, l
<1>6. Cardinality(P) = IF r \in I THEN q - 1 ELSE q
  <2>1. CASE r \in I
    BY <1>3, <1>4, <2>1, FS_RemoveElement
  <2>2. CASE r \notin I
    <3>1. P = I
      BY <1>4, <2>2
    <3>. QED
      BY <1>3, <2>2, <3>1
  <2>. QED
    BY <2>1, <2>2
<1>7. Cardinality(P) = SlotOf(q, r)
  BY <1>5, <1>6 DEF SlotOf
<1>. QED
  BY <1>2, <1>7 DEF P

LEMMA CellFacts ==
  ASSUME NEW r \in Ranks, NEW q \in Ranks, NEW s \in Steps
  PROVE  /\ ScatterCell(q, s) \in Cells
         /\ \A p \in Ranks, t \in Steps : ScatterCell(p, t) = ScatterCell(q, s) => p = q /\ t = s
         /\ q # r => /\ GatherCell(q, r, s) \in Cells
                     /\ GatherCell(q, r, s) = PartOf(r, q, s)
                     /\ \A p \in Ranks, t \in Steps :
                          p # r /\ GatherCell(p, r, t) = GatherCell(q, r, s) => p = q /\ t = s
<1>1. /\ r \in Nat /\ q \in Nat /\ s \in Nat /\ NumRanks \in Nat /\ NumSplits \in Nat
      /\ r < NumRanks /\ q < NumRanks /\ s < NumSplits /\ NumRanks >= 2
  BY Numbers
<1>2. ScatterCell(q, s) \in Cells
  <2>1. q * NumSplits + s \in Nat /\ q * NumSplits + s < NumRanks * NumSplits
    BY <1>1, RowsFit
  <2>2. NumRanks * NumSplits \in Nat
    BY <1>1
  <2>. QED
    BY <2>1, <2>2 DEF ScatterCell, Cells
<1>3. ASSUME NEW p \in Ranks, NEW t \in Steps, ScatterCell(p, t) = ScatterCell(q, s)
      PROVE  p = q /\ t = s
  <2>1. p \in Nat /\ t \in Nat /\ t < NumSplits
    BY Numbers
  <2>2. p * NumSplits + t = q * NumSplits + s
    BY <1>3 DEF ScatterCell
  <2>. QED
    BY <1>1, <2>1, <2>2, RowsApart
<1>. DEFINE m == NumRanks - 1
<1>4. m \in Nat
  BY <1>1
<1>5. ASSUME q # r PROVE GatherCell(q, r, s) \in Cells
  <2>1. SlotOf(q, r) \in Nat /\ SlotOf(q, r) < m
    BY <1>5, SlotFacts
  <2>2. GatherCell(q, r, s) = s * m + SlotOf(q, r)
    BY DEF GatherCell, SlotOf
  <2>. HIDE DEF m
  <2>3. s * m + SlotOf(q, r) \in Nat /\ s * m + SlotOf(q, r) < NumSplits * m
    BY <1>1, <1>4, <2>1, RowsFit
  <2>4. NumSplits * m \in Nat /\ NumSplits * m = NumRanks * NumSplits - NumSplits
    BY <1>1, <1>4 DEF m
  <2>5. NumRanks * NumSplits \in Nat
    BY <1>1
  <2>. QED
    BY <1>1, <2>2, <2>3, <2>4, <2>5 DEF Cells
<1>6. ASSUME q # r PROVE GatherCell(q, r, s) = PartOf(r, q, s)
  BY <1>6, SlotFacts DEF GatherCell, PartOf, SlotOf
<1>7. ASSUME q # r, NEW p \in Ranks, NEW t \in Steps, p # r,
             GatherCell(p, r, t) = GatherCell(q, r, s)
      PROVE  p = q /\ t = s
  <2>1. /\ SlotOf(q, r) \in Nat /\ SlotOf(q, r) < m
        /\ SlotOf(p, r) \in Nat /\ SlotOf(p, r) < m
        /\ SlotOf(p, r) = SlotOf(q, r) => p = q
    BY <1>7, SlotFacts
  <2>2. t \in Nat
    BY Numbers
  <2>3. t * m + SlotOf(p, r) = s * m + SlotOf(q, r)
    BY <1>7 DEF GatherCell, SlotOf
  <2>. HIDE DEF m
  <2>. QED
    BY <1>1, <1>4, <2>1, <2>2, <2>3, RowsApart
<1>. QED
  BY <1>2, <1>3, <1>5, <1>6, <1>7

-----------------------------------------------------------------------------
(* A rank by itself.                                                       *)

LEMMA RankTypes ==
  ASSUME TypeOK, NEW r \in Ranks
  PROVE  /\ program \in Programs /\ Len(program) \in Nat
         /\ call[r] \in Nat \ {0} /\ call[r] <= Len(program) + 1
         /\ call[r] \in Calls <=> call[r] <= Len(program)
         /\ at[r] \in Places /\ word[r] \in Ranks /\ word[r] \in Nat /\ word[r] < NumRanks
         /\ used[r] \in Nat /\ used[r] <= NumSplits
         /\ copied[r] \in Nat /\ copied[r] <= NumSplits
         /\ sent[r] \in [Ranks -> 0 .. 2 * NumSplits]
         /\ \A d \in Ranks : sent[r][d] \in Nat /\ sent[r][d] <= 2 * NumSplits
         /\ written[r] \in SUBSET (Ranks \X Steps)
         /\ round[r] \in {1, 2}
         /\ pad[r] \in [Steps -> [Ranks -> {0, 1}]]
         /\ \A s \in Steps, q \in Ranks : pad[r][s][q] \in {0, 1}
         /\ mem[r] \in [Cells -> (0 .. Len(program)) \X Ranks \X Steps]
<1>1. program \in Programs /\ Len(program) \in Nat
  BY ProgramLength DEF TypeOK
<1>2. /\ call[r] \in 1 .. Len(program) + 1 /\ at[r] \in Places /\ word[r] \in Ranks
      /\ used[r] \in 0 .. NumSplits /\ copied[r] \in 0 .. NumSplits
      /\ sent[r] \in [Ranks -> 0 .. 2 * NumSplits]
      /\ written[r] \in SUBSET (Ranks \X Steps)
      /\ round[r] \in {1, 2}
      /\ pad[r] \in [Steps -> [Ranks -> {0, 1}]]
      /\ mem[r] \in [Cells -> (0 .. Len(program)) \X Ranks \X Steps]
  BY DEF TypeOK
<1>3. \A d \in Ranks : sent[r][d] \in 0 .. 2 * NumSplits
  BY <1>2
<1>4. \A s \in Steps, q \in Ranks : pad[r][s][q] \in {0, 1}
  BY <1>2
<1>5. call[r] \in Nat \ {0} /\ call[r] <= Len(program) + 1
  BY <1>1, <1>2
<1>6. call[r] \in Calls <=> call[r] <= Len(program)
  BY <1>1, <1>5 DEF Calls
<1>7. \A d \in Ranks : sent[r][d] \in Nat /\ sent[r][d] <= 2 * NumSplits
  BY <1>3, Numbers
<1>8. /\ word[r] \in Nat /\ word[r] < NumRanks
      /\ used[r] \in Nat /\ used[r] <= NumSplits
      /\ copied[r] \in Nat /\ copied[r] <= NumSplits
  <2>1. word[r] \in Nat /\ word[r] < NumRanks
    BY <1>2, Numbers
  <2>2. NumSplits \in Nat
    BY Numbers
  <2>3. used[r] \in 0 .. NumSplits /\ copied[r] \in 0 .. NumSplits
    BY <1>2
  <2>. QED
    BY <2>1, <2>2, <2>3
<1>. QED
  BY <1>1, <1>2, <1>4, <1>5, <1>6, <1>7, <1>8

LEMMA KindOf ==
  ASSUME TypeOK, NEW k \in Calls
  PROVE  program[k] \in Kinds /\ k \in Nat \ {0} /\ k <= Len(program)
<1>1. program \in Seq(Kinds) /\ Len(program) \in Nat
  BY AsyncAssumption DEF TypeOK
<1>. QED
  BY <1>1 DEF Calls

\* Where the current stream is tells what call it is in.
LEMMA InCall ==
  ASSUME TypeOK, NEW r \in Ranks, PlaceOK(r)
  PROVE  /\ at[r] # "begin" => call[r] \in Calls
         /\ Running(r, "gather") => InGather(r) \/ at[r] = "begin"
         /\ Running(r, "scatter") => InScatter(r) \/ at[r] = "begin"
         /\ Running(r, "other") => at[r] \in {"begin", "meet"}
<1>1. at[r] \in Places
  BY RankTypes
<1>. QED
  BY <1>1 DEF PlaceOK, InGather, InScatter, Running, Places

LEMMA ArrivedType ==
  ASSUME TypeOK, NEW r \in Ranks, PlaceOK(r)
  PROVE  /\ Arrived(r) \in Nat
         /\ InGather(r) => Arrived(r) <= NumSplits
<1>1. used[r] \in Nat /\ used[r] <= NumSplits /\ NumSplits \in Nat
  BY RankTypes, Numbers
<1>2. at[r] = "gemm" => used[r] < NumSplits
  BY DEF PlaceOK, InGather
<1>. QED
  BY <1>1, <1>2 DEF Arrived

LEMMA PutsInBound ==
  ASSUME TypeOK, NEW q \in Ranks, PlaceOK(q), NEW o \in Ranks, NEW s \in Steps
  PROVE  /\ PutsIn(q, o, s) \in Nat /\ PutsIn(q, o, s) <= Uses(call[q], o, q, s)
         /\ Puts(q, o, s) \in Nat
         /\ Before(call[q], o, q, s) <= Puts(q, o, s)
         /\ Puts(q, o, s) <= Before(call[q] + 1, o, q, s)
<1>1. call[q] \in Nat \ {0} /\ round[q] \in {1, 2}
  BY RankTypes
<1>2. /\ Before(call[q], o, q, s) \in Nat
      /\ Before(call[q] + 1, o, q, s) = Before(call[q], o, q, s) + Uses(call[q], o, q, s)
      /\ Uses(call[q], o, q, s) \in {0, 1, 2}
  BY <1>1, BeforeSteps
<1>3. PutsIn(q, o, s) \in Nat /\ PutsIn(q, o, s) <= Uses(call[q], o, q, s)
  <2>1. CASE InGather(q)
    <3>1. program[call[q]] = "gather"
      BY <2>1 DEF PlaceOK, Running
    <3>. QED
      BY <2>1, <3>1 DEF PutsIn, Uses
  <2>2. CASE InScatter(q) /\ ~ InGather(q)
    <3>1. program[call[q]] = "scatter"
      BY <2>2 DEF PlaceOK, Running
    <3>2. Uses(call[q], o, q, s) = IF s = 0 THEN 2 ELSE 0
      BY <3>1 DEF Uses
    <3>3. CASE round[q] = 1
      BY <2>2, <3>2, <3>3 DEF PutsIn
    <3>4. CASE round[q] = 2
      BY <2>2, <3>2, <3>4 DEF PutsIn
    <3>. QED
      BY <1>1, <3>3, <3>4
  <2>3. CASE ~ InScatter(q) /\ ~ InGather(q)
    BY <1>2, <2>3 DEF PutsIn
  <2>. QED
    BY <2>1, <2>2, <2>3
<1>. QED
  BY <1>2, <1>3 DEF Puts

LEMMA TakesInBound ==
  ASSUME TypeOK, NEW o \in Ranks, PlaceOK(o), NEW q \in Ranks, NEW s \in Steps
  PROVE  /\ TakesIn(o, q, s) \in Nat /\ TakesIn(o, q, s) <= Uses(call[o], o, q, s)
         /\ Takes(o, q, s) \in Nat
<1>1. call[o] \in Nat \ {0} /\ round[o] \in {1, 2}
  BY RankTypes
<1>2. /\ Before(call[o], o, q, s) \in Nat
      /\ Uses(call[o], o, q, s) \in {0, 1, 2}
  BY <1>1, BeforeSteps
<1>3. TakesIn(o, q, s) \in Nat /\ TakesIn(o, q, s) <= Uses(call[o], o, q, s)
  <2>1. CASE InGather(o)
    <3>1. program[call[o]] = "gather"
      BY <2>1 DEF PlaceOK, Running
    <3>. QED
      BY <2>1, <3>1 DEF TakesIn, Uses
  <2>2. CASE InScatter(o) /\ ~ InGather(o)
    <3>1. program[call[o]] = "scatter"
      BY <2>2 DEF PlaceOK, Running
    <3>2. Uses(call[o], o, q, s) = IF s = 0 THEN 2 ELSE 0
      BY <3>1 DEF Uses
    <3>3. CASE round[o] = 1
      BY <2>2, <3>2, <3>3 DEF TakesIn
    <3>4. CASE round[o] = 2
      BY <2>2, <3>2, <3>4 DEF TakesIn
    <3>. QED
      BY <1>1, <3>3, <3>4
  <2>3. CASE ~ InScatter(o) /\ ~ InGather(o)
    BY <1>2, <2>3 DEF TakesIn
  <2>. QED
    BY <2>1, <2>2, <2>3
<1>. QED
  BY <1>2, <1>3 DEF Takes

\* Barriers entered and left, in terms of Scatters.
LEMMA EnteredLeft ==
  ASSUME TypeOK, NEW r \in Ranks, PlaceOK(r)
  PROVE  /\ Entered(r) = 2 * Scatters(call[r]) + (IF InScatter(r) THEN round[r] ELSE 0)
         /\ Left(r) = IF at[r] \in {"put", "take"} THEN Entered(r) - 1 ELSE Entered(r)
         /\ Entered(r) \in Nat /\ Left(r) \in Nat
         /\ 2 * Scatters(call[r]) <= Left(r) /\ Left(r) <= Entered(r)
         /\ Entered(r) <= 2 * Scatters(call[r] + 1)
         /\ Scatters(call[r]) \in Nat /\ Scatters(call[r] + 1) \in Nat
<1>1. call[r] \in Nat \ {0} /\ round[r] \in {1, 2}
  BY RankTypes
<1>2. /\ Scatters(call[r]) \in Nat /\ Scatters(call[r] + 1) \in Nat
      /\ Scatters(call[r] + 1) = Scatters(call[r]) + IF program[call[r]] = "scatter" THEN 1 ELSE 0
  BY <1>1, CallCounts
<1>3. Entered(r) = 2 * Scatters(call[r]) + (IF InScatter(r) THEN round[r] ELSE 0)
  BY DEF Entered, BarriersBefore, Scatters, CallsBefore, InScatter
<1>4. InScatter(r) => program[call[r]] = "scatter"
  BY DEF PlaceOK, Running
<1>5. at[r] \in {"put", "take"} => InScatter(r)
  BY DEF InScatter
<1>. DEFINE e == Entered(r)
            c == Scatters(call[r])
            d == Scatters(call[r] + 1)
<1>6. Left(r) = IF at[r] \in {"put", "take"} THEN e - 1 ELSE e
  BY DEF Left
<1>. HIDE DEF e, c, d
<1>7. /\ e = 2 * c + (IF InScatter(r) THEN round[r] ELSE 0)
      /\ c \in Nat /\ d \in Nat /\ (InScatter(r) => d = c + 1) /\ c <= d
  BY <1>2, <1>3, <1>4 DEF e, c, d
<1>8. CASE InScatter(r)
  <2>1. /\ e \in Nat /\ e >= 2 * c + 1 /\ e <= 2 * d
    BY <1>1, <1>7, <1>8
  <2>. QED
    BY <1>3, <1>6, <1>7, <2>1 DEF e, c, d
<1>9. CASE ~ InScatter(r)
  <2>1. /\ e \in Nat /\ e = 2 * c /\ e <= 2 * d
    BY <1>7, <1>9
  <2>. QED
    BY <1>3, <1>5, <1>6, <1>7, <1>9, <2>1 DEF e, c, d
<1>. QED
  BY <1>8, <1>9

\* What others see of a rank depends on the state of that rank alone.
Same(q) ==
  /\ program' = program
  /\ call'[q] = call[q] /\ at'[q] = at[q] /\ word'[q] = word[q] /\ used'[q] = used[q]
  /\ sent'[q] = sent[q] /\ written'[q] = written[q] /\ round'[q] = round[q]

LEMMA SameBefore ==
  ASSUME program' = program
  PROVE  /\ \A k, o, q, s : Before(k, o, q, s)' = Before(k, o, q, s)
         /\ \A k : Scatters(k)' = Scatters(k)
         /\ \A k : Protected(k)' = Protected(k)
         /\ Calls' = Calls
BY DEF Before, Gathers, Scatters, CallsBefore, Protected, Calls

LEMMA SameRank ==
  ASSUME NEW q, Same(q)
  PROVE  /\ \A o, s : Puts(q, o, s)' = Puts(q, o, s)
         /\ \A p, s : Takes(q, p, s)' = Takes(q, p, s)
         /\ Entered(q)' = Entered(q) /\ Left(q)' = Left(q)
         /\ PlaceOK(q)' = PlaceOK(q)
         /\ InGather(q)' = InGather(q) /\ InScatter(q)' = InScatter(q)
<1>1. ASSUME NEW k, NEW o, NEW p, NEW s PROVE Before(k, o, p, s)' = Before(k, o, p, s)
  BY SameBefore DEF Same
<1>2. InGather(q)' = InGather(q) /\ InScatter(q)' = InScatter(q)
  BY DEF Same, InGather, InScatter
<1>3. ASSUME NEW o, NEW s PROVE Puts(q, o, s)' = Puts(q, o, s)
  BY <1>1, <1>2 DEF Same, Puts, PutsIn
<1>4. Arrived(q)' = Arrived(q)
  BY DEF Same, Arrived
<1>5. ASSUME NEW p, NEW s PROVE Takes(q, p, s)' = Takes(q, p, s)
  <2>1. Taken(q, p, s)' = Taken(q, p, s)
    BY <1>4 DEF Same, Taken
  <2>. QED
    BY <1>1, <1>2, <2>1 DEF Same, Takes, TakesIn
<1>6. Entered(q)' = Entered(q)
  BY DEF Same, Entered, BarriersBefore
<1>7. Left(q)' = Left(q)
  BY <1>6 DEF Same, Left
<1>8. \A kind : Running(q, kind)' = Running(q, kind)
  BY DEF Same, Running, Calls
<1>9. PlaceOK(q)' = PlaceOK(q)
  BY <1>2, <1>8 DEF Same, PlaceOK, FirstWord
<1>. QED
  BY <1>2, <1>3, <1>5, <1>6, <1>7, <1>9

-----------------------------------------------------------------------------
(* Two ranks.                                                              *)

\* Whoever has entered a barrier of call j has come to call j.
LEMMA Reach ==
  ASSUME TypeOK, NEW r \in Ranks, PlaceOK(r), NEW j \in Calls,
         Entered(r) >= 2 * Scatters(j) + 1
  PROVE  call[r] >= j
<1>1. call[r] \in Nat \ {0} /\ j \in Nat \ {0}
  BY RankTypes, KindOf
<1>2. /\ Entered(r) \in Nat /\ Scatters(call[r] + 1) \in Nat
      /\ Entered(r) <= 2 * Scatters(call[r] + 1)
  BY EnteredLeft
<1>3. ASSUME call[r] < j PROVE FALSE
  <2>1. call[r] + 1 \in Nat /\ j \in Nat /\ call[r] + 1 <= j
    BY <1>1, <1>3
  <2>2. Scatters(call[r] + 1) <= Scatters(j)
    BY <2>1, CountsGrow
  <2>3. Scatters(j) \in Nat
    BY <1>1, CallCounts
  <2>. QED
    BY <1>2, <2>2, <2>3
<1>. QED
  BY <1>1, <1>3

\* Whoever has written in a scatter, or is through it, has left its first barrier.
LEMMA Wrote ==
  ASSUME IInv, NEW q \in Ranks, NEW k \in Calls, program[k] = "scatter",
         call[q] > k \/ (call[q] = k /\ InScatter(q) /\ written[q] # {})
  PROVE  \A r \in Ranks : Entered(r) >= 2 * Scatters(k) + 1
<1>1. /\ TypeOK /\ PlaceOK(q)
      /\ call[q] \in Nat \ {0} /\ k \in Nat \ {0} /\ round[q] \in {1, 2}
  BY RankTypes, KindOf DEF IInv
<1>2. /\ Scatters(k) \in Nat /\ Scatters(k + 1) = Scatters(k) + 1
  BY <1>1, CallCounts
<1>3. /\ Entered(q) = 2 * Scatters(call[q]) + (IF InScatter(q) THEN round[q] ELSE 0)
      /\ Left(q) = IF at[q] \in {"put", "take"} THEN Entered(q) - 1 ELSE Entered(q)
      /\ Left(q) \in Nat /\ 2 * Scatters(call[q]) <= Left(q)
      /\ Scatters(call[q]) \in Nat
  BY <1>1, EnteredLeft
<1>4. Left(q) >= 2 * Scatters(k) + 1
  <2>1. CASE call[q] > k
    <3>1. k + 1 \in Nat /\ call[q] \in Nat /\ k + 1 <= call[q]
      BY <1>1, <2>1
    <3>2. Scatters(k + 1) <= Scatters(call[q])
      BY <3>1, CountsGrow
    <3>. QED
      BY <1>2, <1>3, <3>2
  <2>2. CASE call[q] = k /\ InScatter(q) /\ written[q] # {}
    <3>1. at[q] \in {"put", "take", "scatter", "reduce"}
      BY <2>2 DEF InScatter
    <3>2. round[q] = 2 \/ at[q] \notin {"put", "take"}
      BY <1>1, <2>2, <3>1 DEF PlaceOK
    <3>3. Entered(q) = 2 * Scatters(k) + round[q]
      BY <1>3, <2>2
    <3>. QED
      BY <1>1, <1>2, <1>3, <3>2, <3>3
  <2>. QED
    BY <2>1, <2>2
<1>5. ASSUME NEW r \in Ranks PROVE Entered(r) >= 2 * Scatters(k) + 1
  <2>1. Left(q) <= Entered(r)
    BY DEF IInv, Together
  <2>2. Entered(r) \in Nat
    BY EnteredLeft DEF IInv
  <2>. QED
    BY <1>2, <1>3, <1>4, <2>1, <2>2
<1>. QED
  BY <1>5

\* Nobody is through a call that waits before everybody has come to it.
LEMMA Passed ==
  ASSUME IInv, NEW j \in Calls, program[j] \in {"scatter", "other"},
         NEW q \in Ranks, call[q] > j, NEW r \in Ranks
  PROVE  call[r] >= j
<1>1. CASE program[j] = "scatter"
  <2>1. Entered(r) >= 2 * Scatters(j) + 1
    BY <1>1, Wrote
  <2>. QED
    BY <2>1, Reach DEF IInv
<1>2. CASE program[j] = "other"
  BY <1>2 DEF IInv, MetOK
<1>. QED
  BY <1>1, <1>2

\* Nobody writes for a later call while somebody works on a protected one.
LEMMA NobodyAhead ==
  ASSUME IInv, NEW k \in Calls, Protected(k), NEW d \in Ranks, call[d] <= k,
         NEW w \in Ranks, call[w] > k, Running(w, "gather") \/ at[w] = "scatter"
  PROVE  FALSE
<1>1. /\ TypeOK /\ PlaceOK(w) /\ PlaceOK(d)
      /\ k \in Nat \ {0} /\ call[w] \in Nat \ {0} /\ call[d] \in Nat \ {0}
  BY RankTypes, KindOf DEF IInv
<1>2. call[w] \in Calls
  BY <1>1 DEF PlaceOK, InScatter, Running
<1>3. k + 1 \in Calls
  BY <1>1, <1>2, RankTypes DEF Calls
<1>4. program[k + 1] \in {"scatter", "other"}
  BY <1>1, <1>3, KindOf DEF Protected, Kinds
<1>5. CASE call[w] > k + 1
  <2>1. call[d] >= k + 1
    BY <1>3, <1>4, <1>5, Passed
  <2>. QED
    BY <1>1, <2>1
<1>6. CASE call[w] = k + 1
  <2>1. at[w] = "scatter" /\ program[k + 1] = "scatter" /\ InScatter(w) /\ round[w] = 1
    BY <1>1, <1>4, <1>6 DEF Running, PlaceOK, InScatter
  <2>2. /\ Entered(w) = 2 * Scatters(call[w]) + (IF InScatter(w) THEN round[w] ELSE 0)
        /\ Left(w) = IF at[w] \in {"put", "take"} THEN Entered(w) - 1 ELSE Entered(w)
    BY <1>1, EnteredLeft
  <2>3. Left(w) = 2 * Scatters(k + 1) + 1
    BY <1>6, <2>1, <2>2
  <2>4. Entered(d) >= 2 * Scatters(k + 1) + 1
    BY <2>3 DEF IInv, Together
  <2>5. call[d] >= k + 1
    BY <1>1, <1>3, <2>4, Reach
  <2>. QED
    BY <1>1, <2>5
<1>. QED
  BY <1>1, <1>5, <1>6

\* Nobody still gathers for an earlier call where a scatter has written.
LEMMA NoOldGather ==
  ASSUME IInv, NEW k \in Calls, program[k] = "scatter", NEW q \in Ranks,
         call[q] > k \/ (call[q] = k /\ InScatter(q) /\ written[q] # {}),
         NEW w \in Ranks, Running(w, "gather"), call[w] < k
  PROVE  FALSE
<1>1. /\ TypeOK /\ PlaceOK(w)
      /\ k \in Nat \ {0} /\ call[w] \in Nat \ {0}
  BY RankTypes, KindOf DEF IInv
<1>2. Entered(w) >= 2 * Scatters(k) + 1
  BY Wrote
<1>3. call[w] >= k
  BY <1>1, <1>2, Reach
<1>. QED
  BY <1>1, <1>3

\* Nobody still scatters for an earlier call than anybody's.
LEMMA NoOldScatter ==
  ASSUME IInv, NEW q \in Ranks, NEW w \in Ranks, at[w] = "scatter"
  PROVE  ~ (call[w] < call[q])
<1>. DEFINE c == call[w]
<1>1. /\ TypeOK /\ PlaceOK(w) /\ PlaceOK(q)
      /\ c \in Nat \ {0} /\ call[q] \in Nat \ {0}
  BY RankTypes DEF IInv
<1>2. InScatter(w) /\ round[w] = 1 /\ program[c] = "scatter"
  BY <1>1 DEF PlaceOK, InScatter, Running
<1>3. Scatters(c + 1) = Scatters(c) + 1 /\ Scatters(c) \in Nat
  BY <1>1, <1>2, CallCounts
<1>4. Entered(w) = 2 * Scatters(c) + 1
  BY <1>1, <1>2, EnteredLeft
<1>5. /\ 2 * Scatters(call[q]) <= Left(q) /\ Left(q) \in Nat /\ Scatters(call[q]) \in Nat
  BY <1>1, EnteredLeft
<1>6. Left(q) <= Entered(w)
  BY DEF IInv, Together
<1>7. ASSUME c < call[q] PROVE FALSE
  <2>1. c + 1 \in Nat /\ call[q] \in Nat /\ c + 1 <= call[q]
    BY <1>1, <1>7
  <2>2. Scatters(c + 1) <= Scatters(call[q])
    BY <2>1, CountsGrow
  <2>. QED
    BY <1>3, <1>4, <1>5, <1>6, <2>2
<1>. QED
  BY <1>7

\* A rank that has the words of a barrier has them from that barrier.
LEMMA Heard ==
  ASSUME TypeOK, NEW r \in Ranks, PlaceOK(r), InScatter(r),
         NEW q \in Ranks, PlaceOK(q),
         Puts(q, r, 0) >= Before(call[r], r, q, 0) + round[r]
  PROVE  Entered(q) >= Entered(r)
<1>. DEFINE c == call[r]
<1>1. /\ c \in Nat \ {0} /\ call[q] \in Nat \ {0} /\ round[r] \in {1, 2} /\ round[q] \in {1, 2}
      /\ program[c] = "scatter" /\ 0 \in Steps
  BY RankTypes, Numbers DEF PlaceOK, Running
<1>2. Scatters(c) \in Nat /\ Scatters(c + 1) = Scatters(c) + 1
  BY <1>1, CallCounts
<1>3. Entered(r) = 2 * Scatters(c) + round[r]
  BY EnteredLeft
<1>4. /\ Entered(q) = 2 * Scatters(call[q]) + (IF InScatter(q) THEN round[q] ELSE 0)
      /\ Scatters(call[q]) \in Nat
  BY EnteredLeft
<1>5. Before(c, r, q, 0) \in Nat
  BY <1>1, BeforeSteps
<1>6. /\ PutsIn(q, r, 0) \in Nat /\ Puts(q, r, 0) \in Nat
      /\ Puts(q, r, 0) <= Before(call[q] + 1, r, q, 0)
  BY <1>1, PutsInBound
<1>7. CASE call[q] < c
  <2>1. call[q] + 1 \in Nat \ {0} /\ call[q] + 1 <= c
    BY <1>1, <1>7
  <2>2. Before(call[q] + 1, r, q, 0) <= Before(c, r, q, 0)
    BY <1>1, <2>1, BeforeGrows
  <2>3. Before(call[q] + 1, r, q, 0) \in Nat
    BY <1>1, BeforeSteps
  <2>4. Puts(q, r, 0) >= Before(c, r, q, 0) + round[r]
    OBVIOUS
  <2>. HIDE DEF c
  <2>. QED
    BY <1>1, <1>5, <1>6, <2>2, <2>3, <2>4
<1>8. CASE call[q] = c
  <2>1. Puts(q, r, 0) = Before(c, r, q, 0) + PutsIn(q, r, 0)
    BY <1>8 DEF Puts
  <2>2. PutsIn(q, r, 0) >= round[r]
    BY <1>1, <1>5, <1>6, <2>1
  <2>3. ~ InGather(q)
    BY <1>1, <1>8 DEF PlaceOK, Running
  <2>4. InScatter(q)
    BY <1>1, <2>2, <2>3 DEF PutsIn
  <2>5. PutsIn(q, r, 0) <= round[q]
    BY <1>1, <2>3, <2>4 DEF PutsIn
  <2>6. round[r] <= round[q]
    BY <1>1, <1>6, <2>2, <2>5
  <2>7. Entered(q) = 2 * Scatters(c) + round[q]
    BY <1>4, <1>8, <2>4
  <2>. HIDE DEF c
  <2>. QED
    BY <1>1, <1>2, <1>3, <2>6, <2>7
<1>9. CASE call[q] > c
  <2>1. c + 1 \in Nat /\ call[q] \in Nat /\ c + 1 <= call[q]
    BY <1>1, <1>9
  <2>2. Scatters(c + 1) <= Scatters(call[q])
    BY <2>1, CountsGrow
  <2>3. Entered(q) >= 2 * Scatters(call[q])
    BY <1>1, <1>4
  <2>. HIDE DEF c
  <2>. QED
    BY <1>1, <1>2, <1>3, <1>4, <2>2, <2>3
<1>. QED
  BY <1>1, <1>7, <1>8, <1>9

-----------------------------------------------------------------------------
(* A step of one rank.                                                     *)

RankStep(r) ==
  CurrentStep(r) \/ CopyOut(r) \/ ScatterStep(r) \/ \E d \in Ranks : SendStep(r, d)

\* The streams of a rank change nothing of the others but pads and workspaces.
LEMMA Framed ==
  ASSUME TypeOK, NEW r \in Ranks, RankStep(r)
  PROVE  /\ program' = program
         /\ \A q \in Ranks : q # r => Same(q)
         /\ call'[r] = call[r] \/ (call'[r] = call[r] + 1 /\ mem' = mem /\ pad' = pad)
<1>. USE DEF TypeOK, Same
<1>1. CASE BeginGather(r)
  BY <1>1 DEF BeginGather, scatterVars
<1>2. CASE WaitSignal(r)
  BY <1>2 DEF WaitSignal, gatherVars, scatterVars
<1>3. CASE Gemm(r)
  BY <1>3 DEF Gemm, scatterVars
<1>4. CASE EndGather(r)
  BY <1>4 DEF EndGather, NextCall, gatherVars, scatterVars
<1>5. CASE BeginScatter(r)
  BY <1>5 DEF BeginScatter, gatherVars
<1>6. CASE BarrierPut(r)
  BY <1>6 DEF BarrierPut, gatherVars, scatterVars
<1>7. CASE BarrierTake(r)
  BY <1>7 DEF BarrierTake, gatherVars, scatterVars
<1>8. CASE EndScatter(r)
  BY <1>8 DEF EndScatter, gatherVars
<1>9. CASE Reduce(r)
  BY <1>9 DEF Reduce, NextCall, gatherVars, scatterVars
<1>10. CASE BeginOther(r)
  BY <1>10 DEF BeginOther, gatherVars, scatterVars
<1>11. CASE EndOther(r)
  BY <1>11 DEF EndOther, NextCall, gatherVars, scatterVars
<1>12. CASE CopyOut(r)
  BY <1>12 DEF CopyOut, scatterVars
<1>13. ASSUME NEW d \in Ranks, NEW s \in Steps, Scatter(r, d, s)
       PROVE  /\ program' = program
              /\ \A q \in Ranks : q # r => Same(q)
              /\ call'[r] = call[r]
  BY <1>13 DEF Scatter, gatherVars
<1>14. ASSUME NEW d \in Ranks, CopyPart(r, d)
       PROVE  /\ program' = program
              /\ \A q \in Ranks : q # r => Same(q)
              /\ call'[r] = call[r]
  BY <1>14 DEF CopyPart, scatterVars
<1>15. ASSUME NEW d \in Ranks, SignalPart(r, d)
       PROVE  /\ program' = program
              /\ \A q \in Ranks : q # r => Same(q)
              /\ call'[r] = call[r]
  BY <1>15 DEF SignalPart, scatterVars
<1>. QED
  BY <1>1, <1>2, <1>3, <1>4, <1>5, <1>6, <1>7, <1>8, <1>9, <1>10, <1>11, <1>12,
     <1>13, <1>14, <1>15 DEF RankStep, CurrentStep, ScatterStep, SendStep

LEMMA WordsOK ==
  ASSUME NEW r \in Ranks
  PROVE  /\ FirstWord(r) \in Ranks /\ FirstWord(r) # r
         /\ \A w \in Ranks : w # r /\ WordAfter(r, w) < NumRanks =>
              /\ WordAfter(r, w) \in Ranks /\ WordAfter(r, w) # r
              /\ \A q \in Ranks : q # r => (q < WordAfter(r, w) <=> q < w \/ q = w)
         /\ \A w \in Ranks : w # r /\ ~ (WordAfter(r, w) < NumRanks) =>
              \A q \in Ranks : q # r => q < w \/ q = w
         /\ \A q \in Ranks : q # r => ~ (q < FirstWord(r))
<1>1. /\ NumRanks \in Nat /\ NumRanks >= 2 /\ \A q \in Ranks : q \in Nat /\ q < NumRanks
      /\ \A n \in Nat : n < NumRanks => n \in Ranks
  BY Numbers DEF Ranks
<1>. QED
  BY <1>1 DEF FirstWord, WordAfter

LEMMA SendFacts ==
  ASSUME TypeOK, NEW r \in Ranks, PlaceOK(r), NEW d \in Ranks, Sending(r, d)
  PROVE  /\ Running(r, "gather") /\ InGather(r) /\ d # r /\ call[r] \in Calls
         /\ sent[r][d] \in Nat /\ sent[r][d] < 2 * NumSplits
         /\ sent[r][d] \div 2 \in Steps
         /\ sent[r][d] % 2 = 0 => sent[r][d] = 2 * (sent[r][d] \div 2)
         /\ sent[r][d] % 2 = 1 => sent[r][d] = 2 * (sent[r][d] \div 2) + 1
<1>1. Running(r, "gather") /\ at[r] # "begin" /\ d # r /\ sent[r][d] < 2 * NumSplits
  BY DEF Sending
<1>2. InGather(r) /\ call[r] \in Calls
  BY <1>1, InCall
<1>3. sent[r][d] \in Nat /\ NumSplits \in Nat
  BY RankTypes, Numbers
<1>. DEFINE x == sent[r][d]
<1>. HIDE DEF x
<1>4. x \in Nat /\ x < 2 * NumSplits
  BY <1>1, <1>3 DEF x
<1>5. /\ x \div 2 \in Nat /\ x \div 2 < NumSplits
      /\ x % 2 = 0 => x = 2 * (x \div 2)
      /\ x % 2 = 1 => x = 2 * (x \div 2) + 1
  BY <1>3, <1>4
<1>6. x \div 2 \in Steps
  BY <1>3, <1>5 DEF Steps
<1>. QED
  BY <1>1, <1>2, <1>3, <1>5, <1>6 DEF x

LEMMA TypeKept ==
  ASSUME TypeOK, NEW r \in Ranks, PlaceOK(r), RankStep(r)
  PROVE  TypeOK'
<1>1. /\ program \in Programs /\ Len(program) \in Nat
      /\ call[r] \in Nat \ {0} /\ call[r] <= Len(program) + 1
      /\ call[r] \in Calls <=> call[r] <= Len(program)
      /\ at[r] \in Places /\ word[r] \in Ranks /\ word[r] \in Nat
      /\ used[r] \in Nat /\ used[r] <= NumSplits
      /\ copied[r] \in Nat /\ copied[r] <= NumSplits
      /\ NumRanks \in Nat /\ NumRanks >= 2 /\ NumSplits \in Nat
      /\ 0 \in Ranks /\ 0 \in Steps
  BY RankTypes, Numbers
<1>2. at[r] # "begin" => call[r] \in Calls
  BY InCall
<1>3. ASSUME NextCall(r), at[r] # "begin", program' = program
      PROVE  /\ call' \in [Ranks -> 1 .. Len(program') + 1]
             /\ at' \in [Ranks -> Places]
  <2>1. call[r] + 1 \in 1 .. Len(program) + 1
    BY <1>1, <1>2, <1>3
  <2>2. "begin" \in Places
    BY DEF Places
  <2>. QED
    BY <1>3, <2>1, <2>2 DEF NextCall, TypeOK
<1>4. ASSUME NEW o \in Ranks, NEW s \in Steps, NEW p \in Ranks,
             PutSignal(o, s, p) \/ TakeSignal(o, s, p)
      PROVE  pad' \in [Ranks -> [Steps -> [Ranks -> {0, 1}]]]
  <2>1. pad \in [Ranks -> [Steps -> [Ranks -> {0, 1}]]]
    BY DEF TypeOK
  <2>2. CASE PutSignal(o, s, p)
    BY <2>1, <2>2 DEF PutSignal
  <2>3. CASE TakeSignal(o, s, p)
    BY <2>1, <2>3 DEF TakeSignal
  <2>. QED
    BY <1>4, <2>2, <2>3
<1>5. /\ "wait" \in Places /\ "gemm" \in Places /\ "join" \in Places /\ "put" \in Places
      /\ "take" \in Places /\ "scatter" \in Places /\ "reduce" \in Places /\ "meet" \in Places
  BY DEF Places
<1>6. ASSUME BeginGather(r) PROVE TypeOK'
  <2>1. FirstWord(r) \in Ranks /\ 0 \in 0 .. NumSplits /\ 0 \in 0 .. 2 * NumSplits
    BY <1>1, WordsOK
  <2>. QED
    BY <1>5, <1>6, <2>1 DEF BeginGather, TypeOK, scatterVars
<1>7. ASSUME WaitSignal(r) PROVE TypeOK'
  <2>1. /\ FirstWord(r) \in Ranks
        /\ WordAfter(r, word[r]) < NumRanks => WordAfter(r, word[r]) \in Ranks
    <3>1. word[r] # r
      BY <1>7 DEF WaitSignal, PlaceOK, InGather
    <3>. QED
      BY <1>1, <3>1, WordsOK
  <2>2. used[r] \in Steps
    <3>1. used[r] < NumSplits
      BY <1>7 DEF WaitSignal, PlaceOK, InGather
    <3>. QED
      BY <1>1, <3>1 DEF Steps
  <2>3. pad' \in [Ranks -> [Steps -> [Ranks -> {0, 1}]]]
    BY <1>1, <1>4, <1>7, <2>2 DEF WaitSignal
  <2>4. word' \in [Ranks -> Ranks] /\ at' \in [Ranks -> Places]
    <3>1. word \in [Ranks -> Ranks] /\ at \in [Ranks -> Places]
      BY DEF TypeOK
    <3>2. CASE WordAfter(r, word[r]) < NumRanks
      BY <1>7, <2>1, <3>1, <3>2 DEF WaitSignal
    <3>3. CASE ~ (WordAfter(r, word[r]) < NumRanks)
      BY <1>5, <1>7, <2>1, <3>1, <3>3 DEF WaitSignal
    <3>. QED
      BY <3>2, <3>3
  <2>. QED
    BY <1>7, <2>3, <2>4 DEF WaitSignal, TypeOK, gatherVars, scatterVars
<1>8. ASSUME Gemm(r) PROVE TypeOK'
  <2>1. used[r] < NumSplits
    BY <1>8 DEF Gemm, PlaceOK, InGather
  <2>2. used[r] + 1 \in 0 .. NumSplits
    BY <1>1, <2>1
  <2>. QED
    BY <1>5, <1>8, <2>2 DEF Gemm, TypeOK, scatterVars
<1>9. ASSUME EndGather(r) PROVE TypeOK'
  BY <1>3, <1>9 DEF EndGather, TypeOK, gatherVars, scatterVars
<1>10. ASSUME BeginScatter(r) PROVE TypeOK'
  BY <1>1, <1>5, <1>10 DEF BeginScatter, TypeOK, gatherVars
<1>11. ASSUME BarrierPut(r) PROVE TypeOK'
  <2>1. pad' \in [Ranks -> [Steps -> [Ranks -> {0, 1}]]]
    BY <1>1, <1>4, <1>11 DEF BarrierPut
  <2>2. word[r] < LastWord => word[r] + 1 \in Ranks
    BY <1>1 DEF LastWord, Ranks
  <2>3. word' \in [Ranks -> Ranks] /\ at' \in [Ranks -> Places]
    <3>1. word \in [Ranks -> Ranks] /\ at \in [Ranks -> Places]
      BY DEF TypeOK
    <3>2. CASE word[r] < LastWord
      BY <1>11, <2>2, <3>1, <3>2 DEF BarrierPut
    <3>3. CASE ~ (word[r] < LastWord)
      BY <1>1, <1>5, <1>11, <3>1, <3>3 DEF BarrierPut
    <3>. QED
      BY <3>2, <3>3
  <2>. QED
    BY <1>11, <2>1, <2>3 DEF BarrierPut, TypeOK, gatherVars, scatterVars
<1>12. ASSUME BarrierTake(r) PROVE TypeOK'
  <2>1. pad' \in [Ranks -> [Steps -> [Ranks -> {0, 1}]]]
    BY <1>1, <1>4, <1>12 DEF BarrierTake
  <2>2. word[r] < LastWord => word[r] + 1 \in Ranks
    BY <1>1 DEF LastWord, Ranks
  <2>3. word' \in [Ranks -> Ranks] /\ at' \in [Ranks -> Places]
    <3>1. word \in [Ranks -> Ranks] /\ at \in [Ranks -> Places]
      BY DEF TypeOK
    <3>2. CASE word[r] < LastWord
      BY <1>12, <2>2, <3>1, <3>2 DEF BarrierTake
    <3>3. CASE ~ (word[r] < LastWord)
      BY <1>1, <1>5, <1>12, <3>1, <3>3 DEF BarrierTake
    <3>. QED
      BY <3>2, <3>3
  <2>. QED
    BY <1>12, <2>1, <2>3 DEF BarrierTake, TypeOK, gatherVars, scatterVars
<1>13. ASSUME EndScatter(r) PROVE TypeOK'
  BY <1>5, <1>13 DEF EndScatter, TypeOK, gatherVars
<1>14. ASSUME Reduce(r) PROVE TypeOK'
  BY <1>3, <1>14 DEF Reduce, TypeOK, gatherVars, scatterVars
<1>15. ASSUME BeginOther(r) PROVE TypeOK'
  BY <1>5, <1>15 DEF BeginOther, TypeOK, gatherVars, scatterVars
<1>16. ASSUME EndOther(r) PROVE TypeOK'
  BY <1>3, <1>16 DEF EndOther, TypeOK, gatherVars, scatterVars
<1>17. ASSUME CopyOut(r) PROVE TypeOK'
  <2>1. Arrived(r) \in Nat /\ Arrived(r) <= NumSplits
    <3>1. InGather(r)
      BY <1>17, InCall DEF CopyOut
    <3>. QED
      BY <3>1, ArrivedType
  <2>2. copied[r] + 1 \in 0 .. NumSplits
    BY <1>1, <1>17, <2>1 DEF CopyOut
  <2>. QED
    BY <1>17, <2>2 DEF CopyOut, TypeOK, scatterVars
<1>18. ASSUME NEW d \in Ranks, NEW c \in Cells, NEW s \in Steps, call[r] \in Calls,
              program' = program, mem' = [mem EXCEPT ![d][c] = <<call[r], r, s>>]
       PROVE  mem' \in [Ranks -> [Cells -> (0 .. Len(program')) \X Ranks \X Steps]]
  <2>1. <<call[r], r, s>> \in (0 .. Len(program')) \X Ranks \X Steps
    BY <1>1, <1>18
  <2>. QED
    BY <1>18, <2>1 DEF TypeOK
<1>19. ASSUME NEW d \in Ranks, NEW s \in Steps, Scatter(r, d, s) PROVE TypeOK'
  <2>1. ScatterCell(r, s) \in Cells
    BY CellFacts
  <2>2. mem' \in [Ranks -> [Cells -> (0 .. Len(program')) \X Ranks \X Steps]]
    BY <1>2, <1>18, <1>19, <2>1 DEF Scatter
  <2>3. written' \in [Ranks -> SUBSET (Ranks \X Steps)]
    <3>1. written \in [Ranks -> SUBSET (Ranks \X Steps)]
      BY DEF TypeOK
    <3>2. written[r] \cup {<<d, s>>} \in SUBSET (Ranks \X Steps)
      BY <3>1
    <3>. QED
      BY <1>19, <3>1, <3>2 DEF Scatter
  <2>. QED
    BY <1>19, <2>2, <2>3 DEF Scatter, TypeOK, gatherVars
<1>20. ASSUME NEW d \in Ranks, CopyPart(r, d) PROVE TypeOK'
  <2>. DEFINE s == sent[r][d] \div 2
  <2>1. /\ s \in Steps /\ d # r /\ call[r] \in Calls
        /\ sent[r][d] \in Nat /\ sent[r][d] < 2 * NumSplits
    BY <1>20, SendFacts DEF CopyPart
  <2>2. GatherCell(r, d, s) \in Cells
    BY <2>1, CellFacts
  <2>3. mem' \in [Ranks -> [Cells -> (0 .. Len(program')) \X Ranks \X Steps]]
    BY <1>18, <1>20, <2>1, <2>2 DEF CopyPart
  <2>4. sent[r][d] + 1 \in 0 .. 2 * NumSplits
    BY <1>1, <2>1, SMTT(30), ZenonT(30)
  <2>. QED
    BY <1>20, <2>3, <2>4 DEF CopyPart, TypeOK, scatterVars
<1>21. ASSUME NEW d \in Ranks, SignalPart(r, d) PROVE TypeOK'
  <2>. DEFINE s == sent[r][d] \div 2
  <2>1. /\ s \in Steps
        /\ sent[r][d] \in Nat /\ sent[r][d] < 2 * NumSplits
    BY <1>21, SendFacts DEF SignalPart
  <2>2. pad' \in [Ranks -> [Steps -> [Ranks -> {0, 1}]]]
    BY <1>4, <1>21, <2>1 DEF SignalPart
  <2>3. sent[r][d] + 1 \in 0 .. 2 * NumSplits
    BY <1>1, <2>1, SMTT(30), ZenonT(30)
  <2>. QED
    BY <1>21, <2>2, <2>3 DEF SignalPart, TypeOK, scatterVars
<1>. QED
  BY <1>6, <1>7, <1>8, <1>9, <1>10, <1>11, <1>12, <1>13, <1>14, <1>15, <1>16, <1>17,
     <1>19, <1>20, <1>21 DEF RankStep, CurrentStep, ScatterStep, SendStep

LEMMA PlaceKept ==
  ASSUME TypeOK, NEW r \in Ranks, PlaceOK(r), RankStep(r)
  PROVE  PlaceOK(r)'
<1>1. /\ program' = program /\ Calls' = Calls
      /\ call' \in [Ranks -> 1 .. Len(program) + 1] /\ at' \in [Ranks -> Places]
      /\ word' \in [Ranks -> Ranks] /\ used' \in [Ranks -> 0 .. NumSplits]
      /\ written' \in [Ranks -> SUBSET (Ranks \X Steps)] /\ round' \in [Ranks -> {1, 2}]
  BY Framed, TypeKept DEF TypeOK, Calls
<1>2. /\ at[r] \in Places /\ word[r] \in Ranks /\ round[r] \in {1, 2}
      /\ used[r] \in Nat /\ NumSplits \in Nat /\ NumSplits >= 1
  BY RankTypes, Numbers
<1>3. ASSUME at'[r] \in {"begin"} PROVE PlaceOK(r)'
  BY <1>3 DEF PlaceOK, InGather, InScatter
<1>4. ASSUME BeginGather(r) PROVE PlaceOK(r)'
  <2>1. at'[r] = "wait" /\ word'[r] = FirstWord(r) /\ used'[r] = 0 /\ call'[r] = call[r]
    BY <1>4 DEF BeginGather, TypeOK
  <2>2. Running(r, "gather")'
    BY <1>1, <1>4, <2>1 DEF BeginGather, Running
  <2>3. FirstWord(r) # r
    BY WordsOK
  <2>. QED
    BY <1>2, <2>1, <2>2, <2>3 DEF PlaceOK, InGather, InScatter
<1>5. ASSUME WaitSignal(r) PROVE PlaceOK(r)'
  <2>1. /\ call'[r] = call[r] /\ used'[r] = used[r] /\ at[r] = "wait"
        /\ \/ WordAfter(r, word[r]) < NumRanks /\ word'[r] = WordAfter(r, word[r]) /\ at'[r] = "wait"
           \/ word'[r] = FirstWord(r) /\ at'[r] = "gemm"
    BY <1>5 DEF WaitSignal, TypeOK, gatherVars
  <2>2. Running(r, "gather") /\ word[r] # r /\ used[r] < NumSplits
    BY <2>1 DEF PlaceOK, InGather
  <2>3. Running(r, "gather")'
    BY <1>1, <2>1, <2>2 DEF Running
  <2>4. word'[r] # r
    BY <1>2, <2>1, <2>2, WordsOK
  <2>5. FirstWord(r)' = FirstWord(r)
    BY DEF FirstWord
  <2>. QED
    BY <1>2, <2>1, <2>2, <2>3, <2>4, <2>5 DEF PlaceOK, InGather, InScatter
<1>6. ASSUME Gemm(r) PROVE PlaceOK(r)'
  <2>1. /\ call'[r] = call[r] /\ used'[r] = used[r] + 1 /\ at[r] = "gemm" /\ word'[r] = word[r]
        /\ at'[r] = IF used[r] + 1 < NumSplits THEN "wait" ELSE "join"
    BY <1>6 DEF Gemm, TypeOK
  <2>2. Running(r, "gather") /\ word[r] # r /\ used[r] < NumSplits
    BY <2>1 DEF PlaceOK, InGather
  <2>3. Running(r, "gather")'
    BY <1>1, <2>1, <2>2 DEF Running
  <2>. QED
    BY <1>2, <2>1, <2>2, <2>3 DEF PlaceOK, InGather, InScatter
<1>7. ASSUME NextCall(r) PROVE PlaceOK(r)'
  BY <1>3, <1>7 DEF NextCall, TypeOK
<1>8. ASSUME BeginScatter(r) PROVE PlaceOK(r)'
  <2>1. at'[r] = "put" /\ call'[r] = call[r] /\ round'[r] = 1 /\ written'[r] = {}
    BY <1>8 DEF BeginScatter, TypeOK
  <2>2. Running(r, "scatter")'
    BY <1>1, <1>8, <2>1 DEF BeginScatter, Running
  <2>. QED
    BY <2>1, <2>2 DEF PlaceOK, InGather, InScatter
<1>9. ASSUME BarrierPut(r) PROVE PlaceOK(r)'
  <2>1. /\ call'[r] = call[r] /\ round'[r] = round[r] /\ written'[r] = written[r]
        /\ at[r] = "put" /\ at'[r] \in {"put", "take"}
    BY <1>9 DEF BarrierPut, TypeOK, scatterVars
  <2>2. Running(r, "scatter")'
    BY <1>1, <2>1 DEF Running, PlaceOK, InScatter
  <2>. QED
    BY <2>1, <2>2 DEF PlaceOK, InGather, InScatter
<1>10. ASSUME BarrierTake(r) PROVE PlaceOK(r)'
  <2>1. /\ call'[r] = call[r] /\ round'[r] = round[r] /\ written'[r] = written[r]
        /\ at[r] = "take"
        /\ \/ at'[r] = "take"
           \/ word'[r] = 0 /\ at'[r] = IF round[r] = 1 THEN "scatter" ELSE "reduce"
    BY <1>10 DEF BarrierTake, TypeOK, scatterVars
  <2>2. Running(r, "scatter")'
    BY <1>1, <2>1 DEF Running, PlaceOK, InScatter
  <2>. QED
    BY <1>2, <2>1, <2>2 DEF PlaceOK, InGather, InScatter
<1>11. ASSUME EndScatter(r) PROVE PlaceOK(r)'
  <2>1. /\ call'[r] = call[r] /\ round'[r] = 2 /\ written'[r] = Ranks \X Steps
        /\ at[r] = "scatter" /\ at'[r] = "put"
    BY <1>11 DEF EndScatter, TypeOK
  <2>2. Running(r, "scatter")'
    BY <1>1, <2>1 DEF Running, PlaceOK, InScatter
  <2>. QED
    BY <2>1, <2>2 DEF PlaceOK, InGather, InScatter
<1>12. ASSUME BeginOther(r) PROVE PlaceOK(r)'
  <2>1. at'[r] = "meet" /\ call'[r] = call[r]
    BY <1>12 DEF BeginOther, TypeOK
  <2>2. Running(r, "other")'
    BY <1>1, <1>12, <2>1 DEF BeginOther, Running
  <2>. QED
    BY <2>1, <2>2 DEF PlaceOK, InGather, InScatter
<1>13. ASSUME NEW d \in Ranks, NEW s \in Steps, Scatter(r, d, s) PROVE PlaceOK(r)'
  <2>1. /\ call'[r] = call[r] /\ round'[r] = round[r] /\ at'[r] = at[r] /\ word'[r] = word[r]
        /\ at[r] = "scatter"
    BY <1>13 DEF Scatter
  <2>2. Running(r, "scatter")'
    BY <1>1, <2>1 DEF Running, PlaceOK, InScatter
  <2>. QED
    BY <2>1, <2>2 DEF PlaceOK, InGather, InScatter
<1>14. ASSUME Same(r) PROVE PlaceOK(r)'
  BY <1>14, SameRank
<1>15. ASSUME CopyOut(r) PROVE Same(r)
  BY <1>15 DEF CopyOut, Same, scatterVars
<1>16. ASSUME NEW d \in Ranks, SendStep(r, d) PROVE PlaceOK(r)'
  <2>1. /\ program' = program /\ call' = call /\ at' = at /\ word' = word /\ used' = used
        /\ written' = written /\ round' = round
    BY <1>16 DEF SendStep, CopyPart, SignalPart, scatterVars
  <2>2. \A kind : Running(r, kind)' = Running(r, kind)
    BY <1>1, <2>1 DEF Running
  <2>. QED
    BY <2>1, <2>2 DEF PlaceOK, InGather, InScatter, FirstWord
<1>. QED
  BY <1>4, <1>5, <1>6, <1>7, <1>8, <1>9, <1>10, <1>11, <1>12, <1>13, <1>14, <1>15, <1>16
     DEF RankStep, CurrentStep, ScatterStep, EndGather, Reduce, EndOther

-----------------------------------------------------------------------------
(* The signal words.                                                       *)

LEMMA WordCounts ==
  ASSUME IInv, NEW o \in Ranks, NEW q \in Ranks, NEW s \in Steps
  PROVE  /\ Puts(q, o, s) \in Nat /\ Takes(o, q, s) \in Nat
         /\ pad[o][s][q] = Puts(q, o, s) - Takes(o, q, s) /\ pad[o][s][q] \in {0, 1}
BY PutsInBound, TakesInBound, RankTypes, SMTT(30), ZenonT(30) DEF IInv, PadOK

LEMMA CountsKept ==
  ASSUME TypeOK, NEW r \in Ranks, RankStep(r), NEW q \in Ranks, q # r
  PROVE  \A o, s : Puts(q, o, s)' = Puts(q, o, s) /\ Takes(q, o, s)' = Takes(q, o, s)
BY Framed, SameRank

LEMMA PadStays ==
  ASSUME IInv, NEW r \in Ranks, RankStep(r), pad' = pad,
         \A o \in Ranks, s \in Steps :
           Puts(r, o, s)' = Puts(r, o, s) /\ Takes(r, o, s)' = Takes(r, o, s)
  PROVE  PadOK'
<1>1. \A q \in Ranks, o \in Ranks, s \in Steps :
        Puts(q, o, s)' = Puts(q, o, s) /\ Takes(q, o, s)' = Takes(q, o, s)
  BY CountsKept DEF IInv
<1>. QED
  BY <1>1 DEF IInv, PadOK

LEMMA PadUp ==
  ASSUME IInv, NEW r \in Ranks, RankStep(r), NEW x \in Ranks, NEW t \in Steps,
         PutSignal(x, t, r),
         \A o \in Ranks, s \in Steps :
           /\ Puts(r, o, s)' = Puts(r, o, s) + IF o = x /\ s = t THEN 1 ELSE 0
           /\ Takes(r, o, s)' = Takes(r, o, s)
  PROVE  PadOK'
<1>1. ASSUME NEW q \in Ranks, NEW o \in Ranks, NEW s \in Steps
      PROVE  /\ Puts(q, o, s)' = Puts(q, o, s) + IF q = r /\ o = x /\ s = t THEN 1 ELSE 0
             /\ Takes(q, o, s)' = Takes(q, o, s)
  <2>1. CASE q = r
    BY <2>1
  <2>2. CASE q # r
    <3>1. Puts(q, o, s)' = Puts(q, o, s) /\ Takes(q, o, s)' = Takes(q, o, s)
      BY <2>2, CountsKept DEF IInv
    <3>2. Puts(q, o, s) \in Nat
      BY WordCounts
    <3>. QED
      BY <2>2, <3>1, <3>2
  <2>. QED
    BY <2>1, <2>2
<1>2. ASSUME NEW q \in Ranks, NEW o \in Ranks, NEW s \in Steps
      PROVE  /\ Puts(q, o, s) \in Nat /\ Takes(o, q, s) \in Nat
             /\ pad[o][s][q] = Puts(q, o, s) - Takes(o, q, s)
  BY WordCounts
<1>3. ASSUME NEW q \in Ranks, NEW o \in Ranks, NEW s \in Steps
      PROVE  pad'[o][s][q] = IF q = r /\ o = x /\ s = t THEN pad[o][s][q] + 1 ELSE pad[o][s][q]
  <2>1. pad \in [Ranks -> [Steps -> [Ranks -> {0, 1}]]]
    BY DEF IInv, TypeOK
  <2>2. pad[x][t][r] = 0 /\ pad' = [pad EXCEPT ![x][t][r] = 1]
    BY DEF PutSignal
  <2>3. CASE o # x
    BY <2>1, <2>2, <2>3
  <2>4. CASE o = x /\ s # t
    BY <2>1, <2>2, <2>4
  <2>5. CASE o = x /\ s = t
    <3>1. pad'[x][t] = [pad[x][t] EXCEPT ![r] = 1]
      BY <2>1, <2>2
    <3>2. pad[x][t] \in [Ranks -> {0, 1}]
      BY <2>1
    <3>. QED
      BY <2>2, <2>5, <3>1, <3>2
  <2>. QED
    BY <2>3, <2>4, <2>5
<1>4. ASSUME NEW q \in Ranks, NEW o \in Ranks, NEW s \in Steps
      PROVE  pad'[o][s][q] = Puts(q, o, s)' - Takes(o, q, s)'
  <2>1. CASE q = r /\ o = x /\ s = t
    <3>1. pad'[o][s][q] = pad[o][s][q] + 1 /\ Puts(q, o, s)' = Puts(q, o, s) + 1
      BY <1>1, <1>3, <2>1
    <3>. QED
      BY <1>1, <1>2, <3>1
  <2>2. CASE ~ (q = r /\ o = x /\ s = t)
    <3>1. pad'[o][s][q] = pad[o][s][q] /\ Puts(q, o, s)' = Puts(q, o, s) + 0
      BY <1>1, <1>3, <2>2
    <3>. QED
      BY <1>1, <1>2, <3>1
  <2>. QED
    BY <2>1, <2>2
<1>. QED
  BY <1>4 DEF PadOK

LEMMA PadDown ==
  ASSUME IInv, NEW r \in Ranks, RankStep(r), NEW x \in Ranks, NEW t \in Steps,
         TakeSignal(r, t, x),
         \A q \in Ranks, s \in Steps :
           /\ Takes(r, q, s)' = Takes(r, q, s) + IF q = x /\ s = t THEN 1 ELSE 0
           /\ Puts(r, q, s)' = Puts(r, q, s)
  PROVE  PadOK'
<1>1. ASSUME NEW q \in Ranks, NEW o \in Ranks, NEW s \in Steps
      PROVE  /\ Takes(o, q, s)' = Takes(o, q, s) + IF o = r /\ q = x /\ s = t THEN 1 ELSE 0
             /\ Puts(o, q, s)' = Puts(o, q, s)
  <2>1. CASE o = r
    BY <2>1
  <2>2. CASE o # r
    <3>1. Puts(o, q, s)' = Puts(o, q, s) /\ Takes(o, q, s)' = Takes(o, q, s)
      BY <2>2, CountsKept DEF IInv
    <3>2. Takes(o, q, s) \in Nat
      BY WordCounts
    <3>. QED
      BY <2>2, <3>1, <3>2
  <2>. QED
    BY <2>1, <2>2
<1>2. ASSUME NEW q \in Ranks, NEW o \in Ranks, NEW s \in Steps
      PROVE  /\ Puts(q, o, s) \in Nat /\ Takes(o, q, s) \in Nat
             /\ pad[o][s][q] = Puts(q, o, s) - Takes(o, q, s)
  BY WordCounts
<1>3. ASSUME NEW q \in Ranks, NEW o \in Ranks, NEW s \in Steps
      PROVE  pad'[o][s][q] = IF o = r /\ q = x /\ s = t THEN pad[o][s][q] - 1 ELSE pad[o][s][q]
  <2>1. pad \in [Ranks -> [Steps -> [Ranks -> {0, 1}]]]
    BY DEF IInv, TypeOK
  <2>2. pad[r][t][x] = 1 /\ pad' = [pad EXCEPT ![r][t][x] = 0]
    BY DEF TakeSignal
  <2>3. CASE o # r
    BY <2>1, <2>2, <2>3
  <2>4. CASE o = r /\ s # t
    BY <2>1, <2>2, <2>4
  <2>5. CASE o = r /\ s = t
    <3>1. pad'[r][t] = [pad[r][t] EXCEPT ![x] = 0]
      BY <2>1, <2>2
    <3>2. pad[r][t] \in [Ranks -> {0, 1}]
      BY <2>1
    <3>. QED
      BY <2>2, <2>5, <3>1, <3>2
  <2>. QED
    BY <2>3, <2>4, <2>5
<1>4. ASSUME NEW q \in Ranks, NEW o \in Ranks, NEW s \in Steps
      PROVE  pad'[o][s][q] = Puts(q, o, s)' - Takes(o, q, s)'
  <2>1. CASE o = r /\ q = x /\ s = t
    <3>1. pad'[o][s][q] = pad[o][s][q] - 1 /\ Takes(o, q, s)' = Takes(o, q, s) + 1
      BY <1>1, <1>3, <2>1
    <3>. QED
      BY <1>1, <1>2, <3>1
  <2>2. CASE ~ (o = r /\ q = x /\ s = t)
    <3>1. pad'[o][s][q] = pad[o][s][q] /\ Takes(o, q, s)' = Takes(o, q, s) + 0
      BY <1>1, <1>3, <2>2
    <3>. QED
      BY <1>1, <1>2, <3>1
  <2>. QED
    BY <2>1, <2>2
<1>. QED
  BY <1>4 DEF PadOK

\* What the own counts become, in the same call and at the end of it.
LEMMA CountsInCall ==
  ASSUME TypeOK, NEW r \in Ranks, RankStep(r), call'[r] = call[r]
  PROVE  \A o, s : /\ Puts(r, o, s)' = Before(call[r], o, r, s) + PutsIn(r, o, s)'
                   /\ Takes(r, o, s)' = Before(call[r], r, o, s) + TakesIn(r, o, s)'
<1>1. program' = program
  BY Framed
<1>2. ASSUME NEW o, NEW q, NEW s
      PROVE  Before(call[r], o, q, s)' = Before(call[r], o, q, s)
  BY <1>1, SameBefore DEF Before, Gathers, Scatters, CallsBefore
<1>. QED
  BY <1>1 DEF Puts, Takes, Before, Gathers, Scatters, CallsBefore

LEMMA CallEnds ==
  ASSUME IInv, NEW r \in Ranks, RankStep(r), NextCall(r),
         \A o \in Ranks, s \in Steps : /\ PutsIn(r, o, s) = Uses(call[r], o, r, s)
                                       /\ TakesIn(r, o, s) = Uses(call[r], r, o, s)
  PROVE  \A o \in Ranks, s \in Steps :
           Puts(r, o, s)' = Puts(r, o, s) /\ Takes(r, o, s)' = Takes(r, o, s)
<1>1. /\ call'[r] = call[r] + 1 /\ at'[r] = "begin" /\ program' = program
      /\ call[r] \in Nat \ {0}
  <2>1. TypeOK
    BY DEF IInv
  <2>2. program' = program /\ call[r] \in Nat \ {0}
    BY <2>1, Framed, RankTypes
  <2>. QED
    BY <2>1, <2>2 DEF NextCall, TypeOK
<1>2. ASSUME NEW o \in Ranks, NEW s \in Steps
      PROVE  /\ PutsIn(r, o, s)' = 0 /\ TakesIn(r, o, s)' = 0
  BY <1>1 DEF PutsIn, TakesIn, InGather, InScatter
<1>3. ASSUME NEW o \in Ranks, NEW s \in Steps
      PROVE  /\ Puts(r, o, s)' = Before(call[r] + 1, o, r, s) + PutsIn(r, o, s)'
             /\ Takes(r, o, s)' = Before(call[r] + 1, r, o, s) + TakesIn(r, o, s)'
  BY <1>1 DEF Puts, Takes, Before, Gathers, Scatters, CallsBefore
<1>4. ASSUME NEW o \in Ranks, NEW s \in Steps
      PROVE  Puts(r, o, s)' = Puts(r, o, s) /\ Takes(r, o, s)' = Takes(r, o, s)
  <2>1. /\ Before(call[r] + 1, o, r, s) = Before(call[r], o, r, s) + Uses(call[r], o, r, s)
        /\ Before(call[r] + 1, r, o, s) = Before(call[r], r, o, s) + Uses(call[r], r, o, s)
        /\ Before(call[r] + 1, o, r, s) \in Nat /\ Before(call[r] + 1, r, o, s) \in Nat
    BY <1>1, BeforeSteps
  <2>. QED
    BY <1>2, <1>3, <2>1 DEF Puts, Takes
<1>. QED
  BY <1>4

\* A step that leaves what the rank has done to the words, and the words.
LEMMA CountsStay ==
  ASSUME IInv, NEW r \in Ranks, RankStep(r), call'[r] = call[r], pad' = pad,
         \A o \in Ranks, s \in Steps : /\ PutsIn(r, o, s)' = PutsIn(r, o, s)
                                       /\ TakesIn(r, o, s)' = TakesIn(r, o, s)
  PROVE  PadOK'
<1>1. ASSUME NEW o \in Ranks, NEW s \in Steps
      PROVE  Puts(r, o, s)' = Puts(r, o, s) /\ Takes(r, o, s)' = Takes(r, o, s)
  BY CountsInCall DEF IInv, Puts, Takes
<1>. QED
  BY <1>1, PadStays

LEMMA GatherPads ==
  ASSUME IInv, NEW r \in Ranks,
         BeginGather(r) \/ WaitSignal(r) \/ Gemm(r) \/ EndGather(r) \/ CopyOut(r)
  PROVE  PadOK'
<1>1. /\ TypeOK /\ PlaceOK(r) /\ RankStep(r)
      /\ used[r] \in Nat /\ NumSplits \in Nat /\ NumSplits >= 1 /\ word[r] \in Ranks
      /\ \A d \in Ranks : sent[r][d] \in Nat
      /\ \A q \in Ranks : q \in Nat
      /\ \A s \in Steps : s \in Nat /\ s < NumSplits
  BY RankTypes, Numbers DEF IInv, RankStep, CurrentStep
<1>2. CASE BeginGather(r)
  <2>1. /\ call'[r] = call[r] /\ pad' = pad /\ at[r] = "begin" /\ at'[r] = "wait"
        /\ word'[r] = FirstWord(r) /\ used'[r] = 0 /\ \A d \in Ranks : sent'[r][d] = 0
    BY <1>1, <1>2 DEF BeginGather, TypeOK
  <2>2. ASSUME NEW o \in Ranks, NEW s \in Steps
        PROVE  PutsIn(r, o, s)' = PutsIn(r, o, s) /\ TakesIn(r, o, s)' = TakesIn(r, o, s)
    <3>1. PutsIn(r, o, s) = 0 /\ TakesIn(r, o, s) = 0
      BY <2>1 DEF PutsIn, TakesIn, InGather, InScatter
    <3>2. ~ (sent'[r][o] >= 2 * s + 2)
      BY <1>1, <2>1
    <3>3. PutsIn(r, o, s)' = 0
      BY <2>1, <3>2 DEF PutsIn, InGather
    <3>4. o # r => ~ Taken(r, o, s)'
      BY <1>1, <2>1, WordsOK DEF Taken, Arrived
    <3>5. TakesIn(r, o, s)' = 0
      BY <2>1, <3>4 DEF TakesIn, InGather
    <3>. QED
      BY <3>1, <3>3, <3>5
  <2>. QED
    BY <1>1, <2>1, <2>2, CountsStay
<1>3. CASE WaitSignal(r)
  <2>. DEFINE t == used[r]
              w == word[r]
  <2>1. /\ call'[r] = call[r] /\ at[r] = "wait" /\ used'[r] = t /\ sent'[r] = sent[r]
        /\ TakeSignal(r, t, w)
        /\ \/ WordAfter(r, w) < NumRanks /\ word'[r] = WordAfter(r, w) /\ at'[r] = "wait"
           \/ ~ (WordAfter(r, w) < NumRanks) /\ at'[r] = "gemm"
    BY <1>1, <1>3 DEF WaitSignal, TypeOK, gatherVars
  <2>2. /\ w # r /\ used[r] < NumSplits /\ InGather(r) /\ InGather(r)' /\ t \in Steps
    BY <1>1, <2>1 DEF PlaceOK, InGather, Steps
  <2>3. ASSUME NEW q \in Ranks, NEW s \in Steps
        PROVE  /\ TakesIn(r, q, s)' = TakesIn(r, q, s) + IF q = w /\ s = t THEN 1 ELSE 0
               /\ PutsIn(r, q, s)' = PutsIn(r, q, s)
    <3>1. PutsIn(r, q, s)' = PutsIn(r, q, s)
      BY <2>1, <2>2 DEF PutsIn
    <3>2. Taken(r, q, s) <=> s < t \/ (s = t /\ q < w)
      BY <2>1 DEF Taken, Arrived
    <3>3. q # r => (Taken(r, q, s)' <=> s < t \/ (s = t /\ (q < w \/ q = w)))
      <4>1. CASE WordAfter(r, w) < NumRanks /\ word'[r] = WordAfter(r, w) /\ at'[r] = "wait"
        <5>1. q # r => (q < WordAfter(r, w) <=> q < w \/ q = w)
          BY <1>1, <2>2, <4>1, WordsOK
        <5>2. Taken(r, q, s)' <=> s < t \/ (s = t /\ q < WordAfter(r, w))
          BY <2>1, <4>1 DEF Taken, Arrived
        <5>. QED
          BY <5>1, <5>2
      <4>2. CASE ~ (WordAfter(r, w) < NumRanks) /\ at'[r] = "gemm"
        <5>1. q # r => q < w \/ q = w
          BY <1>1, <2>2, <4>2, WordsOK
        <5>2. Taken(r, q, s)' <=> s < t + 1
          BY <2>1, <4>2 DEF Taken, Arrived
        <5>. QED
          BY <1>1, <5>1, <5>2
      <4>. QED
        BY <2>1, <4>1, <4>2
    <3>4. /\ TakesIn(r, q, s) = IF r # q /\ Taken(r, q, s) THEN 1 ELSE 0
          /\ TakesIn(r, q, s)' = IF r # q /\ Taken(r, q, s)' THEN 1 ELSE 0
      BY <2>2 DEF TakesIn
    <3>. QED
      BY <1>1, <2>2, <3>1, <3>2, <3>3, <3>4
  <2>4. ASSUME NEW q \in Ranks, NEW s \in Steps
        PROVE  /\ Takes(r, q, s)' = Takes(r, q, s) + IF q = w /\ s = t THEN 1 ELSE 0
               /\ Puts(r, q, s)' = Puts(r, q, s)
    <3>1. /\ Puts(r, q, s)' = Before(call[r], q, r, s) + PutsIn(r, q, s)'
          /\ Takes(r, q, s)' = Before(call[r], r, q, s) + TakesIn(r, q, s)'
      BY <1>1, <2>1, CountsInCall
    <3>2. Before(call[r], r, q, s) \in Nat /\ TakesIn(r, q, s) \in Nat
      BY <1>1, RankTypes, BeforeSteps, TakesInBound
    <3>. QED
      BY <2>3, <3>1, <3>2 DEF Puts, Takes
  <2>. QED
    BY <1>1, <2>1, <2>2, <2>4, PadDown
<1>4. CASE Gemm(r)
  <2>1. /\ call'[r] = call[r] /\ pad' = pad /\ at[r] = "gemm" /\ used'[r] = used[r] + 1
        /\ word'[r] = word[r] /\ sent'[r] = sent[r]
        /\ at'[r] \in {"wait", "join"}
    BY <1>1, <1>4 DEF Gemm, TypeOK
  <2>2. InGather(r) /\ InGather(r)' /\ word[r] = FirstWord(r)
    BY <1>1, <2>1 DEF PlaceOK, InGather
  <2>3. ASSUME NEW o \in Ranks, NEW s \in Steps
        PROVE  PutsIn(r, o, s)' = PutsIn(r, o, s) /\ TakesIn(r, o, s)' = TakesIn(r, o, s)
    <3>1. PutsIn(r, o, s)' = PutsIn(r, o, s)
      BY <2>1, <2>2 DEF PutsIn
    <3>2. Taken(r, o, s) <=> s < used[r] + 1
      BY <2>1 DEF Taken, Arrived
    <3>3. o # r => ~ (o < FirstWord(r))
      BY WordsOK
    <3>4. o # r => (Taken(r, o, s)' <=> s < used[r] + 1)
      BY <2>1, <2>2, <3>3 DEF Taken, Arrived
    <3>. QED
      BY <2>2, <3>1, <3>2, <3>4 DEF TakesIn
  <2>. QED
    BY <1>1, <2>1, <2>3, CountsStay
<1>5. CASE EndGather(r)
  <2>1. at[r] = "join" /\ pad' = pad /\ NextCall(r)
        /\ \A d \in Peers(r) : sent[r][d] = 2 * NumSplits
    BY <1>5 DEF EndGather
  <2>2. InGather(r) /\ program[call[r]] = "gather" /\ used[r] = NumSplits
    BY <1>1, <2>1 DEF PlaceOK, InGather, Running
  <2>3. ASSUME NEW o \in Ranks, NEW s \in Steps
        PROVE  /\ PutsIn(r, o, s) = Uses(call[r], o, r, s)
               /\ TakesIn(r, o, s) = Uses(call[r], r, o, s)
    <3>1. o # r => sent[r][o] >= 2 * s + 2
      <4>1. ASSUME o # r PROVE sent[r][o] = 2 * NumSplits
        BY <2>1, <4>1 DEF Peers
      <4>. QED
        BY <1>1, <4>1
    <3>2. Taken(r, o, s)
      BY <1>1, <2>1, <2>2 DEF Taken, Arrived
    <3>3. Uses(call[r], o, r, s) = IF o # r THEN 1 ELSE 0
      BY <2>2 DEF Uses
    <3>4. Uses(call[r], r, o, s) = IF o # r THEN 1 ELSE 0
      BY <2>2 DEF Uses
    <3>. QED
      BY <2>2, <3>1, <3>2, <3>3, <3>4 DEF PutsIn, TakesIn
  <2>. QED
    BY <1>1, <2>1, <2>3, CallEnds, PadStays
<1>6. CASE CopyOut(r)
  <2>1. /\ call'[r] = call[r] /\ pad' = pad /\ Same(r)
    BY <1>6 DEF CopyOut, Same, scatterVars
  <2>2. \A o \in Ranks, s \in Steps :
          Puts(r, o, s)' = Puts(r, o, s) /\ Takes(r, o, s)' = Takes(r, o, s)
    BY <2>1, SameRank
  <2>. QED
    BY <1>1, <2>1, <2>2, PadStays
<1>. QED
  BY <1>2, <1>3, <1>4, <1>5, <1>6

LEMMA SendPads ==
  ASSUME IInv, NEW r \in Ranks, NEW d \in Ranks, SendStep(r, d)
  PROVE  PadOK'
<1>. DEFINE t == sent[r][d] \div 2
<1>1. /\ TypeOK /\ PlaceOK(r) /\ RankStep(r)
      /\ \A e \in Ranks : sent[r][e] \in Nat
      /\ \A s \in Steps : s \in Nat /\ s < NumSplits
  BY RankTypes, Numbers DEF IInv, RankStep
<1>2. /\ call'[r] = call[r] /\ at'[r] = at[r] /\ used'[r] = used[r] /\ word'[r] = word[r]
      /\ round'[r] = round[r]
      /\ sent'[r][d] = sent[r][d] + 1 /\ \A e \in Ranks : e # d => sent'[r][e] = sent[r][e]
      /\ Sending(r, d)
  BY <1>1 DEF SendStep, CopyPart, SignalPart, TypeOK, scatterVars
<1>3. /\ t \in Steps /\ d # r /\ InGather(r)
      /\ sent[r][d] % 2 = 0 => sent[r][d] = 2 * t
      /\ sent[r][d] % 2 = 1 => sent[r][d] = 2 * t + 1
  BY <1>1, <1>2, SendFacts
<1>4. InGather(r)'
  BY <1>2, <1>3 DEF InGather
<1>5. ASSUME NEW o \in Ranks, NEW s \in Steps PROVE TakesIn(r, o, s)' = TakesIn(r, o, s)
  BY <1>2, <1>3, <1>4 DEF TakesIn, Taken, Arrived
<1>. HIDE DEF t
<1>6. CASE CopyPart(r, d)
  <2>1. sent[r][d] = 2 * t /\ pad' = pad
    BY <1>3, <1>6 DEF CopyPart
  <2>2. ASSUME NEW o \in Ranks, NEW s \in Steps PROVE PutsIn(r, o, s)' = PutsIn(r, o, s)
    <3>1. sent'[r][o] >= 2 * s + 2 <=> sent[r][o] >= 2 * s + 2
      <4>1. t \in Nat /\ s \in Nat
        BY <1>1, <1>3
      <4>2. CASE o = d
        BY <1>2, <2>1, <4>1, <4>2
      <4>3. CASE o # d
        BY <1>2, <4>3
      <4>. QED
        BY <4>2, <4>3
    <3>. QED
      BY <1>3, <1>4, <3>1 DEF PutsIn
  <2>. QED
    BY <1>1, <1>2, <1>5, <2>1, <2>2, CountsStay
<1>7. CASE SignalPart(r, d)
  <2>1. sent[r][d] = 2 * t + 1 /\ PutSignal(d, t, r)
    BY <1>3, <1>7 DEF SignalPart, t
  <2>2. ASSUME NEW o \in Ranks, NEW s \in Steps
        PROVE  PutsIn(r, o, s)' = PutsIn(r, o, s) + IF o = d /\ s = t THEN 1 ELSE 0
    <3>1. t \in Nat /\ s \in Nat
      BY <1>1, <1>3
    <3>2. sent'[r][o] >= 2 * s + 2 <=> sent[r][o] >= 2 * s + 2 \/ (o = d /\ s = t)
      <4>2. CASE o = d
        BY <1>2, <2>1, <3>1, <4>2
      <4>3. CASE o # d
        BY <1>2, <4>3
      <4>. QED
        BY <4>2, <4>3
    <3>3. o = d /\ s = t => ~ (sent[r][o] >= 2 * s + 2)
      BY <2>1, <3>1
    <3>4. /\ PutsIn(r, o, s) = IF o # r /\ sent[r][o] >= 2 * s + 2 THEN 1 ELSE 0
          /\ PutsIn(r, o, s)' = IF o # r /\ sent'[r][o] >= 2 * s + 2 THEN 1 ELSE 0
      BY <1>3, <1>4 DEF PutsIn
    <3>. QED
      BY <1>3, <3>2, <3>3, <3>4
  <2>3. ASSUME NEW o \in Ranks, NEW s \in Steps
        PROVE  /\ Puts(r, o, s)' = Puts(r, o, s) + IF o = d /\ s = t THEN 1 ELSE 0
               /\ Takes(r, o, s)' = Takes(r, o, s)
    <3>1. /\ Puts(r, o, s)' = Before(call[r], o, r, s) + PutsIn(r, o, s)'
          /\ Takes(r, o, s)' = Before(call[r], r, o, s) + TakesIn(r, o, s)'
      BY <1>1, <1>2, CountsInCall
    <3>2. Before(call[r], o, r, s) \in Nat /\ PutsIn(r, o, s) \in Nat
      BY <1>1, RankTypes, BeforeSteps, PutsInBound
    <3>. QED
      BY <1>5, <2>2, <3>1, <3>2 DEF Puts, Takes
  <2>. QED
    BY <1>1, <1>3, <2>1, <2>3, PadUp
<1>. QED
  BY <1>6, <1>7 DEF SendStep

LEMMA ScatterPads ==
  ASSUME IInv, NEW r \in Ranks,
         \/ BeginScatter(r) \/ BarrierPut(r) \/ BarrierTake(r) \/ ScatterStep(r)
         \/ EndScatter(r) \/ Reduce(r)
  PROVE  PadOK'
<1>. DEFINE w == word[r]
<1>1. /\ TypeOK /\ PlaceOK(r) /\ RankStep(r)
      /\ w \in Ranks /\ w \in Nat /\ w < NumRanks /\ round[r] \in {1, 2}
      /\ NumRanks \in Nat /\ 0 \in Steps /\ call[r] \in Nat \ {0}
      /\ \A q \in Ranks : q \in Nat /\ q < NumRanks
  BY RankTypes, Numbers DEF IInv, RankStep, CurrentStep
<1>2. InScatter(r) => program[call[r]] = "scatter" /\ ~ InGather(r)
  BY <1>1 DEF PlaceOK, InScatter, InGather, Running
<1>3. CASE BeginScatter(r)
  <2>1. /\ call'[r] = call[r] /\ pad' = pad /\ at[r] = "begin" /\ at'[r] = "put"
        /\ word'[r] = 0 /\ round'[r] = 1
    BY <1>1, <1>3 DEF BeginScatter, TypeOK
  <2>2. ASSUME NEW o \in Ranks, NEW s \in Steps
        PROVE  PutsIn(r, o, s)' = PutsIn(r, o, s) /\ TakesIn(r, o, s)' = TakesIn(r, o, s)
    <3>1. PutsIn(r, o, s) = 0 /\ TakesIn(r, o, s) = 0
      BY <2>1 DEF PutsIn, TakesIn, InGather, InScatter
    <3>2. PutsIn(r, o, s)' = 0
      BY <1>1, <2>1 DEF PutsIn, InGather, InScatter
    <3>3. TakesIn(r, o, s)' = 0
      BY <1>1, <2>1 DEF TakesIn, InGather, InScatter
    <3>. QED
      BY <3>1, <3>2, <3>3
  <2>. QED
    BY <1>1, <2>1, <2>2, CountsStay
<1>4. CASE BarrierPut(r)
  <2>1. /\ call'[r] = call[r] /\ at[r] = "put" /\ round'[r] = round[r]
        /\ PutSignal(w, 0, r)
        /\ \/ w < LastWord /\ word'[r] = w + 1 /\ at'[r] = "put"
           \/ ~ (w < LastWord) /\ word'[r] = 0 /\ at'[r] = "take"
    BY <1>1, <1>4 DEF BarrierPut, TypeOK, scatterVars
  <2>2. InScatter(r) /\ InScatter(r)' /\ ~ InGather(r) /\ ~ InGather(r)'
    BY <2>1 DEF InScatter, InGather
  <2>3. ASSUME NEW o \in Ranks, NEW s \in Steps
        PROVE  /\ PutsIn(r, o, s)' = PutsIn(r, o, s) + IF o = w /\ s = 0 THEN 1 ELSE 0
               /\ TakesIn(r, o, s)' = TakesIn(r, o, s)
    <3>1. PutsIn(r, o, s) = IF s = 0 THEN (round[r] - 1) + (IF o >= w THEN 0 ELSE 1) ELSE 0
      BY <2>1, <2>2 DEF PutsIn
    <3>2. PutsIn(r, o, s)' = IF s = 0 THEN (round[r] - 1) + (IF o > w THEN 0 ELSE 1) ELSE 0
      <4>1. CASE w < LastWord /\ word'[r] = w + 1 /\ at'[r] = "put"
        <5>1. PutsIn(r, o, s)' = IF s = 0 THEN (round[r] - 1) + (IF o >= w + 1 THEN 0 ELSE 1) ELSE 0
          BY <2>1, <2>2, <4>1 DEF PutsIn
        <5>. QED
          BY <1>1, <5>1
      <4>2. CASE ~ (w < LastWord) /\ word'[r] = 0 /\ at'[r] = "take"
        <5>1. PutsIn(r, o, s)' = IF s = 0 THEN (round[r] - 1) + 1 ELSE 0
          BY <2>1, <2>2, <4>2 DEF PutsIn
        <5>2. ~ (o > w)
          BY <1>1, <4>2 DEF LastWord
        <5>. QED
          BY <5>1, <5>2
      <4>. QED
        BY <2>1, <4>1, <4>2
    <3>3. PutsIn(r, o, s)' = PutsIn(r, o, s) + IF o = w /\ s = 0 THEN 1 ELSE 0
      BY <1>1, <3>1, <3>2
    <3>4. TakesIn(r, o, s) = IF s = 0 THEN (round[r] - 1) + 0 ELSE 0
      BY <2>1, <2>2 DEF TakesIn
    <3>5. TakesIn(r, o, s)' = IF s = 0 THEN (round[r] - 1) + 0 ELSE 0
      BY <1>1, <2>1, <2>2 DEF TakesIn
    <3>. QED
      BY <3>3, <3>4, <3>5
  <2>4. ASSUME NEW o \in Ranks, NEW s \in Steps
        PROVE  /\ Puts(r, o, s)' = Puts(r, o, s) + IF o = w /\ s = 0 THEN 1 ELSE 0
               /\ Takes(r, o, s)' = Takes(r, o, s)
    <3>1. /\ Puts(r, o, s)' = Before(call[r], o, r, s) + PutsIn(r, o, s)'
          /\ Takes(r, o, s)' = Before(call[r], r, o, s) + TakesIn(r, o, s)'
      BY <1>1, <2>1, CountsInCall
    <3>2. Before(call[r], o, r, s) \in Nat /\ PutsIn(r, o, s) \in Nat
      BY <1>1, BeforeSteps, PutsInBound
    <3>. QED
      BY <2>3, <3>1, <3>2 DEF Puts, Takes
  <2>. QED
    BY <1>1, <2>1, <2>4, PadUp
<1>5. CASE BarrierTake(r)
  <2>1. /\ call'[r] = call[r] /\ at[r] = "take" /\ round'[r] = round[r]
        /\ TakeSignal(r, 0, w)
        /\ \/ w < LastWord /\ word'[r] = w + 1 /\ at'[r] = "take"
           \/ ~ (w < LastWord) /\ at'[r] \in {"scatter", "reduce"}
    BY <1>1, <1>5 DEF BarrierTake, TypeOK, scatterVars
  <2>2. InScatter(r) /\ InScatter(r)' /\ ~ InGather(r) /\ ~ InGather(r)'
    BY <2>1 DEF InScatter, InGather
  <2>3. ASSUME NEW o \in Ranks, NEW s \in Steps
        PROVE  /\ TakesIn(r, o, s)' = TakesIn(r, o, s) + IF o = w /\ s = 0 THEN 1 ELSE 0
               /\ PutsIn(r, o, s)' = PutsIn(r, o, s)
    <3>1. TakesIn(r, o, s) = IF s = 0 THEN (round[r] - 1) + (IF o >= w THEN 0 ELSE 1) ELSE 0
      BY <2>1, <2>2 DEF TakesIn
    <3>2. TakesIn(r, o, s)' = IF s = 0 THEN (round[r] - 1) + (IF o > w THEN 0 ELSE 1) ELSE 0
      <4>1. CASE w < LastWord /\ word'[r] = w + 1 /\ at'[r] = "take"
        <5>1. TakesIn(r, o, s)' = IF s = 0 THEN (round[r] - 1) + (IF o >= w + 1 THEN 0 ELSE 1) ELSE 0
          BY <2>1, <2>2, <4>1 DEF TakesIn
        <5>. QED
          BY <1>1, <5>1
      <4>2. CASE ~ (w < LastWord) /\ at'[r] \in {"scatter", "reduce"}
        <5>1. TakesIn(r, o, s)' = IF s = 0 THEN (round[r] - 1) + 1 ELSE 0
          BY <2>1, <2>2, <4>2 DEF TakesIn
        <5>2. ~ (o > w)
          BY <1>1, <4>2 DEF LastWord
        <5>. QED
          BY <5>1, <5>2
      <4>. QED
        BY <2>1, <4>1, <4>2
    <3>3. TakesIn(r, o, s)' = TakesIn(r, o, s) + IF o = w /\ s = 0 THEN 1 ELSE 0
      BY <1>1, <3>1, <3>2
    <3>4. PutsIn(r, o, s) = IF s = 0 THEN (round[r] - 1) + 1 ELSE 0
      BY <2>1, <2>2 DEF PutsIn
    <3>5. PutsIn(r, o, s)' = IF s = 0 THEN (round[r] - 1) + 1 ELSE 0
      BY <2>1, <2>2 DEF PutsIn
    <3>. QED
      BY <3>3, <3>4, <3>5
  <2>4. ASSUME NEW o \in Ranks, NEW s \in Steps
        PROVE  /\ Takes(r, o, s)' = Takes(r, o, s) + IF o = w /\ s = 0 THEN 1 ELSE 0
               /\ Puts(r, o, s)' = Puts(r, o, s)
    <3>1. /\ Puts(r, o, s)' = Before(call[r], o, r, s) + PutsIn(r, o, s)'
          /\ Takes(r, o, s)' = Before(call[r], r, o, s) + TakesIn(r, o, s)'
      BY <1>1, <2>1, CountsInCall
    <3>2. Before(call[r], r, o, s) \in Nat /\ TakesIn(r, o, s) \in Nat
      BY <1>1, BeforeSteps, TakesInBound
    <3>. QED
      BY <2>3, <3>1, <3>2 DEF Puts, Takes
  <2>. QED
    BY <1>1, <2>1, <2>4, PadDown
<1>6. CASE ScatterStep(r)
  <2>1. /\ call'[r] = call[r] /\ pad' = pad /\ at[r] = "scatter" /\ at'[r] = at[r]
        /\ round'[r] = round[r]
    BY <1>6 DEF ScatterStep, Scatter
  <2>2. InScatter(r) /\ InScatter(r)' /\ ~ InGather(r) /\ ~ InGather(r)'
    BY <2>1 DEF InScatter, InGather
  <2>3. ASSUME NEW o \in Ranks, NEW s \in Steps
        PROVE  PutsIn(r, o, s)' = PutsIn(r, o, s) /\ TakesIn(r, o, s)' = TakesIn(r, o, s)
    BY <2>1, <2>2 DEF PutsIn, TakesIn
  <2>. QED
    BY <1>1, <2>1, <2>3, CountsStay
<1>7. CASE EndScatter(r)
  <2>1. /\ call'[r] = call[r] /\ pad' = pad /\ at[r] = "scatter" /\ at'[r] = "put"
        /\ round'[r] = 2 /\ word'[r] = w
    BY <1>1, <1>7 DEF EndScatter, TypeOK
  <2>2. InScatter(r) /\ InScatter(r)' /\ ~ InGather(r) /\ ~ InGather(r)'
    BY <2>1 DEF InScatter, InGather
  <2>3. round[r] = 1 /\ w = 0
    BY <1>1, <2>1, <2>2 DEF PlaceOK
  <2>4. ASSUME NEW o \in Ranks, NEW s \in Steps
        PROVE  PutsIn(r, o, s)' = PutsIn(r, o, s) /\ TakesIn(r, o, s)' = TakesIn(r, o, s)
    <3>1. o >= word'[r]
      BY <1>1, <2>1, <2>3
    <3>2. PutsIn(r, o, s) = (IF s = 0 THEN 1 ELSE 0) /\ TakesIn(r, o, s) = IF s = 0 THEN 1 ELSE 0
      BY <2>1, <2>2, <2>3 DEF PutsIn, TakesIn
    <3>3. PutsIn(r, o, s)' = IF s = 0 THEN 1 ELSE 0
      BY <2>1, <2>2, <3>1 DEF PutsIn
    <3>4. TakesIn(r, o, s)' = IF s = 0 THEN 1 ELSE 0
      BY <2>1, <2>2 DEF TakesIn
    <3>. QED
      BY <3>2, <3>3, <3>4
  <2>. QED
    BY <1>1, <2>1, <2>4, CountsStay
<1>8. CASE Reduce(r)
  <2>1. at[r] = "reduce" /\ pad' = pad /\ NextCall(r)
    BY <1>8 DEF Reduce
  <2>2. InScatter(r) /\ ~ InGather(r) /\ round[r] = 2
    BY <1>1, <2>1 DEF PlaceOK, InScatter, InGather
  <2>3. ASSUME NEW o \in Ranks, NEW s \in Steps
        PROVE  /\ PutsIn(r, o, s) = Uses(call[r], o, r, s)
               /\ TakesIn(r, o, s) = Uses(call[r], r, o, s)
    BY <1>2, <2>1, <2>2 DEF PutsIn, TakesIn, Uses
  <2>. QED
    BY <1>1, <2>1, <2>3, CallEnds, PadStays
<1>. QED
  BY <1>3, <1>4, <1>5, <1>6, <1>7, <1>8

LEMMA OtherPads ==
  ASSUME IInv, NEW r \in Ranks, BeginOther(r) \/ EndOther(r)
  PROVE  PadOK'
<1>1. /\ TypeOK /\ PlaceOK(r) /\ RankStep(r)
  BY DEF IInv, RankStep, CurrentStep
<1>2. CASE BeginOther(r)
  <2>1. /\ call'[r] = call[r] /\ pad' = pad /\ at[r] = "begin" /\ at'[r] = "meet"
    BY <1>1, <1>2 DEF BeginOther, TypeOK
  <2>2. ASSUME NEW o \in Ranks, NEW s \in Steps
        PROVE  PutsIn(r, o, s)' = PutsIn(r, o, s) /\ TakesIn(r, o, s)' = TakesIn(r, o, s)
    BY <2>1 DEF PutsIn, TakesIn, InGather, InScatter
  <2>. QED
    BY <1>1, <2>1, <2>2, CountsStay
<1>3. CASE EndOther(r)
  <2>1. at[r] = "meet" /\ pad' = pad /\ NextCall(r)
    BY <1>3 DEF EndOther
  <2>2. program[call[r]] = "other"
    BY <1>1, <2>1 DEF PlaceOK, Running
  <2>3. ASSUME NEW o \in Ranks, NEW s \in Steps
        PROVE  /\ PutsIn(r, o, s) = Uses(call[r], o, r, s)
               /\ TakesIn(r, o, s) = Uses(call[r], r, o, s)
    BY <2>1, <2>2 DEF PutsIn, TakesIn, Uses, InGather, InScatter
  <2>. QED
    BY <1>1, <2>1, <2>3, CallEnds, PadStays
<1>. QED
  BY <1>2, <1>3

LEMMA PadKept ==
  ASSUME IInv, NEW r \in Ranks, RankStep(r)
  PROVE  PadOK'
BY GatherPads, SendPads, ScatterPads, OtherPads DEF RankStep, CurrentStep

-----------------------------------------------------------------------------
(* The barrier.                                                            *)

\* The barrier sees nothing of a step, an entry, or an exit.
BarrierStill(r)  == Entered(r)' = Entered(r) /\ Left(r)' = Left(r)
BarrierEntry(r)  ==
  /\ Entered(r) = Left(r) /\ Entered(r) < 2 * Len(program)
  /\ Entered(r)' = Entered(r) + 1 /\ Left(r)' = Left(r)
BarrierExit(r)   ==
  /\ Left(r) < Entered(r) /\ \A q \in Ranks : Entered(q) >= Entered(r)
  /\ Left(r)' = Left(r) + 1 /\ Entered(r)' = Entered(r)

\* A rank does not enter more barriers than two for every call.
LEMMA EnteredBound ==
  ASSUME TypeOK, NEW r \in Ranks, PlaceOK(r), Running(r, "scatter")
  PROVE  2 * Scatters(call[r]) + 2 <= 2 * Len(program)
<1>1. call[r] \in Nat \ {0} /\ call[r] <= Len(program) /\ Len(program) \in Nat
  BY RankTypes DEF Running
<1>2. Scatters(call[r]) <= call[r] - 1 /\ Scatters(call[r]) \in Nat
  BY <1>1, ScattersBound, CallCounts
<1>. QED
  BY <1>1, <1>2

LEMMA BarrierSteps ==
  ASSUME IInv, NEW r \in Ranks, RankStep(r)
  PROVE  BarrierStill(r) \/ BarrierEntry(r) \/ BarrierExit(r)
<1>. DEFINE n == Scatters(call[r])
            e == Entered(r)
            l == Left(r)
<1>1. /\ TypeOK /\ PlaceOK(r) /\ program' = program
      /\ call[r] \in Nat \ {0} /\ round[r] \in {1, 2}
  BY Framed, RankTypes DEF IInv
<1>2. /\ e = 2 * n + (IF InScatter(r) THEN round[r] ELSE 0)
      /\ l = IF at[r] \in {"put", "take"} THEN e - 1 ELSE e
      /\ e \in Nat /\ l \in Nat /\ n \in Nat
  BY <1>1, EnteredLeft
<1>3. Scatters(call[r] + 1) = n + IF program[call[r]] = "scatter" THEN 1 ELSE 0
  BY <1>1, CallCounts
<1>4. ASSUME call'[r] = call[r]
      PROVE  Entered(r)' = 2 * n + (IF InScatter(r)' THEN round'[r] ELSE 0)
  BY <1>1, <1>4 DEF Entered, BarriersBefore, Scatters, CallsBefore, InScatter
<1>5. Left(r)' = IF at'[r] \in {"put", "take"} THEN Entered(r)' - 1 ELSE Entered(r)'
  BY DEF Left
<1>6. ASSUME NextCall(r)
      PROVE  Entered(r)' = 2 * Scatters(call[r] + 1) /\ Left(r)' = Entered(r)'
  <2>1. call'[r] = call[r] + 1 /\ at'[r] = "begin"
    BY <1>1, <1>6 DEF NextCall, TypeOK
  <2>2. Entered(r)' = 2 * Scatters(call[r] + 1) + 0
    BY <1>1, <2>1 DEF Entered, BarriersBefore, Scatters, CallsBefore
  <2>3. Scatters(call[r] + 1) \in Nat
    BY <1>1, CallCounts
  <2>. QED
    BY <1>5, <2>1, <2>2, <2>3
<1>. HIDE DEF n, e, l
<1>7. ASSUME call'[r] = call[r], ~ InScatter(r), ~ InScatter(r)' PROVE BarrierStill(r)
  BY <1>2, <1>4, <1>5, <1>7 DEF BarrierStill, InScatter, e, l
<1>8. ASSUME NextCall(r), ~ InScatter(r), program[call[r]] # "scatter" PROVE BarrierStill(r)
  <2>1. Entered(r)' = 2 * n /\ Left(r)' = 2 * n
    BY <1>2, <1>3, <1>6, <1>8
  <2>2. e = 2 * n /\ l = 2 * n
    BY <1>2, <1>8 DEF InScatter
  <2>. QED
    BY <2>1, <2>2 DEF BarrierStill, e, l
<1>9. ASSUME call'[r] = call[r], InScatter(r), InScatter(r)', round'[r] = round[r],
             at[r] \in {"put", "take"} <=> at'[r] \in {"put", "take"}
      PROVE  BarrierStill(r)
  <2>1. Entered(r)' = e
    BY <1>2, <1>4, <1>9
  <2>2. Left(r)' = l
    BY <1>2, <1>5, <1>9, <2>1
  <2>. QED
    BY <2>1, <2>2 DEF BarrierStill, e, l
<1>10. ASSUME BeginGather(r) \/ WaitSignal(r) \/ Gemm(r) \/ BeginOther(r)
       PROVE  BarrierStill(r)
  <2>1. call'[r] = call[r] /\ ~ InScatter(r) /\ ~ InScatter(r)'
    BY <1>1, <1>10 DEF BeginGather, WaitSignal, Gemm, BeginOther, InScatter, TypeOK
  <2>. QED
    BY <1>7, <2>1
<1>11. ASSUME EndGather(r) \/ EndOther(r) PROVE BarrierStill(r)
  <2>1. NextCall(r) /\ ~ InScatter(r) /\ program[call[r]] # "scatter"
    BY <1>1, <1>11 DEF EndGather, EndOther, InScatter, InGather, PlaceOK, Running
  <2>. QED
    BY <1>8, <2>1
<1>12. ASSUME BeginScatter(r) PROVE BarrierEntry(r)
  <2>1. /\ call'[r] = call[r] /\ at[r] = "begin" /\ at'[r] = "put" /\ round'[r] = 1
        /\ Running(r, "scatter")
    BY <1>1, <1>12 DEF BeginScatter, TypeOK
  <2>2. e = 2 * n /\ l = e
    BY <1>2, <2>1 DEF InScatter
  <2>3. Entered(r)' = 2 * n + 1 /\ Left(r)' = 2 * n
    BY <1>2, <1>4, <1>5, <2>1 DEF InScatter
  <2>4. 2 * n + 2 <= 2 * Len(program) /\ Len(program) \in Nat
    BY <1>1, <2>1, EnteredBound, RankTypes DEF n
  <2>. QED
    BY <1>2, <2>2, <2>3, <2>4 DEF BarrierEntry, e, l
<1>13. ASSUME BarrierPut(r) PROVE BarrierStill(r)
  <2>1. /\ call'[r] = call[r] /\ at[r] = "put" /\ at'[r] \in {"put", "take"}
        /\ round'[r] = round[r]
    BY <1>1, <1>13 DEF BarrierPut, TypeOK, scatterVars
  <2>. QED
    BY <1>9, <2>1 DEF InScatter
<1>14. ASSUME BarrierTake(r) PROVE BarrierStill(r) \/ BarrierExit(r)
  <2>. DEFINE w == word[r]
  <2>1. /\ call'[r] = call[r] /\ at[r] = "take" /\ round'[r] = round[r]
        /\ pad[r][0][w] = 1
        /\ \/ w < LastWord /\ at'[r] = "take"
           \/ ~ (w < LastWord) /\ at'[r] \in {"scatter", "reduce"}
    BY <1>1, <1>14 DEF BarrierTake, TakeSignal, TypeOK, scatterVars
  <2>2. CASE at'[r] = "take"
    BY <1>9, <2>1, <2>2 DEF InScatter
  <2>3. CASE at'[r] \in {"scatter", "reduce"}
    <3>1. InScatter(r) /\ InScatter(r)' /\ ~ InGather(r)
      BY <2>1, <2>3 DEF InScatter, InGather
    <3>2. e = 2 * n + round[r] /\ l = e - 1
      BY <1>2, <2>1, <3>1
    <3>3. Entered(r)' = e /\ Left(r)' = e
      BY <1>4, <1>5, <2>1, <2>3, <3>1, <3>2
    <3>4. ASSUME NEW q \in Ranks PROVE Entered(q) >= Entered(r)
      <4>. DEFINE b == Before(call[r], r, q, 0)
      <4>1. /\ w \in Nat /\ q \in Nat /\ q < NumRanks /\ NumRanks \in Nat /\ 0 \in Steps
            /\ w \in Ranks /\ PlaceOK(q)
        BY <1>1, RankTypes, Numbers DEF IInv
      <4>2. q <= w
        BY <2>1, <2>3, <4>1 DEF LastWord
      <4>3. TakesIn(r, q, 0) = (round[r] - 1) + (IF q >= w THEN 0 ELSE 1)
        BY <2>1, <3>1 DEF TakesIn
      <4>4. /\ Puts(q, r, 0) \in Nat
            /\ pad[r][0][q] = Puts(q, r, 0) - Takes(r, q, 0) /\ pad[r][0][q] \in {0, 1}
            /\ Takes(r, q, 0) \in Nat
        BY <4>1, WordCounts
      <4>5. b \in Nat /\ Takes(r, q, 0) = b + TakesIn(r, q, 0)
        BY <1>1, BeforeSteps DEF Takes
      <4>. HIDE DEF b
      <4>6. Puts(q, r, 0) >= b + round[r]
        <5>1. CASE q = w
          <6>1. pad[r][0][q] = 1
            BY <2>1, <5>1
          <6>2. TakesIn(r, q, 0) = round[r] - 1
            BY <1>1, <4>1, <4>3, <5>1
          <6>3. Puts(q, r, 0) = Takes(r, q, 0) + 1
            BY <4>4, <6>1
          <6>4. Takes(r, q, 0) = b + (round[r] - 1)
            BY <4>5, <6>2
          <6>. QED
            BY <1>1, <4>5, <6>3, <6>4
        <5>2. CASE q < w
          BY <1>1, <4>1, <4>3, <4>4, <4>5, <5>2
        <5>. QED
          BY <4>1, <4>2, <5>1, <5>2
      <4>. QED
        BY <1>1, <3>1, <4>1, <4>6, Heard DEF b
    <3>. QED
      BY <1>2, <3>2, <3>3, <3>4 DEF BarrierExit, e, l
  <2>. QED
    BY <2>1, <2>2, <2>3
<1>15. ASSUME EndScatter(r) PROVE BarrierEntry(r)
  <2>1. /\ call'[r] = call[r] /\ at[r] = "scatter" /\ at'[r] = "put" /\ round'[r] = 2
    BY <1>1, <1>15 DEF EndScatter, TypeOK
  <2>2. round[r] = 1 /\ Running(r, "scatter") /\ InScatter(r) /\ InScatter(r)'
    BY <1>1, <2>1 DEF PlaceOK, InScatter
  <2>3. e = 2 * n + 1 /\ l = e
    BY <1>2, <2>1, <2>2
  <2>4. Entered(r)' = 2 * n + 2 /\ Left(r)' = 2 * n + 1
    BY <1>2, <1>4, <1>5, <2>1, <2>2
  <2>5. 2 * n + 2 <= 2 * Len(program) /\ Len(program) \in Nat
    BY <1>1, <2>2, EnteredBound, RankTypes DEF n
  <2>. QED
    BY <1>2, <2>3, <2>4, <2>5 DEF BarrierEntry, e, l
<1>16. ASSUME Reduce(r) PROVE BarrierStill(r)
  <2>1. NextCall(r) /\ at[r] = "reduce"
    BY <1>16 DEF Reduce
  <2>2. InScatter(r) /\ round[r] = 2 /\ program[call[r]] = "scatter"
    BY <1>1, <2>1 DEF PlaceOK, InScatter, Running
  <2>3. e = 2 * n + 2 /\ l = e
    BY <1>2, <2>1, <2>2
  <2>4. Entered(r)' = 2 * (n + 1) /\ Left(r)' = 2 * (n + 1)
    BY <1>3, <1>6, <2>1, <2>2
  <2>. QED
    BY <1>2, <2>3, <2>4 DEF BarrierStill, e, l
<1>17. ASSUME CopyOut(r) \/ ScatterStep(r) \/ \E d \in Ranks : SendStep(r, d)
       PROVE  BarrierStill(r)
  <2>1. call'[r] = call[r] /\ at'[r] = at[r] /\ round'[r] = round[r]
    BY <1>17 DEF CopyOut, ScatterStep, Scatter, SendStep, CopyPart, SignalPart, scatterVars
  <2>2. InScatter(r)' = InScatter(r)
    BY <2>1 DEF InScatter
  <2>. QED
    BY <1>7, <1>9, <2>1, <2>2
<1>. QED
  BY <1>10, <1>11, <1>12, <1>13, <1>14, <1>15, <1>16, <1>17 DEF RankStep, CurrentStep

LEMMA TogetherKept ==
  ASSUME IInv, NEW r \in Ranks, RankStep(r)
  PROVE  Together'
<1>1. ASSUME NEW q \in Ranks
      PROVE  /\ Entered(q) \in Nat /\ Left(q) \in Nat
             /\ q # r => Entered(q)' = Entered(q) /\ Left(q)' = Left(q)
  BY EnteredLeft, Framed, SameRank DEF IInv
<1>2. \A p, q \in Ranks : Left(p) <= Entered(q)
  BY DEF IInv, Together
<1>3. CASE BarrierStill(r)
  <2>1. \A q \in Ranks : Entered(q)' = Entered(q) /\ Left(q)' = Left(q)
    BY <1>1, <1>3 DEF BarrierStill
  <2>. QED
    BY <1>2, <2>1 DEF Together
<1>4. CASE BarrierEntry(r)
  <2>1. \A q \in Ranks : Entered(q)' >= Entered(q) /\ Left(q)' = Left(q) /\ Entered(q)' \in Nat
    BY <1>1, <1>4 DEF BarrierEntry
  <2>2. ASSUME NEW p \in Ranks, NEW q \in Ranks PROVE Left(p)' <= Entered(q)'
    BY <1>1, <1>2, <2>1
  <2>. QED
    BY <2>2 DEF Together
<1>5. CASE BarrierExit(r)
  <2>1. ASSUME NEW p \in Ranks, NEW q \in Ranks PROVE Left(p)' <= Entered(q)'
    <3>1. Entered(q)' = Entered(q)
      BY <1>1, <1>5 DEF BarrierExit
    <3>2. CASE p = r
      <4>1. Left(r)' = Left(r) + 1 /\ Left(r) < Entered(r) /\ Entered(q) >= Entered(r)
        BY <1>5 DEF BarrierExit
      <4>. QED
        BY <1>1, <3>1, <3>2, <4>1
    <3>3. CASE p # r
      BY <1>1, <1>2, <3>1, <3>3
    <3>. QED
      BY <3>2, <3>3
  <2>. QED
    BY <2>1 DEF Together
<1>. QED
  BY <1>3, <1>4, <1>5, BarrierSteps

LEMMA MetKept ==
  ASSUME IInv, NEW r \in Ranks, RankStep(r)
  PROVE  MetOK'
<1>1. /\ TypeOK /\ PlaceOK(r) /\ program' = program /\ Calls' = Calls
      /\ \A q \in Ranks : call[q] \in Nat \ {0} /\ (q # r => call'[q] = call[q])
      /\ \A j \in Calls : j \in Nat
  BY Framed, RankTypes, KindOf DEF IInv, Same, Calls
<1>2. CASE call'[r] = call[r]
  <2>1. \A q \in Ranks : call'[q] = call[q]
    BY <1>1, <1>2
  <2>. QED
    BY <1>1, <2>1 DEF IInv, MetOK
<1>3. CASE NextCall(r) /\ (program[call[r]] = "other" => \A q \in Ranks : call[q] >= call[r])
  <2>1. call'[r] = call[r] + 1
    BY <1>1, <1>3 DEF NextCall, TypeOK
  <2>2. ASSUME NEW p \in Ranks, NEW q \in Ranks, NEW j \in Calls,
               program[j] = "other", call'[q] > j
        PROVE  call'[p] >= j
    <3>1. call[p] >= j
      <4>1. CASE call[q] > j
        BY <2>2, <4>1 DEF IInv, MetOK
      <4>2. CASE ~ (call[q] > j)
        <5>1. q = r /\ j = call[r]
          BY <1>1, <2>1, <2>2, <4>2
        <5>. QED
          BY <1>3, <2>2, <5>1
      <4>. QED
        BY <4>1, <4>2
    <3>. QED
      BY <1>1, <2>1, <3>1
  <2>. QED
    BY <1>1, <2>2 DEF MetOK
<1>4. call'[r] = call[r]
      \/ (NextCall(r) /\ (program[call[r]] = "other" => \A q \in Ranks : call[q] >= call[r]))
  <2>1. CASE EndGather(r)
    <3>1. program[call[r]] = "gather"
      BY <1>1, <2>1 DEF EndGather, PlaceOK, InGather, Running
    <3>. QED
      BY <2>1, <3>1 DEF EndGather
  <2>2. CASE Reduce(r)
    <3>1. program[call[r]] = "scatter"
      BY <1>1, <2>2 DEF Reduce, PlaceOK, InScatter, Running
    <3>. QED
      BY <2>2, <3>1 DEF Reduce
  <2>3. CASE EndOther(r)
    <3>1. \A q \in Ranks : call[q] >= call[r]
      BY <1>1, <2>3 DEF EndOther
    <3>. QED
      BY <2>3, <3>1 DEF EndOther
  <2>4. CASE ~ EndGather(r) /\ ~ Reduce(r) /\ ~ EndOther(r)
    BY <2>4 DEF RankStep, CurrentStep, BeginGather, WaitSignal, Gemm, BeginScatter,
       BarrierPut, BarrierTake, EndScatter, BeginOther, CopyOut, ScatterStep, Scatter,
       SendStep, CopyPart, SignalPart
  <2>. QED
    BY <2>1, <2>2, <2>3, <2>4
<1>. QED
  BY <1>2, <1>3, <1>4

-----------------------------------------------------------------------------
(* The data.                                                               *)

\* A part that has been written was written before, or is by this step.
LEMMA GatheredBefore ==
  ASSUME IInv, NEW w \in Ranks, RankStep(w), NEW q \in Ranks, NEW r \in Ranks, r # q,
         NEW s \in Steps, NEW k \in Calls, program[k] = "gather", HasGathered(q, r, s, k)'
  PROVE  \/ HasGathered(q, r, s, k)
         \/ q = w /\ CopyPart(w, r) /\ call[w] = k /\ s = sent[w][r] \div 2
<1>1. /\ TypeOK /\ PlaceOK(w) /\ call[q] \in Nat \ {0} /\ k \in Nat \ {0} /\ s \in Nat
      /\ s < NumSplits /\ NumSplits \in Nat
      /\ \A d \in Ranks : sent[w][d] \in Nat
  BY RankTypes, KindOf, Numbers DEF IInv
<1>2. CASE q # w
  <2>1. Same(q)
    BY <1>1, <1>2, Framed
  <2>. QED
    BY <2>1, SameRank DEF HasGathered, Same
<1>3. CASE q = w /\ ~ (call[w] > k) /\ NextCall(w)
  <2>1. call'[w] = call[w] + 1 /\ at'[w] = "begin" /\ call[w] = k
    <3>1. call'[w] = call[w] + 1 /\ at'[w] = "begin"
      BY <1>1, <1>3 DEF NextCall, TypeOK
    <3>2. ~ InGather(w)'
      BY <3>1 DEF InGather
    <3>3. call'[w] > k
      BY <1>3, <3>2 DEF HasGathered
    <3>. QED
      BY <1>1, <1>3, <3>1, <3>3
  <2>2. EndGather(w)
    <3>1. ~ Reduce(w) /\ ~ EndOther(w)
      BY <1>1, <2>1 DEF Reduce, EndOther, PlaceOK, InScatter, Running
    <3>2. call' # call
      BY <1>1, <1>3, <2>1
    <3>. QED
      BY <3>1, <3>2 DEF RankStep, CurrentStep, CopyOut, ScatterStep, Scatter, SendStep,
         CopyPart, SignalPart, BeginGather, WaitSignal, Gemm, BeginScatter,
         BarrierPut, BarrierTake, EndScatter, BeginOther
  <2>3. InGather(w) /\ sent[w][r] = 2 * NumSplits
    BY <1>3, <2>2 DEF EndGather, InGather, Peers
  <2>. QED
    BY <1>1, <1>3, <2>1, <2>3 DEF HasGathered
<1>4. CASE q = w /\ ~ (call[w] > k) /\ call' = call
  <2>1. call[w] = k /\ InGather(w)' /\ sent'[w][r] >= 2 * s + 1
    BY <1>1, <1>4 DEF HasGathered
  <2>2. ~ BeginGather(w)
    <3>1. BeginGather(w) => sent'[w][r] = 0
      BY <1>1 DEF BeginGather, TypeOK
    <3>. QED
      BY <1>1, <2>1, <3>1
  <2>3. ASSUME sent'[w] = sent[w], InGather(w) PROVE HasGathered(q, r, s, k)
    BY <1>4, <2>1, <2>3 DEF HasGathered
  <2>4. at'[w] \in {"wait", "gemm", "join"}
    BY <2>1 DEF InGather
  <2>5. CASE CurrentStep(w)
    <3>1. WaitSignal(w) \/ Gemm(w)
      BY <1>1, <1>4, <2>2, <2>4, <2>5 DEF CurrentStep, EndGather, BeginScatter, BarrierPut,
         BarrierTake, EndScatter, Reduce, BeginOther, EndOther, NextCall, TypeOK
    <3>2. sent'[w] = sent[w] /\ InGather(w)
      BY <3>1 DEF WaitSignal, Gemm, InGather, gatherVars
    <3>. QED
      BY <2>3, <3>2
  <2>6. CASE CopyOut(w) \/ ScatterStep(w)
    <3>1. sent'[w] = sent[w] /\ at'[w] = at[w]
      BY <2>6 DEF CopyOut, ScatterStep, Scatter, gatherVars
    <3>. QED
      BY <2>3, <2>4, <3>1 DEF InGather
  <2>7. ASSUME NEW d \in Ranks, SendStep(w, d)
        PROVE  HasGathered(q, r, s, k) \/ (CopyPart(w, r) /\ s = sent[w][r] \div 2)
    <3>. DEFINE t == sent[w][d] \div 2
    <3>1. /\ at'[w] = at[w] /\ Sending(w, d)
          /\ sent'[w][d] = sent[w][d] + 1 /\ \A e \in Ranks : e # d => sent'[w][e] = sent[w][e]
      <4>1. /\ at' = at /\ Sending(w, d)
            /\ sent' = [sent EXCEPT ![w][d] = sent[w][d] + 1]
        BY <2>7 DEF SendStep, CopyPart, SignalPart
      <4>2. sent \in [Ranks -> [Ranks -> 0 .. 2 * NumSplits]]
        BY <1>1 DEF TypeOK
      <4>3. sent'[w] = [sent[w] EXCEPT ![d] = sent[w][d] + 1]
        BY <4>1, <4>2
      <4>. QED
        BY <4>1, <4>2, <4>3
    <3>2. InGather(w)
      BY <2>4, <3>1 DEF InGather
    <3>3. CASE d # r
      BY <1>4, <2>1, <3>1, <3>2, <3>3 DEF HasGathered
    <3>4. CASE sent[w][r] >= 2 * s + 1
      BY <1>4, <2>1, <3>2, <3>4 DEF HasGathered
    <3>5. CASE d = r /\ ~ (sent[w][r] >= 2 * s + 1)
      <4>1. sent[w][r] = 2 * s
        BY <1>1, <2>1, <3>1, <3>5
      <4>. DEFINE x == sent[w][r]
      <4>. HIDE DEF x
      <4>2. x % 2 = 0 /\ x \div 2 = s
        BY <1>1, <4>1 DEF x
      <4>. QED
        BY <2>7, <3>5, <4>2 DEF x, SendStep, SignalPart
    <3>. QED
      BY <3>3, <3>4, <3>5
  <2>. QED
    BY <1>4, <2>1, <2>5, <2>6, <2>7 DEF RankStep
<1>5. CASE call[q] > k
  BY <1>5 DEF HasGathered
<1>6. call' = call \/ NextCall(w)
  BY DEF RankStep, CurrentStep, CopyOut, ScatterStep, Scatter, SendStep,
     CopyPart, SignalPart, BeginGather, WaitSignal, Gemm, EndGather, BeginScatter,
     BarrierPut, BarrierTake, EndScatter, Reduce, BeginOther, EndOther
<1>. QED
  BY <1>2, <1>3, <1>4, <1>5, <1>6

LEMMA ScatteredBefore ==
  ASSUME IInv, NEW w \in Ranks, RankStep(w), NEW q \in Ranks, NEW r \in Ranks,
         NEW s \in Steps, NEW k \in Calls, program[k] = "scatter", HasScattered(q, r, s, k)'
  PROVE  HasScattered(q, r, s, k) \/ (q = w /\ Scatter(w, r, s) /\ call[w] = k)
<1>1. /\ TypeOK /\ PlaceOK(w) /\ call[q] \in Nat \ {0} /\ k \in Nat \ {0}
  BY RankTypes, KindOf DEF IInv
<1>2. CASE q # w
  <2>1. Same(q)
    BY <1>1, <1>2, Framed
  <2>. QED
    BY <2>1, SameRank DEF HasScattered, Same
<1>3. CASE q = w /\ ~ (call[w] > k) /\ NextCall(w)
  <2>1. call'[w] = call[w] + 1 /\ at'[w] = "begin" /\ call[w] = k
    BY <1>1, <1>3 DEF NextCall, TypeOK, HasScattered, InScatter
  <2>2. Reduce(w)
    <3>1. ~ EndGather(w) /\ ~ EndOther(w)
      BY <1>1, <2>1 DEF EndGather, EndOther, PlaceOK, InGather, Running
    <3>2. call' # call
      BY <1>1, <1>3, <2>1
    <3>. QED
      BY <3>1, <3>2 DEF RankStep, CurrentStep, CopyOut, ScatterStep, Scatter, SendStep,
         CopyPart, SignalPart, BeginGather, WaitSignal, Gemm, BeginScatter,
         BarrierPut, BarrierTake, EndScatter, BeginOther
  <2>3. at[w] = "reduce"
    BY <2>2 DEF Reduce
  <2>4. InScatter(w) /\ written[w] = Ranks \X Steps
    BY <1>1, <2>3 DEF PlaceOK, InScatter
  <2>. QED
    BY <1>1, <1>3, <2>1, <2>4 DEF HasScattered
<1>4. CASE q = w /\ ~ (call[w] > k) /\ call' = call
  <2>1. call[w] = k /\ InScatter(w)' /\ <<r, s>> \in written'[w]
    BY <1>1, <1>4 DEF HasScattered
  <2>2. ~ BeginScatter(w)
    <3>1. BeginScatter(w) => written'[w] = {}
      BY <1>1 DEF BeginScatter, TypeOK
    <3>. QED
      BY <2>1, <3>1
  <2>3. ASSUME InScatter(w), <<r, s>> \in written[w] PROVE HasScattered(q, r, s, k)
    BY <1>4, <2>1, <2>3 DEF HasScattered
  <2>4. at'[w] \in {"put", "take", "scatter", "reduce"}
    BY <2>1 DEF InScatter
  <2>5. CASE CurrentStep(w)
    <3>1. ~ (BeginGather(w) \/ WaitSignal(w) \/ Gemm(w) \/ BeginOther(w))
      BY <1>1, <2>4 DEF BeginGather, WaitSignal, Gemm, BeginOther, TypeOK
    <3>2. ~ (EndGather(w) \/ Reduce(w) \/ EndOther(w))
      BY <1>1, <2>4 DEF EndGather, Reduce, EndOther, NextCall, TypeOK
    <3>3. BarrierPut(w) \/ BarrierTake(w) \/ EndScatter(w)
      BY <2>2, <2>5, <3>1, <3>2 DEF CurrentStep
    <3>4. written' = written /\ InScatter(w)
      BY <3>3 DEF BarrierPut, BarrierTake, EndScatter, InScatter, scatterVars
    <3>. QED
      BY <2>1, <2>3, <3>4
  <2>6. CASE CopyOut(w) \/ \E d \in Ranks : SendStep(w, d)
    <3>1. written' = written /\ at' = at
      BY <2>6 DEF CopyOut, SendStep, CopyPart, SignalPart, scatterVars
    <3>. QED
      BY <2>1, <2>3, <2>4, <3>1 DEF InScatter
  <2>7. ASSUME NEW d \in Ranks, NEW t \in Steps, Scatter(w, d, t)
        PROVE  HasScattered(q, r, s, k) \/ Scatter(w, r, s)
    <3>1. at[w] = "scatter" /\ InScatter(w)
      BY <2>7 DEF Scatter, InScatter
    <3>2. written'[w] = written[w] \cup {<<d, t>>}
      BY <1>1, <2>7 DEF Scatter, TypeOK
    <3>3. CASE <<r, s>> \in written[w]
      BY <2>3, <3>1, <3>3
    <3>4. CASE <<r, s>> = <<d, t>>
      <4>1. r = d /\ s = t
        BY <3>4
      <4>. QED
        BY <2>7, <4>1
    <3>. QED
      BY <2>1, <3>2, <3>3, <3>4
  <2>. QED
    BY <1>4, <2>1, <2>5, <2>6, <2>7 DEF RankStep, ScatterStep
<1>5. CASE call[q] > k
  BY <1>5 DEF HasScattered
<1>6. call' = call \/ NextCall(w)
  BY DEF RankStep, CurrentStep, CopyOut, ScatterStep, Scatter, SendStep,
     CopyPart, SignalPart, BeginGather, WaitSignal, Gemm, EndGather, BeginScatter,
     BarrierPut, BarrierTake, EndScatter, Reduce, BeginOther, EndOther
<1>. QED
  BY <1>2, <1>3, <1>4, <1>5, <1>6

\* What a step does to one block of one workspace.
LEMMA BlockWritten ==
  ASSUME IInv, NEW w \in Ranks, RankStep(w), NEW r \in Ranks, NEW c \in Cells
  PROVE  \/ mem'[r][c] = mem[r][c]
         \/ /\ CopyPart(w, r) /\ c = GatherCell(w, r, sent[w][r] \div 2)
            /\ Running(w, "gather") /\ w # r /\ sent[w][r] = 2 * (sent[w][r] \div 2)
            /\ sent[w][r] \div 2 \in Steps
            /\ mem'[r][c] = <<call[w], w, sent[w][r] \div 2>>
         \/ \E s \in Steps :
              /\ Scatter(w, r, s) /\ c = ScatterCell(w, s)
              /\ mem'[r][c] = <<call[w], w, s>>
<1>1. TypeOK /\ PlaceOK(w) /\ mem \in [Ranks -> [Cells -> (0 .. Len(program)) \X Ranks \X Steps]]
  BY DEF IInv, TypeOK
<1>2. CASE CurrentStep(w) \/ CopyOut(w) \/ \E d \in Ranks : SignalPart(w, d)
  <2>1. mem' = mem
    BY <1>2 DEF CurrentStep, CopyOut, SignalPart, BeginGather, WaitSignal, Gemm, EndGather,
       BeginScatter, BarrierPut, BarrierTake, EndScatter, Reduce, BeginOther, EndOther
  <2>. QED
    BY <2>1
<1>3. ASSUME NEW d \in Ranks, CopyPart(w, d)
      PROVE  \/ mem'[r][c] = mem[r][c]
             \/ /\ CopyPart(w, r) /\ c = GatherCell(w, r, sent[w][r] \div 2)
                /\ Running(w, "gather") /\ w # r /\ sent[w][r] = 2 * (sent[w][r] \div 2)
                /\ sent[w][r] \div 2 \in Steps
                /\ mem'[r][c] = <<call[w], w, sent[w][r] \div 2>>
  <2>. DEFINE t == sent[w][d] \div 2
  <2>1. /\ Sending(w, d) /\ sent[w][d] % 2 = 0
        /\ mem' = [mem EXCEPT ![d][GatherCell(w, d, t)] = <<call[w], w, t>>]
    BY <1>3 DEF CopyPart
  <2>2. Running(w, "gather") /\ w # d /\ sent[w][d] = 2 * t /\ t \in Steps
    BY <1>1, <2>1, SendFacts
  <2>. HIDE DEF t
  <2>3. CASE r # d
    BY <1>1, <2>1, <2>3
  <2>4. CASE r = d /\ c # GatherCell(w, d, t)
    BY <1>1, <2>1, <2>4
  <2>5. CASE r = d /\ c = GatherCell(w, d, t)
    <3>1. mem'[r][c] = <<call[w], w, t>>
      BY <1>1, <2>1, <2>5
    <3>. QED
      BY <1>3, <2>2, <2>5, <3>1 DEF t
  <2>. QED
    BY <2>3, <2>4, <2>5
<1>4. ASSUME NEW d \in Ranks, NEW s \in Steps, Scatter(w, d, s)
      PROVE  \/ mem'[r][c] = mem[r][c]
             \/ /\ Scatter(w, r, s) /\ c = ScatterCell(w, s)
                /\ mem'[r][c] = <<call[w], w, s>>
  <2>1. mem' = [mem EXCEPT ![d][ScatterCell(w, s)] = <<call[w], w, s>>]
    BY <1>4 DEF Scatter
  <2>3. CASE r # d
    BY <1>1, <2>1, <2>3
  <2>4. CASE r = d /\ c # ScatterCell(w, s)
    BY <1>1, <2>1, <2>4
  <2>5. CASE r = d /\ c = ScatterCell(w, s)
    BY <1>1, <1>4, <2>1, <2>5
  <2>. QED
    BY <2>3, <2>4, <2>5
<1>. QED
  BY <1>2, <1>3, <1>4 DEF RankStep, ScatterStep, SendStep

LEMMA GatherKept ==
  ASSUME IInv, NEW w \in Ranks, RankStep(w)
  PROVE  GatherData'
<1>1. /\ TypeOK /\ program' = program /\ Calls' = Calls
      /\ \A k : Protected(k)' = Protected(k)
      /\ \A q \in Ranks : call[q] \in Nat \ {0}
      /\ \A q \in Ranks : q # w => call'[q] = call[q]
      /\ call'[w] = call[w] \/ call'[w] = call[w] + 1
  BY Framed, RankTypes, SameBefore DEF IInv, Same
<1>. SUFFICES ASSUME NEW r \in Ranks, NEW q \in Ranks, NEW s \in Steps, NEW k \in Calls,
                     r # q, program[k] = "gather", Protected(k), call'[r] <= k,
                     HasGathered(q, r, s, k)'
              PROVE  mem'[r][GatherCell(q, r, s)] = <<k, q, s>>
  BY <1>1 DEF GatherData
<1>. DEFINE c == GatherCell(q, r, s)
<1>2. k \in Nat \ {0}
  BY <1>1, KindOf
<1>3. call[r] <= k
  BY <1>1, <1>2
<1>4. /\ c \in Cells
      /\ \A p \in Ranks, t \in Steps : p # r /\ GatherCell(p, r, t) = c => p = q /\ t = s
  BY CellFacts
<1>5. CASE HasGathered(q, r, s, k)
  <2>1. mem[r][c] = <<k, q, s>>
    BY <1>3, <1>5 DEF IInv, GatherData
  <2>2. call[q] >= k
    BY <1>1, <1>2, <1>5 DEF HasGathered
  <2>. HIDE DEF c
  <2>3. CASE /\ CopyPart(w, r) /\ c = GatherCell(w, r, sent[w][r] \div 2)
             /\ Running(w, "gather") /\ w # r /\ sent[w][r] = 2 * (sent[w][r] \div 2)
             /\ sent[w][r] \div 2 \in Steps
             /\ mem'[r][c] = <<call[w], w, sent[w][r] \div 2>>
    <3>1. w = q /\ sent[w][r] \div 2 = s
      BY <1>4, <2>3
    <3>2. ~ (call[w] > k)
      BY <1>3, <2>3, NobodyAhead
    <3>3. call[w] = k
      BY <1>1, <1>2, <2>2, <3>1, <3>2
    <3>. QED
      BY <2>3, <3>1, <3>3 DEF c
  <2>4. CASE \E t \in Steps : /\ Scatter(w, r, t) /\ c = ScatterCell(w, t)
                              /\ mem'[r][c] = <<call[w], w, t>>
    <3>1. at[w] = "scatter"
      BY <2>4 DEF Scatter
    <3>2. program[call[w]] = "scatter"
      BY <3>1 DEF IInv, PlaceOK, InScatter, Running
    <3>3. ~ (call[w] > k)
      BY <1>3, <3>1, NobodyAhead
    <3>4. ~ (call[w] < call[q])
      BY <3>1, NoOldScatter
    <3>5. call[w] = k
      BY <1>1, <1>2, <2>2, <3>3, <3>4
    <3>. QED
      BY <3>2, <3>5
  <2>5. CASE mem'[r][c] = mem[r][c]
    BY <2>1, <2>5 DEF c
  <2>. QED
    BY <1>4, <2>3, <2>4, <2>5, BlockWritten
<1>6. CASE q = w /\ CopyPart(w, r) /\ call[w] = k /\ s = sent[w][r] \div 2
  <2>1. mem' = [mem EXCEPT ![r][c] = <<k, q, s>>]
    BY <1>6 DEF CopyPart
  <2>2. mem \in [Ranks -> [Cells -> (0 .. Len(program)) \X Ranks \X Steps]]
    BY <1>1 DEF TypeOK
  <2>. HIDE DEF c
  <2>3. mem'[r][c] = <<k, q, s>>
    BY <1>4, <2>1, <2>2
  <2>. QED
    BY <2>3 DEF c
<1>. QED
  BY <1>5, <1>6, GatheredBefore

LEMMA ScatterKept ==
  ASSUME IInv, NEW w \in Ranks, RankStep(w)
  PROVE  ScatterData'
<1>1. /\ TypeOK /\ program' = program /\ Calls' = Calls
      /\ \A k : Protected(k)' = Protected(k)
      /\ \A q \in Ranks : call[q] \in Nat \ {0}
      /\ \A q \in Ranks : q # w => call'[q] = call[q]
      /\ call'[w] = call[w] \/ call'[w] = call[w] + 1
  BY Framed, RankTypes, SameBefore DEF IInv, Same
<1>. SUFFICES ASSUME NEW r \in Ranks, NEW q \in Ranks, NEW s \in Steps, NEW k \in Calls,
                     program[k] = "scatter", Protected(k), call'[r] <= k,
                     HasScattered(q, r, s, k)'
              PROVE  mem'[r][ScatterCell(q, s)] = <<k, q, s>>
  BY <1>1 DEF ScatterData
<1>. DEFINE c == ScatterCell(q, s)
<1>2. k \in Nat \ {0}
  BY <1>1, KindOf
<1>3. call[r] <= k
  BY <1>1, <1>2
<1>4. /\ c \in Cells
      /\ \A p \in Ranks, t \in Steps : ScatterCell(p, t) = c => p = q /\ t = s
  BY CellFacts
<1>5. CASE HasScattered(q, r, s, k)
  <2>1. mem[r][c] = <<k, q, s>>
    BY <1>3, <1>5 DEF IInv, ScatterData
  <2>2. call[q] > k \/ (call[q] = k /\ InScatter(q) /\ written[q] # {})
    BY <1>5 DEF HasScattered
  <2>. HIDE DEF c
  <2>3. CASE Running(w, "gather") /\ mem'[r][c] = <<call[w], w, sent[w][r] \div 2>>
    <3>1. ~ (call[w] > k)
      BY <1>3, <2>3, NobodyAhead
    <3>2. ~ (call[w] < k)
      BY <2>2, <2>3, NoOldGather
    <3>3. call[w] = k
      BY <1>1, <1>2, <3>1, <3>2
    <3>. QED
      BY <2>3, <3>3 DEF Running
  <2>4. ASSUME NEW t \in Steps, Scatter(w, r, t), c = ScatterCell(w, t),
               mem'[r][c] = <<call[w], w, t>>
        PROVE  mem'[r][c] = <<k, q, s>>
    <3>1. w = q /\ t = s
      BY <1>4, <2>4
    <3>2. at[w] = "scatter"
      BY <2>4 DEF Scatter
    <3>3. ~ (call[w] > k)
      BY <1>3, <3>2, NobodyAhead
    <3>4. call[w] = k
      BY <2>2, <3>1, <3>3
    <3>. QED
      BY <2>4, <3>1, <3>4
  <2>5. CASE mem'[r][c] = mem[r][c]
    BY <2>1, <2>5 DEF c
  <2>6. mem'[r][c] = <<k, q, s>>
    BY <1>4, <2>1, <2>3, <2>4, <2>5, BlockWritten DEF c
  <2>. QED
    BY <2>6 DEF c
<1>6. CASE q = w /\ Scatter(w, r, s) /\ call[w] = k
  <2>1. mem' = [mem EXCEPT ![r][c] = <<k, q, s>>]
    BY <1>6 DEF Scatter
  <2>2. mem \in [Ranks -> [Cells -> (0 .. Len(program)) \X Ranks \X Steps]]
    BY <1>1 DEF TypeOK
  <2>. HIDE DEF c
  <2>3. mem'[r][c] = <<k, q, s>>
    BY <1>4, <2>1, <2>2
  <2>. QED
    BY <2>3 DEF c
<1>. QED
  BY <1>5, <1>6, ScatteredBefore

-----------------------------------------------------------------------------
(* The invariant, and what follows from it.                                *)

LEMMA Initially ==
  ASSUME Init
  PROVE  IInv
<1>1. program \in Programs /\ Len(program) \in Nat /\ Calls \subseteq Nat \ {0}
  BY ProgramLength DEF Init
<1>2. /\ NumSplits \in Nat /\ NumSplits >= 1 /\ 0 \in Ranks /\ 0 \in Steps
      /\ \A r \in Ranks : r \in Nat
  BY Numbers
<1>3. TypeOK
  <2>1. 1 \in 1 .. Len(program) + 1 /\ 0 \in 0 .. NumSplits /\ 0 \in 0 .. 2 * NumSplits
        /\ <<0, 0, 0>> \in (0 .. Len(program)) \X Ranks \X Steps /\ "begin" \in Places
    BY <1>1, <1>2 DEF Places
  <2>. QED
    BY <1>1, <1>2, <2>1 DEF Init, TypeOK
<1>4. ASSUME NEW r \in Ranks
      PROVE  call[r] = 1 /\ at[r] = "begin" /\ ~ InGather(r) /\ ~ InScatter(r)
  BY DEF Init, InGather, InScatter
<1>5. \A r \in Ranks : PlaceOK(r)
  BY <1>4 DEF PlaceOK
<1>6. PadOK
  <2>1. ASSUME NEW o \in Ranks, NEW q \in Ranks, NEW s \in Steps
        PROVE  pad[o][s][q] = Puts(q, o, s) - Takes(o, q, s)
    <3>1. pad[o][s][q] = 0
      BY DEF Init
    <3>2. Puts(q, o, s) = Before(1, o, q, s) + 0 /\ Takes(o, q, s) = Before(1, o, q, s) + 0
      BY <1>4 DEF Puts, PutsIn, Takes, TakesIn
    <3>3. Before(1, o, q, s) \in Nat
      BY BeforeSteps
    <3>. QED
      BY <3>1, <3>2, <3>3
  <2>. QED
    BY <2>1 DEF PadOK
<1>7. Together
  <2>1. ASSUME NEW r \in Ranks PROVE Entered(r) = 2 * Scatters(1) /\ Left(r) = 2 * Scatters(1)
    <3>1. Scatters(1) \in Nat
      BY CallCounts
    <3>. QED
      BY <1>3, <1>4, <1>5, <3>1, EnteredLeft
  <2>2. Scatters(1) \in Nat
    BY CallCounts
  <2>. QED
    BY <2>1, <2>2 DEF Together
<1>8. MetOK /\ GatherData /\ ScatterData
  <2>1. ASSUME NEW q \in Ranks, NEW k \in Calls
        PROVE  ~ (call[q] > k) /\ ~ InGather(q) /\ ~ InScatter(q)
    BY <1>1, <1>4
  <2>. QED
    BY <2>1 DEF MetOK, GatherData, ScatterData, HasGathered, HasScattered
<1>. QED
  BY <1>3, <1>5, <1>6, <1>7, <1>8 DEF IInv

LEMMA StepOfRank ==
  ASSUME Next
  PROVE  \E r \in Ranks : RankStep(r)
BY DEF Next, RankStep

LEMMA Stutter ==
  ASSUME IInv, UNCHANGED vars
  PROVE  IInv'
<1>1. \A q : Same(q)
  BY DEF Same, vars, gatherVars, scatterVars
<1>2. pad' = pad /\ mem' = mem /\ call' = call /\ program' = program
  BY DEF vars
<1>3. TypeOK'
  BY DEF IInv, TypeOK, vars, gatherVars, scatterVars
<1>4. \A r \in Ranks : PlaceOK(r)'
  BY <1>1, SameRank DEF IInv
<1>5. PadOK'
  BY <1>1, <1>2, SameRank DEF IInv, PadOK
<1>6. Together'
  BY <1>1, SameRank DEF IInv, Together
<1>7. MetOK'
  BY <1>2 DEF IInv, MetOK, Calls
<1>8. /\ \A k : Protected(k)' = Protected(k)
      /\ Calls' = Calls
  BY <1>2, SameBefore
<1>9. \A q, r, s, k : /\ HasGathered(q, r, s, k)' = HasGathered(q, r, s, k)
                      /\ HasScattered(q, r, s, k)' = HasScattered(q, r, s, k)
  BY DEF HasGathered, HasScattered, InGather, InScatter, vars, gatherVars, scatterVars
<1>10. GatherData'
  BY <1>2, <1>8, <1>9 DEF IInv, GatherData
<1>11. ScatterData'
  BY <1>2, <1>8, <1>9 DEF IInv, ScatterData
<1>. QED
  BY <1>3, <1>4, <1>5, <1>6, <1>7, <1>10, <1>11 DEF IInv

LEMMA Inductive ==
  ASSUME IInv, [Next]_vars
  PROVE  IInv'
<1>1. ASSUME NEW r \in Ranks, RankStep(r) PROVE IInv'
  <2>1. TypeOK'
    BY <1>1, TypeKept DEF IInv
  <2>2. ASSUME NEW q \in Ranks PROVE PlaceOK(q)'
    <3>1. CASE q = r
      BY <1>1, <3>1, PlaceKept DEF IInv
    <3>2. CASE q # r
      BY <1>1, <3>2, Framed, SameRank DEF IInv
    <3>. QED
      BY <3>1, <3>2
  <2>3. PadOK' /\ Together' /\ MetOK' /\ GatherData' /\ ScatterData'
    BY <1>1, PadKept, TogetherKept, MetKept, GatherKept, ScatterKept
  <2>. QED
    BY <2>1, <2>2, <2>3 DEF IInv
<1>. QED
  BY <1>1, StepOfRank, Stutter

(***************************************************************************)
(* The invariant holds of any group that makes any calls in one order.     *)
(***************************************************************************)
THEOREM Invariance == Spec => []IInv
<1>1. Init => IInv
  BY Initially
<1>2. IInv /\ [Next]_vars => IInv'
  BY Inductive
<1>. QED
  BY <1>1, <1>2, PTL DEF Spec

(***************************************************************************)
(* No stream leaves its loops: a signal word is 0 or 1, no chunk is        *)
(* counted twice, and nothing is written outside the workspace.            *)
(***************************************************************************)
THEOREM TypeCorrect == Spec => []TypeOK
<1>1. IInv => TypeOK
  BY DEF IInv
<1>. QED
  BY <1>1, Invariance, PTL

\* A part that is in use was written for the call at hand.
LEMMA InUseWritten ==
  ASSUME IInv, NEW r \in Ranks, NEW part \in InUse(r)
  PROVE  /\ part[1] \in Ranks /\ part[1] # r /\ part[2] \in Steps
         /\ call[r] \in Calls /\ program[call[r]] = "gather"
         /\ HasGathered(part[1], r, part[2], call[r])
<1>. DEFINE q == part[1]
            s == part[2]
            k == call[r]
<1>1. /\ Running(r, "gather") /\ at[r] # "begin" /\ part \in Peers(r) \X Steps
      /\ \/ s < Arrived(r)
         \/ at[r] = "wait" /\ s = used[r] /\ q < word[r]
  BY DEF InUse
<1>2. /\ TypeOK /\ PlaceOK(r) /\ q \in Ranks /\ q # r /\ s \in Steps /\ PlaceOK(q)
      /\ k \in Calls /\ program[k] = "gather"
  BY <1>1 DEF IInv, Peers, Running
<1>. HIDE DEF q, s
<1>3. InGather(r) /\ Taken(r, q, s)
  BY <1>1, <1>2, InCall DEF Taken
<1>4. /\ k \in Nat \ {0} /\ call[q] \in Nat \ {0} /\ s \in Nat
      /\ sent[q][r] \in Nat
  BY <1>2, RankTypes, KindOf, Numbers
<1>. DEFINE b == Before(k, r, q, s)
<1>5. b \in Nat /\ Takes(r, q, s) = b + 1
  BY <1>2, <1>3, <1>4, BeforeSteps DEF Takes, TakesIn
<1>6. Puts(q, r, s) >= b + 1
  <2>1. /\ Puts(q, r, s) \in Nat /\ Takes(r, q, s) \in Nat
        /\ pad[r][s][q] = Puts(q, r, s) - Takes(r, q, s) /\ pad[r][s][q] \in {0, 1}
    BY <1>2, WordCounts
  <2>. HIDE DEF b
  <2>. QED
    BY <1>5, <2>1
<1>7. HasGathered(q, r, s, k)
  <2>1. CASE call[q] > k
    BY <2>1 DEF HasGathered
  <2>2. CASE call[q] = k
    <3>1. PutsIn(q, r, s) >= 1
      <4>1. Puts(q, r, s) = b + PutsIn(q, r, s) /\ PutsIn(q, r, s) \in Nat
        BY <1>2, <2>2, PutsInBound DEF Puts
      <4>. HIDE DEF b
      <4>. QED
        BY <1>5, <1>6, <4>1
    <3>2. ~ InScatter(q)
      BY <1>2, <2>2 DEF PlaceOK, Running
    <3>3. InGather(q) /\ sent[q][r] >= 2 * s + 2
      BY <3>1, <3>2 DEF PutsIn
    <3>. QED
      BY <1>4, <2>2, <3>3 DEF HasGathered
  <2>3. CASE call[q] < k
    <3>1. call[q] + 1 \in Nat \ {0} /\ call[q] + 1 <= k
      BY <1>4, <2>3
    <3>2. Before(call[q] + 1, r, q, s) <= b /\ Before(call[q] + 1, r, q, s) \in Nat
      BY <1>4, <3>1, BeforeGrows, BeforeSteps
    <3>3. Puts(q, r, s) <= Before(call[q] + 1, r, q, s) /\ Puts(q, r, s) \in Nat
      BY <1>2, PutsInBound
    <3>. HIDE DEF b
    <3>. QED
      BY <1>5, <1>6, <3>2, <3>3
  <2>. QED
    BY <1>4, <2>1, <2>2, <2>3
<1>. QED
  BY <1>2, <1>7 DEF q, s

(***************************************************************************)
(* A call works on what its peers wrote for it, and not on what they wrote *)
(* for another, unless a gather is the very next call of the group.        *)
(***************************************************************************)
THEOREM CallsWorkOnOwnData == Spec => []OwnDataUnlessGatherFollows
<1>1. IInv => OwnDataUnlessGatherFollows
  <2>. SUFFICES ASSUME IInv, NEW r \in Ranks, Protected(call[r])
                PROVE  GatheredOwn(r) /\ ReducedOwn(r)
    BY DEF OwnDataUnlessGatherFollows, Protected
  <2>1. TypeOK /\ PlaceOK(r) /\ call[r] \in Nat
    BY RankTypes DEF IInv
  <2>2. GatheredOwn(r)
    <3>1. ASSUME NEW part \in InUse(r)
          PROVE  mem[r][PartOf(r, part[1], part[2])] = <<call[r], part[1], part[2]>>
      <4>. DEFINE q == part[1]
                  s == part[2]
      <4>1. /\ q \in Ranks /\ q # r /\ s \in Steps /\ call[r] \in Calls
            /\ program[call[r]] = "gather" /\ HasGathered(q, r, s, call[r])
        BY <3>1, InUseWritten
      <4>2. GatherCell(q, r, s) = PartOf(r, q, s)
        BY <4>1, CellFacts
      <4>3. call[r] <= call[r]
        BY <2>1
      <4>4. mem[r][GatherCell(q, r, s)] = <<call[r], q, s>>
        BY <4>1, <4>3 DEF IInv, GatherData
      <4>. QED
        BY <4>2, <4>4
    <3>. QED
      BY <3>1 DEF GatheredOwn
  <2>3. ReducedOwn(r)
    <3>1. ASSUME at[r] = "reduce", NEW q \in Ranks, NEW s \in Steps
          PROVE  mem[r][ScatterCell(q, s)] = <<call[r], q, s>>
      <4>. DEFINE k == call[r]
      <4>1. /\ InScatter(r) /\ round[r] = 2 /\ k \in Calls /\ program[k] = "scatter"
            /\ k \in Nat \ {0} /\ PlaceOK(q) /\ call[q] \in Nat \ {0} /\ round[q] \in {1, 2}
        BY <2>1, <3>1, RankTypes DEF IInv, PlaceOK, InScatter, Running
      <4>2. Scatters(k) \in Nat
        BY <4>1, CallCounts
      <4>3. Left(r) = 2 * Scatters(k) + 2
        <5>1. Entered(r) = 2 * Scatters(k) + 2 /\ Left(r) = Entered(r)
          BY <2>1, <3>1, <4>1, EnteredLeft
        <5>. QED
          BY <5>1
      <4>4. Entered(q) >= 2 * Scatters(k) + 2 /\ Entered(q) \in Nat
        BY <2>1, <4>1, <4>3, EnteredLeft DEF IInv, Together
      <4>5. call[q] >= k
        BY <2>1, <4>1, <4>2, <4>4, Reach
      <4>6. HasScattered(q, r, s, k)
        <5>1. CASE call[q] > k
          BY <5>1 DEF HasScattered
        <5>2. CASE call[q] = k
          <6>1. Entered(q) = 2 * Scatters(k) + (IF InScatter(q) THEN round[q] ELSE 0)
            BY <2>1, <4>1, <5>2, EnteredLeft
          <6>2. InScatter(q) /\ round[q] = 2
            BY <4>1, <4>2, <4>4, <6>1
          <6>3. written[q] = Ranks \X Steps
            BY <4>1, <6>2 DEF PlaceOK
          <6>. QED
            BY <5>2, <6>2, <6>3 DEF HasScattered
        <5>. QED
          BY <4>1, <4>5, <5>1, <5>2
      <4>7. call[r] <= k
        BY <2>1
      <4>. QED
        BY <4>1, <4>6, <4>7 DEF IInv, ScatterData
    <3>. QED
      BY <3>1 DEF ReducedOwn
  <2>. QED
    BY <2>2, <2>3
<1>. QED
  BY <1>1, Invariance, PTL

-----------------------------------------------------------------------------
(* The barrier of the scatters implements the abstract one.                *)

LEMMA StartsApart ==
  ASSUME Init
  PROVE  Abstract!Init
<1>1. IInv
  BY Initially
<1>2. Scatters(1) = 0
  BY ScattersBound, CallCounts
<1>3. ASSUME NEW r \in Ranks PROVE Entered(r) = 0 /\ Left(r) = 0
  <2>1. call[r] = 1 /\ at[r] = "begin"
    BY DEF Init
  <2>2. Entered(r) = 2 * Scatters(1) + 0 /\ Left(r) = Entered(r)
    BY <1>1, <2>1, EnteredLeft DEF IInv, InScatter
  <2>. QED
    BY <1>2, <2>2
<1>. QED
  BY <1>3 DEF Abstract!Init

LEMMA StepsOfBarrier ==
  ASSUME IInv, [Next]_vars
  PROVE  [Abstract!Next]_(Abstract!barrierVars)
<1>. DEFINE entered == [r \in Ranks |-> Entered(r)]
            left    == [r \in Ranks |-> Left(r)]
<1>1. CASE UNCHANGED vars
  <2>1. \A q : Same(q)
    BY <1>1 DEF Same, vars, gatherVars, scatterVars
  <2>2. \A q \in Ranks : Entered(q)' = Entered(q) /\ Left(q)' = Left(q)
    BY <2>1, SameRank
  <2>3. entered' = entered /\ left' = left
    BY <2>2
  <2>. QED
    BY <2>3 DEF Abstract!barrierVars
<1>2. ASSUME NEW r \in Ranks, RankStep(r) PROVE [Abstract!Next]_(Abstract!barrierVars)
  <2>1. \A q \in Ranks : q # r => Entered(q)' = Entered(q) /\ Left(q)' = Left(q)
    BY <1>2, Framed, SameRank DEF IInv
  <2>2. CASE BarrierStill(r)
    <3>1. entered' = entered /\ left' = left
      BY <2>1, <2>2 DEF BarrierStill
    <3>. QED
      BY <3>1 DEF Abstract!barrierVars
  <2>3. CASE BarrierEntry(r)
    <3>1. entered' = [entered EXCEPT ![r] = @ + 1] /\ left' = left
      BY <2>1, <2>3 DEF BarrierEntry
    <3>2. entered[r] = left[r] /\ entered[r] < 2 * Len(program)
      BY <2>3 DEF BarrierEntry
    <3>3. Abstract!Enter(r)
      BY <3>1, <3>2 DEF Abstract!Enter
    <3>. QED
      BY <3>3 DEF Abstract!Next
  <2>4. CASE BarrierExit(r)
    <3>1. left' = [left EXCEPT ![r] = @ + 1] /\ entered' = entered
      BY <2>1, <2>4 DEF BarrierExit
    <3>2. left[r] < entered[r] /\ \A q \in Ranks : entered[q] >= entered[r]
      BY <2>4 DEF BarrierExit
    <3>3. Abstract!Leave(r)
      BY <3>1, <3>2 DEF Abstract!Leave
    <3>. QED
      BY <3>3 DEF Abstract!Next
  <2>. QED
    BY <1>2, <2>2, <2>3, <2>4, BarrierSteps
<1>. QED
  BY <1>1, <1>2, StepOfRank

(***************************************************************************)
(* The compare-and-swap barrier is a barrier, whatever calls come before   *)
(* and after it: no word that a gather set lets a rank out of it.          *)
(***************************************************************************)
THEOREM ScatterBarrierIsBarrier == Spec => BarrierImplemented
<1>1. Init => Abstract!Init
  BY StartsApart
<1>2. IInv /\ [Next]_vars => [Abstract!Next]_(Abstract!barrierVars)
  BY StepsOfBarrier
<1>. QED
  BY <1>1, <1>2, Invariance, PTL DEF Spec, BarrierImplemented, Abstract!Spec
=============================================================================
