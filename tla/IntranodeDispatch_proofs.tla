---------------------- MODULE IntranodeDispatch_proofs ----------------------
(***************************************************************************)
(* What dispatch promises, for any ranks, tokens, channels, routing, chunk *)
(* and ring (a chunk being shorter than the ring), and any traps.          *)
(*                                                                         *)
(* Place(q, t) is the number of tokens queue q carries before token t: the *)
(* place of t in the queue if q carries it.  All that the two sides do is  *)
(* a matter of places: the sender has walked up to a token, its tail is    *)
(* that token's place; the receiver is at a place too, and a slot holds    *)
(* the token whose place it is.                                            *)
(***************************************************************************)
EXTENDS IntranodeDispatch, FiniteSetTheorems, TLAPS

First(q) == TokenStart(Chn(q))
Last(q)  == TokenEnd(Chn(q))
Carried(q) == Selected(Src(q), Dst(q), First(q), Last(q))
Routed(q, t) == Dst(q) \in route[Src(q)][t]

Place(q, t) == Cardinality(Selected(Src(q), Dst(q), First(q), t))
Total(q)    == Place(q, Last(q))

\* The offset the sender transmits, and the row of the queue's first token.
ChannelBase(q) == IF Chn(q) > 0 THEN ChannelPrefix(Src(q), Dst(q), Chn(q) - 1) ELSE 0
FirstRow(q)    == RankOffset(Src(q), Dst(q)) + ChannelBase(q)

-----------------------------------------------------------------------------
(* Tokens of a channel.                                                    *)

LEMMA QueueParts ==
  ASSUME NEW q \in Queues
  PROVE  /\ Src(q) \in Ranks /\ Dst(q) \in Ranks /\ Chn(q) \in Channels
         /\ q = <<Src(q), Dst(q), Chn(q)>> /\ Dst(q) \in Dests
         /\ Src(q) \in Nat /\ Dst(q) \in Nat /\ Chn(q) \in Nat
BY DispatchAssumption DEF Src, Dst, Chn, Dests, Ranks, Channels

LEMMA PerChannelIsNat == PerChannel \in Nat
BY DispatchAssumption DEF PerChannel, CeilDiv

LEMMA ChannelRange ==
  ASSUME NEW c \in Nat
  PROVE  /\ TokenStart(c) \in 0 .. NumTokens
         /\ TokenEnd(c) \in TokenStart(c) .. NumTokens
         /\ TokenEnd(c) = TokenStart(c + 1)
         /\ TokenStart(0) = 0
<1>. DEFINE P == PerChannel
<1>1. P \in Nat /\ NumTokens \in Nat
  BY PerChannelIsNat, DispatchAssumption
<1>2. P * c \in Nat /\ P * (c + 1) = P * c + P /\ P * 0 = 0
  BY <1>1
<1>. QED
  BY <1>1, <1>2 DEF TokenStart, TokenEnd, Smaller

\* Channels share no token.
LEMMA ChannelsApart ==
  ASSUME NEW b \in Nat, NEW c \in Nat, b < c
  PROVE  TokenEnd(b) <= TokenStart(c)
<1>. DEFINE P == PerChannel
<1>1. P \in Nat /\ NumTokens \in Nat
  BY PerChannelIsNat, DispatchAssumption
<1>2. P * (b + 1) <= P * c /\ P * c \in Nat /\ P * (b + 1) \in Nat
  BY <1>1
<1>3. TokenEnd(b) = TokenStart(b + 1)
  BY ChannelRange
<1>. QED
  BY <1>1, <1>2, <1>3 DEF TokenStart, Smaller

LEMMA QueueRange ==
  ASSUME NEW q \in Queues
  PROVE  /\ First(q) \in Nat /\ Last(q) \in Nat
         /\ First(q) <= Last(q) /\ Last(q) <= NumTokens
BY QueueParts, ChannelRange, DispatchAssumption DEF First, Last

-----------------------------------------------------------------------------
(* Counting the tokens selected between two tokens.                        *)

LEMMA CountIsNat ==
  ASSUME NEW s, NEW d, NEW a \in Int, NEW b \in Int
  PROVE  /\ IsFiniteSet(Selected(s, d, a, b))
         /\ Cardinality(Selected(s, d, a, b)) \in Nat
<1>1. IsFiniteSet(a .. b - 1)
  BY FS_Interval
<1>2. Selected(s, d, a, b) \in SUBSET (a .. b - 1)
  BY DEF Selected
<1>3. IsFiniteSet(Selected(s, d, a, b))
  BY <1>1, <1>2, FS_Subset
<1>. QED
  BY <1>3, FS_CardinalityType

LEMMA CountSplits ==
  ASSUME NEW s, NEW d, NEW a \in Int, NEW b \in Int, NEW c \in Int, a <= b, b <= c
  PROVE  Cardinality(Selected(s, d, a, c))
           = Cardinality(Selected(s, d, a, b)) + Cardinality(Selected(s, d, b, c))
<1>. DEFINE A == Selected(s, d, a, b)
            B == Selected(s, d, b, c)
<1>1. IsFiniteSet(A) /\ IsFiniteSet(B)
  BY CountIsNat
<1>2. Selected(s, d, a, c) = A \cup B
  BY DEF Selected
<1>3. A \cap B = {}
  BY DEF Selected
<1>4. Cardinality(A \cup B) = Cardinality(A) + Cardinality(B) - Cardinality(A \cap B)
  BY <1>1, FS_Union
<1>5. Cardinality(A) \in Nat /\ Cardinality(B) \in Nat
  BY CountIsNat
<1>. QED
  BY <1>2, <1>3, <1>4, <1>5, FS_EmptySet

LEMMA CountOfOne ==
  ASSUME NEW s, NEW d, NEW b \in Int
  PROVE  /\ Cardinality(Selected(s, d, b, b)) = 0
         /\ Cardinality(Selected(s, d, b, b + 1)) = IF d \in route[s][b] THEN 1 ELSE 0
<1>1. Selected(s, d, b, b) = {}
  BY DEF Selected
<1>2. Selected(s, d, b, b + 1) = IF d \in route[s][b] THEN {b} ELSE {}
  <2>1. \A t : t \in b .. (b + 1) - 1 <=> t = b
    OBVIOUS
  <2>. QED
    BY <2>1 DEF Selected
<1>. QED
  BY <1>1, <1>2, FS_EmptySet, FS_Singleton

\* A range of tokens has at most as many selected ones.
LEMMA CountFits ==
  ASSUME NEW s, NEW d, NEW a \in Int, NEW b \in Int, a <= b
  PROVE  Cardinality(Selected(s, d, a, b)) <= b - a
<1>. DEFINE c == b - 1
<1>1. Selected(s, d, a, b) \in SUBSET (a .. c)
  BY DEF Selected
<1>2. IsFiniteSet(a .. c) /\ Cardinality(a .. c) = IF a > c THEN 0 ELSE c - a + 1
  <2>. c \in Int
    OBVIOUS
  <2>. HIDE DEF c
  <2>. QED
    BY FS_Interval
<1>. QED
  BY <1>1, <1>2, FS_Subset

-----------------------------------------------------------------------------
(* Places in a queue.                                                      *)

LEMMA PlaceSteps ==
  ASSUME NEW q \in Queues, NEW t \in Nat, NEW u \in Nat, First(q) <= t, t <= u
  PROVE  /\ Place(q, t) \in Nat /\ Place(q, u) \in Nat
         /\ Place(q, u) = Place(q, t) + Cardinality(Selected(Src(q), Dst(q), t, u))
         /\ Place(q, t) <= Place(q, u) /\ Place(q, u) - Place(q, t) <= u - t
         /\ Place(q, First(q)) = 0
         /\ Place(q, t + 1) = IF Routed(q, t) THEN Place(q, t) + 1 ELSE Place(q, t)
<1>1. First(q) \in Int
  BY QueueRange
<1>2. Place(q, t) \in Nat /\ Place(q, u) \in Nat
  BY <1>1, CountIsNat DEF Place
<1>3. Place(q, u) = Place(q, t) + Cardinality(Selected(Src(q), Dst(q), t, u))
  BY <1>1, CountSplits DEF Place
<1>4. /\ Cardinality(Selected(Src(q), Dst(q), t, u)) \in Nat
      /\ Cardinality(Selected(Src(q), Dst(q), t, u)) <= u - t
  BY CountIsNat, CountFits
<1>5. Place(q, t + 1) = Place(q, t) + Cardinality(Selected(Src(q), Dst(q), t, t + 1))
  BY <1>1, CountSplits DEF Place
<1>6. Cardinality(Selected(Src(q), Dst(q), t, t + 1)) = IF Routed(q, t) THEN 1 ELSE 0
  BY CountOfOne DEF Routed
<1>7. Place(q, First(q)) = 0
  BY <1>1, CountOfOne DEF Place
<1>. QED
  BY <1>2, <1>3, <1>4, <1>5, <1>6, <1>7

\* The tokens of a queue have places of their own, in token order.
LEMMA PlacesDiffer ==
  ASSUME NEW q \in Queues, NEW t \in Carried(q), NEW u \in Nat, First(q) <= u
  PROVE  /\ t \in Nat /\ First(q) <= t /\ t < Last(q) /\ t \in Tokens /\ Routed(q, t)
         /\ t < u <=> Place(q, t) < Place(q, u)
         /\ u \in Carried(q) /\ Place(q, u) = Place(q, t) => u = t
         /\ Place(q, t) \in Nat /\ Place(q, u) \in Nat /\ Place(q, t) < Total(q)
<1>1. t \in Nat /\ First(q) <= t /\ t < Last(q) /\ t \in Tokens /\ Routed(q, t)
  BY QueueRange, DispatchAssumption DEF Carried, Selected, Tokens, Routed
<1>2. ASSUME NEW v \in Nat, t < v PROVE Place(q, t) < Place(q, v)
  <2>1. Place(q, t + 1) = Place(q, t) + 1 /\ Place(q, t) \in Nat
    BY <1>1, PlaceSteps
  <2>2. Place(q, t + 1) <= Place(q, v) /\ Place(q, v) \in Nat
    <3>. t + 1 \in Nat /\ First(q) <= t + 1 /\ t + 1 <= v
      BY <1>1, <1>2, QueueRange
    <3>. QED
      BY PlaceSteps
  <2>. QED
    BY <2>1, <2>2
<1>3. u <= t => Place(q, u) <= Place(q, t)
  BY <1>1, PlaceSteps
<1>4. u \in Carried(q) /\ u < t => Place(q, u) < Place(q, t)
  <2>. SUFFICES ASSUME u \in Carried(q), u < t PROVE Place(q, u) < Place(q, t)
    OBVIOUS
  <2>1. Routed(q, u)
    BY DEF Carried, Selected, Routed
  <2>2. Place(q, u + 1) = Place(q, u) + 1 /\ Place(q, u) \in Nat
    BY <2>1, PlaceSteps
  <2>3. Place(q, u + 1) <= Place(q, t) /\ Place(q, t) \in Nat
    <3>. u + 1 \in Nat /\ First(q) <= u + 1 /\ u + 1 <= t
      BY <1>1, QueueRange
    <3>. QED
      BY <1>1, PlaceSteps
  <2>. QED
    BY <2>2, <2>3
<1>5. Place(q, t) \in Nat /\ Place(q, u) \in Nat
  BY <1>1, PlaceSteps, QueueRange
<1>6. Place(q, t) < Total(q)
  BY <1>1, <1>2, QueueRange DEF Total
<1>. QED
  BY <1>1, <1>2, <1>3, <1>4, <1>5, <1>6

LEMMA CarriedPlaces ==
  ASSUME NEW q \in Queues, NEW t \in Carried(q)
  PROVE  /\ t \in Nat /\ First(q) <= t /\ t < Last(q) /\ t \in Tokens /\ Routed(q, t)
         /\ Place(q, t) \in Nat /\ Place(q, t) < Total(q)
         /\ \A u \in Carried(q) : Place(q, u) = Place(q, t) => u = t
<1>1. \A u \in Carried(q) : u \in Nat /\ First(q) <= u
  BY QueueRange DEF Carried, Selected
<1>. QED
  BY <1>1, PlacesDiffer

\* Every place up to a token's is some carried token's.
LEMMA PlacesFilled ==
  ASSUME NEW q \in Queues, NEW e \in First(q) .. Last(q), NEW i \in Nat, i < Place(q, e)
  PROVE  \E t \in Carried(q) : t < e /\ Place(q, t) = i
<1>. DEFINE S == Selected(Src(q), Dst(q), First(q), e)
            n == Place(q, e)
            T == 0 .. n - 1
            f == [t \in S |-> Place(q, t)]
<1>1. /\ e \in Nat /\ First(q) \in Nat /\ First(q) <= e /\ e <= Last(q) /\ Last(q) \in Nat
      /\ S \subseteq Carried(q) /\ \A t \in S : t < e /\ t \in Nat /\ First(q) <= t
  BY QueueRange DEF Carried, Selected
<1>2. n \in Nat /\ IsFiniteSet(S) /\ Cardinality(S) = n
  BY <1>1, CountIsNat DEF Place
<1>3. IsFiniteSet(T) /\ Cardinality(T) = n
  BY <1>2, FS_Interval, 0 \in Int, n - 1 \in Int
<1>4. f \in [S -> T]
  <2>. SUFFICES ASSUME NEW t \in S PROVE Place(q, t) \in T
    OBVIOUS
  <2>. QED
    BY <1>1, <1>2, PlacesDiffer
<1>5. \A a, b \in S : f[a] = f[b] => a = b
  BY <1>1, PlacesDiffer
<1>6. f \in Injection(S, T)
  BY <1>4, <1>5 DEF Injection, IsInjective
<1>7. f \in Surjection(S, T)
  BY <1>2, <1>3, <1>6, FS_Injection
<1>8. i \in T
  BY <1>2
<1>9. \E t \in S : f[t] = i
  <2>. HIDE DEF S, T, f
  <2>. QED
    BY <1>7, <1>8 DEF Surjection
<1>. QED
  BY <1>1, <1>9

\* Two places less than the ring apart have different slots.
LEMMA SlotsDiffer ==
  ASSUME NEW i \in Nat, NEW j \in Nat, i < j, j < i + BufTokens
  PROVE  i % BufTokens # j % BufTokens
<1>. DEFINE B == BufTokens
<1>1. B \in Nat /\ B > 0
  BY DispatchAssumption
<1>2. /\ i = B * (i \div B) + (i % B) /\ j = B * (j \div B) + (j % B)
      /\ i \div B \in Int /\ j \div B \in Int
  BY <1>1
<1>3. SUFFICES ASSUME i % B = j % B PROVE FALSE
  OBVIOUS
<1>4. j - i = B * ((j \div B) - (i \div B))
  BY <1>1, <1>2, <1>3
<1>5. CASE (j \div B) - (i \div B) <= 0
  BY <1>1, <1>2, <1>4, <1>5
<1>6. CASE (j \div B) - (i \div B) >= 1
  BY <1>1, <1>2, <1>4, <1>6
<1>. QED
  BY <1>2, <1>5, <1>6

-----------------------------------------------------------------------------
(* Rows of the output.                                                     *)

\* The prefix sums of two channels differ by what the second one carries.
LEMMA ChannelCounts ==
  ASSUME NEW q \in Queues
  PROVE  /\ ChannelBase(q) = Cardinality(Selected(Src(q), Dst(q), 0, First(q)))
         /\ ChannelPrefix(Src(q), Dst(q), Chn(q)) = ChannelBase(q) + Total(q)
         /\ ChannelBase(q) \in Nat /\ Total(q) \in Nat
         /\ ChannelBase(q) + Total(q) <= NumTokens
<1>. DEFINE s == Src(q)
            d == Dst(q)
<1>1. /\ First(q) \in Nat /\ Last(q) \in Nat /\ First(q) <= Last(q) /\ Last(q) <= NumTokens
      /\ Chn(q) \in Nat /\ NumTokens \in Nat
  BY QueueRange, QueueParts, DispatchAssumption
<1>2. ChannelBase(q) = Cardinality(Selected(s, d, 0, First(q)))
  <2>1. CASE Chn(q) = 0
    <3>1. First(q) = 0
      BY <2>1, ChannelRange DEF First
    <3>. QED
      BY <2>1, <3>1, CountOfOne DEF ChannelBase
  <2>2. CASE Chn(q) > 0
    <3>1. Chn(q) - 1 \in Nat /\ (Chn(q) - 1) + 1 = Chn(q)
      BY <1>1, <2>2
    <3>2. TokenEnd(Chn(q) - 1) = First(q)
      BY <3>1, ChannelRange DEF First
    <3>. QED
      BY <2>2, <3>2 DEF ChannelBase, ChannelPrefix
  <2>. QED
    BY <1>1, <2>1, <2>2
<1>3. /\ Cardinality(Selected(s, d, 0, First(q))) \in Nat
      /\ Cardinality(Selected(s, d, First(q), Last(q))) \in Nat
  BY <1>1, CountIsNat
<1>4. Cardinality(Selected(s, d, 0, Last(q)))
        = Cardinality(Selected(s, d, 0, First(q))) + Cardinality(Selected(s, d, First(q), Last(q)))
  BY <1>1, CountSplits
<1>5. Cardinality(Selected(s, d, 0, Last(q))) <= Last(q) - 0
  BY <1>1, CountFits
<1>. QED
  BY <1>1, <1>2, <1>3, <1>4, <1>5 DEF ChannelPrefix, Total, Place, Last

LEMMA ArrivalsCounted ==
  ASSUME NEW d
  PROVE  /\ IsFiniteSet(Arrivals(d)) /\ Cardinality(Arrivals(d)) = NumRecv(d)
         /\ NumRecv(d) \in Nat /\ NumRecv(d) <= NumRanks * NumTokens
         /\ NumRanks * NumTokens \in Nat /\ MaxRows \in Nat
         /\ NumRanks * NumTokens <= MaxRows /\ NumTokens <= NumRanks * NumTokens
         /\ NumWorst <= MaxRows
<1>1. NumRanks \in Nat /\ NumTokens \in Nat /\ NumWorst \in Nat /\ NumRanks >= 1
  BY DispatchAssumption
<1>2. IsFiniteSet(Ranks) /\ Cardinality(Ranks) = NumRanks
  <2>. DEFINE n == NumRanks - 1
  <2>1. n \in Int /\ 0 <= n /\ n - 0 + 1 = NumRanks
    BY <1>1
  <2>2. IsFiniteSet(0 .. n) /\ Cardinality(0 .. n) = IF 0 > n THEN 0 ELSE n - 0 + 1
    <3>. HIDE DEF n
    <3>. QED
      BY <2>1, FS_Interval
  <2>. QED
    BY <2>1, <2>2 DEF Ranks
<1>3. IsFiniteSet(Tokens) /\ Cardinality(Tokens) = NumTokens
  <2>. DEFINE n == NumTokens - 1
  <2>1. n \in Int /\ (IF 0 > n THEN 0 ELSE n - 0 + 1) = NumTokens
    BY <1>1
  <2>2. IsFiniteSet(0 .. n) /\ Cardinality(0 .. n) = IF 0 > n THEN 0 ELSE n - 0 + 1
    <3>. HIDE DEF n
    <3>. QED
      BY <2>1, FS_Interval
  <2>. QED
    BY <2>1, <2>2 DEF Tokens
<1>4. IsFiniteSet(Ranks \X Tokens) /\ Cardinality(Ranks \X Tokens) = NumRanks * NumTokens
  BY <1>2, <1>3, FS_Product
<1>5. Arrivals(d) \in SUBSET (Ranks \X Tokens)
  BY DEF Arrivals
<1>6. /\ IsFiniteSet(Arrivals(d)) /\ Cardinality(Arrivals(d)) \in Nat
      /\ Cardinality(Arrivals(d)) <= NumRanks * NumTokens
  BY <1>4, <1>5, FS_Subset, FS_CardinalityType
<1>7. Cardinality(Arrivals(d)) = NumRecv(d)
  BY DEF NumRecv, RankPrefix, Arrivals, Ranks
<1>8. NumRanks * NumTokens \in Nat /\ NumTokens <= NumRanks * NumTokens
  BY <1>1
<1>9. MaxRows \in Nat /\ NumRanks * NumTokens <= MaxRows /\ NumWorst <= MaxRows
  BY <1>1, <1>8 DEF MaxRows
<1>. QED
  BY <1>6, <1>7, <1>8, <1>9

LEMMA RowRange ==
  ASSUME NEW d, NEW p
  PROVE  /\ RowOf(d, p) \in Nat /\ RowOf(d, p) <= NumRecv(d)
         /\ p \in Arrivals(d) => RowOf(d, p) < NumRecv(d)
<1>. DEFINE B == {o \in Arrivals(d) : Before(o, p)}
<1>1. B \in SUBSET Arrivals(d)
  OBVIOUS
<1>2. IsFiniteSet(B) /\ Cardinality(B) <= NumRecv(d) /\ (Cardinality(B) = NumRecv(d) => B = Arrivals(d))
  BY <1>1, ArrivalsCounted, FS_Subset
<1>3. Cardinality(B) \in Nat
  BY <1>2, FS_CardinalityType
<1>4. p \in Arrivals(d) => B # Arrivals(d)
  <2>. SUFFICES ASSUME p \in Arrivals(d) PROVE p \notin B
    OBVIOUS
  <2>. QED
    BY DispatchAssumption DEF Before, Arrivals, Ranks, Tokens
<1>5. NumRecv(d) \in Nat
  BY ArrivalsCounted
<1>. QED
  BY <1>2, <1>3, <1>4, <1>5 DEF RowOf

LEMMA RowFits ==
  ASSUME NEW d, NEW p \in Arrivals(d)
  PROVE  RowOf(d, p) \in 0 .. MaxRows - 1
<1>1. RowOf(d, p) \in Nat /\ RowOf(d, p) < NumRecv(d)
  BY RowRange
<1>2. NumRecv(d) \in Nat /\ MaxRows \in Nat /\ NumRecv(d) <= MaxRows
  <2>. DEFINE n == NumRanks * NumTokens
  <2>1. NumRecv(d) \in Nat /\ n \in Nat /\ MaxRows \in Nat /\ NumRecv(d) <= n /\ n <= MaxRows
    BY ArrivalsCounted
  <2>. HIDE DEF n
  <2>. QED
    BY <2>1
<1>. QED
  BY <1>1, <1>2

\* No two tokens have one row.
LEMMA RowsDiffer ==
  ASSUME NEW d, NEW p \in Arrivals(d), NEW o \in Arrivals(d), RowOf(d, p) = RowOf(d, o)
  PROVE  p = o
<1>1. ASSUME NEW a \in Arrivals(d), NEW b \in Arrivals(d), Before(a, b)
      PROVE  RowOf(d, a) < RowOf(d, b)
  <2>. DEFINE A == {c \in Arrivals(d) : Before(c, a)}
              B == {c \in Arrivals(d) : Before(c, b)}
  <2>1. A \in SUBSET B /\ a \in B /\ a \notin A
    BY <1>1, DispatchAssumption DEF Before, Arrivals, Ranks, Tokens
  <2>2. IsFiniteSet(B)
    <3>1. B \in SUBSET Arrivals(d)
      OBVIOUS
    <3>. QED
      BY <3>1, ArrivalsCounted, FS_Subset
  <2>3. Cardinality(A) <= Cardinality(B) /\ Cardinality(A) # Cardinality(B)
    BY <2>1, <2>2, FS_Subset
  <2>4. RowOf(d, a) = Cardinality(A) /\ RowOf(d, b) = Cardinality(B)
    BY DEF RowOf
  <2>5. RowOf(d, a) \in Nat /\ RowOf(d, b) \in Nat
    BY RowRange
  <2>. HIDE DEF A, B
  <2>. QED
    BY <2>3, <2>4, <2>5
<1>2. Before(p, o) \/ Before(o, p) \/ p = o
  BY DispatchAssumption DEF Before, Arrivals, Ranks, Tokens
<1>. QED
  BY <1>1, <1>2, RowRange

LEMMA FirstRowIsNat ==
  ASSUME NEW q \in Queues
  PROVE  RankOffset(Src(q), Dst(q)) \in Nat /\ FirstRow(q) \in Nat
<1>. DEFINE s == Src(q)
            d == Dst(q)
            A == {p \in (0 .. s - 1) \X Tokens : d \in route[p[1]][p[2]]}
<1>1. s \in Nat /\ s < NumRanks /\ NumRanks \in Nat
  BY QueueParts, DispatchAssumption DEF Ranks
<1>2. A \in SUBSET Arrivals(d)
  BY <1>1 DEF Arrivals, Ranks
<1>3. Cardinality(A) \in Nat
  BY <1>2, ArrivalsCounted, FS_Subset, FS_CardinalityType
<1>4. RankOffset(s, d) \in Nat
  <2>1. RankOffset(s, d) = IF s > 0 THEN Cardinality(A) ELSE 0
    BY DEF RankOffset, RankPrefix
  <2>. HIDE DEF A
  <2>. QED
    BY <1>3, <2>1
<1>. QED
  BY <1>4, ChannelCounts DEF FirstRow

\* The rows of a queue are where the prefix matrices say.
LEMMA RowOfPlace ==
  ASSUME NEW q \in Queues, NEW t \in First(q) .. Last(q)
  PROVE  RowOf(Dst(q), <<Src(q), t>>) = FirstRow(q) + Place(q, t)
<1>. DEFINE s == Src(q)
            d == Dst(q)
            S == Selected(s, d, 0, t)
            A == {p \in (0 .. s - 1) \X Tokens : d \in route[p[1]][p[2]]}
            B == {<<s, u>> : u \in S}
            X == {o \in Arrivals(d) : Before(o, <<s, t>>)}
<1>1. /\ s \in Nat /\ s \in Ranks /\ t \in Nat /\ t <= NumTokens /\ First(q) <= t
      /\ First(q) \in Nat /\ NumTokens \in Nat /\ NumRanks \in Nat
  BY QueueRange, QueueParts, DispatchAssumption
<1>2. X = A \cup B
  BY <1>1 DEF Arrivals, Before, Ranks, Tokens, Selected
<1>3. A \cap B = {}
  BY <1>1
<1>4. X \in SUBSET Arrivals(d)
  OBVIOUS
<1>5. IsFiniteSet(X)
  BY <1>4, ArrivalsCounted, FS_Subset
<1>6. IsFiniteSet(A) /\ IsFiniteSet(B) /\ Cardinality(A) \in Nat
  BY <1>2, <1>5, FS_Subset, FS_CardinalityType, A \in SUBSET X, B \in SUBSET X
<1>7. Cardinality(X) = Cardinality(A) + Cardinality(B)
  <2>1. Cardinality(A \cup B) = Cardinality(A) + Cardinality(B) - Cardinality(A \cap B)
    BY <1>6, FS_Union
  <2>2. Cardinality(A) \in Nat /\ Cardinality(B) \in Nat
    BY <1>6, FS_CardinalityType
  <2>3. Cardinality(A \cap B) = 0
    BY <1>3, FS_EmptySet
  <2>4. Cardinality(X) = Cardinality(A \cup B)
    BY <1>2
  <2>. HIDE DEF A, B, X
  <2>. QED
    BY <2>1, <2>2, <2>3, <2>4
<1>8. Cardinality(A) = RankOffset(s, d)
  <2>1. CASE s > 0
    BY <2>1 DEF RankOffset, RankPrefix
  <2>2. CASE s = 0
    <3>1. A = {}
      BY <2>2
    <3>. QED
      BY <2>2, <3>1, FS_EmptySet DEF RankOffset
  <2>. QED
    BY <1>1, <2>1, <2>2
<1>9. Cardinality(B) = Cardinality(S)
  <2>. DEFINE f == [u \in S |-> <<s, u>>]
  <2>1. f \in Bijection(S, B)
    BY DEF Bijection, Injection, Surjection, IsInjective
  <2>2. IsFiniteSet(S)
    BY <1>1, CountIsNat
  <2>3. ExistsBijection(S, B)
    BY <2>1 DEF ExistsBijection
  <2>. HIDE DEF S, B
  <2>. QED
    BY <2>2, <2>3, FS_Bijection
<1>10. /\ Cardinality(S) = Cardinality(Selected(s, d, 0, First(q))) + Place(q, t)
       /\ Cardinality(Selected(s, d, 0, First(q))) \in Nat /\ Place(q, t) \in Nat
  BY <1>1, CountSplits, CountIsNat DEF Place
<1>11. RowOf(d, <<s, t>>) = Cardinality(X)
  BY DEF RowOf
<1>. HIDE DEF A, B, S, X
<1>. QED
  BY <1>6, <1>7, <1>8, <1>9, <1>10, <1>11, ChannelCounts DEF FirstRow

-----------------------------------------------------------------------------
(* The inductive invariant.                                                *)

Typed ==
  /\ route \in Routings
  /\ startOff \in [Queues -> Int] /\ endOff \in [Queues -> Int]
  /\ unseen \in [Queues -> SUBSET {"start", "end"}]
  /\ head \in [Queues -> Nat] /\ tail \in [Queues -> Nat]
  /\ slot \in [Queues -> [0 .. BufTokens - 1 -> (Ranks \X Tokens) \cup {None}]]
  /\ sPc \in [Queues -> {"wait", "fill", "done"}]
  /\ sTok \in [Queues -> Nat] /\ sTail \in [Queues -> Nat]
  /\ sPend \in [Queues -> SUBSET ((0 .. BufTokens - 1) \X Tokens)]
  /\ rPc \in [Queues -> {"start", "end", "wait", "copy", "done"}]
  /\ rOff \in [Queues -> Int] /\ rLeft \in [Queues -> Int]
  /\ rHead \in [Queues -> Nat] /\ rTail \in [Queues -> Nat]
  /\ rPend \in [Queues -> SUBSET Nat]
  /\ sendHead \in [Ranks -> [Tokens -> [Dests -> Int]]]
  /\ recvX \in [Dests -> [0 .. MaxRows - 1 -> (Ranks \X Tokens) \cup {None, Unused}]]
  /\ recvChanOff \in [Queues -> Int]
  /\ trapped \subseteq Ranks

\* The sender's tail is the place of the next token it looks at.
SenderAt(q) ==
  /\ sTok[q] \in First(q) .. Last(q)
  /\ sTail[q] = Place(q, sTok[q])
  /\ sPc[q] # "fill" => tail[q] = sTail[q] /\ sPend[q] = {}
  /\ sPc[q] = "done" => sTok[q] = Last(q)
  /\ startOff[q] = IF "start" \in unseen[q] THEN 0 ELSE Encoded(ChannelBase(q))
  /\ endOff[q] = IF "end" \in unseen[q] THEN 0 ELSE Encoded(ChannelBase(q) + Total(q))

\* Never more than a ring between the ends, nor a gap between the sides.
RingFits(q) ==
  /\ head[q] = rHead[q]
  /\ head[q] <= tail[q] /\ tail[q] <= sTail[q] /\ sTail[q] <= head[q] + BufTokens
  /\ rTail[q] <= tail[q]
  /\ IF rPc[q] = "copy"
     THEN rTail[q] > rHead[q] /\ rPend[q] \subseteq rHead[q] .. rTail[q] - 1
     ELSE rPend[q] = {}

\* Copies still to make are of tokens behind the published tail.
PendingBehindTail(q) ==
  \A p \in sPend[q] : \E t \in Carried(q) :
    t < sTok[q] /\ tail[q] <= Place(q, t) /\ p = <<Place(q, t) % BufTokens, t>>

\* From the head on, a slot holds the token of its place or is to be filled.
SlotsHold(q) ==
  \A t \in Carried(q) : t < sTok[q] /\ head[q] <= Place(q, t) =>
    \/ <<Place(q, t) % BufTokens, t>> \in sPend[q]
    \/ slot[q][Place(q, t) % BufTokens] = <<Src(q), t>>

\* send_head, for the tokens walked over.
PlacesRecorded(q) ==
  \A t \in First(q) .. sTok[q] - 1 :
    sendHead[Src(q)][t][Dst(q)] = IF Routed(q, t) THEN Place(q, t) ELSE -1

ReceiverAt(q) ==
  /\ recvChanOff[q] \in {Unset, ChannelBase(q)}
  /\ rPc[q] \in {"start", "end"} =>
       rHead[q] = 0 /\ rLeft[q] = 0 /\ rOff[q] = IF rPc[q] = "start" THEN 0 ELSE ChannelBase(q)
  /\ rPc[q] \in {"wait", "copy", "done"} =>
       /\ recvChanOff[q] = ChannelBase(q)
       /\ rOff[q] = FirstRow(q) + rHead[q]
       /\ rLeft[q] = Total(q) - rHead[q]
  /\ rPc[q] = "done" => rLeft[q] = 0

\* Places the receiver is through with.
CopiedOut(q, i) ==
  i < rHead[q] \/ (rPc[q] = "copy" /\ i < rTail[q] /\ i \notin rPend[q])

RowsFilled(q) ==
  \A t \in Carried(q) : CopiedOut(q, Place(q, t)) =>
    recvX[Dst(q)][RowOf(Dst(q), <<Src(q), t>>)] = <<Src(q), t>>

QueueOK(q) ==
  /\ SenderAt(q) /\ RingFits(q) /\ PendingBehindTail(q) /\ SlotsHold(q)
  /\ PlacesRecorded(q) /\ ReceiverAt(q) /\ RowsFilled(q)

IInv ==
  /\ Typed
  /\ \A q \in Queues : QueueOK(q)
  /\ RowsCorrect

-----------------------------------------------------------------------------
(* What the steps have in common.                                          *)

\* All counts depend on the routing only, which never changes.
LEMMA RouteFixed ==
  ASSUME route' = route
  PROVE  /\ \A q, t : Place(q, t)' = Place(q, t) /\ (Routed(q, t)' <=> Routed(q, t))
         /\ \A q : /\ Carried(q)' = Carried(q) /\ Total(q)' = Total(q)
                   /\ ChannelBase(q)' = ChannelBase(q) /\ FirstRow(q)' = FirstRow(q)
         /\ \A d : Arrivals(d)' = Arrivals(d) /\ NumRecv(d)' = NumRecv(d)
         /\ \A d, p : RowOf(d, p)' = RowOf(d, p)
BY DEF Place, Routed, Carried, Total, ChannelBase, FirstRow, Arrivals, NumRecv, RowOf,
       Selected, ChannelPrefix, RankOffset, RankPrefix

\* The sender of q did nothing that concerns it.
LEMMA SenderKept ==
  ASSUME NEW q \in Queues, route' = route, SenderAt(q),
         UNCHANGED <<startOff[q], endOff[q], unseen[q], tail[q], sPc[q], sTok[q], sTail[q], sPend[q]>>
  PROVE  SenderAt(q)'
BY RouteFixed DEF SenderAt

LEMMA RingKept ==
  ASSUME NEW q \in Queues, RingFits(q),
         UNCHANGED <<head[q], tail[q], sTail[q], rPc[q], rHead[q], rTail[q], rPend[q]>>
  PROVE  RingFits(q)'
BY DEF RingFits

LEMMA SlotsKept ==
  ASSUME NEW q \in Queues, route' = route, PendingBehindTail(q), SlotsHold(q),
         UNCHANGED <<head[q], tail[q], sTok[q], sPend[q], slot[q]>>
  PROVE  PendingBehindTail(q)' /\ SlotsHold(q)'
BY RouteFixed DEF PendingBehindTail, SlotsHold

LEMMA ReceiverKept ==
  ASSUME NEW q \in Queues, route' = route, ReceiverAt(q),
         UNCHANGED <<rPc[q], rOff[q], rLeft[q], rHead[q], recvChanOff[q]>>
  PROVE  ReceiverAt(q)'
BY RouteFixed DEF ReceiverAt

\* A row of another token, or past the tokens, was written.
LEMMA RecordedKept ==
  ASSUME NEW q \in Queues, route' = route, PlacesRecorded(q), sTok'[q] = sTok[q],
         \A t \in First(q) .. sTok[q] - 1 :
           sendHead'[Src(q)][t][Dst(q)] = sendHead[Src(q)][t][Dst(q)]
  PROVE  PlacesRecorded(q)'
BY RouteFixed DEF PlacesRecorded

LEMMA FilledKept ==
  ASSUME NEW q \in Queues, route' = route, RowsFilled(q),
         UNCHANGED <<rPc[q], rHead[q], rTail[q], rPend[q]>>,
         \A t \in Carried(q) :
           LET i == RowOf(Dst(q), <<Src(q), t>>) IN
           recvX[Dst(q)][i] = <<Src(q), t>> => recvX'[Dst(q)][i] = <<Src(q), t>>
  PROVE  RowsFilled(q)'
BY RouteFixed DEF RowsFilled, CopiedOut

-----------------------------------------------------------------------------
(* The steps, one lemma each.                                              *)

LEMMA InitOK == Init => IInv
<1>. SUFFICES ASSUME Init PROVE IInv
  OBVIOUS
<1>1. Typed
  <2>1. \A q \in Queues : TokenStart(Chn(q)) \in Nat
    BY QueueRange DEF First
  <2>2. BufTokens \in Nat /\ NumTokens \in Nat
    BY DispatchAssumption
  <2>. QED
    BY <2>1, <2>2 DEF Init, Typed, Unset
<1>2. ASSUME NEW q \in Queues PROVE QueueOK(q)
  <2>1. First(q) \in Nat /\ Last(q) \in Nat /\ First(q) <= Last(q)
    BY QueueRange
  <2>2. Place(q, First(q)) = 0
    BY <2>1, PlaceSteps
  <2>3. SenderAt(q)
    BY <2>1, <2>2 DEF Init, SenderAt, First, Last
  <2>4. RingFits(q) /\ ReceiverAt(q) /\ PendingBehindTail(q)
    BY DispatchAssumption DEF Init, RingFits, ReceiverAt, PendingBehindTail
  <2>5. \A t \in Nat : ~ (First(q) <= t /\ t < sTok[q])
    BY <2>1 DEF Init, First
  <2>6. SlotsHold(q)
    BY <2>1, <2>5, PlacesDiffer DEF SlotsHold
  <2>7. PlacesRecorded(q)
    BY <2>1, <2>5 DEF PlacesRecorded, Init, First
  <2>8. \A t \in Carried(q) : ~ CopiedOut(q, Place(q, t))
    BY <2>1, PlacesDiffer DEF CopiedOut, Init
  <2>. QED
    BY <2>3, <2>4, <2>6, <2>7, <2>8 DEF QueueOK, RowsFilled
<1>3. RowsCorrect
  BY DEF Init, RowsCorrect
<1>. QED
  BY <1>1, <1>2, <1>3 DEF IInv

LEMMA StartOffsetOK ==
  ASSUME IInv, NEW p \in Queues, SendStartOffset(p)
  PROVE  IInv'
<1>. USE DEF SendStartOffset, receiverVars
<1>1. Typed'
  <2>1. Encoded(ChannelBase(p)) \in Int
    BY ChannelCounts DEF Encoded
  <2>. QED
    BY <2>1 DEF IInv, Typed, ChannelBase
<1>2. ASSUME NEW q \in Queues PROVE QueueOK(q)'
  <2>1. SenderAt(q)'
    BY RouteFixed, SMTT(30), ZenonT(30) DEF IInv, Typed, QueueOK, SenderAt, ChannelBase
  <2>2. RingFits(q)' /\ PendingBehindTail(q)' /\ SlotsHold(q)' /\ ReceiverAt(q)'
    BY RingKept, SlotsKept, ReceiverKept DEF IInv, QueueOK
  <2>3. PlacesRecorded(q)' /\ RowsFilled(q)'
    BY RecordedKept, FilledKept DEF IInv, QueueOK
  <2>. QED
    BY <2>1, <2>2, <2>3 DEF QueueOK
<1>3. RowsCorrect'
  BY RouteFixed DEF IInv, RowsCorrect
<1>. QED
  BY <1>1, <1>2, <1>3 DEF IInv

LEMMA EndOffsetOK ==
  ASSUME IInv, NEW p \in Queues, SendEndOffset(p)
  PROVE  IInv'
<1>. USE DEF SendEndOffset, receiverVars
<1>1. /\ ChannelPrefix(Src(p), Dst(p), Chn(p)) = ChannelBase(p) + Total(p)
      /\ Encoded(ChannelBase(p) + Total(p)) \in Int
  BY ChannelCounts DEF Encoded
<1>2. Typed'
  BY <1>1 DEF IInv, Typed
<1>3. ASSUME NEW q \in Queues PROVE QueueOK(q)'
  <2>1. SenderAt(q)'
    BY <1>1, RouteFixed, SMTT(30), ZenonT(30) DEF IInv, Typed, QueueOK, SenderAt
  <2>2. RingFits(q)' /\ PendingBehindTail(q)' /\ SlotsHold(q)' /\ ReceiverAt(q)'
    BY RingKept, SlotsKept, ReceiverKept DEF IInv, QueueOK
  <2>3. PlacesRecorded(q)' /\ RowsFilled(q)'
    BY RecordedKept, FilledKept DEF IInv, QueueOK
  <2>. QED
    BY <2>1, <2>2, <2>3 DEF QueueOK
<1>4. RowsCorrect'
  BY RouteFixed DEF IInv, RowsCorrect
<1>. QED
  BY <1>2, <1>3, <1>4 DEF IInv

LEMMA SenderFacts ==
  ASSUME IInv, NEW q \in Queues
  PROVE  /\ sTok[q] \in Nat /\ First(q) \in Nat /\ Last(q) \in Nat
         /\ First(q) <= sTok[q] /\ sTok[q] <= Last(q) /\ Last(q) <= NumTokens
         /\ Place(q, sTok[q]) = sTail[q] /\ sTail[q] <= Total(q) /\ Total(q) \in Nat
         /\ \A t \in Nat : First(q) <= t => Place(q, t) \in Nat
         /\ BufTokens \in Nat /\ ChunkTokens \in Nat \ {0} /\ NumTokens \in Nat
<1>1. sTok[q] \in Nat /\ First(q) <= sTok[q] /\ sTok[q] <= Last(q) /\ sTail[q] = Place(q, sTok[q])
  BY QueueRange DEF IInv, Typed, QueueOK, SenderAt
<1>2. First(q) \in Nat /\ Last(q) \in Nat /\ First(q) <= Last(q) /\ Last(q) <= NumTokens
  BY QueueRange
<1>3. \A t \in Nat : First(q) <= t => Place(q, t) \in Nat
  BY <1>2, PlaceSteps
<1>4. Place(q, sTok[q]) <= Total(q) /\ Total(q) \in Nat
  BY <1>1, <1>2, PlaceSteps DEF Total
<1>. QED
  BY <1>1, <1>2, <1>3, <1>4, DispatchAssumption

\* What the walk over a chunk computes.
LEMMA ChunkPlaces ==
  ASSUME IInv, NEW p \in Queues, NEW e \in sTok[p] + 1 .. TokenEnd(Chn(p)), IsChunkEnd(p, e),
         HasSpace(p)
  PROVE  /\ e \in Nat /\ sTok[p] < e /\ e <= Last(p)
         /\ \A t \in Nat : sTok[p] <= t => IndexInQueue(p, t) = Place(p, t)
         /\ IndexInQueue(p, e) \in Nat /\ sTail[p] <= IndexInQueue(p, e)
         /\ IndexInQueue(p, e) <= head[p] + BufTokens
<1>0. /\ sTok[p] \in Nat /\ sTail[p] \in Nat /\ head[p] \in Nat /\ Last(p) \in Nat
      /\ BufTokens \in Nat /\ ChunkTokens \in Nat
      /\ Place(p, sTok[p]) = sTail[p] /\ First(p) \in Nat /\ First(p) <= sTok[p]
  BY SenderFacts DEF IInv, Typed
<1>1. e \in Nat /\ sTok[p] < e /\ e <= Last(p)
  BY <1>0 DEF Last
<1>2. \A t \in Nat : sTok[p] <= t => IndexInQueue(p, t) = Place(p, t)
  BY <1>0, PlaceSteps DEF IndexInQueue
<1>3. Place(p, e) \in Nat /\ sTail[p] <= Place(p, e)
  BY <1>0, <1>1, PlaceSteps
<1>4. Cardinality(Selected(Src(p), Dst(p), sTok[p], e)) \in Nat
  BY <1>0, <1>1, CountIsNat
<1>5. Cardinality(Selected(Src(p), Dst(p), sTok[p], e)) <= ChunkTokens
  BY <1>0, <1>4 DEF IsChunkEnd
<1>6. IndexInQueue(p, e) <= sTail[p] + ChunkTokens
  BY <1>0, <1>4, <1>5 DEF IndexInQueue
<1>7. sTail[p] + ChunkTokens <= head[p] + BufTokens
  BY <1>0 DEF HasSpace
<1>8. IndexInQueue(p, e) = Place(p, e)
  BY <1>0, <1>1, <1>2
<1>. QED
  BY <1>0, <1>1, <1>2, <1>3, <1>6, <1>7, <1>8

LEMMA TakeChunkOK ==
  ASSUME IInv, NEW p \in Queues, TakeChunk(p)
  PROVE  IInv'
<1>. DEFINE s == Src(p)
            d == Dst(p)
<1>1. PICK e \in sTok[p] + 1 .. TokenEnd(Chn(p)) :
        /\ IsChunkEnd(p, e)
        /\ sendHead' = [sendHead EXCEPT ![s] = [t \in Tokens |->
             IF t \in sTok[p] .. e - 1
             THEN [@[t] EXCEPT ![d] = SendHead(p, t)]
             ELSE @[t]]]
        /\ sPend' = [sPend EXCEPT ![p] =
             {<<IndexInQueue(p, t) % BufTokens, t>> : t \in Selected(s, d, sTok[p], e)}]
        /\ sTail' = [sTail EXCEPT ![p] = IndexInQueue(p, e)]
        /\ sTok' = [sTok EXCEPT ![p] = e]
  BY DEF TakeChunk
<1>2. /\ HasSpace(p) /\ sPc[p] = "wait" /\ sPc' = [sPc EXCEPT ![p] = "fill"]
      /\ UNCHANGED <<route, trapped, receiverVars, startOff, endOff, unseen, tail, slot>>
  BY DEF TakeChunk
<1>. USE DEF receiverVars
<1>3. /\ e \in Nat /\ sTok[p] < e /\ e <= Last(p)
      /\ \A t \in Nat : sTok[p] <= t => IndexInQueue(p, t) = Place(p, t)
      /\ IndexInQueue(p, e) \in Nat /\ sTail[p] <= IndexInQueue(p, e)
      /\ IndexInQueue(p, e) <= head[p] + BufTokens
  BY <1>1, <1>2, ChunkPlaces
<1>4. \A t \in Selected(s, d, sTok[p], e) :
        /\ t \in Nat /\ t \in Tokens /\ sTok[p] <= t /\ t < e
        /\ t \in Carried(p) /\ IndexInQueue(p, t) = Place(p, t)
  BY <1>3, SenderFacts DEF Selected, Tokens, Carried
<1>5. \A t \in Tokens : t >= sTok[p] =>
        SendHead(p, t) = (IF Routed(p, t) THEN Place(p, t) ELSE -1) /\ SendHead(p, t) \in Int
  BY <1>3, SenderFacts DEF SendHead, Routed, Tokens
<1>6. Typed'
  <2>1. sPend' \in [Queues -> SUBSET ((0 .. BufTokens - 1) \X Tokens)]
    <3>1. \A t \in Selected(s, d, sTok[p], e) :
            <<IndexInQueue(p, t) % BufTokens, t>> \in (0 .. BufTokens - 1) \X Tokens
      <4>. TAKE t \in Selected(s, d, sTok[p], e)
      <4>1. IndexInQueue(p, t) \in Nat /\ BufTokens \in Nat /\ BufTokens > 0
        BY <1>4, SenderFacts, DispatchAssumption
      <4>. QED
        BY <1>4, <4>1
    <3>2. {<<IndexInQueue(p, t) % BufTokens, t>> : t \in Selected(s, d, sTok[p], e)}
            \in SUBSET ((0 .. BufTokens - 1) \X Tokens)
      BY <3>1
    <3>3. sPend \in [Queues -> SUBSET ((0 .. BufTokens - 1) \X Tokens)]
      BY DEF IInv, Typed
    <3>. QED
      BY <1>1, <3>2, <3>3
  <2>2. sendHead' \in [Ranks -> [Tokens -> [Dests -> Int]]]
    <3>1. [t \in Tokens |-> IF t \in sTok[p] .. e - 1
             THEN [sendHead[s][t] EXCEPT ![d] = SendHead(p, t)]
             ELSE sendHead[s][t]] \in [Tokens -> [Dests -> Int]]
      <4>. SUFFICES ASSUME NEW t \in Tokens
                    PROVE  (IF t \in sTok[p] .. e - 1
                            THEN [sendHead[s][t] EXCEPT ![d] = SendHead(p, t)]
                            ELSE sendHead[s][t]) \in [Dests -> Int]
        OBVIOUS
      <4>1. sendHead[s][t] \in [Dests -> Int] /\ d \in Dests
        BY QueueParts, SMTT(30), ZenonT(30) DEF IInv, Typed
      <4>2. sTok[p] \in Nat /\ t \in Nat
        BY SenderFacts DEF Tokens
      <4>. QED
        BY <1>3, <1>5, <4>1, <4>2
    <3>2. sendHead \in [Ranks -> [Tokens -> [Dests -> Int]]] /\ s \in Ranks
      BY QueueParts DEF IInv, Typed
    <3>. QED
      BY <1>1, <3>1, <3>2
  <2>. QED
    BY <1>1, <1>2, <1>3, <2>1, <2>2 DEF IInv, Typed
<1>7. ASSUME NEW q \in Queues PROVE QueueOK(q)'
  <2>1. SenderAt(q)'
    <3>1. CASE q # p
      BY <1>1, <1>2, <3>1, SenderKept DEF IInv, Typed, QueueOK
    <3>2. CASE q = p
      <4>1. /\ sTok'[p] = e /\ sTail'[p] = Place(p, e) /\ sPc'[p] = "fill"
            /\ e \in First(p) .. Last(p)
        <5>1. sTok'[p] = e /\ sTail'[p] = IndexInQueue(p, e) /\ sPc'[p] = "fill"
          BY <1>1, <1>2 DEF IInv, Typed
        <5>2. sTok[p] \in Nat /\ First(p) \in Nat /\ Last(p) \in Nat /\ First(p) <= sTok[p]
          BY SenderFacts
        <5>3. sTok[p] <= e
          BY <1>3, <5>2
        <5>4. IndexInQueue(p, e) = Place(p, e)
          BY <1>3, <5>3
        <5>. QED
          BY <1>3, <5>1, <5>2, <5>4
      <4>2. /\ startOff[p] = IF "start" \in unseen[p] THEN 0 ELSE Encoded(ChannelBase(p))
            /\ endOff[p] = IF "end" \in unseen[p] THEN 0 ELSE Encoded(ChannelBase(p) + Total(p))
        BY DEF IInv, QueueOK, SenderAt
      <4>. QED
        BY <1>2, <3>2, <4>1, <4>2, RouteFixed DEF SenderAt
    <3>. QED
      BY <3>1, <3>2
  <2>2. RingFits(q)'
    <3>1. CASE q # p
      BY <1>1, <1>2, <3>1, RingKept DEF IInv, Typed, QueueOK
    <3>2. CASE q = p
      <4>1. sTail'[p] = IndexInQueue(p, e) /\ tail[p] \in Nat /\ sTail[p] \in Nat
        BY <1>1 DEF IInv, Typed
      <4>2. RingFits(p)
        BY DEF IInv, QueueOK
      <4>. QED
        BY <1>2, <1>3, <3>2, <4>1, <4>2 DEF RingFits
    <3>. QED
      BY <3>1, <3>2
  <2>3. PendingBehindTail(q)' /\ SlotsHold(q)'
    <3>1. CASE q # p
      BY <1>1, <1>2, <3>1, SlotsKept DEF IInv, Typed, QueueOK
    <3>2. CASE q = p
      <4>1. tail[p] = sTail[p] /\ sPend[p] = {}
        BY <1>2 DEF IInv, QueueOK, SenderAt
      <4>2. \A t \in Selected(s, d, sTok[p], e) : tail[p] <= Place(p, t)
        BY <1>4, <4>1, SenderFacts, PlaceSteps
      <4>3. PendingBehindTail(p)'
        BY <1>1, <1>2, <1>4, <4>2, RouteFixed DEF IInv, Typed, PendingBehindTail
      <4>4. ASSUME NEW t \in Carried(p), t < e, head[p] <= Place(p, t)
            PROVE  \/ <<Place(p, t) % BufTokens, t>> \in sPend'[p]
                   \/ slot[p][Place(p, t) % BufTokens] = <<Src(p), t>>
        <5>1. CASE t < sTok[p]
          BY <4>1, <4>4, <5>1 DEF IInv, QueueOK, SlotsHold
        <5>2. CASE ~ (t < sTok[p])
          <6>1. t \in Selected(s, d, sTok[p], e)
            BY <4>4, <5>2, <1>3, SenderFacts DEF Carried, Selected
          <6>. QED
            BY <6>1, <1>1, <1>4 DEF IInv, Typed
        <5>. QED
          BY <5>1, <5>2
      <4>5. SlotsHold(p)'
        BY <1>1, <1>2, <4>4, RouteFixed DEF IInv, Typed, SlotsHold
      <4>. QED
        BY <3>2, <4>3, <4>5
    <3>. QED
      BY <3>1, <3>2
  <2>4. PlacesRecorded(q)'
    <3>1. CASE q = p
      <4>1. \A t \in First(p) .. e - 1 : t \in Tokens /\ t \in Nat
        BY <1>3, SenderFacts DEF Tokens
      <4>2. \A t \in First(p) .. e - 1 :
              sendHead'[s][t][d] = IF Routed(p, t) THEN Place(p, t) ELSE -1
        <5>. TAKE t \in First(p) .. e - 1
        <5>0. /\ t \in Tokens /\ t \in Nat /\ sTok[p] \in Nat /\ First(p) \in Nat /\ First(p) <= t
              /\ s \in Ranks /\ d \in Dests /\ t < e
          BY <1>3, <4>1, SenderFacts, QueueParts
        <5>1. CASE t < sTok[p]
          <6>1. sendHead'[s][t] = sendHead[s][t]
            BY <1>1, <5>0, <5>1 DEF IInv, Typed
          <6>. QED
            BY <5>0, <5>1, <6>1 DEF IInv, QueueOK, PlacesRecorded
        <5>2. CASE ~ (t < sTok[p])
          <6>1. sendHead'[s][t] = [sendHead[s][t] EXCEPT ![d] = SendHead(p, t)]
            BY <1>1, <1>3, <5>0, <5>2 DEF IInv, Typed
          <6>2. sendHead[s][t] \in [Dests -> Int]
            BY <5>0 DEF IInv, Typed
          <6>. QED
            BY <1>5, <5>0, <5>2, <6>1, <6>2
        <5>. QED
          BY <5>1, <5>2
      <4>. QED
        BY <1>1, <1>2, <3>1, <4>2, RouteFixed DEF IInv, Typed, PlacesRecorded
    <3>2. CASE q # p
      <4>1. ASSUME NEW t \in First(q) .. sTok[q] - 1
            PROVE  sendHead'[Src(q)][t][Dst(q)] = sendHead[Src(q)][t][Dst(q)]
        <5>1. t \in Nat /\ t \in Tokens /\ t < Last(q)
          BY SenderFacts DEF Tokens
        <5>2. CASE Src(q) # s \/ Dst(q) # d
          <6>1. sendHead[Src(q)][t] \in [Dests -> Int] /\ Dst(q) \in Dests /\ Src(q) \in Ranks
            <7>1. Dst(q) \in Dests /\ Src(q) \in Ranks
              BY QueueParts
            <7>. QED
              BY <5>1, <7>1 DEF IInv, Typed
          <6>2. \/ sendHead'[Src(q)][t] = sendHead[Src(q)][t]
                \/ Src(q) = s /\ sendHead'[s][t] = [sendHead[s][t] EXCEPT ![d] = SendHead(p, t)]
            BY <1>1, <5>1, <6>1 DEF IInv, Typed
          <6>. QED
            BY <5>2, <6>1, <6>2
        <5>3. CASE Src(q) = s /\ Dst(q) = d
          <6>1. Chn(q) # Chn(p)
            BY <3>2, <5>3, QueueParts
          <6>2. Last(q) <= First(p) \/ Last(p) <= First(q)
            BY <6>1, QueueParts, ChannelsApart DEF First, Last
          <6>3. t \notin sTok[p] .. e - 1
            BY <1>3, <5>1, <6>2, SenderFacts
          <6>. QED
            BY <1>1, <5>1, <5>3, <6>3, QueueParts DEF IInv, Typed
        <5>. QED
          BY <5>2, <5>3
      <4>. QED
        BY <1>1, <1>2, <3>2, <4>1, RecordedKept DEF IInv, Typed, QueueOK
    <3>. QED
      BY <3>1, <3>2
  <2>5. ReceiverAt(q)' /\ RowsFilled(q)'
    BY <1>2, ReceiverKept, FilledKept DEF IInv, QueueOK
  <2>. QED
    BY <2>1, <2>2, <2>3, <2>4, <2>5 DEF QueueOK
<1>8. RowsCorrect'
  BY <1>2, RouteFixed DEF IInv, RowsCorrect
<1>. QED
  BY <1>6, <1>7, <1>8 DEF IInv

\* Two tokens that are in the ring at once have different slots.
LEMMA RingSlotsDiffer ==
  ASSUME IInv, NEW q \in Queues, NEW t \in Carried(q), NEW u \in Carried(q), t # u,
         t < sTok[q], u < sTok[q], head[q] <= Place(q, t), head[q] <= Place(q, u)
  PROVE  Place(q, t) % BufTokens # Place(q, u) % BufTokens
<1>1. /\ t \in Nat /\ u \in Nat /\ Place(q, t) \in Nat /\ Place(q, u) \in Nat
      /\ First(q) <= t /\ First(q) <= u /\ Place(q, t) # Place(q, u)
  BY CarriedPlaces
<1>2. Place(q, t) < sTail[q] /\ Place(q, u) < sTail[q]
  BY <1>1, SenderFacts, PlacesDiffer
<1>3. /\ head[q] \in Nat /\ sTail[q] \in Nat /\ BufTokens \in Nat
      /\ sTail[q] <= head[q] + BufTokens
  BY DispatchAssumption DEF IInv, Typed, QueueOK, RingFits
<1>4. \/ Place(q, t) < Place(q, u) /\ Place(q, u) < Place(q, t) + BufTokens
      \/ Place(q, u) < Place(q, t) /\ Place(q, t) < Place(q, u) + BufTokens
  BY <1>1, <1>2, <1>3
<1>. QED
  BY <1>1, <1>4, SlotsDiffer

LEMMA FillSlotOK ==
  ASSUME IInv, NEW p \in Queues, FillSlot(p)
  PROVE  IInv'
<1>1. PICK x \in sPend[p] : /\ slot'  = [slot EXCEPT ![p][x[1]] = <<Src(p), x[2]>>]
                            /\ sPend' = [sPend EXCEPT ![p] = @ \ {x}]
  BY DEF FillSlot
<1>2. UNCHANGED <<route, trapped, receiverVars, startOff, endOff, unseen, tail, sPc, sTok,
                  sTail, sendHead>>
  BY DEF FillSlot
<1>. USE DEF receiverVars
<1>3. PICK u \in Carried(p) : /\ u < sTok[p] /\ tail[p] <= Place(p, u)
                              /\ x = <<Place(p, u) % BufTokens, u>>
  BY DEF IInv, QueueOK, PendingBehindTail
<1>4. x \in (0 .. BufTokens - 1) \X Tokens
  BY DEF IInv, Typed
<1>5. /\ slot'[p][x[1]] = <<Src(p), u>>
      /\ \A i \in 0 .. BufTokens - 1 : i # x[1] => slot'[p][i] = slot[p][i]
      /\ sPend'[p] = sPend[p] \ {x}
      /\ \A q \in Queues : q # p => slot'[q] = slot[q] /\ sPend'[q] = sPend[q]
  BY <1>1, <1>3, <1>4 DEF IInv, Typed
<1>6. Typed'
  <2>1. <<Src(p), x[2]>> \in Ranks \X Tokens
    BY <1>4, QueueParts
  <2>2. slot' \in [Queues -> [0 .. BufTokens - 1 -> (Ranks \X Tokens) \cup {None}]]
    BY <1>1, <1>4, <2>1 DEF IInv, Typed
  <2>3. sPend' \in [Queues -> SUBSET ((0 .. BufTokens - 1) \X Tokens)]
    BY <1>1 DEF IInv, Typed
  <2>. QED
    BY <1>2, <2>2, <2>3 DEF IInv, Typed
<1>7. ASSUME NEW q \in Queues PROVE QueueOK(q)'
  <2>1. CASE q # p
    <3>1. SenderAt(q)' /\ RingFits(q)' /\ PendingBehindTail(q)' /\ SlotsHold(q)'
      BY <1>2, <1>5, <2>1, SenderKept, RingKept, SlotsKept DEF IInv, QueueOK
    <3>2. PlacesRecorded(q)' /\ ReceiverAt(q)' /\ RowsFilled(q)'
      BY <1>2, RecordedKept, ReceiverKept, FilledKept DEF IInv, QueueOK
    <3>. QED
      BY <3>1, <3>2 DEF QueueOK
  <2>2. CASE q = p
    <3>1. SenderAt(p)'
      BY <1>2, <1>5, RouteFixed DEF IInv, QueueOK, SenderAt
    <3>2. RingFits(p)' /\ PlacesRecorded(p)' /\ ReceiverAt(p)' /\ RowsFilled(p)'
      BY <1>2, RingKept, RecordedKept, ReceiverKept, FilledKept DEF IInv, QueueOK
    <3>3. PendingBehindTail(p)'
      BY <1>2, <1>5, RouteFixed DEF IInv, QueueOK, PendingBehindTail
    <3>4. ASSUME NEW t \in Carried(p), t < sTok[p], head[p] <= Place(p, t)
          PROVE  \/ <<Place(p, t) % BufTokens, t>> \in sPend'[p]
                 \/ slot'[p][Place(p, t) % BufTokens] = <<Src(p), t>>
      <4>1. CASE t = u
        BY <1>3, <1>5, <4>1
      <4>2. CASE t # u
        <5>1. head[p] <= Place(p, u)
          <6>1. head[p] \in Nat /\ tail[p] \in Nat /\ head[p] <= tail[p]
            BY DEF IInv, Typed, QueueOK, RingFits
          <6>2. Place(p, u) \in Nat
            BY CarriedPlaces
          <6>. QED
            BY <1>3, <6>1, <6>2
        <5>2. Place(p, t) % BufTokens # x[1]
          BY <1>3, <3>4, <4>2, <5>1, RingSlotsDiffer
        <5>3. Place(p, t) \in Nat /\ Place(p, t) % BufTokens \in 0 .. BufTokens - 1
          <6>1. Place(p, t) \in Nat /\ BufTokens \in Nat /\ BufTokens > 0
            BY CarriedPlaces, DispatchAssumption
          <6>. QED
            BY <6>1
        <5>4. <<Place(p, t) % BufTokens, t>> # x
          BY <1>3, <4>2
        <5>5. \/ <<Place(p, t) % BufTokens, t>> \in sPend[p]
              \/ slot[p][Place(p, t) % BufTokens] = <<Src(p), t>>
          BY <3>4 DEF IInv, QueueOK, SlotsHold
        <5>. QED
          BY <1>5, <5>2, <5>3, <5>4, <5>5
      <4>. QED
        BY <4>1, <4>2
    <3>5. SlotsHold(p)'
      BY <1>2, <3>4, RouteFixed DEF SlotsHold
    <3>. QED
      BY <2>2, <3>1, <3>2, <3>3, <3>5 DEF QueueOK
  <2>. QED
    BY <2>1, <2>2
<1>8. RowsCorrect'
  BY <1>2, RouteFixed DEF IInv, RowsCorrect
<1>. QED
  BY <1>6, <1>7, <1>8 DEF IInv

LEMMA PublishTailOK ==
  ASSUME IInv, NEW p \in Queues, PublishTail(p)
  PROVE  IInv'
<1>. USE DEF receiverVars
<1>1. /\ sPc[p] = "fill" /\ sPend[p] = {}
      /\ tail' = [tail EXCEPT ![p] = sTail[p]]
      /\ sPc'  = [sPc EXCEPT ![p] = IF sTok[p] < Last(p) THEN "wait" ELSE "done"]
      /\ UNCHANGED <<route, trapped, receiverVars, startOff, endOff, unseen, slot, sTok, sTail,
                     sPend, sendHead>>
  BY DEF PublishTail, Last
<1>2. /\ tail'[p] = sTail[p] /\ sPc'[p] = (IF sTok[p] < Last(p) THEN "wait" ELSE "done")
      /\ \A q \in Queues : q # p => tail'[q] = tail[q] /\ sPc'[q] = sPc[q]
  BY <1>1 DEF IInv, Typed
<1>3. Typed'
  BY <1>1 DEF IInv, Typed
<1>4. ASSUME NEW q \in Queues PROVE QueueOK(q)'
  <2>1. CASE q # p
    <3>1. SenderAt(q)' /\ RingFits(q)' /\ PendingBehindTail(q)' /\ SlotsHold(q)'
      BY <1>1, <1>2, <2>1, SenderKept, RingKept, SlotsKept DEF IInv, QueueOK
    <3>2. PlacesRecorded(q)' /\ ReceiverAt(q)' /\ RowsFilled(q)'
      BY <1>1, RecordedKept, ReceiverKept, FilledKept DEF IInv, QueueOK
    <3>. QED
      BY <3>1, <3>2 DEF QueueOK
  <2>2. CASE q = p
    <3>1. SenderAt(p)'
      <4>1. sTok[p] \in Nat /\ Last(p) \in Nat /\ sTok[p] <= Last(p)
        BY SenderFacts
      <4>2. sPend'[p] = {} /\ (sPc'[p] = "done" => sTok'[p] = Last(p))
        BY <1>1, <1>2, <4>1
      <4>3. SenderAt(p)
        BY DEF IInv, QueueOK
      <4>. QED
        BY <1>1, <1>2, <4>2, <4>3, RouteFixed DEF SenderAt
    <3>2. RingFits(p)'
      <4>1. RingFits(p) /\ tail[p] \in Nat /\ sTail[p] \in Nat /\ rTail[p] \in Nat /\ head[p] \in Nat
        BY DEF IInv, Typed, QueueOK
      <4>. QED
        BY <1>1, <1>2, <4>1 DEF RingFits
    <3>3. PendingBehindTail(p)' /\ SlotsHold(p)'
      BY <1>1, RouteFixed DEF IInv, QueueOK, PendingBehindTail, SlotsHold
    <3>4. PlacesRecorded(p)' /\ ReceiverAt(p)' /\ RowsFilled(p)'
      BY <1>1, RecordedKept, ReceiverKept, FilledKept DEF IInv, QueueOK
    <3>. QED
      BY <2>2, <3>1, <3>2, <3>3, <3>4 DEF QueueOK
  <2>. QED
    BY <2>1, <2>2
<1>5. RowsCorrect'
  BY <1>1, RouteFixed DEF IInv, RowsCorrect
<1>. QED
  BY <1>3, <1>4, <1>5 DEF IInv

LEMMA ReadStartOK ==
  ASSUME IInv, NEW p \in Queues, ReadStartOffset(p)
  PROVE  IInv'
<1>. USE DEF senderVars
<1>1. /\ rPc[p] = "start" /\ startOff[p] # 0
      /\ rOff' = [rOff EXCEPT ![p] = -startOff[p] - 1]
      /\ rPc'  = [rPc EXCEPT ![p] = "end"]
      /\ UNCHANGED <<route, trapped, senderVars, head, rLeft, rHead, rTail, rPend, recvX,
                     recvChanOff>>
  BY DEF ReadStartOffset
<1>2. /\ rOff'[p] = ChannelBase(p) /\ rPc'[p] = "end" /\ ChannelBase(p) \in Nat
      /\ \A q \in Queues : q # p => rOff'[q] = rOff[q] /\ rPc'[q] = rPc[q]
  <2>1. startOff[p] = -ChannelBase(p) - 1 /\ ChannelBase(p) \in Nat
    BY <1>1, ChannelCounts DEF IInv, QueueOK, SenderAt, Encoded
  <2>. QED
    BY <1>1, <2>1 DEF IInv, Typed
<1>3. Typed'
  <2>1. -startOff[p] - 1 \in Int
    BY DEF IInv, Typed
  <2>. QED
    BY <1>1, <2>1 DEF IInv, Typed
<1>4. ASSUME NEW q \in Queues PROVE QueueOK(q)'
  <2>1. SenderAt(q)' /\ PendingBehindTail(q)' /\ SlotsHold(q)' /\ PlacesRecorded(q)'
    BY <1>1, SenderKept, SlotsKept, RecordedKept DEF IInv, QueueOK
  <2>2. CASE q # p
    <3>1. RingFits(q)' /\ ReceiverAt(q)' /\ RowsFilled(q)'
      BY <1>1, <1>2, <2>2, RingKept, ReceiverKept, FilledKept DEF IInv, QueueOK
    <3>. QED
      BY <2>1, <3>1 DEF QueueOK
  <2>3. CASE q = p
    <3>1. RingFits(p)'
      BY <1>1, <1>2 DEF IInv, QueueOK, RingFits
    <3>2. ReceiverAt(p)'
      BY <1>1, <1>2, RouteFixed DEF IInv, QueueOK, ReceiverAt
    <3>3. RowsFilled(p)'
      BY <1>1, <1>2, RouteFixed DEF IInv, QueueOK, RowsFilled, CopiedOut
    <3>. QED
      BY <2>1, <2>3, <3>1, <3>2, <3>3 DEF QueueOK
  <2>. QED
    BY <2>2, <2>3
<1>5. RowsCorrect'
  BY <1>1, RouteFixed DEF IInv, RowsCorrect
<1>. QED
  BY <1>3, <1>4, <1>5 DEF IInv

LEMMA ReadEndOK ==
  ASSUME IInv, NEW p \in Queues, ReadEndOffset(p)
  PROVE  IInv'
<1>. USE DEF senderVars
<1>1. /\ rPc[p] = "end" /\ endOff[p] # 0
      /\ recvChanOff' = [recvChanOff EXCEPT ![p] = rOff[p]]
      /\ rLeft' = [rLeft EXCEPT ![p] = (-endOff[p] - 1) - rOff[p]]
      /\ rOff'  = [rOff EXCEPT ![p] = @ + RankOffset(Src(p), Dst(p))]
      /\ rPc'   = [rPc EXCEPT ![p] = IF rLeft'[p] > 0 THEN "wait" ELSE "done"]
      /\ UNCHANGED <<route, trapped, senderVars, head, rHead, rTail, rPend, recvX>>
  BY DEF ReadEndOffset
<1>2. ChannelBase(p) \in Nat /\ Total(p) \in Nat /\ RankOffset(Src(p), Dst(p)) \in Nat
  BY ChannelCounts, FirstRowIsNat
<1>3. endOff[p] = -(ChannelBase(p) + Total(p)) - 1 /\ rOff[p] = ChannelBase(p) /\ rHead[p] = 0
  BY <1>1 DEF IInv, QueueOK, SenderAt, ReceiverAt, Encoded
<1>4. /\ recvChanOff'[p] = ChannelBase(p) /\ rOff'[p] = FirstRow(p) /\ rLeft'[p] = Total(p)
      /\ rPc'[p] = IF Total(p) > 0 THEN "wait" ELSE "done"
  <2>1. recvChanOff'[p] = ChannelBase(p)
    BY <1>1, <1>3 DEF IInv, Typed
  <2>2. rLeft'[p] = Total(p)
    BY <1>1, <1>2, <1>3, SMTT(30), ZenonT(30) DEF IInv, Typed
  <2>3. rOff'[p] = FirstRow(p)
    BY <1>1, <1>2, <1>3 DEF IInv, Typed, FirstRow
  <2>4. rPc'[p] = IF rLeft'[p] > 0 THEN "wait" ELSE "done"
    BY <1>1 DEF IInv, Typed
  <2>. QED
    BY <2>1, <2>2, <2>3, <2>4
<1>5. \A q \in Queues : q # p => /\ rOff'[q] = rOff[q] /\ rPc'[q] = rPc[q]
                                 /\ rLeft'[q] = rLeft[q] /\ recvChanOff'[q] = recvChanOff[q]
  BY <1>1 DEF IInv, Typed
<1>6. Typed'
  <2>1. rOff[p] \in Int /\ (-endOff[p] - 1) - rOff[p] \in Int
    BY DEF IInv, Typed
  <2>2. rOff[p] + RankOffset(Src(p), Dst(p)) \in Int
    BY <1>2, <2>1
  <2>. QED
    BY <1>1, <2>1, <2>2 DEF IInv, Typed
<1>7. ASSUME NEW q \in Queues PROVE QueueOK(q)'
  <2>1. SenderAt(q)' /\ PendingBehindTail(q)' /\ SlotsHold(q)' /\ PlacesRecorded(q)'
    BY <1>1, SenderKept, SlotsKept, RecordedKept DEF IInv, QueueOK
  <2>2. CASE q # p
    <3>1. RingFits(q)' /\ ReceiverAt(q)' /\ RowsFilled(q)'
      BY <1>1, <1>5, <2>2, RingKept, ReceiverKept, FilledKept DEF IInv, QueueOK
    <3>. QED
      BY <2>1, <3>1 DEF QueueOK
  <2>3. CASE q = p
    <3>1. RingFits(p)'
      BY <1>1, <1>4 DEF IInv, QueueOK, RingFits
    <3>2. ReceiverAt(p)'
      <4>1. Total(p) > 0 \/ Total(p) = 0
        BY <1>2
      <4>2. FirstRow(p) = FirstRow(p) + 0 /\ Total(p) = Total(p) - 0
        BY <1>2, FirstRowIsNat
      <4>. QED
        BY <1>1, <1>3, <1>4, <4>1, <4>2, RouteFixed DEF ReceiverAt
    <3>3. RowsFilled(p)'
      BY <1>1, <1>4, RouteFixed DEF IInv, QueueOK, RowsFilled, CopiedOut
    <3>. QED
      BY <2>1, <2>3, <3>1, <3>2, <3>3 DEF QueueOK
  <2>. QED
    BY <2>2, <2>3
<1>8. RowsCorrect'
  BY <1>1, RouteFixed DEF IInv, RowsCorrect
<1>. QED
  BY <1>6, <1>7, <1>8 DEF IInv

LEMMA ReadTailOK ==
  ASSUME IInv, NEW p \in Queues, ReadTail(p)
  PROVE  IInv'
<1>. USE DEF senderVars
<1>1. /\ rPc[p] = "wait" /\ tail[p] # rHead[p]
      /\ rTail' = [rTail EXCEPT ![p] = tail[p]]
      /\ rPend' = [rPend EXCEPT ![p] = rHead[p] .. tail[p] - 1]
      /\ rPc'   = [rPc EXCEPT ![p] = "copy"]
      /\ UNCHANGED <<route, trapped, senderVars, head, rOff, rLeft, rHead, recvX, recvChanOff>>
  BY DEF ReadTail
<1>2. /\ rTail'[p] = tail[p] /\ rPend'[p] = rHead[p] .. tail[p] - 1 /\ rPc'[p] = "copy"
      /\ \A q \in Queues : q # p =>
           rTail'[q] = rTail[q] /\ rPend'[q] = rPend[q] /\ rPc'[q] = rPc[q]
  BY <1>1 DEF IInv, Typed
<1>3. tail[p] \in Nat /\ rHead[p] \in Nat /\ rHead[p] < tail[p]
  <2>1. tail[p] \in Nat /\ rHead[p] \in Nat /\ head[p] = rHead[p] /\ head[p] <= tail[p]
    BY DEF IInv, Typed, QueueOK, RingFits
  <2>. QED
    BY <1>1, <2>1
<1>4. Typed'
  <2>1. rHead[p] .. tail[p] - 1 \in SUBSET Nat
    BY <1>3
  <2>. QED
    BY <1>1, <2>1 DEF IInv, Typed
<1>5. ASSUME NEW q \in Queues PROVE QueueOK(q)'
  <2>1. SenderAt(q)' /\ PendingBehindTail(q)' /\ SlotsHold(q)' /\ PlacesRecorded(q)'
    BY <1>1, SenderKept, SlotsKept, RecordedKept DEF IInv, QueueOK
  <2>2. CASE q # p
    <3>1. RingFits(q)' /\ ReceiverAt(q)' /\ RowsFilled(q)'
      BY <1>1, <1>2, <2>2, RingKept, ReceiverKept, FilledKept DEF IInv, QueueOK
    <3>. QED
      BY <2>1, <3>1 DEF QueueOK
  <2>3. CASE q = p
    <3>1. RingFits(p)'
      BY <1>1, <1>2, <1>3 DEF IInv, QueueOK, RingFits
    <3>2. ReceiverAt(p)'
      BY <1>1, <1>2, RouteFixed DEF IInv, QueueOK, ReceiverAt
    <3>3. RowsFilled(p)'
      <4>1. ASSUME NEW t \in Carried(p), Place(p, t) < tail[p],
                   Place(p, t) \notin rHead[p] .. tail[p] - 1
            PROVE  Place(p, t) < rHead[p]
        BY <1>3, <4>1, CarriedPlaces
      <4>2. ASSUME NEW t \in Carried(p), CopiedOut(p, Place(p, t))'
            PROVE  CopiedOut(p, Place(p, t))
        <5>1. Place(p, t)' = Place(p, t)
          BY <1>1, RouteFixed
        <5>2. Place(p, t) < rHead[p] \/ (Place(p, t) < tail[p] /\ Place(p, t) \notin rPend'[p])
          BY <1>1, <1>2, <4>2, <5>1 DEF CopiedOut
        <5>. QED
          BY <1>2, <4>1, <5>2 DEF CopiedOut
      <4>3. RowsFilled(p)
        BY DEF IInv, QueueOK
      <4>. QED
        BY <1>1, <4>2, <4>3, RouteFixed DEF RowsFilled
    <3>. QED
      BY <2>1, <2>3, <3>1, <3>2, <3>3 DEF QueueOK
  <2>. QED
    BY <2>2, <2>3
<1>6. RowsCorrect'
  BY <1>1, RouteFixed DEF IInv, RowsCorrect
<1>. QED
  BY <1>4, <1>5, <1>6 DEF IInv

\* What a warp of the receiver finds in the slot it copies, and where it goes.
LEMMA CopiedRow ==
  ASSUME IInv, NEW p \in Queues, NEW i \in rPend[p]
  PROVE  /\ rPc[p] = "copy" /\ i \in Nat
         /\ \E t \in Carried(p) :
              /\ Place(p, t) = i /\ slot[p][i % BufTokens] = <<Src(p), t>>
              /\ rOff[p] + (i - rHead[p]) = RowOf(Dst(p), <<Src(p), t>>)
              /\ <<Src(p), t>> \in Arrivals(Dst(p))
              /\ RowOf(Dst(p), <<Src(p), t>>) \in 0 .. MaxRows - 1
<1>1. rPc[p] = "copy" /\ i \in rHead[p] .. rTail[p] - 1
  BY DEF IInv, QueueOK, RingFits
<1>2. /\ rHead[p] \in Nat /\ rTail[p] \in Nat /\ tail[p] \in Nat /\ sTail[p] \in Nat
      /\ head[p] = rHead[p] /\ rTail[p] <= tail[p] /\ tail[p] <= sTail[p]
  BY DEF IInv, Typed, QueueOK, RingFits
<1>3. i \in Nat /\ rHead[p] <= i /\ i < tail[p] /\ i < sTail[p]
  BY <1>1, <1>2
<1>4. PICK t \in Carried(p) : t < sTok[p] /\ Place(p, t) = i
  BY <1>3, SenderFacts, PlacesFilled
<1>5. /\ t \in Nat /\ First(p) <= t /\ t < Last(p) /\ t \in Tokens /\ Routed(p, t)
      /\ First(p) \in Nat /\ Last(p) \in Nat
  BY CarriedPlaces, QueueRange
<1>6. slot[p][i % BufTokens] = <<Src(p), t>>
  <2>1. \/ <<i % BufTokens, t>> \in sPend[p]
        \/ slot[p][i % BufTokens] = <<Src(p), t>>
    BY <1>2, <1>3, <1>4 DEF IInv, QueueOK, SlotsHold
  <2>2. CASE <<i % BufTokens, t>> \in sPend[p]
    <3>1. PICK u \in Carried(p) : tail[p] <= Place(p, u)
                                  /\ <<i % BufTokens, t>> = <<Place(p, u) % BufTokens, u>>
      BY <2>2 DEF IInv, QueueOK, PendingBehindTail
    <3>2. tail[p] <= i
      BY <1>4, <3>1
    <3>. QED
      BY <1>2, <1>3, <3>2
  <2>. QED
    BY <2>1, <2>2
<1>7. rOff[p] + (i - rHead[p]) = RowOf(Dst(p), <<Src(p), t>>)
  <2>1. rOff[p] = FirstRow(p) + rHead[p] /\ FirstRow(p) \in Nat
    BY <1>1, FirstRowIsNat DEF IInv, QueueOK, ReceiverAt
  <2>2. t \in First(p) .. Last(p)
    BY <1>5
  <2>3. RowOf(Dst(p), <<Src(p), t>>) = FirstRow(p) + i
    BY <1>4, <2>2, RowOfPlace
  <2>. QED
    BY <1>2, <1>3, <2>1, <2>3
<1>8. <<Src(p), t>> \in Arrivals(Dst(p))
  BY <1>5, QueueParts DEF Arrivals, Routed
<1>9. RowOf(Dst(p), <<Src(p), t>>) \in 0 .. MaxRows - 1
  BY <1>8, RowFits
<1>. QED
  BY <1>1, <1>3, <1>4, <1>6, <1>7, <1>8, <1>9

LEMMA CopyRowOK ==
  ASSUME IInv, NEW p \in Queues, CopyRow(p)
  PROVE  IInv'
<1>. USE DEF senderVars
<1>1. PICK i \in rPend[p] :
        /\ recvX' = [recvX EXCEPT ![Dst(p)][rOff[p] + (i - rHead[p])] = slot[p][i % BufTokens]]
        /\ rPend' = [rPend EXCEPT ![p] = @ \ {i}]
  BY DEF CopyRow
<1>2. UNCHANGED <<route, trapped, senderVars, head, rPc, rOff, rLeft, rHead, rTail, recvChanOff>>
  BY DEF CopyRow
<1>3. PICK t \in Carried(p) :
        /\ Place(p, t) = i /\ slot[p][i % BufTokens] = <<Src(p), t>>
        /\ rOff[p] + (i - rHead[p]) = RowOf(Dst(p), <<Src(p), t>>)
        /\ <<Src(p), t>> \in Arrivals(Dst(p))
        /\ RowOf(Dst(p), <<Src(p), t>>) \in 0 .. MaxRows - 1
  BY CopiedRow
<1>. DEFINE o == <<Src(p), t>>
            row == RowOf(Dst(p), o)
<1>4. rPc[p] = "copy" /\ i \in Nat
  BY CopiedRow
<1>5. /\ recvX'[Dst(p)][row] = o
      /\ \A d \in Dests, k \in 0 .. MaxRows - 1 :
           d # Dst(p) \/ k # row => recvX'[d][k] = recvX[d][k]
      /\ rPend'[p] = rPend[p] \ {i}
      /\ \A q \in Queues : q # p => rPend'[q] = rPend[q]
  <2>1. recvX' = [recvX EXCEPT ![Dst(p)][row] = o]
    BY <1>1, <1>3
  <2>2. recvX \in [Dests -> [0 .. MaxRows - 1 -> (Ranks \X Tokens) \cup {None, Unused}]]
    BY DEF IInv, Typed
  <2>3. rPend'[p] = rPend[p] \ {i} /\ \A q \in Queues : q # p => rPend'[q] = rPend[q]
    BY <1>1 DEF IInv, Typed
  <2>4. Dst(p) \in Dests /\ row \in 0 .. MaxRows - 1
    BY <1>3, QueueParts
  <2>. HIDE DEF o, row
  <2>. QED
    BY <2>1, <2>2, <2>3, <2>4
<1>6. \A d \in Dests : \A a \in Arrivals(d) :
        recvX[d][RowOf(d, a)] = a => recvX'[d][RowOf(d, a)] = a
  <2>. SUFFICES ASSUME NEW d \in Dests, NEW a \in Arrivals(d), recvX[d][RowOf(d, a)] = a
                PROVE  recvX'[d][RowOf(d, a)] = a
    OBVIOUS
  <2>1. CASE d = Dst(p) /\ RowOf(d, a) = row
    <3>1. a = o
      BY <1>3, <2>1, RowsDiffer
    <3>. QED
      BY <1>5, <2>1, <3>1
  <2>2. CASE d # Dst(p) \/ RowOf(d, a) # row
    <3>1. RowOf(d, a) \in 0 .. MaxRows - 1
      BY RowFits
    <3>. QED
      BY <1>5, <2>2, <3>1
  <2>. QED
    BY <2>1, <2>2
<1>7. Typed'
  <2>1. o \in Ranks \X Tokens /\ row \in 0 .. MaxRows - 1 /\ Dst(p) \in Dests
    BY <1>3, QueueParts DEF Arrivals
  <2>2. recvX' = [recvX EXCEPT ![Dst(p)][row] = o]
    BY <1>1, <1>3
  <2>3. recvX' \in [Dests -> [0 .. MaxRows - 1 -> (Ranks \X Tokens) \cup {None, Unused}]]
    <3>1. recvX \in [Dests -> [0 .. MaxRows - 1 -> (Ranks \X Tokens) \cup {None, Unused}]]
      BY DEF IInv, Typed
    <3>. HIDE DEF o, row
    <3>. QED
      BY <2>1, <2>2, <3>1
  <2>. QED
    BY <1>1, <1>2, <2>3 DEF IInv, Typed
<1>8. ASSUME NEW q \in Queues PROVE QueueOK(q)'
  <2>1. SenderAt(q)' /\ PendingBehindTail(q)' /\ SlotsHold(q)' /\ PlacesRecorded(q)'
    BY <1>2, SenderKept, SlotsKept, RecordedKept DEF IInv, QueueOK
  <2>2. ReceiverAt(q)'
    BY <1>2, ReceiverKept DEF IInv, QueueOK
  <2>3. \A u \in Carried(q) :
          recvX[Dst(q)][RowOf(Dst(q), <<Src(q), u>>)] = <<Src(q), u>>
            => recvX'[Dst(q)][RowOf(Dst(q), <<Src(q), u>>)] = <<Src(q), u>>
    <3>1. \A u \in Carried(q) : <<Src(q), u>> \in Arrivals(Dst(q)) /\ Dst(q) \in Dests
      BY QueueParts, CarriedPlaces DEF Arrivals, Routed
    <3>. QED
      BY <1>6, <3>1
  <2>4. CASE q # p
    <3>1. RingFits(q)' /\ RowsFilled(q)'
      BY <1>2, <1>5, <2>3, <2>4, RingKept, FilledKept DEF IInv, QueueOK
    <3>. QED
      BY <2>1, <2>2, <3>1 DEF QueueOK
  <2>5. CASE q = p
    <3>1. RingFits(p)'
      BY <1>2, <1>4, <1>5 DEF IInv, QueueOK, RingFits
    <3>2. ASSUME NEW u \in Carried(p), CopiedOut(p, Place(p, u))'
          PROVE  recvX'[Dst(p)][RowOf(Dst(p), <<Src(p), u>>)] = <<Src(p), u>>
      <4>1. CopiedOut(p, Place(p, u)) \/ Place(p, u) = i
        <5>1. Place(p, u)' = Place(p, u)
          BY <1>2, RouteFixed
        <5>. QED
          BY <1>2, <1>5, <3>2, <5>1 DEF CopiedOut
      <4>2. CASE CopiedOut(p, Place(p, u))
        BY <2>3, <2>5, <4>2 DEF IInv, QueueOK, RowsFilled
      <4>3. CASE Place(p, u) = i
        <5>1. u = t
          BY <1>3, <4>3, CarriedPlaces
        <5>. QED
          BY <1>5, <5>1
      <4>. QED
        BY <4>1, <4>2, <4>3
    <3>3. RowsFilled(p)'
      BY <1>2, <3>2, RouteFixed DEF RowsFilled
    <3>. QED
      BY <2>1, <2>2, <2>5, <3>1, <3>3 DEF QueueOK
  <2>. QED
    BY <2>4, <2>5
<1>9. RowsCorrect'
  <2>1. ASSUME NEW d \in Dests, NEW k \in 0 .. MaxRows - 1
        PROVE  \/ recvX'[d][k] = None
               \/ recvX'[d][k] = Unused /\ k >= NumRecv(d) /\ k < NumWorst
               \/ recvX'[d][k] \in Arrivals(d) /\ RowOf(d, recvX'[d][k]) = k
    <3>1. CASE d = Dst(p) /\ k = row
      BY <1>3, <1>5, <3>1
    <3>2. CASE d # Dst(p) \/ k # row
      <4>1. recvX'[d][k] = recvX[d][k]
        BY <1>5, <3>2
      <4>2. DOMAIN recvX[d] = 0 .. MaxRows - 1
        BY DEF IInv, Typed
      <4>. QED
        BY <4>1, <4>2 DEF IInv, RowsCorrect
    <3>. QED
      BY <3>1, <3>2
  <2>2. \A d \in Dests : DOMAIN recvX'[d] = 0 .. MaxRows - 1
    BY <1>7 DEF Typed
  <2>. QED
    BY <1>2, <2>1, <2>2, RouteFixed, SMTT(30), ZenonT(30) DEF RowsCorrect
<1>. QED
  BY <1>7, <1>8, <1>9 DEF IInv

LEMMA PublishHeadOK ==
  ASSUME IInv, NEW p \in Queues, PublishHead(p)
  PROVE  IInv'
<1>. USE DEF senderVars
<1>. DEFINE n == rTail[p] - rHead[p]
<1>1. /\ rPc[p] = "copy" /\ rPend[p] = {}
      /\ rHead' = [rHead EXCEPT ![p] = @ + n]
      /\ head'  = [head EXCEPT ![p] = rHead'[p]]
      /\ rOff'  = [rOff EXCEPT ![p] = @ + n]
      /\ rLeft' = [rLeft EXCEPT ![p] = @ - n]
      /\ rPc'   = [rPc EXCEPT ![p] = IF rLeft'[p] > 0 THEN "wait" ELSE "done"]
      /\ UNCHANGED <<route, trapped, senderVars, rTail, rPend, recvX, recvChanOff>>
  BY DEF PublishHead, AllCopiedOut
<1>2. /\ rHead[p] \in Nat /\ rTail[p] \in Nat /\ tail[p] \in Nat /\ sTail[p] \in Nat
      /\ head[p] = rHead[p] /\ rHead[p] < rTail[p] /\ rTail[p] <= tail[p]
      /\ tail[p] <= sTail[p] /\ sTail[p] <= head[p] + BufTokens /\ BufTokens \in Nat
  BY <1>1, DispatchAssumption DEF IInv, Typed, QueueOK, RingFits
<1>3. /\ rOff[p] = FirstRow(p) + rHead[p] /\ rLeft[p] = Total(p) - rHead[p]
      /\ recvChanOff[p] = ChannelBase(p) /\ FirstRow(p) \in Nat
      /\ Total(p) \in Nat /\ sTail[p] <= Total(p)
  BY <1>1, FirstRowIsNat, SenderFacts DEF IInv, QueueOK, ReceiverAt
<1>4. /\ rHead'[p] = rTail[p] /\ head'[p] = rTail[p]
      /\ rOff'[p] = FirstRow(p) + rTail[p] /\ rLeft'[p] = Total(p) - rTail[p]
      /\ rPc'[p] = IF rLeft'[p] > 0 THEN "wait" ELSE "done"
  <2>1. rHead'[p] = rTail[p]
    BY <1>1, <1>2 DEF IInv, Typed
  <2>2. head'[p] = rHead'[p] /\ rPc'[p] = IF rLeft'[p] > 0 THEN "wait" ELSE "done"
    BY <1>1 DEF IInv, Typed
  <2>3. rOff'[p] = FirstRow(p) + rTail[p]
    BY <1>1, <1>2, <1>3 DEF IInv, Typed
  <2>4. rLeft'[p] = Total(p) - rTail[p]
    BY <1>1, <1>2, <1>3 DEF IInv, Typed
  <2>. QED
    BY <2>1, <2>2, <2>3, <2>4
<1>5. \A q \in Queues : q # p => /\ rHead'[q] = rHead[q] /\ head'[q] = head[q]
                                 /\ rOff'[q] = rOff[q] /\ rPc'[q] = rPc[q] /\ rLeft'[q] = rLeft[q]
  BY <1>1 DEF IInv, Typed
<1>6. Typed'
  <2>1. rHead[p] + n \in Nat /\ rOff[p] + n \in Int /\ rLeft[p] - n \in Int
    BY <1>2 DEF IInv, Typed
  <2>2. rHead' \in [Queues -> Nat] /\ rOff' \in [Queues -> Int] /\ rLeft' \in [Queues -> Int]
    BY <1>1, <2>1 DEF IInv, Typed
  <2>3. head' \in [Queues -> Nat]
    BY <1>1, <1>2, <1>4 DEF IInv, Typed
  <2>4. rPc' \in [Queues -> {"start", "end", "wait", "copy", "done"}]
    BY <1>1 DEF IInv, Typed
  <2>. QED
    BY <1>1, <2>2, <2>3, <2>4 DEF IInv, Typed
<1>7. ASSUME NEW q \in Queues PROVE QueueOK(q)'
  <2>1. SenderAt(q)' /\ PlacesRecorded(q)'
    BY <1>1, SenderKept, RecordedKept DEF IInv, QueueOK
  <2>2. CASE q # p
    <3>1. PendingBehindTail(q)' /\ SlotsHold(q)'
      BY <1>1, <1>5, <2>2, SlotsKept DEF IInv, QueueOK
    <3>2. RingFits(q)' /\ ReceiverAt(q)' /\ RowsFilled(q)'
      BY <1>1, <1>5, <2>2, RingKept, ReceiverKept, FilledKept DEF IInv, QueueOK
    <3>. QED
      BY <2>1, <3>1, <3>2 DEF QueueOK
  <2>3. CASE q = p
    <3>1. RingFits(p)'
      <4>1. rPc'[p] # "copy"
        BY <1>4
      <4>. QED
        BY <1>1, <1>2, <1>4, <4>1 DEF RingFits
    <3>2. ReceiverAt(p)'
      <4>1. rLeft'[p] > 0 \/ rLeft'[p] = 0
        BY <1>2, <1>3, <1>4
      <4>2. rPc'[p] \in {"wait", "done"} /\ (rPc'[p] = "done" => rLeft'[p] = 0)
        BY <1>4, <4>1
      <4>. QED
        BY <1>1, <1>3, <1>4, <4>2, RouteFixed DEF ReceiverAt
    <3>3. PendingBehindTail(p)'
      BY <1>1, RouteFixed DEF IInv, QueueOK, PendingBehindTail
    <3>4. SlotsHold(p)'
      <4>1. \A t \in Carried(p) : head'[p] <= Place(p, t) => head[p] <= Place(p, t)
        BY <1>2, <1>4, CarriedPlaces
      <4>2. SlotsHold(p)
        BY DEF IInv, QueueOK
      <4>. QED
        BY <1>1, <4>1, <4>2, RouteFixed DEF SlotsHold
    <3>5. RowsFilled(p)'
      <4>1. ASSUME NEW t \in Carried(p), CopiedOut(p, Place(p, t))'
            PROVE  CopiedOut(p, Place(p, t))
        <5>1. Place(p, t)' = Place(p, t)
          BY <1>1, RouteFixed
        <5>2. Place(p, t) < rTail[p]
          BY <1>4, <4>1, <5>1 DEF CopiedOut
        <5>. QED
          BY <1>1, <5>2 DEF CopiedOut
      <4>2. RowsFilled(p)
        BY DEF IInv, QueueOK
      <4>. QED
        BY <1>1, <4>1, <4>2, RouteFixed DEF RowsFilled
    <3>. QED
      BY <2>1, <2>3, <3>1, <3>2, <3>3, <3>4, <3>5 DEF QueueOK
  <2>. QED
    BY <2>2, <2>3
<1>8. RowsCorrect'
  BY <1>1, RouteFixed DEF IInv, RowsCorrect
<1>. QED
  BY <1>6, <1>7, <1>8 DEF IInv

LEMMA CleanRowOK ==
  ASSUME IInv, NEW c \in Dests, CleanRow(c)
  PROVE  IInv'
<1>. USE DEF senderVars
<1>1. PICK i \in NumRecv(c) .. NumWorst - 1 : recvX' = [recvX EXCEPT ![c][i] = Unused]
  BY DEF CleanRow
<1>2. UNCHANGED <<route, trapped, senderVars, head, rPc, rOff, rLeft, rHead, rTail, rPend,
                  recvChanOff>>
  BY DEF CleanRow
<1>3. /\ i \in Nat /\ i >= NumRecv(c) /\ i < NumWorst /\ i \in 0 .. MaxRows - 1
      /\ NumRecv(c) \in Nat
  <2>1. NumRecv(c) \in Nat /\ NumWorst \in Nat /\ MaxRows \in Nat /\ NumWorst <= MaxRows
    BY ArrivalsCounted, DispatchAssumption
  <2>. QED
    BY <2>1
<1>4. /\ recvX'[c][i] = Unused
      /\ \A d \in Dests, k \in 0 .. MaxRows - 1 :
           d # c \/ k # i => recvX'[d][k] = recvX[d][k]
      /\ recvX' \in [Dests -> [0 .. MaxRows - 1 -> (Ranks \X Tokens) \cup {None, Unused}]]
  <2>1. recvX \in [Dests -> [0 .. MaxRows - 1 -> (Ranks \X Tokens) \cup {None, Unused}]]
    BY DEF IInv, Typed
  <2>. QED
    BY <1>1, <1>3, <2>1
<1>5. Typed'
  BY <1>2, <1>4 DEF IInv, Typed
<1>6. ASSUME NEW q \in Queues PROVE QueueOK(q)'
  <2>1. SenderAt(q)' /\ PendingBehindTail(q)' /\ SlotsHold(q)' /\ PlacesRecorded(q)'
    BY <1>2, SenderKept, SlotsKept, RecordedKept DEF IInv, QueueOK
  <2>2. RingFits(q)' /\ ReceiverAt(q)'
    BY <1>2, RingKept, ReceiverKept DEF IInv, QueueOK
  <2>3. \A u \in Carried(q) : recvX'[Dst(q)][RowOf(Dst(q), <<Src(q), u>>)]
                                = recvX[Dst(q)][RowOf(Dst(q), <<Src(q), u>>)]
    <3>. TAKE u \in Carried(q)
    <3>1. <<Src(q), u>> \in Arrivals(Dst(q)) /\ Dst(q) \in Dests
      BY QueueParts, CarriedPlaces DEF Arrivals, Routed
    <3>. DEFINE r == RowOf(Dst(q), <<Src(q), u>>)
    <3>2. r \in 0 .. MaxRows - 1 /\ r < NumRecv(Dst(q)) /\ r \in Nat
      BY <3>1, RowFits, RowRange
    <3>3. Dst(q) # c \/ r # i
      BY <1>3, <3>2
    <3>. QED
      BY <1>4, <3>1, <3>2, <3>3
  <2>4. RowsFilled(q)'
    BY <1>2, <2>3, FilledKept DEF IInv, QueueOK
  <2>. QED
    BY <2>1, <2>2, <2>4 DEF QueueOK
<1>7. RowsCorrect'
  <2>1. ASSUME NEW d \in Dests, NEW k \in 0 .. MaxRows - 1
        PROVE  \/ recvX'[d][k] = None
               \/ recvX'[d][k] = Unused /\ k >= NumRecv(d) /\ k < NumWorst
               \/ recvX'[d][k] \in Arrivals(d) /\ RowOf(d, recvX'[d][k]) = k
    <3>1. CASE d = c /\ k = i
      BY <1>3, <1>4, <3>1
    <3>2. CASE d # c \/ k # i
      <4>1. recvX'[d][k] = recvX[d][k]
        BY <1>4, <3>2
      <4>2. DOMAIN recvX[d] = 0 .. MaxRows - 1
        BY DEF IInv, Typed
      <4>. QED
        BY <4>1, <4>2 DEF IInv, RowsCorrect
    <3>. QED
      BY <3>1, <3>2
  <2>2. \A d \in Dests : DOMAIN recvX'[d] = 0 .. MaxRows - 1
    BY <1>5 DEF Typed
  <2>3. ASSUME NEW d \in Dests, NEW k \in 0 .. MaxRows - 1
        PROVE  \/ recvX'[d][k] = None
               \/ recvX'[d][k] = Unused /\ k >= NumRecv(d)' /\ k < NumWorst
               \/ recvX'[d][k] \in Arrivals(d)' /\ RowOf(d, recvX[d][k])' = k
    <3>1. Arrivals(d)' = Arrivals(d) /\ NumRecv(d)' = NumRecv(d)
      BY <1>2, RouteFixed
    <3>2. RowOf(d, recvX[d][k])' = RowOf(d, recvX'[d][k])
      BY <1>2, RouteFixed DEF RowOf
    <3>. QED
      BY <2>1, <3>1, <3>2
  <2>. QED
    BY <2>2, <2>3 DEF RowsCorrect
<1>. QED
  BY <1>5, <1>6, <1>7 DEF IInv

LEMMA NoChangeOK ==
  ASSUME IInv, UNCHANGED <<route, senderVars, receiverVars>>, trapped' \subseteq Ranks
  PROVE  IInv'
<1>. USE DEF senderVars, receiverVars
<1>1. Typed'
  BY DEF IInv, Typed
<1>2. ASSUME NEW q \in Queues PROVE QueueOK(q)'
  <2>1. SenderAt(q)' /\ RingFits(q)' /\ PendingBehindTail(q)' /\ SlotsHold(q)'
    BY SenderKept, RingKept, SlotsKept DEF IInv, QueueOK
  <2>2. PlacesRecorded(q)' /\ ReceiverAt(q)' /\ RowsFilled(q)'
    BY RecordedKept, ReceiverKept, FilledKept DEF IInv, QueueOK
  <2>. QED
    BY <2>1, <2>2 DEF QueueOK
<1>3. RowsCorrect'
  <2>1. route' = route /\ recvX' = recvX /\ RowsCorrect
    BY DEF IInv
  <2>. QED
    BY <2>1, RouteFixed DEF RowsCorrect
<1>. QED
  BY <1>1, <1>2, <1>3 DEF IInv

LEMMA TrapOK ==
  ASSUME IInv, NEW p \in Queues, TimeoutTrap(p)
  PROVE  IInv'
<1>1. UNCHANGED <<route, senderVars, receiverVars>>
  BY DEF TimeoutTrap
<1>2. Src(p) \in Ranks /\ Dst(p) \in Ranks /\ trapped \subseteq Ranks
  BY QueueParts DEF IInv, Typed
<1>3. trapped' \subseteq Ranks
  BY <1>2 DEF TimeoutTrap
<1>. QED
  BY <1>1, <1>3, NoChangeOK

-----------------------------------------------------------------------------
(* The theorems.                                                           *)

LEMMA StepOK == IInv /\ [Next]_vars => IInv'
<1>. SUFFICES ASSUME IInv, [Next]_vars PROVE IInv'
  OBVIOUS
<1>1. ASSUME NEW q \in Queues, SenderStep(q) PROVE IInv'
  BY <1>1, StartOffsetOK, EndOffsetOK, TakeChunkOK, FillSlotOK, PublishTailOK DEF SenderStep
<1>2. ASSUME NEW q \in Queues, ReceiverStep(q) PROVE IInv'
  BY <1>2, ReadStartOK, ReadEndOK, ReadTailOK, CopyRowOK, PublishHeadOK DEF ReceiverStep
<1>3. ASSUME NEW q \in Queues, TimeoutTrap(q) PROVE IInv'
  BY <1>3, TrapOK
<1>4. ASSUME NEW d \in Dests, CleanRow(d) PROVE IInv'
  BY <1>4, CleanRowOK
<1>5. CASE UNCHANGED vars
  <2>1. trapped' \subseteq Ranks
    BY <1>5 DEF IInv, Typed, vars
  <2>. QED
    BY <1>5, <2>1, NoChangeOK DEF vars
<1>. QED
  BY <1>1, <1>2, <1>3, <1>4, <1>5 DEF Next

(***************************************************************************)
(* The invariant of the kernel: however the warps of the ranks interleave  *)
(* and whichever ranks trap, the two sides of every queue agree on places. *)
(***************************************************************************)
THEOREM Invariance == Spec => []IInv
<1>1. Init => IInv
  BY InitOK
<1>2. IInv /\ [Next]_vars => IInv'
  BY StepOK
<1>. QED
  BY <1>1, <1>2, PTL DEF Spec

(***************************************************************************)
(* A row a receiver has written holds the token that belongs there, or is  *)
(* one past the last token and marked unused (intranode.cu, dispatch).     *)
(***************************************************************************)
THEOREM RowsAreCorrect == Spec => []RowsCorrect
<1>1. IInv => RowsCorrect
  BY DEF IInv
<1>. QED
  BY <1>1, Invariance, PTL

(***************************************************************************)
(* A sender never has a copy outstanding into a slot between the published *)
(* head and tail: the room it checked for, for one head and the largest    *)
(* chunk, is enough for every chunk it sends.                              *)
(***************************************************************************)
THEOREM LiveSlotsKept == Spec => []NoLiveSlotRewritten
<1>1. ASSUME IInv, NEW q \in Queues, NEW x \in sPend[q], NEW i \in head[q] .. tail[q] - 1
      PROVE  i % BufTokens # x[1]
  <2>1. PICK t \in Carried(q) : /\ t < sTok[q] /\ tail[q] <= Place(q, t)
                                /\ x = <<Place(q, t) % BufTokens, t>>
    BY <1>1 DEF IInv, QueueOK, PendingBehindTail
  <2>2. /\ head[q] \in Nat /\ tail[q] \in Nat /\ sTail[q] \in Nat /\ BufTokens \in Nat
        /\ sTail[q] <= head[q] + BufTokens
    BY <1>1, DispatchAssumption DEF IInv, Typed, QueueOK, RingFits
  <2>3. Place(q, t) \in Nat /\ Place(q, t) < sTail[q]
    BY <1>1, <2>1, CarriedPlaces, SenderFacts, PlacesDiffer
  <2>4. i \in Nat /\ i < Place(q, t) /\ Place(q, t) < i + BufTokens
    BY <2>1, <2>2, <2>3
  <2>. QED
    BY <2>1, <2>3, <2>4, SlotsDiffer
<1>2. IInv => NoLiveSlotRewritten
  BY <1>1 DEF NoLiveSlotRewritten
<1>. QED
  BY <1>2, Invariance, PTL

(***************************************************************************)
(* Once a queue is drained, send_head plus the offsets the receiver keeps  *)
(* is the row the token landed in, for every token the sender selected.    *)
(***************************************************************************)
THEOREM HandleIsConsistent == Spec => []HandleConsistent
<1>1. ASSUME IInv, NEW q \in Queues, sPc[q] = "done", rPc[q] = "done",
             NEW t \in First(q) .. Last(q) - 1
      PROVE  LET h == sendHead[Src(q)][t][Dst(q)]
             IN  IF Routed(q, t)
                 THEN recvX[Dst(q)][RankOffset(Src(q), Dst(q)) + recvChanOff[q] + h] = <<Src(q), t>>
                 ELSE h = -1
  <2>1. /\ First(q) \in Nat /\ Last(q) \in Nat /\ t \in Nat /\ t \in First(q) .. Last(q)
        /\ RankOffset(Src(q), Dst(q)) \in Nat /\ ChannelBase(q) \in Nat /\ Total(q) \in Nat
        /\ rHead[q] \in Nat
    BY <1>1, QueueRange, FirstRowIsNat, ChannelCounts, SMTT(30), ZenonT(30) DEF IInv, Typed
  <2>2. sTok[q] = Last(q)
    BY <1>1 DEF IInv, QueueOK, SenderAt
  <2>3. sendHead[Src(q)][t][Dst(q)] = IF Routed(q, t) THEN Place(q, t) ELSE -1
    BY <1>1, <2>2 DEF IInv, QueueOK, PlacesRecorded
  <2>4. CASE Routed(q, t)
    <3>1. t \in Carried(q)
      BY <2>1, <2>4 DEF Carried, Selected, Routed
    <3>2. rHead[q] = Total(q) /\ recvChanOff[q] = ChannelBase(q)
      <4>1. rLeft[q] = 0 /\ rLeft[q] = Total(q) - rHead[q] /\ recvChanOff[q] = ChannelBase(q)
        BY <1>1 DEF IInv, QueueOK, ReceiverAt
      <4>. QED
        BY <2>1, <4>1
    <3>3. Place(q, t) \in Nat /\ Place(q, t) < Total(q)
      BY <3>1, CarriedPlaces
    <3>4. recvX[Dst(q)][RowOf(Dst(q), <<Src(q), t>>)] = <<Src(q), t>>
      BY <1>1, <3>1, <3>2, <3>3 DEF IInv, QueueOK, RowsFilled, CopiedOut
    <3>5. RowOf(Dst(q), <<Src(q), t>>) = FirstRow(q) + Place(q, t)
      BY <2>1, RowOfPlace
    <3>6. RankOffset(Src(q), Dst(q)) + recvChanOff[q] + sendHead[Src(q)][t][Dst(q)]
            = FirstRow(q) + Place(q, t)
      BY <2>1, <2>3, <2>4, <3>2, <3>3 DEF FirstRow
    <3>. QED
      BY <2>4, <3>4, <3>5, <3>6
  <2>5. CASE ~ Routed(q, t)
    BY <2>3, <2>5
  <2>. QED
    BY <2>4, <2>5
<1>2. IInv => HandleConsistent
  BY <1>1 DEF HandleConsistent, First, Last, Routed
<1>. QED
  BY <1>2, Invariance, PTL

(***************************************************************************)
(* The state keeps its shape: an offset that has been sent is never the 0  *)
(* of "not sent yet", and the indices the kernel keeps in ints and the     *)
(* rows it writes stay within the tokens there are.                        *)
(***************************************************************************)
THEOREM TypeCorrect == Spec => []TypeOK
<1>1. ASSUME IInv, NEW q \in Queues
      PROVE  /\ OffsetOK(startOff[q], "start" \notin unseen[q])
             /\ OffsetOK(endOff[q], "end" \notin unseen[q])
             /\ head[q] \in 0 .. NumTokens /\ tail[q] \in 0 .. NumTokens
             /\ sTok[q] \in 0 .. NumTokens /\ sTail[q] \in 0 .. NumTokens
             /\ rOff[q] \in 0 .. NumRanks * NumTokens /\ rLeft[q] \in 0 .. NumTokens
             /\ rHead[q] \in 0 .. NumTokens /\ rTail[q] \in 0 .. NumTokens
             /\ rPend[q] \subseteq 0 .. NumTokens - 1
             /\ recvChanOff[q] \in 0 .. NumTokens \cup {Unset}
  <2>1. /\ NumTokens \in Nat /\ ChannelBase(q) \in Nat /\ Total(q) \in Nat
        /\ ChannelBase(q) + Total(q) <= NumTokens /\ FirstRow(q) \in Nat
    BY DispatchAssumption, ChannelCounts, FirstRowIsNat
  <2>2. /\ OffsetOK(startOff[q], "start" \notin unseen[q])
        /\ OffsetOK(endOff[q], "end" \notin unseen[q])
    <3>1. /\ startOff[q] = IF "start" \in unseen[q] THEN 0 ELSE -ChannelBase(q) - 1
          /\ endOff[q] = IF "end" \in unseen[q] THEN 0 ELSE -(ChannelBase(q) + Total(q)) - 1
      BY <1>1 DEF IInv, QueueOK, SenderAt, Encoded
    <3>2. /\ -ChannelBase(q) - 1 \in -NumTokens - 1 .. -1
          /\ -(ChannelBase(q) + Total(q)) - 1 \in -NumTokens - 1 .. -1
      BY <2>1
    <3>. QED
      BY <3>1, <3>2 DEF OffsetOK
  <2>3. /\ head[q] \in Nat /\ tail[q] \in Nat /\ sTail[q] \in Nat /\ rTail[q] \in Nat
        /\ rHead[q] = head[q] /\ head[q] <= tail[q] /\ tail[q] <= sTail[q]
        /\ rTail[q] <= tail[q] /\ sTail[q] <= Total(q)
        /\ rPend[q] \subseteq rHead[q] .. rTail[q] - 1
    BY <1>1, SenderFacts DEF IInv, Typed, QueueOK, RingFits
  <2>4. sTok[q] \in 0 .. NumTokens
    <3>1. sTok[q] \in Nat /\ sTok[q] <= Last(q) /\ Last(q) <= NumTokens /\ Last(q) \in Nat
      BY <1>1, SenderFacts
    <3>. QED
      BY <2>1, <3>1
  <2>5. rPc[q] \in {"start", "end"} \/ rPc[q] \in {"wait", "copy", "done"}
    BY <1>1 DEF IInv, Typed
  <2>6. rLeft[q] \in 0 .. NumTokens
    <3>1. rLeft[q] = 0 \/ rLeft[q] = Total(q) - rHead[q]
      BY <1>1, <2>5 DEF IInv, QueueOK, ReceiverAt
    <3>. QED
      BY <2>1, <2>3, <3>1
  <2>7. rOff[q] \in 0 .. NumRanks * NumTokens
    <3>. DEFINE m == NumRanks * NumTokens
    <3>1. m \in Nat /\ NumTokens <= m
      BY ArrivalsCounted
    <3>2. FirstRow(q) + Total(q) <= m
      <4>1. Last(q) \in First(q) .. Last(q)
        BY QueueRange
      <4>2. RowOf(Dst(q), <<Src(q), Last(q)>>) = FirstRow(q) + Total(q)
        BY <4>1, RowOfPlace DEF Total
      <4>3. /\ RowOf(Dst(q), <<Src(q), Last(q)>>) <= NumRecv(Dst(q))
            /\ NumRecv(Dst(q)) \in Nat /\ NumRecv(Dst(q)) <= m
        BY RowRange, ArrivalsCounted
      <4>. HIDE DEF m
      <4>. QED
        BY <2>1, <3>1, <4>2, <4>3
    <3>3. rOff[q] \in {0, ChannelBase(q), FirstRow(q) + rHead[q]}
      BY <1>1, <2>5 DEF IInv, QueueOK, ReceiverAt
    <3>4. rOff[q] \in 0 .. m
      <4>. HIDE DEF m
      <4>. QED
        BY <2>1, <2>3, <3>1, <3>2, <3>3
    <3>. QED
      BY <3>4
  <2>8. recvChanOff[q] \in 0 .. NumTokens \cup {Unset}
    <3>1. recvChanOff[q] \in {Unset, ChannelBase(q)}
      BY <1>1 DEF IInv, QueueOK, ReceiverAt
    <3>. QED
      BY <2>1, <3>1
  <2>9. /\ head[q] \in 0 .. NumTokens /\ tail[q] \in 0 .. NumTokens
        /\ sTail[q] \in 0 .. NumTokens /\ rHead[q] \in 0 .. NumTokens
        /\ rTail[q] \in 0 .. NumTokens /\ rPend[q] \subseteq 0 .. NumTokens - 1
    BY <2>1, <2>3
  <2>. QED
    BY <2>2, <2>4, <2>6, <2>7, <2>8, <2>9
<1>2. ASSUME IInv PROVE TypeOK
  <2>1. Typed
    BY <1>2 DEF IInv
  <2>2. \A q \in Queues : /\ OffsetOK(startOff[q], "start" \notin unseen[q])
                          /\ OffsetOK(endOff[q], "end" \notin unseen[q])
                          /\ unseen[q] \subseteq {"start", "end"}
    BY <1>1, <1>2, <2>1 DEF Typed
  <2>3. /\ head \in [Queues -> 0 .. NumTokens] /\ tail \in [Queues -> 0 .. NumTokens]
        /\ sTok \in [Queues -> 0 .. NumTokens] /\ sTail \in [Queues -> 0 .. NumTokens]
        /\ rHead \in [Queues -> 0 .. NumTokens] /\ rTail \in [Queues -> 0 .. NumTokens]
    BY <1>1, <1>2, <2>1 DEF Typed
  <2>4. /\ rOff \in [Queues -> 0 .. NumRanks * NumTokens] /\ rLeft \in [Queues -> 0 .. NumTokens]
        /\ recvChanOff \in [Queues -> 0 .. NumTokens \cup {Unset}]
    BY <1>1, <1>2, <2>1 DEF Typed
  <2>. QED
    BY <1>1, <1>2, <2>1, <2>2, <2>3, <2>4 DEF Typed, TypeOK
<1>. QED
  BY <1>2, Invariance, PTL
=============================================================================
