---------------------- MODULE IntranodeCombine_proofs ----------------------
(***************************************************************************)
(* What combine promises, for any ranks, reducing warps, tokens, routing,  *)
(* chunk and ring (a chunk being shorter than the ring), and any traps.    *)
(*                                                                         *)
(* PlaceOf(r, t) is defined for a token r has not, too: the number of      *)
(* tokens r has before t, so the place of its next token.  The head a warp *)
(* reports for rank r is never past the place of the first token of r the  *)
(* warp has still to come to; a token not yet reduced holds its warp back  *)
(* and with it the head; and behind the head no slot is written again.     *)
(***************************************************************************)
EXTENDS IntranodeCombine, FiniteSetTheorems, WellFoundedInduction, TLAPS

\* What cached_notify_combine makes of a skipped token: where the rank is next.
Later(r, t) == IF PlaceOf(r, t) < CountOf(r) THEN PlaceOf(r, t) ELSE Beyond

\* The warp that reduces token t.
Owner(t) == (t % Warps) + 1

Shape ==
  /\ TypeOK
  /\ sendHead \in [Tokens -> [Ranks -> Int]]
  /\ sPend \in [Ranks -> SUBSET Int]
  /\ wPend \in [1 .. Warps -> SUBSET Ranks]
  /\ DOMAIN wAcc = 1 .. Warps /\ DOMAIN recvX = Tokens
  /\ DOMAIN slot = Ranks
  /\ \A r \in Ranks : DOMAIN slot[r] = 0 .. BufTokens - 1

\* The handle, as dispatch left it or as this or an earlier call rewrote it.
HandleOK ==
  \A t \in Tokens, r \in Ranks :
    IF r \in route[t]
    THEN sendHead[t][r] = PlaceOf(r, t)
    ELSE /\ sendHead[t][r] \in {-1, -Later(r, t) - 1}
         /\ call > 0 /\ r \in encoded => sendHead[t][r] = -Later(r, t) - 1

\* Before the first call nothing runs.
AtRest ==
  call = 0 => /\ encoded = Ranks /\ retired = 1 .. Warps /\ moving = {}
              /\ \A r \in Ranks : sPc[r] = "done" /\ sPend[r] = {}

\* The counters of a queue, and what of the round is still to copy.
QueueOK ==
  \A r \in Ranks :
    /\ sharedTail[r] <= tail[r] /\ tail[r] <= sTail[r] /\ sTail[r] <= CountOf(r)
    /\ sTail[r] <= head[r] + BufTokens
    /\ sPc[r] # "fill" => sPend[r] = {}
    /\ \A i \in sPend[r] : tail[r] <= i /\ i < sTail[r] /\ sTail[r] <= i + BufTokens

\* A slot holds the last token taken for it, once that is copied.
SlotsHold ==
  \A r \in Ranks, i \in Nat :
    i < sTail[r] /\ i \notin sPend[r] /\ sTail[r] <= i + BufTokens
      => slot[r][i % BufTokens] = <<call, r, TokenAt(r, i)>>

\* A warp has reduced those of its tokens that are before wTok, and no other.
WalkOK ==
  call > 0 =>
    /\ \A w \in 1 .. Warps : wTok[w] % Warps = w - 1
    /\ \A t \in Tokens : recvX[t] = NotYet <=> wTok[Owner(t)] <= t

ReadingOK ==
  \A w \in 1 .. Warps :
    /\ w \in retired => wTok[w] >= NumTokens
    /\ wPc[w] = "wait" => wPend[w] = {}
    /\ wPc[w] = "reduce" =>
         /\ call > 0 /\ wTok[w] < NumTokens /\ KernelStarted
         /\ wPend[w] \subseteq route[wTok[w]]
         /\ \A r \in wPend[w] : PlaceOf(r, wTok[w]) < sharedTail[r]
         /\ wAcc[w] = {<<call, r, wTok[w]>> : r \in route[wTok[w]] \ wPend[w]}

\* A warp reports no head past the rank's next token on the warp's way.
ReportsOK ==
  \A w \in 1 .. Warps, r \in Ranks :
    wTok[w] < NumTokens /\ PlaceOf(r, wTok[w]) < CountOf(r)
      => warpHead[w][r] <= PlaceOf(r, wTok[w])

IInv ==
  /\ Shape /\ HandleOK /\ AtRest /\ QueueOK /\ SlotsHold
  /\ WalkOK /\ ReadingOK /\ ReportsOK /\ HeadBehindReaders /\ ReducedRight

-----------------------------------------------------------------------------
(* Places.                                                                 *)

LEMMA PlaceIsNat ==
  ASSUME NEW r, NEW t \in Nat
  PROVE  /\ IsFiniteSet({u \in 0 .. t - 1 : r \in route[u]})
         /\ PlaceOf(r, t) \in 0 .. t
<1>. DEFINE b == t - 1
            R == 0 .. b
            P == {u \in R : r \in route[u]}
<1>1. b \in Int
  OBVIOUS
<1>. HIDE DEF b
<1>2. IsFiniteSet(R) /\ Cardinality(R) = IF 0 > b THEN 0 ELSE b - 0 + 1
  BY <1>1, FS_Interval
<1>3. P \in SUBSET R
  OBVIOUS
<1>4. IsFiniteSet(P) /\ Cardinality(P) <= Cardinality(R)
  BY <1>2, <1>3, FS_Subset
<1>5. Cardinality(P) \in Nat
  BY <1>4, FS_CardinalityType
<1>6. Cardinality(P) \in 0 .. t
  BY <1>2, <1>4, <1>5 DEF b
<1>. QED
  BY <1>4, <1>6 DEF PlaceOf, b

LEMMA CountIsPlace ==
  ASSUME NEW r
  PROVE  CountOf(r) = PlaceOf(r, NumTokens) /\ CountOf(r) \in 0 .. NumTokens
BY PlaceIsNat, CombineAssumption DEF CountOf, PlaceOf, Tokens

LEMMA PlaceGrows ==
  ASSUME NEW r, NEW s \in Nat, NEW t \in Nat, s <= t
  PROVE  PlaceOf(r, s) <= PlaceOf(r, t)
<1>. DEFINE S == {u \in 0 .. s - 1 : r \in route[u]}
            T == {u \in 0 .. t - 1 : r \in route[u]}
<1>1. S \in SUBSET T
  OBVIOUS
<1>2. IsFiniteSet(T)
  BY PlaceIsNat
<1>3. Cardinality(S) <= Cardinality(T)
  BY <1>1, <1>2, FS_Subset
<1>. QED
  BY <1>3 DEF PlaceOf

LEMMA PlaceAfter ==
  ASSUME NEW r, NEW t \in Nat, r \in route[t]
  PROVE  PlaceOf(r, t + 1) = PlaceOf(r, t) + 1
<1>. DEFINE S == {u \in 0 .. t - 1 : r \in route[u]}
            T == {u \in 0 .. (t + 1) - 1 : r \in route[u]}
<1>1. T = S \cup {t} /\ t \notin S
  OBVIOUS
<1>2. IsFiniteSet(S)
  BY PlaceIsNat
<1>3. Cardinality(S \cup {t}) = IF t \in S THEN Cardinality(S) ELSE Cardinality(S) + 1
  BY <1>2, FS_AddElement
<1>. QED
  BY <1>1, <1>3 DEF PlaceOf

\* Between two tokens of a rank there is a step of its places.
LEMMA PlaceBelow ==
  ASSUME NEW r, NEW s \in Nat, NEW t \in Nat, s < t, r \in route[s]
  PROVE  PlaceOf(r, s) + 1 <= PlaceOf(r, t)
BY PlaceAfter, PlaceGrows, s + 1 \in Nat, s + 1 <= t

LEMMA PlaceInCount ==
  ASSUME NEW r, NEW t \in Tokens, r \in route[t]
  PROVE  PlaceOf(r, t) \in Nat /\ PlaceOf(r, t) < CountOf(r)
<1>1. t \in Nat /\ t < NumTokens /\ NumTokens \in Nat
  BY CombineAssumption DEF Tokens
<1>2. PlaceOf(r, t) + 1 <= PlaceOf(r, NumTokens)
  BY <1>1, PlaceBelow
<1>3. PlaceOf(r, t) \in 0 .. t /\ PlaceOf(r, NumTokens) \in 0 .. NumTokens
  BY <1>1, PlaceIsNat
<1>. QED
  BY <1>1, <1>2, <1>3, CountIsPlace

\* Where there are none of its tokens a rank's place stays as it is.
LEMMA PlaceKept ==
  ASSUME NEW r, NEW s \in Nat, NEW t \in Nat, s <= t,
         \A u \in s .. t - 1 : r \notin route[u]
  PROVE  PlaceOf(r, s) = PlaceOf(r, t)
<1>1. {u \in 0 .. s - 1 : r \in route[u]} = {u \in 0 .. t - 1 : r \in route[u]}
  OBVIOUS
<1>. QED
  BY <1>1 DEF PlaceOf

\* The token at a place is the one whose place it is.
LEMMA TokenAtPlace ==
  ASSUME NEW r, NEW t \in Tokens, r \in route[t]
  PROVE  TokenAt(r, PlaceOf(r, t)) = t
<1>. DEFINE i == PlaceOf(r, t)
            u == CHOOSE v \in Tokens : r \in route[v] /\ PlaceOf(r, v) = i
<1>1. u \in Tokens /\ r \in route[u] /\ PlaceOf(r, u) = i
  OBVIOUS
<1>2. TokenAt(r, i) = u
  BY DEF TokenAt
<1>. HIDE DEF u
<1>3. t \in Nat /\ u \in Nat /\ i \in Nat
  BY <1>1, PlaceInCount DEF Tokens
<1>4. ~ (u < t)
  BY <1>1, <1>3, PlaceBelow
<1>5. ~ (t < u)
  BY <1>1, <1>3, PlaceBelow
<1>. QED
  BY <1>2, <1>3, <1>4, <1>5

LEMMA LeastOf ==
  ASSUME NEW S \in SUBSET Nat, S # {}
  PROVE  \E x \in S : \A y \in S : x <= y
<1>. DEFINE R == OpToRel(<, Nat)
<1>1. IsWellFoundedOn(R, Nat)
  BY NatLessThanWellFounded
<1>2. \A x, y \in Nat : <<y, x>> \in R <=> y < x
  BY DEF OpToRel
<1>. HIDE DEF R
<1>3. PICK x \in S : \A y \in S : ~ (<<y, x>> \in R)
  BY <1>1, WFMin
<1>4. \A y \in S : y \in Nat /\ x \in Nat /\ ~ (y < x)
  BY <1>2, <1>3
<1>5. \A y \in S : x <= y
  BY <1>4
<1>. QED
  BY <1>5

\* Ring slots: two places less than the ring apart have different ones.
LEMMA Spread ==
  ASSUME NEW n \in Nat \ {0}, NEW i \in Nat, NEW j \in Nat, i < j, i % n = j % n
  PROVE  i + n <= j
<1>1. /\ i = n * (i \div n) + (i % n) /\ j = n * (j \div n) + (j % n)
      /\ i \div n \in Int /\ j \div n \in Int
  OBVIOUS
<1>2. j - i = n * ((j \div n) - (i \div n))
  BY <1>1
<1>3. CASE (j \div n) - (i \div n) <= 0
  BY <1>1, <1>2, <1>3
<1>4. CASE (j \div n) - (i \div n) >= 1
  <2>. DEFINE k == (j \div n) - (i \div n)
  <2>1. k \in Int /\ k >= 1
    BY <1>1, <1>4
  <2>. HIDE DEF k
  <2>2. n * k >= n
    BY <2>1
  <2>3. j - i = n * k
    BY <1>2 DEF k
  <2>. QED
    BY <2>2, <2>3
<1>. QED
  BY <1>1, <1>3, <1>4

LEMMA AddRound ==
  ASSUME NEW n \in Nat \ {0}, NEW i \in Nat
  PROVE  (i + n) % n = i % n
<1>. DEFINE a == i % n
            b == (i + n) % n
            k == ((i + n) \div n) - (i \div n) - 1
<1>1. /\ i = n * (i \div n) + a /\ i + n = n * ((i + n) \div n) + b
      /\ i \div n \in Int /\ (i + n) \div n \in Int
      /\ a \in 0 .. n - 1 /\ b \in 0 .. n - 1
  OBVIOUS
<1>2. k \in Int /\ a - b = n * k
  BY <1>1
<1>. HIDE DEF k
<1>3. CASE k >= 1
  <2>1. n * k >= n
    BY <1>2, <1>3
  <2>. QED
    BY <1>1, <1>2, <2>1
<1>4. CASE k <= -1
  <2>1. n * k <= -n
    BY <1>2, <1>4
  <2>. QED
    BY <1>1, <1>2, <2>1
<1>5. CASE k = 0
  BY <1>1, <1>2, <1>5
<1>. QED
  BY <1>2, <1>3, <1>4, <1>5

-----------------------------------------------------------------------------
(* What the steps have in common.                                          *)

\* All places depend on the routing only, which never changes.
LEMMA RouteKept ==
  ASSUME route' = route
  PROVE  /\ \A r, t : PlaceOf(r, t)' = PlaceOf(r, t) /\ Later(r, t)' = Later(r, t)
         /\ \A r : CountOf(r)' = CountOf(r)
         /\ \A r, i : TokenAt(r, i)' = TokenAt(r, i)
BY DEF PlaceOf, Later, CountOf, TokenAt

LEMMA Numbers ==
  /\ Warps \in Nat \ {0} /\ NumTokens \in Nat /\ Beyond \in Nat
  /\ ChunkTokens \in Nat \ {0} /\ BufTokens \in Nat \ {0} /\ ChunkTokens < BufTokens
  /\ MaxCalls \in Nat /\ Receiver \in Ranks
  /\ \A t \in Tokens : t \in Nat /\ t < NumTokens
BY CombineAssumption DEF Beyond, Tokens

LEMMA LaterRange ==
  ASSUME NEW r, NEW t \in Tokens
  PROVE  /\ PlaceOf(r, t) \in 0 .. NumTokens - 1
         /\ Later(r, t) \in 0 .. NumTokens - 1 \cup {Beyond}
         /\ Later(r, t) \in Nat
<1>1. t \in Nat /\ t < NumTokens /\ NumTokens \in Nat /\ Beyond \in Nat
  BY Numbers
<1>2. PlaceOf(r, t) \in 0 .. t
  BY <1>1, PlaceIsNat
<1>. QED
  BY <1>1, <1>2 DEF Later

\* Small numbers are their own remainders.
LEMMA SmallMod ==
  ASSUME NEW n \in Nat \ {0}, NEW i \in Nat
  PROVE  i % n \in 0 .. n - 1 /\ i % n <= i /\ (i < n => i % n = i)
<1>. DEFINE k == i \div n
<1>1. i = n * k + (i % n) /\ i % n \in 0 .. n - 1 /\ k \in Int
  OBVIOUS
<1>. HIDE DEF k
<1>2. CASE k <= -1
  <2>1. n * k <= -n
    BY <1>2, <1>1
  <2>. QED
    BY <1>1, <2>1
<1>3. CASE k = 0
  BY <1>1, <1>3
<1>4. CASE k >= 1
  <2>1. n * k >= n
    BY <1>4, <1>1
  <2>. QED
    BY <1>1, <2>1
<1>. QED
  BY <1>1, <1>2, <1>3, <1>4

LEMMA OwnerIsWarp ==
  ASSUME NEW t \in Nat
  PROVE  Owner(t) \in 1 .. Warps /\ t % Warps = Owner(t) - 1
<1>1. t % Warps \in 0 .. Warps - 1
  BY Numbers
<1>. QED
  BY <1>1, Numbers DEF Owner

\* A rank holds only tokens the routing gives it, and is a rank.
LEMMA HoldersAreRanks ==
  ASSUME TypeOK, NEW t \in Tokens
  PROVE  route[t] \subseteq Ranks
BY CombineAssumption DEF TypeOK

\* send_head tells the tokens a rank has from those it has not.
LEMMA HoldersShown ==
  ASSUME IInv, NEW u \in Tokens, NEW r \in Ranks
  PROVE  sendHead[u][r] >= 0 <=> r \in route[u]
<1>1. CASE r \in route[u]
  BY <1>1, PlaceInCount DEF IInv, HandleOK
<1>2. CASE r \notin route[u]
  <2>1. Later(r, u) \in Nat
    BY LaterRange
  <2>2. sendHead[u][r] \in {-1, -Later(r, u) - 1}
    BY <1>2 DEF IInv, HandleOK
  <2>. QED
    BY <1>2, <2>1, <2>2
<1>. QED
  BY <1>1, <1>2

\* Reading the column of send_head backwards finds the place of the next token.
LEMMA NextHeadIsLater ==
  ASSUME IInv, NEW t \in Tokens, NEW r \in Ranks, r \notin route[t]
  PROVE  NextHead(t, r) = Later(r, t)
<1>. DEFINE later == {u \in t + 1 .. NumTokens - 1 : sendHead[u][r] >= 0}
<1>1. t \in Nat /\ t < NumTokens /\ NumTokens \in Nat /\ Beyond \in Nat
  BY Numbers
<1>2. \A u \in Tokens : sendHead[u][r] >= 0 <=> r \in route[u]
  BY HoldersShown
<1>3. later = {u \in t + 1 .. NumTokens - 1 : r \in route[u]}
  BY <1>1, <1>2 DEF Tokens
<1>4. CASE later = {}
  <2>1. \A u \in t .. NumTokens - 1 : r \notin route[u]
    BY <1>1, <1>3, <1>4
  <2>2. PlaceOf(r, t) = PlaceOf(r, NumTokens)
    BY <1>1, <2>1, PlaceKept
  <2>3. CountOf(r) = PlaceOf(r, NumTokens) /\ CountOf(r) \in Nat
    BY CountIsPlace
  <2>4. Later(r, t) = Beyond
    BY <2>2, <2>3 DEF Later
  <2>. QED
    BY <1>4, <2>4 DEF NextHead
<1>5. CASE later # {}
  <2>. DEFINE n == CHOOSE u \in later : \A v \in later : u <= v
  <2>1. later \in SUBSET Nat
    BY <1>1
  <2>2. n \in later /\ \A v \in later : n <= v
    BY <1>5, <2>1, LeastOf
  <2>3. NextHead(t, r) = sendHead[n][r]
    BY <1>5 DEF NextHead
  <2>. HIDE DEF n
  <2>4. n \in Tokens /\ n \in Nat /\ t < n /\ r \in route[n]
    BY <1>1, <1>3, <2>2 DEF Tokens
  <2>5. \A u \in t .. n - 1 : r \notin route[u]
    <3>. SUFFICES ASSUME NEW u \in t .. n - 1, r \in route[u] PROVE FALSE
      OBVIOUS
    <3>1. u # t /\ u \in t + 1 .. NumTokens - 1
      BY <1>1, <2>4 DEF Tokens
    <3>2. u \in later
      BY <1>3, <3>1
    <3>. QED
      BY <1>1, <2>2, <2>4, <3>1, <3>2
  <2>6. PlaceOf(r, t) = PlaceOf(r, n)
    BY <1>1, <2>4, <2>5, PlaceKept
  <2>7. sendHead[n][r] = PlaceOf(r, n) /\ PlaceOf(r, n) < CountOf(r)
    BY <2>4, PlaceInCount DEF IInv, HandleOK
  <2>. QED
    BY <2>3, <2>6, <2>7 DEF Later
<1>. QED
  BY <1>4, <1>5

-----------------------------------------------------------------------------
(* The steps, one lemma each.                                              *)

LEMMA InitOK == Init => IInv
<1>. SUFFICES ASSUME Init PROVE IInv
  OBVIOUS
<1>. USE DEF Init
<1>1. ASSUME NEW t \in Tokens, NEW r \in Ranks
      PROVE  /\ sendHead[t][r] \in -NumTokens - 1 .. NumTokens - 1
             /\ sendHead[t][r] = IF r \in route[t] THEN PlaceOf(r, t) ELSE -1
             /\ sendHead[t][r] \in Int
  <2>1. sendHead[t][r] = IF r \in route[t] THEN PlaceOf(r, t) ELSE -1
    OBVIOUS
  <2>2. PlaceOf(r, t) \in 0 .. NumTokens - 1 /\ NumTokens \in Nat /\ NumTokens > 0
    BY LaterRange, Numbers
  <2>. QED
    BY <2>1, <2>2
<1>2. Shape
  <2>1. TypeOK
    <3>1. route \in Routings /\ call \in 0 .. MaxCalls
      BY Numbers
    <3>2. encoded \subseteq Ranks /\ moving \subseteq Ranks /\ retired \subseteq 1 .. Warps
      OBVIOUS
    <3>3. /\ tail \in [Ranks -> 0 .. NumTokens] /\ sharedTail \in [Ranks -> 0 .. NumTokens]
          /\ head \in [Ranks -> 0 .. NumTokens \cup {Beyond}]
          /\ warpHead \in [1 .. Warps -> [Ranks -> 0 .. NumTokens \cup {Beyond}]]
      BY Numbers
    <3>4. /\ sPc \in [Ranks -> {"wait", "fill", "done"}] /\ sTail \in [Ranks -> 0 .. NumTokens]
          /\ \A r \in Ranks : sPend[r] \subseteq 0 .. NumTokens - 1
          /\ wPc \in [1 .. Warps -> {"wait", "reduce"}]
          /\ wTok \in [1 .. Warps -> 0 .. NumTokens + Warps - 1]
          /\ \A w \in 1 .. Warps : wPend[w] \subseteq Ranks
          /\ trapped \subseteq Ranks
      BY Numbers
    <3>. QED
      BY <1>1, <3>1, <3>2, <3>3, <3>4 DEF TypeOK
  <2>2. sendHead \in [Tokens -> [Ranks -> Int]]
    BY <1>1
  <2>. QED
    BY <2>1, <2>2 DEF Shape
<1>3. HandleOK
  BY <1>1 DEF HandleOK
<1>4. AtRest /\ SlotsHold /\ WalkOK /\ ReadingOK /\ ReportsOK /\ ReducedRight
  BY Numbers DEF AtRest, SlotsHold, WalkOK, ReadingOK, ReportsOK, ReducedRight
<1>5. QueueOK
  <2>1. \A r : CountOf(r) \in Nat
    BY CountIsPlace
  <2>. QED
    BY <2>1, Numbers DEF QueueOK
<1>6. HeadBehindReaders
  <2>1. \A r \in Ranks, t \in Tokens : PlaceOf(r, t) \in 0 .. t /\ head[r] = 0 /\ t \in Nat
    BY PlaceIsNat, Numbers
  <2>. QED
    BY <2>1 DEF HeadBehindReaders
<1>. QED
  BY <1>2, <1>3, <1>4, <1>5, <1>6 DEF IInv

LEMMA StartCombineOK ==
  ASSUME IInv, StartCombine
  PROVE  IInv'
<1>. USE DEF StartCombine
<1>1. route' = route /\ \A w \in 1 .. Warps : wPc[w] = "wait" /\ wPend[w] = {}
  <2>1. \A w \in 1 .. Warps : w \in retired
    BY DEF KernelDone
  <2>2. \A w \in 1 .. Warps : wTok[w] \in Int /\ wTok[w] >= NumTokens
    BY <2>1, Numbers DEF IInv, Shape, TypeOK, ReadingOK
  <2>. QED
    BY <2>2, Numbers DEF IInv, Shape, TypeOK, ReadingOK
<1>2. call' > 0 /\ call' \in 0 .. MaxCalls
  BY Numbers DEF IInv, Shape, TypeOK
<1>3. Shape'
  <2>1. /\ route' \in Routings
        /\ encoded' \subseteq Ranks /\ moving' \subseteq Ranks /\ retired' \subseteq 1 .. Warps
        /\ \A t \in Tokens, r \in Ranks : sendHead'[t][r]
              \in -NumTokens - 1 .. NumTokens - 1 \cup {-Beyond - 1}
        /\ trapped' \subseteq Ranks /\ wPc' \in [1 .. Warps -> {"wait", "reduce"}]
        /\ \A w \in 1 .. Warps : wPend'[w] \subseteq Ranks
    BY DEF IInv, Shape, TypeOK
  <2>2. /\ tail' \in [Ranks -> 0 .. NumTokens] /\ sharedTail' \in [Ranks -> 0 .. NumTokens]
        /\ head' \in [Ranks -> 0 .. NumTokens \cup {Beyond}]
        /\ warpHead' \in [1 .. Warps -> [Ranks -> 0 .. NumTokens \cup {Beyond}]]
    BY Numbers
  <2>3. /\ sPc' \in [Ranks -> {"wait", "fill", "done"}] /\ sTail' \in [Ranks -> 0 .. NumTokens]
        /\ \A r \in Ranks : sPend'[r] \subseteq 0 .. NumTokens - 1
        /\ wTok' \in [1 .. Warps -> 0 .. NumTokens + Warps - 1]
    BY Numbers
  <2>4. TypeOK'
    BY <1>2, <2>1, <2>2, <2>3 DEF TypeOK
  <2>. QED
    BY <2>4 DEF IInv, Shape
<1>4. HandleOK'
  BY <1>1, RouteKept DEF IInv, HandleOK
<1>5. AtRest' /\ SlotsHold'
  BY <1>2 DEF AtRest, SlotsHold
<1>6. QueueOK'
  <2>1. \A r : CountOf(r)' \in Nat
    BY <1>1, RouteKept, CountIsPlace
  <2>. QED
    BY <2>1, Numbers DEF QueueOK
<1>7. WalkOK'
  <2>1. \A w \in 1 .. Warps : (w - 1) % Warps = w - 1
    <3>. TAKE w \in 1 .. Warps
    <3>1. w - 1 \in Nat /\ w - 1 < Warps /\ Warps \in Nat \ {0}
      BY Numbers
    <3>. QED
      BY <3>1, SmallMod
  <2>2. \A t \in Tokens : recvX'[t] = NotYet /\ wTok'[Owner(t)] <= t
    <3>. TAKE t \in Tokens
    <3>1. Owner(t) \in 1 .. Warps /\ Owner(t) - 1 = t % Warps /\ t % Warps <= t
      BY OwnerIsWarp, SmallMod, Numbers
    <3>. QED
      BY <3>1
  <2>. QED
    BY <2>1, <2>2 DEF WalkOK
<1>8. ReadingOK'
  BY <1>1 DEF ReadingOK
<1>9. ReportsOK' /\ HeadBehindReaders'
  <2>1. ASSUME NEW r, NEW t \in Nat PROVE PlaceOf(r, t)' >= 0
    <3>1. PlaceOf(r, t)' = PlaceOf(r, t)
      BY <1>1, RouteKept
    <3>2. PlaceOf(r, t) \in 0 .. t
      BY PlaceIsNat
    <3>. QED
      BY <3>1, <3>2
  <2>2. \A w \in 1 .. Warps : wTok'[w] = w - 1 /\ w - 1 \in Nat
    BY Numbers
  <2>3. ReportsOK'
    BY <2>1, <2>2 DEF ReportsOK
  <2>4. HeadBehindReaders'
    BY <2>1, Numbers DEF HeadBehindReaders
  <2>. QED
    BY <2>3, <2>4
<1>10. ReducedRight'
  BY DEF ReducedRight
<1>. QED
  BY <1>3, <1>4, <1>5, <1>6, <1>7, <1>8, <1>9, <1>10 DEF IInv

LEMMA EncodeColumnOK ==
  ASSUME IInv, NEW p \in Ranks, EncodeColumn(p)
  PROVE  IInv'
<1>. USE DEF EncodeColumn, senderVars, moverVars, warpVars
<1>1. call > 0
  BY Numbers DEF IInv, AtRest, Shape, TypeOK
<1>2. ASSUME NEW t \in Tokens, NEW r \in Ranks
      PROVE  sendHead'[t][r] = IF r = p /\ p \notin route[t] THEN -Later(p, t) - 1
                               ELSE sendHead[t][r]
  <2>. DEFINE S == [u \in Tokens |-> IF sendHead[u][p] < 0
                      THEN [sendHead[u] EXCEPT ![p] = -NextHead(u, p) - 1] ELSE sendHead[u]]
  <2>1. sendHead' = S
    OBVIOUS
  <2>2. sendHead[t] \in [Ranks -> Int]
    BY DEF IInv, Shape
  <2>3. CASE p \in route[t]
    <3>1. sendHead[t][p] = PlaceOf(p, t) /\ PlaceOf(p, t) \in Nat
      BY <2>3, PlaceInCount DEF IInv, HandleOK
    <3>. QED
      BY <2>1, <2>3, <3>1
  <2>4. CASE p \notin route[t]
    <3>1. Later(p, t) \in Nat
      BY LaterRange
    <3>2. sendHead[t][p] < 0
      BY <2>4, <3>1 DEF IInv, HandleOK
    <3>3. NextHead(t, p) = Later(p, t)
      BY <2>4, NextHeadIsLater
    <3>4. sendHead'[t] = [sendHead[t] EXCEPT ![p] = -Later(p, t) - 1]
      BY <2>1, <3>2, <3>3
    <3>. QED
      BY <2>2, <2>4, <3>4
  <2>. QED
    BY <2>3, <2>4
<1>3. Shape'
  <2>1. ASSUME NEW t \in Tokens
        PROVE  Later(p, t) \in 0 .. NumTokens - 1 \cup {Beyond}
    BY LaterRange
  <2>2. ASSUME NEW t \in Tokens, NEW r \in Ranks
        PROVE  sendHead'[t][r] \in -NumTokens - 1 .. NumTokens - 1 \cup {-Beyond - 1}
    <3>1. sendHead[t][r] \in -NumTokens - 1 .. NumTokens - 1 \cup {-Beyond - 1}
      BY DEF IInv, Shape, TypeOK
    <3>. QED
      BY <1>2, <2>1, <3>1, Numbers
  <2>3. TypeOK'
    BY <2>2 DEF IInv, Shape, TypeOK
  <2>4. sendHead' \in [Tokens -> [Ranks -> Int]]
    <3>2. ASSUME NEW t \in Tokens
          PROVE  sendHead[t][p] < 0 => -NextHead(t, p) - 1 \in Int
      <4>1. CASE p \in route[t]
        <5>1. sendHead[t][p] = PlaceOf(p, t) /\ PlaceOf(p, t) \in Nat
          BY <4>1, PlaceInCount DEF IInv, HandleOK
        <5>. QED
          BY <5>1
      <4>2. CASE p \notin route[t]
        BY <2>1, <4>2, NextHeadIsLater, Numbers
      <4>. QED
        BY <4>1, <4>2
    <3>3. sendHead \in [Tokens -> [Ranks -> Int]]
      BY DEF IInv, Shape
    <3>. QED
      BY <3>2, <3>3
  <2>. QED
    BY <2>3, <2>4 DEF IInv, Shape
<1>4. HandleOK'
  BY <1>2, RouteKept DEF IInv, HandleOK
<1>5. AtRest' /\ QueueOK' /\ SlotsHold' /\ WalkOK' /\ ReportsOK'
  BY <1>1, RouteKept DEF IInv, AtRest, QueueOK, SlotsHold, WalkOK, ReportsOK
<1>6. ReadingOK'
  <2>1. \A w \in 1 .. Warps : wPc[w] # "reduce"
    BY DEF IInv, ReadingOK, KernelStarted
  <2>. QED
    BY <2>1 DEF IInv, ReadingOK
<1>7. HeadBehindReaders' /\ ReducedRight'
  BY RouteKept DEF IInv, HeadBehindReaders, ReducedRight
<1>. QED
  BY <1>3, <1>4, <1>5, <1>6, <1>7 DEF IInv

\* The types of a queue's counters, for arithmetic.
LEMMA QueueTypes ==
  ASSUME IInv, NEW r \in Ranks
  PROVE  /\ tail[r] \in Nat /\ sharedTail[r] \in Nat /\ sTail[r] \in Nat /\ head[r] \in Nat
         /\ CountOf(r) \in 0 .. NumTokens
         /\ sTail[r] <= CountOf(r) /\ tail[r] <= sTail[r] /\ sharedTail[r] <= tail[r]
         /\ sPend[r] \subseteq Int /\ sPend[r] \subseteq 0 .. NumTokens - 1
<1>1. Shape /\ TypeOK /\ QueueOK
  BY DEF IInv, Shape
<1>2. /\ tail[r] \in Nat /\ sharedTail[r] \in Nat /\ sTail[r] \in Nat
      /\ head[r] \in 0 .. NumTokens \cup {Beyond}
  BY <1>1, Numbers DEF TypeOK
<1>3. head[r] \in Nat
  BY <1>2, Numbers
<1>. QED
  BY <1>1, <1>2, <1>3, CountIsPlace, Numbers DEF QueueOK, Shape, TypeOK

LEMMA TakeRoundOK ==
  ASSUME IInv, NEW p \in Ranks, TakeRound(p)
  PROVE  IInv'
<1>. USE DEF TakeRound, handleVars, moverVars, warpVars
<1>. DEFINE m == RoundTokens(p)
<1>1. /\ sTail[p] \in Nat /\ CountOf(p) \in 0 .. NumTokens /\ sTail[p] <= CountOf(p)
      /\ tail[p] <= sTail[p] /\ head[p] \in Nat /\ tail[p] \in Nat
  BY QueueTypes
<1>2. /\ m \in Nat /\ m <= CountOf(p) - sTail[p] /\ m <= ChunkTokens
      /\ sTail[p] + m <= head[p] + BufTokens
  BY <1>1, Numbers DEF RoundTokens
<1>. HIDE DEF m
<1>3. /\ sPend' = [sPend EXCEPT ![p] = sTail[p] .. sTail[p] + m - 1]
      /\ sTail' = [sTail EXCEPT ![p] = sTail[p] + m]
      /\ sPc'   = [sPc EXCEPT ![p] = "fill"]
      /\ sPend[p] = {}
  BY DEF m, IInv, QueueOK
<1>4. /\ sPend \in [Ranks -> SUBSET Int] /\ sTail \in [Ranks -> 0 .. NumTokens]
      /\ sPc \in [Ranks -> {"wait", "fill", "done"}]
  BY DEF IInv, Shape, TypeOK
<1>5. /\ \A i \in Int : i \in sPend'[p] <=> sTail[p] <= i /\ i < sTail[p] + m
      /\ sPend'[p] \subseteq Int /\ sTail'[p] = sTail[p] + m
      /\ \A r \in Ranks : r # p => sPend'[r] = sPend[r] /\ sTail'[r] = sTail[r] /\ sPc'[r] = sPc[r]
  <2>1. sPend'[p] = sTail[p] .. sTail[p] + m - 1 /\ sTail'[p] = sTail[p] + m
    BY <1>3, <1>4
  <2>. DEFINE a == sTail[p]
              b == sTail[p] + m - 1
              I == a .. b
  <2>5. a \in Int /\ b \in Int /\ sPend'[p] = I
    BY <1>1, <1>2, <2>1
  <2>6. \A i \in Int : i < a + m <=> i <= b
    BY <1>1, <1>2
  <2>. HIDE DEF a, b
  <2>7. I \subseteq Int /\ \A i \in Int : i \in I <=> a <= i /\ i <= b
    BY <2>5
  <2>2. \A i \in Int : i \in sPend'[p] <=> sTail[p] <= i /\ i < sTail[p] + m
    BY <2>5, <2>6, <2>7 DEF a
  <2>3. \A r \in Ranks : r # p => sPend'[r] = sPend[r] /\ sTail'[r] = sTail[r] /\ sPc'[r] = sPc[r]
    BY <1>3, <1>4
  <2>4. sPend'[p] \subseteq Int
    BY <2>5, <2>7
  <2>. QED
    BY <2>1, <2>2, <2>3, <2>4
<1>6. Shape'
  <2>. DEFINE new == sTail[p] .. sTail[p] + m - 1
  <2>0. new \in SUBSET Int /\ sTail[p] + m \in 0 .. NumTokens
    BY <1>1, <1>2, Numbers
  <2>. HIDE DEF new, TakeRound
  <2>1. sPend' \in [Ranks -> SUBSET Int] /\ sTail' \in [Ranks -> 0 .. NumTokens]
    <3>1. sPend' = [sPend EXCEPT ![p] = new]
      BY <1>3 DEF new
    <3>2. sPend' \in [Ranks -> SUBSET Int]
      BY <1>4, <2>0, <3>1
    <3>3. sTail' \in [Ranks -> 0 .. NumTokens]
      BY <1>3, <1>4, <2>0
    <3>. QED
      BY <3>2, <3>3
  <2>2. sPc' \in [Ranks -> {"wait", "fill", "done"}]
    BY <1>3, <1>4
  <2>. USE DEF TakeRound
  <2>3. ASSUME NEW r \in Ranks PROVE sPend'[r] \subseteq 0 .. NumTokens - 1
    <3>1. CASE r = p
      BY <1>1, <1>2, <1>5, <3>1, Numbers
    <3>2. CASE r # p
      BY <1>5, <3>2 DEF IInv, Shape, TypeOK
    <3>. QED
      BY <3>1, <3>2
  <2>4. TypeOK'
    BY <2>1, <2>2, <2>3 DEF IInv, Shape, TypeOK
  <2>. QED
    BY <2>1, <2>4 DEF IInv, Shape
<1>7. HandleOK'
  BY RouteKept DEF IInv, HandleOK
<1>8. AtRest'
  BY DEF IInv, AtRest
<1>9. QueueOK'
  <2>. SUFFICES ASSUME NEW r \in Ranks
       PROVE  /\ sharedTail[r] <= tail[r] /\ tail[r] <= sTail'[r] /\ sTail'[r] <= CountOf(r)
              /\ sTail'[r] <= head[r] + BufTokens
              /\ sPc'[r] # "fill" => sPend'[r] = {}
              /\ \A i \in sPend'[r] : /\ tail[r] <= i /\ i < sTail'[r]
                                      /\ sTail'[r] <= i + BufTokens
    BY RouteKept DEF QueueOK
  <2>1. CASE r = p
    <3>1. sPc'[p] = "fill"
      BY <1>3, <1>4
    <3>2. sharedTail[p] <= tail[p]
      BY QueueTypes
    <3>3. \A i \in sPend'[p] : /\ tail[p] <= i /\ i < sTail'[p]
                               /\ sTail'[p] <= i + BufTokens
      BY <1>1, <1>2, <1>5, Numbers, SMTT(30), ZenonT(30)
    <3>. QED
      BY <1>1, <1>2, <1>5, <2>1, <3>1, <3>2, <3>3
  <2>2. CASE r # p
    BY <1>5, <2>2 DEF IInv, QueueOK
  <2>. QED
    BY <2>1, <2>2
<1>10. SlotsHold'
  <2>. SUFFICES ASSUME NEW r \in Ranks, NEW i \in Nat,
                       i < sTail'[r], i \notin sPend'[r], sTail'[r] <= i + BufTokens
       PROVE  slot[r][i % BufTokens] = <<call, r, TokenAt(r, i)>>
    BY RouteKept DEF SlotsHold
  <2>1. CASE r = p
    <3>1. i < sTail[p]
      BY <1>1, <1>2, <1>5, <2>1
    <3>2. i \notin sPend[p] /\ sTail[p] <= i + BufTokens
      BY <1>1, <1>2, <1>3, <1>5, <2>1, Numbers
    <3>. QED
      BY <2>1, <3>1, <3>2 DEF IInv, SlotsHold
  <2>2. CASE r # p
    BY <1>5, <2>2 DEF IInv, SlotsHold
  <2>. QED
    BY <2>1, <2>2
<1>11. WalkOK' /\ ReadingOK' /\ ReportsOK' /\ HeadBehindReaders' /\ ReducedRight'
  BY RouteKept DEF IInv, WalkOK, ReadingOK, ReportsOK, HeadBehindReaders, ReducedRight,
                   KernelStarted
<1>. QED
  BY <1>6, <1>7, <1>8, <1>9, <1>10, <1>11 DEF IInv

LEMMA FillSlotOK ==
  ASSUME IInv, NEW p \in Ranks, FillSlot(p)
  PROVE  IInv'
<1>. USE DEF FillSlot, handleVars, moverVars, warpVars
<1>1. PICK j \in sPend[p] :
        /\ slot'  = [slot EXCEPT ![p][j % BufTokens] = <<call, p, TokenAt(p, j)>>]
        /\ sPend' = [sPend EXCEPT ![p] = sPend[p] \ {j}]
  OBVIOUS
<1>2. j \in Nat /\ j \in 0 .. NumTokens - 1 /\ sTail[p] \in Nat
  BY QueueTypes
<1>3. /\ tail[p] <= j /\ j < sTail[p] /\ sTail[p] <= j + BufTokens
      /\ \A i \in sPend[p] : tail[p] <= i /\ i < sTail[p] /\ sTail[p] <= i + BufTokens
  BY DEF IInv, QueueOK
<1>4. /\ sPend \in [Ranks -> SUBSET Int] /\ DOMAIN slot = Ranks
      /\ \A r \in Ranks : DOMAIN slot[r] = 0 .. BufTokens - 1
  BY DEF IInv, Shape
<1>5. /\ sPend' \in [Ranks -> SUBSET Int] /\ sPend'[p] = sPend[p] \ {j}
      /\ \A r \in Ranks : r # p => sPend'[r] = sPend[r]
  BY <1>1, <1>4
<1>6. j % BufTokens \in 0 .. BufTokens - 1
  BY <1>2, SmallMod, Numbers
<1>7. /\ DOMAIN slot' = Ranks /\ \A r \in Ranks : DOMAIN slot'[r] = 0 .. BufTokens - 1
      /\ slot'[p][j % BufTokens] = <<call, p, TokenAt(p, j)>>
      /\ \A k \in 0 .. BufTokens - 1 : k # j % BufTokens => slot'[p][k] = slot[p][k]
      /\ \A r \in Ranks : r # p => slot'[r] = slot[r]
  BY <1>1, <1>4, <1>6
<1>8. Shape'
  <2>1. ASSUME NEW r \in Ranks PROVE sPend'[r] \subseteq 0 .. NumTokens - 1
    BY <1>5, QueueTypes
  <2>2. TypeOK'
    BY <2>1 DEF IInv, Shape, TypeOK
  <2>. QED
    BY <1>5, <1>7, <2>2 DEF IInv, Shape
<1>9. HandleOK'
  BY RouteKept DEF IInv, HandleOK
<1>10. AtRest'
  BY DEF IInv, AtRest
<1>11. QueueOK'
  <2>. SUFFICES ASSUME NEW r \in Ranks
       PROVE  /\ sPc[r] # "fill" => sPend'[r] = {}
              /\ \A i \in sPend'[r] : i \in sPend[r]
    BY RouteKept DEF IInv, QueueOK
  <2>. QED
    BY <1>5 DEF IInv, QueueOK
<1>12. SlotsHold'
  <2>. SUFFICES ASSUME NEW r \in Ranks, NEW i \in Nat,
                       i < sTail[r], i \notin sPend'[r], sTail[r] <= i + BufTokens
       PROVE  slot'[r][i % BufTokens] = <<call, r, TokenAt(r, i)>>
    BY RouteKept DEF SlotsHold
  <2>1. CASE r # p
    BY <1>5, <1>7, <2>1 DEF IInv, SlotsHold
  <2>2. CASE r = p /\ i = j
    BY <1>7, <2>2
  <2>3. CASE r = p /\ i # j
    <3>1. i % BufTokens # j % BufTokens
      <4>1. ~ (i + BufTokens <= j) /\ ~ (j + BufTokens <= i)
        BY <1>2, <1>3, <2>3, Numbers
      <4>. QED
        BY <1>2, <2>3, <4>1, Spread, Numbers
    <3>2. i % BufTokens \in 0 .. BufTokens - 1
      BY SmallMod, Numbers
    <3>3. i \notin sPend[p]
      BY <1>5, <2>3
    <3>4. slot[p][i % BufTokens] = <<call, p, TokenAt(p, i)>>
      BY <2>3, <3>3 DEF IInv, SlotsHold
    <3>. QED
      BY <1>7, <2>3, <3>1, <3>2, <3>4
  <2>. QED
    BY <2>1, <2>2, <2>3
<1>13. WalkOK' /\ ReadingOK' /\ ReportsOK' /\ HeadBehindReaders' /\ ReducedRight'
  BY RouteKept DEF IInv, WalkOK, ReadingOK, ReportsOK, HeadBehindReaders, ReducedRight,
                   KernelStarted
<1>. QED
  BY <1>8, <1>9, <1>10, <1>11, <1>12, <1>13 DEF IInv

LEMMA PublishTailOK ==
  ASSUME IInv, NEW p \in Ranks, PublishTail(p)
  PROVE  IInv'
<1>. USE DEF PublishTail, handleVars, moverVars, warpVars
<1>1. /\ tail \in [Ranks -> 0 .. NumTokens] /\ sPc \in [Ranks -> {"wait", "fill", "done"}]
      /\ sTail \in [Ranks -> 0 .. NumTokens] /\ sPend[p] = {}
  BY DEF IInv, Shape, TypeOK, AllFilled
<1>2. /\ tail' \in [Ranks -> 0 .. NumTokens] /\ sPc' \in [Ranks -> {"wait", "fill", "done"}]
      /\ tail'[p] = sTail[p]
      /\ \A r \in Ranks : r # p => tail'[r] = tail[r] /\ sPc'[r] = sPc[r]
  BY <1>1
<1>3. Shape'
  <2>1. TypeOK'
    BY <1>2 DEF IInv, Shape, TypeOK
  <2>. QED
    BY <2>1 DEF IInv, Shape
<1>4. HandleOK'
  BY RouteKept DEF IInv, HandleOK
<1>5. AtRest'
  BY DEF IInv, AtRest
<1>6. QueueOK'
  <2>. SUFFICES ASSUME NEW r \in Ranks
       PROVE  /\ sharedTail[r] <= tail'[r] /\ tail'[r] <= sTail[r] /\ sTail[r] <= CountOf(r)
              /\ sTail[r] <= head[r] + BufTokens
              /\ sPc'[r] # "fill" => sPend[r] = {}
              /\ \A i \in sPend[r] : /\ tail'[r] <= i /\ i < sTail[r]
                                     /\ sTail[r] <= i + BufTokens
    BY RouteKept DEF QueueOK
  <2>1. CASE r = p
    <3>1. sharedTail[p] <= sTail[p]
      BY QueueTypes
    <3>2. sTail[p] \in Nat /\ sTail[p] <= CountOf(p) /\ sTail[p] <= head[p] + BufTokens
      BY QueueTypes DEF IInv, QueueOK
    <3>. QED
      BY <1>1, <1>2, <2>1, <3>1, <3>2
  <2>2. CASE r # p
    BY <1>2, <2>2 DEF IInv, QueueOK
  <2>. QED
    BY <2>1, <2>2
<1>7. SlotsHold'
  BY RouteKept DEF IInv, SlotsHold
<1>8. WalkOK' /\ ReadingOK' /\ ReportsOK' /\ HeadBehindReaders' /\ ReducedRight'
  BY RouteKept DEF IInv, WalkOK, ReadingOK, ReportsOK, HeadBehindReaders, ReducedRight,
                   KernelStarted
<1>. QED
  BY <1>3, <1>4, <1>5, <1>6, <1>7, <1>8 DEF IInv

LEMMA ReadTailOK ==
  ASSUME IInv, NEW p \in Ranks, ReadTail(p)
  PROVE  IInv'
<1>. USE DEF ReadTail, handleVars, senderVars, warpVars
<1>1. tail \in [Ranks -> 0 .. NumTokens] /\ sharedTail \in [Ranks -> 0 .. NumTokens]
  BY DEF IInv, Shape, TypeOK
<1>2. /\ sharedTail' \in [Ranks -> 0 .. NumTokens] /\ sharedTail'[p] = tail[p]
      /\ \A r \in Ranks : r # p => sharedTail'[r] = sharedTail[r]
  BY <1>1
<1>3. \A r \in Ranks : sharedTail[r] <= sharedTail'[r] /\ sharedTail'[r] <= tail[r]
  BY <1>1, <1>2, QueueTypes
<1>4. Shape'
  <2>1. TypeOK'
    BY <1>2 DEF IInv, Shape, TypeOK
  <2>. QED
    BY <2>1 DEF IInv, Shape
<1>5. HandleOK'
  BY RouteKept DEF IInv, HandleOK
<1>6. AtRest'
  BY DEF IInv, AtRest
<1>7. QueueOK' /\ SlotsHold'
  BY <1>3, RouteKept DEF IInv, QueueOK, SlotsHold
<1>8. ReadingOK'
  <2>. SUFFICES ASSUME NEW w \in 1 .. Warps, wPc[w] = "reduce", NEW r \in wPend[w]
       PROVE  PlaceOf(r, wTok[w]) < sharedTail'[r]
    BY RouteKept DEF IInv, ReadingOK, KernelStarted
  <2>1. r \in Ranks /\ wTok[w] \in Nat
    BY Numbers DEF IInv, Shape, TypeOK
  <2>2. PlaceOf(r, wTok[w]) < sharedTail[r]
    BY DEF IInv, ReadingOK
  <2>3. PlaceOf(r, wTok[w]) \in 0 .. wTok[w]
    BY <2>1, PlaceIsNat
  <2>4. sharedTail[r] \in Nat /\ sharedTail'[r] \in Nat
    BY <1>1, <1>2, <2>1, Numbers
  <2>. QED
    BY <1>3, <2>1, <2>2, <2>3, <2>4
<1>9. WalkOK' /\ ReportsOK' /\ HeadBehindReaders' /\ ReducedRight'
  BY RouteKept DEF IInv, WalkOK, ReportsOK, HeadBehindReaders, ReducedRight
<1>. QED
  BY <1>4, <1>5, <1>6, <1>7, <1>8, <1>9 DEF IInv

\* A token not yet reduced holds back the warp that is to reduce it.
LEMMA UnreducedHolds ==
  ASSUME IInv, call > 0, NEW t \in Tokens, recvX[t] = NotYet, NEW r \in Ranks, r \in route[t]
  PROVE  Owner(t) \in Active /\ warpHead[Owner(t)][r] <= PlaceOf(r, t)
<1>. DEFINE w == Owner(t)
<1>1. t \in Nat /\ t < NumTokens /\ NumTokens \in Nat /\ w \in 1 .. Warps
  BY Numbers, OwnerIsWarp
<1>2. wTok[w] \in Nat /\ warpHead[w][r] \in Nat
  <2>1. wTok \in [1 .. Warps -> 0 .. NumTokens + Warps - 1]
        /\ warpHead \in [1 .. Warps -> [Ranks -> 0 .. NumTokens \cup {Beyond}]]
    BY DEF IInv, Shape, TypeOK
  <2>. QED
    BY <1>1, <2>1, Numbers
<1>3. wTok[w] <= t
  BY DEF IInv, WalkOK
<1>. HIDE DEF w
<1>4. w \notin retired
  BY <1>1, <1>2, <1>3 DEF IInv, ReadingOK
<1>5. PlaceOf(r, wTok[w]) <= PlaceOf(r, t)
  BY <1>1, <1>2, <1>3, PlaceGrows
<1>6. PlaceOf(r, t) \in Nat /\ PlaceOf(r, t) < CountOf(r)
  BY PlaceInCount
<1>7. PlaceOf(r, wTok[w]) \in 0 .. wTok[w] /\ CountOf(r) \in Nat
  <2>1. PlaceOf(r, wTok[w]) \in 0 .. wTok[w]
    BY <1>2, PlaceIsNat
  <2>2. CountOf(r) \in 0 .. NumTokens
    BY CountIsPlace
  <2>. QED
    BY <2>1, <2>2, Numbers
<1>8. wTok[w] < NumTokens /\ PlaceOf(r, wTok[w]) < CountOf(r)
  BY <1>1, <1>2, <1>3, <1>5, <1>6, <1>7
<1>9. warpHead[w][r] <= PlaceOf(r, wTok[w])
  BY <1>1, <1>8 DEF IInv, ReportsOK
<1>10. warpHead[w][r] <= PlaceOf(r, t)
  BY <1>2, <1>5, <1>6, <1>7, <1>9
<1>. QED
  BY <1>1, <1>4, <1>10 DEF Active, w

LEMMA LeastHead ==
  ASSUME IInv, NEW r \in Ranks, Active # {}
  PROVE  /\ MinHead(r) \in 0 .. NumTokens \cup {Beyond} /\ MinHead(r) \in Nat
         /\ \A w \in Active : MinHead(r) <= warpHead[w][r]
<1>. DEFINE S == {warpHead[w][r] : w \in Active}
<1>1. warpHead \in [1 .. Warps -> [Ranks -> 0 .. NumTokens \cup {Beyond}]]
  BY DEF IInv, Shape, TypeOK
<1>2. S \subseteq 0 .. NumTokens \cup {Beyond} /\ S # {}
  BY <1>1 DEF Active
<1>3. S \in SUBSET Nat
  BY <1>2, Numbers
<1>4. PICK x \in S : \A y \in S : x <= y
  BY <1>2, <1>3, LeastOf
<1>5. x \in S /\ \A w \in Active : x <= warpHead[w][r]
  BY <1>4
<1>6. /\ MinHead(r) \in S
      /\ \A w \in Active : MinHead(r) <= warpHead[w][r]
  BY <1>5 DEF MinHead
<1>. QED
  BY <1>2, <1>3, <1>6

LEMMA MoveHeadOK ==
  ASSUME IInv, NEW p \in Ranks, MoveHead(p)
  PROVE  IInv'
<1>. USE DEF MoveHead, handleVars, senderVars, warpVars
<1>1. /\ MinHead(p) \in 0 .. NumTokens \cup {Beyond} /\ MinHead(p) \in Nat
      /\ \A w \in Active : MinHead(p) <= warpHead[w][p]
      /\ MinHead(p) > head[p]
  BY LeastHead
<1>2. head \in [Ranks -> 0 .. NumTokens \cup {Beyond}]
  BY DEF IInv, Shape, TypeOK
<1>3. /\ head' \in [Ranks -> 0 .. NumTokens \cup {Beyond}] /\ head'[p] = MinHead(p)
      /\ \A r \in Ranks : r # p => head'[r] = head[r]
  BY <1>1, <1>2
<1>4. Shape'
  <2>1. TypeOK'
    BY <1>3 DEF IInv, Shape, TypeOK
  <2>. QED
    BY <2>1 DEF IInv, Shape
<1>5. HandleOK'
  BY RouteKept DEF IInv, HandleOK
<1>6. AtRest'
  BY DEF IInv, AtRest
<1>7. QueueOK'
  <2>. SUFFICES ASSUME NEW r \in Ranks PROVE sTail[r] <= head'[r] + BufTokens
    BY RouteKept DEF IInv, QueueOK
  <2>1. sTail[r] <= head[r] + BufTokens /\ sTail[r] \in Nat /\ head[r] \in Nat
    BY QueueTypes DEF IInv, QueueOK
  <2>2. head'[r] \in Nat /\ head[r] <= head'[r]
    BY <1>1, <1>3, <2>1
  <2>. QED
    BY <2>1, <2>2, Numbers
<1>8. HeadBehindReaders'
  <2>. SUFFICES ASSUME NEW r \in Ranks, NEW t \in Tokens, r \in route[t], recvX[t] = NotYet
       PROVE  head'[r] <= PlaceOf(r, t)
    BY RouteKept DEF HeadBehindReaders
  <2>1. CASE r = p
    <3>1. call > 0
      BY Numbers DEF IInv, AtRest, Shape, TypeOK
    <3>2. Owner(t) \in Active /\ warpHead[Owner(t)][p] <= PlaceOf(p, t)
      BY <2>1, <3>1, UnreducedHolds
    <3>3. MinHead(p) <= warpHead[Owner(t)][p]
      BY <1>1, <3>2
    <3>4. PlaceOf(p, t) \in Nat
      BY <2>1, PlaceInCount
    <3>5. warpHead[Owner(t)][p] \in Nat
      <4>1. warpHead \in [1 .. Warps -> [Ranks -> 0 .. NumTokens \cup {Beyond}]]
        BY DEF IInv, Shape, TypeOK
      <4>. QED
        BY <3>2, <4>1, Numbers DEF Active
    <3>. QED
      BY <1>1, <1>3, <2>1, <3>2, <3>3, <3>4, <3>5
  <2>2. CASE r # p
    BY <1>3, <2>2 DEF IInv, HeadBehindReaders
  <2>. QED
    BY <2>1, <2>2
<1>9. SlotsHold' /\ WalkOK' /\ ReadingOK' /\ ReportsOK' /\ ReducedRight'
  BY RouteKept DEF IInv, SlotsHold, WalkOK, ReadingOK, ReportsOK, ReducedRight, KernelStarted
<1>. QED
  BY <1>4, <1>5, <1>6, <1>7, <1>8, <1>9 DEF IInv

LEMMA StopMovingOK ==
  ASSUME IInv, NEW p \in Ranks, StopMoving(p)
  PROVE  IInv'
<1>. USE DEF StopMoving, handleVars, senderVars, warpVars
<1>1. Shape' /\ AtRest'
  BY DEF IInv, Shape, TypeOK, AtRest
<1>2. HandleOK' /\ QueueOK' /\ SlotsHold' /\ WalkOK' /\ ReportsOK'
  BY RouteKept DEF IInv, HandleOK, QueueOK, SlotsHold, WalkOK, ReportsOK
<1>3. ReadingOK' /\ HeadBehindReaders' /\ ReducedRight'
  BY RouteKept DEF IInv, ReadingOK, HeadBehindReaders, ReducedRight, KernelStarted
<1>. QED
  BY <1>1, <1>2, <1>3 DEF IInv

LEMMA WarpTypes ==
  ASSUME IInv, NEW w \in 1 .. Warps
  PROVE  /\ wTok[w] \in Nat /\ wTok \in [1 .. Warps -> 0 .. NumTokens + Warps - 1]
         /\ wPc \in [1 .. Warps -> {"wait", "reduce"}]
         /\ wPend \in [1 .. Warps -> SUBSET Ranks] /\ DOMAIN wAcc = 1 .. Warps
         /\ wTok[w] < NumTokens => wTok[w] \in Tokens
<1>1. /\ wTok \in [1 .. Warps -> 0 .. NumTokens + Warps - 1]
      /\ wPc \in [1 .. Warps -> {"wait", "reduce"}]
      /\ wPend \in [1 .. Warps -> SUBSET Ranks] /\ DOMAIN wAcc = 1 .. Warps
  BY DEF IInv, Shape, TypeOK
<1>2. wTok[w] \in Nat
  BY <1>1, Numbers
<1>. QED
  BY <1>1, <1>2, Numbers DEF Tokens

LEMMA TailsReachedOK ==
  ASSUME IInv, NEW w \in 1 .. Warps, TailsReached(w)
  PROVE  IInv'
<1>. USE DEF TailsReached, handleVars, senderVars, moverVars
<1>. DEFINE t == wTok[w]
<1>1. /\ t \in Tokens /\ t < NumTokens
      /\ wPc \in [1 .. Warps -> {"wait", "reduce"}]
      /\ wPend \in [1 .. Warps -> SUBSET Ranks] /\ DOMAIN wAcc = 1 .. Warps
  BY WarpTypes
<1>2. call > 0
  <2>1. w \notin retired
    BY <1>1, WarpTypes, Numbers DEF IInv, ReadingOK
  <2>2. call # 0 /\ call \in Nat
    BY <2>1, Numbers DEF IInv, AtRest, Shape, TypeOK
  <2>. QED
    BY <2>2
<1>3. /\ wPc' = [wPc EXCEPT ![w] = "reduce"] /\ wAcc' = [wAcc EXCEPT ![w] = {}]
      /\ wPend' = [wPend EXCEPT ![w] = route[t]]
  <2>1. {r \in Ranks : sendHead[t][r] >= 0} = route[t]
    BY <1>1, HoldersShown, HoldersAreRanks DEF IInv, Shape
  <2>. QED
    BY <2>1 DEF Expected
<1>4. route[t] \subseteq Ranks
  BY <1>1, HoldersAreRanks DEF IInv, Shape
<1>5. \A r \in route[t] : PlaceOf(r, t) < sharedTail[r]
  <2>. SUFFICES ASSUME NEW r \in route[t] PROVE PlaceOf(r, t) < sharedTail[r]
    OBVIOUS
  <2>1. r \in Ranks /\ sharedTail[r] \in Nat
    BY <1>4, QueueTypes
  <2>2. sendHead[t][r] = PlaceOf(r, t) /\ PlaceOf(r, t) \in Nat
    BY <1>1, <2>1, PlaceInCount DEF IInv, HandleOK
  <2>3. ~ (sharedTail[r] <= PlaceOf(r, t))
    BY <2>1, <2>2 DEF TailsSeen, Expected
  <2>. QED
    BY <2>1, <2>2, <2>3
<1>. HIDE DEF t
<1>6. /\ wPc' \in [1 .. Warps -> {"wait", "reduce"}] /\ wPc'[w] = "reduce"
      /\ wPend' \in [1 .. Warps -> SUBSET Ranks] /\ wPend'[w] = route[t]
      /\ DOMAIN wAcc' = 1 .. Warps /\ wAcc'[w] = {}
      /\ \A v \in 1 .. Warps : v # w =>
           wPc'[v] = wPc[v] /\ wPend'[v] = wPend[v] /\ wAcc'[v] = wAcc[v]
  BY <1>1, <1>3, <1>4
<1>7. Shape'
  <2>1. TypeOK'
    BY <1>6 DEF IInv, Shape, TypeOK
  <2>. QED
    BY <1>6, <2>1 DEF IInv, Shape
<1>8. ReadingOK'
  <2>. SUFFICES ASSUME NEW v \in 1 .. Warps
       PROVE  /\ v \in retired => wTok[v] >= NumTokens
              /\ wPc'[v] = "wait" => wPend'[v] = {}
              /\ wPc'[v] = "reduce" =>
                   /\ call > 0 /\ wTok[v] < NumTokens /\ KernelStarted
                   /\ wPend'[v] \subseteq route[wTok[v]]
                   /\ \A r \in wPend'[v] : PlaceOf(r, wTok[v]) < sharedTail[r]
                   /\ wAcc'[v] = {<<call, r, wTok[v]>> : r \in route[wTok[v]] \ wPend'[v]}
    BY RouteKept DEF ReadingOK, KernelStarted
  <2>1. CASE v = w
    <3>1. {<<call, r, t>> : r \in route[t] \ route[t]} = {}
      OBVIOUS
    <3>2. w \in retired => wTok[w] >= NumTokens
      BY DEF IInv, ReadingOK
    <3>. QED
      BY <1>1, <1>2, <1>5, <1>6, <2>1, <3>1, <3>2 DEF t
  <2>2. CASE v # w
    BY <1>6, <2>2 DEF IInv, ReadingOK
  <2>. QED
    BY <2>1, <2>2
<1>9. HandleOK' /\ QueueOK' /\ SlotsHold' /\ WalkOK' /\ ReportsOK'
  BY RouteKept DEF IInv, HandleOK, QueueOK, SlotsHold, WalkOK, ReportsOK
<1>10. AtRest' /\ HeadBehindReaders' /\ ReducedRight'
  BY <1>2, RouteKept DEF AtRest, IInv, HeadBehindReaders, ReducedRight
<1>. QED
  BY <1>7, <1>8, <1>9, <1>10 DEF IInv

\* A slot a warp reads holds what this call's sender put there for its token.
LEMMA SlotRead ==
  ASSUME IInv, NEW w \in 1 .. Warps, wPc[w] = "reduce", NEW r \in wPend[w]
  PROVE  slot[r][Expected(w)[r] % BufTokens] = <<call, r, wTok[w]>>
<1>. DEFINE t == wTok[w]
            i == PlaceOf(r, t)
<1>1. /\ t \in Tokens /\ r \in Ranks /\ call > 0
  BY WarpTypes DEF IInv, ReadingOK
<1>2. r \in route[t] /\ i < sharedTail[r]
  BY DEF IInv, ReadingOK
<1>3. i \in Nat /\ sendHead[t][r] = i /\ TokenAt(r, i) = t
  BY <1>1, <1>2, PlaceInCount, TokenAtPlace DEF IInv, HandleOK
<1>4. head[r] <= i
  <2>1. wTok[Owner(t)] <= t
    <3>1. t % Warps = w - 1
      BY <1>1 DEF IInv, WalkOK
    <3>2. Owner(t) = w
      BY <3>1, Numbers DEF Owner
    <3>. QED
      BY <3>2, WarpTypes
  <2>2. recvX[t] = NotYet
    BY <1>1, <2>1 DEF IInv, WalkOK
  <2>. QED
    BY <1>1, <1>2, <2>2 DEF IInv, HeadBehindReaders
<1>. HIDE DEF i, t
<1>5. /\ tail[r] \in Nat /\ sharedTail[r] \in Nat /\ sTail[r] \in Nat /\ head[r] \in Nat
      /\ tail[r] <= sTail[r] /\ sharedTail[r] <= tail[r] /\ sPend[r] \subseteq Int
  BY <1>1, QueueTypes
<1>6. i < sTail[r]
  BY <1>2, <1>3, <1>5
<1>7. i \notin sPend[r]
  BY <1>1, <1>2, <1>3, <1>5 DEF IInv, QueueOK
<1>8. sTail[r] <= i + BufTokens
  <2>1. sTail[r] <= head[r] + BufTokens
    BY <1>1 DEF IInv, QueueOK
  <2>. QED
    BY <1>3, <1>4, <1>5, <2>1, Numbers
<1>9. slot[r][i % BufTokens] = <<call, r, t>>
  BY <1>1, <1>3, <1>6, <1>7, <1>8 DEF IInv, SlotsHold
<1>. QED
  BY <1>3, <1>9 DEF Expected, t

LEMMA ReadSlotOK ==
  ASSUME IInv, NEW w \in 1 .. Warps, ReadSlot(w)
  PROVE  IInv'
<1>. USE DEF ReadSlot, handleVars, senderVars, moverVars
<1>1. PICK p \in wPend[w] :
        /\ wAcc'  = [wAcc EXCEPT ![w] = wAcc[w] \cup {slot[p][Expected(w)[p] % BufTokens]}]
        /\ wPend' = [wPend EXCEPT ![w] = wPend[w] \ {p}]
  OBVIOUS
<1>2. /\ wPc \in [1 .. Warps -> {"wait", "reduce"}]
      /\ wPend \in [1 .. Warps -> SUBSET Ranks] /\ DOMAIN wAcc = 1 .. Warps
  BY WarpTypes
<1>3. wPc[w] = "reduce"
  BY <1>1, <1>2 DEF IInv, ReadingOK
<1>4. slot[p][Expected(w)[p] % BufTokens] = <<call, p, wTok[w]>>
  BY <1>3, SlotRead
<1>5. /\ wPend' \in [1 .. Warps -> SUBSET Ranks] /\ wPend'[w] = wPend[w] \ {p}
      /\ DOMAIN wAcc' = 1 .. Warps /\ wAcc'[w] = wAcc[w] \cup {<<call, p, wTok[w]>>}
      /\ \A v \in 1 .. Warps : v # w => wPend'[v] = wPend[v] /\ wAcc'[v] = wAcc[v]
  BY <1>1, <1>2, <1>4
<1>6. Shape'
  <2>1. TypeOK'
    BY <1>5 DEF IInv, Shape, TypeOK
  <2>. QED
    BY <1>5, <2>1 DEF IInv, Shape
<1>7. ReadingOK'
  <2>. SUFFICES ASSUME NEW v \in 1 .. Warps
       PROVE  /\ v \in retired => wTok[v] >= NumTokens
              /\ wPc[v] = "wait" => wPend'[v] = {}
              /\ wPc[v] = "reduce" =>
                   /\ call > 0 /\ wTok[v] < NumTokens /\ KernelStarted
                   /\ wPend'[v] \subseteq route[wTok[v]]
                   /\ \A r \in wPend'[v] : PlaceOf(r, wTok[v]) < sharedTail[r]
                   /\ wAcc'[v] = {<<call, r, wTok[v]>> : r \in route[wTok[v]] \ wPend'[v]}
    BY RouteKept DEF ReadingOK, KernelStarted
  <2>1. CASE v = w
    <3>. DEFINE R == route[wTok[w]]
                P == wPend[w]
    <3>1. P \subseteq R /\ wAcc[w] = {<<call, r, wTok[w]>> : r \in R \ P} /\ p \in P
      BY <1>1, <1>3 DEF IInv, ReadingOK
    <3>. HIDE DEF R
    <3>2. {<<call, r, wTok[w]>> : r \in R \ P} \cup {<<call, p, wTok[w]>>}
            = {<<call, r, wTok[w]>> : r \in R \ (P \ {p})}
      BY <3>1
    <3>3. wAcc'[w] = {<<call, r, wTok[w]>> : r \in R \ wPend'[w]}
      BY <1>5, <3>1, <3>2
    <3>. QED
      BY <1>3, <1>5, <2>1, <3>3 DEF R, IInv, ReadingOK
  <2>2. CASE v # w
    BY <1>5, <2>2 DEF IInv, ReadingOK
  <2>. QED
    BY <2>1, <2>2
<1>8. HandleOK' /\ QueueOK' /\ SlotsHold' /\ WalkOK' /\ ReportsOK'
  BY RouteKept DEF IInv, HandleOK, QueueOK, SlotsHold, WalkOK, ReportsOK
<1>9. AtRest' /\ HeadBehindReaders' /\ ReducedRight'
  <2>1. call > 0
    BY <1>3 DEF IInv, ReadingOK
  <2>2. call \in Nat
    BY Numbers DEF IInv, Shape, TypeOK
  <2>. QED
    BY <2>1, <2>2, RouteKept DEF AtRest, IInv, HeadBehindReaders, ReducedRight
<1>. QED
  BY <1>6, <1>7, <1>8, <1>9 DEF IInv

\* The head a warp reports: past its token, or where the rank is next.
LEMMA Reported ==
  ASSUME IInv, NEW w \in 1 .. Warps, wPc[w] = "reduce", NEW r \in Ranks
  PROVE  /\ ReportedHead(Expected(w)[r])
              = IF r \in route[wTok[w]] THEN PlaceOf(r, wTok[w]) + 1 ELSE Later(r, wTok[w])
         /\ ReportedHead(Expected(w)[r]) \in 0 .. NumTokens \cup {Beyond}
<1>. DEFINE t == wTok[w]
<1>1. t \in Tokens /\ call > 0 /\ encoded = Ranks
  BY WarpTypes DEF IInv, ReadingOK, KernelStarted
<1>2. PlaceOf(r, t) \in 0 .. NumTokens - 1 /\ Later(r, t) \in 0 .. NumTokens - 1 \cup {Beyond}
  BY <1>1, LaterRange
<1>. HIDE DEF t
<1>3. CASE r \in route[t]
  <2>1. sendHead[t][r] = PlaceOf(r, t)
    BY <1>1, <1>3 DEF IInv, HandleOK
  <2>. QED
    BY <1>2, <1>3, <2>1, Numbers DEF Expected, ReportedHead, t
<1>4. CASE r \notin route[t]
  <2>1. sendHead[t][r] = -Later(r, t) - 1
    BY <1>1, <1>4 DEF IInv, HandleOK
  <2>2. Later(r, t) \in Nat /\ Later(r, t) \in 0 .. NumTokens \cup {Beyond}
    BY <1>2, Numbers
  <2>. QED
    BY <1>4, <2>1, <2>2 DEF Expected, ReportedHead, t
<1>. QED
  BY <1>3, <1>4

LEMMA FinishTokenOK ==
  ASSUME IInv, NEW w \in 1 .. Warps, FinishToken(w)
  PROVE  IInv'
<1>. USE DEF FinishToken, handleVars, senderVars, moverVars
<1>. DEFINE t == wTok[w]
            done == {<<call, r, t>> : r \in route[t]}
<1>1. /\ wTok \in [1 .. Warps -> 0 .. NumTokens + Warps - 1]
      /\ wPc \in [1 .. Warps -> {"wait", "reduce"}] /\ DOMAIN wAcc = 1 .. Warps
      /\ t \in Nat
  BY WarpTypes
<1>2. call > 0 /\ t < NumTokens /\ t \in Tokens /\ wAcc[w] = done /\ route' = route
  BY WarpTypes DEF IInv, ReadingOK
<1>. HIDE DEF t, done
<1>3. /\ recvX' = [recvX EXCEPT ![t] = done]
      /\ wTok' = [wTok EXCEPT ![w] = t + Warps]
      /\ wPc' = [wPc EXCEPT ![w] = "wait"] /\ wAcc' = [wAcc EXCEPT ![w] = {}]
      /\ warpHead' = [warpHead EXCEPT ![w] =
                        [r \in Ranks |-> ReportedHead(Expected(w)[r])]]
  BY <1>2 DEF t
<1>4. /\ warpHead \in [1 .. Warps -> [Ranks -> 0 .. NumTokens \cup {Beyond}]]
      /\ DOMAIN recvX = Tokens
  BY DEF IInv, Shape, TypeOK
<1>5. warpHead' \in [1 .. Warps -> [Ranks -> 0 .. NumTokens \cup {Beyond}]]
  <2>1. [r \in Ranks |-> ReportedHead(Expected(w)[r])] \in [Ranks -> 0 .. NumTokens \cup {Beyond}]
    BY Reported
  <2>. QED
    BY <1>3, <1>4, <2>1
<1>6. /\ wTok' \in [1 .. Warps -> 0 .. NumTokens + Warps - 1] /\ wTok'[w] = t + Warps
      /\ \A v \in 1 .. Warps : v # w => wTok'[v] = wTok[v]
  BY <1>1, <1>2, <1>3, Numbers
<1>7. /\ wPc' \in [1 .. Warps -> {"wait", "reduce"}] /\ wPc'[w] = "wait"
      /\ DOMAIN wAcc' = 1 .. Warps
      /\ \A v \in 1 .. Warps : v # w => wPc'[v] = wPc[v] /\ wAcc'[v] = wAcc[v]
  BY <1>1, <1>3
<1>8. /\ DOMAIN recvX' = Tokens /\ recvX'[t] = done
      /\ \A u \in Tokens : u # t => recvX'[u] = recvX[u]
  BY <1>2, <1>3, <1>4
<1>9. done # NotYet
  <2>1. \A r : <<call, r, t>> # <<>>
    OBVIOUS
  <2>. QED
    BY <2>1 DEF done, NotYet, None
<1>10. Shape'
  <2>1. TypeOK'
    BY <1>5, <1>6, <1>7 DEF IInv, Shape, TypeOK
  <2>. QED
    BY <1>7, <1>8, <2>1 DEF IInv, Shape
<1>11. HandleOK' /\ QueueOK' /\ SlotsHold'
  BY RouteKept DEF IInv, HandleOK, QueueOK, SlotsHold
<1>12. AtRest'
  BY <1>2 DEF AtRest
<1>13. Owner(t) = w /\ t % Warps = w - 1
  BY <1>2, Numbers DEF IInv, WalkOK, Owner, t
<1>14. WalkOK'
  <2>1. ASSUME NEW v \in 1 .. Warps PROVE wTok'[v] % Warps = v - 1
    <3>1. CASE v = w
      <4>1. (t + Warps) % Warps = t % Warps
        BY <1>1, AddRound, Numbers
      <4>. QED
        BY <1>6, <1>13, <3>1, <4>1
    <3>2. CASE v # w
      BY <1>2, <1>6, <3>2 DEF IInv, WalkOK
    <3>. QED
      BY <3>1, <3>2
  <2>2. ASSUME NEW u \in Tokens PROVE recvX'[u] = NotYet <=> wTok'[Owner(u)] <= u
    <3>1. u \in Nat /\ Owner(u) \in 1 .. Warps /\ u % Warps = Owner(u) - 1
      BY Numbers, OwnerIsWarp
    <3>2. recvX[u] = NotYet <=> wTok[Owner(u)] <= u
      BY <1>2 DEF IInv, WalkOK
    <3>3. CASE u = t
      <4>1. wTok'[Owner(u)] = t + Warps
        BY <1>6, <1>13, <3>3
      <4>. QED
        BY <1>1, <1>8, <1>9, <3>3, <4>1, Numbers
    <3>4. CASE u # t /\ Owner(u) # w
      BY <1>6, <1>8, <3>1, <3>2, <3>4
    <3>5. CASE u # t /\ Owner(u) = w
      <4>1. u % Warps = t % Warps
        BY <1>13, <3>1, <3>5
      <4>2. t < u => t + Warps <= u
        BY <1>1, <3>1, <4>1, Spread, Numbers
      <4>3. wTok'[Owner(u)] = t + Warps /\ recvX'[u] = recvX[u] /\ wTok[Owner(u)] = t
        BY <1>6, <1>8, <3>5 DEF t
      <4>4. t <= u <=> t + Warps <= u
        BY <1>1, <3>1, <3>5, <4>2, Numbers
      <4>. QED
        BY <3>2, <4>3, <4>4
    <3>. QED
      BY <3>3, <3>4, <3>5
  <2>. QED
    BY <2>1, <2>2 DEF WalkOK
<1>15. ReadingOK'
  <2>. SUFFICES ASSUME NEW v \in 1 .. Warps
       PROVE  /\ v \in retired => wTok'[v] >= NumTokens
              /\ wPc'[v] = "wait" => wPend[v] = {}
              /\ wPc'[v] = "reduce" =>
                   /\ call > 0 /\ wTok'[v] < NumTokens /\ KernelStarted
                   /\ wPend[v] \subseteq route[wTok'[v]]
                   /\ \A r \in wPend[v] : PlaceOf(r, wTok'[v]) < sharedTail[r]
                   /\ wAcc'[v] = {<<call, r, wTok'[v]>> : r \in route[wTok'[v]] \ wPend[v]}
    BY RouteKept DEF ReadingOK, KernelStarted
  <2>1. CASE v = w
    <3>1. w \notin retired
      BY <1>1, <1>2, Numbers DEF IInv, ReadingOK, t
    <3>. QED
      BY <1>7, <2>1, <3>1
  <2>2. CASE v # w
    BY <1>6, <1>7, <2>2 DEF IInv, ReadingOK
  <2>. QED
    BY <2>1, <2>2
<1>16. ReportsOK'
  <2>. SUFFICES ASSUME NEW v \in 1 .. Warps, NEW r \in Ranks,
                       wTok'[v] < NumTokens, PlaceOf(r, wTok'[v]) < CountOf(r)
       PROVE  warpHead'[v][r] <= PlaceOf(r, wTok'[v])
    BY RouteKept DEF ReportsOK
  <2>1. CASE v = w
    <3>1. warpHead'[w][r] = ReportedHead(Expected(w)[r])
      BY <1>3, <1>4
    <3>2. warpHead'[w][r]
            = IF r \in route[t] THEN PlaceOf(r, t) + 1 ELSE Later(r, t)
      BY <3>1, Reported DEF t
    <3>3. t + Warps \in Nat /\ t < t + Warps
      BY <1>1, Numbers
    <3>4. PlaceOf(r, t) <= PlaceOf(r, t + Warps)
      BY <1>1, <3>3, PlaceGrows
    <3>5. PlaceOf(r, t) \in 0 .. t /\ PlaceOf(r, t + Warps) \in 0 .. t + Warps
      BY <1>1, <3>3, PlaceIsNat
    <3>6. CASE r \in route[t]
      BY <1>1, <1>6, <2>1, <3>2, <3>3, <3>6, PlaceBelow
    <3>7. CASE r \notin route[t]
      <4>1. CountOf(r) \in 0 .. NumTokens
        BY CountIsPlace
      <4>2. PlaceOf(r, t) < CountOf(r)
        BY <1>6, <2>1, <3>4, <3>5, <4>1
      <4>3. Later(r, t) = PlaceOf(r, t)
        BY <4>2 DEF Later
      <4>. QED
        BY <1>6, <2>1, <3>2, <3>4, <3>7, <4>3
    <3>. QED
      BY <3>6, <3>7
  <2>2. CASE v # w
    BY <1>3, <1>4, <1>6, <2>2 DEF IInv, ReportsOK
  <2>. QED
    BY <2>1, <2>2
<1>17. HeadBehindReaders'
  <2>. SUFFICES ASSUME NEW r \in Ranks, NEW u \in Tokens, r \in route[u], recvX'[u] = NotYet
       PROVE  head[r] <= PlaceOf(r, u)
    BY RouteKept DEF HeadBehindReaders
  <2>1. u # t /\ recvX[u] = NotYet
    BY <1>8, <1>9
  <2>. QED
    BY <2>1 DEF IInv, HeadBehindReaders
<1>18. ReducedRight'
  <2>. SUFFICES ASSUME NEW u \in Tokens
       PROVE  recvX'[u] = NotYet \/ recvX'[u] = {<<call, r, u>> : r \in route[u]}
    BY DEF ReducedRight
  <2>1. CASE u = t
    BY <1>8, <2>1 DEF done
  <2>2. CASE u # t
    BY <1>8, <2>2 DEF IInv, ReducedRight
  <2>. QED
    BY <2>1, <2>2
<1>. QED
  BY <1>10, <1>11, <1>12, <1>14, <1>15, <1>16, <1>17, <1>18 DEF IInv

LEMMA RetireOK ==
  ASSUME IInv, NEW w \in 1 .. Warps, Retire(w)
  PROVE  IInv'
<1>. USE DEF Retire, handleVars, senderVars, moverVars
<1>1. call > 0
  BY Numbers DEF IInv, AtRest, Shape, TypeOK
<1>2. Shape' /\ AtRest'
  BY <1>1 DEF IInv, Shape, TypeOK, AtRest
<1>3. HandleOK' /\ QueueOK' /\ SlotsHold' /\ WalkOK' /\ ReportsOK'
  BY RouteKept DEF IInv, HandleOK, QueueOK, SlotsHold, WalkOK, ReportsOK
<1>4. ReadingOK' /\ HeadBehindReaders' /\ ReducedRight'
  BY RouteKept DEF IInv, ReadingOK, HeadBehindReaders, ReducedRight, KernelStarted
<1>. QED
  BY <1>2, <1>3, <1>4 DEF IInv

\* A trap stops its rank and a stuttering step nothing: no other state changes.
LEMMA NothingMovedOK ==
  ASSUME IInv, UNCHANGED <<handleVars, senderVars, moverVars, warpVars>>, trapped' \subseteq Ranks
  PROVE  IInv'
<1>. USE DEF handleVars, senderVars, moverVars, warpVars
<1>1. Shape' /\ AtRest'
  BY DEF IInv, Shape, TypeOK, AtRest
<1>2. HandleOK' /\ QueueOK' /\ SlotsHold' /\ WalkOK' /\ ReportsOK'
  BY RouteKept DEF IInv, HandleOK, QueueOK, SlotsHold, WalkOK, ReportsOK
<1>3. ReadingOK' /\ HeadBehindReaders' /\ ReducedRight'
  BY RouteKept DEF IInv, ReadingOK, HeadBehindReaders, ReducedRight, KernelStarted
<1>. QED
  BY <1>1, <1>2, <1>3 DEF IInv

LEMMA StepOK == IInv /\ [Next]_vars => IInv'
<1>. SUFFICES ASSUME IInv, [Next]_vars PROVE IInv'
  OBVIOUS
<1>1. CASE StartCombine
  BY <1>1, StartCombineOK
<1>2. ASSUME NEW r \in Ranks, EncodeColumn(r) PROVE IInv'
  BY <1>2, EncodeColumnOK
<1>3. ASSUME NEW r \in Ranks, SenderStep(r) PROVE IInv'
  BY <1>3, TakeRoundOK, FillSlotOK, PublishTailOK DEF SenderStep
<1>4. ASSUME NEW r \in Ranks, TimeoutTrap(r) PROVE IInv'
  BY <1>4, NothingMovedOK DEF TimeoutTrap, IInv, Shape, TypeOK
<1>5. ASSUME NEW r \in Ranks, ReadTail(r) \/ MoveHead(r) \/ StopMoving(r) PROVE IInv'
  BY <1>5, ReadTailOK, MoveHeadOK, StopMovingOK
<1>6. ASSUME NEW w \in 1 .. Warps, WarpStep(w) PROVE IInv'
  BY <1>6, TailsReachedOK, ReadSlotOK, FinishTokenOK, RetireOK DEF WarpStep
<1>7. CASE UNCHANGED vars
  BY <1>7, NothingMovedOK DEF vars, IInv, Shape, TypeOK
<1>. QED
  BY <1>1, <1>2, <1>3, <1>4, <1>5, <1>6, <1>7 DEF Next

-----------------------------------------------------------------------------
(* The results.                                                            *)

\* The inductive invariant, of which the properties are parts.
THEOREM Invariance == Spec => []IInv
<1>1. Init => IInv
  BY InitOK
<1>2. IInv /\ [Next]_vars => IInv'
  BY StepOK
<1>. QED
  BY <1>1, <1>2, PTL DEF Spec

\* The state of the kernel keeps its types: counters and heads stay within the
\* tokens, or are the large head of a rank with no later token.
THEOREM TypeCorrect == Spec => []TypeOK
<1>1. IInv => TypeOK
  BY DEF IInv, Shape
<1>. QED
  BY <1>1, Invariance, PTL

\* A token is reduced from exactly the contributions of this call (combine's
\* recv loop), however the slots of the ring are used again meanwhile.
THEOREM ReducesRight == Spec => []ReducedRight
<1>1. IInv => ReducedRight
  BY DEF IInv
<1>. QED
  BY <1>1, Invariance, PTL

\* The head the updater publishes is never past a slot a warp has to read.
THEOREM HeadsStayBehind == Spec => []HeadBehindReaders
<1>1. IInv => HeadBehindReaders
  BY DEF IInv
<1>. QED
  BY <1>1, Invariance, PTL

LEMMA HeadsStep ==
  ASSUME NumTokens <= Beyond, IInv, [Next]_vars, call' = call
  PROVE  \A r \in Ranks : /\ head'[r] >= head[r]
                          /\ \A w \in 1 .. Warps : warpHead'[w][r] >= warpHead[w][r]
<1>. SUFFICES ASSUME NEW r \in Ranks
     PROVE  head'[r] >= head[r] /\ \A w \in 1 .. Warps : warpHead'[w][r] >= warpHead[w][r]
  OBVIOUS
<1>1. /\ warpHead \in [1 .. Warps -> [Ranks -> 0 .. NumTokens \cup {Beyond}]]
      /\ head \in [Ranks -> 0 .. NumTokens \cup {Beyond}] /\ call \in 0 .. MaxCalls
  BY DEF IInv, Shape, TypeOK
<1>2. head[r] \in Nat /\ \A w \in 1 .. Warps : warpHead[w][r] \in Nat
  BY <1>1, Numbers
<1>3. ~ StartCombine
  BY <1>1, Numbers DEF StartCombine
<1>4. ASSUME NEW p \in Ranks, MoveHead(p)
      PROVE  head'[r] >= head[r] /\ warpHead' = warpHead
  <2>1. MinHead(p) \in Nat /\ MinHead(p) > head[p] /\ head' = [head EXCEPT ![p] = MinHead(p)]
    BY <1>4, LeastHead DEF MoveHead
  <2>2. CASE r = p
    BY <1>1, <1>2, <1>4, <2>1, <2>2 DEF MoveHead, warpVars
  <2>3. CASE r # p
    BY <1>1, <1>2, <1>4, <2>1, <2>3 DEF MoveHead, warpVars
  <2>. QED
    BY <2>2, <2>3
<1>5. ASSUME NEW w \in 1 .. Warps, FinishToken(w)
      PROVE  /\ head' = head
             /\ \A v \in 1 .. Warps : warpHead'[v][r] >= warpHead[v][r]
  <2>. DEFINE t == wTok[w]
  <2>1. wPc[w] = "reduce" /\ t \in Tokens
    BY <1>5, WarpTypes DEF FinishToken, IInv, ReadingOK
  <2>2. /\ PlaceOf(r, t) \in 0 .. NumTokens - 1
        /\ ReportedHead(Expected(w)[r])
              = IF r \in route[t] THEN PlaceOf(r, t) + 1 ELSE Later(r, t)
    BY <2>1, Reported, LaterRange
  <2>3. CountOf(r) \in 0 .. NumTokens /\ (r \in route[t] => PlaceOf(r, t) < CountOf(r))
    BY <2>1, CountIsPlace, PlaceInCount
  <2>4. PlaceOf(r, t) < CountOf(r) => warpHead[w][r] <= PlaceOf(r, t)
    BY <2>1, Numbers DEF IInv, ReportsOK
  <2>. HIDE DEF t
  <2>5. ReportedHead(Expected(w)[r]) >= warpHead[w][r]
    <3>1. CASE PlaceOf(r, t) < CountOf(r)
      BY <1>2, <2>2, <2>4, <3>1 DEF Later
    <3>2. CASE ~ (PlaceOf(r, t) < CountOf(r))
      <4>1. ReportedHead(Expected(w)[r]) = Beyond
        BY <2>2, <2>3, <3>2 DEF Later
      <4>2. warpHead[w][r] <= Beyond
        BY <1>1, Numbers
      <4>. QED
        BY <1>2, <4>1, <4>2, Numbers
    <3>. QED
      BY <3>1, <3>2
  <2>6. warpHead' = [warpHead EXCEPT ![w] =
                       [q \in Ranks |-> ReportedHead(Expected(w)[q])]]
    BY <1>5 DEF FinishToken
  <2>7. ASSUME NEW v \in 1 .. Warps PROVE warpHead'[v][r] >= warpHead[v][r]
    <3>1. CASE v = w
      <4>1. warpHead'[w][r] = ReportedHead(Expected(w)[r])
        BY <1>1, <2>6
      <4>. QED
        BY <2>5, <3>1, <4>1
    <3>2. CASE v # w
      BY <1>1, <1>2, <2>6, <3>2
    <3>. QED
      BY <3>1, <3>2
  <2>. QED
    BY <1>5, <2>7 DEF FinishToken, moverVars
<1>6. CASE UNCHANGED <<head, warpHead>>
  BY <1>2, <1>6
<1>7. ASSUME NEW p \in Ranks,
             EncodeColumn(p) \/ SenderStep(p) \/ TimeoutTrap(p) \/ ReadTail(p) \/ StopMoving(p)
      PROVE  UNCHANGED <<head, warpHead>>
  BY <1>7 DEF EncodeColumn, SenderStep, TakeRound, FillSlot, PublishTail, TimeoutTrap,
              ReadTail, StopMoving, moverVars, warpVars
<1>8. ASSUME NEW w \in 1 .. Warps, TailsReached(w) \/ ReadSlot(w) \/ Retire(w)
      PROVE  UNCHANGED <<head, warpHead>>
  BY <1>8 DEF TailsReached, ReadSlot, Retire, moverVars
<1>9. CASE UNCHANGED vars
  BY <1>6, <1>9 DEF vars, moverVars, warpVars
<1>10. CASE \E p \in Ranks : MoveHead(p)
  <2>1. head'[r] >= head[r] /\ warpHead' = warpHead
    BY <1>4, <1>10
  <2>. QED
    BY <1>2, <2>1
<1>11. CASE \E w \in 1 .. Warps : FinishToken(w)
  <2>1. head' = head /\ \A v \in 1 .. Warps : warpHead'[v][r] >= warpHead[v][r]
    BY <1>5, <1>11
  <2>. QED
    BY <1>2, <2>1
<1>. QED
  BY <1>3, <1>6, <1>7, <1>8, <1>9, <1>10, <1>11 DEF Next, WarpStep

\* Within a call heads only advance, provided the large head cached_notify_combine
\* gives a rank with no later token (1 << 25) is no less than any place: a warp
\* may report the place after the last token before it reports the large head.
THEOREM HeadsAdvance ==
  ASSUME NumTokens <= Beyond
  PROVE  Spec => HeadsOnlyAdvance
<1>1. IInv /\ [Next]_vars
        => [call' = call =>
              \A r \in Ranks : /\ head'[r] >= head[r]
                               /\ \A w \in 1 .. Warps : warpHead'[w][r] >= warpHead[w][r]]_vars
  BY HeadsStep
<1>. QED
  BY <1>1, Invariance, PTL DEF Spec, HeadsOnlyAdvance
=============================================================================
