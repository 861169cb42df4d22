---------------------- MODULE InternodeDispatch_proofs ----------------------
(***************************************************************************)
(* What the dispatch between nodes promises, for any nodes, ranks, sender  *)
(* warps, chunks, rings and routings that Config accepts.                  *)
(*                                                                         *)
(* The lock orders the tokens of a source, so the tails are functions of   *)
(* it: the ring of node d has been given a slot for every token of the     *)
(* flow before the lock, and those a round of the warps behind the lock    *)
(* are published.  Everything after that counts in places: Place(s, d, t)  *)
(* among the tokens of s for node d, and RankPlace(s, d, j, t) among those *)
(* for rank (d, j).  A forwarder's head is a place of the first kind, its  *)
(* NVL counter the number of places of the second kind before that head,   *)
(* and what a receiver has of a source is a prefix in the second.          *)
(***************************************************************************)
EXTENDS InternodeDispatch, FiniteSetTheorems, WellFoundedInduction, TLAPS

Place(s, d, t)        == Earlier(Flow(s, d), t)
RankPlace(s, d, j, t) == Earlier(FlowTo(s, d, j), t)

\* The tokens for (d, j) among the first h of the flow to node d.
Passed(s, d, j, h) == {u \in FlowTo(s, d, j) : Place(s, d, u) < h}

\* The row of the first token of the channel.
RowBase(s, d, j) == GblRankOffset(s, d, j) + GblPrefix(s, d, j, First(s))
\* The index of the first token of the channel among all that come to (d, SrcNvl).
IndexBase(s, d)  == RdmaRankOffset(s, d) + RdmaPrefix(s, d, First(s))

\* The token a warp handled last.
LastTok(s, w) == IF wPc[<<s, w>>] = "copy" THEN wTok[<<s, w>>] ELSE wTok[<<s, w>>] - SenderWarps
Copying(s, u) == \E w \in Warps : wPc[<<s, w>>] = "copy" /\ wTok[<<s, w>>] = u

\* How far the ring at the destination is filled.
Arrived(s, d) ==
  IF put[s] # <<>> /\ put[s][1] = d /\ put[s][3] THEN issued[<<s, d>>] + put[s][2] ELSE issued[<<s, d>>]

InQueue(d, j, s) ==
  {i \in rHead[<<d, j>>] .. fNvlTail[<<d, j>>] - 1 : nvlBuf[<<d, j>>][i % NvlRecv][1] = s}

\* How many tokens of a source a receiver has copied out, and what it has not.
Received(d, j, s) == IF rPc[<<d, j>>] = "prefix" THEN 0 ELSE rOff[<<d, j>>][s] - RowBase(s, d, j)
Missing(d, j) ==
  UNION {{<<s, u>> : u \in {v \in FlowTo(s, d, j) : Received(d, j, s) <= RankPlace(s, d, j, v)}} :
           s \in Rdma}

-----------------------------------------------------------------------------
(* The inductive invariant.                                                *)

Typed ==
  /\ route \in Routings
  /\ notified \in [Rdma -> BOOLEAN]
  /\ lock \in [Rdma -> Int]
  /\ wTok \in [Rdma \X Warps -> Int]
  /\ wPc \in [Rdma \X Warps -> {"lock", "copy", "done"}]
  /\ wLast \in [Rdma \X Warps -> [Rdma -> Int]]
  /\ meta \in [Rdma \X Rdma -> [start : [Nvl -> Int], end : [Nvl -> Int], from : Int, to : Int]]
  /\ nextTail \in [Rdma \X Rdma -> Nat] /\ sendTail \in [Rdma \X Rdma -> Nat]
  /\ issued \in [Rdma \X Rdma -> Nat] /\ rdmaTail \in [Rdma \X Rdma -> Nat]
  /\ rdmaHead \in [Rdma \X Rdma -> Nat] /\ credited \in [Rdma \X Rdma -> Nat]
  /\ sendBuf \in [Rdma \X Rdma -> [0 .. RdmaRecv - 1 -> Int]]
  /\ recvBuf \in [Rdma \X Rdma -> [0 .. RdmaRecv - 1 -> Int]]
  /\ DOMAIN sendHead = Rdma \X Rdma
  /\ \A p \in Rdma \X Rdma : sendHead[p] \in [First(p[1]) .. Past(p[1]) - 1 -> Int]
  /\ put \in [Rdma -> {<<>>} \cup (Rdma \X Nat \X BOOLEAN)]
  /\ fPc \in [Rdma \X Nvl -> {"meta", "run", "publish", "retired"}]
  /\ rPc \in [Rdma \X Nvl -> {"prefix", "run", "publish", "done"}]
  /\ fHead \in [Rdma \X Nvl -> [Rdma -> Nat]] /\ fTail \in [Rdma \X Nvl -> [Rdma -> Nat]]
  /\ fwdHead \in [Rdma \X Nvl -> [Rdma -> Nat]] /\ fIdx \in [Rdma \X Nvl -> [Rdma -> Nat]]
  /\ nvlStart \in [Rdma \X Nvl -> [Rdma -> Int]] /\ nvlEnd \in [Rdma \X Nvl -> [Rdma -> Int]]
  /\ rOff \in [Rdma \X Nvl -> [Rdma -> Int]] /\ chanOff \in [Rdma \X Nvl -> [Rdma -> Int]]
  /\ nvlTail \in [Rdma \X Nvl -> Nat] /\ nvlHead \in [Rdma \X Nvl -> Nat]
  /\ fNvlTail \in [Rdma \X Nvl -> Nat] /\ rHead \in [Rdma \X Nvl -> Nat]
  /\ rLeft \in [Rdma \X Nvl -> Int]
  /\ nvlBuf \in [Rdma \X Nvl -> [0 .. NvlRecv - 1 -> Int \X Int]]
  /\ DOMAIN sendNvlHead = Rdma \X Nvl
  /\ DOMAIN recvX = Rdma \X Nvl

\* The warps take every SenderWarps-th token each, in the order of the lock.
WarpsOK(s) ==
  /\ First(s) <= lock[s] /\ lock[s] <= Past(s) + SenderWarps
  /\ \A w \in Warps :
       /\ First(s) <= wTok[<<s, w>>] /\ wTok[<<s, w>>] < Past(s) + SenderWarps
       /\ (wTok[<<s, w>>] - First(s)) % SenderWarps = w
       /\ lock[s] <= wTok[<<s, w>>] + SenderWarps
       /\ wPc[<<s, w>>] = "lock" => lock[s] <= wTok[<<s, w>>]
       /\ wPc[<<s, w>>] # "lock" => wTok[<<s, w>>] < lock[s]
       /\ wPc[<<s, w>>] = "copy" => wTok[<<s, w>>] < Past(s)

\* What the lock says about the flow to a node.
TailsOK(s, d) ==
  /\ nextTail[<<s, d>>] = Place(s, d, lock[s])
  /\ sendTail[<<s, d>>] = Place(s, d, lock[s] - SenderWarps)
  /\ \A w \in Warps :
       wLast[<<s, w>>][d] = IF LastTok(s, w) \in Flow(s, d) THEN Place(s, d, LastTok(s, w)) ELSE None
  /\ \A t \in First(s) .. Past(s) - 1 :
       t < lock[s] => sendHead[<<s, d>>][t] = IF t \in Flow(s, d) THEN Place(s, d, t) ELSE None

\* The counters of a ring.
RingOK(s, d) ==
  /\ issued[<<s, d>>] <= sendTail[<<s, d>>]
  /\ rdmaTail[<<s, d>>] <= issued[<<s, d>>]
  /\ rdmaHead[<<s, d>>] <= credited[<<s, d>>] /\ credited[<<s, d>>] <= rdmaTail[<<s, d>>]
  /\ nextTail[<<s, d>>] <= rdmaHead[<<s, d>>] + RdmaRecv
  /\ put[s] # <<>> /\ put[s][1] = d => /\ issued[<<s, d>>] + put[s][2] <= sendTail[<<s, d>>]
                                       /\ s = d => put[s][3]

\* A token taken a slot for is in it from the copy until the credit.
SentSlotsOK(s, d) ==
  \A u \in Flow(s, d) :
    u < lock[s] /\ ~ Copying(s, u) /\ rdmaHead[<<s, d>>] <= Place(s, d, u)
      => (IF s = d THEN recvBuf ELSE sendBuf)[<<s, d>>][Place(s, d, u) % RdmaRecv] = u

ArrivedSlotsOK(s, d) ==
  s # d =>
    \A u \in Flow(s, d) :
      rdmaHead[<<s, d>>] <= Place(s, d, u) /\ Place(s, d, u) < Arrived(s, d)
        => recvBuf[<<s, d>>][Place(s, d, u) % RdmaRecv] = u

\* The metadata is zero or all there.
MetaOK(s, d) ==
  IF notified[s]
  THEN meta[<<s, d>>] = [start |-> [j \in Nvl |-> Encode(GblPrefix(s, d, j, First(s)))],
                     end   |-> [j \in Nvl |-> Encode(GblPrefix(s, d, j, Past(s)))],
                     from  |-> Encode(RdmaPrefix(s, d, First(s))),
                     to    |-> Encode(RdmaPrefix(s, d, Past(s)))]
  ELSE meta[<<s, d>>].to = 0

ForwarderOK(d, j, s) ==
  /\ IF fPc[<<d, j>>] = "meta"
     THEN nvlStart[<<d, j>>][s] = 0
     ELSE /\ notified[s]
          /\ nvlStart[<<d, j>>][s] = Encode(GblPrefix(s, d, j, First(s)))
          /\ nvlEnd[<<d, j>>][s] = Encode(GblPrefix(s, d, j, Past(s)))
  /\ fwdHead[<<d, j>>][s] <= fHead[<<d, j>>][s]
  /\ fHead[<<d, j>>][s] <= fTail[<<d, j>>][s] /\ fTail[<<d, j>>][s] <= rdmaTail[<<s, d>>]
  /\ fPc[<<d, j>>] # "retired" => credited[<<s, d>>] <= fwdHead[<<d, j>>][s]
  /\ fPc[<<d, j>>] = "retired" => Cardinality(Flow(s, d)) <= fHead[<<d, j>>][s]
  /\ fIdx[<<d, j>>][s] = Cardinality(Passed(s, d, j, fHead[<<d, j>>][s]))

\* send_nvl_head, so far.
HeadsOK(d, j) ==
  /\ \A y \in sendNvlHead[<<d, j>>] :
       \E s \in Rdma : \E u \in Flow(s, d) :
         /\ Place(s, d, u) < fHead[<<d, j>>][s]
         /\ y = <<IndexBase(s, d) + Place(s, d, u),
                  IF u \in FlowTo(s, d, j) THEN RankPlace(s, d, j, u) ELSE None>>
  /\ \A s \in Rdma : \A u \in Flow(s, d) :
       Place(s, d, u) < fHead[<<d, j>>][s] =>
         <<IndexBase(s, d) + Place(s, d, u),
           IF u \in FlowTo(s, d, j) THEN RankPlace(s, d, j, u) ELSE None>> \in sendNvlHead[<<d, j>>]

\* The queue of a rank holds, of each source, the places after the received.
QueueOK(d, j) ==
  /\ nvlHead[<<d, j>>] <= rHead[<<d, j>>] /\ rHead[<<d, j>>] <= nvlTail[<<d, j>>]
  /\ nvlTail[<<d, j>>] <= fNvlTail[<<d, j>>] /\ fNvlTail[<<d, j>>] <= nvlHead[<<d, j>>] + NvlRecv
  /\ \A i \in rHead[<<d, j>>] .. fNvlTail[<<d, j>>] - 1 : nvlBuf[<<d, j>>][i % NvlRecv][1] \in Rdma
  /\ \A s \in Rdma :
       /\ fIdx[<<d, j>>][s] = Received(d, j, s) + Cardinality(InQueue(d, j, s))
       /\ \A i \in InQueue(d, j, s) :
            /\ nvlBuf[<<d, j>>][i % NvlRecv][2] \in FlowTo(s, d, j)
            /\ RankPlace(s, d, j, nvlBuf[<<d, j>>][i % NvlRecv][2])
                 = Received(d, j, s) + Earlier(InQueue(d, j, s), i)

\* A receiver has of each source what is before its place, in its rows.
ReceiverOK(d, j) ==
  /\ \A s \in Rdma : Received(d, j, s) \in Nat
  /\ rPc[<<d, j>>] # "prefix" => /\ rLeft[<<d, j>>] = Cardinality(Missing(d, j))
                             /\ \A s \in Rdma : chanOff[<<d, j>>][s] = RowBase(s, d, j)
  /\ rPc[<<d, j>>] = "prefix" => rLeft[<<d, j>>] = 0
  /\ rPc[<<d, j>>] = "done" => rLeft[<<d, j>>] = 0
  /\ \A x \in recvX[<<d, j>>] :
       \E s \in Rdma : \E u \in FlowTo(s, d, j) :
         /\ RankPlace(s, d, j, u) < Received(d, j, s)
         /\ x = <<RowBase(s, d, j) + RankPlace(s, d, j, u), <<s, u>> >>
  /\ \A s \in Rdma : \A u \in FlowTo(s, d, j) :
       RankPlace(s, d, j, u) < Received(d, j, s) =>
         <<RowBase(s, d, j) + RankPlace(s, d, j, u), <<s, u>> >> \in recvX[<<d, j>>]

IInv ==
  /\ Typed
  /\ \A s \in Rdma : WarpsOK(s)
  /\ \A s, d \in Rdma : TailsOK(s, d) /\ RingOK(s, d) /\ MetaOK(s, d)
  /\ \A s, d \in Rdma : SentSlotsOK(s, d) /\ ArrivedSlotsOK(s, d)
  /\ \A d \in Rdma, j \in Nvl : \A s \in Rdma : ForwarderOK(d, j, s)
  /\ \A d \in Rdma, j \in Nvl : HeadsOK(d, j) /\ QueueOK(d, j) /\ ReceiverOK(d, j)

-----------------------------------------------------------------------------
(* Counting the elements of a set of numbers below one of them.            *)

LEMMA EarlierIsNat ==
  ASSUME NEW A, IsFiniteSet(A), NEW i
  PROVE  /\ IsFiniteSet({k \in A : k < i})
         /\ Earlier(A, i) \in Nat /\ Earlier(A, i) <= Cardinality(A)
         /\ Cardinality(A) \in Nat
<1>1. {k \in A : k < i} \in SUBSET A
  OBVIOUS
<1>. QED
  BY <1>1, FS_Subset, FS_CardinalityType DEF Earlier

\* The count never goes down, and goes up after a member.
LEMMA EarlierOrder ==
  ASSUME NEW A \in SUBSET Int, IsFiniteSet(A), NEW i \in Int, NEW j \in Int
  PROVE  /\ i <= j => Earlier(A, i) <= Earlier(A, j)
         /\ i \in A /\ i < j => Earlier(A, i) < Earlier(A, j)
<1>. DEFINE I == {k \in A : k < i}
            J == {k \in A : k < j}
<1>1. IsFiniteSet(J) /\ Cardinality(J) \in Nat /\ IsFiniteSet(I) /\ Cardinality(I) \in Nat
  BY EarlierIsNat, FS_CardinalityType
<1>2. ASSUME i <= j PROVE I \in SUBSET J
  <2>1. \A k \in A : k \in Int
    OBVIOUS
  <2>2. \A k \in A : k < i => k < j
    BY <1>2, <2>1
  <2>. QED
    BY <2>2
<1>3. i <= j => Cardinality(I) <= Cardinality(J)
  BY <1>1, <1>2, FS_Subset
<1>4. ASSUME i \in A, i < j PROVE Cardinality(I) < Cardinality(J)
  <2>0. i <= j /\ ~ (i < i)
    BY <1>4
  <2>1. I \in SUBSET J /\ i \in J /\ i \notin I
    BY <1>2, <1>4, <2>0
  <2>2. Cardinality(I) <= Cardinality(J) /\ Cardinality(I) # Cardinality(J)
    BY <1>1, <2>1, FS_Subset
  <2>. QED
    BY <1>1, <2>2
<1>. QED
  BY <1>3, <1>4 DEF Earlier

LEMMA EarlierTells ==
  ASSUME NEW A \in SUBSET Int, IsFiniteSet(A), NEW i \in A, NEW j \in Int
  PROVE  /\ i < j <=> Earlier(A, i) < Earlier(A, j)
         /\ j \in A /\ Earlier(A, i) = Earlier(A, j) => i = j
<1>1. i \in Int
  OBVIOUS
<1>2. Earlier(A, i) \in Nat /\ Earlier(A, j) \in Nat
  BY EarlierIsNat
<1>3. i < j => Earlier(A, i) < Earlier(A, j)
  BY <1>1, EarlierOrder
<1>4. j <= i => Earlier(A, j) <= Earlier(A, i)
  BY <1>1, EarlierOrder
<1>5. j \in A /\ j < i => Earlier(A, j) < Earlier(A, i)
  BY <1>1, EarlierOrder
<1>. QED
  BY <1>1, <1>2, <1>3, <1>4, <1>5

LEMMA EarlierNext ==
  ASSUME NEW A \in SUBSET Int, IsFiniteSet(A), NEW i \in Int
  PROVE  Earlier(A, i + 1) = IF i \in A THEN Earlier(A, i) + 1 ELSE Earlier(A, i)
<1>. DEFINE I == {k \in A : k < i}
<1>1. {k \in A : k < i + 1} = IF i \in A THEN I \cup {i} ELSE I
  <2>1. \A k \in A : k < i + 1 <=> k < i \/ k = i
    OBVIOUS
  <2>. QED
    BY <2>1
<1>2. IsFiniteSet(I) /\ i \notin I
  BY EarlierIsNat
<1>3. Cardinality(I \cup {i}) = Cardinality(I) + 1
  BY <1>2, FS_AddElement
<1>. QED
  BY <1>1, <1>3 DEF Earlier

LEMMA EarlierEnds ==
  ASSUME NEW A \in SUBSET Int, IsFiniteSet(A), NEW i \in Int
  PROVE  /\ (\A k \in A : k < i) => Earlier(A, i) = Cardinality(A)
         /\ (\A k \in A : i <= k) => Earlier(A, i) = 0
         /\ i \in A => Earlier(A, i) < Cardinality(A)
<1>1. ASSUME \A k \in A : k < i PROVE Earlier(A, i) = Cardinality(A)
  <2>1. {k \in A : k < i} = A
    BY <1>1
  <2>. QED
    BY <2>1 DEF Earlier
<1>2. ASSUME \A k \in A : i <= k PROVE Earlier(A, i) = 0
  <2>0. \A k \in A : k \in Int /\ i <= k
    BY <1>2
  <2>1. \A k \in A : ~ (k < i)
    BY <2>0
  <2>2. {k \in A : k < i} = {}
    BY <2>1
  <2>. QED
    BY <2>2, FS_EmptySet DEF Earlier
<1>3. ASSUME i \in A PROVE Earlier(A, i) < Cardinality(A)
  <2>. DEFINE I == {k \in A : k < i}
  <2>1. I \in SUBSET A /\ i \notin I /\ I # A
    BY <1>3
  <2>2. Cardinality(I) <= Cardinality(A) /\ Cardinality(I) # Cardinality(A)
    BY <2>1, FS_Subset
  <2>3. Cardinality(I) \in Nat /\ Cardinality(A) \in Nat
    BY EarlierIsNat DEF Earlier
  <2>4. Cardinality(I) < Cardinality(A)
    BY <2>2, <2>3
  <2>. QED
    BY <2>4 DEF Earlier
<1>. QED
  BY <1>1, <1>2, <1>3

\* Every count below the size is some member's.
LEMMA EarlierOnto ==
  ASSUME NEW A \in SUBSET Int, IsFiniteSet(A), NEW n \in Nat, n < Cardinality(A)
  PROVE  \E a \in A : Earlier(A, a) = n
<1>. DEFINE c == Cardinality(A) - 1
            f == [a \in A |-> Earlier(A, a)]
<1>1. Cardinality(A) \in Nat /\ c \in Nat /\ c \in Int
  BY FS_CardinalityType
<1>2. \A a \in A : Earlier(A, a) \in 0 .. c
  <2>. SUFFICES ASSUME NEW a \in A PROVE Earlier(A, a) \in 0 .. c
    OBVIOUS
  <2>1. Earlier(A, a) \in Nat /\ Earlier(A, a) < Cardinality(A)
    BY EarlierIsNat, EarlierEnds
  <2>. QED
    BY <1>1, <2>1
<1>3. IsFiniteSet(0 .. c) /\ Cardinality(0 .. c) = Cardinality(A)
  <2>. HIDE DEF c
  <2>0. 0 \in Int
    OBVIOUS
  <2>1. IsFiniteSet(0 .. c) /\ Cardinality(0 .. c) = IF 0 > c THEN 0 ELSE c - 0 + 1
    BY <1>1, <2>0, FS_Interval
  <2>. QED
    BY <1>1, <2>1 DEF c
<1>4. f \in Injection(A, 0 .. c)
  <2>1. f \in [A -> 0 .. c]
    BY <1>2
  <2>2. \A a, b \in A : Earlier(A, a) = Earlier(A, b) => a = b
    BY EarlierTells
  <2>. QED
    BY <2>1, <2>2 DEF Injection, IsInjective
<1>5. f \in Surjection(A, 0 .. c)
  BY <1>3, <1>4, FS_Injection
<1>6. n \in 0 .. c
  BY <1>1
<1>7. PICK a \in A : f[a] = n
  BY <1>5, <1>6 DEF Surjection
<1>. QED
  BY <1>7

\* The n-th element is the one it should be.
LEMMA NthIs ==
  ASSUME NEW A \in SUBSET Int, IsFiniteSet(A), NEW a \in A
  PROVE  Nth(A, Earlier(A, a)) = a
<1>1. \A b \in A : Earlier(A, b) = Earlier(A, a) => b = a
  BY EarlierTells
<1>. QED
  BY <1>1 DEF Nth

\* Sets that agree below i have the same count there.
LEMMA EarlierSame ==
  ASSUME NEW A, NEW B, NEW i, \A k : k < i => (k \in A <=> k \in B)
  PROVE  Earlier(A, i) = Earlier(B, i)
<1>1. {k \in A : k < i} = {k \in B : k < i}
  OBVIOUS
<1>. QED
  BY <1>1 DEF Earlier

LEMMA IntervalSize ==
  ASSUME NEW a \in Int, NEW b \in Int
  PROVE  /\ IsFiniteSet(a .. b - 1)
         /\ a <= b => Cardinality(a .. b - 1) = b - a
<1>. DEFINE c == b - 1
<1>1. c \in Int
  OBVIOUS
<1>2. IsFiniteSet(a .. c) /\ Cardinality(a .. c) = IF a > c THEN 0 ELSE c - a + 1
  <2>. HIDE DEF c
  <2>. QED
    BY <1>1, FS_Interval
<1>. QED
  BY <1>2

\* Ring slots: two places less than the ring apart have different ones.
LEMMA Spread ==
  ASSUME NEW n \in Nat \ {0}, NEW i \in Nat, NEW j \in Nat, i < j, j < i + n
  PROVE  i % n # j % n
<1>. SUFFICES ASSUME i % n = j % n PROVE FALSE
  OBVIOUS
<1>1. /\ i = n * (i \div n) + (i % n) /\ j = n * (j \div n) + (j % n)
      /\ i \div n \in Int /\ j \div n \in Int
  OBVIOUS
<1>2. j - i = n * ((j \div n) - (i \div n))
  BY <1>1
<1>. DEFINE m == (j \div n) - (i \div n)
<1>3. m \in Int /\ n * m = j - i
  BY <1>1, <1>2
<1>. HIDE DEF m
<1>4. m > 0
  <2>1. ASSUME m <= 0 PROVE FALSE
    <3>1. n * m <= 0
      BY <1>3, <2>1
    <3>. QED
      BY <1>3, <3>1
  <2>. QED
    BY <1>3, <2>1
<1>5. n * m >= n
  BY <1>3, <1>4
<1>. QED
  BY <1>3, <1>5

-----------------------------------------------------------------------------
(* The constants, the flows and the prefix sums.                           *)

LEMMA Numbers ==
  /\ NumRdma \in Nat /\ NvlPeers \in Nat /\ SenderWarps \in Nat \ {0}
  /\ RdmaSend \in Nat \ {0} /\ RdmaRecv \in Nat \ {0}
  /\ NvlSend \in Nat \ {0} /\ NvlRecv \in Nat \ {0} /\ NvlSend <= NvlRecv
  /\ Others \in Nat /\ SrcNvl \in Nvl /\ Channel \in Nat /\ NumChannels \in Nat \ {0}
<1>1. /\ NumRdma \in Nat \ {0} /\ NvlPeers \in Nat \ {0} /\ NumChannels \in Nat \ {0}
      /\ SenderWarps \in Nat \ {0} /\ RdmaSend \in Nat \ {0} /\ NvlSend \in Nat \ {0}
  BY InternodeAssumption
<1>2. /\ SrcNvl \in Nvl /\ Channel \in 0 .. NumChannels - 1 /\ Others \in Nat
      /\ RdmaRecv \in Nat /\ RdmaSend <= RdmaRecv \div 2
      /\ NvlRecv \in Nat /\ NvlSend < NvlRecv
  BY InternodeAssumption
<1>3. RdmaRecv # 0
  BY <1>1, <1>2
<1>. QED
  BY <1>1, <1>2, <1>3

LEMMA NodeIsNat ==
  ASSUME NEW s \in Rdma
  PROVE  s \in Nat /\ s < NumRdma
BY Numbers DEF Rdma

LEMMA TokenRange ==
  ASSUME route \in Routings, NEW s \in Rdma
  PROVE  /\ First(s) \in Nat /\ Past(s) \in Nat /\ Len(route[s]) \in Nat
         /\ First(s) <= Past(s) /\ Past(s) <= Len(route[s])
<1>. DEFINE n == Len(route[s])
            per == PerChannel(s)
            from == per * Channel
<1>1. n \in Nat
  <2>1. route[s] \in Seq(SUBSET (Rdma \X Nvl))
    BY InternodeAssumption
  <2>. QED
    BY <2>1
<1>2. per \in Nat
  <2>1. (n + NumChannels - 1) \in Nat
    BY <1>1, Numbers
  <2>. HIDE DEF n
  <2>2. ((n + NumChannels - 1) \div NumChannels) \in Nat
    BY <2>1, Numbers
  <2>. QED
    BY <2>2 DEF PerChannel, n
<1>3. from \in Nat
  <2>. HIDE DEF per
  <2>. QED
    BY <1>2, Numbers
<1>4. First(s) = IF from < n THEN from ELSE n
  BY DEF First, TokenStart, Smaller
<1>5. Past(s) = IF First(s) + per < n THEN First(s) + per ELSE n
  BY DEF Past, TokenEnd, First, Smaller
<1>. HIDE DEF n, per, from
<1>6. First(s) \in Nat /\ First(s) <= n
  BY <1>1, <1>3, <1>4
<1>7. Past(s) \in Nat /\ First(s) <= Past(s) /\ Past(s) <= n
  BY <1>1, <1>2, <1>5, <1>6
<1>. QED
  BY <1>1, <1>6, <1>7 DEF n

LEMMA FlowIs ==
  ASSUME route \in Routings, NEW s \in Rdma, NEW d, NEW j
  PROVE  /\ Flow(s, d) \in SUBSET Int /\ IsFiniteSet(Flow(s, d))
         /\ Cardinality(Flow(s, d)) \in Nat
         /\ \A t \in Flow(s, d) : t \in Nat /\ First(s) <= t /\ t < Past(s)
         /\ FlowTo(s, d, j) \in SUBSET Int /\ IsFiniteSet(FlowTo(s, d, j))
         /\ Cardinality(FlowTo(s, d, j)) \in Nat
         /\ FlowTo(s, d, j) \in SUBSET Flow(s, d)
         /\ \A t \in Flow(s, d) : t \in FlowTo(s, d, j) <=> <<d, j>> \in Ranks(s, t)
         /\ \A t \in First(s) .. Past(s) - 1 : t \in Flow(s, d) <=> d \in Nodes(s, t)
<1>. DEFINE R == First(s) .. Past(s) - 1
<1>1. First(s) \in Nat /\ Past(s) \in Nat
  BY TokenRange
<1>2. IsFiniteSet(R) /\ R \in SUBSET Int /\ \A t \in R : t \in Nat /\ First(s) <= t /\ t < Past(s)
  BY <1>1, IntervalSize
<1>3. Flow(s, d) = {t \in R : d \in Nodes(s, t)}
  BY DEF Flow, ToNode
<1>4. FlowTo(s, d, j) = {t \in R : <<d, j>> \in Ranks(s, t)}
  BY DEF FlowTo, ToRank
<1>. HIDE DEF R
<1>5. \A t : <<d, j>> \in Ranks(s, t) => d \in Nodes(s, t)
  BY DEF Nodes
<1>6. Flow(s, d) \in SUBSET R /\ FlowTo(s, d, j) \in SUBSET R
  BY <1>3, <1>4
<1>7. /\ IsFiniteSet(Flow(s, d)) /\ IsFiniteSet(FlowTo(s, d, j))
      /\ Cardinality(Flow(s, d)) \in Nat /\ Cardinality(FlowTo(s, d, j)) \in Nat
  BY <1>2, <1>6, FS_Subset, FS_CardinalityType
<1>. QED
  BY <1>2, <1>3, <1>4, <1>5, <1>6, <1>7 DEF R

LEMMA PlaceIs ==
  ASSUME route \in Routings, NEW s \in Rdma, NEW d, NEW t \in Int
  PROVE  /\ Place(s, d, t) \in Nat /\ Place(s, d, t) <= Cardinality(Flow(s, d))
         /\ Place(s, d, t + 1) = IF t \in Flow(s, d) THEN Place(s, d, t) + 1 ELSE Place(s, d, t)
         /\ t \in Flow(s, d) => Place(s, d, t) < Cardinality(Flow(s, d))
         /\ t <= First(s) => Place(s, d, t) = 0
         /\ Past(s) <= t => Place(s, d, t) = Cardinality(Flow(s, d))
         /\ \A u \in Int : t <= u => Place(s, d, t) <= Place(s, d, u)
         /\ \A u \in Flow(s, d) : /\ u < t <=> Place(s, d, u) < Place(s, d, t)
                                  /\ t \in Flow(s, d) /\ Place(s, d, u) = Place(s, d, t) => u = t
<1>. DEFINE F == Flow(s, d)
<1>1. /\ F \in SUBSET Int /\ IsFiniteSet(F) /\ First(s) \in Nat /\ Past(s) \in Nat
      /\ \A k \in F : k \in Nat /\ First(s) <= k /\ k < Past(s)
  BY FlowIs, TokenRange
<1>. HIDE DEF F
<1>2. /\ Earlier(F, t) \in Nat /\ Earlier(F, t) <= Cardinality(F)
      /\ Earlier(F, t + 1) = IF t \in F THEN Earlier(F, t) + 1 ELSE Earlier(F, t)
      /\ t \in F => Earlier(F, t) < Cardinality(F)
  BY <1>1, EarlierIsNat, EarlierNext, EarlierEnds
<1>3. ASSUME t <= First(s) PROVE Earlier(F, t) = 0
  <2>1. \A k \in F : t <= k
    BY <1>1, <1>3
  <2>. QED
    BY <1>1, <2>1, EarlierEnds
<1>4. ASSUME Past(s) <= t PROVE Earlier(F, t) = Cardinality(F)
  <2>1. \A k \in F : k < t
    BY <1>1, <1>4
  <2>. QED
    BY <1>1, <2>1, EarlierEnds
<1>5. \A u \in Int : t <= u => Earlier(F, t) <= Earlier(F, u)
  BY <1>1, EarlierOrder
<1>6. \A u \in F : /\ u < t <=> Earlier(F, u) < Earlier(F, t)
                   /\ t \in F /\ Earlier(F, u) = Earlier(F, t) => u = t
  BY <1>1, EarlierTells
<1>. QED
  BY <1>2, <1>3, <1>4, <1>5, <1>6 DEF Place, F

\* The token at a place.
LEMMA PlaceTaken ==
  ASSUME route \in Routings, NEW s \in Rdma, NEW d, NEW i \in Nat, i < Cardinality(Flow(s, d))
  PROVE  \E u \in Flow(s, d) : Place(s, d, u) = i /\ Nth(Flow(s, d), i) = u
<1>1. Flow(s, d) \in SUBSET Int /\ IsFiniteSet(Flow(s, d))
  BY FlowIs
<1>2. PICK u \in Flow(s, d) : Earlier(Flow(s, d), u) = i
  BY <1>1, EarlierOnto
<1>3. Nth(Flow(s, d), i) = u
  BY <1>1, <1>2, NthIs
<1>. QED
  BY <1>2, <1>3 DEF Place

LEMMA RankPlaceIs ==
  ASSUME route \in Routings, NEW s \in Rdma, NEW d, NEW j, NEW t \in Int
  PROVE  /\ RankPlace(s, d, j, t) \in Nat
         /\ RankPlace(s, d, j, t) <= Cardinality(FlowTo(s, d, j))
         /\ t \in FlowTo(s, d, j) => RankPlace(s, d, j, t) < Cardinality(FlowTo(s, d, j))
         /\ \A u \in FlowTo(s, d, j) :
              /\ u < t <=> RankPlace(s, d, j, u) < RankPlace(s, d, j, t)
              /\ t \in FlowTo(s, d, j) /\ RankPlace(s, d, j, u) = RankPlace(s, d, j, t) => u = t
<1>1. FlowTo(s, d, j) \in SUBSET Int /\ IsFiniteSet(FlowTo(s, d, j))
  BY FlowIs
<1>. QED
  BY <1>1, EarlierIsNat, EarlierEnds, EarlierTells DEF RankPlace

LEMMA RankPlaceTaken ==
  ASSUME route \in Routings, NEW s \in Rdma, NEW d, NEW j,
         NEW i \in Nat, i < Cardinality(FlowTo(s, d, j))
  PROVE  \E u \in FlowTo(s, d, j) : RankPlace(s, d, j, u) = i /\ Nth(FlowTo(s, d, j), i) = u
<1>1. FlowTo(s, d, j) \in SUBSET Int /\ IsFiniteSet(FlowTo(s, d, j))
  BY FlowIs
<1>2. PICK u \in FlowTo(s, d, j) : Earlier(FlowTo(s, d, j), u) = i
  BY <1>1, EarlierOnto
<1>3. Nth(FlowTo(s, d, j), i) = u
  BY <1>1, <1>2, NthIs
<1>. QED
  BY <1>2, <1>3 DEF RankPlace

\* The prefix sums of the channel go up with the places.
LEMMA PrefixIs ==
  ASSUME route \in Routings, NEW s \in Rdma, NEW d, NEW j, NEW t \in First(s) .. Past(s)
  PROVE  /\ RdmaPrefix(s, d, t) \in Nat /\ RdmaPrefix(s, d, First(s)) \in Nat
         /\ RdmaPrefix(s, d, t) = RdmaPrefix(s, d, First(s)) + Place(s, d, t)
         /\ GblPrefix(s, d, j, t) \in Nat /\ GblPrefix(s, d, j, First(s)) \in Nat
         /\ GblPrefix(s, d, j, t) = GblPrefix(s, d, j, First(s)) + RankPlace(s, d, j, t)
<1>1. First(s) \in Nat /\ Past(s) \in Nat /\ t \in Nat /\ First(s) <= t /\ t <= Past(s) /\ 0 \in Int
  BY TokenRange
<1>2. \A k : k \in 0 .. t - 1 <=> k \in 0 .. First(s) - 1 \/ k \in First(s) .. t - 1
  BY <1>1
<1>3. \A k : k \in First(s) .. t - 1 <=> k \in First(s) .. Past(s) - 1 /\ k < t
  BY <1>1
<1>4. \A k : ~ (k \in 0 .. First(s) - 1 /\ k \in First(s) .. t - 1)
  BY <1>1
<1>5. IsFiniteSet(0 .. First(s) - 1) /\ IsFiniteSet(First(s) .. Past(s) - 1)
  BY <1>1, IntervalSize
<1>6. ASSUME NEW A \in SUBSET (0 .. First(s) - 1), NEW B \in SUBSET (First(s) .. t - 1)
      PROVE  /\ Cardinality(A) \in Nat /\ Cardinality(B) \in Nat
             /\ Cardinality(A \cup B) = Cardinality(A) + Cardinality(B)
  <2>1. IsFiniteSet(A) /\ Cardinality(A) \in Nat
    BY <1>5, FS_Subset, FS_CardinalityType
  <2>2. B \in SUBSET (First(s) .. Past(s) - 1)
    BY <1>3
  <2>3. IsFiniteSet(B) /\ Cardinality(B) \in Nat
    BY <1>5, <2>2, FS_Subset, FS_CardinalityType
  <2>4. A \cap B = {}
    BY <1>4
  <2>5. Cardinality(A \cup B) = Cardinality(A) + Cardinality(B) - Cardinality(A \cap B)
    BY <2>1, <2>3, FS_Union
  <2>6. Cardinality(A \cap B) = 0
    BY <2>4, FS_EmptySet
  <2>. QED
    BY <2>1, <2>3, <2>5, <2>6
<1>7. /\ RdmaPrefix(s, d, First(s)) \in Nat /\ Place(s, d, t) \in Nat
      /\ RdmaPrefix(s, d, t) = RdmaPrefix(s, d, First(s)) + Place(s, d, t)
  <2>. DEFINE A == {k \in 0 .. First(s) - 1 : d \in Nodes(s, k)}
              B == {k \in First(s) .. t - 1 : d \in Nodes(s, k)}
  <2>1. {k \in 0 .. t - 1 : d \in Nodes(s, k)} = A \cup B
    BY <1>2
  <2>2. {k \in Flow(s, d) : k < t} = B
    BY <1>3 DEF Flow, ToNode
  <2>3. /\ Cardinality(A) \in Nat /\ Cardinality(B) \in Nat
        /\ Cardinality(A \cup B) = Cardinality(A) + Cardinality(B)
    <3>1. A \in SUBSET (0 .. First(s) - 1) /\ B \in SUBSET (First(s) .. t - 1)
      OBVIOUS
    <3>. HIDE DEF A, B
    <3>. QED
      BY <1>6, <3>1
  <2>. QED
    BY <2>1, <2>2, <2>3 DEF RdmaPrefix, ToNode, Place, Earlier
<1>8. /\ GblPrefix(s, d, j, First(s)) \in Nat /\ RankPlace(s, d, j, t) \in Nat
      /\ GblPrefix(s, d, j, t) = GblPrefix(s, d, j, First(s)) + RankPlace(s, d, j, t)
  <2>. DEFINE A == {k \in 0 .. First(s) - 1 : <<d, j>> \in Ranks(s, k)}
              B == {k \in First(s) .. t - 1 : <<d, j>> \in Ranks(s, k)}
  <2>1. {k \in 0 .. t - 1 : <<d, j>> \in Ranks(s, k)} = A \cup B
    BY <1>2
  <2>2. {k \in FlowTo(s, d, j) : k < t} = B
    BY <1>3 DEF FlowTo, ToRank
  <2>3. /\ Cardinality(A) \in Nat /\ Cardinality(B) \in Nat
        /\ Cardinality(A \cup B) = Cardinality(A) + Cardinality(B)
    <3>1. A \in SUBSET (0 .. First(s) - 1) /\ B \in SUBSET (First(s) .. t - 1)
      OBVIOUS
    <3>. HIDE DEF A, B
    <3>. QED
      BY <1>6, <3>1
  <2>. QED
    BY <2>1, <2>2, <2>3 DEF GblPrefix, ToRank, RankPlace, Earlier
<1>. QED
  BY <1>7, <1>8

LEMMA ChannelTotals ==
  ASSUME route \in Routings, NEW s \in Rdma, NEW d, NEW j
  PROVE  /\ RdmaPrefix(s, d, First(s)) \in Nat
         /\ RdmaPrefix(s, d, Past(s)) = RdmaPrefix(s, d, First(s)) + Cardinality(Flow(s, d))
         /\ GblPrefix(s, d, j, First(s)) \in Nat
         /\ GblPrefix(s, d, j, Past(s))
              = GblPrefix(s, d, j, First(s)) + Cardinality(FlowTo(s, d, j))
<1>1. First(s) \in Nat /\ Past(s) \in Nat /\ Past(s) \in First(s) .. Past(s)
  BY TokenRange
<1>2. Place(s, d, Past(s)) = Cardinality(Flow(s, d))
  BY <1>1, PlaceIs
<1>3. RankPlace(s, d, j, Past(s)) = Cardinality(FlowTo(s, d, j))
  <2>1. \A k \in FlowTo(s, d, j) : k < Past(s)
    BY FlowIs
  <2>2. FlowTo(s, d, j) \in SUBSET Int /\ IsFiniteSet(FlowTo(s, d, j))
    BY FlowIs
  <2>. QED
    BY <1>1, <2>1, <2>2, EarlierEnds DEF RankPlace
<1>. QED
  BY <1>1, <1>2, <1>3, PrefixIs

-----------------------------------------------------------------------------
(* The tokens for one rank among the places of the flow to its node.       *)

\* The places from h up to e whose token is for (d, j).
PlacesFor(s, d, j, h, e) ==
  {i \in h .. e - 1 : \E u \in FlowTo(s, d, j) : Place(s, d, u) = i}

LEMMA PassedIs ==
  ASSUME route \in Routings, NEW s \in Rdma, NEW d, NEW j
  PROVE  /\ \A h \in Nat : /\ IsFiniteSet(Passed(s, d, j, h))
                           /\ Cardinality(Passed(s, d, j, h)) \in Nat
                           /\ Cardinality(Passed(s, d, j, h)) <= Cardinality(FlowTo(s, d, j))
         /\ Cardinality(Passed(s, d, j, 0)) = 0
         /\ \A u \in FlowTo(s, d, j) :
              Cardinality(Passed(s, d, j, Place(s, d, u))) = RankPlace(s, d, j, u)
         /\ \A h \in Nat : Cardinality(Flow(s, d)) <= h =>
              Cardinality(Passed(s, d, j, h)) = Cardinality(FlowTo(s, d, j))
<1>. DEFINE G == FlowTo(s, d, j)
<1>1. /\ IsFiniteSet(G) /\ Cardinality(G) \in Nat
      /\ \A u \in G : u \in Int /\ u \in Flow(s, d)
      /\ \A u \in G : Place(s, d, u) \in Nat /\ Place(s, d, u) < Cardinality(Flow(s, d))
      /\ Cardinality(Flow(s, d)) \in Nat
  <2>1. /\ IsFiniteSet(G) /\ Cardinality(G) \in Nat /\ Cardinality(Flow(s, d)) \in Nat
        /\ \A u \in G : u \in Int /\ u \in Flow(s, d)
    BY FlowIs
  <2>. HIDE DEF G
  <2>. QED
    BY <2>1, PlaceIs
<1>2. \A h : Passed(s, d, j, h) \in SUBSET G
  BY DEF Passed
<1>3. \A h : /\ IsFiniteSet(Passed(s, d, j, h)) /\ Cardinality(Passed(s, d, j, h)) \in Nat
             /\ Cardinality(Passed(s, d, j, h)) <= Cardinality(G)
  <2>. HIDE DEF G
  <2>. QED
    BY <1>1, <1>2, FS_Subset, FS_CardinalityType
<1>4. Cardinality(Passed(s, d, j, 0)) = 0
  <2>1. \A u \in G : ~ (Place(s, d, u) < 0)
    BY <1>1
  <2>2. Passed(s, d, j, 0) = {}
    BY <2>1 DEF Passed
  <2>. QED
    BY <2>2, FS_EmptySet
<1>5. ASSUME NEW u \in G
      PROVE  Cardinality(Passed(s, d, j, Place(s, d, u))) = RankPlace(s, d, j, u)
  <2>1. \A v \in G : Place(s, d, v) < Place(s, d, u) <=> v < u
    BY <1>1, <1>5, PlaceIs
  <2>2. Passed(s, d, j, Place(s, d, u)) = {v \in G : v < u}
    BY <2>1 DEF Passed
  <2>. QED
    BY <2>2 DEF RankPlace, Earlier
<1>6. ASSUME NEW h \in Nat, Cardinality(Flow(s, d)) <= h
      PROVE  Cardinality(Passed(s, d, j, h)) = Cardinality(G)
  <2>1. \A u \in G : Place(s, d, u) < h
    BY <1>1, <1>6
  <2>2. Passed(s, d, j, h) = G
    BY <2>1 DEF Passed
  <2>. QED
    BY <2>2
<1>. QED
  BY <1>3, <1>4, <1>5, <1>6

LEMMA PlacesForCounted ==
  ASSUME route \in Routings, NEW s \in Rdma, NEW d, NEW j, NEW h \in Nat, NEW e \in Nat, h <= e
  PROVE  /\ PlacesFor(s, d, j, h, e) \in SUBSET Int /\ IsFiniteSet(PlacesFor(s, d, j, h, e))
         /\ Cardinality(PlacesFor(s, d, j, h, e)) \in Nat
         /\ Cardinality(Passed(s, d, j, e))
              = Cardinality(Passed(s, d, j, h)) + Cardinality(PlacesFor(s, d, j, h, e))
<1>. DEFINE M == PlacesFor(s, d, j, h, e)
            B == {u \in FlowTo(s, d, j) : h <= Place(s, d, u) /\ Place(s, d, u) < e}
            A == Passed(s, d, j, h)
            f == [u \in B |-> Place(s, d, u)]
<1>1. IsFiniteSet(h .. e - 1) /\ M \in SUBSET (h .. e - 1) /\ h .. e - 1 \in SUBSET Int
  BY IntervalSize DEF PlacesFor
<1>2. IsFiniteSet(M) /\ M \in SUBSET Int
  BY <1>1, FS_Subset
<1>3. /\ \A u \in FlowTo(s, d, j) : u \in Int /\ u \in Flow(s, d)
      /\ \A u \in FlowTo(s, d, j) : Place(s, d, u) \in Nat
      /\ \A u, v \in FlowTo(s, d, j) : Place(s, d, u) = Place(s, d, v) => u = v
  <2>1. \A u \in FlowTo(s, d, j) : u \in Int /\ u \in Flow(s, d)
    BY FlowIs
  <2>2. \A u \in FlowTo(s, d, j) : Place(s, d, u) \in Nat
    BY <2>1, PlaceIs
  <2>3. \A u, v \in FlowTo(s, d, j) : Place(s, d, u) = Place(s, d, v) => u = v
    BY <2>1, PlaceIs
  <2>. QED
    BY <2>1, <2>2, <2>3
<1>4. f \in Bijection(B, M)
  <2>1. \A u \in B : Place(s, d, u) \in M
    <3>. SUFFICES ASSUME NEW u \in B PROVE Place(s, d, u) \in M
      OBVIOUS
    <3>1. Place(s, d, u) \in h .. e - 1
      BY <1>3
    <3>. QED
      BY <3>1 DEF PlacesFor
  <2>2. \A i \in M : \E u \in B : Place(s, d, u) = i
    <3>. SUFFICES ASSUME NEW i \in M PROVE \E u \in B : Place(s, d, u) = i
      OBVIOUS
    <3>1. i \in h .. e - 1 /\ \E u \in FlowTo(s, d, j) : Place(s, d, u) = i
      BY DEF PlacesFor
    <3>2. h <= i /\ i < e
      BY <3>1
    <3>. QED
      BY <3>1, <3>2
  <2>. HIDE DEF M
  <2>3. f \in [B -> M] /\ \A u \in B : f[u] = Place(s, d, u)
    BY <2>1
  <2>4. \A u, v \in B : f[u] = f[v] => u = v
    BY <1>3, <2>3
  <2>5. \A i \in M : \E u \in B : f[u] = i
    BY <2>2, <2>3
  <2>. HIDE DEF f, B
  <2>. QED
    BY <2>3, <2>4, <2>5 DEF Bijection, Injection, Surjection, IsInjective
<1>5. IsFiniteSet(B)
  <2>1. B \in SUBSET FlowTo(s, d, j) /\ IsFiniteSet(FlowTo(s, d, j))
    BY FlowIs
  <2>. QED
    BY <2>1, FS_Subset
<1>6. Cardinality(M) = Cardinality(B) /\ Cardinality(B) \in Nat
  <2>. HIDE DEF M, B, f
  <2>. QED
    BY <1>4, <1>5, FS_Bijection, FS_CardinalityType DEF ExistsBijection
<1>7. IsFiniteSet(A) /\ Cardinality(A) \in Nat
  BY PassedIs
<1>8. Passed(s, d, j, e) = A \cup B /\ A \cap B = {}
  <2>1. \A u \in FlowTo(s, d, j) :
          /\ Place(s, d, u) < e <=> Place(s, d, u) < h
                                    \/ (h <= Place(s, d, u) /\ Place(s, d, u) < e)
          /\ ~ (Place(s, d, u) < h /\ h <= Place(s, d, u))
    BY <1>3
  <2>. QED
    BY <2>1 DEF Passed
<1>9. Cardinality(A \cup B) = Cardinality(A) + Cardinality(B) - Cardinality(A \cap B)
  BY <1>5, <1>7, FS_Union
<1>. QED
  BY <1>2, <1>6, <1>7, <1>8, <1>9, FS_EmptySet

\* A token of a batch comes as far behind the tokens passed as it is in the batch.
LEMMA BatchPlace ==
  ASSUME route \in Routings, NEW s \in Rdma, NEW d, NEW j, NEW h \in Nat, NEW e \in Nat, h <= e,
         NEW u \in FlowTo(s, d, j), h <= Place(s, d, u), Place(s, d, u) < e
  PROVE  /\ Place(s, d, u) \in PlacesFor(s, d, j, h, e)
         /\ RankPlace(s, d, j, u) = Cardinality(Passed(s, d, j, h))
              + Earlier(PlacesFor(s, d, j, h, e), Place(s, d, u))
<1>. DEFINE i == Place(s, d, u)
<1>1. u \in Int /\ i \in Nat
  BY FlowIs, PlaceIs
<1>2. i \in PlacesFor(s, d, j, h, e)
  <2>1. i \in h .. e - 1
    BY <1>1
  <2>. QED
    BY <2>1 DEF PlacesFor
<1>. HIDE DEF i
<1>3. Cardinality(Passed(s, d, j, i))
        = Cardinality(Passed(s, d, j, h)) + Cardinality(PlacesFor(s, d, j, h, i))
  BY <1>1, PlacesForCounted DEF i
<1>4. PlacesFor(s, d, j, h, i) = {k \in PlacesFor(s, d, j, h, e) : k < i}
  <2>1. \A k : k \in h .. i - 1 <=> k \in h .. e - 1 /\ k < i
    BY <1>1 DEF i
  <2>. QED
    BY <2>1 DEF PlacesFor
<1>5. Cardinality(Passed(s, d, j, i)) = RankPlace(s, d, j, u)
  BY PassedIs DEF i
<1>. QED
  BY <1>2, <1>3, <1>4, <1>5 DEF i, Earlier

\* Where a batch of at most NvlSend tokens ends.
LEMMA BatchStops ==
  ASSUME NEW A \in SUBSET Int, IsFiniteSet(A), NEW n \in Nat \ {0}, NEW i \in A,
         Earlier(A, i) = n - 1
  PROVE  /\ Cardinality({k \in A : k < i + 1}) = n
<1>1. i \in Int
  OBVIOUS
<1>2. Earlier(A, i + 1) = Earlier(A, i) + 1
  BY <1>1, EarlierNext
<1>. QED
  BY <1>2 DEF Earlier

LEMMA FewTokens ==
  ASSUME NEW A \in SUBSET Int, IsFiniteSet(A), NEW n \in Nat \ {0},
         {i \in A : Earlier(A, i) = n - 1} = {}
  PROVE  Cardinality(A) < n
<1>1. Cardinality(A) \in Nat /\ n - 1 \in Nat
  BY FS_CardinalityType
<1>2. ~ (n - 1 < Cardinality(A))
  BY <1>1, EarlierOnto
<1>. QED
  BY <1>1, <1>2

-----------------------------------------------------------------------------
(* Sets of tokens of several sources, and their sizes.                     *)

Tagged(g, I) == UNION {{<<i, t>> : t \in g[i]} : i \in I}

LEMMA TaggedHas ==
  ASSUME NEW g, NEW I
  PROVE  /\ \A x \in Tagged(g, I) : \E i \in I : \E t \in g[i] : x = <<i, t>>
         /\ \A i \in I : \A t \in g[i] : <<i, t>> \in Tagged(g, I)
         /\ \A i, t : <<i, t>> \in Tagged(g, I) => i \in I /\ t \in g[i]
<1>1. \A x \in Tagged(g, I) : \E i \in I : \E t \in g[i] : x = <<i, t>>
  BY DEF Tagged
<1>2. \A i \in I : \A t \in g[i] : <<i, t>> \in Tagged(g, I)
  BY DEF Tagged
<1>3. \A i, t, k, u : <<i, t>> = <<k, u>> => i = k /\ t = u
  OBVIOUS
<1>. QED
  BY <1>1, <1>2, <1>3

LEMMA PairsCounted ==
  ASSUME NEW i, NEW T, IsFiniteSet(T)
  PROVE  /\ IsFiniteSet({<<i, t>> : t \in T})
         /\ Cardinality({<<i, t>> : t \in T}) = Cardinality(T)
<1>. DEFINE P == {<<i, t>> : t \in T}
            f == [t \in T |-> <<i, t>>]
<1>1. f \in Bijection(T, P)
  BY DEF Bijection, Injection, Surjection, IsInjective
<1>. HIDE DEF f, P
<1>2. IsFiniteSet(P) /\ Cardinality(P) = Cardinality(T)
  BY <1>1, FS_Bijection DEF ExistsBijection
<1>. QED
  BY <1>2 DEF P

LEMMA TaggedFinite ==
  ASSUME NEW g, NEW I, IsFiniteSet(I), \A i \in I : IsFiniteSet(g[i])
  PROVE  IsFiniteSet(Tagged(g, I)) /\ Cardinality(Tagged(g, I)) \in Nat
<1>. DEFINE C == {{<<i, t>> : t \in g[i]} : i \in I}
            f == [i \in I |-> {<<i, t>> : t \in g[i]}]
<1>1. f \in Surjection(I, C)
  BY DEF Surjection
<1>2. \A T \in C : IsFiniteSet(T)
  BY PairsCounted, SMTT(30), ZenonT(30)
<1>. HIDE DEF f, C
<1>3. IsFiniteSet(C)
  BY <1>1, FS_Surjection
<1>4. IsFiniteSet(UNION C)
  BY <1>2, <1>3, FS_UNION
<1>5. IsFiniteSet(Tagged(g, I))
  BY <1>4 DEF C, Tagged
<1>. QED
  BY <1>5, FS_CardinalityType

LEMMA TaggedSplit ==
  ASSUME NEW g, NEW I, IsFiniteSet(I), \A i \in I : IsFiniteSet(g[i]), NEW x \in I
  PROVE  Cardinality(Tagged(g, I)) = Cardinality(Tagged(g, I \ {x})) + Cardinality(g[x])
<1>. DEFINE A == Tagged(g, I \ {x})
            B == {<<x, t>> : t \in g[x]}
<1>1. IsFiniteSet(I \ {x}) /\ \A i \in I \ {x} : IsFiniteSet(g[i])
  BY FS_RemoveElement
<1>2. IsFiniteSet(A) /\ Cardinality(A) \in Nat
  BY <1>1, TaggedFinite
<1>3. IsFiniteSet(B) /\ Cardinality(B) = Cardinality(g[x]) /\ Cardinality(B) \in Nat
  BY PairsCounted, FS_CardinalityType
<1>4. Tagged(g, I) = A \cup B
  BY DEF Tagged
<1>5. A \cap B = {}
  <2>1. \A t : <<x, t>> \notin A
    BY TaggedHas
  <2>. QED
    BY <2>1
<1>. HIDE DEF A, B
<1>6. Cardinality(A \cup B) = Cardinality(A) + Cardinality(B) - Cardinality(A \cap B)
  BY <1>2, <1>3, FS_Union
<1>7. Cardinality(A \cap B) = 0
  BY <1>5, FS_EmptySet
<1>8. Cardinality(Tagged(g, I)) = Cardinality(A) + Cardinality(g[x])
  BY <1>2, <1>3, <1>4, <1>6, <1>7
<1>. QED
  BY <1>8 DEF A

LEMMA LeastOf ==
  ASSUME NEW S \in SUBSET Nat, S # {}
  PROVE  \E x \in S : \A y \in S : x <= y
<1>. DEFINE R == OpToRel(<, Nat)
<1>1. IsWellFoundedOn(R, Nat)
  BY NatLessThanWellFounded
<1>2. \A x, y \in Nat : <<y, x>> \in R <=> y < x
  BY DEF OpToRel
<1>. HIDE DEF R
<1>3. PICK x \in S : \A y \in S : ~ (<<y, x>> \in R)
  BY <1>1, WFMin
<1>4. \A y \in S : y \in Nat /\ x \in Nat /\ ~ (y < x)
  BY <1>2, <1>3
<1>5. \A y \in S : x <= y
  BY <1>4
<1>. QED
  BY <1>5

\* Any function that is computed element by element, in whatever order CHOOSE
\* takes them, is the sum of the sizes: a smallest set on which it is not has
\* an element, and without it the set is smaller.
LEMMA SumUnique ==
  ASSUME NEW g, NEW I, IsFiniteSet(I), \A i \in I : IsFiniteSet(g[i]), NEW h,
         \A s \in SUBSET I :
           h[s] = IF s = {} THEN 0
                  ELSE Cardinality(g[CHOOSE x \in s : TRUE]) + h[s \ {CHOOSE x \in s : TRUE}]
  PROVE  \A s \in SUBSET I : h[s] = Cardinality(Tagged(g, s))
<1>. DEFINE Bad  == {s \in SUBSET I : h[s] # Cardinality(Tagged(g, s))}
            Size == {n \in Nat : \E s \in Bad : Cardinality(s) = n}
<1>. SUFFICES ASSUME Bad # {} PROVE FALSE
  OBVIOUS
<1>1. \A s \in SUBSET I : IsFiniteSet(s) /\ Cardinality(s) \in Nat
  BY FS_Subset, FS_CardinalityType
<1>2. Size # {} /\ Size \in SUBSET Nat
  BY <1>1
<1>3. PICK n \in Size : \A m \in Size : n <= m
  <2>. HIDE DEF Size
  <2>. QED
    BY <1>2, LeastOf
<1>4. PICK s \in Bad : Cardinality(s) = n
  BY <1>3
<1>5. s \in SUBSET I /\ h[s] # Cardinality(Tagged(g, s)) /\ n \in Nat
  BY <1>2, <1>3, <1>4
<1>6. CASE s = {}
  <2>1. Tagged(g, s) = {}
    BY <1>6 DEF Tagged
  <2>. QED
    BY <1>5, <1>6, <2>1, FS_EmptySet
<1>7. CASE s # {}
  <2>. DEFINE x == CHOOSE y \in s : TRUE
              r == s \ {x}
  <2>1. x \in s
    BY <1>7
  <2>2. h[s] = Cardinality(g[x]) + h[r]
    BY <1>5, <1>7
  <2>. HIDE DEF x
  <2>3. r \in SUBSET I /\ Cardinality(r) = Cardinality(s) - 1
    BY <1>1, <1>5, <2>1, FS_RemoveElement
  <2>4. r \notin Bad
    <3>1. Cardinality(r) \in Nat /\ ~ (n <= Cardinality(r))
      BY <1>1, <1>4, <1>5, <2>3
    <3>2. Cardinality(r) \notin Size
      <4>. HIDE DEF Size
      <4>. QED
        BY <1>3, <3>1
    <3>. QED
      BY <3>1, <3>2
  <2>5. h[r] = Cardinality(Tagged(g, r))
    BY <2>3, <2>4
  <2>6. Cardinality(Tagged(g, s)) = Cardinality(Tagged(g, r)) + Cardinality(g[x])
    BY <1>1, <1>5, <2>1, TaggedSplit
  <2>7. Cardinality(Tagged(g, r)) \in Nat /\ Cardinality(g[x]) \in Nat
    <3>1. IsFiniteSet(r) /\ \A i \in r : IsFiniteSet(g[i])
      BY <1>1, <2>3
    <3>2. IsFiniteSet(g[x])
      BY <1>5, <2>1
    <3>. HIDE DEF r
    <3>. QED
      BY <3>1, <3>2, TaggedFinite, FS_CardinalityType
  <2>. HIDE DEF r
  <2>. QED
    BY <1>5, <2>2, <2>5, <2>6, <2>7
<1>. QED
  BY <1>6, <1>7

LEMMA SumIs ==
  ASSUME NEW g, NEW I, IsFiniteSet(I), \A i \in I : IsFiniteSet(g[i])
  PROVE  SumFunction([i \in I |-> Cardinality(g[i])]) = Cardinality(Tagged(g, I))
<1>. DEFINE fun == [i \in I |-> Cardinality(g[i])]
            Step(h, s) == IF s = {} THEN 0
                          ELSE fun[CHOOSE x \in s : TRUE] + h[s \ {CHOOSE x \in s : TRUE}]
            iter == CHOOSE h : h = [s \in SUBSET I |-> Step(h, s)]
            size == [s \in SUBSET I |-> Cardinality(Tagged(g, s))]
<1>1. SumFunction(fun) = iter[I]
  BY DEF SumFunction, SumFunctionOnSet, FoldFunctionOnSet, MapThenFoldSet
<1>2. \A s \in SUBSET I : size[s] = Step(size, s)
  <2>. SUFFICES ASSUME NEW s \in SUBSET I PROVE size[s] = Step(size, s)
    OBVIOUS
  <2>1. CASE s = {}
    <3>1. Tagged(g, s) = {}
      BY <2>1 DEF Tagged
    <3>. QED
      BY <2>1, <3>1, FS_EmptySet
  <2>2. CASE s # {}
    <3>. DEFINE x == CHOOSE y \in s : TRUE
    <3>1. x \in s /\ x \in I
      BY <2>2
    <3>2. Step(size, s) = Cardinality(g[x]) + Cardinality(Tagged(g, s \ {x}))
      <4>1. s \ {x} \in SUBSET I
        OBVIOUS
      <4>. QED
        BY <2>2, <3>1, <4>1
    <3>. HIDE DEF x
    <3>3. IsFiniteSet(s) /\ \A i \in s : IsFiniteSet(g[i])
      BY FS_Subset
    <3>4. Cardinality(Tagged(g, s)) = Cardinality(Tagged(g, s \ {x})) + Cardinality(g[x])
      BY <3>1, <3>3, TaggedSplit
    <3>5. IsFiniteSet(s \ {x}) /\ IsFiniteSet(g[x]) /\ \A i \in s \ {x} : IsFiniteSet(g[i])
      BY <3>1, <3>3, FS_RemoveElement
    <3>6. Cardinality(Tagged(g, s \ {x})) \in Nat /\ Cardinality(g[x]) \in Nat
      BY <3>5, TaggedFinite, FS_CardinalityType
    <3>7. size[s] = Cardinality(Tagged(g, s))
      OBVIOUS
    <3>. HIDE DEF size, Step
    <3>. QED
      BY <3>2, <3>4, <3>6, <3>7
  <2>. QED
    BY <2>1, <2>2
<1>3. size = [s \in SUBSET I |-> Step(size, s)]
  BY <1>2
<1>4. iter = [s \in SUBSET I |-> Step(iter, s)]
  BY <1>3
<1>5. \A s \in SUBSET I :
        iter[s] = IF s = {} THEN 0
                  ELSE Cardinality(g[CHOOSE x \in s : TRUE]) + iter[s \ {CHOOSE x \in s : TRUE}]
  <2>. SUFFICES ASSUME NEW s \in SUBSET I
                PROVE iter[s] = IF s = {} THEN 0
                  ELSE Cardinality(g[CHOOSE x \in s : TRUE]) + iter[s \ {CHOOSE x \in s : TRUE}]
    OBVIOUS
  <2>. HIDE DEF iter
  <2>1. iter[s] = Step(iter, s)
    <3>. HIDE DEF Step
    <3>. QED
      BY <1>4
  <2>2. s # {} => (CHOOSE x \in s : TRUE) \in I
    OBVIOUS
  <2>. QED
    BY <2>1, <2>2
<1>. HIDE DEF iter, size, Step
<1>6. \A s \in SUBSET I : iter[s] = Cardinality(Tagged(g, s))
  BY <1>5, SumUnique, SMTT(30), ZenonT(30)
<1>7. iter[I] = Cardinality(Tagged(g, I))
  BY <1>6
<1>. QED
  BY <1>1, <1>7 DEF fun

-----------------------------------------------------------------------------
(* The indices of send_nvl_head and the rows of recv_x.                    *)

LEMMA OffsetsAreNat ==
  ASSUME route \in Routings, NEW s \in Rdma, NEW d, NEW j \in Nvl
  PROVE  /\ RdmaRankOffset(s, d) \in Nat /\ IndexBase(s, d) \in Nat
         /\ GblRankOffset(s, d, j) \in Nat /\ RowBase(s, d, j) \in Nat
<1>. DEFINE I == 0 .. s - 1
            g == [i \in I |-> ToNode(i, d, 0, Len(route[i]))]
            f == [i \in I |-> ToRank(i, d, j, 0, Len(route[i]))]
<1>1. s \in Nat /\ s < NumRdma /\ 0 \in Int
  BY NodeIsNat
<1>2. IsFiniteSet(I)
  BY <1>1, IntervalSize
<1>3. \A i \in I : i \in Rdma
  BY <1>1, Numbers DEF Rdma
<1>4. \A i \in I : IsFiniteSet(g[i]) /\ IsFiniteSet(f[i])
  <2>. SUFFICES ASSUME NEW i \in I PROVE IsFiniteSet(g[i]) /\ IsFiniteSet(f[i])
    OBVIOUS
  <2>. DEFINE n == Len(route[i])
  <2>1. n \in Int
    BY <1>3, TokenRange
  <2>. HIDE DEF n
  <2>2. IsFiniteSet(0 .. n - 1)
    BY <1>1, <2>1, IntervalSize
  <2>3. ToNode(i, d, 0, n) \in SUBSET (0 .. n - 1) /\ ToRank(i, d, j, 0, n) \in SUBSET (0 .. n - 1)
    BY DEF ToNode, ToRank
  <2>4. IsFiniteSet(ToNode(i, d, 0, n)) /\ IsFiniteSet(ToRank(i, d, j, 0, n))
    BY <2>2, <2>3, FS_Subset
  <2>. QED
    BY <2>4 DEF n
<1>5. RdmaRankOffset(s, d) = Cardinality(Tagged(g, I))
  <2>1. Tagged(g, I) = UNION {{<<i, t>> : t \in ToNode(i, d, 0, Len(route[i]))} : i \in I}
    BY DEF Tagged
  <2>. QED
    BY <2>1 DEF RdmaRankOffset
<1>6. GblRankOffset(s, d, j)
        = (s * (NvlPeers - 1) + SrcNvl) * Others + Cardinality(Tagged(f, I))
  <2>1. Tagged(f, I) = UNION {{<<i, t>> : t \in ToRank(i, d, j, 0, Len(route[i]))} : i \in I}
    BY DEF Tagged
  <2>. QED
    BY <2>1 DEF GblRankOffset
<1>. HIDE DEF f, g, I
<1>7. Cardinality(Tagged(g, I)) \in Nat /\ Cardinality(Tagged(f, I)) \in Nat
  BY <1>2, <1>4, TaggedFinite
<1>8. (s * (NvlPeers - 1) + SrcNvl) * Others \in Nat
  <2>1. NvlPeers - 1 \in Nat /\ SrcNvl \in Nat
    BY Numbers DEF Nvl
  <2>2. s * (NvlPeers - 1) \in Nat
    BY <1>1, <2>1
  <2>3. (s * (NvlPeers - 1) + SrcNvl) \in Nat
    BY <2>1, <2>2
  <2>. QED
    BY <2>3, Numbers
<1>9. RdmaPrefix(s, d, First(s)) \in Nat /\ GblPrefix(s, d, j, First(s)) \in Nat
  BY ChannelTotals
<1>. QED
  BY <1>5, <1>6, <1>7, <1>8, <1>9 DEF IndexBase, RowBase

\* What one source sends is before what the next one sends.
LEMMA OffsetsGrow ==
  ASSUME route \in Routings, NEW s \in Rdma, NEW r \in Rdma, s < r, NEW d, NEW u \in Flow(s, d)
  PROVE  IndexBase(s, d) + Place(s, d, u) < RdmaRankOffset(r, d)
<1>. DEFINE g == [i \in Rdma |-> ToNode(i, d, 0, Len(route[i]))]
            I == 0 .. s - 1
            J == 0 .. r - 1
            n == Len(route[s])
            A == {t \in 0 .. n - 1 : d \in Nodes(s, t)}
            B == {t \in 0 .. u - 1 : d \in Nodes(s, t)}
<1>1. s \in Nat /\ r \in Nat /\ r < NumRdma /\ 0 \in Int /\ NumRdma \in Int
  BY NodeIsNat, Numbers
<1>2. \A i \in Rdma : IsFiniteSet(g[i])
  <2>. SUFFICES ASSUME NEW i \in Rdma PROVE IsFiniteSet(g[i])
    OBVIOUS
  <2>. DEFINE m == Len(route[i])
  <2>1. m \in Int
    BY TokenRange
  <2>. HIDE DEF m
  <2>2. IsFiniteSet(0 .. m - 1)
    BY <1>1, <2>1, IntervalSize
  <2>3. ToNode(i, d, 0, m) \in SUBSET (0 .. m - 1)
    BY DEF ToNode
  <2>4. IsFiniteSet(ToNode(i, d, 0, m))
    BY <2>2, <2>3, FS_Subset
  <2>. QED
    BY <2>4 DEF m
<1>3. /\ IsFiniteSet(I) /\ IsFiniteSet(J) /\ I \in SUBSET Rdma /\ J \in SUBSET Rdma
      /\ s \in J /\ I \in SUBSET (J \ {s})
  <2>1. IsFiniteSet(I) /\ IsFiniteSet(J)
    BY <1>1, IntervalSize
  <2>2. I \in SUBSET Rdma /\ J \in SUBSET Rdma /\ s \in J /\ I \in SUBSET (J \ {s})
    BY <1>1 DEF Rdma
  <2>. QED
    BY <2>1, <2>2
<1>4. RdmaRankOffset(s, d) = Cardinality(Tagged(g, I))
  <2>0. \A i \in I : g[i] = ToNode(i, d, 0, Len(route[i]))
    BY <1>3
  <2>1. Tagged(g, I) = UNION {{<<i, t>> : t \in ToNode(i, d, 0, Len(route[i]))} : i \in I}
    <3>. HIDE DEF g, I
    <3>. QED
      BY <2>0 DEF Tagged
  <2>. QED
    BY <2>1 DEF RdmaRankOffset
<1>5. RdmaRankOffset(r, d) = Cardinality(Tagged(g, J))
  <2>0. \A i \in J : g[i] = ToNode(i, d, 0, Len(route[i]))
    BY <1>3
  <2>1. Tagged(g, J) = UNION {{<<i, t>> : t \in ToNode(i, d, 0, Len(route[i]))} : i \in J}
    <3>. HIDE DEF g, J
    <3>. QED
      BY <2>0 DEF Tagged
  <2>. QED
    BY <2>1 DEF RdmaRankOffset
<1>6. g[s] = A
  BY DEF ToNode
<1>7. u \in Nat /\ First(s) <= u /\ u < Past(s) /\ Past(s) <= n /\ n \in Nat /\ d \in Nodes(s, u)
      /\ First(s) \in Nat /\ Past(s) \in Nat
  <2>1. u \in Nat /\ First(s) <= u /\ u < Past(s) /\ u \in Int
    BY FlowIs
  <2>2. First(s) \in Nat /\ Past(s) \in Nat /\ Past(s) <= n /\ n \in Nat
    BY TokenRange
  <2>3. u \in First(s) .. Past(s) - 1
    BY <2>1, <2>2
  <2>4. d \in Nodes(s, u)
    BY <2>3, FlowIs
  <2>. QED
    BY <2>1, <2>2, <2>4
<1>8. RdmaPrefix(s, d, u) = Cardinality(B)
  BY DEF RdmaPrefix, ToNode
<1>9. RdmaPrefix(s, d, u) = RdmaPrefix(s, d, First(s)) + Place(s, d, u)
  <2>1. u \in First(s) .. Past(s)
    BY <1>7
  <2>. QED
    BY <2>1, PrefixIs
<1>10. B \in SUBSET A /\ u \in A /\ u \notin B
  <2>1. \A t : t \in 0 .. u - 1 => t \in 0 .. n - 1
    BY <1>7
  <2>2. u \in 0 .. n - 1 /\ u \notin 0 .. u - 1
    BY <1>7
  <2>. HIDE DEF n
  <2>. QED
    BY <1>7, <2>1, <2>2
<1>11. IsFiniteSet(A)
  BY <1>2, <1>6
<1>. HIDE DEF g, I, J, A, B, n
<1>12. Cardinality(B) <= Cardinality(A) /\ Cardinality(B) # Cardinality(A)
       /\ Cardinality(B) \in Nat /\ Cardinality(A) \in Nat
  BY <1>10, <1>11, FS_Subset, FS_CardinalityType
<1>13. \A i \in J : IsFiniteSet(g[i])
  BY <1>2, <1>3
<1>14. Cardinality(Tagged(g, J)) = Cardinality(Tagged(g, J \ {s})) + Cardinality(A)
  BY <1>3, <1>6, <1>13, TaggedSplit
<1>15. /\ Cardinality(Tagged(g, I)) <= Cardinality(Tagged(g, J \ {s}))
       /\ Cardinality(Tagged(g, I)) \in Nat /\ Cardinality(Tagged(g, J \ {s})) \in Nat
  <2>1. IsFiniteSet(J \ {s}) /\ \A i \in J \ {s} : IsFiniteSet(g[i])
    BY <1>3, <1>13, FS_RemoveElement
  <2>2. IsFiniteSet(Tagged(g, J \ {s}))
    BY <2>1, TaggedFinite
  <2>3. Tagged(g, I) \in SUBSET Tagged(g, J \ {s})
    BY <1>3 DEF Tagged
  <2>. QED
    BY <2>2, <2>3, FS_Subset, FS_CardinalityType
<1>16. RdmaPrefix(s, d, First(s)) \in Nat /\ Place(s, d, u) \in Nat
  <2>1. u \in Int
    BY <1>7
  <2>2. RdmaPrefix(s, d, First(s)) \in Nat
    BY ChannelTotals
  <2>. QED
    BY <2>1, <2>2, PlaceIs
<1>17. IndexBase(s, d) + Place(s, d, u) = Cardinality(Tagged(g, I)) + Cardinality(B)
  BY <1>4, <1>8, <1>9, <1>15, <1>16 DEF IndexBase
<1>. QED
  BY <1>5, <1>12, <1>14, <1>15, <1>17

LEMMA IndexesDiffer ==
  ASSUME route \in Routings, NEW s \in Rdma, NEW r \in Rdma, NEW d,
         NEW u \in Flow(s, d), NEW v \in Flow(r, d),
         IndexBase(s, d) + Place(s, d, u) = IndexBase(r, d) + Place(r, d, v)
  PROVE  s = r /\ u = v
<1>1. s \in Nat /\ r \in Nat /\ u \in Int /\ v \in Int
  BY NodeIsNat, FlowIs
<1>2. /\ Place(s, d, u) \in Nat /\ Place(r, d, v) \in Nat
      /\ RdmaRankOffset(s, d) \in Nat /\ RdmaRankOffset(r, d) \in Nat
      /\ RdmaRankOffset(s, d) <= IndexBase(s, d) /\ RdmaRankOffset(r, d) <= IndexBase(r, d)
      /\ IndexBase(s, d) \in Nat /\ IndexBase(r, d) \in Nat
  <2>1. Place(s, d, u) \in Nat /\ Place(r, d, v) \in Nat
    BY <1>1, PlaceIs
  <2>2. SrcNvl \in Nvl
    BY Numbers
  <2>3. /\ RdmaRankOffset(s, d) \in Nat /\ RdmaRankOffset(r, d) \in Nat
        /\ IndexBase(s, d) \in Nat /\ IndexBase(r, d) \in Nat
    BY <2>2, OffsetsAreNat
  <2>4. RdmaPrefix(s, d, First(s)) \in Nat /\ RdmaPrefix(r, d, First(r)) \in Nat
    BY ChannelTotals
  <2>. QED
    BY <2>1, <2>3, <2>4 DEF IndexBase
<1>3. ~ (s < r)
  <2>. SUFFICES ASSUME s < r PROVE FALSE
    OBVIOUS
  <2>1. IndexBase(s, d) + Place(s, d, u) < RdmaRankOffset(r, d)
    BY OffsetsGrow
  <2>. QED
    BY <1>2, <2>1
<1>4. ~ (r < s)
  <2>. SUFFICES ASSUME r < s PROVE FALSE
    OBVIOUS
  <2>1. IndexBase(r, d) + Place(r, d, v) < RdmaRankOffset(s, d)
    BY OffsetsGrow
  <2>. QED
    BY <1>2, <2>1
<1>5. s = r
  BY <1>1, <1>3, <1>4
<1>6. Place(s, d, u) = Place(s, d, v)
  BY <1>2, <1>5
<1>. QED
  BY <1>1, <1>5, <1>6, PlaceIs

-----------------------------------------------------------------------------
(* What a step that does not touch a part leaves of it.                    *)

LEMMA RouteFixed ==
  ASSUME route' = route
  PROVE  /\ \A s : First(s)' = First(s) /\ Past(s)' = Past(s)
         /\ \A s, d : Flow(s, d)' = Flow(s, d) /\ IndexBase(s, d)' = IndexBase(s, d)
         /\ \A s, d, t : Place(s, d, t)' = Place(s, d, t)
         /\ \A s, d, j : FlowTo(s, d, j)' = FlowTo(s, d, j) /\ RowBase(s, d, j)' = RowBase(s, d, j)
         /\ \A s, d, j, t : RankPlace(s, d, j, t)' = RankPlace(s, d, j, t)
         /\ \A s, d, j, h : Passed(s, d, j, h)' = Passed(s, d, j, h)
         /\ \A s, d, t : RdmaPrefix(s, d, t)' = RdmaPrefix(s, d, t)
         /\ \A s, d, j, t : GblPrefix(s, d, j, t)' = GblPrefix(s, d, j, t)
<1>1. \A s : First(s)' = First(s) /\ Past(s)' = Past(s)
  BY DEF First, Past, TokenStart, TokenEnd, PerChannel
<1>2. \A s, t : Ranks(s, t)' = Ranks(s, t) /\ Nodes(s, t)' = Nodes(s, t)
  BY DEF Nodes, Ranks
<1>3. \A s, d, a, b : ToNode(s, d, a, b)' = ToNode(s, d, a, b)
  BY <1>2 DEF ToNode
<1>4. \A s, d, j, a, b : ToRank(s, d, j, a, b)' = ToRank(s, d, j, a, b)
  BY <1>2 DEF ToRank
<1>5. \A s, d : Flow(s, d)' = Flow(s, d)
  BY <1>1, <1>3 DEF Flow
<1>6. \A s, d, j : FlowTo(s, d, j)' = FlowTo(s, d, j)
  BY <1>1, <1>4 DEF FlowTo
<1>7. \A s, d, t : Place(s, d, t)' = Place(s, d, t)
  BY <1>5 DEF Place, Earlier
<1>8. \A s, d, j, t : RankPlace(s, d, j, t)' = RankPlace(s, d, j, t)
  BY <1>6 DEF RankPlace, Earlier
<1>9. \A s, d, j, h : Passed(s, d, j, h)' = Passed(s, d, j, h)
  BY <1>6, <1>7 DEF Passed
<1>10. \A s, d, t : RdmaPrefix(s, d, t)' = RdmaPrefix(s, d, t)
  BY <1>3 DEF RdmaPrefix
<1>11. \A s, d, j, t : GblPrefix(s, d, j, t)' = GblPrefix(s, d, j, t)
  BY <1>4 DEF GblPrefix
<1>12. \A s, d : IndexBase(s, d)' = IndexBase(s, d)
  <2>1. \A s, d : RdmaRankOffset(s, d)' = RdmaRankOffset(s, d)
    BY DEF RdmaRankOffset, ToNode, Nodes, Ranks
  <2>. QED
    BY <1>1, <1>10, <2>1 DEF IndexBase
<1>13. \A s, d, j : RowBase(s, d, j)' = RowBase(s, d, j)
  <2>1. \A s, d, j : GblRankOffset(s, d, j)' = GblRankOffset(s, d, j)
    BY DEF GblRankOffset, ToRank, Ranks
  <2>. QED
    BY <1>1, <1>11, <2>1 DEF RowBase
<1>. QED
  BY <1>1, <1>5, <1>6, <1>7, <1>8, <1>9, <1>10, <1>11, <1>12, <1>13

LEMMA WarpsKept ==
  ASSUME NEW s \in Rdma, route' = route, WarpsOK(s), lock'[s] = lock[s],
         \A w \in Warps : wTok'[<<s, w>>] = wTok[<<s, w>>] /\ wPc'[<<s, w>>] = wPc[<<s, w>>]
  PROVE  WarpsOK(s)'
BY RouteFixed DEF WarpsOK

LEMMA TailsKept ==
  ASSUME NEW s \in Rdma, NEW d \in Rdma, route' = route, TailsOK(s, d),
         UNCHANGED <<lock[s], nextTail[<<s, d>>], sendTail[<<s, d>>], sendHead[<<s, d>>]>>,
         \A w \in Warps : /\ wTok'[<<s, w>>] = wTok[<<s, w>>] /\ wPc'[<<s, w>>] = wPc[<<s, w>>]
                          /\ wLast'[<<s, w>>] = wLast[<<s, w>>]
  PROVE  TailsOK(s, d)'
BY RouteFixed DEF TailsOK, LastTok

LEMMA RingKept ==
  ASSUME NEW s \in Rdma, NEW d \in Rdma, RingOK(s, d),
         UNCHANGED <<issued[<<s, d>>], sendTail[<<s, d>>], rdmaTail[<<s, d>>], rdmaHead[<<s, d>>],
                     credited[<<s, d>>], nextTail[<<s, d>>], put[s]>>
  PROVE  RingOK(s, d)'
BY DEF RingOK

LEMMA SentKept ==
  ASSUME NEW s \in Rdma, NEW d \in Rdma, route' = route, SentSlotsOK(s, d),
         UNCHANGED <<lock[s], rdmaHead[<<s, d>>], sendBuf[<<s, d>>], recvBuf[<<s, d>>]>>,
         \A w \in Warps : wTok'[<<s, w>>] = wTok[<<s, w>>] /\ wPc'[<<s, w>>] = wPc[<<s, w>>]
  PROVE  SentSlotsOK(s, d)'
BY RouteFixed DEF SentSlotsOK, Copying

LEMMA ArrivedKept ==
  ASSUME NEW s \in Rdma, NEW d \in Rdma, route' = route, ArrivedSlotsOK(s, d),
         UNCHANGED <<put[s], issued[<<s, d>>], rdmaHead[<<s, d>>], recvBuf[<<s, d>>]>>
  PROVE  ArrivedSlotsOK(s, d)'
BY RouteFixed DEF ArrivedSlotsOK, Arrived

LEMMA MetaKept ==
  ASSUME NEW s \in Rdma, NEW d \in Rdma, route' = route, MetaOK(s, d),
         UNCHANGED <<notified[s], meta[<<s, d>>]>>
  PROVE  MetaOK(s, d)'
BY RouteFixed DEF MetaOK, Encode

LEMMA ForwarderKept ==
  ASSUME NEW s \in Rdma, NEW d \in Rdma, NEW j \in Nvl, route' = route, ForwarderOK(d, j, s),
         notified[s] => notified'[s],
         UNCHANGED <<fPc[<<d, j>>], nvlStart[<<d, j>>], nvlEnd[<<d, j>>], fHead[<<d, j>>],
                     fTail[<<d, j>>], fwdHead[<<d, j>>], fIdx[<<d, j>>], rdmaTail[<<s, d>>],
                     credited[<<s, d>>]>>
  PROVE  ForwarderOK(d, j, s)'
BY RouteFixed DEF ForwarderOK, Encode

LEMMA HeadsKept ==
  ASSUME NEW d \in Rdma, NEW j \in Nvl, route' = route, HeadsOK(d, j),
         UNCHANGED <<sendNvlHead[<<d, j>>], fHead[<<d, j>>]>>
  PROVE  HeadsOK(d, j)'
BY RouteFixed DEF HeadsOK

LEMMA QueueKept ==
  ASSUME NEW d \in Rdma, NEW j \in Nvl, route' = route, QueueOK(d, j),
         UNCHANGED <<nvlHead[<<d, j>>], rHead[<<d, j>>], nvlTail[<<d, j>>], fNvlTail[<<d, j>>],
                     nvlBuf[<<d, j>>], fIdx[<<d, j>>], rOff[<<d, j>>]>>,
         rPc'[<<d, j>>] = "prefix" <=> rPc[<<d, j>>] = "prefix"
  PROVE  QueueOK(d, j)'
<1>1. \A s \in Rdma : Received(d, j, s)' = Received(d, j, s) /\ InQueue(d, j, s)' = InQueue(d, j, s)
  BY RouteFixed DEF Received, InQueue
<1>2. \A s \in Rdma : \A i : Earlier(InQueue(d, j, s), i)' = Earlier(InQueue(d, j, s), i)
  BY <1>1 DEF Earlier
<1>. QED
  BY <1>1, <1>2, RouteFixed DEF QueueOK

LEMMA ReceiverKept ==
  ASSUME NEW d \in Rdma, NEW j \in Nvl, route' = route, ReceiverOK(d, j),
         UNCHANGED <<rPc[<<d, j>>], rOff[<<d, j>>], rLeft[<<d, j>>], chanOff[<<d, j>>], recvX[<<d, j>>]>>
  PROVE  ReceiverOK(d, j)'
<1>1. \A s \in Rdma : Received(d, j, s)' = Received(d, j, s)
  BY RouteFixed DEF Received
<1>2. Missing(d, j)' = Missing(d, j)
  BY <1>1, RouteFixed DEF Missing
<1>. QED
  BY <1>1, <1>2, RouteFixed DEF ReceiverOK

-----------------------------------------------------------------------------
(* The initial states.                                                     *)

LEMMA InitOK == Init => IInv
<1>. SUFFICES ASSUME Init PROVE IInv
  OBVIOUS
<1>1. route \in Routings
  BY DEF Init
<1>2. \A s \in Rdma : /\ First(s) \in Nat /\ Past(s) \in Nat /\ First(s) <= Past(s)
  BY <1>1, TokenRange
<1>3. \A w \in Warps : w \in Nat /\ w < SenderWarps
  BY Numbers DEF Warps
<1>4. /\ {nextTail, sendTail, issued, rdmaTail, rdmaHead, credited} = {[p \in Rdma \X Rdma |-> 0]}
      /\ {sendBuf, recvBuf} = {[p \in Rdma \X Rdma |-> [i \in 0 .. RdmaRecv - 1 |-> None]]}
      /\ {fHead, fTail, fwdHead, fIdx} = {[q \in Rdma \X Nvl |-> [s \in Rdma |-> 0]]}
      /\ {nvlStart, nvlEnd, rOff, chanOff} = {[q \in Rdma \X Nvl |-> [s \in Rdma |-> 0]]}
      /\ {nvlTail, fNvlTail, nvlHead, rHead, rLeft} = {[q \in Rdma \X Nvl |-> 0]}
  BY DEF Init
<1>5. Typed
  <2>1. lock \in [Rdma -> Int] /\ wTok \in [Rdma \X Warps -> Int]
    BY <1>2, <1>3 DEF Init
  <2>2. \A p \in Rdma \X Rdma : sendHead[p] \in [First(p[1]) .. Past(p[1]) - 1 -> Int]
    BY DEF Init, Unset
  <2>3. /\ notified \in [Rdma -> BOOLEAN] /\ wPc \in [Rdma \X Warps -> {"lock", "copy", "done"}]
        /\ wLast \in [Rdma \X Warps -> [Rdma -> Int]]
        /\ meta \in [Rdma \X Rdma -> [start : [Nvl -> Int], end : [Nvl -> Int], from : Int, to : Int]]
        /\ DOMAIN sendHead = Rdma \X Rdma
        /\ DOMAIN sendNvlHead = Rdma \X Nvl /\ DOMAIN recvX = Rdma \X Nvl
        /\ put \in [Rdma -> {<<>>} \cup (Rdma \X Nat \X BOOLEAN)]
        /\ fPc \in [Rdma \X Nvl -> {"meta", "run", "publish", "retired"}]
        /\ rPc \in [Rdma \X Nvl -> {"prefix", "run", "publish", "done"}]
    BY DEF Init, None
  <2>4. nvlBuf \in [Rdma \X Nvl -> [0 .. NvlRecv - 1 -> Int \X Int]]
    BY DEF Init, None
  <2>5. /\ {nextTail, sendTail, issued, rdmaTail, rdmaHead, credited}
             \subseteq [Rdma \X Rdma -> Nat]
        /\ {sendBuf, recvBuf} \subseteq [Rdma \X Rdma -> [0 .. RdmaRecv - 1 -> Int]]
        /\ {fHead, fTail, fwdHead, fIdx} \subseteq [Rdma \X Nvl -> [Rdma -> Nat]]
        /\ {nvlStart, nvlEnd, rOff, chanOff} \subseteq [Rdma \X Nvl -> [Rdma -> Int]]
        /\ {nvlTail, fNvlTail, nvlHead, rHead} \subseteq [Rdma \X Nvl -> Nat]
        /\ rLeft \in [Rdma \X Nvl -> Int]
    <3>1. [p \in Rdma \X Rdma |-> 0] \in [Rdma \X Rdma -> Nat]
      OBVIOUS
    <3>2. [p \in Rdma \X Rdma |-> [i \in 0 .. RdmaRecv - 1 |-> None]]
            \in [Rdma \X Rdma -> [0 .. RdmaRecv - 1 -> Int]]
      BY DEF None
    <3>3. [q \in Rdma \X Nvl |-> [s \in Rdma |-> 0]] \in [Rdma \X Nvl -> [Rdma -> Nat]]
      OBVIOUS
    <3>4. [q \in Rdma \X Nvl |-> [s \in Rdma |-> 0]] \in [Rdma \X Nvl -> [Rdma -> Int]]
      OBVIOUS
    <3>5. [q \in Rdma \X Nvl |-> 0] \in [Rdma \X Nvl -> Nat] /\ Nat \subseteq Int
      OBVIOUS
    <3>6. rLeft = [q \in Rdma \X Nvl |-> 0]
      BY <1>4
    <3>7. rLeft \in [Rdma \X Nvl -> Int]
      BY <3>6
    <3>. QED
      BY <1>4, <3>1, <3>2, <3>3, <3>4, <3>5, <3>7
  <2>. QED
    BY <1>1, <2>1, <2>2, <2>3, <2>4, <2>5 DEF Typed
<1>6. ASSUME NEW s \in Rdma PROVE WarpsOK(s)
  <2>1. lock[s] = First(s) /\ \A w \in Warps : wTok[<<s, w>>] = First(s) + w /\ wPc[<<s, w>>] = "lock"
    BY DEF Init
  <2>2. First(s) \in Nat /\ Past(s) \in Nat /\ First(s) <= Past(s) /\ SenderWarps \in Nat \ {0}
    BY <1>2, Numbers
  <2>3. \A w \in Warps : (First(s) + w - First(s)) % SenderWarps = w
    BY <1>3, <2>2
  <2>4. \A w \in Warps :
          /\ First(s) <= First(s) + w /\ First(s) + w < Past(s) + SenderWarps
          /\ First(s) <= (First(s) + w) + SenderWarps
    BY <1>3, <2>2
  <2>5. First(s) <= lock[s] /\ lock[s] <= Past(s) + SenderWarps
    BY <2>1, <2>2
  <2>6. ASSUME NEW w \in Warps
        PROVE  /\ First(s) <= wTok[<<s, w>>] /\ wTok[<<s, w>>] < Past(s) + SenderWarps
               /\ (wTok[<<s, w>>] - First(s)) % SenderWarps = w
               /\ lock[s] <= wTok[<<s, w>>] + SenderWarps /\ lock[s] <= wTok[<<s, w>>]
               /\ wPc[<<s, w>>] = "lock"
    <3>1. wTok[<<s, w>>] = First(s) + w /\ wPc[<<s, w>>] = "lock" /\ lock[s] = First(s)
      BY <2>1
    <3>2. First(s) <= First(s) + w
      BY <1>3, <2>2
    <3>3. (wTok[<<s, w>>] - First(s)) % SenderWarps = w
      <4>1. wTok[<<s, w>>] - First(s) = w /\ w \in Nat /\ w < SenderWarps
        BY <1>3, <2>2, <3>1
      <4>. QED
        BY <2>2, <4>1
    <3>4. /\ First(s) + w < Past(s) + SenderWarps
          /\ First(s) <= (First(s) + w) + SenderWarps
      BY <2>4
    <3>. QED
      BY <3>1, <3>2, <3>3, <3>4
  <2>. QED
    BY <2>5, <2>6 DEF WarpsOK
<1>7. \A p \in Rdma \X Rdma :
        /\ nextTail[p] = 0 /\ sendTail[p] = 0 /\ issued[p] = 0 /\ rdmaTail[p] = 0
        /\ rdmaHead[p] = 0 /\ credited[p] = 0
  BY <1>4
<1>8. ASSUME NEW s \in Rdma, NEW d \in Rdma
      PROVE TailsOK(s, d) /\ RingOK(s, d) /\ MetaOK(s, d) /\ SentSlotsOK(s, d) /\ ArrivedSlotsOK(s, d)
  <2>1. lock[s] = First(s) /\ First(s) \in Nat /\ SenderWarps \in Nat /\ RdmaRecv \in Nat
    BY <1>2, Numbers DEF Init
  <2>2. /\ nextTail[<<s, d>>] = 0 /\ sendTail[<<s, d>>] = 0 /\ issued[<<s, d>>] = 0 /\ rdmaTail[<<s, d>>] = 0
        /\ rdmaHead[<<s, d>>] = 0 /\ credited[<<s, d>>] = 0
    BY <1>7
  <2>3. put[s] = <<>> /\ notified[s] = FALSE /\ meta[<<s, d>>].to = 0
    BY DEF Init
  <2>4. \A t \in Flow(s, d) : t \in Nat /\ First(s) <= t /\ Place(s, d, t) \in Nat
    <3>1. \A t \in Flow(s, d) : t \in Nat /\ First(s) <= t /\ t \in Int
      BY <1>1, FlowIs
    <3>. QED
      BY <1>1, <3>1, PlaceIs
  <2>5. TailsOK(s, d)
    <3>1. Place(s, d, First(s)) = 0 /\ Place(s, d, First(s) - SenderWarps) = 0
      BY <1>1, <2>1, PlaceIs
    <3>2. \A w \in Warps : wLast[<<s, w>>][d] = None /\ LastTok(s, w) = First(s) + w - SenderWarps
      <4>. SUFFICES ASSUME NEW w \in Warps
                    PROVE wLast[<<s, w>>][d] = None /\ LastTok(s, w) = First(s) + w - SenderWarps
        OBVIOUS
      <4>1. wTok[<<s, w>>] = First(s) + w /\ wPc[<<s, w>>] = "lock"
        BY DEF Init
      <4>2. wLast[<<s, w>>] = [x \in Rdma |-> None]
        BY DEF Init
      <4>. QED
        BY <1>3, <2>1, <4>1, <4>2 DEF LastTok
    <3>3. \A w \in Warps : First(s) + w - SenderWarps \notin Flow(s, d)
      BY <1>3, <2>1, <2>4
    <3>4. \A t \in First(s) .. Past(s) - 1 : ~ (t < lock[s])
      BY <1>2, <2>1
    <3>. QED
      BY <2>1, <2>2, <3>1, <3>2, <3>3, <3>4 DEF TailsOK
  <2>6. RingOK(s, d)
    BY <2>1, <2>2, <2>3 DEF RingOK
  <2>7. SentSlotsOK(s, d)
    <3>1. \A t \in Flow(s, d) : ~ (t < lock[s])
      BY <2>1, <2>4
    <3>. QED
      BY <3>1 DEF SentSlotsOK
  <2>8. ArrivedSlotsOK(s, d)
    <3>1. Arrived(s, d) = 0
      BY <2>2, <2>3 DEF Arrived
    <3>2. \A t \in Flow(s, d) : ~ (Place(s, d, t) < 0)
      BY <2>4
    <3>. QED
      BY <3>1, <3>2 DEF ArrivedSlotsOK
  <2>. QED
    BY <2>3, <2>5, <2>6, <2>7, <2>8 DEF MetaOK
<1>9. ASSUME NEW d \in Rdma, NEW j \in Nvl
      PROVE  /\ \A s \in Rdma : ForwarderOK(d, j, s)
             /\ HeadsOK(d, j) /\ QueueOK(d, j) /\ ReceiverOK(d, j)
  <2>1. \A s \in Rdma : /\ fHead[<<d, j>>][s] = 0 /\ fTail[<<d, j>>][s] = 0 /\ fIdx[<<d, j>>][s] = 0
                        /\ fwdHead[<<d, j>>][s] = 0 /\ nvlStart[<<d, j>>][s] = 0
    <3>1. /\ fHead = [q \in Rdma \X Nvl |-> [s \in Rdma |-> 0]]
          /\ fTail = [q \in Rdma \X Nvl |-> [s \in Rdma |-> 0]]
          /\ fIdx = [q \in Rdma \X Nvl |-> [s \in Rdma |-> 0]]
          /\ fwdHead = [q \in Rdma \X Nvl |-> [s \in Rdma |-> 0]]
          /\ nvlStart = [q \in Rdma \X Nvl |-> [s \in Rdma |-> 0]]
      BY <1>4
    <3>. QED
      BY <3>1
  <2>2. /\ nvlTail[<<d, j>>] = 0 /\ nvlHead[<<d, j>>] = 0 /\ rLeft[<<d, j>>] = 0
        /\ fNvlTail[<<d, j>>] = 0 /\ rHead[<<d, j>>] = 0
    <3>1. /\ nvlTail = [q \in Rdma \X Nvl |-> 0] /\ nvlHead = [q \in Rdma \X Nvl |-> 0]
          /\ fNvlTail = [q \in Rdma \X Nvl |-> 0] /\ rHead = [q \in Rdma \X Nvl |-> 0]
          /\ rLeft = [q \in Rdma \X Nvl |-> 0]
      BY <1>4
    <3>. QED
      BY <3>1
  <2>3. fPc[<<d, j>>] = "meta" /\ rPc[<<d, j>>] = "prefix" /\ sendNvlHead[<<d, j>>] = {} /\ recvX[<<d, j>>] = {}
    BY DEF Init
  <2>4. \A s \in Rdma : /\ rdmaTail[<<s, d>>] = 0 /\ credited[<<s, d>>] = 0
                        /\ Cardinality(Passed(s, d, j, 0)) = 0
    BY <1>1, <1>7, PassedIs
  <2>5. \A s \in Rdma : ForwarderOK(d, j, s)
    BY <2>1, <2>3, <2>4 DEF ForwarderOK
  <2>6. \A s \in Rdma : \A u \in Flow(s, d) : ~ (Place(s, d, u) < 0)
    <3>1. \A s \in Rdma : \A u \in Flow(s, d) : u \in Int
      BY <1>1, FlowIs
    <3>2. \A s \in Rdma : \A u \in Flow(s, d) : Place(s, d, u) \in Nat
      BY <1>1, <3>1, PlaceIs
    <3>. QED
      BY <3>2
  <2>7. HeadsOK(d, j)
    BY <2>1, <2>3, <2>6 DEF HeadsOK
  <2>8. \A s \in Rdma : Received(d, j, s) = 0
    BY <2>3 DEF Received
  <2>9. QueueOK(d, j)
    <3>1. 0 .. 0 - 1 = {}
      OBVIOUS
    <3>2. \A s \in Rdma : InQueue(d, j, s) = {} /\ Cardinality(InQueue(d, j, s)) = 0
      BY <2>2, <3>1, FS_EmptySet DEF InQueue
    <3>3. 0 <= 0 + NvlRecv /\ 0 = 0 + 0
      BY Numbers
    <3>. QED
      BY <2>1, <2>2, <2>8, <3>1, <3>2, <3>3 DEF QueueOK
  <2>10. ReceiverOK(d, j)
    <3>1. \A s \in Rdma : \A u \in FlowTo(s, d, j) : ~ (RankPlace(s, d, j, u) < 0)
      <4>1. \A s \in Rdma : \A u \in FlowTo(s, d, j) : u \in Int
        BY <1>1, FlowIs
      <4>2. \A s \in Rdma : \A u \in FlowTo(s, d, j) : RankPlace(s, d, j, u) \in Nat
        BY <1>1, <4>1, RankPlaceIs
      <4>. QED
        BY <4>2
    <3>. QED
      BY <2>2, <2>3, <2>8, <3>1 DEF ReceiverOK
  <2>. QED
    BY <2>5, <2>7, <2>9, <2>10
<1>. QED
  BY <1>5, <1>6, <1>8, <1>9 DEF IInv

-----------------------------------------------------------------------------
(* The source: steps of the warps and of the coordinator.                  *)

LEMMA SourceTypes ==
  ASSUME Typed, NEW s \in Rdma, NEW d \in Rdma
  PROVE  /\ <<s, d>> \in Rdma \X Rdma /\ lock[s] \in Int
         /\ nextTail[<<s, d>>] \in Nat /\ sendTail[<<s, d>>] \in Nat /\ issued[<<s, d>>] \in Nat
         /\ rdmaTail[<<s, d>>] \in Nat /\ rdmaHead[<<s, d>>] \in Nat /\ credited[<<s, d>>] \in Nat
         /\ sendBuf[<<s, d>>] \in [0 .. RdmaRecv - 1 -> Int]
         /\ recvBuf[<<s, d>>] \in [0 .. RdmaRecv - 1 -> Int]
         /\ sendHead[<<s, d>>] \in [First(s) .. Past(s) - 1 -> Int]
         /\ \A w \in Warps : /\ <<s, w>> \in Rdma \X Warps
                             /\ wTok[<<s, w>>] \in Int /\ wLast[<<s, w>>] \in [Rdma -> Int]
                             /\ wPc[<<s, w>>] \in {"lock", "copy", "done"}
         /\ put[s] # <<>> => /\ put[s] \in Rdma \X Nat \X BOOLEAN
                             /\ put[s][1] \in Rdma /\ put[s][2] \in Nat /\ put[s][3] \in BOOLEAN
<1>1. <<s, d>> \in Rdma \X Rdma /\ \A w \in Warps : <<s, w>> \in Rdma \X Warps
  OBVIOUS
<1>2. /\ nextTail \in [Rdma \X Rdma -> Nat] /\ sendTail \in [Rdma \X Rdma -> Nat]
      /\ issued \in [Rdma \X Rdma -> Nat] /\ rdmaTail \in [Rdma \X Rdma -> Nat]
      /\ rdmaHead \in [Rdma \X Rdma -> Nat] /\ credited \in [Rdma \X Rdma -> Nat]
      /\ sendBuf \in [Rdma \X Rdma -> [0 .. RdmaRecv - 1 -> Int]]
      /\ recvBuf \in [Rdma \X Rdma -> [0 .. RdmaRecv - 1 -> Int]]
      /\ lock \in [Rdma -> Int] /\ wTok \in [Rdma \X Warps -> Int]
      /\ wPc \in [Rdma \X Warps -> {"lock", "copy", "done"}]
      /\ wLast \in [Rdma \X Warps -> [Rdma -> Int]]
      /\ put \in [Rdma -> {<<>>} \cup (Rdma \X Nat \X BOOLEAN)]
      /\ \A p \in Rdma \X Rdma : sendHead[p] \in [First(p[1]) .. Past(p[1]) - 1 -> Int]
  BY DEF Typed
<1>3. sendHead[<<s, d>>] \in [First(s) .. Past(s) - 1 -> Int]
  BY <1>1, <1>2
<1>4. put[s] # <<>> => put[s] \in Rdma \X Nat \X BOOLEAN
  BY <1>2
<1>. QED
  BY <1>1, <1>2, <1>3, <1>4

LEMMA RankTypes ==
  ASSUME Typed, NEW d \in Rdma, NEW j \in Nvl
  PROVE  /\ <<d, j>> \in Rdma \X Nvl
         /\ fPc[<<d, j>>] \in {"meta", "run", "publish", "retired"}
         /\ rPc[<<d, j>>] \in {"prefix", "run", "publish", "done"}
         /\ fHead[<<d, j>>] \in [Rdma -> Nat] /\ fTail[<<d, j>>] \in [Rdma -> Nat]
         /\ fwdHead[<<d, j>>] \in [Rdma -> Nat] /\ fIdx[<<d, j>>] \in [Rdma -> Nat]
         /\ nvlStart[<<d, j>>] \in [Rdma -> Int] /\ nvlEnd[<<d, j>>] \in [Rdma -> Int]
         /\ rOff[<<d, j>>] \in [Rdma -> Int] /\ chanOff[<<d, j>>] \in [Rdma -> Int]
         /\ nvlTail[<<d, j>>] \in Nat /\ nvlHead[<<d, j>>] \in Nat /\ rLeft[<<d, j>>] \in Int
         /\ fNvlTail[<<d, j>>] \in Nat /\ rHead[<<d, j>>] \in Nat
         /\ nvlBuf[<<d, j>>] \in [0 .. NvlRecv - 1 -> Int \X Int]
<1>1. <<d, j>> \in Rdma \X Nvl
  OBVIOUS
<1>2. /\ fHead \in [Rdma \X Nvl -> [Rdma -> Nat]] /\ fTail \in [Rdma \X Nvl -> [Rdma -> Nat]]
      /\ fwdHead \in [Rdma \X Nvl -> [Rdma -> Nat]] /\ fIdx \in [Rdma \X Nvl -> [Rdma -> Nat]]
      /\ nvlStart \in [Rdma \X Nvl -> [Rdma -> Int]] /\ nvlEnd \in [Rdma \X Nvl -> [Rdma -> Int]]
      /\ rOff \in [Rdma \X Nvl -> [Rdma -> Int]] /\ chanOff \in [Rdma \X Nvl -> [Rdma -> Int]]
      /\ nvlTail \in [Rdma \X Nvl -> Nat] /\ nvlHead \in [Rdma \X Nvl -> Nat]
      /\ fNvlTail \in [Rdma \X Nvl -> Nat] /\ rHead \in [Rdma \X Nvl -> Nat]
      /\ rLeft \in [Rdma \X Nvl -> Int]
      /\ nvlBuf \in [Rdma \X Nvl -> [0 .. NvlRecv - 1 -> Int \X Int]]
      /\ fPc \in [Rdma \X Nvl -> {"meta", "run", "publish", "retired"}]
      /\ rPc \in [Rdma \X Nvl -> {"prefix", "run", "publish", "done"}]
  BY DEF Typed
<1>. QED
  BY <1>1, <1>2

LEMMA SendMetaOK ==
  ASSUME IInv, NEW p \in Rdma, SendMeta(p)
  PROVE  IInv'
<1>. USE DEF SendMeta, coordVars, fwdVars, recvVars
<1>1. route' = route /\ route \in Routings
  BY DEF IInv, Typed
<1>2. Typed'
  <2>1. \A q \in Rdma \X Rdma : meta[q] \in [start : [Nvl -> Int], end : [Nvl -> Int], from : Int, to : Int]
    BY DEF IInv, Typed
  <2>2. ASSUME NEW q \in Rdma \X Rdma
        PROVE  [start |-> [j \in Nvl |-> Encode(GblPrefix(p, q[2], j, First(p)))],
                end   |-> [j \in Nvl |-> Encode(GblPrefix(p, q[2], j, Past(p)))],
                from  |-> Encode(RdmaPrefix(p, q[2], First(p))),
                to    |-> Encode(RdmaPrefix(p, q[2], Past(p)))]
                 \in [start : [Nvl -> Int], end : [Nvl -> Int], from : Int, to : Int]
    <3>0. /\ \A j \in Nvl : /\ GblPrefix(p, q[2], j, First(p)) \in Nat
                            /\ Cardinality(FlowTo(p, q[2], j)) \in Nat
                            /\ GblPrefix(p, q[2], j, Past(p)) =
                                 GblPrefix(p, q[2], j, First(p)) + Cardinality(FlowTo(p, q[2], j))
          /\ RdmaPrefix(p, q[2], First(p)) \in Nat /\ Cardinality(Flow(p, q[2])) \in Nat
          /\ RdmaPrefix(p, q[2], Past(p)) =
               RdmaPrefix(p, q[2], First(p)) + Cardinality(Flow(p, q[2]))
      BY <1>1, ChannelTotals, FlowIs
    <3>1. \A j \in Nvl : /\ Encode(GblPrefix(p, q[2], j, First(p))) \in Int
                         /\ Encode(GblPrefix(p, q[2], j, Past(p))) \in Int
      BY <3>0 DEF Encode
    <3>2. Encode(RdmaPrefix(p, q[2], First(p))) \in Int /\ Encode(RdmaPrefix(p, q[2], Past(p))) \in Int
      BY <3>0 DEF Encode
    <3>. QED
      BY <3>1, <3>2
  <2>3. meta' \in [Rdma \X Rdma -> [start : [Nvl -> Int], end : [Nvl -> Int], from : Int, to : Int]]
    BY <2>1, <2>2
  <2>4. notified' \in [Rdma -> BOOLEAN]
    BY DEF IInv, Typed
  <2>. QED
    BY <1>1, <2>3, <2>4, RouteFixed DEF IInv, Typed
<1>3. \A s \in Rdma : WarpsOK(s)'
  BY <1>1, WarpsKept DEF IInv
<1>4. \A s, d \in Rdma : TailsOK(s, d)' /\ RingOK(s, d)'
  BY <1>1, TailsKept, RingKept DEF IInv
<1>5. \A s, d \in Rdma : SentSlotsOK(s, d)' /\ ArrivedSlotsOK(s, d)'
  BY <1>1, SentKept, ArrivedKept DEF IInv
<1>6. ASSUME NEW s \in Rdma, NEW d \in Rdma PROVE MetaOK(s, d)'
  <2>1. CASE s # p
    <3>1. notified'[s] = notified[s] /\ meta'[<<s, d>>] = meta[<<s, d>>]
      BY <2>1 DEF IInv, Typed
    <3>. QED
      BY <1>1, <3>1, MetaKept DEF IInv
  <2>2. CASE s = p
    <3>1. notified'[s]
      BY <2>2 DEF IInv, Typed
    <3>2. meta'[<<s, d>>] = [start |-> [j \in Nvl |-> Encode(GblPrefix(s, d, j, First(s)))],
                          end   |-> [j \in Nvl |-> Encode(GblPrefix(s, d, j, Past(s)))],
                          from  |-> Encode(RdmaPrefix(s, d, First(s))),
                          to    |-> Encode(RdmaPrefix(s, d, Past(s)))]
      BY <2>2
    <3>. QED
      BY <1>1, <3>1, <3>2, RouteFixed DEF MetaOK, Encode
  <2>. QED
    BY <2>1, <2>2
<1>7. \A s \in Rdma : notified[s] => notified'[s]
  BY DEF IInv, Typed
<1>8. \A d \in Rdma, j \in Nvl : \A s \in Rdma : ForwarderOK(d, j, s)'
  BY <1>1, <1>7, ForwarderKept DEF IInv
<1>9. \A d \in Rdma, j \in Nvl : HeadsOK(d, j)' /\ QueueOK(d, j)' /\ ReceiverOK(d, j)'
  BY <1>1, HeadsKept, QueueKept, ReceiverKept DEF IInv
<1>. QED
  BY <1>2, <1>3, <1>4, <1>5, <1>6, <1>8, <1>9 DEF IInv

LEMMA AddRound ==
  ASSUME NEW n \in Nat \ {0}, NEW i \in Nat
  PROVE  (i + n) % n = i % n
<1>. DEFINE a == i % n
            b == (i + n) % n
            k == ((i + n) \div n) - (i \div n) - 1
<1>1. /\ i = n * (i \div n) + a /\ i + n = n * ((i + n) \div n) + b
      /\ i \div n \in Int /\ (i + n) \div n \in Int
      /\ a \in 0 .. n - 1 /\ b \in 0 .. n - 1
  OBVIOUS
<1>2. k \in Int /\ a - b = n * k
  BY <1>1
<1>. HIDE DEF k
<1>3. CASE k >= 1
  <2>1. n * k >= n
    BY <1>2, <1>3
  <2>. QED
    BY <1>1, <1>2, <2>1
<1>4. CASE k <= -1
  <2>1. n * k <= -n
    BY <1>2, <1>4
  <2>. QED
    BY <1>1, <1>2, <2>1
<1>5. CASE k = 0
  BY <1>1, <1>2, <1>5
<1>. QED
  BY <1>2, <1>3, <1>4, <1>5

\* The warp whose turn it is has copied its last token; the others are behind
\* the lock by less than a round, or ahead of it.
LEMMA LockMoves ==
  ASSUME IInv, NEW p \in Rdma, NEW w \in Warps, wPc[<<p, w>>] = "lock", lock[p] = wTok[<<p, w>>]
  PROVE  /\ lock[p] \in Int /\ First(p) <= lock[p] /\ lock[p] < Past(p) + SenderWarps
         /\ \A v \in Warps \ {w} : /\ wTok[<<p, v>>] # lock[p]
                                   /\ lock[p] + 1 <= wTok[<<p, v>>] + SenderWarps
         /\ \A d \in Rdma :
              sendTail'[<<p, d>>] = PublishLast(p, w)[<<p, d>>] =>
                /\ sendTail'[<<p, d>>] = Place(p, d, (lock[p] + 1) - SenderWarps)
                /\ sendTail[<<p, d>>] <= sendTail'[<<p, d>>]
                /\ sendTail'[<<p, d>>] <= Place(p, d, lock[p])
<1>1. /\ WarpsOK(p) /\ route \in Routings /\ Typed
      /\ \A d \in Rdma : TailsOK(p, d)
  BY DEF IInv, Typed
<1>2. /\ lock[p] \in Int /\ First(p) \in Nat /\ Past(p) \in Nat /\ SenderWarps \in Nat \ {0}
      /\ \A v \in Warps : wTok[<<p, v>>] \in Int /\ v \in Nat /\ v < SenderWarps
  <2>1. \A v \in Warps : v \in Nat /\ v < SenderWarps
    BY Numbers DEF Warps
  <2>2. lock[p] \in Int /\ \A v \in Warps : wTok[<<p, v>>] \in Int
    BY <1>1, SourceTypes
  <2>. QED
    BY <1>1, <2>1, <2>2, TokenRange, Numbers
<1>3. First(p) <= lock[p] /\ lock[p] < Past(p) + SenderWarps
  BY <1>1 DEF WarpsOK
<1>4. ASSUME NEW v \in Warps, v # w
      PROVE  wTok[<<p, v>>] # lock[p] /\ lock[p] + 1 <= wTok[<<p, v>>] + SenderWarps
  <2>. DEFINE a == wTok[<<p, v>>] - First(p)
              b == lock[p] - First(p)
  <2>1. a \in Nat /\ b \in Nat /\ a % SenderWarps = v /\ b % SenderWarps = w
    BY <1>1, <1>2, <1>3 DEF WarpsOK
  <2>2. (a + SenderWarps) % SenderWarps = a % SenderWarps
    <3>. HIDE DEF a
    <3>. QED
      BY <1>2, <2>1, AddRound
  <2>3. a # b /\ a + SenderWarps # b
    <3>. HIDE DEF a, b
    <3>. QED
      BY <1>4, <2>1, <2>2
  <2>4. lock[p] <= wTok[<<p, v>>] + SenderWarps
    BY <1>1 DEF WarpsOK
  <2>. QED
    BY <1>2, <2>3, <2>4
<1>5. ASSUME NEW d \in Rdma, sendTail'[<<p, d>>] = PublishLast(p, w)[<<p, d>>]
      PROVE  /\ sendTail'[<<p, d>>] = Place(p, d, (lock[p] + 1) - SenderWarps)
             /\ sendTail[<<p, d>>] <= sendTail'[<<p, d>>]
             /\ sendTail'[<<p, d>>] <= Place(p, d, lock[p])
  <2>. DEFINE t == lock[p] - SenderWarps
  <2>1. t \in Int /\ t + 1 = (lock[p] + 1) - SenderWarps /\ LastTok(p, w) = t
    BY <1>2 DEF LastTok
  <2>2. /\ sendTail[<<p, d>>] = Place(p, d, t)
        /\ wLast[<<p, w>>][d] = IF t \in Flow(p, d) THEN Place(p, d, t) ELSE None
    BY <1>1, <2>1 DEF TailsOK
  <2>3. sendTail'[<<p, d>>] = IF wLast[<<p, w>>][d] >= 0 THEN wLast[<<p, w>>][d] + 1
                                                       ELSE sendTail[<<p, d>>]
    BY <1>5 DEF PublishLast
  <2>. HIDE DEF t
  <2>4. /\ Place(p, d, t) \in Nat
        /\ Place(p, d, t + 1) = IF t \in Flow(p, d) THEN Place(p, d, t) + 1 ELSE Place(p, d, t)
    BY <1>1, <2>1, PlaceIs
  <2>5. sendTail'[<<p, d>>] = Place(p, d, t + 1)
    BY <2>2, <2>3, <2>4 DEF None
  <2>6. t + 1 <= lock[p] /\ t + 1 \in Int
    BY <1>2, <2>1
  <2>7. Place(p, d, t + 1) <= Place(p, d, lock[p])
    BY <1>1, <1>2, <2>6, PlaceIs
  <2>. QED
    BY <2>1, <2>2, <2>4, <2>5, <2>7
<1>. QED
  BY <1>2, <1>3, <1>4, <1>5

LEMMA TakeSlotsOK ==
  ASSUME IInv, NEW p \in Rdma, NEW w \in Warps, TakeSlots(p, w)
  PROVE  IInv'
<1>. DEFINE t == wTok[<<p, w>>]
            idx == [d \in Rdma |-> IF d \in Nodes(p, t) THEN nextTail[<<p, d>>] ELSE None]
<1>1. /\ wPc[<<p, w>>] = "lock" /\ lock[p] = t /\ t < Past(p)
      /\ \A d \in Nodes(p, t) : HasSpace(p, d)
      /\ sendHead' = [q \in Rdma \X Rdma |->
                         IF q[1] = p THEN [sendHead[q] EXCEPT ![t] = idx[q[2]]] ELSE sendHead[q]]
      /\ wLast' = [wLast EXCEPT ![<<p, w>>] = idx]
      /\ nextTail' = [q \in Rdma \X Rdma |->
                    IF q[1] = p /\ q[2] \in Nodes(p, t) THEN nextTail[q] + 1 ELSE nextTail[q]]
      /\ sendTail' = PublishLast(p, w)
      /\ lock' = [lock EXCEPT ![p] = @ + 1]
      /\ wPc' = [wPc EXCEPT ![<<p, w>>] = "copy"]
  BY DEF TakeSlots
<1>2. UNCHANGED <<route, meta, notified, wTok, sendBuf, recvBuf, rdmaHead, credited, coordVars,
                  fwdVars, recvVars>>
  BY DEF TakeSlots
<1>. USE DEF coordVars, fwdVars, recvVars
<1>3. route' = route /\ route \in Routings /\ Typed
  BY <1>2 DEF IInv, Typed
<1>4. /\ t \in Int /\ First(p) <= t /\ t \in First(p) .. Past(p) - 1
      /\ First(p) \in Nat /\ Past(p) \in Nat /\ SenderWarps \in Nat \ {0}
  <2>1. t \in Int /\ First(p) <= t
    BY <1>1, LockMoves
  <2>2. First(p) \in Nat /\ Past(p) \in Nat
    BY <1>3, TokenRange
  <2>. QED
    BY <1>1, <2>1, <2>2, Numbers
<1>5. \A d \in Rdma : t \in Flow(p, d) <=> d \in Nodes(p, t)
  BY <1>3, <1>4, FlowIs
<1>6. /\ lock'[p] = t + 1 /\ \A s \in Rdma : s # p => lock'[s] = lock[s]
      /\ wPc'[<<p, w>>] = "copy" /\ wLast'[<<p, w>>] = idx
      /\ \A s \in Rdma, v \in Warps : s # p \/ v # w => /\ wPc'[<<s, v>>] = wPc[<<s, v>>]
                                                       /\ wLast'[<<s, v>>] = wLast[<<s, v>>]
  BY <1>1, <1>3 DEF Typed
<1>7. \A d \in Rdma :
        /\ nextTail'[<<p, d>>] =
             IF d \in Nodes(p, t) THEN nextTail[<<p, d>>] + 1 ELSE nextTail[<<p, d>>]
        /\ sendTail'[<<p, d>>] = PublishLast(p, w)[<<p, d>>]
        /\ sendHead'[<<p, d>>] = [sendHead[<<p, d>>] EXCEPT ![t] = idx[d]]
  BY <1>1
<1>8. ASSUME NEW s \in Rdma, NEW d \in Rdma, s # p
      PROVE  UNCHANGED <<nextTail[<<s, d>>], sendTail[<<s, d>>], sendHead[<<s, d>>]>>
  BY <1>1, <1>8 DEF PublishLast
<1>. HIDE DEF idx
<1>9. /\ \A d \in Rdma : idx[d] = IF d \in Nodes(p, t) THEN nextTail[<<p, d>>] ELSE None
      /\ idx \in [Rdma -> Int]
  <2>1. \A d \in Rdma : nextTail[<<p, d>>] \in Int /\ None \in Int
    BY <1>3, SourceTypes DEF None
  <2>. QED
    BY <2>1 DEF idx
<1>90. /\ \A v \in Warps \ {w} : wTok[<<p, v>>] # t /\ t + 1 <= wTok[<<p, v>>] + SenderWarps
       /\ t < Past(p) + SenderWarps
       /\ \A d \in Rdma : /\ sendTail'[<<p, d>>] = Place(p, d, (t + 1) - SenderWarps)
                           /\ sendTail[<<p, d>>] <= sendTail'[<<p, d>>]
                           /\ sendTail'[<<p, d>>] \in Nat
  <2>1. /\ \A v \in Warps \ {w} : /\ wTok[<<p, v>>] # lock[p]
                                    /\ lock[p] + 1 <= wTok[<<p, v>>] + SenderWarps
        /\ lock[p] < Past(p) + SenderWarps
        /\ \A d \in Rdma : /\ sendTail'[<<p, d>>] = Place(p, d, (lock[p] + 1) - SenderWarps)
                            /\ sendTail[<<p, d>>] <= sendTail'[<<p, d>>]
    BY <1>1, <1>7, LockMoves
  <2>2. (t + 1) - SenderWarps \in Int
    BY <1>4
  <2>3. \A d \in Rdma : Place(p, d, (t + 1) - SenderWarps) \in Nat
    BY <1>3, <2>2, PlaceIs
  <2>4. lock[p] = t
    BY <1>1
  <2>. HIDE DEF t
  <2>. QED
    BY <2>1, <2>3, <2>4
<1>10. Typed'
  <2>1. lock' \in [Rdma -> Int] /\ wPc' \in [Rdma \X Warps -> {"lock", "copy", "done"}]
        /\ wLast' \in [Rdma \X Warps -> [Rdma -> Int]]
    <3>1. /\ lock \in [Rdma -> Int] /\ wPc \in [Rdma \X Warps -> {"lock", "copy", "done"}]
          /\ wLast \in [Rdma \X Warps -> [Rdma -> Int]]
      BY <1>3 DEF Typed
    <3>. QED
      BY <1>1, <1>9, <3>1
  <2>2. nextTail' \in [Rdma \X Rdma -> Nat]
    <3>1. nextTail \in [Rdma \X Rdma -> Nat]
      BY <1>3 DEF Typed
    <3>. QED
      BY <1>1, <3>1
  <2>3. sendTail' \in [Rdma \X Rdma -> Nat]
    <3>1. \A s, d \in Rdma : sendTail'[<<s, d>>] \in Nat
      BY <1>3, <1>8, <1>90, SourceTypes, SMTT(30), ZenonT(30)
    <3>2. sendTail' = [q \in Rdma \X Rdma |-> sendTail'[q]]
      BY <1>1 DEF PublishLast
    <3>3. \A q \in Rdma \X Rdma : sendTail'[q] \in Nat
      BY <3>1
    <3>. QED
      BY <3>2, <3>3
  <2>4. /\ DOMAIN sendHead' = Rdma \X Rdma
        /\ \A q \in Rdma \X Rdma : sendHead'[q] \in [First(q[1]) .. Past(q[1]) - 1 -> Int]
    <3>1. \A q \in Rdma \X Rdma : sendHead[q] \in [First(q[1]) .. Past(q[1]) - 1 -> Int]
      BY <1>3 DEF Typed
    <3>2. DOMAIN sendHead' = Rdma \X Rdma
      BY <1>1
    <3>3. ASSUME NEW q \in Rdma \X Rdma
          PROVE  sendHead'[q] \in [First(q[1]) .. Past(q[1]) - 1 -> Int]
      <4>1. sendHead'[q] = IF q[1] = p THEN [sendHead[q] EXCEPT ![t] = idx[q[2]]] ELSE sendHead[q]
        BY <1>1
      <4>2. idx[q[2]] \in Int
        BY <1>9
      <4>. QED
        BY <3>1, <4>1, <4>2
    <3>. QED
      BY <3>2, <3>3
  <2>5. \A q \in Rdma \X Rdma : sendHead'[q] \in [First(q[1])' .. Past(q[1])' - 1 -> Int]
    BY <1>3, <2>4, RouteFixed
  <2>. HIDE DEF t
  <2>. QED
    BY <1>2, <1>3, <2>1, <2>2, <2>3, <2>4, <2>5 DEF Typed
<1>11. ASSUME NEW s \in Rdma PROVE WarpsOK(s)'
  <2>1. CASE s # p
    BY <1>2, <1>3, <1>6, <2>1, WarpsKept DEF IInv
  <2>2. CASE s = p
    <3>1. WarpsOK(p)
      BY DEF IInv
    <3>2. /\ \A v \in Warps : wTok'[<<p, v>>] = wTok[<<p, v>>] /\ wTok[<<p, v>>] \in Int
          /\ lock[p] = t /\ lock'[p] = t + 1
          /\ t < Past(p) + SenderWarps
          /\ \A v \in Warps \ {w} : wTok[<<p, v>>] # t /\ t + 1 <= wTok[<<p, v>>] + SenderWarps
      <4>1. \A v \in Warps : wTok[<<p, v>>] \in Int
        BY <1>3, SourceTypes
      <4>. QED
        BY <1>1, <1>2, <1>6, <1>90, <4>1
    <3>3. /\ First(p) <= t + 1 /\ t + 1 <= Past(p) + SenderWarps
      BY <1>4, <3>2
    <3>4. ASSUME NEW v \in Warps
          PROVE  /\ t + 1 <= wTok[<<p, v>>] + SenderWarps
                 /\ wPc'[<<p, v>>] = "lock" => t + 1 <= wTok[<<p, v>>]
                 /\ wPc'[<<p, v>>] # "lock" => wTok[<<p, v>>] < t + 1
                 /\ wPc'[<<p, v>>] = "copy" => wTok[<<p, v>>] < Past(p)
      <4>1. CASE v = w
        BY <1>1, <1>4, <1>6, <4>1, SMTT(30)
      <4>2. CASE v # w
        <5>1. wPc'[<<p, v>>] = wPc[<<p, v>>] /\ wTok[<<p, v>>] # t /\ wTok[<<p, v>>] \in Int
              /\ t + 1 <= wTok[<<p, v>>] + SenderWarps
          BY <1>6, <3>2, <4>2
        <5>2. /\ wPc[<<p, v>>] = "lock" => t <= wTok[<<p, v>>]
              /\ wPc[<<p, v>>] # "lock" => wTok[<<p, v>>] < t
              /\ wPc[<<p, v>>] = "copy" => wTok[<<p, v>>] < Past(p)
          BY <3>1, <3>2 DEF WarpsOK
        <5>. QED
          BY <1>4, <5>1, <5>2
      <4>. QED
        BY <4>1, <4>2
    <3>5. \A v \in Warps : /\ First(p) <= wTok[<<p, v>>] /\ wTok[<<p, v>>] < Past(p) + SenderWarps
                           /\ (wTok[<<p, v>>] - First(p)) % SenderWarps = v
      BY <3>1 DEF WarpsOK
    <3>. QED
      BY <1>3, <2>2, <3>2, <3>3, <3>4, <3>5, RouteFixed DEF WarpsOK
  <2>. QED
    BY <2>1, <2>2
<1>12. ASSUME NEW s \in Rdma, NEW d \in Rdma PROVE TailsOK(s, d)'
  <2>1. CASE s # p
    BY <1>2, <1>3, <1>6, <1>8, <2>1, TailsKept, ZenonT(30) DEF IInv
  <2>2. CASE s = p
    <3>1. TailsOK(p, d)
      BY DEF IInv
    <3>2. /\ nextTail[<<p, d>>] = Place(p, d, t) /\ Place(p, d, t) \in Nat
          /\ Place(p, d, t + 1) = IF t \in Flow(p, d) THEN Place(p, d, t) + 1 ELSE Place(p, d, t)
      BY <1>1, <1>3, <1>4, <3>1, PlaceIs, SMTT(30) DEF TailsOK
    <3>3. nextTail'[<<p, d>>] = Place(p, d, t + 1)
      BY <1>5, <1>7, <3>2
    <3>4. sendTail'[<<p, d>>] = Place(p, d, (t + 1) - SenderWarps)
      BY <1>90
    <3>5. idx[d] = IF t \in Flow(p, d) THEN Place(p, d, t) ELSE None
      BY <1>5, <1>9, <3>2
    <3>6. ASSUME NEW v \in Warps
          PROVE  wLast'[<<p, v>>][d] =
                   IF LastTok(p, v)' \in Flow(p, d) THEN Place(p, d, LastTok(p, v)') ELSE None
      <4>1. CASE v = w
        <5>1. LastTok(p, v)' = t
          BY <1>2, <1>6, <4>1 DEF LastTok
        <5>. QED
          BY <1>6, <3>5, <4>1, <5>1
      <4>2. CASE v # w
        <5>1. LastTok(p, v)' = LastTok(p, v) /\ wLast'[<<p, v>>] = wLast[<<p, v>>]
          BY <1>2, <1>6, <4>2 DEF LastTok
        <5>. QED
          BY <3>1, <5>1 DEF TailsOK
      <4>. QED
        BY <4>1, <4>2
    <3>7. ASSUME NEW u \in First(p) .. Past(p) - 1, u < t + 1
          PROVE  sendHead'[<<p, d>>][u] = IF u \in Flow(p, d) THEN Place(p, d, u) ELSE None
      <4>1. sendHead[<<p, d>>] \in [First(p) .. Past(p) - 1 -> Int]
        BY <1>3, SourceTypes
      <4>2. CASE u = t
        <5>1. sendHead'[<<p, d>>][u] = idx[d]
          BY <1>4, <1>7, <4>1, <4>2
        <5>. QED
          BY <3>5, <4>2, <5>1
      <4>3. CASE u # t
        <5>0. u \in Int /\ u < t
          BY <1>4, <3>7, <4>3
        <5>1. sendHead'[<<p, d>>][u] = sendHead[<<p, d>>][u] /\ u < lock[p]
          BY <1>1, <1>7, <4>1, <4>3, <5>0
        <5>. QED
          BY <3>1, <5>1 DEF TailsOK
      <4>. QED
        BY <4>2, <4>3
    <3>. HIDE DEF t
    <3>. QED
      BY <1>3, <1>6, <2>2, <3>3, <3>4, <3>6, <3>7, RouteFixed DEF TailsOK
  <2>. QED
    BY <2>1, <2>2
<1>13. ASSUME NEW s \in Rdma, NEW d \in Rdma PROVE RingOK(s, d)'
  <2>1. CASE s # p
    BY <1>2, <1>8, <2>1, RingKept DEF IInv
  <2>2. CASE s = p
    <3>1. RingOK(p, d)
      BY DEF IInv
    <3>2. sendTail[<<p, d>>] <= sendTail'[<<p, d>>]
      BY <1>90
    <3>3. nextTail'[<<p, d>>] <= rdmaHead[<<p, d>>] + RdmaRecv
      <4>1. nextTail[<<p, d>>] \in Nat /\ rdmaHead[<<p, d>>] \in Nat /\ RdmaRecv \in Nat
        BY <1>3, SourceTypes, Numbers
      <4>2. CASE d \in Nodes(p, t)
        <5>1. nextTail[<<p, d>>] - rdmaHead[<<p, d>>] < RdmaRecv
          BY <1>1, <4>2 DEF HasSpace
        <5>2. nextTail'[<<p, d>>] = nextTail[<<p, d>>] + 1
          BY <1>7, <4>2
        <5>. QED
          BY <4>1, <5>1, <5>2
      <4>3. CASE d \notin Nodes(p, t)
        BY <1>7, <3>1, <4>3 DEF RingOK
      <4>. QED
        BY <4>2, <4>3
    <3>4. /\ issued[<<p, d>>] \in Nat /\ sendTail[<<p, d>>] \in Nat /\ sendTail'[<<p, d>>] \in Int
          /\ (put[p] # <<>> => put[p][2] \in Nat)
      BY <1>3, <1>90, SourceTypes
    <3>5. issued[<<p, d>>] <= sendTail'[<<p, d>>]
      BY <3>1, <3>2, <3>4 DEF RingOK
    <3>6. put[p] # <<>> /\ put[p][1] = d => issued[<<p, d>>] + put[p][2] <= sendTail'[<<p, d>>]
      BY <3>1, <3>2, <3>4 DEF RingOK
    <3>. QED
      BY <1>2, <2>2, <3>1, <3>3, <3>5, <3>6 DEF RingOK
  <2>. QED
    BY <2>1, <2>2
<1>14. ASSUME NEW s \in Rdma, NEW d \in Rdma PROVE SentSlotsOK(s, d)'
  <2>1. CASE s # p
    BY <1>2, <1>3, <1>6, <2>1, SentKept DEF IInv
  <2>2. CASE s = p
    <3>1. SentSlotsOK(p, d)
      BY DEF IInv
    <3>2. ASSUME NEW u \in Flow(p, d), u < t + 1, ~ Copying(p, u)'
          PROVE  u < t /\ ~ Copying(p, u)
      <4>1. u \in Int
        BY <1>3, FlowIs
      <4>2. u # t
        BY <1>2, <1>6, <3>2 DEF Copying
      <4>3. ~ Copying(p, u)
        <5>. SUFFICES ASSUME NEW v \in Warps, wPc[<<p, v>>] = "copy", wTok[<<p, v>>] = u
                      PROVE  FALSE
          BY DEF Copying
        <5>1. v # w
          BY <1>1
        <5>2. wPc'[<<p, v>>] = "copy" /\ wTok'[<<p, v>>] = u
          BY <1>2, <1>6, <5>1
        <5>. QED
          BY <3>2, <5>2 DEF Copying
      <4>. QED
        BY <1>4, <3>2, <4>1, <4>2, <4>3
    <3>3. lock'[p] = t + 1 /\ lock[p] = t
      BY <1>1, <1>6
    <3>. HIDE DEF t
    <3>4. ASSUME NEW u \in Flow(p, d), u < lock'[p], ~ Copying(p, u)',
                 rdmaHead'[<<p, d>>] <= Place(p, d, u)
          PROVE  (IF p = d THEN recvBuf' ELSE sendBuf')[<<p, d>>][Place(p, d, u) % RdmaRecv] = u
      BY <1>2, <3>1, <3>2, <3>3, <3>4 DEF SentSlotsOK
    <3>. QED
      BY <1>3, <2>2, <3>4, RouteFixed DEF SentSlotsOK
  <2>. QED
    BY <2>1, <2>2
<1>15. \A s, d \in Rdma : MetaOK(s, d)' /\ ArrivedSlotsOK(s, d)'
  BY <1>2, <1>3, MetaKept, ArrivedKept DEF IInv
<1>16. \A d \in Rdma, j \in Nvl : \A s \in Rdma : ForwarderOK(d, j, s)'
  BY <1>2, <1>3, ForwarderKept DEF IInv
<1>17. \A d \in Rdma, j \in Nvl : HeadsOK(d, j)' /\ QueueOK(d, j)' /\ ReceiverOK(d, j)'
  BY <1>2, <1>3, HeadsKept, QueueKept, ReceiverKept DEF IInv
<1>. QED
  BY <1>10, <1>11, <1>12, <1>13, <1>14, <1>15, <1>16, <1>17 DEF IInv

\* Two places of one round of a ring have different slots.
LEMMA SlotsApart ==
  ASSUME NEW n \in Nat \ {0}, NEW h \in Nat, NEW a \in Nat, NEW b \in Nat, a # b,
         h <= a, a < h + n, h <= b, b < h + n
  PROVE  a % n # b % n
<1>1. CASE a < b
  <2>1. b < a + n
    BY <1>1
  <2>. QED
    BY <1>1, <2>1, Spread
<1>2. CASE b < a
  <2>1. a < b + n
    BY <1>2
  <2>. QED
    BY <1>2, <2>1, Spread
<1>. QED
  BY <1>1, <1>2

\* A token being copied has a slot that is not published.
LEMMA SlotInHand ==
  ASSUME IInv, NEW p \in Rdma, NEW w \in Warps, wPc[<<p, w>>] = "copy", NEW d \in Rdma
  PROVE  LET t == wTok[<<p, w>>] IN
         /\ t \in Int /\ First(p) <= t /\ t < Past(p) /\ t < lock[p]
         /\ wLast[<<p, w>>][d] = IF t \in Flow(p, d) THEN Place(p, d, t) ELSE None
         /\ Place(p, d, t) \in Nat /\ sendTail[<<p, d>>] <= Place(p, d, t)
         /\ t \in Flow(p, d) => Place(p, d, t) < nextTail[<<p, d>>]
<1>. DEFINE t == wTok[<<p, w>>]
<1>1. /\ WarpsOK(p) /\ TailsOK(p, d) /\ route \in Routings /\ Typed
  BY DEF IInv, Typed
<1>2. t \in Int /\ lock[p] \in Int /\ SenderWarps \in Nat
  BY <1>1, SourceTypes, Numbers
<1>3. First(p) <= t /\ t < Past(p) /\ t < lock[p] /\ lock[p] <= t + SenderWarps
  BY <1>1 DEF WarpsOK
<1>4. wLast[<<p, w>>][d] = IF t \in Flow(p, d) THEN Place(p, d, t) ELSE None
  <2>1. LastTok(p, w) = t
    BY DEF LastTok
  <2>. QED
    BY <1>1, <2>1 DEF TailsOK
<1>5. nextTail[<<p, d>>] = Place(p, d, lock[p]) /\ sendTail[<<p, d>>] = Place(p, d, lock[p] - SenderWarps)
  BY <1>1 DEF TailsOK
<1>. HIDE DEF t
<1>6. Place(p, d, t) \in Nat
  BY <1>1, <1>2, PlaceIs
<1>7. Place(p, d, lock[p] - SenderWarps) <= Place(p, d, t)
  <2>1. lock[p] - SenderWarps \in Int /\ lock[p] - SenderWarps <= t
    BY <1>2, <1>3
  <2>. QED
    BY <1>1, <1>2, <2>1, PlaceIs
<1>8. t \in Flow(p, d) => Place(p, d, t) < Place(p, d, lock[p])
  BY <1>1, <1>2, <1>3, PlaceIs
<1>. QED
  BY <1>2, <1>3, <1>4, <1>5, <1>6, <1>7, <1>8 DEF t

LEMMA CopyTokenOK ==
  ASSUME IInv, NEW p \in Rdma, NEW w \in Warps, CopyToken(p, w)
  PROVE  IInv'
<1>. DEFINE t == wTok[<<p, w>>]
<1>1. /\ wPc[<<p, w>>] = "copy"
      /\ sendBuf' = Filled(sendBuf, p, w, FALSE) /\ recvBuf' = Filled(recvBuf, p, w, TRUE)
      /\ wTok' = [wTok EXCEPT ![<<p, w>>] = @ + SenderWarps]
      /\ wPc' = [wPc EXCEPT ![<<p, w>>] = "lock"]
  BY DEF CopyToken
<1>2. UNCHANGED <<route, meta, notified, lock, nextTail, sendTail, wLast, sendHead, rdmaHead,
                  credited, coordVars, fwdVars, recvVars>>
  BY DEF CopyToken
<1>. USE DEF coordVars, fwdVars, recvVars
<1>3. route' = route /\ route \in Routings /\ Typed
  BY <1>2 DEF IInv, Typed
<1>4. /\ t \in Int /\ First(p) <= t /\ t < Past(p) /\ t < lock[p] /\ lock[p] \in Int
      /\ First(p) \in Nat /\ Past(p) \in Nat /\ SenderWarps \in Nat \ {0}
      /\ RdmaRecv \in Nat \ {0}
  BY <1>1, <1>3, SlotInHand, SourceTypes, TokenRange, Numbers
<1>5. /\ wTok'[<<p, w>>] = t + SenderWarps /\ wPc'[<<p, w>>] = "lock"
      /\ \A s \in Rdma, v \in Warps : s # p \/ v # w => /\ wPc'[<<s, v>>] = wPc[<<s, v>>]
                                                       /\ wTok'[<<s, v>>] = wTok[<<s, v>>]
  BY <1>1, <1>3 DEF Typed
<1>6. \A s, d \in Rdma :
        /\ sendBuf'[<<s, d>>] =
             IF s = p /\ d # p /\ wLast[<<p, w>>][d] >= 0
             THEN [sendBuf[<<s, d>>] EXCEPT ![wLast[<<p, w>>][d] % RdmaRecv] = t]
             ELSE sendBuf[<<s, d>>]
        /\ recvBuf'[<<s, d>>] =
             IF s = p /\ d = p /\ wLast[<<p, w>>][d] >= 0
             THEN [recvBuf[<<s, d>>] EXCEPT ![wLast[<<p, w>>][d] % RdmaRecv] = t]
             ELSE recvBuf[<<s, d>>]
  BY <1>1 DEF Filled
<1>7. \A s, d \in Rdma : /\ sendBuf[<<s, d>>] \in [0 .. RdmaRecv - 1 -> Int]
                         /\ recvBuf[<<s, d>>] \in [0 .. RdmaRecv - 1 -> Int]
  BY <1>3, SourceTypes
<1>. HIDE DEF t
<1>10. Typed'
  <2>1. /\ wTok' \in [Rdma \X Warps -> Int]
        /\ wPc' \in [Rdma \X Warps -> {"lock", "copy", "done"}]
    <3>1. wTok \in [Rdma \X Warps -> Int] /\ wPc \in [Rdma \X Warps -> {"lock", "copy", "done"}]
      BY <1>3 DEF Typed
    <3>. QED
      BY <1>1, <1>4, <3>1
  <2>2. \A s, d \in Rdma : /\ sendBuf'[<<s, d>>] \in [0 .. RdmaRecv - 1 -> Int]
                           /\ recvBuf'[<<s, d>>] \in [0 .. RdmaRecv - 1 -> Int]
    <3>. SUFFICES ASSUME NEW s \in Rdma, NEW d \in Rdma
                  PROVE  /\ sendBuf'[<<s, d>>] \in [0 .. RdmaRecv - 1 -> Int]
                         /\ recvBuf'[<<s, d>>] \in [0 .. RdmaRecv - 1 -> Int]
      OBVIOUS
    <3>. DEFINE x == wLast[<<p, w>>][d] % RdmaRecv
    <3>1. /\ sendBuf'[<<s, d>>] = sendBuf[<<s, d>>]
             \/ sendBuf'[<<s, d>>] = [sendBuf[<<s, d>>] EXCEPT ![x] = t]
          /\ recvBuf'[<<s, d>>] = recvBuf[<<s, d>>]
             \/ recvBuf'[<<s, d>>] = [recvBuf[<<s, d>>] EXCEPT ![x] = t]
      BY <1>6
    <3>. HIDE DEF x
    <3>2. \A f \in [0 .. RdmaRecv - 1 -> Int] : [f EXCEPT ![x] = t] \in [0 .. RdmaRecv - 1 -> Int]
      BY <1>4
    <3>3. sendBuf'[<<s, d>>] \in [0 .. RdmaRecv - 1 -> Int]
      <4>1. sendBuf[<<s, d>>] \in [0 .. RdmaRecv - 1 -> Int]
        BY <1>7
      <4>2. [sendBuf[<<s, d>>] EXCEPT ![x] = t] \in [0 .. RdmaRecv - 1 -> Int]
        BY <3>2, <4>1, Zenon
      <4>. QED
        BY <3>1, <4>1, <4>2, Zenon
    <3>4. recvBuf'[<<s, d>>] \in [0 .. RdmaRecv - 1 -> Int]
      <4>1. recvBuf[<<s, d>>] \in [0 .. RdmaRecv - 1 -> Int]
        BY <1>7
      <4>2. [recvBuf[<<s, d>>] EXCEPT ![x] = t] \in [0 .. RdmaRecv - 1 -> Int]
        BY <3>2, <4>1, Zenon
      <4>. QED
        BY <3>1, <4>1, <4>2, Zenon
    <3>. QED
      BY <3>3, <3>4
  <2>3. /\ sendBuf' = [q \in Rdma \X Rdma |-> sendBuf'[q]]
        /\ recvBuf' = [q \in Rdma \X Rdma |-> recvBuf'[q]]
    BY <1>1 DEF Filled
  <2>4. /\ sendBuf' \in [Rdma \X Rdma -> [0 .. RdmaRecv - 1 -> Int]]
        /\ recvBuf' \in [Rdma \X Rdma -> [0 .. RdmaRecv - 1 -> Int]]
    <3>1. \A q \in Rdma \X Rdma : /\ sendBuf'[q] \in [0 .. RdmaRecv - 1 -> Int]
                                  /\ recvBuf'[q] \in [0 .. RdmaRecv - 1 -> Int]
      BY <2>2
    <3>. QED
      BY <2>3, <3>1
  <2>5. \A q \in Rdma \X Rdma : sendHead'[q] \in [First(q[1])' .. Past(q[1])' - 1 -> Int]
    BY <1>2, <1>3, RouteFixed DEF Typed
  <2>. QED
    BY <1>2, <1>3, <2>1, <2>4, <2>5 DEF Typed
<1>11. ASSUME NEW s \in Rdma PROVE WarpsOK(s)'
  <2>1. CASE s # p
    BY <1>2, <1>3, <1>5, <2>1, WarpsKept DEF IInv
  <2>2. CASE s = p
    <3>1. WarpsOK(p)
      BY DEF IInv
    <3>2. First(p) <= lock[p] /\ lock[p] <= Past(p) + SenderWarps
      BY <3>1 DEF WarpsOK
    <3>3. /\ First(p) <= t + SenderWarps /\ t + SenderWarps < Past(p) + SenderWarps
          /\ lock[p] <= t + SenderWarps /\ lock[p] <= (t + SenderWarps) + SenderWarps
      <4>1. lock[p] <= t + SenderWarps
        BY <3>1 DEF WarpsOK, t
      <4>. QED
        BY <1>4, <4>1
    <3>4. ((t + SenderWarps) - First(p)) % SenderWarps = w
      <4>. DEFINE a == t - First(p)
      <4>1. a \in Nat /\ a % SenderWarps = w
        BY <1>4, <3>1 DEF WarpsOK, t
      <4>2. (a + SenderWarps) % SenderWarps = w
        <5>. HIDE DEF a
        <5>. QED
          BY <1>4, <4>1, AddRound
      <4>3. (t + SenderWarps) - First(p) = a + SenderWarps
        BY <1>4
      <4>. QED
        BY <4>2, <4>3
    <3>5. ASSUME NEW v \in Warps
          PROVE /\ First(p) <= wTok'[<<p, v>>] /\ wTok'[<<p, v>>] < Past(p) + SenderWarps
                /\ (wTok'[<<p, v>>] - First(p)) % SenderWarps = v
                /\ lock[p] <= wTok'[<<p, v>>] + SenderWarps
                /\ wPc'[<<p, v>>] = "lock" => lock[p] <= wTok'[<<p, v>>]
                /\ wPc'[<<p, v>>] # "lock" => wTok'[<<p, v>>] < lock[p]
                /\ wPc'[<<p, v>>] = "copy" => wTok'[<<p, v>>] < Past(p)
      <4>1. CASE v = w
        <5>1. wTok'[<<p, v>>] = t + SenderWarps /\ wPc'[<<p, v>>] = "lock"
          BY <1>5, <4>1
        <5>. QED
          BY <3>3, <3>4, <4>1, <5>1
      <4>2. CASE v # w
        <5>1. wTok'[<<p, v>>] = wTok[<<p, v>>] /\ wPc'[<<p, v>>] = wPc[<<p, v>>]
          BY <1>5, <4>2
        <5>. QED
          BY <3>1, <5>1 DEF WarpsOK
      <4>. QED
        BY <4>1, <4>2
    <3>. QED
      BY <1>2, <1>3, <2>2, <3>2, <3>5, RouteFixed DEF WarpsOK
  <2>. QED
    BY <2>1, <2>2
<1>12. ASSUME NEW s \in Rdma, NEW d \in Rdma PROVE TailsOK(s, d)'
  <2>1. \A v \in Warps : LastTok(s, v)' = LastTok(s, v)
    <3>. SUFFICES ASSUME NEW v \in Warps PROVE LastTok(s, v)' = LastTok(s, v)
      OBVIOUS
    <3>1. CASE s = p /\ v = w
      <4>1. LastTok(s, v) = t
        BY <1>1, <3>1 DEF LastTok, t
      <4>2. LastTok(s, v)' = (t + SenderWarps) - SenderWarps
        BY <1>5, <3>1 DEF LastTok
      <4>. QED
        BY <1>4, <4>1, <4>2
    <3>2. CASE s # p \/ v # w
      BY <1>5, <3>2 DEF LastTok
    <3>. QED
      BY <3>1, <3>2
  <2>2. TailsOK(s, d)
    BY DEF IInv
  <2>. QED
    BY <1>2, <1>3, <2>1, <2>2, RouteFixed DEF TailsOK
<1>13. \A s, d \in Rdma : RingOK(s, d)'
  BY <1>2, RingKept DEF IInv
<1>14. ASSUME NEW s \in Rdma, NEW d \in Rdma PROVE SentSlotsOK(s, d)'
  <2>1. CASE s # p
    <3>1. sendBuf'[<<s, d>>] = sendBuf[<<s, d>>] /\ recvBuf'[<<s, d>>] = recvBuf[<<s, d>>]
      BY <1>6, <2>1
    <3>. QED
      BY <1>2, <1>3, <1>5, <2>1, <3>1, SentKept DEF IInv
  <2>2. CASE s = p
    <3>. DEFINE old == IF p = d THEN recvBuf[<<p, d>>] ELSE sendBuf[<<p, d>>]
                new == IF p = d THEN recvBuf'[<<p, d>>] ELSE sendBuf'[<<p, d>>]
                a == Place(p, d, t)
    <3>0. SentSlotsOK(p, d) /\ RingOK(p, d) /\ TailsOK(p, d)
      BY DEF IInv
    <3>1. /\ wLast[<<p, w>>][d] = IF t \in Flow(p, d) THEN a ELSE None
          /\ a \in Nat /\ sendTail[<<p, d>>] <= a
          /\ t \in Flow(p, d) => a < nextTail[<<p, d>>]
      BY <1>1, SlotInHand DEF t
    <3>2. /\ rdmaHead[<<p, d>>] \in Nat /\ issued[<<p, d>>] \in Nat /\ sendTail[<<p, d>>] \in Nat
          /\ nextTail[<<p, d>>] \in Nat
          /\ rdmaHead[<<p, d>>] <= issued[<<p, d>>] /\ issued[<<p, d>>] <= sendTail[<<p, d>>]
          /\ nextTail[<<p, d>>] <= rdmaHead[<<p, d>>] + RdmaRecv
          /\ nextTail[<<p, d>>] = Place(p, d, lock[p])
      BY <1>3, <3>0, SourceTypes DEF RingOK, TailsOK
    <3>3. /\ old \in [0 .. RdmaRecv - 1 -> Int]
          /\ new = IF t \in Flow(p, d) THEN [old EXCEPT ![a % RdmaRecv] = t] ELSE old
      <4>1. wLast[<<p, w>>][d] >= 0 <=> t \in Flow(p, d)
        BY <3>1 DEF None
      <4>. HIDE DEF a
      <4>. QED
        BY <1>6, <1>7, <3>1, <4>1
    <3>. HIDE DEF old, new
    <3>4. ASSUME NEW u \in Flow(p, d), u < lock[p], ~ Copying(p, u)',
                 rdmaHead[<<p, d>>] <= Place(p, d, u)
          PROVE  new[Place(p, d, u) % RdmaRecv] = u
      <4>. DEFINE b == Place(p, d, u)
      <4>1. u \in Int /\ b \in Nat /\ b < nextTail[<<p, d>>]
        <5>1. u \in Int
          BY <1>3, FlowIs
        <5>. QED
          BY <1>3, <1>4, <3>2, <3>4, <5>1, PlaceIs
      <4>2. b % RdmaRecv \in 0 .. RdmaRecv - 1
        <5>. HIDE DEF b
        <5>. QED
          BY <1>4, <4>1
      <4>3. CASE u = t
        BY <3>3, <4>2, <4>3
      <4>4. CASE u # t
        <5>1. ~ Copying(p, u)
          <6>. SUFFICES ASSUME NEW v \in Warps, wPc[<<p, v>>] = "copy", wTok[<<p, v>>] = u
                        PROVE  FALSE
            BY DEF Copying
          <6>1. v # w
            BY <4>4 DEF t
          <6>2. wPc'[<<p, v>>] = "copy" /\ wTok'[<<p, v>>] = u
            BY <1>5, <6>1
          <6>. QED
            BY <3>4, <6>2 DEF Copying
        <5>2. old[b % RdmaRecv] = u
          BY <3>0, <3>4, <5>1 DEF SentSlotsOK, old
        <5>3. CASE t \notin Flow(p, d)
          BY <3>3, <5>2, <5>3
        <5>4. CASE t \in Flow(p, d)
          <6>1. a # b
            BY <1>3, <4>1, <4>4, <5>4, PlaceIs
          <6>2. rdmaHead[<<p, d>>] <= a /\ a < rdmaHead[<<p, d>>] + RdmaRecv /\ a \in Nat
            <7>. HIDE DEF a
            <7>. QED
              BY <1>4, <3>1, <3>2, <5>4
          <6>3. rdmaHead[<<p, d>>] <= b /\ b < rdmaHead[<<p, d>>] + RdmaRecv
            <7>1. rdmaHead[<<p, d>>] <= b
              BY <3>4
            <7>. HIDE DEF b
            <7>. QED
              BY <1>4, <3>2, <4>1, <7>1
          <6>. HIDE DEF a, b
          <6>4. a % RdmaRecv # b % RdmaRecv
            BY <1>4, <3>2, <4>1, <6>1, <6>2, <6>3, SlotsApart
          <6>. QED
            BY <3>3, <4>2, <5>2, <5>4, <6>4 DEF b
        <5>. QED
          BY <5>3, <5>4
      <4>. QED
        BY <4>3, <4>4
    <3>. QED
      BY <1>2, <1>3, <2>2, <3>4, RouteFixed DEF SentSlotsOK, new
  <2>. QED
    BY <2>1, <2>2
<1>15. ASSUME NEW s \in Rdma, NEW d \in Rdma PROVE ArrivedSlotsOK(s, d)'
  <2>1. CASE s = d
    BY <2>1 DEF ArrivedSlotsOK
  <2>2. CASE s # d
    <3>1. recvBuf'[<<s, d>>] = recvBuf[<<s, d>>]
      BY <1>6, <2>2
    <3>. QED
      BY <1>2, <1>3, <3>1, ArrivedKept DEF IInv
  <2>. QED
    BY <2>1, <2>2
<1>16. \A s, d \in Rdma : MetaOK(s, d)'
  BY <1>2, <1>3, MetaKept DEF IInv
<1>17. \A d \in Rdma, j \in Nvl : \A s \in Rdma : ForwarderOK(d, j, s)'
  BY <1>2, <1>3, ForwarderKept DEF IInv
<1>18. \A d \in Rdma, j \in Nvl : HeadsOK(d, j)' /\ QueueOK(d, j)' /\ ReceiverOK(d, j)'
  BY <1>2, <1>3, HeadsKept, QueueKept, ReceiverKept DEF IInv
<1>. QED
  BY <1>10, <1>11, <1>12, <1>13, <1>14, <1>15, <1>16, <1>17, <1>18 DEF IInv

LEMMA EpilogueOK ==
  ASSUME IInv, NEW p \in Rdma, NEW w \in Warps, Epilogue(p, w)
  PROVE  IInv'
<1>. DEFINE t == wTok[<<p, w>>]
<1>1. /\ wPc[<<p, w>>] = "lock" /\ lock[p] = t /\ t >= Past(p)
      /\ sendTail' = PublishLast(p, w)
      /\ lock' = [lock EXCEPT ![p] = @ + 1]
      /\ wPc'  = [wPc EXCEPT ![<<p, w>>] = "done"]
  BY DEF Epilogue
<1>2. UNCHANGED <<route, meta, notified, nextTail, wTok, wLast, sendHead, sendBuf, recvBuf,
                  rdmaHead, credited, coordVars, fwdVars, recvVars>>
  BY DEF Epilogue
<1>. USE DEF coordVars, fwdVars, recvVars
<1>3. route' = route /\ route \in Routings /\ Typed
  BY <1>2 DEF IInv, Typed
<1>4. /\ t \in Int /\ First(p) <= t /\ t < Past(p) + SenderWarps /\ Past(p) <= t
      /\ First(p) \in Nat /\ Past(p) \in Nat /\ SenderWarps \in Nat \ {0}
  <2>1. t \in Int /\ First(p) <= t /\ t < Past(p) + SenderWarps
    BY <1>1, LockMoves
  <2>2. First(p) \in Nat /\ Past(p) \in Nat
    BY <1>3, TokenRange
  <2>. QED
    BY <1>1, <2>1, <2>2, Numbers
<1>5. \A d \in Rdma : \A u \in Flow(p, d) : u \in Int /\ u < t /\ t \notin Flow(p, d)
  <2>1. \A d \in Rdma : \A u \in Flow(p, d) : u \in Nat /\ u < Past(p)
    BY <1>3, FlowIs
  <2>. HIDE DEF t
  <2>. QED
    BY <1>4, <2>1
<1>6. /\ lock'[p] = t + 1 /\ \A s \in Rdma : s # p => lock'[s] = lock[s]
      /\ wPc'[<<p, w>>] = "done"
      /\ \A s \in Rdma, v \in Warps : s # p \/ v # w => wPc'[<<s, v>>] = wPc[<<s, v>>]
  BY <1>1, <1>3 DEF Typed
<1>7. \A d \in Rdma : sendTail'[<<p, d>>] = PublishLast(p, w)[<<p, d>>]
  BY <1>1
<1>8. \A s, d \in Rdma : s # p => sendTail'[<<s, d>>] = sendTail[<<s, d>>]
  BY <1>1 DEF PublishLast
<1>9. /\ \A v \in Warps \ {w} : wTok[<<p, v>>] # t /\ t + 1 <= wTok[<<p, v>>] + SenderWarps
      /\ \A d \in Rdma : /\ sendTail'[<<p, d>>] = Place(p, d, (t + 1) - SenderWarps)
                         /\ sendTail[<<p, d>>] <= sendTail'[<<p, d>>]
                         /\ sendTail'[<<p, d>>] \in Nat
  <2>1. /\ \A v \in Warps \ {w} : /\ wTok[<<p, v>>] # lock[p]
                                    /\ lock[p] + 1 <= wTok[<<p, v>>] + SenderWarps
        /\ \A d \in Rdma : /\ sendTail'[<<p, d>>] = Place(p, d, (lock[p] + 1) - SenderWarps)
                            /\ sendTail[<<p, d>>] <= sendTail'[<<p, d>>]
    BY <1>1, <1>7, LockMoves
  <2>2. (t + 1) - SenderWarps \in Int
    BY <1>4
  <2>3. \A d \in Rdma : Place(p, d, (t + 1) - SenderWarps) \in Nat
    BY <1>3, <2>2, PlaceIs
  <2>4. lock[p] = t
    BY <1>1
  <2>. HIDE DEF t
  <2>. QED
    BY <2>1, <2>3, <2>4
<1>10. Typed'
  <2>1. lock' \in [Rdma -> Int] /\ wPc' \in [Rdma \X Warps -> {"lock", "copy", "done"}]
    <3>1. lock \in [Rdma -> Int] /\ wPc \in [Rdma \X Warps -> {"lock", "copy", "done"}]
      BY <1>3 DEF Typed
    <3>. QED
      BY <1>1, <3>1
  <2>3. sendTail' \in [Rdma \X Rdma -> Nat]
    <3>1. \A s, d \in Rdma : sendTail'[<<s, d>>] \in Nat
      BY <1>3, <1>8, <1>9, SourceTypes
    <3>2. sendTail' = [q \in Rdma \X Rdma |-> sendTail'[q]]
      BY <1>1 DEF PublishLast
    <3>3. \A q \in Rdma \X Rdma : sendTail'[q] \in Nat
      BY <3>1
    <3>. QED
      BY <3>2, <3>3
  <2>4. \A q \in Rdma \X Rdma : sendHead'[q] \in [First(q[1])' .. Past(q[1])' - 1 -> Int]
    BY <1>2, <1>3, RouteFixed DEF Typed
  <2>. HIDE DEF t
  <2>. QED
    BY <1>2, <1>3, <2>1, <2>3, <2>4 DEF Typed
<1>11. ASSUME NEW s \in Rdma PROVE WarpsOK(s)'
  <2>1. CASE s # p
    BY <1>2, <1>3, <1>6, <2>1, WarpsKept DEF IInv
  <2>2. CASE s = p
    <3>1. WarpsOK(p)
      BY DEF IInv
    <3>2. /\ \A v \in Warps : wTok'[<<p, v>>] = wTok[<<p, v>>] /\ wTok[<<p, v>>] \in Int
          /\ lock[p] = t /\ lock'[p] = t + 1
      <4>1. \A v \in Warps : wTok[<<p, v>>] \in Int
        BY <1>3, SourceTypes
      <4>. QED
        BY <1>1, <1>2, <1>6, <4>1
    <3>3. First(p) <= t + 1 /\ t + 1 <= Past(p) + SenderWarps
      BY <1>4
    <3>4. ASSUME NEW v \in Warps
          PROVE  /\ t + 1 <= wTok[<<p, v>>] + SenderWarps
                 /\ wPc'[<<p, v>>] = "lock" => t + 1 <= wTok[<<p, v>>]
                 /\ wPc'[<<p, v>>] # "lock" => wTok[<<p, v>>] < t + 1
                 /\ wPc'[<<p, v>>] = "copy" => wTok[<<p, v>>] < Past(p)
      <4>1. CASE v = w
        BY <1>1, <1>4, <1>6, <4>1
      <4>2. CASE v # w
        <5>1. wPc'[<<p, v>>] = wPc[<<p, v>>] /\ wTok[<<p, v>>] # t /\ wTok[<<p, v>>] \in Int
              /\ t + 1 <= wTok[<<p, v>>] + SenderWarps
          BY <1>6, <1>9, <3>2, <4>2
        <5>2. /\ wPc[<<p, v>>] = "lock" => t <= wTok[<<p, v>>]
              /\ wPc[<<p, v>>] # "lock" => wTok[<<p, v>>] < t
              /\ wPc[<<p, v>>] = "copy" => wTok[<<p, v>>] < Past(p)
          BY <3>1, <3>2 DEF WarpsOK
        <5>. QED
          BY <1>4, <5>1, <5>2
      <4>. QED
        BY <4>1, <4>2
    <3>5. \A v \in Warps : /\ First(p) <= wTok[<<p, v>>] /\ wTok[<<p, v>>] < Past(p) + SenderWarps
                           /\ (wTok[<<p, v>>] - First(p)) % SenderWarps = v
      BY <3>1 DEF WarpsOK
    <3>. QED
      BY <1>3, <2>2, <3>2, <3>3, <3>4, <3>5, RouteFixed DEF WarpsOK
  <2>. QED
    BY <2>1, <2>2
<1>12. ASSUME NEW s \in Rdma, NEW d \in Rdma PROVE TailsOK(s, d)'
  <2>1. CASE s # p
    BY <1>2, <1>3, <1>6, <1>8, <2>1, TailsKept, ZenonT(30) DEF IInv
  <2>2. CASE s = p
    <3>1. TailsOK(p, d)
      BY DEF IInv
    <3>2. nextTail'[<<p, d>>] = Place(p, d, t + 1)
      <4>1. nextTail[<<p, d>>] = Place(p, d, t)
        BY <1>1, <3>1 DEF TailsOK
      <4>2. Place(p, d, t) = Cardinality(Flow(p, d))
        BY <1>3, <1>4, PlaceIs
      <4>3. Place(p, d, t + 1) = Cardinality(Flow(p, d))
        <5>1. t + 1 \in Int /\ Past(p) <= t + 1
          BY <1>4
        <5>. QED
          BY <1>3, <5>1, PlaceIs
      <4>. QED
        BY <1>2, <4>1, <4>2, <4>3
    <3>3. sendTail'[<<p, d>>] = Place(p, d, (t + 1) - SenderWarps)
      BY <1>9
    <3>4. \A v \in Warps : LastTok(p, v)' = LastTok(p, v) /\ wLast'[<<p, v>>] = wLast[<<p, v>>]
      <4>. SUFFICES ASSUME NEW v \in Warps
                    PROVE LastTok(p, v)' = LastTok(p, v) /\ wLast'[<<p, v>>] = wLast[<<p, v>>]
        OBVIOUS
      <4>1. wPc'[<<p, v>>] = "copy" <=> wPc[<<p, v>>] = "copy"
        BY <1>1, <1>6
      <4>. QED
        BY <1>2, <4>1 DEF LastTok
    <3>5. \A u \in First(p) .. Past(p) - 1 : u < t + 1 =>
            sendHead[<<p, d>>][u] = IF u \in Flow(p, d) THEN Place(p, d, u) ELSE None
      <4>1. \A u \in First(p) .. Past(p) - 1 : u < lock[p]
        BY <1>1, <1>4
      <4>. QED
        BY <3>1, <4>1 DEF TailsOK
    <3>. HIDE DEF t
    <3>. QED
      BY <1>2, <1>3, <1>6, <2>2, <3>1, <3>2, <3>3, <3>4, <3>5, RouteFixed DEF TailsOK
  <2>. QED
    BY <2>1, <2>2
<1>13. ASSUME NEW s \in Rdma, NEW d \in Rdma PROVE RingOK(s, d)'
  <2>1. CASE s # p
    BY <1>2, <1>8, <2>1, RingKept DEF IInv
  <2>2. CASE s = p
    <3>1. RingOK(p, d)
      BY DEF IInv
    <3>3. sendTail'[<<p, d>>] \in Int /\ sendTail[<<p, d>>] <= sendTail'[<<p, d>>]
      <4>1. sendTail'[<<p, d>>] \in Nat /\ sendTail[<<p, d>>] <= sendTail'[<<p, d>>]
        BY <1>9
      <4>. QED
        BY <4>1
    <3>4. /\ issued[<<p, d>>] \in Nat /\ sendTail[<<p, d>>] \in Nat /\ sendTail'[<<p, d>>] \in Int
          /\ (put[p] # <<>> => put[p][2] \in Nat) /\ sendTail[<<p, d>>] <= sendTail'[<<p, d>>]
      BY <1>3, <3>3, SourceTypes
    <3>5. issued[<<p, d>>] <= sendTail'[<<p, d>>]
      BY <3>1, <3>4 DEF RingOK
    <3>6. put[p] # <<>> /\ put[p][1] = d => issued[<<p, d>>] + put[p][2] <= sendTail'[<<p, d>>]
      BY <3>1, <3>4 DEF RingOK
    <3>. QED
      BY <1>2, <2>2, <3>1, <3>5, <3>6 DEF RingOK
  <2>. QED
    BY <2>1, <2>2
<1>14. ASSUME NEW s \in Rdma, NEW d \in Rdma PROVE SentSlotsOK(s, d)'
  <2>1. CASE s # p
    BY <1>2, <1>3, <1>6, <2>1, SentKept DEF IInv
  <2>2. CASE s = p
    <3>1. SentSlotsOK(p, d)
      BY DEF IInv
    <3>2. \A u \in Flow(p, d) : u < lock[p]
      BY <1>1, <1>5
    <3>3. \A u : Copying(p, u) => Copying(p, u)'
      <4>. SUFFICES ASSUME NEW u, NEW v \in Warps, wPc[<<p, v>>] = "copy", wTok[<<p, v>>] = u
                    PROVE  Copying(p, u)'
        BY DEF Copying
      <4>1. wPc'[<<p, v>>] = "copy" /\ wTok'[<<p, v>>] = u
        BY <1>1, <1>2, <1>6
      <4>. QED
        BY <4>1 DEF Copying
    <3>. QED
      BY <1>2, <1>3, <2>2, <3>1, <3>2, <3>3, RouteFixed DEF SentSlotsOK
  <2>. QED
    BY <2>1, <2>2
<1>15. \A s, d \in Rdma : MetaOK(s, d)' /\ ArrivedSlotsOK(s, d)'
  BY <1>2, <1>3, MetaKept, ArrivedKept DEF IInv
<1>16. \A d \in Rdma, j \in Nvl : \A s \in Rdma : ForwarderOK(d, j, s)'
  BY <1>2, <1>3, ForwarderKept DEF IInv
<1>17. \A d \in Rdma, j \in Nvl : HeadsOK(d, j)' /\ QueueOK(d, j)' /\ ReceiverOK(d, j)'
  BY <1>2, <1>3, HeadsKept, QueueKept, ReceiverKept DEF IInv
<1>. QED
  BY <1>10, <1>11, <1>12, <1>13, <1>14, <1>15, <1>16, <1>17 DEF IInv

\* The tails of a ring in order, and what is published is copied.
LEMMA TailsInOrder ==
  ASSUME IInv, NEW p \in Rdma, NEW d \in Rdma
  PROVE  /\ rdmaHead[<<p, d>>] \in Nat /\ issued[<<p, d>>] \in Nat /\ sendTail[<<p, d>>] \in Nat
         /\ nextTail[<<p, d>>] \in Nat
         /\ rdmaHead[<<p, d>>] <= issued[<<p, d>>] /\ issued[<<p, d>>] <= sendTail[<<p, d>>]
         /\ sendTail[<<p, d>>] <= nextTail[<<p, d>>]
         /\ nextTail[<<p, d>>] <= rdmaHead[<<p, d>>] + RdmaRecv
         /\ nextTail[<<p, d>>] <= Cardinality(Flow(p, d))
         /\ \A u \in Flow(p, d) : Place(p, d, u) < sendTail[<<p, d>>] => u < lock[p] /\ ~ Copying(p, u)
<1>1. /\ WarpsOK(p) /\ TailsOK(p, d) /\ RingOK(p, d) /\ route \in Routings /\ Typed
  BY DEF IInv, Typed
<1>2. /\ lock[p] \in Int /\ SenderWarps \in Nat /\ \A w \in Warps : wTok[<<p, w>>] \in Int
      /\ rdmaHead[<<p, d>>] \in Nat /\ issued[<<p, d>>] \in Nat /\ sendTail[<<p, d>>] \in Nat
      /\ nextTail[<<p, d>>] \in Nat
  BY <1>1, SourceTypes, Numbers
<1>3. /\ rdmaHead[<<p, d>>] <= issued[<<p, d>>] /\ issued[<<p, d>>] <= sendTail[<<p, d>>]
      /\ nextTail[<<p, d>>] <= rdmaHead[<<p, d>>] + RdmaRecv
  <2>1. rdmaTail[<<p, d>>] \in Nat /\ credited[<<p, d>>] \in Nat
    BY <1>1, SourceTypes
  <2>. QED
    BY <1>1, <1>2, <2>1 DEF RingOK
<1>. DEFINE b == lock[p] - SenderWarps
<1>4. nextTail[<<p, d>>] = Place(p, d, lock[p]) /\ sendTail[<<p, d>>] = Place(p, d, b)
  BY <1>1 DEF TailsOK
<1>5. b \in Int /\ b <= lock[p]
  BY <1>2
<1>6. Place(p, d, b) <= Place(p, d, lock[p]) /\ Place(p, d, lock[p]) <= Cardinality(Flow(p, d))
  BY <1>1, <1>2, <1>5, PlaceIs
<1>7. ASSUME NEW u \in Flow(p, d), Place(p, d, u) < sendTail[<<p, d>>]
      PROVE  u < lock[p] /\ ~ Copying(p, u)
  <2>1. u \in Int /\ u < b
    <3>. HIDE DEF b
    <3>1. u \in Int
      BY <1>1, FlowIs
    <3>. QED
      BY <1>1, <1>4, <1>5, <1>7, <3>1, PlaceIs
  <2>2. u < lock[p]
    BY <1>2, <2>1
  <2>3. ASSUME NEW w \in Warps PROVE wTok[<<p, w>>] # u
    <3>1. lock[p] <= wTok[<<p, w>>] + SenderWarps /\ wTok[<<p, w>>] \in Int
      BY <1>1, <1>2 DEF WarpsOK
    <3>. QED
      BY <1>2, <2>1, <3>1
  <2>. QED
    BY <2>2, <2>3 DEF Copying
<1>. QED
  BY <1>2, <1>3, <1>4, <1>6, <1>7

LEMMA IssuePutOK ==
  ASSUME IInv, NEW p \in Rdma, NEW e \in Rdma, IssuePut(p, e)
  PROVE  IInv'
<1>. DEFINE n == Smaller(sendTail[<<p, e>>] - issued[<<p, e>>], RdmaSend)
<1>1. put[p] = <<>> /\ put' = [put EXCEPT ![p] = <<e, n, e = p>>]
  BY DEF IssuePut
<1>2. UNCHANGED <<route, meta, recvBuf, rdmaHead, credited, warpVars, issued, rdmaTail, fwdVars,
                  recvVars>>
  BY DEF IssuePut
<1>. USE DEF warpVars, fwdVars, recvVars
<1>3. route' = route /\ route \in Routings /\ Typed
  BY <1>2 DEF IInv, Typed
<1>4. n \in Nat /\ issued[<<p, e>>] + n <= sendTail[<<p, e>>]
  <2>1. /\ issued[<<p, e>>] \in Nat /\ sendTail[<<p, e>>] \in Nat
        /\ issued[<<p, e>>] <= sendTail[<<p, e>>] /\ RdmaSend \in Nat
    BY TailsInOrder, Numbers
  <2>. QED
    BY <2>1 DEF Smaller
<1>. HIDE DEF n
<1>5. /\ put'[p] = <<e, n, e = p>> /\ put'[p] # <<>>
      /\ put'[p][1] = e /\ put'[p][2] = n /\ put'[p][3] = (e = p)
      /\ \A s \in Rdma : s # p => put'[s] = put[s]
  <2>1. put'[p] = <<e, n, e = p>> /\ \A s \in Rdma : s # p => put'[s] = put[s]
    BY <1>1, <1>3 DEF Typed
  <2>. QED
    BY <2>1
<1>6. Typed'
  <2>1. put' \in [Rdma -> {<<>>} \cup (Rdma \X Nat \X BOOLEAN)]
    <3>1. put \in [Rdma -> {<<>>} \cup (Rdma \X Nat \X BOOLEAN)]
      BY <1>3 DEF Typed
    <3>2. <<e, n, e = p>> \in Rdma \X Nat \X BOOLEAN
      BY <1>4
    <3>. QED
      BY <1>1, <3>1, <3>2
  <2>2. \A q \in Rdma \X Rdma : sendHead'[q] \in [First(q[1])' .. Past(q[1])' - 1 -> Int]
    BY <1>2, <1>3, RouteFixed DEF Typed
  <2>. QED
    BY <1>2, <1>3, <2>1, <2>2 DEF Typed
<1>7. \A s \in Rdma : WarpsOK(s)'
  BY <1>2, <1>3, WarpsKept DEF IInv
<1>8. \A s, d \in Rdma : TailsOK(s, d)' /\ MetaOK(s, d)' /\ SentSlotsOK(s, d)'
  BY <1>2, <1>3, TailsKept, MetaKept, SentKept DEF IInv
<1>9. ASSUME NEW s \in Rdma, NEW d \in Rdma PROVE RingOK(s, d)'
  <2>1. CASE s # p
    BY <1>2, <1>5, <2>1, RingKept DEF IInv
  <2>2. CASE s = p
    <3>1. RingOK(s, d)
      BY DEF IInv
    <3>2. d = e => issued[<<s, d>>] + put'[s][2] <= sendTail[<<s, d>>]
      BY <1>4, <1>5, <2>2
    <3>3. d = e /\ s = d => put'[s][3]
      BY <1>5, <2>2
    <3>. QED
      BY <1>2, <1>5, <2>2, <3>1, <3>2, <3>3 DEF RingOK
  <2>. QED
    BY <2>1, <2>2
<1>10. ASSUME NEW s \in Rdma, NEW d \in Rdma PROVE ArrivedSlotsOK(s, d)'
  <2>1. ArrivedSlotsOK(s, d)
    BY DEF IInv
  <2>2. s # d => Arrived(s, d)' = Arrived(s, d)
    <3>1. CASE s # p
      BY <1>2, <1>5, <3>1 DEF Arrived
    <3>2. CASE s = p
      BY <1>1, <1>2, <1>5, <3>2, ZenonT(30) DEF Arrived
    <3>. QED
      BY <3>1, <3>2
  <2>. QED
    BY <1>2, <1>3, <2>1, <2>2, RouteFixed DEF ArrivedSlotsOK
<1>11. \A d \in Rdma, j \in Nvl : \A s \in Rdma : ForwarderOK(d, j, s)'
  BY <1>2, <1>3, ForwarderKept DEF IInv
<1>12. \A d \in Rdma, j \in Nvl : HeadsOK(d, j)' /\ QueueOK(d, j)' /\ ReceiverOK(d, j)'
  BY <1>2, <1>3, HeadsKept, QueueKept, ReceiverKept DEF IInv
<1>. QED
  BY <1>6, <1>7, <1>8, <1>9, <1>10, <1>11, <1>12 DEF IInv

LEMMA LandPutOK ==
  ASSUME IInv, NEW p \in Rdma, LandPut(p)
  PROVE  IInv'
<1>. DEFINE e == put[p][1]
            n == put[p][2]
            slots == {i % RdmaRecv : i \in issued[<<p, e>>] .. issued[<<p, e>>] + n - 1}
<1>1. /\ put[p] # <<>> /\ ~ put[p][3]
      /\ recvBuf' = [recvBuf EXCEPT ![<<p, e>>] =
                     [x \in DOMAIN @ |-> IF x \in slots THEN sendBuf[<<p, e>>][x] ELSE @[x]]]
      /\ put' = [put EXCEPT ![p] = <<e, n, TRUE>>]
  BY DEF LandPut
<1>2. UNCHANGED <<route, meta, rdmaHead, credited, warpVars, issued, rdmaTail, fwdVars, recvVars>>
  BY DEF LandPut
<1>. USE DEF warpVars, fwdVars, recvVars
<1>3. route' = route /\ route \in Routings /\ Typed /\ RdmaRecv \in Nat \ {0}
  BY <1>2, Numbers DEF IInv, Typed
<1>4. /\ e \in Rdma /\ n \in Nat /\ e # p /\ issued[<<p, e>>] + n <= sendTail[<<p, e>>]
      /\ put[p] \in Rdma \X Nat \X BOOLEAN
  <2>1. e \in Rdma /\ n \in Nat /\ put[p] \in Rdma \X Nat \X BOOLEAN
    BY <1>1, <1>3, SourceTypes
  <2>2. RingOK(p, e)
    BY <2>1 DEF IInv
  <2>. QED
    BY <1>1, <2>1, <2>2 DEF RingOK
<1>5. /\ put'[p] \in Rdma \X Nat \X BOOLEAN /\ put'[p] # <<>>
      /\ put'[p][1] = e /\ put'[p][2] = n /\ put'[p][3] = TRUE
      /\ \A s \in Rdma : s # p => put'[s] = put[s]
  <2>1. put'[p] = <<e, n, TRUE>> /\ \A s \in Rdma : s # p => put'[s] = put[s]
    BY <1>1, <1>3 DEF Typed
  <2>. HIDE DEF e, n
  <2>2. <<e, n, TRUE>> \in Rdma \X Nat \X BOOLEAN /\ <<e, n, TRUE>> # <<>>
    BY <1>4
  <2>. QED
    BY <2>1, <2>2
<1>6. /\ \A s, d \in Rdma : s # p \/ d # e => recvBuf'[<<s, d>>] = recvBuf[<<s, d>>]
      /\ recvBuf[<<p, e>>] \in [0 .. RdmaRecv - 1 -> Int]
      /\ sendBuf[<<p, e>>] \in [0 .. RdmaRecv - 1 -> Int]
      /\ recvBuf'[<<p, e>>] = [x \in 0 .. RdmaRecv - 1 |->
                                 IF x \in slots THEN sendBuf[<<p, e>>][x] ELSE recvBuf[<<p, e>>][x]]
  <2>. HIDE DEF slots
  <2>1. /\ recvBuf[<<p, e>>] \in [0 .. RdmaRecv - 1 -> Int]
        /\ sendBuf[<<p, e>>] \in [0 .. RdmaRecv - 1 -> Int]
    BY <1>3, <1>4, SourceTypes
  <2>2. <<p, e>> \in DOMAIN recvBuf /\ DOMAIN recvBuf = Rdma \X Rdma
    BY <1>3, <1>4 DEF Typed
  <2>. HIDE DEF e
  <2>3. recvBuf'[<<p, e>>] = [x \in DOMAIN recvBuf[<<p, e>>] |->
                                 IF x \in slots THEN sendBuf[<<p, e>>][x] ELSE recvBuf[<<p, e>>][x]]
    BY <1>1, <2>2
  <2>4. \A s, d \in Rdma : s # p \/ d # e => recvBuf'[<<s, d>>] = recvBuf[<<s, d>>]
    BY <1>1, <2>2
  <2>. QED
    BY <2>1, <2>3, <2>4
<1>. HIDE DEF slots, e, n
<1>7. Typed'
  <2>1. put' \in [Rdma -> {<<>>} \cup (Rdma \X Nat \X BOOLEAN)]
    <3>1. put \in [Rdma -> {<<>>} \cup (Rdma \X Nat \X BOOLEAN)]
      BY <1>3 DEF Typed
    <3>2. put' = [s \in Rdma |-> put'[s]]
      BY <1>1, <3>1
    <3>3. \A s \in Rdma : put'[s] \in {<<>>} \cup (Rdma \X Nat \X BOOLEAN)
      BY <1>5, <3>1
    <3>. QED
      BY <3>2, <3>3
  <2>2. recvBuf' \in [Rdma \X Rdma -> [0 .. RdmaRecv - 1 -> Int]]
    <3>1. recvBuf \in [Rdma \X Rdma -> [0 .. RdmaRecv - 1 -> Int]]
      BY <1>3 DEF Typed
    <3>2. recvBuf' = [q \in Rdma \X Rdma |-> recvBuf'[q]]
      BY <1>1, <3>1
    <3>3. recvBuf'[<<p, e>>] \in [0 .. RdmaRecv - 1 -> Int]
      BY <1>6
    <3>4. \A s, d \in Rdma : recvBuf'[<<s, d>>] \in [0 .. RdmaRecv - 1 -> Int]
      BY <1>6, <3>1, <3>3
    <3>5. \A q \in Rdma \X Rdma : recvBuf'[q] \in [0 .. RdmaRecv - 1 -> Int]
      BY <3>4
    <3>. QED
      BY <3>2, <3>5
  <2>3. \A q \in Rdma \X Rdma : sendHead'[q] \in [First(q[1])' .. Past(q[1])' - 1 -> Int]
    BY <1>2, <1>3, RouteFixed DEF Typed
  <2>. QED
    BY <1>2, <1>3, <2>1, <2>2, <2>3 DEF Typed
<1>8. \A s \in Rdma : WarpsOK(s)'
  BY <1>2, <1>3, WarpsKept DEF IInv
<1>9. \A s, d \in Rdma : TailsOK(s, d)' /\ MetaOK(s, d)'
  BY <1>2, <1>3, TailsKept, MetaKept DEF IInv
<1>10. ASSUME NEW s \in Rdma, NEW d \in Rdma PROVE RingOK(s, d)'
  <2>1. CASE s # p
    BY <1>2, <1>5, <2>1, RingKept DEF IInv
  <2>2. CASE s = p
    <3>1. RingOK(s, d)
      BY DEF IInv
    <3>. QED
      BY <1>1, <1>2, <1>5, <2>2, <3>1 DEF RingOK, e, n
  <2>. QED
    BY <2>1, <2>2
<1>11. ASSUME NEW s \in Rdma, NEW d \in Rdma PROVE SentSlotsOK(s, d)'
  <2>1. SentSlotsOK(s, d)
    BY DEF IInv
  <2>2. s = d => recvBuf'[<<s, d>>] = recvBuf[<<s, d>>]
    BY <1>4, <1>6
  <2>3. \A u : Copying(s, u)' <=> Copying(s, u)
    BY <1>2 DEF Copying
  <2>. QED
    BY <1>2, <1>3, <2>1, <2>2, <2>3, RouteFixed DEF SentSlotsOK
<1>12. ASSUME NEW s \in Rdma, NEW d \in Rdma, s # d PROVE ArrivedSlotsOK(s, d)'
  <2>0. ArrivedSlotsOK(s, d)
    BY DEF IInv
  <2>1. CASE s # p \/ d # e
    <3>1. Arrived(s, d)' = Arrived(s, d)
      <4>1. CASE s # p
        BY <1>2, <1>5, <4>1 DEF Arrived
      <4>2. CASE s = p /\ d # e
        BY <1>1, <1>2, <1>5, <4>2 DEF Arrived, e
      <4>. QED
        BY <2>1, <4>1, <4>2
    <3>2. rdmaHead'[<<s, d>>] = rdmaHead[<<s, d>>] /\ recvBuf'[<<s, d>>] = recvBuf[<<s, d>>]
      BY <1>2, <1>6, <2>1
    <3>. QED
      BY <1>3, <2>0, <3>1, <3>2, RouteFixed DEF ArrivedSlotsOK
  <2>2. CASE s = p /\ d = e
    <3>1. Arrived(s, d)' = issued[<<p, e>>] + n /\ Arrived(s, d) = issued[<<p, e>>]
      BY <1>1, <1>2, <1>5, <2>2 DEF Arrived, e, n
    <3>2. /\ rdmaHead[<<p, e>>] \in Nat /\ issued[<<p, e>>] \in Nat /\ sendTail[<<p, e>>] \in Nat
          /\ nextTail[<<p, e>>] \in Nat
          /\ rdmaHead[<<p, e>>] <= issued[<<p, e>>] /\ issued[<<p, e>>] <= sendTail[<<p, e>>]
          /\ sendTail[<<p, e>>] <= nextTail[<<p, e>>]
          /\ nextTail[<<p, e>>] <= rdmaHead[<<p, e>>] + RdmaRecv
          /\ \A u \in Flow(p, e) : Place(p, e, u) < sendTail[<<p, e>>] =>
                                     u < lock[p] /\ ~ Copying(p, u)
      BY <1>4, TailsInOrder
    <3>3. ASSUME NEW u \in Flow(p, e), rdmaHead[<<p, e>>] <= Place(p, e, u),
                 Place(p, e, u) < issued[<<p, e>>] + n
          PROVE  recvBuf'[<<p, e>>][Place(p, e, u) % RdmaRecv] = u
      <4>. DEFINE i == Place(p, e, u)
      <4>1. i \in Nat
        <5>1. u \in Int
          BY <1>3, FlowIs
        <5>. QED
          BY <1>3, <5>1, PlaceIs
      <4>2. rdmaHead[<<p, e>>] <= i /\ i < issued[<<p, e>>] + n
        BY <3>3
      <4>3. CASE issued[<<p, e>>] <= i
        <5>1. i < sendTail[<<p, e>>]
          <6>. HIDE DEF i
          <6>. QED
            BY <1>4, <3>2, <4>1, <4>2
        <5>2. sendBuf[<<p, e>>][i % RdmaRecv] = u
          <6>1. u < lock[p] /\ ~ Copying(p, u)
            BY <3>2, <5>1
          <6>2. SentSlotsOK(p, e)
            BY <1>4 DEF IInv
          <6>. QED
            BY <1>4, <4>2, <6>1, <6>2 DEF SentSlotsOK
        <5>. HIDE DEF i
        <5>3. i % RdmaRecv \in 0 .. RdmaRecv - 1
          BY <1>3, <4>1
        <5>4. i % RdmaRecv \in slots
          <6>1. i \in issued[<<p, e>>] .. issued[<<p, e>>] + n - 1
            BY <1>4, <3>2, <4>1, <4>2, <4>3
          <6>. QED
            BY <6>1 DEF slots
        <5>5. recvBuf'[<<p, e>>][i % RdmaRecv] = u
          BY <1>6, <5>2, <5>3, <5>4
        <5>. QED
          BY <5>5 DEF i
      <4>4. CASE i < issued[<<p, e>>]
        <5>1. recvBuf[<<p, e>>][i % RdmaRecv] = u
          BY <2>0, <2>2, <3>1, <3>3, <4>4, <1>4 DEF ArrivedSlotsOK
        <5>. HIDE DEF i
        <5>2. i % RdmaRecv \in 0 .. RdmaRecv - 1
          BY <1>3, <4>1
        <5>3. i % RdmaRecv \notin slots
          <6>. SUFFICES ASSUME NEW k \in issued[<<p, e>>] .. issued[<<p, e>>] + n - 1
                        PROVE  i % RdmaRecv # k % RdmaRecv
            BY DEF slots
          <6>1. k \in Nat /\ issued[<<p, e>>] <= k /\ k < issued[<<p, e>>] + n
            BY <1>4, <3>2
          <6>2. /\ i # k /\ i < rdmaHead[<<p, e>>] + RdmaRecv
                /\ rdmaHead[<<p, e>>] <= k /\ k < rdmaHead[<<p, e>>] + RdmaRecv
            BY <1>3, <1>4, <3>2, <4>1, <4>2, <4>4, <6>1
          <6>. QED
            BY <1>3, <3>2, <4>1, <4>2, <6>1, <6>2, SlotsApart
        <5>4. recvBuf'[<<p, e>>][i % RdmaRecv] = u
          BY <1>6, <5>1, <5>2, <5>3
        <5>. QED
          BY <5>4 DEF i
      <4>. HIDE DEF i
      <4>. QED
        BY <3>2, <4>1, <4>3, <4>4
    <3>4. \A u \in Flow(s, d) :
            rdmaHead[<<s, d>>] <= Place(s, d, u) /\ Place(s, d, u) < Arrived(s, d)' =>
              recvBuf'[<<s, d>>][Place(s, d, u) % RdmaRecv] = u
      BY <2>2, <3>1, <3>3
    <3>5. rdmaHead'[<<s, d>>] = rdmaHead[<<s, d>>]
      BY <1>2
    <3>. QED
      BY <1>3, <3>4, <3>5, RouteFixed DEF ArrivedSlotsOK
  <2>. QED
    BY <2>1, <2>2
<1>13. \A s, d \in Rdma : ArrivedSlotsOK(s, d)'
  BY <1>12 DEF ArrivedSlotsOK
<1>14. \A d \in Rdma, j \in Nvl : \A s \in Rdma : ForwarderOK(d, j, s)'
  BY <1>2, <1>3, ForwarderKept DEF IInv
<1>15. \A d \in Rdma, j \in Nvl : HeadsOK(d, j)' /\ QueueOK(d, j)' /\ ReceiverOK(d, j)'
  BY <1>2, <1>3, HeadsKept, QueueKept, ReceiverKept DEF IInv
<1>. QED
  BY <1>7, <1>8, <1>9, <1>10, <1>11, <1>13, <1>14, <1>15 DEF IInv

\* Issuing the add and its arrival: what was issued arrives in order.
LEMMA AddTailOK ==
  ASSUME IInv, NEW p \in Rdma, AddTail(p)
  PROVE  IInv'
<1>. DEFINE e == put[p][1]
            n == put[p][2]
<1>1. /\ put[p] # <<>> /\ put[p][3]
      /\ issued' = [issued EXCEPT ![<<p, e>>] = @ + n]
      /\ put' = [put EXCEPT ![p] = <<>>]
  BY DEF AddTail, Landed
<1>2. UNCHANGED <<route, meta, recvBuf, rdmaHead, rdmaTail, credited, warpVars, fwdVars, recvVars>>
  BY DEF AddTail
<1>. USE DEF warpVars, fwdVars, recvVars
<1>3. route' = route /\ route \in Routings /\ Typed
  BY <1>2 DEF IInv, Typed
<1>4. e \in Rdma /\ n \in Nat
  BY <1>1, <1>3, SourceTypes
<1>. HIDE DEF e, n
<1>5. /\ put'[p] = <<>> /\ \A s \in Rdma : s # p => put'[s] = put[s]
      /\ \A s, d \in Rdma : s # p \/ d # e => issued'[<<s, d>>] = issued[<<s, d>>]
      /\ issued'[<<p, e>>] = issued[<<p, e>>] + n
  BY <1>1, <1>3, <1>4 DEF Typed
<1>6. Typed'
  <2>1. /\ put' \in [Rdma -> {<<>>} \cup (Rdma \X Nat \X BOOLEAN)]
        /\ issued' \in [Rdma \X Rdma -> Nat]
    <3>1. /\ put \in [Rdma -> {<<>>} \cup (Rdma \X Nat \X BOOLEAN)]
          /\ issued \in [Rdma \X Rdma -> Nat]
      BY <1>3 DEF Typed
    <3>. QED
      BY <1>1, <1>4, <3>1
  <2>2. \A q \in Rdma \X Rdma : sendHead'[q] \in [First(q[1])' .. Past(q[1])' - 1 -> Int]
    BY <1>2, <1>3, RouteFixed DEF Typed
  <2>. QED
    BY <1>2, <1>3, <2>1, <2>2 DEF Typed
<1>7. \A s \in Rdma : WarpsOK(s)'
  BY <1>2, <1>3, WarpsKept DEF IInv
<1>8. \A s, d \in Rdma : TailsOK(s, d)' /\ MetaOK(s, d)' /\ SentSlotsOK(s, d)'
  BY <1>2, <1>3, TailsKept, MetaKept, SentKept DEF IInv
<1>9. ASSUME NEW s \in Rdma, NEW d \in Rdma PROVE RingOK(s, d)'
  <2>1. CASE s # p
    BY <1>2, <1>5, <2>1, RingKept DEF IInv
  <2>2. CASE s = p
    <3>1. RingOK(s, d)
      BY DEF IInv
    <3>2. CASE d # e
      BY <1>2, <1>5, <2>2, <3>1, <3>2 DEF RingOK
    <3>3. CASE d = e
      <4>1. issued[<<p, e>>] \in Nat /\ rdmaTail[<<p, e>>] \in Nat
        BY <1>3, <1>4, SourceTypes
      <4>2. issued'[<<s, d>>] <= sendTail[<<s, d>>]
        BY <1>1, <1>5, <2>2, <3>1, <3>3 DEF RingOK, e, n
      <4>3. rdmaTail[<<s, d>>] <= issued'[<<s, d>>]
        BY <1>4, <1>5, <2>2, <3>1, <3>3, <4>1 DEF RingOK
      <4>. QED
        BY <1>2, <1>5, <2>2, <3>1, <4>2, <4>3 DEF RingOK
    <3>. QED
      BY <3>2, <3>3
  <2>. QED
    BY <2>1, <2>2
<1>10. ASSUME NEW s \in Rdma, NEW d \in Rdma PROVE ArrivedSlotsOK(s, d)'
  <2>1. ArrivedSlotsOK(s, d)
    BY DEF IInv
  <2>2. Arrived(s, d)' = Arrived(s, d)
    <3>1. CASE s # p
      BY <1>5, <3>1 DEF Arrived
    <3>2. CASE s = p /\ d # e
      BY <1>5, <3>2 DEF Arrived, e
    <3>3. CASE s = p /\ d = e
      BY <1>1, <1>5, <3>3 DEF Arrived, e, n
    <3>. QED
      BY <3>1, <3>2, <3>3
  <2>. QED
    BY <1>2, <1>3, <2>1, <2>2, RouteFixed DEF ArrivedSlotsOK
<1>11. \A d \in Rdma, j \in Nvl : \A s \in Rdma : ForwarderOK(d, j, s)'
  BY <1>2, <1>3, ForwarderKept DEF IInv
<1>12. \A d \in Rdma, j \in Nvl : HeadsOK(d, j)' /\ QueueOK(d, j)' /\ ReceiverOK(d, j)'
  BY <1>2, <1>3, HeadsKept, QueueKept, ReceiverKept DEF IInv
<1>. QED
  BY <1>6, <1>7, <1>8, <1>9, <1>10, <1>11, <1>12 DEF IInv

LEMMA TailArrivesOK ==
  ASSUME IInv, NEW p \in Rdma, NEW e \in Rdma, TailArrives(p, e)
  PROVE  IInv'
<1>1. /\ rdmaTail[<<p, e>>] < issued[<<p, e>>]
      /\ rdmaTail' = [rdmaTail EXCEPT ![<<p, e>>] = issued[<<p, e>>]]
  BY DEF TailArrives
<1>2. UNCHANGED <<route, meta, recvBuf, rdmaHead, credited, warpVars, issued, put, fwdVars, recvVars>>
  BY DEF TailArrives
<1>. USE DEF warpVars, fwdVars, recvVars
<1>3. route' = route /\ route \in Routings /\ Typed
  BY <1>2 DEF IInv, Typed
<1>4. issued[<<p, e>>] \in Nat /\ rdmaTail[<<p, e>>] \in Nat /\ credited[<<p, e>>] \in Nat
  BY <1>3, SourceTypes
<1>5. /\ \A s, d \in Rdma : s # p \/ d # e => rdmaTail'[<<s, d>>] = rdmaTail[<<s, d>>]
      /\ rdmaTail'[<<p, e>>] = issued[<<p, e>>]
  BY <1>1, <1>3 DEF Typed
<1>6. Typed'
  <2>1. rdmaTail' \in [Rdma \X Rdma -> Nat]
    BY <1>1, <1>3, <1>4 DEF Typed
  <2>2. \A q \in Rdma \X Rdma : sendHead'[q] \in [First(q[1])' .. Past(q[1])' - 1 -> Int]
    BY <1>2, <1>3, RouteFixed DEF Typed
  <2>. QED
    BY <1>2, <1>3, <2>1, <2>2 DEF Typed
<1>7. \A s \in Rdma : WarpsOK(s)'
  BY <1>2, <1>3, WarpsKept DEF IInv
<1>8. \A s, d \in Rdma : TailsOK(s, d)' /\ MetaOK(s, d)' /\ SentSlotsOK(s, d)' /\ ArrivedSlotsOK(s, d)'
  BY <1>2, <1>3, TailsKept, MetaKept, SentKept, ArrivedKept DEF IInv
<1>9. ASSUME NEW s \in Rdma, NEW d \in Rdma PROVE RingOK(s, d)'
  <2>1. RingOK(s, d)
    BY DEF IInv
  <2>2. CASE s # p \/ d # e
    BY <1>2, <1>5, <2>1, <2>2, RingKept
  <2>3. CASE s = p /\ d = e
    <3>1. /\ rdmaTail'[<<s, d>>] <= issued[<<s, d>>]
          /\ credited[<<s, d>>] <= rdmaTail'[<<s, d>>]
      BY <1>1, <1>4, <1>5, <2>1, <2>3 DEF RingOK
    <3>. QED
      BY <1>2, <2>1, <3>1 DEF RingOK
  <2>. QED
    BY <2>2, <2>3
<1>10. ASSUME NEW d \in Rdma, NEW j \in Nvl, NEW s \in Rdma PROVE ForwarderOK(d, j, s)'
  <2>1. ForwarderOK(d, j, s)
    BY DEF IInv
  <2>2. rdmaTail[<<s, d>>] \in Nat /\ fTail[<<d, j>>][s] \in Nat
    <3>1. rdmaTail[<<s, d>>] \in Nat /\ fTail[<<d, j>>] \in [Rdma -> Nat]
      BY <1>3, SourceTypes, RankTypes
    <3>. QED
      BY <3>1
  <2>3. fTail[<<d, j>>][s] <= rdmaTail'[<<s, d>>]
    BY <1>1, <1>4, <1>5, <2>1, <2>2 DEF ForwarderOK
  <2>. QED
    BY <1>2, <1>3, <2>1, <2>3, RouteFixed DEF ForwarderOK, Encode
<1>11. \A d \in Rdma, j \in Nvl : HeadsOK(d, j)' /\ QueueOK(d, j)' /\ ReceiverOK(d, j)'
  BY <1>2, <1>3, HeadsKept, QueueKept, ReceiverKept DEF IInv
<1>. QED
  BY <1>6, <1>7, <1>8, <1>9, <1>10, <1>11 DEF IInv

\* What the metadata says once it is there.
LEMMA MetaSays ==
  ASSUME route \in Routings, NEW s \in Rdma, NEW d \in Rdma, MetaOK(s, d), notified[s]
  PROVE  /\ ToRecv(s, d) = Cardinality(Flow(s, d))
         /\ Decode(meta[<<s, d>>].from) = RdmaPrefix(s, d, First(s))
         /\ \A j \in Nvl : /\ meta[<<s, d>>].start[j] = Encode(GblPrefix(s, d, j, First(s)))
                           /\ meta[<<s, d>>].end[j] = Encode(GblPrefix(s, d, j, Past(s)))
<1>1. /\ meta[<<s, d>>].from = Encode(RdmaPrefix(s, d, First(s)))
      /\ meta[<<s, d>>].to = Encode(RdmaPrefix(s, d, Past(s)))
      /\ meta[<<s, d>>].start = [j \in Nvl |-> Encode(GblPrefix(s, d, j, First(s)))]
      /\ meta[<<s, d>>].end = [j \in Nvl |-> Encode(GblPrefix(s, d, j, Past(s)))]
  BY DEF MetaOK
<1>2. /\ RdmaPrefix(s, d, First(s)) \in Nat /\ Cardinality(Flow(s, d)) \in Nat
      /\ RdmaPrefix(s, d, Past(s)) = RdmaPrefix(s, d, First(s)) + Cardinality(Flow(s, d))
  BY ChannelTotals, FlowIs
<1>3. Decode(meta[<<s, d>>].from) = RdmaPrefix(s, d, First(s))
  BY <1>1, <1>2 DEF Encode, Decode
<1>4. Decode(meta[<<s, d>>].to) = RdmaPrefix(s, d, Past(s))
  BY <1>1, <1>2 DEF Encode, Decode
<1>5. ToRecv(s, d) = Cardinality(Flow(s, d))
  BY <1>2, <1>3, <1>4 DEF ToRecv
<1>. QED
  BY <1>1, <1>3, <1>5

LEMMA ReadMetaOK ==
  ASSUME IInv, NEW p \in Rdma, NEW k \in Nvl, ReadMeta(p, k)
  PROVE  IInv'
<1>1. /\ fPc[<<p, k>>] = "meta"
      /\ \A s \in Rdma : meta[<<s, p>>].to < 0
      /\ nvlStart' = [nvlStart EXCEPT ![<<p, k>>] = [s \in Rdma |-> meta[<<s, p>>].start[k]]]
      /\ nvlEnd'   = [nvlEnd EXCEPT ![<<p, k>>] = [s \in Rdma |-> meta[<<s, p>>].end[k]]]
      /\ fPc'      = [fPc EXCEPT ![<<p, k>>] = "run"]
  BY DEF ReadMeta
<1>2. UNCHANGED <<route, meta, recvBuf, rdmaHead, credited, warpVars, coordVars, fHead, fTail,
                  fwdHead, fIdx, fNvlTail, sendNvlHead, nvlBuf, nvlTail, recvVars>>
  BY DEF ReadMeta
<1>. USE DEF warpVars, coordVars, recvVars
<1>3. route' = route /\ route \in Routings /\ Typed
  BY <1>2 DEF IInv, Typed
<1>4. ASSUME NEW s \in Rdma
      PROVE  /\ notified[s]
             /\ meta[<<s, p>>].start[k] = Encode(GblPrefix(s, p, k, First(s)))
             /\ meta[<<s, p>>].end[k] = Encode(GblPrefix(s, p, k, Past(s)))
             /\ meta[<<s, p>>].start[k] \in Int /\ meta[<<s, p>>].end[k] \in Int
  <2>1. MetaOK(s, p)
    BY DEF IInv
  <2>2. notified[s]
    BY <1>1, <2>1 DEF MetaOK
  <2>3. meta[<<s, p>>].start[k] \in Int /\ meta[<<s, p>>].end[k] \in Int
    <3>1. meta \in [Rdma \X Rdma -> [start : [Nvl -> Int], end : [Nvl -> Int], from : Int, to : Int]]
      BY <1>3 DEF Typed
    <3>2. meta[<<s, p>>] \in [start : [Nvl -> Int], end : [Nvl -> Int], from : Int, to : Int]
      BY <3>1
    <3>. QED
      BY <3>2
  <2>. QED
    BY <1>3, <2>1, <2>2, <2>3, MetaSays
<1>5. /\ fPc'[<<p, k>>] = "run"
      /\ \A s \in Rdma : /\ nvlStart'[<<p, k>>][s] = meta[<<s, p>>].start[k]
                         /\ nvlEnd'[<<p, k>>][s] = meta[<<s, p>>].end[k]
      /\ \A d \in Rdma, j \in Nvl : d # p \/ j # k =>
           /\ fPc'[<<d, j>>] = fPc[<<d, j>>] /\ nvlStart'[<<d, j>>] = nvlStart[<<d, j>>]
           /\ nvlEnd'[<<d, j>>] = nvlEnd[<<d, j>>]
  BY <1>1, <1>3 DEF Typed
<1>6. Typed'
  <2>1. /\ nvlStart' \in [Rdma \X Nvl -> [Rdma -> Int]] /\ nvlEnd' \in [Rdma \X Nvl -> [Rdma -> Int]]
        /\ fPc' \in [Rdma \X Nvl -> {"meta", "run", "publish", "retired"}]
    <3>1. /\ nvlStart \in [Rdma \X Nvl -> [Rdma -> Int]] /\ nvlEnd \in [Rdma \X Nvl -> [Rdma -> Int]]
          /\ fPc \in [Rdma \X Nvl -> {"meta", "run", "publish", "retired"}]
      BY <1>3 DEF Typed
    <3>2. /\ [s \in Rdma |-> meta[<<s, p>>].start[k]] \in [Rdma -> Int]
          /\ [s \in Rdma |-> meta[<<s, p>>].end[k]] \in [Rdma -> Int]
      BY <1>4
    <3>. QED
      BY <1>1, <3>1, <3>2
  <2>2. \A q \in Rdma \X Rdma : sendHead'[q] \in [First(q[1])' .. Past(q[1])' - 1 -> Int]
    BY <1>2, <1>3, RouteFixed DEF Typed
  <2>. QED
    BY <1>2, <1>3, <2>1, <2>2 DEF Typed
<1>7. \A s \in Rdma : WarpsOK(s)'
  BY <1>2, <1>3, WarpsKept DEF IInv
<1>8. \A s, d \in Rdma : TailsOK(s, d)' /\ RingOK(s, d)' /\ MetaOK(s, d)'
  BY <1>2, <1>3, TailsKept, RingKept, MetaKept DEF IInv
<1>9. \A s, d \in Rdma : SentSlotsOK(s, d)' /\ ArrivedSlotsOK(s, d)'
  BY <1>2, <1>3, SentKept, ArrivedKept DEF IInv
<1>10. ASSUME NEW d \in Rdma, NEW j \in Nvl, NEW s \in Rdma PROVE ForwarderOK(d, j, s)'
  <2>1. CASE d # p \/ j # k
    BY <1>2, <1>3, <1>5, <2>1, ForwarderKept DEF IInv
  <2>2. CASE d = p /\ j = k
    <3>1. ForwarderOK(p, k, s)
      BY DEF IInv
    <3>2. /\ fHead'[<<p, k>>] = fHead[<<p, k>>] /\ fTail'[<<p, k>>] = fTail[<<p, k>>]
          /\ fIdx'[<<p, k>>] = fIdx[<<p, k>>] /\ notified'[s] = notified[s]
          /\ fwdHead'[<<p, k>>] = fwdHead[<<p, k>>]
          /\ rdmaTail'[<<s, p>>] = rdmaTail[<<s, p>>] /\ credited'[<<s, p>>] = credited[<<s, p>>]
      BY <1>2
    <3>3. /\ nvlStart'[<<p, k>>][s] = Encode(GblPrefix(s, p, k, First(s)))
          /\ nvlEnd'[<<p, k>>][s] = Encode(GblPrefix(s, p, k, Past(s)))
      BY <1>4, <1>5
    <3>4. /\ fHead[<<p, k>>][s] <= fTail[<<p, k>>][s] /\ fTail[<<p, k>>][s] <= rdmaTail[<<s, p>>]
          /\ credited[<<s, p>>] <= fwdHead[<<p, k>>][s] /\ fwdHead[<<p, k>>][s] <= fHead[<<p, k>>][s]
          /\ fIdx[<<p, k>>][s] = Cardinality(Passed(s, p, k, fHead[<<p, k>>][s]))
      BY <1>1, <3>1 DEF ForwarderOK
    <3>5. notified'[s] /\ fPc'[<<p, k>>] # "meta" /\ fPc'[<<p, k>>] # "retired"
      BY <1>4, <1>5, <3>2
    <3>6. /\ nvlStart'[<<p, k>>][s] = Encode(GblPrefix(s, p, k, First(s))')
          /\ nvlEnd'[<<p, k>>][s] = Encode(GblPrefix(s, p, k, Past(s))')
          /\ Passed(s, p, k, fHead[<<p, k>>][s])' = Passed(s, p, k, fHead[<<p, k>>][s])
      <4>1. /\ GblPrefix(s, p, k, First(s))' = GblPrefix(s, p, k, First(s))
            /\ GblPrefix(s, p, k, Past(s))' = GblPrefix(s, p, k, Past(s))
        BY <1>3, RouteFixed
      <4>2. Passed(s, p, k, fHead[<<p, k>>][s])' = Passed(s, p, k, fHead[<<p, k>>][s])
        BY <1>3, <3>2, RouteFixed
      <4>. QED
        BY <3>3, <4>1, <4>2
    <3>. QED
      BY <2>2, <3>2, <3>4, <3>5, <3>6 DEF ForwarderOK, Encode
  <2>. QED
    BY <2>1, <2>2
<1>11. \A d \in Rdma, j \in Nvl : HeadsOK(d, j)' /\ QueueOK(d, j)' /\ ReceiverOK(d, j)'
  BY <1>2, <1>3, HeadsKept, QueueKept, ReceiverKept DEF IInv
<1>. QED
  BY <1>6, <1>7, <1>8, <1>9, <1>10, <1>11 DEF IInv

LEMMA RetireOK ==
  ASSUME IInv, NEW p \in Rdma, NEW k \in Nvl, Retire(p, k)
  PROVE  IInv'
<1>1. /\ fPc[<<p, k>>] = "run" /\ \A s \in Rdma : fHead[<<p, k>>][s] >= ToRecv(s, p)
      /\ fPc' = [fPc EXCEPT ![<<p, k>>] = "retired"]
  BY DEF Retire
<1>2. UNCHANGED <<route, meta, recvBuf, rdmaHead, credited, warpVars, coordVars, fHead, fTail,
                  fwdHead, fIdx, fNvlTail, sendNvlHead, nvlStart, nvlEnd, nvlBuf, nvlTail, recvVars>>
  BY DEF Retire
<1>. USE DEF warpVars, coordVars, recvVars
<1>3. route' = route /\ route \in Routings /\ Typed
  BY <1>2 DEF IInv, Typed
<1>5. /\ fPc'[<<p, k>>] = "retired"
      /\ \A d \in Rdma, j \in Nvl : d # p \/ j # k => fPc'[<<d, j>>] = fPc[<<d, j>>]
  BY <1>1, <1>3 DEF Typed
<1>6. Typed'
  <2>1. fPc' \in [Rdma \X Nvl -> {"meta", "run", "publish", "retired"}]
    <3>1. fPc \in [Rdma \X Nvl -> {"meta", "run", "publish", "retired"}]
      BY <1>3 DEF Typed
    <3>. QED
      BY <1>1, <3>1
  <2>2. \A q \in Rdma \X Rdma : sendHead'[q] \in [First(q[1])' .. Past(q[1])' - 1 -> Int]
    BY <1>2, <1>3, RouteFixed DEF Typed
  <2>. QED
    BY <1>2, <1>3, <2>1, <2>2 DEF Typed
<1>7. \A s \in Rdma : WarpsOK(s)'
  BY <1>2, <1>3, WarpsKept DEF IInv
<1>8. \A s, d \in Rdma : TailsOK(s, d)' /\ RingOK(s, d)' /\ MetaOK(s, d)'
  BY <1>2, <1>3, TailsKept, RingKept, MetaKept DEF IInv
<1>9. \A s, d \in Rdma : SentSlotsOK(s, d)' /\ ArrivedSlotsOK(s, d)'
  BY <1>2, <1>3, SentKept, ArrivedKept DEF IInv
<1>10. ASSUME NEW d \in Rdma, NEW j \in Nvl, NEW s \in Rdma PROVE ForwarderOK(d, j, s)'
  <2>1. CASE d # p \/ j # k
    BY <1>2, <1>3, <1>5, <2>1, ForwarderKept DEF IInv
  <2>2. CASE d = p /\ j = k
    <3>1. ForwarderOK(p, k, s) /\ MetaOK(s, p)
      BY DEF IInv
    <3>2. /\ fHead'[<<p, k>>] = fHead[<<p, k>>] /\ fTail'[<<p, k>>] = fTail[<<p, k>>]
          /\ fIdx'[<<p, k>>] = fIdx[<<p, k>>] /\ notified'[s] = notified[s]
          /\ fwdHead'[<<p, k>>] = fwdHead[<<p, k>>]
          /\ rdmaTail'[<<s, p>>] = rdmaTail[<<s, p>>] /\ credited'[<<s, p>>] = credited[<<s, p>>]
          /\ nvlStart'[<<p, k>>] = nvlStart[<<p, k>>] /\ nvlEnd'[<<p, k>>] = nvlEnd[<<p, k>>]
      BY <1>2
    <3>3. notified[s] /\ fPc'[<<p, k>>] = "retired" /\ fPc[<<p, k>>] # "meta"
      BY <1>1, <1>5, <3>1 DEF ForwarderOK
    <3>4. Cardinality(Flow(s, p)) <= fHead[<<p, k>>][s]
      <4>1. /\ Cardinality(Flow(s, p)) \in Nat /\ fHead[<<p, k>>] \in [Rdma -> Nat]
            /\ ToRecv(s, p) = Cardinality(Flow(s, p))
        BY <1>3, <3>1, <3>3, FlowIs, RankTypes, MetaSays
      <4>. QED
        BY <1>1, <4>1
    <3>. QED
      BY <1>3, <2>2, <3>1, <3>2, <3>3, <3>4, RouteFixed DEF ForwarderOK, Encode
  <2>. QED
    BY <2>1, <2>2
<1>11. \A d \in Rdma, j \in Nvl : HeadsOK(d, j)' /\ QueueOK(d, j)' /\ ReceiverOK(d, j)'
  BY <1>2, <1>3, HeadsKept, QueueKept, ReceiverKept DEF IInv
<1>. QED
  BY <1>6, <1>7, <1>8, <1>9, <1>10, <1>11 DEF IInv

\* A head is published once its slots are copied; the queue stays as it is.
LEMMA PublishOK ==
  ASSUME IInv, NEW p \in Rdma, NEW k \in Nvl, Publish(p, k)
  PROVE  IInv'
<1>1. /\ fPc[<<p, k>>] = "publish"
      /\ fwdHead' = [fwdHead EXCEPT ![<<p, k>>] = fHead[<<p, k>>]]
      /\ nvlTail' = [nvlTail EXCEPT ![<<p, k>>] = fNvlTail[<<p, k>>]]
      /\ fPc' = [fPc EXCEPT ![<<p, k>>] = "run"]
  BY DEF Publish
<1>2. UNCHANGED <<route, meta, recvBuf, rdmaHead, credited, warpVars, coordVars, fHead, fTail,
                  fIdx, fNvlTail, sendNvlHead, nvlStart, nvlEnd, nvlBuf, recvVars>>
  BY DEF Publish
<1>. USE DEF warpVars, coordVars, recvVars
<1>3. route' = route /\ route \in Routings /\ Typed
  BY <1>2 DEF IInv, Typed
<1>4. /\ fHead[<<p, k>>] \in [Rdma -> Nat] /\ fwdHead[<<p, k>>] \in [Rdma -> Nat]
      /\ fNvlTail[<<p, k>>] \in Nat /\ nvlTail[<<p, k>>] \in Nat /\ rHead[<<p, k>>] \in Nat
  BY <1>3, RankTypes
<1>5. /\ fPc'[<<p, k>>] = "run" /\ fwdHead'[<<p, k>>] = fHead[<<p, k>>]
      /\ nvlTail'[<<p, k>>] = fNvlTail[<<p, k>>]
      /\ \A d \in Rdma, j \in Nvl : d # p \/ j # k =>
           /\ fPc'[<<d, j>>] = fPc[<<d, j>>] /\ fwdHead'[<<d, j>>] = fwdHead[<<d, j>>]
           /\ nvlTail'[<<d, j>>] = nvlTail[<<d, j>>]
  BY <1>1, <1>3 DEF Typed
<1>6. Typed'
  <2>1. /\ fPc' \in [Rdma \X Nvl -> {"meta", "run", "publish", "retired"}]
        /\ fwdHead' \in [Rdma \X Nvl -> [Rdma -> Nat]] /\ nvlTail' \in [Rdma \X Nvl -> Nat]
    <3>1. /\ fPc \in [Rdma \X Nvl -> {"meta", "run", "publish", "retired"}]
          /\ fwdHead \in [Rdma \X Nvl -> [Rdma -> Nat]] /\ nvlTail \in [Rdma \X Nvl -> Nat]
      BY <1>3 DEF Typed
    <3>. QED
      BY <1>1, <1>4, <3>1
  <2>2. \A q \in Rdma \X Rdma : sendHead'[q] \in [First(q[1])' .. Past(q[1])' - 1 -> Int]
    BY <1>2, <1>3, RouteFixed DEF Typed
  <2>. QED
    BY <1>2, <1>3, <2>1, <2>2 DEF Typed
<1>7. \A s \in Rdma : WarpsOK(s)'
  BY <1>2, <1>3, WarpsKept DEF IInv
<1>8. \A s, d \in Rdma : TailsOK(s, d)' /\ RingOK(s, d)' /\ MetaOK(s, d)'
  BY <1>2, <1>3, TailsKept, RingKept, MetaKept DEF IInv
<1>9. \A s, d \in Rdma : SentSlotsOK(s, d)' /\ ArrivedSlotsOK(s, d)'
  BY <1>2, <1>3, SentKept, ArrivedKept DEF IInv
<1>10. ASSUME NEW d \in Rdma, NEW j \in Nvl, NEW s \in Rdma PROVE ForwarderOK(d, j, s)'
  <2>1. CASE d # p \/ j # k
    BY <1>2, <1>3, <1>5, <2>1, ForwarderKept DEF IInv
  <2>2. CASE d = p /\ j = k
    <3>1. ForwarderOK(p, k, s)
      BY DEF IInv
    <3>2. credited[<<s, p>>] <= fwdHead'[<<p, k>>][s] /\ fwdHead'[<<p, k>>][s] <= fHead[<<p, k>>][s]
      <4>1. credited[<<s, p>>] \in Nat /\ fHead[<<p, k>>][s] \in Nat /\ fwdHead[<<p, k>>][s] \in Nat
        BY <1>3, <1>4, SourceTypes
      <4>2. credited[<<s, p>>] <= fwdHead[<<p, k>>][s] /\ fwdHead[<<p, k>>][s] <= fHead[<<p, k>>][s]
        BY <1>1, <3>1 DEF ForwarderOK
      <4>3. fwdHead'[<<p, k>>][s] = fHead[<<p, k>>][s]
        BY <1>5
      <4>. QED
        BY <4>1, <4>2, <4>3
    <3>3. fPc'[<<p, k>>] # "meta" /\ fPc[<<p, k>>] # "meta" /\ fPc'[<<p, k>>] # "retired"
      BY <1>1, <1>5
    <3>. QED
      BY <1>2, <1>3, <2>2, <3>1, <3>2, <3>3, RouteFixed DEF ForwarderOK, Encode
  <2>. QED
    BY <2>1, <2>2
<1>11. \A d \in Rdma, j \in Nvl : HeadsOK(d, j)' /\ ReceiverOK(d, j)'
  BY <1>2, <1>3, HeadsKept, ReceiverKept DEF IInv
<1>12. ASSUME NEW d \in Rdma, NEW j \in Nvl PROVE QueueOK(d, j)'
  <2>1. CASE d # p \/ j # k
    BY <1>2, <1>3, <1>5, <2>1, QueueKept DEF IInv
  <2>2. CASE d = p /\ j = k
    <3>1. QueueOK(p, k)
      BY DEF IInv
    <3>2. rHead[<<p, k>>] <= nvlTail'[<<p, k>>] /\ nvlTail'[<<p, k>>] <= fNvlTail[<<p, k>>]
      BY <1>4, <1>5, <3>1 DEF QueueOK
    <3>3. \A s \in Rdma : Received(p, k, s)' = Received(p, k, s) /\ InQueue(p, k, s)' = InQueue(p, k, s)
      BY <1>2, <1>3, RouteFixed DEF Received, InQueue
    <3>4. \A s \in Rdma : \A i : Earlier(InQueue(p, k, s), i)' = Earlier(InQueue(p, k, s), i)
      BY <3>3 DEF Earlier
    <3>. QED
      BY <1>2, <1>3, <2>2, <3>1, <3>2, <3>3, <3>4, RouteFixed DEF QueueOK
  <2>. QED
    BY <2>1, <2>2
<1>. QED
  BY <1>6, <1>7, <1>8, <1>9, <1>10, <1>11, <1>12 DEF IInv

\* A credit never passes the published head of a forwarder at work.
LEMMA CreditOK ==
  ASSUME IInv, NEW e \in Rdma, NEW p \in Rdma, Credit(e, p)
  PROVE  IInv'
<1>1. PICK head \in MinHead(e, p) :
        /\ head >= credited[<<p, e>>] + RdmaSend
        /\ credited' = [credited EXCEPT ![<<p, e>>] = head]
        /\ UNCHANGED <<route, meta, recvBuf, rdmaHead, warpVars, coordVars, fwdVars, recvVars>>
  BY DEF Credit
<1>2. UNCHANGED <<route, meta, recvBuf, rdmaHead, warpVars, coordVars, fwdVars, recvVars>>
  BY <1>1
<1>. USE DEF warpVars, coordVars, fwdVars, recvVars
<1>3. route' = route /\ route \in Routings /\ Typed /\ RdmaSend \in Nat
  BY <1>2, Numbers DEF IInv, Typed
<1>4. PICK k \in Working(e) : /\ head = fwdHead[<<e, k>>][p]
                              /\ \A i \in Working(e) : fwdHead[<<e, k>>][p] <= fwdHead[<<e, i>>][p]
  BY DEF MinHead
<1>5. k \in Nvl /\ fPc[<<e, k>>] # "retired"
  BY DEF Working
<1>6. /\ head \in Nat /\ credited[<<p, e>>] \in Nat /\ rdmaHead[<<p, e>>] \in Nat
      /\ rdmaHead[<<p, e>>] <= head /\ head <= rdmaTail[<<p, e>>]
  <2>1. ForwarderOK(e, k, p) /\ RingOK(p, e)
    BY <1>5 DEF IInv
  <2>2. /\ fHead[<<e, k>>] \in [Rdma -> Nat] /\ fTail[<<e, k>>] \in [Rdma -> Nat]
        /\ fwdHead[<<e, k>>] \in [Rdma -> Nat]
        /\ rdmaTail[<<p, e>>] \in Nat /\ rdmaHead[<<p, e>>] \in Nat /\ credited[<<p, e>>] \in Nat
    BY <1>3, <1>5, SourceTypes, RankTypes
  <2>3. /\ head <= fHead[<<e, k>>][p] /\ fHead[<<e, k>>][p] <= fTail[<<e, k>>][p]
        /\ fTail[<<e, k>>][p] <= rdmaTail[<<p, e>>] /\ rdmaHead[<<p, e>>] <= credited[<<p, e>>]
    BY <1>4, <2>1 DEF ForwarderOK, RingOK
  <2>4. head \in Nat /\ fTail[<<e, k>>][p] \in Nat /\ fHead[<<e, k>>][p] \in Nat
    BY <1>4, <2>2
  <2>. QED
    BY <1>1, <1>3, <2>2, <2>3, <2>4
<1>7. /\ credited'[<<p, e>>] = head
      /\ \A s, d \in Rdma : s # p \/ d # e => credited'[<<s, d>>] = credited[<<s, d>>]
  BY <1>1, <1>3 DEF Typed
<1>8. Typed'
  <2>1. credited' \in [Rdma \X Rdma -> Nat]
    BY <1>1, <1>3, <1>6 DEF Typed
  <2>2. \A q \in Rdma \X Rdma : sendHead'[q] \in [First(q[1])' .. Past(q[1])' - 1 -> Int]
    BY <1>2, <1>3, RouteFixed DEF Typed
  <2>. QED
    BY <1>2, <1>3, <2>1, <2>2 DEF Typed
<1>9. \A s \in Rdma : WarpsOK(s)'
  BY <1>2, <1>3, WarpsKept DEF IInv
<1>10. \A s, d \in Rdma : TailsOK(s, d)' /\ MetaOK(s, d)' /\ SentSlotsOK(s, d)' /\ ArrivedSlotsOK(s, d)'
  BY <1>2, <1>3, TailsKept, MetaKept, SentKept, ArrivedKept DEF IInv
<1>11. ASSUME NEW s \in Rdma, NEW d \in Rdma PROVE RingOK(s, d)'
  <2>1. RingOK(s, d)
    BY DEF IInv
  <2>2. CASE s # p \/ d # e
    BY <1>2, <1>7, <2>1, <2>2, RingKept
  <2>3. CASE s = p /\ d = e
    BY <1>2, <1>6, <1>7, <2>1, <2>3 DEF RingOK
  <2>. QED
    BY <2>2, <2>3
<1>12. ASSUME NEW d \in Rdma, NEW j \in Nvl, NEW s \in Rdma PROVE ForwarderOK(d, j, s)'
  <2>1. CASE s # p \/ d # e
    BY <1>2, <1>3, <1>7, <2>1, ForwarderKept DEF IInv
  <2>2. CASE s = p /\ d = e
    <3>1. ForwarderOK(e, j, p)
      BY DEF IInv
    <3>2. fPc[<<e, j>>] # "retired" => credited'[<<p, e>>] <= fwdHead[<<e, j>>][p]
      BY <1>4, <1>7 DEF Working
    <3>. QED
      BY <1>2, <1>3, <2>2, <3>1, <3>2, RouteFixed DEF ForwarderOK, Encode
  <2>. QED
    BY <2>1, <2>2
<1>13. \A d \in Rdma, j \in Nvl : HeadsOK(d, j)' /\ QueueOK(d, j)' /\ ReceiverOK(d, j)'
  BY <1>2, <1>3, HeadsKept, QueueKept, ReceiverKept DEF IInv
<1>. QED
  BY <1>8, <1>9, <1>10, <1>11, <1>12, <1>13 DEF IInv

LEMMA HeadArrivesOK ==
  ASSUME IInv, NEW e \in Rdma, NEW p \in Rdma, HeadArrives(e, p)
  PROVE  IInv'
<1>1. /\ rdmaHead[<<p, e>>] < credited[<<p, e>>]
      /\ rdmaHead' = [rdmaHead EXCEPT ![<<p, e>>] = credited[<<p, e>>]]
  BY DEF HeadArrives
<1>2. UNCHANGED <<route, meta, recvBuf, credited, warpVars, coordVars, fwdVars, recvVars>>
  BY DEF HeadArrives
<1>. USE DEF warpVars, coordVars, fwdVars, recvVars
<1>3. route' = route /\ route \in Routings /\ Typed /\ RdmaRecv \in Nat
  BY <1>2, Numbers DEF IInv, Typed
<1>4. /\ rdmaHead'[<<p, e>>] = credited[<<p, e>>]
      /\ \A s, d \in Rdma : s # p \/ d # e => rdmaHead'[<<s, d>>] = rdmaHead[<<s, d>>]
  BY <1>1, <1>3 DEF Typed
<1>5. Typed'
  <2>1. rdmaHead' \in [Rdma \X Rdma -> Nat]
    <3>1. credited[<<p, e>>] \in Nat
      BY <1>3, SourceTypes
    <3>. QED
      BY <1>1, <1>3, <3>1 DEF Typed
  <2>2. \A q \in Rdma \X Rdma : sendHead'[q] \in [First(q[1])' .. Past(q[1])' - 1 -> Int]
    BY <1>2, <1>3, RouteFixed DEF Typed
  <2>. QED
    BY <1>2, <1>3, <2>1, <2>2 DEF Typed
<1>6. ASSUME NEW s \in Rdma, NEW d \in Rdma
      PROVE  rdmaHead[<<s, d>>] <= rdmaHead'[<<s, d>>]
             /\ rdmaHead[<<s, d>>] \in Nat /\ rdmaHead'[<<s, d>>] \in Nat
  <2>1. rdmaHead[<<s, d>>] \in Nat /\ credited[<<s, d>>] \in Nat
    BY <1>3, SourceTypes
  <2>2. CASE s = p /\ d = e
    BY <1>1, <1>4, <2>1, <2>2
  <2>3. CASE s # p \/ d # e
    BY <1>4, <2>1, <2>3
  <2>. QED
    BY <2>2, <2>3
<1>7. \A s \in Rdma : WarpsOK(s)'
  BY <1>2, <1>3, WarpsKept DEF IInv
<1>8. \A s, d \in Rdma : TailsOK(s, d)' /\ MetaOK(s, d)'
  BY <1>2, <1>3, TailsKept, MetaKept DEF IInv
<1>9. ASSUME NEW s \in Rdma, NEW d \in Rdma PROVE RingOK(s, d)'
  <2>1. RingOK(s, d)
    BY DEF IInv
  <2>2. CASE s # p \/ d # e
    BY <1>2, <1>4, <2>1, <2>2, RingKept
  <2>3. CASE s = p /\ d = e
    <3>1. nextTail[<<p, e>>] \in Nat /\ rdmaHead[<<p, e>>] \in Nat /\ credited[<<p, e>>] \in Nat
      BY <1>3, SourceTypes
    <3>2. nextTail[<<p, e>>] <= credited[<<p, e>>] + RdmaRecv
      BY <1>1, <1>3, <2>1, <2>3, <3>1 DEF RingOK
    <3>3. credited[<<p, e>>] <= credited[<<p, e>>]
      BY <3>1
    <3>. QED
      BY <1>2, <1>4, <2>1, <2>3, <3>2, <3>3 DEF RingOK
  <2>. QED
    BY <2>2, <2>3
<1>10. ASSUME NEW s \in Rdma, NEW d \in Rdma PROVE SentSlotsOK(s, d)' /\ ArrivedSlotsOK(s, d)'
  <2>1. /\ SentSlotsOK(s, d) /\ ArrivedSlotsOK(s, d)
        /\ Arrived(s, d)' = Arrived(s, d) /\ \A u : Copying(s, u)' <=> Copying(s, u)
        /\ lock'[s] = lock[s] /\ recvBuf' = recvBuf /\ sendBuf' = sendBuf
    BY <1>2 DEF IInv, Arrived, Copying
  <2>2. \A u \in Flow(s, d) : rdmaHead'[<<s, d>>] <= Place(s, d, u) =>
                                rdmaHead[<<s, d>>] <= Place(s, d, u)
    <3>. SUFFICES ASSUME NEW u \in Flow(s, d), rdmaHead'[<<s, d>>] <= Place(s, d, u)
                  PROVE  rdmaHead[<<s, d>>] <= Place(s, d, u)
      OBVIOUS
    <3>1. u \in Int
      BY <1>3, FlowIs
    <3>2. Place(s, d, u) \in Nat
      BY <1>3, <3>1, PlaceIs
    <3>. QED
      BY <1>6, <3>2
  <2>3. SentSlotsOK(s, d)'
    BY <1>3, <2>1, <2>2, RouteFixed DEF SentSlotsOK
  <2>4. ArrivedSlotsOK(s, d)'
    BY <1>3, <2>1, <2>2, RouteFixed DEF ArrivedSlotsOK
  <2>. QED
    BY <2>3, <2>4
<1>11. \A d \in Rdma, j \in Nvl : \A s \in Rdma : ForwarderOK(d, j, s)'
  BY <1>2, <1>3, ForwarderKept DEF IInv
<1>12. \A d \in Rdma, j \in Nvl : HeadsOK(d, j)' /\ QueueOK(d, j)' /\ ReceiverOK(d, j)'
  BY <1>2, <1>3, HeadsKept, QueueKept, ReceiverKept DEF IInv
<1>. QED
  BY <1>5, <1>7, <1>8, <1>9, <1>10, <1>11, <1>12 DEF IInv

\* What a forwarder at work reads is there.
LEMMA ReadSlot ==
  ASSUME IInv, NEW s \in Rdma, NEW d \in Rdma, NEW u \in Flow(s, d),
         rdmaHead[<<s, d>>] <= Place(s, d, u), Place(s, d, u) < rdmaTail[<<s, d>>]
  PROVE  recvBuf[<<s, d>>][Place(s, d, u) % RdmaRecv] = u
<1>1. /\ SentSlotsOK(s, d) /\ ArrivedSlotsOK(s, d) /\ RingOK(s, d) /\ Typed /\ route \in Routings
  BY DEF IInv, Typed
<1>2. /\ issued[<<s, d>>] \in Nat /\ sendTail[<<s, d>>] \in Nat
      /\ issued[<<s, d>>] <= sendTail[<<s, d>>]
      /\ rdmaTail[<<s, d>>] \in Nat /\ rdmaTail[<<s, d>>] <= issued[<<s, d>>]
      /\ \A v \in Flow(s, d) : Place(s, d, v) < sendTail[<<s, d>>] => v < lock[s] /\ ~ Copying(s, v)
  BY <1>1, TailsInOrder, SourceTypes DEF RingOK
<1>3. Place(s, d, u) \in Nat
  <2>1. u \in Int
    BY <1>1, FlowIs
  <2>. QED
    BY <1>1, <2>1, PlaceIs
<1>4. CASE s = d
  <2>1. Place(s, d, u) < sendTail[<<s, d>>]
    BY <1>2, <1>3
  <2>2. u < lock[s] /\ ~ Copying(s, u)
    BY <1>2, <2>1
  <2>. QED
    BY <1>1, <1>4, <2>2 DEF SentSlotsOK
<1>5. CASE s # d
  <2>1. issued[<<s, d>>] <= Arrived(s, d) /\ Arrived(s, d) \in Nat
    <3>1. put[s] # <<>> => put[s][2] \in Nat
      BY <1>1, SourceTypes
    <3>. QED
      BY <1>2, <3>1 DEF Arrived
  <2>2. Place(s, d, u) < Arrived(s, d)
    BY <1>2, <1>3, <2>1
  <2>. QED
    BY <1>1, <1>5, <2>2 DEF ArrivedSlotsOK
<1>. QED
  BY <1>4, <1>5

Mine(d, j, s) == {i \in ForMe(d, j, s) : i < BatchEnd(d, j, s)}

\* The tail a forwarder goes by is behind the ring's, and what is for it up to
\* there are the places of its tokens.
LEMMA ForMeIs ==
  ASSUME IInv, NEW d \in Rdma, NEW j \in Nvl, NEW s \in Rdma, fPc[<<d, j>>] # "retired"
  PROVE  /\ fHead[<<d, j>>][s] \in Nat /\ SeenTail(d, j, s) \in Nat /\ rdmaTail[<<s, d>>] \in Nat
         /\ fHead[<<d, j>>][s] <= SeenTail(d, j, s) /\ SeenTail(d, j, s) <= rdmaTail[<<s, d>>]
         /\ rdmaHead[<<s, d>>] \in Nat /\ rdmaHead[<<s, d>>] <= fHead[<<d, j>>][s]
         /\ rdmaTail[<<s, d>>] <= Cardinality(Flow(s, d))
         /\ ForMe(d, j, s) = PlacesFor(s, d, j, fHead[<<d, j>>][s], SeenTail(d, j, s))
         /\ \A i \in fHead[<<d, j>>][s] .. SeenTail(d, j, s) - 1 :
              \E u \in Flow(s, d) : Place(s, d, u) = i /\ recvBuf[<<s, d>>][i % RdmaRecv] = u
<1>. DEFINE h == fHead[<<d, j>>][s]
            e == SeenTail(d, j, s)
<1>1. /\ Typed /\ route \in Routings /\ ForwarderOK(d, j, s) /\ RingOK(s, d)
  BY DEF IInv, Typed
<1>2. /\ h \in Nat /\ fTail[<<d, j>>][s] \in Nat /\ rdmaTail[<<s, d>>] \in Nat
      /\ rdmaHead[<<s, d>>] \in Nat /\ credited[<<s, d>>] \in Nat /\ fwdHead[<<d, j>>][s] \in Nat
  <2>1. /\ fHead[<<d, j>>] \in [Rdma -> Nat] /\ fTail[<<d, j>>] \in [Rdma -> Nat]
        /\ fwdHead[<<d, j>>] \in [Rdma -> Nat]
    BY <1>1, RankTypes
  <2>2. rdmaTail[<<s, d>>] \in Nat /\ rdmaHead[<<s, d>>] \in Nat /\ credited[<<s, d>>] \in Nat
    BY <1>1, SourceTypes
  <2>. QED
    BY <2>1, <2>2
<1>3. /\ h <= fTail[<<d, j>>][s] /\ fTail[<<d, j>>][s] <= rdmaTail[<<s, d>>]
      /\ rdmaHead[<<s, d>>] <= h
  <2>1. /\ h <= fTail[<<d, j>>][s] /\ fTail[<<d, j>>][s] <= rdmaTail[<<s, d>>]
        /\ rdmaHead[<<s, d>>] <= credited[<<s, d>>] /\ credited[<<s, d>>] <= fwdHead[<<d, j>>][s]
        /\ fwdHead[<<d, j>>][s] <= h
    BY <1>1 DEF ForwarderOK, RingOK
  <2>. HIDE DEF h
  <2>. QED
    BY <1>2, <2>1
<1>4. e \in Nat /\ h <= e /\ e <= rdmaTail[<<s, d>>]
  BY <1>2, <1>3 DEF SeenTail
<1>5. rdmaTail[<<s, d>>] <= Cardinality(Flow(s, d)) /\ Cardinality(Flow(s, d)) \in Nat
  <2>1. /\ issued[<<s, d>>] \in Nat /\ sendTail[<<s, d>>] \in Nat /\ nextTail[<<s, d>>] \in Nat
        /\ issued[<<s, d>>] <= sendTail[<<s, d>>] /\ sendTail[<<s, d>>] <= nextTail[<<s, d>>]
        /\ nextTail[<<s, d>>] <= Cardinality(Flow(s, d)) /\ rdmaTail[<<s, d>>] <= issued[<<s, d>>]
    BY <1>1, TailsInOrder DEF RingOK
  <2>2. Cardinality(Flow(s, d)) \in Nat
    BY <1>1, FlowIs
  <2>. QED
    BY <1>2, <2>1, <2>2
<1>. HIDE DEF h, e
<1>6. ASSUME NEW i \in h .. e - 1
      PROVE  \E u \in Flow(s, d) : Place(s, d, u) = i /\ recvBuf[<<s, d>>][i % RdmaRecv] = u
  <2>1. i \in Nat /\ h <= i /\ i < e
    BY <1>2, <1>4
  <2>2. i < Cardinality(Flow(s, d)) /\ rdmaHead[<<s, d>>] <= i /\ i < rdmaTail[<<s, d>>]
    BY <1>2, <1>3, <1>4, <1>5, <2>1
  <2>3. PICK u \in Flow(s, d) : Place(s, d, u) = i
    BY <1>1, <2>1, <2>2, PlaceTaken
  <2>4. recvBuf[<<s, d>>][Place(s, d, u) % RdmaRecv] = u
    BY <2>2, <2>3, ReadSlot
  <2>. QED
    BY <2>3, <2>4
<1>7. ForMe(d, j, s) = PlacesFor(s, d, j, h, e)
  <2>1. ASSUME NEW i \in h .. e - 1
        PROVE  <<d, j>> \in Ranks(s, recvBuf[<<s, d>>][i % RdmaRecv])
                 <=> \E u \in FlowTo(s, d, j) : Place(s, d, u) = i
    <3>1. PICK u \in Flow(s, d) : Place(s, d, u) = i /\ recvBuf[<<s, d>>][i % RdmaRecv] = u
      BY <1>6
    <3>2. u \in FlowTo(s, d, j) <=> <<d, j>> \in Ranks(s, u)
      BY <1>1, FlowIs
    <3>3. \A v \in FlowTo(s, d, j) : Place(s, d, v) = i => v = u
      <4>1. \A v \in FlowTo(s, d, j) : v \in Flow(s, d) /\ u \in Int
        BY <1>1, FlowIs
      <4>. QED
        BY <1>1, <3>1, <4>1, PlaceIs
    <3>. QED
      BY <3>1, <3>2, <3>3
  <2>2. ForMe(d, j, s) = {i \in h .. e - 1 : <<d, j>> \in Ranks(s, recvBuf[<<s, d>>][i % RdmaRecv])}
    BY DEF ForMe, h, e
  <2>. QED
    BY <2>1, <2>2 DEF PlacesFor
<1>. QED
  BY <1>2, <1>3, <1>4, <1>5, <1>6, <1>7 DEF h, e

\* A batch: at least one place of the flow, and at most NvlSend tokens for j.
LEMMA BatchIs ==
  ASSUME IInv, NEW d \in Rdma, NEW j \in Nvl, NEW s \in Rdma, fPc[<<d, j>>] # "retired",
         SeenTail(d, j, s) > fHead[<<d, j>>][s]
  PROVE  /\ fHead[<<d, j>>][s] \in Nat /\ BatchEnd(d, j, s) \in Nat
         /\ fHead[<<d, j>>][s] < BatchEnd(d, j, s) /\ BatchEnd(d, j, s) <= SeenTail(d, j, s)
         /\ Mine(d, j, s) = PlacesFor(s, d, j, fHead[<<d, j>>][s], BatchEnd(d, j, s))
         /\ Mine(d, j, s) \in SUBSET (fHead[<<d, j>>][s] .. BatchEnd(d, j, s) - 1)
         /\ Mine(d, j, s) \in SUBSET Int /\ IsFiniteSet(Mine(d, j, s))
         /\ Cardinality(Mine(d, j, s)) \in Nat /\ Cardinality(Mine(d, j, s)) <= NvlSend
         /\ \A i \in fHead[<<d, j>>][s] .. BatchEnd(d, j, s) - 1 :
              \E u \in Flow(s, d) : Place(s, d, u) = i /\ recvBuf[<<s, d>>][i % RdmaRecv] = u
<1>. DEFINE h == fHead[<<d, j>>][s]
            t == SeenTail(d, j, s)
            e == BatchEnd(d, j, s)
            A == ForMe(d, j, s)
            L == {i \in A : Earlier(A, i) = NvlSend - 1}
<1>1. /\ h \in Nat /\ t \in Nat /\ h < t /\ route \in Routings
      /\ A = PlacesFor(s, d, j, h, t)
      /\ \A i \in h .. t - 1 :
           \E u \in Flow(s, d) : Place(s, d, u) = i /\ recvBuf[<<s, d>>][i % RdmaRecv] = u
  <2>1. route \in Routings
    BY DEF IInv, Typed
  <2>2. h \in Nat /\ t \in Nat /\ h < t
    BY ForMeIs
  <2>. QED
    BY <2>1, <2>2, ForMeIs
<1>2. e = IF L = {} THEN t ELSE 1 + CHOOSE i \in L : TRUE
  BY DEF BatchEnd
<1>3. Mine(d, j, s) = {i \in A : i < e}
  BY DEF Mine
<1>. HIDE DEF h, t, e, A
<1>4. A \in SUBSET Int /\ IsFiniteSet(A) /\ \A i \in A : h <= i /\ i < t
  <2>1. h <= t
    BY <1>1
  <2>2. A \in SUBSET Int /\ IsFiniteSet(A)
    BY <1>1, <2>1, PlacesForCounted
  <2>3. \A i \in A : i \in h .. t - 1
    BY <1>1 DEF PlacesFor
  <2>. QED
    BY <1>1, <2>2, <2>3
<1>5. NvlSend \in Nat \ {0}
  BY Numbers
<1>6. e \in Nat /\ h < e /\ e <= t /\ Cardinality({x \in A : x < e}) <= NvlSend
  <2>1. CASE L = {}
    <3>1. e = t
      BY <1>2, <2>1
    <3>2. {x \in A : x < e} = A
      BY <1>4, <3>1
    <3>3. Cardinality(A) < NvlSend /\ Cardinality(A) \in Nat
      BY <1>4, <1>5, <2>1, FewTokens, FS_CardinalityType
    <3>4. Cardinality({x \in A : x < e}) <= NvlSend
      BY <1>5, <3>2, <3>3
    <3>. QED
      BY <1>1, <3>1, <3>4
  <2>2. CASE L # {}
    <3>1. PICK i \in L : e = 1 + i
      BY <1>2, <2>2
    <3>2. i \in A /\ Earlier(A, i) = NvlSend - 1 /\ i \in Int
      BY <1>4
    <3>3. Cardinality({x \in A : x < i + 1}) = NvlSend
      BY <1>4, <1>5, <3>2, BatchStops
    <3>4. h <= i /\ i < t
      BY <1>4, <3>2
    <3>5. e = i + 1 /\ e \in Nat /\ h < e /\ e <= t
      BY <1>1, <3>1, <3>2, <3>4
    <3>6. {x \in A : x < e} = {x \in A : x < i + 1}
      BY <3>5
    <3>7. Cardinality({x \in A : x < e}) = NvlSend
      BY <3>3, <3>6
    <3>. QED
      BY <1>5, <3>5, <3>7
  <2>. QED
    BY <2>1, <2>2
<1>. HIDE DEF L
<1>7. Mine(d, j, s) = PlacesFor(s, d, j, h, e)
  <2>1. \A i : i \in h .. t - 1 /\ i < e <=> i \in h .. e - 1
    BY <1>1, <1>6
  <2>. QED
    BY <1>1, <1>3, <2>1 DEF PlacesFor
<1>8. /\ Mine(d, j, s) \in SUBSET Int /\ IsFiniteSet(Mine(d, j, s))
      /\ Cardinality(Mine(d, j, s)) \in Nat
  <2>1. h <= e
    BY <1>1, <1>6
  <2>2. /\ PlacesFor(s, d, j, h, e) \in SUBSET Int /\ IsFiniteSet(PlacesFor(s, d, j, h, e))
        /\ Cardinality(PlacesFor(s, d, j, h, e)) \in Nat
    BY <1>1, <1>6, <2>1, PlacesForCounted
  <2>. QED
    BY <1>7, <2>2
<1>9. Mine(d, j, s) \in SUBSET (h .. e - 1)
  BY <1>7 DEF PlacesFor
<1>10. \A i \in h .. e - 1 : i \in h .. t - 1
  BY <1>1, <1>6
<1>. QED
  BY <1>1, <1>3, <1>6, <1>7, <1>8, <1>9, <1>10 DEF h, t, e

\* A queue of places to which some are added at the end.
LEMMA QueueGrows ==
  ASSUME NEW A \in SUBSET Int, IsFiniteSet(A), NEW t \in Nat, \A k \in A : k < t, NEW m \in Nat
  PROVE  LET B == A \cup (t .. t + m - 1) IN
         /\ Cardinality(B) = Cardinality(A) + m
         /\ \A q \in A : Earlier(B, q) = Earlier(A, q)
         /\ \A n \in Nat : n < m => Earlier(B, t + n) = Cardinality(A) + n
<1>. DEFINE B == A \cup (t .. t + m - 1)
<1>1. ASSUME NEW n \in Nat
      PROVE  /\ IsFiniteSet(A \cup (t .. t + n - 1))
             /\ Cardinality(A \cup (t .. t + n - 1)) = Cardinality(A) + n
  <2>. DEFINE b == t + n
              C == t .. b - 1
  <2>1. b \in Int /\ t \in Int /\ t <= b /\ b - t = n
    OBVIOUS
  <2>. HIDE DEF b
  <2>2. IsFiniteSet(C) /\ Cardinality(C) = n
    BY <2>1, IntervalSize
  <2>3. A \cap C = {}
    <3>1. \A k \in C : t <= k /\ k \in Int
      BY <2>1
    <3>2. \A k \in A : k < t /\ k \in Int
      OBVIOUS
    <3>. HIDE DEF C
    <3>3. \A k : ~ (k \in A /\ k \in C)
      BY <3>1, <3>2
    <3>. QED
      BY <3>3
  <2>. HIDE DEF C
  <2>4. /\ IsFiniteSet(A \cup C)
        /\ Cardinality(A \cup C) = Cardinality(A) + Cardinality(C) - Cardinality(A \cap C)
    BY <2>2, FS_Union
  <2>5. Cardinality(A \cap C) = 0 /\ Cardinality(A) \in Nat
    BY <2>3, FS_EmptySet, FS_CardinalityType
  <2>6. Cardinality(A \cup C) = Cardinality(A) + n
    BY <2>2, <2>4, <2>5
  <2>. QED
    BY <2>4, <2>6 DEF C, b
<1>2. Cardinality(B) = Cardinality(A) + m
  BY <1>1
<1>3. ASSUME NEW q \in A PROVE Earlier(B, q) = Earlier(A, q)
  <2>1. \A k : k < q => (k \in A <=> k \in B)
    <3>. SUFFICES ASSUME NEW k, k < q, k \in t .. t + m - 1 PROVE FALSE
      OBVIOUS
    <3>1. q < t /\ q \in Int /\ k \in Int /\ t <= k
      OBVIOUS
    <3>. QED
      BY <3>1
  <2>. HIDE DEF B
  <2>. QED
    BY <2>1, EarlierSame
<1>4. ASSUME NEW n \in Nat, n < m PROVE Earlier(B, t + n) = Cardinality(A) + n
  <2>1. {k \in B : k < t + n} = A \cup (t .. t + n - 1)
    <3>1. \A k : k \in t .. t + m - 1 /\ k < t + n <=> k \in t .. t + n - 1
      BY <1>4
    <3>2. \A k \in A : k < t + n
      <4>. SUFFICES ASSUME NEW k \in A PROVE k < t + n
        OBVIOUS
      <4>1. k < t /\ k \in Int
        OBVIOUS
      <4>. QED
        BY <4>1
    <3>. QED
      BY <3>1, <3>2
  <2>. QED
    BY <1>1, <2>1 DEF Earlier
<1>. QED
  BY <1>2, <1>3, <1>4

\* The entries a batch appends to a queue: each token at its own place.
LEMMA BatchWritten ==
  ASSUME IInv, NEW d \in Rdma, NEW j \in Nvl, NEW s \in Rdma, CopyBatch(d, j, s)
  PROVE  LET m == Cardinality(Mine(d, j, s))
             t == fNvlTail[<<d, j>>]
         IN  /\ m \in Nat /\ t + m <= nvlHead[<<d, j>>] + NvlRecv
             /\ fNvlTail'[<<d, j>>] = t + m
             /\ nvlBuf'[<<d, j>>] \in [0 .. NvlRecv - 1 -> Int \X Int]
             /\ \A q \in nvlHead[<<d, j>>] .. t - 1 :
                  nvlBuf'[<<d, j>>][q % NvlRecv] = nvlBuf[<<d, j>>][q % NvlRecv]
             /\ \A n \in Nat : n < m =>
                  \E u \in FlowTo(s, d, j) :
                    /\ nvlBuf'[<<d, j>>][(t + n) % NvlRecv] = <<s, u>>
                    /\ RankPlace(s, d, j, u) = fIdx[<<d, j>>][s] + n
<1>. DEFINE A == Mine(d, j, s)
            m == Cardinality(A)
            t == fNvlTail[<<d, j>>]
            h == fHead[<<d, j>>][s]
            e == BatchEnd(d, j, s)
            b == nvlHead[<<d, j>>]
            At(i) == (t + Earlier(A, i)) % NvlRecv
            ring == recvBuf[<<s, d>>]
            old == nvlBuf[<<d, j>>]
            new == nvlBuf'[<<d, j>>]
<1>1. /\ Typed /\ route \in Routings /\ ForwarderOK(d, j, s) /\ QueueOK(d, j)
  BY DEF IInv, Typed
<1>2. /\ fPc[<<d, j>>] = "run" /\ NvlRoom(d, j) /\ SeenTail(d, j, s) > h
      /\ nvlBuf' = [nvlBuf EXCEPT ![<<d, j>>] =
           [x \in DOMAIN @ |-> IF \E i \in A : At(i) = x
                               THEN <<s, ring[(CHOOSE i \in A : At(i) = x) % RdmaRecv]>>
                               ELSE @[x]]]
      /\ fNvlTail' = [fNvlTail EXCEPT ![<<d, j>>] = @ + m]
  BY DEF CopyBatch, Mine
<1>3. t \in Nat /\ b \in Nat /\ old \in [0 .. NvlRecv - 1 -> Int \X Int] /\ fIdx[<<d, j>>][s] \in Nat
      /\ ring \in [0 .. RdmaRecv - 1 -> Int] /\ <<d, j>> \in Rdma \X Nvl
  <2>1. /\ t \in Nat /\ b \in Nat /\ old \in [0 .. NvlRecv - 1 -> Int \X Int]
        /\ fIdx[<<d, j>>] \in [Rdma -> Nat] /\ <<d, j>> \in Rdma \X Nvl
    BY <1>1, RankTypes
  <2>2. ring \in [0 .. RdmaRecv - 1 -> Int]
    BY <1>1, SourceTypes
  <2>. QED
    BY <2>1, <2>2
<1>4. /\ h \in Nat /\ e \in Nat /\ h < e /\ A = PlacesFor(s, d, j, h, e)
      /\ A \in SUBSET (h .. e - 1) /\ A \in SUBSET Int /\ IsFiniteSet(A)
      /\ m \in Nat /\ m <= NvlSend
      /\ \A i \in h .. e - 1 : \E u \in Flow(s, d) : Place(s, d, u) = i /\ ring[i % RdmaRecv] = u
  BY <1>2, BatchIs
<1>5. NvlRecv \in Nat \ {0} /\ NvlSend \in Nat /\ RdmaRecv \in Nat \ {0}
  BY Numbers
<1>6. /\ fNvlTail'[<<d, j>>] = t + m
      /\ new = [x \in 0 .. NvlRecv - 1 |->
                  IF \E i \in A : At(i) = x
                  THEN <<s, ring[(CHOOSE i \in A : At(i) = x) % RdmaRecv]>> ELSE old[x]]
  <2>1. DOMAIN old = 0 .. NvlRecv - 1
    BY <1>3
  <2>2. nvlBuf \in [Rdma \X Nvl -> [0 .. NvlRecv - 1 -> Int \X Int]] /\ fNvlTail \in [Rdma \X Nvl -> Nat]
    BY <1>1 DEF Typed
  <2>. HIDE DEF A, m, At, ring
  <2>. QED
    BY <1>2, <1>3, <2>1, <2>2
<1>. HIDE DEF new, old, ring, e, h, A, b, t
<1>7. b <= t /\ t + m <= b + NvlRecv
  <2>1. b <= t
    <3>1. rHead[<<d, j>>] \in Nat /\ nvlTail[<<d, j>>] \in Nat
      BY <1>1, RankTypes
    <3>2. b <= rHead[<<d, j>>] /\ rHead[<<d, j>>] <= nvlTail[<<d, j>>] /\ nvlTail[<<d, j>>] <= t
      BY <1>1 DEF QueueOK, b, t
    <3>. QED
      BY <1>3, <3>1, <3>2
  <2>2. NvlRecv - (t - b) >= NvlSend
    BY <1>2 DEF NvlRoom, b, t
  <2>. QED
    BY <1>3, <1>4, <1>5, <2>1, <2>2, SMTT(30)
<1>70. \A n \in Nat : n < m => t + n \in Nat /\ t <= t + n /\ b <= t + n /\ t + n < b + NvlRecv
  <2>1. m \in Nat /\ NvlRecv \in Nat
    BY <1>4, <1>5
  <2>. HIDE DEF m
  <2>. QED
    BY <1>3, <1>7, <2>1
<1>8. \A i \in A : /\ Earlier(A, i) \in Nat /\ Earlier(A, i) < m /\ i \in Int
                   /\ At(i) \in 0 .. NvlRecv - 1
  <2>. SUFFICES ASSUME NEW i \in A
                PROVE  /\ Earlier(A, i) \in Nat /\ Earlier(A, i) < m /\ i \in Int
                       /\ At(i) \in 0 .. NvlRecv - 1
    OBVIOUS
  <2>1. Earlier(A, i) \in Nat /\ Earlier(A, i) < m /\ i \in Int
    BY <1>4, EarlierIsNat, EarlierEnds
  <2>2. t + Earlier(A, i) \in Nat
    BY <1>3, <2>1
  <2>. QED
    BY <1>5, <2>1, <2>2
<1>9. \A i, k \in A : At(i) = At(k) => i = k
  <2>. SUFFICES ASSUME NEW i \in A, NEW k \in A, i # k PROVE At(i) # At(k)
    OBVIOUS
  <2>. DEFINE x == t + Earlier(A, i)
              y == t + Earlier(A, k)
  <2>1. Earlier(A, i) # Earlier(A, k)
    BY <1>4, <1>8, EarlierTells
  <2>2. /\ Earlier(A, i) \in Nat /\ Earlier(A, i) < m /\ Earlier(A, k) \in Nat /\ Earlier(A, k) < m
    BY <1>8
  <2>3. x \in Nat /\ y \in Nat /\ x # y /\ b <= x /\ x < b + NvlRecv /\ b <= y /\ y < b + NvlRecv
    <3>1. t \in Nat
      BY <1>3
    <3>. QED
      BY <1>70, <2>1, <2>2, <3>1
  <2>. HIDE DEF x, y
  <2>4. x % NvlRecv # y % NvlRecv
    BY <1>3, <1>5, <2>3, SlotsApart
  <2>. QED
    BY <2>4 DEF x, y
<1>10. ASSUME NEW i \in A
       PROVE  \E u \in FlowTo(s, d, j) :
                /\ Place(s, d, u) = i /\ ring[i % RdmaRecv] = u
                /\ RankPlace(s, d, j, u) = fIdx[<<d, j>>][s] + Earlier(A, i)
  <2>1. i \in h .. e - 1 /\ \E u \in FlowTo(s, d, j) : Place(s, d, u) = i
    BY <1>4 DEF PlacesFor
  <2>2. PICK u \in FlowTo(s, d, j) : Place(s, d, u) = i
    BY <2>1
  <2>3. ring[i % RdmaRecv] = u
    <3>1. PICK v \in Flow(s, d) : Place(s, d, v) = i /\ ring[i % RdmaRecv] = v
      BY <1>4, <2>1
    <3>2. u \in Flow(s, d) /\ u \in Int
      BY <1>1, FlowIs
    <3>3. v = u
      BY <1>1, <2>2, <3>1, <3>2, PlaceIs
    <3>. QED
      BY <3>1, <3>3
  <2>4. RankPlace(s, d, j, u) = Cardinality(Passed(s, d, j, h)) + Earlier(A, i)
    <3>1. h <= Place(s, d, u) /\ Place(s, d, u) < e /\ h <= e
      BY <1>4, <2>1, <2>2
    <3>2. RankPlace(s, d, j, u) = Cardinality(Passed(s, d, j, h))
              + Earlier(PlacesFor(s, d, j, h, e), Place(s, d, u))
      BY <1>1, <1>4, <3>1, BatchPlace
    <3>. QED
      BY <1>4, <2>2, <3>2
  <2>5. fIdx[<<d, j>>][s] = Cardinality(Passed(s, d, j, h))
    BY <1>1 DEF ForwarderOK, h
  <2>. QED
    BY <2>2, <2>3, <2>4, <2>5
<1>11. ASSUME NEW i \in A PROVE new[At(i)] = <<s, ring[i % RdmaRecv]>>
  <2>. DEFINE x == At(i)
  <2>1. x \in 0 .. NvlRecv - 1
    BY <1>8
  <2>2. (CHOOSE k \in A : At(k) = x) = i
    <3>1. \A k \in A : At(k) = x => k = i
      BY <1>9
    <3>. HIDE DEF At
    <3>. QED
      BY <3>1
  <2>3. \E k \in A : At(k) = x
    OBVIOUS
  <2>. HIDE DEF At
  <2>. QED
    BY <1>6, <2>1, <2>2, <2>3
<1>12. ASSUME NEW x \in 0 .. NvlRecv - 1, \A i \in A : At(i) # x PROVE new[x] = old[x]
  <2>. HIDE DEF At
  <2>. QED
    BY <1>6, <1>12
<1>13. new \in [0 .. NvlRecv - 1 -> Int \X Int]
  <2>. HIDE DEF At
  <2>1. ASSUME NEW x \in 0 .. NvlRecv - 1 PROVE new[x] \in Int \X Int
    <3>1. CASE \E i \in A : At(i) = x
      <4>1. PICK i \in A : At(i) = x
        BY <3>1
      <4>2. PICK u \in FlowTo(s, d, j) : ring[i % RdmaRecv] = u
        BY <1>10
      <4>3. u \in Int
        BY <1>1, FlowIs
      <4>4. s \in Int
        <5>1. s \in Nat
          BY NodeIsNat
        <5>. QED
          BY <5>1
      <4>5. new[x] = <<s, u>>
        BY <1>11, <4>1, <4>2
      <4>. QED
        BY <4>3, <4>4, <4>5
    <3>2. CASE \A i \in A : At(i) # x
      BY <1>3, <1>12, <3>2
    <3>. QED
      BY <3>1, <3>2
  <2>. QED
    BY <1>6, <2>1
<1>14. ASSUME NEW q \in b .. t - 1 PROVE new[q % NvlRecv] = old[q % NvlRecv]
  <2>1. q \in Nat /\ b <= q /\ q < t
    BY <1>3
  <2>2. q % NvlRecv \in 0 .. NvlRecv - 1
    BY <1>5, <2>1
  <2>3. ASSUME NEW i \in A PROVE At(i) # q % NvlRecv
    <3>. DEFINE x == t + Earlier(A, i)
    <3>1. /\ Earlier(A, i) \in Nat /\ Earlier(A, i) < m
      BY <1>8
    <3>2. x \in Nat /\ x # q /\ b <= x /\ x < b + NvlRecv /\ q < b + NvlRecv
      <4>1. b \in Nat /\ t \in Nat /\ NvlRecv \in Nat /\ t <= b + NvlRecv
        <5>1. t <= t + m /\ t + m <= b + NvlRecv /\ m \in Nat
          BY <1>3, <1>4, <1>7
        <5>. QED
          BY <1>3, <1>5, <5>1
      <4>2. x \in Nat /\ t <= x /\ b <= x /\ x < b + NvlRecv
        BY <1>70, <3>1
      <4>. QED
        BY <2>1, <4>1, <4>2
    <3>. HIDE DEF x
    <3>3. x % NvlRecv # q % NvlRecv
      BY <1>3, <1>5, <2>1, <3>2, SlotsApart
    <3>. QED
      BY <3>3 DEF x
  <2>. QED
    BY <1>12, <2>2, <2>3
<1>15. ASSUME NEW n \in Nat, n < m
       PROVE  \E u \in FlowTo(s, d, j) :
                /\ new[(t + n) % NvlRecv] = <<s, u>>
                /\ RankPlace(s, d, j, u) = fIdx[<<d, j>>][s] + n
  <2>1. PICK i \in A : Earlier(A, i) = n
    BY <1>4, <1>15, EarlierOnto
  <2>2. At(i) = (t + n) % NvlRecv
    BY <2>1
  <2>. QED
    BY <1>10, <1>11, <2>1, <2>2
<1>. QED
  BY <1>4, <1>6, <1>7, <1>13, <1>14, <1>15 DEF new, old, b, t, A

\* After a batch a queue is as it should be.
LEMMA ForwardQueue ==
  ASSUME IInv, NEW d \in Rdma, NEW j \in Nvl, NEW s \in Rdma, CopyBatch(d, j, s)
  PROVE  QueueOK(d, j)'
<1>. DEFINE m == Cardinality(Mine(d, j, s))
            t == fNvlTail[<<d, j>>]
            b == rHead[<<d, j>>]
            c == nvlHead[<<d, j>>]
            old == nvlBuf[<<d, j>>]
            new == nvlBuf'[<<d, j>>]
            D == t .. t + m - 1
            Q(r) == InQueue(d, j, r)
            f == fIdx[<<d, j>>]
<1>1. /\ Typed /\ route \in Routings /\ QueueOK(d, j) /\ ReceiverOK(d, j) /\ route' = route
      /\ rPc' = rPc /\ rOff' = rOff /\ nvlHead' = nvlHead /\ rHead' = rHead
      /\ nvlTail' = nvlTail
  BY DEF IInv, Typed, CopyBatch, recvVars
<1>3. /\ t \in Nat /\ b \in Nat /\ c \in Nat /\ c <= b /\ b <= t /\ f \in [Rdma -> Nat]
      /\ nvlTail[<<d, j>>] \in Nat /\ b <= nvlTail[<<d, j>>] /\ nvlTail[<<d, j>>] <= t
  <2>1. t \in Nat /\ b \in Nat /\ c \in Nat /\ f \in [Rdma -> Nat] /\ nvlTail[<<d, j>>] \in Nat
    BY <1>1, RankTypes
  <2>2. c <= b /\ b <= nvlTail[<<d, j>>] /\ nvlTail[<<d, j>>] <= t
    BY <1>1 DEF QueueOK
  <2>3. b <= t
    BY <2>1, <2>2
  <2>. QED
    BY <2>1, <2>2, <2>3
<1>2. /\ m \in Nat /\ t + m <= c + NvlRecv /\ fNvlTail'[<<d, j>>] = t + m
      /\ \A q \in b .. t - 1 : new[q % NvlRecv] = old[q % NvlRecv]
      /\ \A n \in Nat : n < m => \E u \in FlowTo(s, d, j) :
            new[(t + n) % NvlRecv] = <<s, u>> /\ RankPlace(s, d, j, u) = f[s] + n
  <2>1. /\ m \in Nat /\ t + m <= c + NvlRecv /\ fNvlTail'[<<d, j>>] = t + m
        /\ \A q \in c .. t - 1 : new[q % NvlRecv] = old[q % NvlRecv]
        /\ \A n \in Nat : n < m => \E u \in FlowTo(s, d, j) :
              new[(t + n) % NvlRecv] = <<s, u>> /\ RankPlace(s, d, j, u) = f[s] + n
    BY BatchWritten
  <2>2. \A q \in b .. t - 1 : q \in c .. t - 1
    BY <1>3
  <2>. QED
    BY <2>1, <2>2
<1>4. f[s] \in Nat /\ fIdx'[<<d, j>>][s] = f[s] + m /\ \A r \in Rdma : r # s => fIdx'[<<d, j>>][r] = f[r]
  <2>1. fIdx' = [fIdx EXCEPT ![<<d, j>>][s] = @ + m]
    BY DEF CopyBatch, Mine
  <2>2. fIdx \in [Rdma \X Nvl -> [Rdma -> Nat]] /\ <<d, j>> \in Rdma \X Nvl
    BY <1>1 DEF Typed
  <2>. HIDE DEF m
  <2>. QED
    BY <2>1, <2>2
<1>5. \A r : Received(d, j, r)' = Received(d, j, r)
  BY <1>1, RouteFixed DEF Received
<1>. HIDE DEF m, t, b, c, old, new, f
<1>6. ASSUME NEW q \in D
      PROVE  \E n \in Nat : n < m /\ q = t + n
  <2>1. q - t \in Nat /\ q - t < m /\ q = t + (q - t)
    BY <1>2, <1>3
  <2>. QED
    BY <2>1
<1>7. \A q : q \in b .. (t + m) - 1 <=> q \in b .. t - 1 \/ q \in D
  BY <1>2, <1>3
<1>8. \A q \in D : new[q % NvlRecv][1] = s
  <2>. SUFFICES ASSUME NEW q \in D PROVE new[q % NvlRecv][1] = s
    OBVIOUS
  <2>1. PICK n \in Nat : n < m /\ q = t + n
    BY <1>6
  <2>2. PICK u \in FlowTo(s, d, j) : new[(t + n) % NvlRecv] = <<s, u>>
    BY <1>2, <2>1
  <2>. QED
    BY <2>1, <2>2
<1>9. \A r : Q(r)' = {q \in b .. (t + m) - 1 : new[q % NvlRecv][1] = r}
  BY <1>1, <1>2 DEF InQueue, b, t, new
<1>10. \A r : Q(r) = {q \in b .. t - 1 : old[q % NvlRecv][1] = r}
  BY DEF InQueue, b, t, old
<1>. HIDE DEF Q, D
<1>11. Q(s)' = Q(s) \cup D
  BY <1>2, <1>7, <1>8, <1>9, <1>10
<1>12. \A r : r # s => Q(r)' = Q(r)
  BY <1>2, <1>7, <1>8, <1>9, <1>10
<1>13. \A r : /\ Q(r) \in SUBSET Int /\ IsFiniteSet(Q(r)) /\ \A q \in Q(r) : q < t /\ q \in b .. t - 1
  <2>. SUFFICES ASSUME NEW r
                PROVE  /\ Q(r) \in SUBSET Int /\ IsFiniteSet(Q(r))
                       /\ \A q \in Q(r) : q < t /\ q \in b .. t - 1
    OBVIOUS
  <2>1. \A q \in Q(r) : q \in b .. t - 1 /\ q \in Int /\ q < t
    BY <1>3, <1>10
  <2>2. IsFiniteSet(b .. t - 1)
    BY <1>3, IntervalSize
  <2>3. Q(r) \in SUBSET (b .. t - 1)
    BY <2>1
  <2>4. IsFiniteSet(Q(r))
    BY <2>2, <2>3, FS_Subset
  <2>. QED
    BY <2>1, <2>4
<1>14. /\ Cardinality(Q(s)') = Cardinality(Q(s)) + m
       /\ \A q \in Q(s) : Earlier(Q(s)', q) = Earlier(Q(s), q)
       /\ \A n \in Nat : n < m => Earlier(Q(s)', t + n) = Cardinality(Q(s)) + n
  <2>. DEFINE A == Q(s)
  <2>1. A \in SUBSET Int /\ IsFiniteSet(A) /\ (\A k \in A : k < t) /\ t \in Nat /\ m \in Nat
    BY <1>2, <1>3, <1>13
  <2>. HIDE DEF A
  <2>2. /\ Cardinality(A \cup D) = Cardinality(A) + m
        /\ \A q \in A : Earlier(A \cup D, q) = Earlier(A, q)
        /\ \A n \in Nat : n < m => Earlier(A \cup D, t + n) = Cardinality(A) + n
    BY <2>1, QueueGrows DEF D
  <2>. QED
    BY <1>11, <2>2 DEF A
<1>15. \A r \in Rdma :
         /\ f[r] = Received(d, j, r) + Cardinality(Q(r))
         /\ \A q \in Q(r) : /\ old[q % NvlRecv][2] \in FlowTo(r, d, j)
                            /\ RankPlace(r, d, j, old[q % NvlRecv][2])
                                 = Received(d, j, r) + Earlier(Q(r), q)
  BY <1>1 DEF QueueOK, Q, old, f
<1>16. /\ nvlTail[<<d, j>>] <= t + m /\ t + m <= c + NvlRecv
       /\ \A q \in b .. (t + m) - 1 : new[q % NvlRecv][1] \in Rdma
  <2>1. nvlTail[<<d, j>>] <= t + m
    BY <1>2, <1>3
  <2>2. \A q \in b .. t - 1 : old[q % NvlRecv][1] \in Rdma
    BY <1>1 DEF QueueOK, b, t, old
  <2>. QED
    BY <1>2, <1>7, <1>8, <2>1, <2>2
<1>17. ASSUME NEW r \in Rdma
       PROVE  /\ fIdx'[<<d, j>>][r] = Received(d, j, r) + Cardinality(Q(r)')
              /\ \A q \in Q(r)' : /\ new[q % NvlRecv][2] \in FlowTo(r, d, j)
                                  /\ RankPlace(r, d, j, new[q % NvlRecv][2])
                                       = Received(d, j, r) + Earlier(Q(r)', q)
  <2>1. CASE r # s
    <3>1. Q(r)' = Q(r) /\ fIdx'[<<d, j>>][r] = f[r]
      BY <1>4, <1>12, <2>1
    <3>2. \A q \in Q(r) : new[q % NvlRecv] = old[q % NvlRecv]
      BY <1>2, <1>13
    <3>. QED
      BY <1>15, <3>1, <3>2
  <2>2. CASE r = s
    <3>1. Received(d, j, s) \in Nat /\ Cardinality(Q(s)) \in Nat
      BY <1>1, <1>13, FS_CardinalityType DEF ReceiverOK
    <3>2. fIdx'[<<d, j>>][s] = Received(d, j, s) + Cardinality(Q(s)')
      <4>1. f[s] = Received(d, j, s) + Cardinality(Q(s))
        BY <1>15
      <4>. QED
        BY <1>2, <1>4, <1>14, <3>1, <4>1
    <3>3. ASSUME NEW q \in Q(s)'
          PROVE  /\ new[q % NvlRecv][2] \in FlowTo(s, d, j)
                 /\ RankPlace(s, d, j, new[q % NvlRecv][2]) = Received(d, j, s) + Earlier(Q(s)', q)
      <4>1. CASE q \in Q(s)
        <5>1. new[q % NvlRecv] = old[q % NvlRecv]
          BY <1>2, <1>13, <4>1
        <5>. QED
          BY <1>14, <1>15, <4>1, <5>1
      <4>2. CASE q \in D
        <5>1. PICK n \in Nat : n < m /\ q = t + n
          BY <1>6, <4>2
        <5>2. PICK u \in FlowTo(s, d, j) :
                new[(t + n) % NvlRecv] = <<s, u>> /\ RankPlace(s, d, j, u) = f[s] + n
          BY <1>2, <5>1
        <5>3. new[q % NvlRecv][2] = u
          BY <5>1, <5>2
        <5>4. Earlier(Q(s)', q) = Cardinality(Q(s)) + n
          BY <1>14, <5>1
        <5>5. f[s] + n = Received(d, j, s) + (Cardinality(Q(s)) + n)
          BY <1>15, <3>1
        <5>. QED
          BY <5>2, <5>3, <5>4, <5>5
      <4>. QED
        BY <1>11, <4>1, <4>2
    <3>. QED
      BY <2>2, <3>2, <3>3
  <2>. QED
    BY <2>1, <2>2
<1>18. /\ nvlHead'[<<d, j>>] = c /\ rHead'[<<d, j>>] = b /\ fNvlTail'[<<d, j>>] = t + m
       /\ nvlTail'[<<d, j>>] = nvlTail[<<d, j>>] /\ c <= b /\ b <= nvlTail[<<d, j>>]
  BY <1>1, <1>2, <1>3 DEF b, c
<1>19. \A r : /\ InQueue(d, j, r)' = Q(r)'
              /\ \A q : Earlier(InQueue(d, j, r), q)' = Earlier(Q(r)', q)
  BY DEF Q, Earlier
<1>20. \A q \in rHead'[<<d, j>>] .. fNvlTail'[<<d, j>>] - 1 : new[q % NvlRecv][1] \in Rdma
  BY <1>16, <1>18
<1>21. \A r : /\ FlowTo(r, d, j)' = FlowTo(r, d, j)
              /\ \A u : RankPlace(r, d, j, u)' = RankPlace(r, d, j, u)
  BY <1>1, RouteFixed
<1>. QED
  BY <1>5, <1>16, <1>17, <1>18, <1>19, <1>20, <1>21 DEF QueueOK, new

\* After a batch send_nvl_head names the tokens before the new head.
LEMMA ForwardHeads ==
  ASSUME IInv, NEW d \in Rdma, NEW j \in Nvl, NEW s \in Rdma, CopyBatch(d, j, s)
  PROVE  HeadsOK(d, j)'
<1>. DEFINE A == Mine(d, j, s)
            h == fHead[<<d, j>>][s]
            e == BatchEnd(d, j, s)
            old == sendNvlHead[<<d, j>>]
            new == sendNvlHead'[<<d, j>>]
            added == NvlHeads(d, j, s, h .. e - 1, A)
            Entry(r, u) == <<IndexBase(r, d) + Place(r, d, u),
                             IF u \in FlowTo(r, d, j) THEN RankPlace(r, d, j, u) ELSE None>>
<1>1. /\ Typed /\ route \in Routings /\ HeadsOK(d, j) /\ route' = route
      /\ ForwarderOK(d, j, s) /\ MetaOK(s, d)
  BY DEF IInv, Typed, CopyBatch
<1>2. /\ fPc[<<d, j>>] = "run" /\ SeenTail(d, j, s) > h
      /\ sendNvlHead' = [sendNvlHead EXCEPT ![<<d, j>>] = @ \cup added]
      /\ fHead' = [fHead EXCEPT ![<<d, j>>][s] = e]
  BY DEF CopyBatch, Mine
<1>3. new = old \cup added
  <2>1. DOMAIN sendNvlHead = Rdma \X Nvl /\ <<d, j>> \in Rdma \X Nvl
    BY <1>1 DEF Typed
  <2>. HIDE DEF added
  <2>. QED
    BY <1>2, <2>1
<1>4. /\ fHead[<<d, j>>] \in [Rdma -> Nat]
      /\ fHead'[<<d, j>>][s] = e /\ \A r \in Rdma : r # s => fHead'[<<d, j>>][r] = fHead[<<d, j>>][r]
  <2>1. fHead \in [Rdma \X Nvl -> [Rdma -> Nat]] /\ <<d, j>> \in Rdma \X Nvl
    BY <1>1 DEF Typed
  <2>. HIDE DEF e
  <2>. QED
    BY <1>2, <2>1
<1>5. /\ h \in Nat /\ e \in Nat /\ h < e /\ A = PlacesFor(s, d, j, h, e)
      /\ \A i \in h .. e - 1 : \E u \in Flow(s, d) : Place(s, d, u) = i
  <2>0. fPc[<<d, j>>] # "retired" /\ SeenTail(d, j, s) > h
    BY <1>2
  <2>1. h \in Nat /\ e \in Nat /\ h < e
    BY <2>0, BatchIs
  <2>2. A = PlacesFor(s, d, j, h, e)
    BY <2>0, BatchIs
  <2>3. \A i \in h .. e - 1 :
          \E u \in Flow(s, d) : Place(s, d, u) = i /\ recvBuf[<<s, d>>][i % RdmaRecv] = u
    BY <2>0, BatchIs
  <2>. HIDE DEF A, h, e
  <2>. QED
    BY <2>1, <2>2, <2>3
<1>6. Decode(meta[<<s, d>>].from) = RdmaPrefix(s, d, First(s))
  <2>1. notified[s]
    BY <1>1, <1>2 DEF ForwarderOK
  <2>. QED
    BY <1>1, <2>1, MetaSays
<1>7. fIdx[<<d, j>>][s] = Cardinality(Passed(s, d, j, h))
  BY <1>1 DEF ForwarderOK
<1>8. added = {<<IndexBase(s, d) + i,
                 IF i \in A THEN fIdx[<<d, j>>][s] + Earlier(A, i) ELSE None>> : i \in h .. e - 1}
  BY <1>6 DEF NvlHeads, IndexBase
<1>. HIDE DEF A, h, e, old, new, added
<1>9. ASSUME NEW u \in Flow(s, d), Place(s, d, u) \in h .. e - 1
      PROVE  Entry(s, u) = <<IndexBase(s, d) + Place(s, d, u),
                             IF Place(s, d, u) \in A
                             THEN fIdx[<<d, j>>][s] + Earlier(A, Place(s, d, u)) ELSE None>>
  <2>. DEFINE i == Place(s, d, u)
  <2>1. i \in A <=> u \in FlowTo(s, d, j)
    <3>1. i \in A <=> \E v \in FlowTo(s, d, j) : Place(s, d, v) = i
      BY <1>5, <1>9 DEF PlacesFor
    <3>2. \A v \in FlowTo(s, d, j) : Place(s, d, v) = i => v = u
      <4>1. \A v \in FlowTo(s, d, j) : v \in Flow(s, d) /\ u \in Int
        BY <1>1, FlowIs
      <4>. QED
        BY <1>1, <4>1, PlaceIs
    <3>. QED
      BY <3>1, <3>2
  <2>2. u \in FlowTo(s, d, j) => RankPlace(s, d, j, u) = fIdx[<<d, j>>][s] + Earlier(A, i)
    <3>. SUFFICES ASSUME u \in FlowTo(s, d, j)
                  PROVE  RankPlace(s, d, j, u) = fIdx[<<d, j>>][s] + Earlier(A, i)
      OBVIOUS
    <3>1. h <= Place(s, d, u) /\ Place(s, d, u) < e /\ h <= e
      BY <1>5, <1>9
    <3>. QED
      BY <1>1, <1>5, <1>7, <3>1, BatchPlace
  <2>. QED
    BY <2>1, <2>2
<1>10. ASSUME NEW y \in added
       PROVE  \E u \in Flow(s, d) : Place(s, d, u) < e /\ y = Entry(s, u)
  <2>1. PICK i \in h .. e - 1 :
          y = <<IndexBase(s, d) + i, IF i \in A THEN fIdx[<<d, j>>][s] + Earlier(A, i) ELSE None>>
    BY <1>8
  <2>2. PICK u \in Flow(s, d) : Place(s, d, u) = i
    BY <1>5, <2>1
  <2>3. i < e
    BY <1>5, <2>1
  <2>. HIDE DEF Entry
  <2>. QED
    BY <1>9, <2>1, <2>2, <2>3
<1>11. ASSUME NEW u \in Flow(s, d), Place(s, d, u) \in h .. e - 1
       PROVE  Entry(s, u) \in added
  <2>. HIDE DEF Entry
  <2>. QED
    BY <1>8, <1>9, <1>11
<1>12. /\ \A y \in old : \E r \in Rdma : \E u \in Flow(r, d) :
            Place(r, d, u) < fHead[<<d, j>>][r] /\ y = Entry(r, u)
       /\ \A r \in Rdma : \A u \in Flow(r, d) :
            Place(r, d, u) < fHead[<<d, j>>][r] => Entry(r, u) \in old
  BY <1>1 DEF HeadsOK, old
<1>13. \A r \in Rdma : \A u \in Flow(r, d) : Place(r, d, u) \in Nat
  <2>1. \A r \in Rdma : \A u \in Flow(r, d) : u \in Int
    BY <1>1, FlowIs
  <2>. QED
    BY <1>1, <2>1, PlaceIs
<1>14. \A r \in Rdma : fHead'[<<d, j>>][r] \in Nat /\ fHead[<<d, j>>][r] \in Nat
                       /\ fHead[<<d, j>>][r] <= fHead'[<<d, j>>][r]
  <2>. SUFFICES ASSUME NEW r \in Rdma
                PROVE  fHead'[<<d, j>>][r] \in Nat /\ fHead[<<d, j>>][r] \in Nat
                       /\ fHead[<<d, j>>][r] <= fHead'[<<d, j>>][r]
    OBVIOUS
  <2>1. fHead[<<d, j>>][r] \in Nat
    BY <1>4
  <2>2. CASE r = s
    BY <1>4, <1>5, <2>1, <2>2 DEF h
  <2>3. CASE r # s
    BY <1>4, <2>1, <2>3
  <2>. QED
    BY <2>2, <2>3
<1>15. ASSUME NEW y \in new
       PROVE  \E r \in Rdma : \E u \in Flow(r, d) :
                 Place(r, d, u) < fHead'[<<d, j>>][r] /\ y = Entry(r, u)
  <2>. HIDE DEF Entry
  <2>1. CASE y \in old
    <3>1. PICK r \in Rdma : \E u \in Flow(r, d) :
                              Place(r, d, u) < fHead[<<d, j>>][r] /\ y = Entry(r, u)
      BY <1>12, <2>1
    <3>2. PICK u \in Flow(r, d) : Place(r, d, u) < fHead[<<d, j>>][r] /\ y = Entry(r, u)
      BY <3>1
    <3>3. Place(r, d, u) < fHead'[<<d, j>>][r]
      BY <1>13, <1>14, <3>2
    <3>. QED
      BY <3>2, <3>3
  <2>2. CASE y \in added
    BY <1>4, <1>10, <2>2
  <2>. QED
    BY <1>3, <2>1, <2>2
<1>16. ASSUME NEW r \in Rdma, NEW u \in Flow(r, d), Place(r, d, u) < fHead'[<<d, j>>][r]
       PROVE  Entry(r, u) \in new
  <2>. HIDE DEF Entry
  <2>1. CASE Place(r, d, u) < fHead[<<d, j>>][r]
    BY <1>3, <1>12, <2>1
  <2>2. CASE ~ (Place(r, d, u) < fHead[<<d, j>>][r])
    <3>1. r = s
      BY <1>4, <1>16, <2>2
    <3>2. Place(s, d, u) \in Nat /\ h <= Place(s, d, u) /\ Place(s, d, u) < e
      BY <1>4, <1>5, <1>13, <1>16, <2>2, <3>1 DEF h
    <3>3. Place(s, d, u) \in h .. e - 1
      BY <1>5, <3>2
    <3>. QED
      BY <1>3, <1>11, <3>1, <3>3
  <2>. QED
    BY <2>1, <2>2
<1>17. \A r, u : /\ Flow(r, d)' = Flow(r, d) /\ FlowTo(r, d, j)' = FlowTo(r, d, j)
                 /\ Place(r, d, u)' = Place(r, d, u) /\ IndexBase(r, d)' = IndexBase(r, d)
                 /\ RankPlace(r, d, j, u)' = RankPlace(r, d, j, u)
  BY <1>1, RouteFixed
<1>. QED
  BY <1>15, <1>16, <1>17 DEF HeadsOK, new

LEMMA CopyBatchOK ==
  ASSUME IInv, NEW p \in Rdma, NEW k \in Nvl, NEW e \in Rdma, CopyBatch(p, k, e)
  PROVE  IInv'
<1>. DEFINE head == fHead[<<p, k>>][e]
            end == BatchEnd(p, k, e)
            m == Cardinality(Mine(p, k, e))
            tail == SeenTail(p, k, e)
<1>1. /\ fPc[<<p, k>>] = "run" /\ tail > head
      /\ fIdx'    = [fIdx EXCEPT ![<<p, k>>][e] = @ + m]
      /\ fTail'   = [fTail EXCEPT ![<<p, k>>][e] = tail]
      /\ fHead'   = [fHead EXCEPT ![<<p, k>>][e] = end]
      /\ fNvlTail' = [fNvlTail EXCEPT ![<<p, k>>] = @ + m]
      /\ fPc'     = [fPc EXCEPT ![<<p, k>>] = "publish"]
      /\ DOMAIN nvlBuf' = DOMAIN nvlBuf /\ DOMAIN sendNvlHead' = DOMAIN sendNvlHead
      /\ \A q \in Rdma \X Nvl : q # <<p, k>> => nvlBuf'[q] = nvlBuf[q] /\ sendNvlHead'[q] = sendNvlHead[q]
  <2>1. /\ fPc[<<p, k>>] = "run" /\ tail > head
        /\ fIdx'    = [fIdx EXCEPT ![<<p, k>>][e] = @ + m]
        /\ fTail'   = [fTail EXCEPT ![<<p, k>>][e] = tail]
        /\ fHead'   = [fHead EXCEPT ![<<p, k>>][e] = end]
        /\ fNvlTail' = [fNvlTail EXCEPT ![<<p, k>>] = @ + m]
        /\ fPc'     = [fPc EXCEPT ![<<p, k>>] = "publish"]
    BY DEF CopyBatch, Mine
  <2>2. DOMAIN nvlBuf = Rdma \X Nvl /\ DOMAIN sendNvlHead = Rdma \X Nvl
    BY DEF IInv, Typed
  <2>3. /\ DOMAIN nvlBuf' = DOMAIN nvlBuf
        /\ \A q \in Rdma \X Nvl : q # <<p, k>> => nvlBuf'[q] = nvlBuf[q]
    <3>1. \E x : nvlBuf' = [nvlBuf EXCEPT ![<<p, k>>] = x]
      BY DEF CopyBatch
    <3>. QED
      BY <2>2, <3>1
  <2>4. /\ DOMAIN sendNvlHead' = DOMAIN sendNvlHead
        /\ \A q \in Rdma \X Nvl : q # <<p, k>> => sendNvlHead'[q] = sendNvlHead[q]
    <3>1. \E x : sendNvlHead' = [sendNvlHead EXCEPT ![<<p, k>>] = x]
      BY DEF CopyBatch
    <3>. QED
      BY <2>2, <3>1
  <2>. QED
    BY <2>1, <2>3, <2>4
<1>2. UNCHANGED <<route, meta, recvBuf, rdmaHead, credited, warpVars, coordVars, fwdHead,
                  nvlStart, nvlEnd, nvlTail, recvVars>>
  BY DEF CopyBatch
<1>. USE DEF warpVars, coordVars, recvVars
<1>3. route' = route /\ route \in Routings /\ Typed
  BY <1>2 DEF IInv, Typed
<1>4. /\ head \in Nat /\ end \in Nat /\ m \in Nat /\ tail \in Nat /\ rdmaTail[<<e, p>>] \in Nat
      /\ head < end /\ end <= tail /\ tail <= rdmaTail[<<e, p>>]
      /\ Mine(p, k, e) = PlacesFor(e, p, k, head, end)
  BY <1>1, BatchIs, ForMeIs
<1>. HIDE DEF head, end, m, tail
<1>5. /\ fHead'[<<p, k>>][e] = end /\ fTail'[<<p, k>>][e] = tail
      /\ fIdx'[<<p, k>>][e] = fIdx[<<p, k>>][e] + m /\ fPc'[<<p, k>>] = "publish"
      /\ \A s \in Rdma : s # e => /\ fHead'[<<p, k>>][s] = fHead[<<p, k>>][s]
                                  /\ fTail'[<<p, k>>][s] = fTail[<<p, k>>][s]
                                  /\ fIdx'[<<p, k>>][s] = fIdx[<<p, k>>][s]
      /\ \A d \in Rdma, j \in Nvl : d # p \/ j # k =>
           /\ fHead'[<<d, j>>] = fHead[<<d, j>>] /\ fTail'[<<d, j>>] = fTail[<<d, j>>]
           /\ fIdx'[<<d, j>>] = fIdx[<<d, j>>] /\ fNvlTail'[<<d, j>>] = fNvlTail[<<d, j>>]
           /\ fPc'[<<d, j>>] = fPc[<<d, j>>]
  <2>1. /\ fHead \in [Rdma \X Nvl -> [Rdma -> Nat]] /\ fTail \in [Rdma \X Nvl -> [Rdma -> Nat]]
        /\ fIdx \in [Rdma \X Nvl -> [Rdma -> Nat]] /\ fNvlTail \in [Rdma \X Nvl -> Nat]
        /\ <<p, k>> \in Rdma \X Nvl /\ DOMAIN fPc = Rdma \X Nvl
    BY <1>3 DEF Typed
  <2>2. \A d \in Rdma, j \in Nvl : d # p \/ j # k => <<d, j>> # <<p, k>> /\ <<d, j>> \in Rdma \X Nvl
    OBVIOUS
  <2>. QED
    BY <1>1, <2>1, <2>2
<1>6. Typed'
  <2>1. /\ fHead' \in [Rdma \X Nvl -> [Rdma -> Nat]] /\ fTail' \in [Rdma \X Nvl -> [Rdma -> Nat]]
        /\ fIdx' \in [Rdma \X Nvl -> [Rdma -> Nat]] /\ fNvlTail' \in [Rdma \X Nvl -> Nat]
        /\ fPc' \in [Rdma \X Nvl -> {"meta", "run", "publish", "retired"}]
    <3>1. /\ fHead \in [Rdma \X Nvl -> [Rdma -> Nat]] /\ fTail \in [Rdma \X Nvl -> [Rdma -> Nat]]
          /\ fIdx \in [Rdma \X Nvl -> [Rdma -> Nat]] /\ fNvlTail \in [Rdma \X Nvl -> Nat]
          /\ fPc \in [Rdma \X Nvl -> {"meta", "run", "publish", "retired"}]
      BY <1>3 DEF Typed
    <3>. QED
      BY <1>1, <1>4, <3>1
  <2>2. nvlBuf' \in [Rdma \X Nvl -> [0 .. NvlRecv - 1 -> Int \X Int]]
    <3>1. nvlBuf \in [Rdma \X Nvl -> [0 .. NvlRecv - 1 -> Int \X Int]]
      BY <1>3 DEF Typed
    <3>2. nvlBuf'[<<p, k>>] \in [0 .. NvlRecv - 1 -> Int \X Int]
      BY BatchWritten
    <3>3. nvlBuf' = [q \in Rdma \X Nvl |-> nvlBuf'[q]]
      <4>1. \E x : nvlBuf' = [nvlBuf EXCEPT ![<<p, k>>] = x]
        BY DEF CopyBatch
      <4>. QED
        BY <3>1, <4>1
    <3>4. \A q \in Rdma \X Nvl : nvlBuf'[q] \in [0 .. NvlRecv - 1 -> Int \X Int]
      BY <1>1, <3>1, <3>2
    <3>. QED
      BY <3>3, <3>4
  <2>3. \A q \in Rdma \X Rdma : sendHead'[q] \in [First(q[1])' .. Past(q[1])' - 1 -> Int]
    BY <1>2, <1>3, RouteFixed DEF Typed
  <2>4. DOMAIN sendNvlHead' = Rdma \X Nvl
    BY <1>1, <1>3 DEF Typed
  <2>. QED
    BY <1>2, <1>3, <2>1, <2>2, <2>3, <2>4 DEF Typed
<1>7. \A s \in Rdma : WarpsOK(s)'
  BY <1>2, <1>3, WarpsKept DEF IInv
<1>8. \A s, d \in Rdma : TailsOK(s, d)' /\ RingOK(s, d)' /\ MetaOK(s, d)'
  BY <1>2, <1>3, TailsKept, RingKept, MetaKept DEF IInv
<1>9. \A s, d \in Rdma : SentSlotsOK(s, d)' /\ ArrivedSlotsOK(s, d)'
  BY <1>2, <1>3, SentKept, ArrivedKept DEF IInv
<1>10. ASSUME NEW d \in Rdma, NEW j \in Nvl, NEW s \in Rdma PROVE ForwarderOK(d, j, s)'
  <2>0. ForwarderOK(d, j, s)
    BY DEF IInv
  <2>1. CASE d # p \/ j # k
    BY <1>2, <1>3, <1>5, <2>0, <2>1, ForwarderKept
  <2>2. CASE d = p /\ j = k /\ s # e
    <3>1. fPc[<<p, k>>] = "run" /\ fPc'[<<p, k>>] = "publish"
      BY <1>1, <1>5
    <3>. QED
      BY <1>2, <1>3, <1>5, <2>0, <2>2, <3>1, RouteFixed DEF ForwarderOK, Encode
  <2>3. CASE d = p /\ j = k /\ s = e
    <3>1. fIdx'[<<p, k>>][e] = Cardinality(Passed(e, p, k, end))
      <4>1. fIdx[<<p, k>>][e] = Cardinality(Passed(e, p, k, head))
        BY <2>0, <2>3 DEF ForwarderOK, head
      <4>2. Cardinality(Passed(e, p, k, end)) = Cardinality(Passed(e, p, k, head)) + m
        <5>1. head <= end
          BY <1>4
        <5>. QED
          BY <1>3, <1>4, <5>1, PlacesForCounted DEF m
      <4>. QED
        BY <1>5, <4>1, <4>2
    <3>2. /\ end <= tail /\ tail <= rdmaTail[<<e, p>>] /\ fwdHead[<<p, k>>][e] <= end
          /\ credited[<<e, p>>] <= fwdHead[<<p, k>>][e]
      <4>1. fwdHead[<<p, k>>][e] <= head /\ credited[<<e, p>>] <= fwdHead[<<p, k>>][e]
        BY <1>1, <2>0, <2>3 DEF ForwarderOK, head
      <4>2. fwdHead[<<p, k>>][e] \in Nat
        <5>1. fwdHead[<<p, k>>] \in [Rdma -> Nat]
          BY <1>3, RankTypes
        <5>. QED
          BY <5>1
      <4>. QED
        BY <1>4, <4>1, <4>2
    <3>3. /\ fPc'[<<p, k>>] = "publish" /\ rdmaTail'[<<e, p>>] = rdmaTail[<<e, p>>]
          /\ credited'[<<e, p>>] = credited[<<e, p>>] /\ notified'[e] = notified[e]
          /\ nvlStart' = nvlStart /\ nvlEnd' = nvlEnd /\ fwdHead' = fwdHead
      BY <1>2, <1>5
    <3>4. /\ notified[e] /\ nvlStart[<<p, k>>][e] = Encode(GblPrefix(e, p, k, First(e)))
          /\ nvlEnd[<<p, k>>][e] = Encode(GblPrefix(e, p, k, Past(e)))
      BY <1>1, <2>0, <2>3 DEF ForwarderOK
    <3>5. /\ Passed(e, p, k, fHead[<<p, k>>][e])' = Passed(e, p, k, end)
          /\ GblPrefix(e, p, k, First(e))' = GblPrefix(e, p, k, First(e))
          /\ GblPrefix(e, p, k, Past(e))' = GblPrefix(e, p, k, Past(e))
      BY <1>3, <1>5, RouteFixed
    <3>. QED
      BY <1>5, <2>3, <3>1, <3>2, <3>3, <3>4, <3>5 DEF ForwarderOK, Encode
  <2>. QED
    BY <2>1, <2>2, <2>3
<1>11. ASSUME NEW d \in Rdma, NEW j \in Nvl PROVE HeadsOK(d, j)' /\ QueueOK(d, j)' /\ ReceiverOK(d, j)'
  <2>1. ReceiverOK(d, j)'
    BY <1>2, <1>3, ReceiverKept DEF IInv
  <2>2. CASE d = p /\ j = k
    BY <2>1, <2>2, ForwardHeads, ForwardQueue
  <2>3. CASE d # p \/ j # k
    <3>1. <<d, j>> \in Rdma \X Nvl /\ <<d, j>> # <<p, k>>
      BY <2>3
    <3>2. nvlBuf'[<<d, j>>] = nvlBuf[<<d, j>>] /\ sendNvlHead'[<<d, j>>] = sendNvlHead[<<d, j>>]
      BY <1>1, <3>1
    <3>3. HeadsOK(d, j)'
      BY <1>3, <1>5, <2>3, <3>2, HeadsKept DEF IInv
    <3>4. QueueOK(d, j)'
      BY <1>2, <1>3, <1>5, <2>3, <3>2, QueueKept DEF IInv
    <3>. QED
      BY <2>1, <3>3, <3>4
  <2>. QED
    BY <2>2, <2>3
<1>. QED
  BY <1>6, <1>7, <1>8, <1>9, <1>10, <1>11 DEF IInv

\* A step of one receiver leaves all but its own queue and rows alone.
LEMMA ReceiverStep ==
  ASSUME IInv, NEW p \in Rdma, NEW k \in Nvl,
         UNCHANGED <<route, meta, recvBuf, rdmaHead, credited, warpVars, coordVars, fwdVars>>,
         /\ rPc' \in [Rdma \X Nvl -> {"prefix", "run", "publish", "done"}]
         /\ rOff' \in [Rdma \X Nvl -> [Rdma -> Int]] /\ chanOff' \in [Rdma \X Nvl -> [Rdma -> Int]]
         /\ nvlHead' \in [Rdma \X Nvl -> Nat] /\ rHead' \in [Rdma \X Nvl -> Nat]
         /\ rLeft' \in [Rdma \X Nvl -> Int]
         /\ DOMAIN recvX' = Rdma \X Nvl,
         \A q \in Rdma \X Nvl : q # <<p, k>> =>
           /\ rPc'[q] = rPc[q] /\ rOff'[q] = rOff[q] /\ chanOff'[q] = chanOff[q]
           /\ nvlHead'[q] = nvlHead[q] /\ rHead'[q] = rHead[q] /\ rLeft'[q] = rLeft[q]
           /\ recvX'[q] = recvX[q],
         QueueOK(p, k)', ReceiverOK(p, k)'
  PROVE  IInv'
<1>. USE DEF warpVars, coordVars, fwdVars
<1>3. route' = route /\ route \in Routings /\ Typed
  BY DEF IInv, Typed
<1>6. Typed'
  <2>1. \A q \in Rdma \X Rdma : sendHead'[q] \in [First(q[1])' .. Past(q[1])' - 1 -> Int]
    BY <1>3, RouteFixed DEF Typed
  <2>. QED
    BY <1>3, <2>1 DEF Typed
<1>7. \A s \in Rdma : WarpsOK(s)'
  BY <1>3, WarpsKept DEF IInv
<1>8. \A s, d \in Rdma : TailsOK(s, d)' /\ RingOK(s, d)' /\ MetaOK(s, d)'
  BY <1>3, TailsKept, RingKept, MetaKept DEF IInv
<1>9. \A s, d \in Rdma : SentSlotsOK(s, d)' /\ ArrivedSlotsOK(s, d)'
  BY <1>3, SentKept, ArrivedKept DEF IInv
<1>10. \A d \in Rdma, j \in Nvl : \A s \in Rdma : ForwarderOK(d, j, s)'
  BY <1>3, ForwarderKept DEF IInv
<1>11. ASSUME NEW d \in Rdma, NEW j \in Nvl PROVE HeadsOK(d, j)' /\ QueueOK(d, j)' /\ ReceiverOK(d, j)'
  <2>1. HeadsOK(d, j)'
    BY <1>3, HeadsKept DEF IInv
  <2>2. CASE d = p /\ j = k
    BY <2>1, <2>2
  <2>3. CASE d # p \/ j # k
    <3>1. <<d, j>> \in Rdma \X Nvl /\ <<d, j>> # <<p, k>>
      BY <2>3
    <3>2. /\ rPc'[<<d, j>>] = rPc[<<d, j>>] /\ rOff'[<<d, j>>] = rOff[<<d, j>>]
          /\ chanOff'[<<d, j>>] = chanOff[<<d, j>>] /\ nvlHead'[<<d, j>>] = nvlHead[<<d, j>>]
          /\ rHead'[<<d, j>>] = rHead[<<d, j>>]
          /\ rLeft'[<<d, j>>] = rLeft[<<d, j>>] /\ recvX'[<<d, j>>] = recvX[<<d, j>>]
      BY <3>1
    <3>3. QueueOK(d, j)'
      BY <1>3, <3>2, QueueKept DEF IInv
    <3>4. ReceiverOK(d, j)'
      BY <1>3, <3>2, ReceiverKept DEF IInv
    <3>. QED
      BY <2>1, <3>3, <3>4
  <2>. QED
    BY <2>2, <2>3
<1>. QED
  BY <1>6, <1>7, <1>8, <1>9, <1>10, <1>11 DEF IInv

\* The tokens of the sources that have n[s] or more before them.
After(d, j, n) ==
  UNION {{<<s, u>> : u \in {v \in FlowTo(s, d, j) : n[s] <= RankPlace(s, d, j, v)}} : s \in Rdma}

LEMMA AfterIs ==
  ASSUME route \in Routings, NEW d, NEW j, NEW n
  PROVE  /\ IsFiniteSet(After(d, j, n)) /\ Cardinality(After(d, j, n)) \in Nat
         /\ \A s, u : <<s, u>> \in After(d, j, n) <=>
              s \in Rdma /\ u \in FlowTo(s, d, j) /\ n[s] <= RankPlace(s, d, j, u)
         /\ \A x \in After(d, j, n) : \E s \in Rdma : \E u \in FlowTo(s, d, j) : x = <<s, u>>
         /\ (\A s \in Rdma : n[s] = 0) =>
              Cardinality(After(d, j, n))
                = SumFunction([s \in Rdma |-> Cardinality(FlowTo(s, d, j))])
<1>. DEFINE g == [s \in Rdma |-> {v \in FlowTo(s, d, j) : n[s] <= RankPlace(s, d, j, v)}]
<1>1. After(d, j, n) = Tagged(g, Rdma)
  BY DEF After, Tagged
<1>2. IsFiniteSet(Rdma)
  BY Numbers, IntervalSize DEF Rdma
<1>3. \A s \in Rdma : IsFiniteSet(FlowTo(s, d, j)) /\ IsFiniteSet(g[s])
  <2>. SUFFICES ASSUME NEW s \in Rdma PROVE IsFiniteSet(FlowTo(s, d, j)) /\ IsFiniteSet(g[s])
    OBVIOUS
  <2>1. IsFiniteSet(FlowTo(s, d, j))
    BY FlowIs
  <2>2. g[s] \in SUBSET FlowTo(s, d, j)
    OBVIOUS
  <2>. QED
    BY <2>1, <2>2, FS_Subset
<1>4. /\ \A s \in Rdma : \A u : u \in g[s] <=> u \in FlowTo(s, d, j) /\ n[s] <= RankPlace(s, d, j, u)
  OBVIOUS
<1>5. ASSUME \A s \in Rdma : n[s] = 0
      PROVE  g = [s \in Rdma |-> FlowTo(s, d, j)]
  <2>. SUFFICES ASSUME NEW s \in Rdma PROVE g[s] = FlowTo(s, d, j)
    OBVIOUS
  <2>1. FlowTo(s, d, j) \in SUBSET Int
    BY FlowIs
  <2>2. \A v \in FlowTo(s, d, j) : n[s] <= RankPlace(s, d, j, v)
    <3>. SUFFICES ASSUME NEW v \in FlowTo(s, d, j) PROVE n[s] <= RankPlace(s, d, j, v)
      OBVIOUS
    <3>1. v \in Int
      BY <2>1
    <3>2. RankPlace(s, d, j, v) \in Nat
      BY <3>1, RankPlaceIs
    <3>. QED
      BY <1>5, <3>2
  <2>. QED
    BY <2>2
<1>6. ASSUME \A s \in Rdma : n[s] = 0
      PROVE  Cardinality(After(d, j, n))
               = SumFunction([s \in Rdma |-> Cardinality(FlowTo(s, d, j))])
  <2>1. \A s \in Rdma : g[s] = FlowTo(s, d, j)
    BY <1>5, <1>6
  <2>. HIDE DEF g
  <2>2. SumFunction([s \in Rdma |-> Cardinality(g[s])]) = Cardinality(Tagged(g, Rdma))
    BY <1>2, <1>3, SumIs
  <2>3. [s \in Rdma |-> Cardinality(g[s])] = [s \in Rdma |-> Cardinality(FlowTo(s, d, j))]
    BY <2>1
  <2>. QED
    BY <1>1, <2>2, <2>3
<1>. HIDE DEF g
<1>7. IsFiniteSet(After(d, j, n)) /\ Cardinality(After(d, j, n)) \in Nat
  BY <1>1, <1>2, <1>3, TaggedFinite
<1>8. /\ \A x \in Tagged(g, Rdma) : \E i \in Rdma : \E t \in g[i] : x = <<i, t>>
      /\ \A i \in Rdma : \A t \in g[i] : <<i, t>> \in Tagged(g, Rdma)
      /\ \A i, t : <<i, t>> \in Tagged(g, Rdma) => i \in Rdma /\ t \in g[i]
  BY TaggedHas
<1>9. \A s, u : <<s, u>> \in After(d, j, n) <=>
        s \in Rdma /\ u \in FlowTo(s, d, j) /\ n[s] <= RankPlace(s, d, j, u)
  BY <1>1, <1>4, <1>8
<1>10. \A x \in After(d, j, n) : \E s \in Rdma : \E u \in FlowTo(s, d, j) : x = <<s, u>>
  BY <1>1, <1>4, <1>8
<1>. QED
  BY <1>6, <1>7, <1>9, <1>10

\* What a receiver misses is what comes after what it has.
LEMMA MissingIs ==
  ASSUME NEW d, NEW j, NEW n, \A s \in Rdma : n[s] = Received(d, j, s)
  PROVE  Missing(d, j) = After(d, j, n)
BY DEF Missing, After

LEMMA ReadPrefixOK ==
  ASSUME IInv, NEW p \in Rdma, NEW k \in Nvl, ReadPrefix(p, k)
  PROVE  IInv'
<1>. DEFINE row == [s \in Rdma |-> FirstRow(p, k, s)]
            size == [s \in Rdma |-> Decode(nvlEnd[<<p, k>>][s]) - Decode(nvlStart[<<p, k>>][s])]
            left == SumFunction(size)
<1>1. /\ rPc[<<p, k>>] = "prefix" /\ \A s \in Rdma : nvlStart[<<p, k>>][s] < 0
      /\ rOff' = [rOff EXCEPT ![<<p, k>>] = row]
      /\ chanOff' = [chanOff EXCEPT ![<<p, k>>] = rOff'[<<p, k>>]]
      /\ rLeft' = [rLeft EXCEPT ![<<p, k>>] = left]
      /\ rPc' = [rPc EXCEPT ![<<p, k>>] = IF rLeft'[<<p, k>>] > 0 THEN "run" ELSE "done"]
      /\ UNCHANGED <<nvlHead, rHead, recvX>>
      /\ UNCHANGED <<route, meta, recvBuf, rdmaHead, credited, warpVars, coordVars, fwdVars>>
  BY DEF ReadPrefix
<1>2. /\ Typed /\ route \in Routings /\ route' = route /\ QueueOK(p, k) /\ ReceiverOK(p, k)
      /\ nvlTail' = nvlTail /\ fNvlTail' = fNvlTail /\ nvlBuf' = nvlBuf /\ fIdx' = fIdx
  BY <1>1 DEF IInv, Typed, fwdVars
<1>3. ASSUME NEW s \in Rdma
      PROVE  /\ row[s] = RowBase(s, p, k) /\ row[s] \in Int
             /\ size[s] = Cardinality(FlowTo(s, p, k))
  <2>1. /\ nvlStart[<<p, k>>][s] = Encode(GblPrefix(s, p, k, First(s)))
        /\ nvlEnd[<<p, k>>][s] = Encode(GblPrefix(s, p, k, Past(s)))
    <3>1. ForwarderOK(p, k, s)
      BY DEF IInv
    <3>2. nvlStart[<<p, k>>][s] # 0
      BY <1>1
    <3>. QED
      BY <3>1, <3>2 DEF ForwarderOK
  <2>2. /\ GblPrefix(s, p, k, First(s)) \in Nat /\ Cardinality(FlowTo(s, p, k)) \in Nat
        /\ GblPrefix(s, p, k, Past(s)) = GblPrefix(s, p, k, First(s)) + Cardinality(FlowTo(s, p, k))
    BY <1>2, ChannelTotals, FlowIs
  <2>3. /\ Decode(nvlStart[<<p, k>>][s]) = GblPrefix(s, p, k, First(s))
        /\ Decode(nvlEnd[<<p, k>>][s]) = GblPrefix(s, p, k, Past(s))
    BY <2>1, <2>2 DEF Encode, Decode
  <2>4. size[s] = Cardinality(FlowTo(s, p, k))
    BY <2>2, <2>3
  <2>5. row[s] = RowBase(s, p, k)
    BY <2>3 DEF FirstRow, RowBase
  <2>6. RowBase(s, p, k) \in Nat
    BY <1>2, OffsetsAreNat
  <2>. QED
    BY <2>4, <2>5, <2>6
<1>4. /\ \A s \in Rdma : Received(p, k, s) = 0
      /\ rLeft[<<p, k>>] = 0
  BY <1>1, <1>2 DEF Received, ReceiverOK
<1>5. left = Cardinality(Missing(p, k)) /\ left \in Nat
  <2>. DEFINE n == [s \in Rdma |-> 0]
  <2>1. Missing(p, k) = After(p, k, n)
    BY <1>4, MissingIs
  <2>2. /\ Cardinality(After(p, k, n)) \in Nat
        /\ Cardinality(After(p, k, n)) = SumFunction([s \in Rdma |-> Cardinality(FlowTo(s, p, k))])
    BY <1>2, AfterIs
  <2>3. size = [s \in Rdma |-> Cardinality(FlowTo(s, p, k))]
    BY <1>3
  <2>. QED
    BY <2>1, <2>2, <2>3
<1>. HIDE DEF row, size, left
<1>6. /\ rPc' \in [Rdma \X Nvl -> {"prefix", "run", "publish", "done"}]
      /\ rOff' \in [Rdma \X Nvl -> [Rdma -> Int]] /\ chanOff' \in [Rdma \X Nvl -> [Rdma -> Int]]
      /\ nvlHead' \in [Rdma \X Nvl -> Nat] /\ rHead' \in [Rdma \X Nvl -> Nat]
      /\ rLeft' \in [Rdma \X Nvl -> Int]
      /\ DOMAIN recvX' = Rdma \X Nvl
  <2>1. row \in [Rdma -> Int]
    <3>1. row = [s \in Rdma |-> row[s]]
      BY DEF row
    <3>. QED
      BY <1>3, <3>1
  <2>2. /\ rPc \in [Rdma \X Nvl -> {"prefix", "run", "publish", "done"}]
        /\ rOff \in [Rdma \X Nvl -> [Rdma -> Int]] /\ chanOff \in [Rdma \X Nvl -> [Rdma -> Int]]
        /\ nvlHead \in [Rdma \X Nvl -> Nat] /\ rHead \in [Rdma \X Nvl -> Nat]
        /\ rLeft \in [Rdma \X Nvl -> Int]
        /\ DOMAIN recvX = Rdma \X Nvl
    BY <1>2 DEF Typed
  <2>3. rOff' \in [Rdma \X Nvl -> [Rdma -> Int]] /\ rOff'[<<p, k>>] \in [Rdma -> Int]
    BY <1>1, <2>1, <2>2
  <2>4. left \in Int
    BY <1>5
  <2>. QED
    BY <1>1, <2>2, <2>3, <2>4
<1>7. /\ rOff'[<<p, k>>] = row /\ chanOff'[<<p, k>>] = row /\ rLeft'[<<p, k>>] = left
      /\ rPc'[<<p, k>>] = IF left > 0 THEN "run" ELSE "done"
  <2>1. <<p, k>> \in DOMAIN rOff /\ <<p, k>> \in DOMAIN chanOff /\ <<p, k>> \in DOMAIN rLeft
        /\ <<p, k>> \in DOMAIN rPc
    BY <1>2 DEF Typed
  <2>. QED
    BY <1>1, <2>1
<1>8. \A q \in Rdma \X Nvl : q # <<p, k>> =>
        /\ rPc'[q] = rPc[q] /\ rOff'[q] = rOff[q] /\ chanOff'[q] = chanOff[q]
        /\ nvlHead'[q] = nvlHead[q] /\ rHead'[q] = rHead[q] /\ rLeft'[q] = rLeft[q] /\ recvX'[q] = recvX[q]
  BY <1>1, <1>2 DEF Typed
<1>9. \A s \in Rdma : Received(p, k, s)' = 0
  <2>. SUFFICES ASSUME NEW s \in Rdma PROVE Received(p, k, s)' = 0
    OBVIOUS
  <2>1. Received(p, k, s)' = rOff'[<<p, k>>][s] - RowBase(s, p, k)'
    BY <1>7 DEF Received
  <2>2. RowBase(s, p, k)' = row[s] /\ row[s] \in Int
    BY <1>2, <1>3, RouteFixed
  <2>. QED
    BY <1>7, <2>1, <2>2
<1>10. Missing(p, k)' = Missing(p, k)
  <2>1. \A s \in Rdma : /\ Received(p, k, s)' = Received(p, k, s)
                        /\ FlowTo(s, p, k)' = FlowTo(s, p, k)
                        /\ \A v : RankPlace(s, p, k, v)' = RankPlace(s, p, k, v)
    BY <1>2, <1>4, <1>9, RouteFixed
  <2>. QED
    BY <2>1 DEF Missing
<1>11. QueueOK(p, k)'
  <2>1. \A s : InQueue(p, k, s)' = InQueue(p, k, s)
    BY <1>1, <1>2 DEF InQueue
  <2>2. \A s : \A i : Earlier(InQueue(p, k, s), i)' = Earlier(InQueue(p, k, s), i)
    BY <2>1 DEF Earlier
  <2>3. \A s \in Rdma : Received(p, k, s)' = Received(p, k, s)
    BY <1>4, <1>9
  <2>4. /\ nvlHead' = nvlHead /\ rHead' = rHead /\ nvlTail' = nvlTail
        /\ fNvlTail' = fNvlTail /\ nvlBuf' = nvlBuf /\ fIdx' = fIdx
        /\ route' = route
    BY <1>1, <1>2
  <2>. QED
    BY <1>2, <2>1, <2>2, <2>3, <2>4, RouteFixed DEF QueueOK
<1>12. ReceiverOK(p, k)'
  <2>1. \A s \in Rdma : Received(p, k, s)' \in Nat
    BY <1>9
  <2>2. /\ rLeft'[<<p, k>>] = Cardinality(Missing(p, k)') /\ rPc'[<<p, k>>] # "prefix"
        /\ rPc'[<<p, k>>] = "done" => rLeft'[<<p, k>>] = 0
    BY <1>5, <1>7, <1>10
  <2>3. \A s \in Rdma : chanOff'[<<p, k>>][s] = RowBase(s, p, k)'
    BY <1>2, <1>3, <1>7, RouteFixed
  <2>4. \A s \in Rdma : /\ Received(p, k, s)' = Received(p, k, s)
                        /\ FlowTo(s, p, k)' = FlowTo(s, p, k)
                        /\ RowBase(s, p, k)' = RowBase(s, p, k)
                        /\ \A v : RankPlace(s, p, k, v)' = RankPlace(s, p, k, v)
    BY <1>2, <1>4, <1>9, RouteFixed
  <2>5. recvX' = recvX
    BY <1>1
  <2>6. /\ \A x \in recvX'[<<p, k>>] :
             \E s \in Rdma : \E u \in FlowTo(s, p, k)' :
               /\ RankPlace(s, p, k, u)' < Received(p, k, s)'
               /\ x = <<RowBase(s, p, k)' + RankPlace(s, p, k, u)', <<s, u>> >>
        /\ \A s \in Rdma : \A u \in FlowTo(s, p, k)' :
             RankPlace(s, p, k, u)' < Received(p, k, s)' =>
               <<RowBase(s, p, k)' + RankPlace(s, p, k, u)', <<s, u>> >> \in recvX'[<<p, k>>]
    BY <1>2, <2>4, <2>5 DEF ReceiverOK
  <2>. QED
    BY <2>1, <2>2, <2>3, <2>6 DEF ReceiverOK
<1>. QED
  BY <1>1, <1>6, <1>8, <1>11, <1>12, ReceiverStep

\* What a receiver can see of its queue.
Published(d, j, s) ==
  {i \in rHead[<<d, j>>] .. nvlTail[<<d, j>>] - 1 : nvlBuf[<<d, j>>][i % NvlRecv][1] = s}

\* What is published of a queue comes before the rest.
LEMMA QueueSplits ==
  ASSUME IInv, NEW d \in Rdma, NEW j \in Nvl, NEW s \in Rdma
  PROVE  LET t    == nvlTail[<<d, j>>]
             P    == Published(d, j, s)
             Q    == InQueue(d, j, s)
             Rest == {i \in Q : t <= i}
         IN  /\ P \in SUBSET Int /\ IsFiniteSet(P) /\ Cardinality(P) \in Nat
             /\ Q \in SUBSET Int /\ IsFiniteSet(Q) /\ Cardinality(Q) \in Nat
             /\ \A i \in P : i \in Q /\ Earlier(Q, i) = Earlier(P, i)
             /\ Cardinality(Rest) \in Nat /\ Cardinality(Q) = Cardinality(P) + Cardinality(Rest)
             /\ \A i \in Rest : /\ Earlier(Rest, i) \in Nat
                                /\ Earlier(Q, i) = Cardinality(P) + Earlier(Rest, i)
<1>. DEFINE b    == rHead[<<d, j>>]
            t    == nvlTail[<<d, j>>]
            e    == fNvlTail[<<d, j>>]
            P    == Published(d, j, s)
            Q    == InQueue(d, j, s)
            Rest == {i \in Q : t <= i}
<1>1. b \in Nat /\ t \in Nat /\ e \in Nat /\ b <= t /\ t <= e
  <2>1. Typed /\ QueueOK(d, j)
    BY DEF IInv
  <2>2. b \in Nat /\ t \in Nat /\ e \in Nat
    BY <2>1, RankTypes
  <2>3. b <= t /\ t <= e
    BY <2>1 DEF QueueOK
  <2>. QED
    BY <2>2, <2>3
<1>2. Q \in SUBSET (b .. e - 1)
  BY DEF InQueue
<1>3. P = {i \in Q : i < t}
  <2>1. \A i : i \in b .. t - 1 <=> i \in b .. e - 1 /\ i < t
    <3>. HIDE DEF b, t, e
    <3>. QED
      BY <1>1
  <2>2. /\ P = {i \in b .. t - 1 : nvlBuf[<<d, j>>][i % NvlRecv][1] = s}
        /\ Q = {i \in b .. e - 1 : nvlBuf[<<d, j>>][i % NvlRecv][1] = s}
    BY DEF Published, InQueue
  <2>. HIDE DEF b, t, e, P, Q
  <2>. QED
    BY <2>1, <2>2
<1>4. IsFiniteSet(b .. e - 1)
  BY <1>1, IntervalSize
<1>. HIDE DEF b, t, e, P, Q
<1>5. Q \in SUBSET Int /\ IsFiniteSet(Q) /\ Cardinality(Q) \in Nat
  <2>1. Q \in SUBSET Int
    BY <1>1, <1>2
  <2>2. IsFiniteSet(Q)
    BY <1>2, <1>4, FS_Subset
  <2>. QED
    BY <2>1, <2>2, FS_CardinalityType
<1>6. /\ P \in SUBSET Q /\ IsFiniteSet(P) /\ Cardinality(P) \in Nat
      /\ Rest \in SUBSET Q /\ IsFiniteSet(Rest) /\ Cardinality(Rest) \in Nat
  <2>1. P \in SUBSET Q /\ Rest \in SUBSET Q
    BY <1>3
  <2>2. IsFiniteSet(P) /\ IsFiniteSet(Rest)
    BY <1>5, <2>1, FS_Subset
  <2>. QED
    BY <2>1, <2>2, FS_CardinalityType
<1>7. Q = P \cup Rest /\ P \cap Rest = {}
  <2>1. \A i \in Q : i \in Int
    BY <1>5
  <2>. QED
    BY <1>1, <1>3, <2>1
<1>8. ASSUME NEW A, IsFiniteSet(A), NEW B, IsFiniteSet(B), A \cap B = {}
      PROVE  Cardinality(A \cup B) = Cardinality(A) + Cardinality(B)
  <2>1. Cardinality(A \cup B) = Cardinality(A) + Cardinality(B) - Cardinality(A \cap B)
    BY <1>8, FS_Union
  <2>2. Cardinality(A \cap B) = 0 /\ Cardinality(A) \in Nat /\ Cardinality(B) \in Nat
    BY <1>8, FS_EmptySet, FS_CardinalityType
  <2>. QED
    BY <2>1, <2>2
<1>9. Cardinality(Q) = Cardinality(P) + Cardinality(Rest)
  BY <1>6, <1>7, <1>8
<1>10. ASSUME NEW i \in P PROVE i \in Q /\ Earlier(Q, i) = Earlier(P, i)
  <2>1. i \in Q /\ i \in Int /\ i < t
    BY <1>3, <1>5
  <2>2. {k \in Q : k < i} = {k \in P : k < i}
    <3>1. \A k \in Q : k \in Int
      BY <1>5
    <3>2. \A k \in Q : k < i => k < t
      BY <1>1, <2>1, <3>1
    <3>. QED
      BY <1>3, <3>2
  <2>. QED
    BY <2>1, <2>2 DEF Earlier
<1>11. ASSUME NEW i \in Rest
       PROVE  /\ Earlier(Rest, i) \in Nat
              /\ Earlier(Q, i) = Cardinality(P) + Earlier(Rest, i)
  <2>. DEFINE I == {k \in Rest : k < i}
  <2>1. IsFiniteSet(I) /\ Earlier(Rest, i) \in Nat
    BY <1>6, EarlierIsNat
  <2>2. {k \in Q : k < i} = P \cup I /\ P \cap I = {}
    <3>1. i \in Int /\ t <= i /\ \A k \in Q : k \in Int
      BY <1>5, <1>6
    <3>2. \A k \in P : k < i
      BY <1>1, <1>3, <3>1
    <3>. QED
      BY <1>7, <3>2
  <2>. HIDE DEF I, Rest
  <2>3. Cardinality(P \cup I) = Cardinality(P) + Cardinality(I)
    BY <1>6, <1>8, <2>1, <2>2
  <2>. QED
    BY <2>1, <2>2, <2>3 DEF Earlier, I
<1>12. P \in SUBSET Int
  BY <1>5, <1>6
<1>. HIDE DEF Rest
<1>. QED
  BY <1>5, <1>6, <1>9, <1>10, <1>11, <1>12 DEF t, P, Q, Rest

\* Every published entry of a queue is a token at its place, and every place is there.
LEMMA QueueIs ==
  ASSUME IInv, NEW d \in Rdma, NEW j \in Nvl
  PROVE  LET b == rHead[<<d, j>>]
             t == nvlTail[<<d, j>>]
             At(i) == nvlBuf[<<d, j>>][i % NvlRecv]
         IN  /\ b \in Nat /\ t \in Nat /\ b <= t
             /\ \A s \in Rdma :
                  /\ Published(d, j, s) \in SUBSET Int /\ IsFiniteSet(Published(d, j, s))
                  /\ Cardinality(Published(d, j, s)) \in Nat /\ Received(d, j, s) \in Nat
                  /\ \A i \in Published(d, j, s) : i \in b .. t - 1 /\ At(i)[1] = s
             /\ \A i \in b .. t - 1 : \E s \in Rdma : \E u \in FlowTo(s, d, j) :
                  /\ i \in Published(d, j, s) /\ At(i) = <<s, u>>
                  /\ RankPlace(s, d, j, u) = Received(d, j, s) + Earlier(Published(d, j, s), i)
             /\ \A s \in Rdma : \A u \in FlowTo(s, d, j) :
                  /\ Received(d, j, s) <= RankPlace(s, d, j, u)
                  /\ RankPlace(s, d, j, u) < Received(d, j, s) + Cardinality(Published(d, j, s))
                  => \E i \in Published(d, j, s) :
                       /\ At(i) = <<s, u>>
                       /\ RankPlace(s, d, j, u) = Received(d, j, s) + Earlier(Published(d, j, s), i)
<1>. DEFINE b == rHead[<<d, j>>]
            t == nvlTail[<<d, j>>]
            At(i) == nvlBuf[<<d, j>>][i % NvlRecv]
            Q(s) == Published(d, j, s)
            R(s) == Received(d, j, s)
<1>1. Typed /\ route \in Routings /\ QueueOK(d, j) /\ ReceiverOK(d, j)
  BY DEF IInv, Typed
<1>2. b \in Nat /\ t \in Nat /\ b <= t
  <2>1. b \in Nat /\ t \in Nat
    BY <1>1, RankTypes
  <2>2. b <= t
    BY <1>1 DEF QueueOK
  <2>. QED
    BY <2>1, <2>2
<1>3. \A i \in b .. t - 1 : At(i) \in Int \X Int
  <2>. SUFFICES ASSUME NEW i \in b .. t - 1 PROVE At(i) \in Int \X Int
    OBVIOUS
  <2>1. nvlBuf[<<d, j>>] \in [0 .. NvlRecv - 1 -> Int \X Int]
    BY <1>1, RankTypes
  <2>2. i % NvlRecv \in 0 .. NvlRecv - 1
    <3>1. i \in Int /\ NvlRecv \in Nat \ {0}
      BY <1>2, Numbers
    <3>. QED
      BY <3>1
  <2>. QED
    BY <2>1, <2>2
<1>4. \A s : Q(s) = {i \in b .. t - 1 : At(i)[1] = s}
  BY DEF Published
<1>5. /\ \A i \in b .. t - 1 : At(i)[1] \in Rdma
      /\ \A s \in Rdma : \A i \in Q(s) : /\ At(i)[2] \in FlowTo(s, d, j)
                                         /\ RankPlace(s, d, j, At(i)[2]) = R(s) + Earlier(Q(s), i)
  <2>1. /\ fNvlTail[<<d, j>>] \in Nat /\ t <= fNvlTail[<<d, j>>]
        /\ \A i \in b .. fNvlTail[<<d, j>>] - 1 : At(i)[1] \in Rdma
    BY <1>1, RankTypes DEF QueueOK
  <2>2. \A i \in b .. t - 1 : At(i)[1] \in Rdma
    <3>. HIDE DEF b, t, At
    <3>1. \A i \in b .. t - 1 : i \in b .. fNvlTail[<<d, j>>] - 1
      BY <1>2, <2>1
    <3>. QED
      BY <2>1, <3>1
  <2>3. ASSUME NEW s \in Rdma, NEW i \in Q(s)
        PROVE  /\ At(i)[2] \in FlowTo(s, d, j)
               /\ RankPlace(s, d, j, At(i)[2]) = R(s) + Earlier(Q(s), i)
    <3>1. i \in InQueue(d, j, s) /\ Earlier(InQueue(d, j, s), i) = Earlier(Q(s), i)
      BY QueueSplits
    <3>2. /\ At(i)[2] \in FlowTo(s, d, j)
          /\ RankPlace(s, d, j, At(i)[2]) = R(s) + Earlier(InQueue(d, j, s), i)
      BY <1>1, <3>1 DEF QueueOK
    <3>. HIDE DEF At, Q, R
    <3>. QED
      BY <3>1, <3>2
  <2>. QED
    BY <2>2, <2>3
<1>. HIDE DEF At, Q, R, b, t
<1>6. ASSUME NEW s \in Rdma
      PROVE  /\ Q(s) \in SUBSET Int /\ IsFiniteSet(Q(s)) /\ Cardinality(Q(s)) \in Nat /\ R(s) \in Nat
             /\ \A i \in Q(s) : i \in b .. t - 1 /\ At(i)[1] = s
  <2>1. R(s) \in Nat
    BY <1>1 DEF ReceiverOK, R
  <2>2. \A i \in Q(s) : i \in b .. t - 1 /\ At(i)[1] = s /\ i \in Int
    BY <1>2, <1>4
  <2>3. IsFiniteSet(b .. t - 1)
    BY <1>2, IntervalSize
  <2>4. Q(s) \in SUBSET (b .. t - 1)
    BY <2>2
  <2>5. IsFiniteSet(Q(s))
    BY <2>3, <2>4, FS_Subset
  <2>. QED
    BY <2>1, <2>2, <2>5, FS_CardinalityType
<1>7. ASSUME NEW i \in b .. t - 1
      PROVE  \E s \in Rdma : \E u \in FlowTo(s, d, j) :
               i \in Q(s) /\ At(i) = <<s, u>> /\ RankPlace(s, d, j, u) = R(s) + Earlier(Q(s), i)
  <2>1. At(i)[1] \in Rdma /\ i \in Q(At(i)[1])
    BY <1>4, <1>5
  <2>2. At(i) = <<At(i)[1], At(i)[2]>>
    BY <1>3
  <2>. QED
    BY <1>5, <2>1, <2>2
<1>8. ASSUME NEW s \in Rdma, NEW u \in FlowTo(s, d, j),
             R(s) <= RankPlace(s, d, j, u), RankPlace(s, d, j, u) < R(s) + Cardinality(Q(s))
      PROVE  \E i \in Q(s) : At(i) = <<s, u>> /\ RankPlace(s, d, j, u) = R(s) + Earlier(Q(s), i)
  <2>. DEFINE r == RankPlace(s, d, j, u)
              n == r - R(s)
  <2>1. u \in Int /\ FlowTo(s, d, j) \in SUBSET Int
    BY <1>1, FlowIs
  <2>2. r \in Nat
    BY <1>1, <2>1, RankPlaceIs
  <2>. HIDE DEF r
  <2>3. n \in Nat /\ n < Cardinality(Q(s)) /\ r = R(s) + n
    BY <1>6, <1>8, <2>2 DEF r
  <2>. HIDE DEF n
  <2>4. PICK i \in Q(s) : Earlier(Q(s), i) = n
    <3>. DEFINE A == Q(s)
    <3>1. A \in SUBSET Int /\ IsFiniteSet(A) /\ n < Cardinality(A) /\ n \in Nat
      BY <1>6, <2>3
    <3>. HIDE DEF A
    <3>2. \E a \in A : Earlier(A, a) = n
      BY <3>1, EarlierOnto
    <3>. QED
      BY <3>2 DEF A
  <2>5. At(i)[2] \in FlowTo(s, d, j) /\ RankPlace(s, d, j, At(i)[2]) = r
    BY <1>5, <2>3, <2>4
  <2>6. At(i)[2] = u
    <3>1. At(i)[2] \in Int
      BY <2>1, <2>5
    <3>. QED
      BY <1>1, <2>1, <2>5, <3>1, RankPlaceIs DEF r
  <2>7. At(i) = <<s, u>>
    BY <1>3, <1>6, <2>6
  <2>. QED
    BY <2>3, <2>4, <2>7 DEF r
<1>. QED
  BY <1>2, <1>6, <1>7, <1>8 DEF At, Q, R, b, t

\* The published entries of a queue are tokens that are missing before they are
\* received and not after.
LEMMA MissingFalls ==
  ASSUME IInv, NEW d \in Rdma, NEW j \in Nvl, NEW n,
         \A s \in Rdma : n[s] = Received(d, j, s) + Cardinality(Published(d, j, s))
  PROVE  /\ Cardinality(After(d, j, n)) \in Nat
         /\ Cardinality(Missing(d, j))
              = Cardinality(After(d, j, n)) + (nvlTail[<<d, j>>] - rHead[<<d, j>>])
<1>. DEFINE b == rHead[<<d, j>>]
            t == nvlTail[<<d, j>>]
            At(i) == nvlBuf[<<d, j>>][i % NvlRecv]
            Q(s) == Published(d, j, s)
            R(s) == Received(d, j, s)
            h == [s \in Rdma |-> R(s)]
            T == {At(i) : i \in b .. t - 1}
<1>1. /\ b \in Nat /\ t \in Nat /\ b <= t
      /\ \A s \in Rdma :
           /\ Q(s) \in SUBSET Int /\ IsFiniteSet(Q(s)) /\ Cardinality(Q(s)) \in Nat /\ R(s) \in Nat
           /\ \A i \in Q(s) : i \in b .. t - 1 /\ At(i)[1] = s
      /\ \A i \in b .. t - 1 : \E s \in Rdma : \E u \in FlowTo(s, d, j) :
           i \in Q(s) /\ At(i) = <<s, u>> /\ RankPlace(s, d, j, u) = R(s) + Earlier(Q(s), i)
      /\ \A s \in Rdma : \A u \in FlowTo(s, d, j) :
           R(s) <= RankPlace(s, d, j, u) /\ RankPlace(s, d, j, u) < R(s) + Cardinality(Q(s))
           => \E i \in Q(s) : At(i) = <<s, u>> /\ RankPlace(s, d, j, u) = R(s) + Earlier(Q(s), i)
  <2>1. /\ b \in Nat /\ t \in Nat /\ b <= t
        /\ \A s \in Rdma :
           /\ Q(s) \in SUBSET Int /\ IsFiniteSet(Q(s)) /\ Cardinality(Q(s)) \in Nat /\ R(s) \in Nat
           /\ \A i \in Q(s) : i \in b .. t - 1 /\ At(i)[1] = s
    BY QueueIs
  <2>2. \A i \in b .. t - 1 : \E s \in Rdma : \E u \in FlowTo(s, d, j) :
           i \in Q(s) /\ At(i) = <<s, u>> /\ RankPlace(s, d, j, u) = R(s) + Earlier(Q(s), i)
    BY QueueIs
  <2>3. \A s \in Rdma : \A u \in FlowTo(s, d, j) :
           R(s) <= RankPlace(s, d, j, u) /\ RankPlace(s, d, j, u) < R(s) + Cardinality(Q(s))
           => \E i \in Q(s) : At(i) = <<s, u>> /\ RankPlace(s, d, j, u) = R(s) + Earlier(Q(s), i)
    BY QueueIs
  <2>. HIDE DEF b, t, At, Q, R
  <2>. QED
    BY <2>1, <2>2, <2>3
<1>2. route \in Routings
  BY DEF IInv, Typed
<1>3. Missing(d, j) = After(d, j, h)
  BY MissingIs
<1>4. /\ IsFiniteSet(After(d, j, h)) /\ IsFiniteSet(After(d, j, n))
      /\ Cardinality(After(d, j, h)) \in Nat /\ Cardinality(After(d, j, n)) \in Nat
  BY <1>2, AfterIs
<1>5. \A s, u : <<s, u>> \in After(d, j, h) <=>
        s \in Rdma /\ u \in FlowTo(s, d, j) /\ R(s) <= RankPlace(s, d, j, u)
  <2>1. \A s, u : <<s, u>> \in After(d, j, h) <=>
          s \in Rdma /\ u \in FlowTo(s, d, j) /\ h[s] <= RankPlace(s, d, j, u)
    BY <1>2, AfterIs
  <2>2. \A s \in Rdma : h[s] = R(s)
    OBVIOUS
  <2>. HIDE DEF h, R
  <2>. QED
    BY <2>1, <2>2
<1>6. \A s, u : <<s, u>> \in After(d, j, n) <=>
        s \in Rdma /\ u \in FlowTo(s, d, j) /\ R(s) + Cardinality(Q(s)) <= RankPlace(s, d, j, u)
  <2>1. \A s, u : <<s, u>> \in After(d, j, n) <=>
          s \in Rdma /\ u \in FlowTo(s, d, j) /\ n[s] <= RankPlace(s, d, j, u)
    BY <1>2, AfterIs
  <2>2. \A s \in Rdma : n[s] = R(s) + Cardinality(Q(s))
    OBVIOUS
  <2>. HIDE DEF R, Q
  <2>. QED
    BY <2>1, <2>2
<1>. HIDE DEF At, Q, R, b, t, h
<1>7. /\ \A x \in After(d, j, h) : \E s \in Rdma : \E u \in FlowTo(s, d, j) : x = <<s, u>>
      /\ \A x \in After(d, j, n) : \E s \in Rdma : \E u \in FlowTo(s, d, j) : x = <<s, u>>
  <2>1. \A x \in After(d, j, h) : \E s \in Rdma : \E u \in FlowTo(s, d, j) : x = <<s, u>>
    BY DEF After
  <2>2. \A x \in After(d, j, n) : \E s \in Rdma : \E u \in FlowTo(s, d, j) : x = <<s, u>>
    BY DEF After
  <2>. QED
    BY <2>1, <2>2
<1>8. ASSUME NEW i \in b .. t - 1
      PROVE  \E s \in Rdma : \E u \in FlowTo(s, d, j) :
               /\ At(i) = <<s, u>> /\ i \in Q(s) /\ Earlier(Q(s), i) \in Nat
               /\ Earlier(Q(s), i) < Cardinality(Q(s))
               /\ RankPlace(s, d, j, u) = R(s) + Earlier(Q(s), i)
  <2>1. PICK s \in Rdma : \E u \in FlowTo(s, d, j) :
          i \in Q(s) /\ At(i) = <<s, u>> /\ RankPlace(s, d, j, u) = R(s) + Earlier(Q(s), i)
    BY <1>1
  <2>2. Earlier(Q(s), i) \in Nat /\ Earlier(Q(s), i) < Cardinality(Q(s))
    <3>. DEFINE A == Q(s)
    <3>1. A \in SUBSET Int /\ IsFiniteSet(A) /\ i \in A /\ i \in Int
      BY <1>1, <2>1
    <3>. HIDE DEF A
    <3>2. Earlier(A, i) \in Nat /\ Earlier(A, i) < Cardinality(A)
      BY <3>1, EarlierIsNat, EarlierEnds
    <3>. QED
      BY <3>2 DEF A
  <2>. QED
    BY <2>1, <2>2
<1>9. T \cap After(d, j, n) = {}
  <2>. SUFFICES ASSUME NEW i \in b .. t - 1, At(i) \in After(d, j, n) PROVE FALSE
    OBVIOUS
  <2>1. PICK s \in Rdma : \E u \in FlowTo(s, d, j) :
          /\ At(i) = <<s, u>> /\ i \in Q(s) /\ Earlier(Q(s), i) \in Nat
          /\ Earlier(Q(s), i) < Cardinality(Q(s))
          /\ RankPlace(s, d, j, u) = R(s) + Earlier(Q(s), i)
    BY <1>8
  <2>2. PICK u \in FlowTo(s, d, j) :
          /\ At(i) = <<s, u>> /\ RankPlace(s, d, j, u) = R(s) + Earlier(Q(s), i)
    BY <2>1
  <2>3. R(s) + Cardinality(Q(s)) <= RankPlace(s, d, j, u)
    BY <1>6, <2>2
  <2>4. R(s) \in Nat /\ Cardinality(Q(s)) \in Nat
    BY <1>1
  <2>. QED
    BY <2>1, <2>2, <2>3, <2>4
<1>10. After(d, j, h) = T \cup After(d, j, n)
  <2>1. ASSUME NEW i \in b .. t - 1 PROVE At(i) \in After(d, j, h)
    <3>1. PICK s \in Rdma : \E u \in FlowTo(s, d, j) :
            /\ At(i) = <<s, u>> /\ Earlier(Q(s), i) \in Nat
            /\ RankPlace(s, d, j, u) = R(s) + Earlier(Q(s), i)
      BY <1>8
    <3>2. PICK u \in FlowTo(s, d, j) :
            At(i) = <<s, u>> /\ RankPlace(s, d, j, u) = R(s) + Earlier(Q(s), i)
      BY <3>1
    <3>3. R(s) \in Nat
      BY <1>1
    <3>4. R(s) <= RankPlace(s, d, j, u)
      BY <3>1, <3>2, <3>3
    <3>. QED
      BY <1>5, <3>2, <3>4
  <2>2. ASSUME NEW x \in After(d, j, n) PROVE x \in After(d, j, h)
    <3>1. PICK s \in Rdma : \E u \in FlowTo(s, d, j) : x = <<s, u>>
      BY <1>7
    <3>2. PICK u \in FlowTo(s, d, j) : x = <<s, u>>
      BY <3>1
    <3>3. R(s) + Cardinality(Q(s)) <= RankPlace(s, d, j, u)
      BY <1>6, <3>2
    <3>4. R(s) \in Nat /\ Cardinality(Q(s)) \in Nat /\ RankPlace(s, d, j, u) \in Nat
      <4>1. u \in Int
        BY <1>2, FlowIs
      <4>. QED
        BY <1>1, <1>2, <4>1, RankPlaceIs
    <3>5. R(s) <= RankPlace(s, d, j, u)
      BY <3>3, <3>4
    <3>. QED
      BY <1>5, <3>2, <3>5
  <2>3. ASSUME NEW x \in After(d, j, h), x \notin After(d, j, n) PROVE x \in T
    <3>1. PICK s \in Rdma : \E u \in FlowTo(s, d, j) : x = <<s, u>>
      BY <1>7
    <3>2. PICK u \in FlowTo(s, d, j) : x = <<s, u>>
      BY <3>1
    <3>3. R(s) <= RankPlace(s, d, j, u) /\ ~ (R(s) + Cardinality(Q(s)) <= RankPlace(s, d, j, u))
      BY <1>5, <1>6, <2>3, <3>2
    <3>4. R(s) \in Nat /\ Cardinality(Q(s)) \in Nat /\ RankPlace(s, d, j, u) \in Nat
      <4>1. u \in Int
        BY <1>2, FlowIs
      <4>. QED
        BY <1>1, <1>2, <4>1, RankPlaceIs
    <3>5. RankPlace(s, d, j, u) < R(s) + Cardinality(Q(s))
      BY <3>3, <3>4
    <3>6. PICK i \in Q(s) : At(i) = <<s, u>>
      BY <1>1, <3>3, <3>5
    <3>. QED
      BY <1>1, <3>2, <3>6
  <2>. QED
    BY <2>1, <2>2, <2>3
<1>11. IsFiniteSet(T) /\ Cardinality(T) = t - b
  <2>. DEFINE I == b .. t - 1
              f == [i \in I |-> At(i)]
  <2>1. IsFiniteSet(I) /\ Cardinality(I) = t - b
    BY <1>1, IntervalSize
  <2>2. ASSUME NEW x \in I, NEW y \in I, At(x) = At(y) PROVE x = y
    <3>0. \A z \in I : At(z)[1] \in Rdma /\ z \in Q(At(z)[1]) /\ Earlier(Q(At(z)[1]), z) \in Nat
                       /\ RankPlace(At(z)[1], d, j, At(z)[2]) = R(At(z)[1]) + Earlier(Q(At(z)[1]), z)
      <4>. SUFFICES ASSUME NEW z \in I
                    PROVE  At(z)[1] \in Rdma /\ z \in Q(At(z)[1]) /\ Earlier(Q(At(z)[1]), z) \in Nat
                           /\ RankPlace(At(z)[1], d, j, At(z)[2]) = R(At(z)[1]) + Earlier(Q(At(z)[1]), z)
        OBVIOUS
      <4>1. PICK s \in Rdma : \E u \in FlowTo(s, d, j) :
              /\ At(z) = <<s, u>> /\ z \in Q(s) /\ Earlier(Q(s), z) \in Nat
              /\ RankPlace(s, d, j, u) = R(s) + Earlier(Q(s), z)
        BY <1>8
      <4>2. PICK u \in FlowTo(s, d, j) :
              At(z) = <<s, u>> /\ RankPlace(s, d, j, u) = R(s) + Earlier(Q(s), z)
        BY <4>1
      <4>3. At(z)[1] = s /\ At(z)[2] = u
        BY <4>2
      <4>. QED
        BY <4>1, <4>2, <4>3
    <3>. DEFINE s == At(x)[1]
    <3>1. s \in Rdma /\ At(y)[1] = s /\ x \in Q(s) /\ y \in Q(s)
      BY <2>2, <3>0
    <3>2. /\ Earlier(Q(s), x) \in Nat /\ Earlier(Q(s), y) \in Nat
          /\ R(s) + Earlier(Q(s), x) = R(s) + Earlier(Q(s), y)
      BY <2>2, <3>0
    <3>4. R(s) \in Nat
      BY <1>1, <3>1
    <3>5. Earlier(Q(s), x) = Earlier(Q(s), y) /\ x \in Q(s) /\ y \in Q(s)
      BY <3>1, <3>2, <3>4
    <3>. DEFINE A == Q(s)
    <3>6. A \in SUBSET Int /\ IsFiniteSet(A) /\ x \in A /\ y \in A /\ y \in Int
          /\ Earlier(A, x) = Earlier(A, y)
      BY <1>1, <3>5
    <3>. HIDE DEF A
    <3>. QED
      BY <3>6, EarlierTells
  <2>3. f \in Bijection(I, T)
    BY <2>2 DEF Bijection, Injection, Surjection, IsInjective
  <2>. HIDE DEF f, I, T
  <2>. QED
    BY <2>1, <2>3, FS_Bijection DEF ExistsBijection
<1>12. /\ Cardinality(T \cup After(d, j, n))
            = Cardinality(T) + Cardinality(After(d, j, n)) - Cardinality(T \cap After(d, j, n))
       /\ Cardinality(T \cap After(d, j, n)) = 0
  <2>. DEFINE B == After(d, j, n)
  <2>1. IsFiniteSet(T) /\ IsFiniteSet(B) /\ T \cap B = {}
    BY <1>4, <1>9, <1>11
  <2>. HIDE DEF T, B
  <2>2. Cardinality(T \cup B) = Cardinality(T) + Cardinality(B) - Cardinality(T \cap B)
    BY <2>1, FS_Union
  <2>3. Cardinality(T \cap B) = 0
    BY <2>1, FS_EmptySet
  <2>. QED
    BY <2>2, <2>3 DEF B
<1>. HIDE DEF T
<1>. QED
  BY <1>1, <1>3, <1>4, <1>10, <1>11, <1>12 DEF b, t

LEMMA CopyRowsOK ==
  ASSUME IInv, NEW p \in Rdma, NEW k \in Nvl, CopyRows(p, k)
  PROVE  IInv'
<1>. DEFINE b == rHead[<<p, k>>]
            t == nvlTail[<<p, k>>]
            At(i) == nvlBuf[<<p, k>>][i % NvlRecv]
            Q(s) == Published(p, k, s)
            R(s) == Received(p, k, s)
            off == rOff[<<p, k>>]
            n == [s \in Rdma |-> R(s) + Cardinality(Q(s))]
            row == [s \in Rdma |-> off[s] + Cardinality(Q(s))]
            new == {<<off[At(i)[1]] + Earlier(Q(At(i)[1]), i), At(i)>> : i \in b .. t - 1}
            left == rLeft[<<p, k>>] - Cardinality(b .. t - 1)
<1>1. /\ rPc[<<p, k>>] = "run"
      /\ recvX' = [recvX EXCEPT ![<<p, k>>] = @ \cup new]
      /\ rOff' = [rOff EXCEPT ![<<p, k>>] = row]
      /\ rLeft' = [rLeft EXCEPT ![<<p, k>>] = left]
      /\ rHead' = [rHead EXCEPT ![<<p, k>>] = t]
      /\ rPc' = [rPc EXCEPT ![<<p, k>>] = "publish"]
      /\ UNCHANGED <<route, meta, recvBuf, rdmaHead, credited, warpVars, coordVars, fwdVars,
                  nvlHead, chanOff>>
  <2>1. \A s : {i \in b .. t - 1 : At(i)[1] = s} = Q(s)
    BY DEF Published
  <2>2. /\ rPc[<<p, k>>] = "run"
        /\ rLeft' = [rLeft EXCEPT ![<<p, k>>] = left]
        /\ rHead' = [rHead EXCEPT ![<<p, k>>] = t]
        /\ rPc' = [rPc EXCEPT ![<<p, k>>] = "publish"]
        /\ UNCHANGED <<route, meta, recvBuf, rdmaHead, credited, warpVars, coordVars, fwdVars,
                  nvlHead, chanOff>>
    BY DEF CopyRows
  <2>3. recvX' = [recvX EXCEPT ![<<p, k>>] = @ \cup new]
    BY DEF CopyRows, Published
  <2>4. rOff' = [rOff EXCEPT ![<<p, k>>] = row]
    BY DEF CopyRows, Published
  <2>. QED
    BY <2>2, <2>3, <2>4
<1>2. /\ Typed /\ route \in Routings /\ route' = route /\ QueueOK(p, k) /\ ReceiverOK(p, k)
      /\ nvlTail' = nvlTail /\ fNvlTail' = fNvlTail /\ nvlHead' = nvlHead /\ nvlBuf' = nvlBuf
      /\ fIdx' = fIdx /\ chanOff' = chanOff
  BY <1>1 DEF IInv, Typed, fwdVars
<1>3. /\ b \in Nat /\ t \in Nat /\ b <= t
      /\ \A s \in Rdma :
           /\ Q(s) \in SUBSET Int /\ IsFiniteSet(Q(s)) /\ Cardinality(Q(s)) \in Nat /\ R(s) \in Nat
           /\ \A i \in Q(s) : i \in b .. t - 1 /\ At(i)[1] = s
  BY QueueIs
<1>4. \A i \in b .. t - 1 : \E s \in Rdma : \E u \in FlowTo(s, p, k) :
        i \in Q(s) /\ At(i) = <<s, u>> /\ RankPlace(s, p, k, u) = R(s) + Earlier(Q(s), i)
  BY QueueIs
<1>5. \A s \in Rdma : \A u \in FlowTo(s, p, k) :
        R(s) <= RankPlace(s, p, k, u) /\ RankPlace(s, p, k, u) < R(s) + Cardinality(Q(s))
        => \E i \in Q(s) : At(i) = <<s, u>> /\ RankPlace(s, p, k, u) = R(s) + Earlier(Q(s), i)
  BY QueueIs
<1>6. ASSUME NEW s \in Rdma
      PROVE  /\ RowBase(s, p, k) \in Nat /\ off[s] \in Int /\ off[s] = RowBase(s, p, k) + R(s)
             /\ row[s] = RowBase(s, p, k) + n[s] /\ row[s] \in Int
             /\ n[s] = R(s) + Cardinality(Q(s)) /\ n[s] \in Nat /\ R(s) <= n[s]
             /\ chanOff[<<p, k>>][s] = RowBase(s, p, k)
  <2>1. RowBase(s, p, k) \in Nat
    BY <1>2, OffsetsAreNat
  <2>2. off[s] \in Int
    BY <1>2, RankTypes
  <2>3. R(s) = off[s] - RowBase(s, p, k)
    BY <1>1 DEF Received
  <2>4. R(s) \in Nat /\ Cardinality(Q(s)) \in Nat
    BY <1>3
  <2>5. row[s] = off[s] + Cardinality(Q(s)) /\ n[s] = R(s) + Cardinality(Q(s))
    OBVIOUS
  <2>6. chanOff[<<p, k>>][s] = RowBase(s, p, k)
    BY <1>1, <1>2 DEF ReceiverOK
  <2>. HIDE DEF off, row, n, R, Q
  <2>. QED
    BY <2>1, <2>2, <2>3, <2>4, <2>5, <2>6
<1>7. left = Cardinality(After(p, k, n)) /\ left \in Nat
  <2>1. \A s \in Rdma : n[s] = Received(p, k, s) + Cardinality(Published(p, k, s))
    OBVIOUS
  <2>. HIDE DEF n
  <2>2. Cardinality(After(p, k, n)) \in Nat /\ Cardinality(Missing(p, k)) = Cardinality(After(p, k, n)) + (t - b)
    BY <2>1, MissingFalls
  <2>3. rLeft[<<p, k>>] = Cardinality(Missing(p, k))
    BY <1>1, <1>2 DEF ReceiverOK
  <2>4. Cardinality(b .. t - 1) = t - b
    BY <1>3, IntervalSize
  <2>. QED
    BY <1>3, <2>2, <2>3, <2>4
<1>8. row \in [Rdma -> Int]
  BY <1>6
<1>. HIDE DEF b, t, At, Q, R, off, n, row, new, left
<1>9. /\ rPc' \in [Rdma \X Nvl -> {"prefix", "run", "publish", "done"}]
      /\ rOff' \in [Rdma \X Nvl -> [Rdma -> Int]] /\ chanOff' \in [Rdma \X Nvl -> [Rdma -> Int]]
      /\ nvlHead' \in [Rdma \X Nvl -> Nat] /\ rHead' \in [Rdma \X Nvl -> Nat]
      /\ rLeft' \in [Rdma \X Nvl -> Int]
      /\ DOMAIN recvX' = Rdma \X Nvl
  <2>1. /\ rPc \in [Rdma \X Nvl -> {"prefix", "run", "publish", "done"}]
        /\ rOff \in [Rdma \X Nvl -> [Rdma -> Int]] /\ chanOff \in [Rdma \X Nvl -> [Rdma -> Int]]
        /\ nvlHead \in [Rdma \X Nvl -> Nat] /\ rHead \in [Rdma \X Nvl -> Nat]
        /\ rLeft \in [Rdma \X Nvl -> Int]
        /\ DOMAIN recvX = Rdma \X Nvl
    BY <1>2 DEF Typed
  <2>2. left \in Int /\ t \in Nat
    BY <1>3, <1>7
  <2>. QED
    BY <1>1, <1>8, <2>1, <2>2
<1>10. /\ rOff'[<<p, k>>] = row /\ rLeft'[<<p, k>>] = left /\ rHead'[<<p, k>>] = t
       /\ rPc'[<<p, k>>] = "publish"
       /\ recvX'[<<p, k>>] = recvX[<<p, k>>] \cup new
  <2>1. /\ <<p, k>> \in DOMAIN rOff /\ <<p, k>> \in DOMAIN recvX /\ <<p, k>> \in DOMAIN rLeft
        /\ <<p, k>> \in DOMAIN rPc /\ <<p, k>> \in DOMAIN rHead
    BY <1>2 DEF Typed
  <2>. QED
    BY <1>1, <2>1
<1>11. \A q \in Rdma \X Nvl : q # <<p, k>> =>
         /\ rPc'[q] = rPc[q] /\ rOff'[q] = rOff[q] /\ chanOff'[q] = chanOff[q]
         /\ nvlHead'[q] = nvlHead[q] /\ rHead'[q] = rHead[q] /\ rLeft'[q] = rLeft[q] /\ recvX'[q] = recvX[q]
  BY <1>1, <1>2 DEF Typed
<1>12. \A s : \A j, u : /\ FlowTo(s, p, j)' = FlowTo(s, p, j) /\ RowBase(s, p, j)' = RowBase(s, p, j)
                        /\ RankPlace(s, p, j, u)' = RankPlace(s, p, j, u)
  BY <1>2, RouteFixed
<1>13. ASSUME NEW s \in Rdma PROVE Received(p, k, s)' = n[s]
  <2>1. Received(p, k, s)' = row[s] - RowBase(s, p, k)
    BY <1>10, <1>12 DEF Received
  <2>. QED
    BY <1>6, <2>1
<1>14. Missing(p, k)' = After(p, k, n)
  BY <1>12, <1>13 DEF Missing, After
<1>15. ASSUME NEW s \in Rdma
       PROVE  /\ InQueue(p, k, s)' = {i \in InQueue(p, k, s) : t <= i}
              /\ \A i : Earlier(InQueue(p, k, s), i)' = Earlier({m \in InQueue(p, k, s) : t <= m}, i)
  <2>. DEFINE e == fNvlTail[<<p, k>>]
              OfS(i) == nvlBuf[<<p, k>>][i % NvlRecv][1] = s
  <2>1. /\ InQueue(p, k, s)  = {i \in b .. e - 1 : OfS(i)}
        /\ InQueue(p, k, s)' = {i \in t .. e - 1 : OfS(i)}
    BY <1>2, <1>10 DEF InQueue, b
  <2>2. e \in Nat
    BY <1>2, RankTypes
  <2>. HIDE DEF e, OfS
  <2>3. \A i : i \in t .. e - 1 <=> i \in b .. e - 1 /\ t <= i
    BY <1>3, <2>2
  <2>4. InQueue(p, k, s)' = {i \in InQueue(p, k, s) : t <= i}
    BY <2>1, <2>3
  <2>. QED
    BY <2>4 DEF Earlier
<1>16. QueueOK(p, k)'
  <2>. DEFINE e == fNvlTail[<<p, k>>]
              Rest(s) == {i \in InQueue(p, k, s) : t <= i}
              Entry(i) == nvlBuf[<<p, k>>][i % NvlRecv]
  <2>1. /\ nvlHead[<<p, k>>] \in Nat /\ nvlHead[<<p, k>>] <= b /\ e \in Nat /\ t <= e
        /\ e <= nvlHead[<<p, k>>] + NvlRecv
        /\ \A i \in b .. e - 1 : Entry(i)[1] \in Rdma
        /\ \A s \in Rdma :
             /\ fIdx[<<p, k>>][s] = R(s) + Cardinality(InQueue(p, k, s))
             /\ \A i \in InQueue(p, k, s) :
                  /\ Entry(i)[2] \in FlowTo(s, p, k)
                  /\ RankPlace(s, p, k, Entry(i)[2]) = R(s) + Earlier(InQueue(p, k, s), i)
    BY <1>2, RankTypes DEF QueueOK, b, t, R
  <2>2. /\ nvlHead'[<<p, k>>] = nvlHead[<<p, k>>] /\ rHead'[<<p, k>>] = t
        /\ nvlTail'[<<p, k>>] = t /\ fNvlTail'[<<p, k>>] = e /\ nvlBuf' = nvlBuf
        /\ fIdx'[<<p, k>>] = fIdx[<<p, k>>]
    BY <1>2, <1>10 DEF t
  <2>. HIDE DEF e, Entry
  <2>3. /\ nvlHead[<<p, k>>] <= t /\ t <= t
        /\ \A i \in t .. e - 1 : Entry(i)[1] \in Rdma
    <3>1. \A i \in t .. e - 1 : i \in b .. e - 1
      BY <1>3, <2>1
    <3>. QED
      BY <1>3, <2>1, <3>1
  <2>4. ASSUME NEW s \in Rdma
        PROVE  /\ fIdx[<<p, k>>][s] = n[s] + Cardinality(Rest(s))
               /\ \A i \in Rest(s) :
                    /\ Entry(i)[2] \in FlowTo(s, p, k)
                    /\ RankPlace(s, p, k, Entry(i)[2]) = n[s] + Earlier(Rest(s), i)
    <3>1. /\ Cardinality(Rest(s)) \in Nat
          /\ Cardinality(InQueue(p, k, s)) = Cardinality(Q(s)) + Cardinality(Rest(s))
          /\ \A i \in Rest(s) :
               /\ Earlier(Rest(s), i) \in Nat
               /\ Earlier(InQueue(p, k, s), i) = Cardinality(Q(s)) + Earlier(Rest(s), i)
      BY QueueSplits DEF Q, t
    <3>2. \A i \in Rest(s) : i \in InQueue(p, k, s)
      OBVIOUS
    <3>. HIDE DEF Rest
    <3>3. R(s) \in Nat /\ Cardinality(Q(s)) \in Nat /\ n[s] = R(s) + Cardinality(Q(s))
      BY <1>3, <1>6
    <3>4. fIdx[<<p, k>>][s] = n[s] + Cardinality(Rest(s))
      BY <2>1, <3>1, <3>3
    <3>5. ASSUME NEW i \in Rest(s)
          PROVE  /\ Entry(i)[2] \in FlowTo(s, p, k)
                 /\ RankPlace(s, p, k, Entry(i)[2]) = n[s] + Earlier(Rest(s), i)
      BY <2>1, <3>1, <3>2, <3>3
    <3>. QED
      BY <3>4, <3>5
  <2>5. \A s \in Rdma :
          /\ Received(p, k, s)' = n[s] /\ InQueue(p, k, s)' = Rest(s)
          /\ \A i : Earlier(InQueue(p, k, s), i)' = Earlier(Rest(s), i)
    BY <1>13, <1>15
  <2>6. /\ nvlHead'[<<p, k>>] <= rHead'[<<p, k>>] /\ rHead'[<<p, k>>] <= nvlTail'[<<p, k>>]
        /\ nvlTail'[<<p, k>>] <= fNvlTail'[<<p, k>>]
        /\ fNvlTail'[<<p, k>>] <= nvlHead'[<<p, k>>] + NvlRecv
        /\ \A i \in rHead'[<<p, k>>] .. fNvlTail'[<<p, k>>] - 1 :
             nvlBuf'[<<p, k>>][i % NvlRecv][1] \in Rdma
    <3>. HIDE DEF Rest
    <3>. QED
      BY <2>1, <2>2, <2>3 DEF Entry
  <2>7. ASSUME NEW s \in Rdma
        PROVE  /\ fIdx'[<<p, k>>][s] = Received(p, k, s)' + Cardinality(InQueue(p, k, s)')
               /\ \A i \in InQueue(p, k, s)' :
                    /\ nvlBuf'[<<p, k>>][i % NvlRecv][2] \in FlowTo(s, p, k)'
                    /\ RankPlace(s, p, k, nvlBuf[<<p, k>>][i % NvlRecv][2])'
                         = Received(p, k, s)' + Earlier(InQueue(p, k, s), i)'
    <3>. HIDE DEF Rest
    <3>1. \A v : RankPlace(s, p, k, v)' = RankPlace(s, p, k, v)
      BY <1>12
    <3>2. \A i : /\ RankPlace(s, p, k, nvlBuf[<<p, k>>][i % NvlRecv][2])'
                      = RankPlace(s, p, k, Entry(i)[2])
                 /\ nvlBuf'[<<p, k>>][i % NvlRecv] = Entry(i)
      <4>1. FlowTo(s, p, k)' = FlowTo(s, p, k)
        BY <1>12
      <4>. QED
        BY <2>2, <4>1 DEF RankPlace, Earlier, Entry
    <3>. QED
      BY <1>12, <2>2, <2>4, <2>5, <3>2
  <2>. HIDE DEF Rest
  <2>. QED
    BY <2>6, <2>7 DEF QueueOK
<1>17. ASSUME NEW i \in b .. t - 1
       PROVE  \E s \in Rdma : \E u \in FlowTo(s, p, k) :
                /\ i \in Q(s) /\ At(i) = <<s, u>> /\ RankPlace(s, p, k, u) < n[s]
                /\ off[s] + Earlier(Q(s), i) = RowBase(s, p, k) + RankPlace(s, p, k, u)
  <2>1. PICK s \in Rdma : \E u \in FlowTo(s, p, k) :
          i \in Q(s) /\ At(i) = <<s, u>> /\ RankPlace(s, p, k, u) = R(s) + Earlier(Q(s), i)
    BY <1>4
  <2>2. PICK u \in FlowTo(s, p, k) :
          i \in Q(s) /\ At(i) = <<s, u>> /\ RankPlace(s, p, k, u) = R(s) + Earlier(Q(s), i)
    BY <2>1
  <2>3. Earlier(Q(s), i) \in Nat /\ Earlier(Q(s), i) < Cardinality(Q(s))
    <3>. DEFINE A == Q(s)
    <3>1. A \in SUBSET Int /\ IsFiniteSet(A) /\ i \in A /\ i \in Int
      BY <1>3, <2>2
    <3>. HIDE DEF A
    <3>2. Earlier(A, i) \in Nat /\ Earlier(A, i) < Cardinality(A)
      BY <3>1, EarlierIsNat, EarlierEnds
    <3>. QED
      BY <3>2 DEF A
  <2>4. R(s) \in Nat /\ Cardinality(Q(s)) \in Nat
    BY <1>3
  <2>5. off[s] + Earlier(Q(s), i) = RowBase(s, p, k) + RankPlace(s, p, k, u)
    BY <1>6, <2>2, <2>3, <2>4
  <2>6. RankPlace(s, p, k, u) < n[s]
    BY <1>6, <2>2, <2>3, <2>4
  <2>. QED
    BY <2>2, <2>5, <2>6
<1>18. ASSUME NEW s \in Rdma, NEW u \in FlowTo(s, p, k) PROVE RankPlace(s, p, k, u) \in Nat
  BY <1>2, FlowIs, RankPlaceIs
<1>19. ASSUME NEW x \in recvX'[<<p, k>>]
       PROVE  \E s \in Rdma : \E u \in FlowTo(s, p, k) :
                /\ RankPlace(s, p, k, u) < n[s]
                /\ x = <<RowBase(s, p, k) + RankPlace(s, p, k, u), <<s, u>> >>
  <2>1. CASE x \in recvX[<<p, k>>]
    <3>1. PICK s \in Rdma : \E u \in FlowTo(s, p, k) :
            /\ RankPlace(s, p, k, u) < R(s)
            /\ x = <<RowBase(s, p, k) + RankPlace(s, p, k, u), <<s, u>> >>
      BY <1>2, <2>1 DEF ReceiverOK, R
    <3>2. PICK u \in FlowTo(s, p, k) :
            /\ RankPlace(s, p, k, u) < R(s)
            /\ x = <<RowBase(s, p, k) + RankPlace(s, p, k, u), <<s, u>> >>
      BY <3>1
    <3>3. RankPlace(s, p, k, u) \in Nat /\ R(s) \in Nat /\ n[s] \in Nat /\ R(s) <= n[s]
      BY <1>3, <1>6, <1>18
    <3>4. RankPlace(s, p, k, u) < n[s]
      BY <3>2, <3>3
    <3>. QED
      BY <3>2, <3>4
  <2>2. CASE x \in new
    <3>1. PICK i \in b .. t - 1 : x = <<off[At(i)[1]] + Earlier(Q(At(i)[1]), i), At(i)>>
      BY <2>2 DEF new
    <3>2. PICK s \in Rdma : \E u \in FlowTo(s, p, k) :
            /\ At(i) = <<s, u>> /\ RankPlace(s, p, k, u) < n[s]
            /\ off[s] + Earlier(Q(s), i) = RowBase(s, p, k) + RankPlace(s, p, k, u)
      BY <1>17
    <3>3. PICK u \in FlowTo(s, p, k) :
            /\ At(i) = <<s, u>> /\ RankPlace(s, p, k, u) < n[s]
            /\ off[s] + Earlier(Q(s), i) = RowBase(s, p, k) + RankPlace(s, p, k, u)
      BY <3>2
    <3>4. At(i)[1] = s
      BY <3>3
    <3>. QED
      BY <3>1, <3>3, <3>4
  <2>. QED
    BY <1>10, <2>1, <2>2
<1>20. ASSUME NEW s \in Rdma, NEW u \in FlowTo(s, p, k), RankPlace(s, p, k, u) < n[s]
       PROVE  <<RowBase(s, p, k) + RankPlace(s, p, k, u), <<s, u>> >> \in recvX'[<<p, k>>]
  <2>1. CASE RankPlace(s, p, k, u) < R(s)
    BY <1>2, <1>10, <2>1 DEF ReceiverOK, R
  <2>2. CASE ~ (RankPlace(s, p, k, u) < R(s))
    <3>1. R(s) \in Nat /\ RankPlace(s, p, k, u) \in Nat /\ Cardinality(Q(s)) \in Nat
      BY <1>3, <1>18
    <3>2. R(s) <= RankPlace(s, p, k, u) /\ RankPlace(s, p, k, u) < R(s) + Cardinality(Q(s))
      BY <1>6, <1>20, <2>2, <3>1
    <3>3. PICK i \in Q(s) : At(i) = <<s, u>> /\ RankPlace(s, p, k, u) = R(s) + Earlier(Q(s), i)
      BY <1>5, <3>2
    <3>4. i \in b .. t - 1 /\ At(i)[1] = s
      BY <1>3
    <3>5. Earlier(Q(s), i) \in Nat
      BY <1>3, EarlierIsNat
    <3>6. off[s] + Earlier(Q(s), i) = RowBase(s, p, k) + RankPlace(s, p, k, u)
      BY <1>6, <3>1, <3>3, <3>5
    <3>7. <<off[At(i)[1]] + Earlier(Q(At(i)[1]), i), At(i)>> \in new
      BY <3>4 DEF new
    <3>. QED
      BY <1>10, <3>3, <3>4, <3>6, <3>7
  <2>. QED
    BY <2>1, <2>2
<1>21. ReceiverOK(p, k)'
  <2>1. \A s \in Rdma : Received(p, k, s)' \in Nat
    BY <1>6, <1>13
  <2>2. /\ rLeft'[<<p, k>>] = Cardinality(Missing(p, k)') /\ rPc'[<<p, k>>] # "prefix"
        /\ rPc'[<<p, k>>] # "done"
    BY <1>7, <1>10, <1>14
  <2>3. \A s \in Rdma : chanOff'[<<p, k>>][s] = RowBase(s, p, k)'
    BY <1>2, <1>6, <1>12
  <2>4. /\ \A x \in recvX'[<<p, k>>] :
             \E s \in Rdma : \E u \in FlowTo(s, p, k)' :
               /\ RankPlace(s, p, k, u)' < Received(p, k, s)'
               /\ x = <<RowBase(s, p, k)' + RankPlace(s, p, k, u)', <<s, u>> >>
        /\ \A s \in Rdma : \A u \in FlowTo(s, p, k)' :
             RankPlace(s, p, k, u)' < Received(p, k, s)' =>
               <<RowBase(s, p, k)' + RankPlace(s, p, k, u)', <<s, u>> >> \in recvX'[<<p, k>>]
    BY <1>12, <1>13, <1>19, <1>20
  <2>. QED
    BY <2>1, <2>2, <2>3, <2>4 DEF ReceiverOK
<1>22. UNCHANGED <<route, meta, recvBuf, rdmaHead, credited, warpVars, coordVars, fwdVars>>
  BY <1>1
<1>. QED
  BY <1>9, <1>11, <1>16, <1>21, <1>22, ReceiverStep

LEMMA MoveQueueOK ==
  ASSUME IInv, NEW p \in Rdma, NEW k \in Nvl, MoveQueue(p, k)
  PROVE  IInv'
<1>1. /\ rPc[<<p, k>>] = "publish"
      /\ nvlHead' = [nvlHead EXCEPT ![<<p, k>>] = rHead[<<p, k>>]]
      /\ rPc' = [rPc EXCEPT ![<<p, k>>] = IF rLeft[<<p, k>>] > 0 THEN "run" ELSE "done"]
      /\ UNCHANGED <<rHead, rOff, rLeft, chanOff, recvX>>
      /\ UNCHANGED <<route, meta, recvBuf, rdmaHead, credited, warpVars, coordVars, fwdVars>>
  BY DEF MoveQueue
<1>2. /\ Typed /\ route \in Routings /\ route' = route /\ QueueOK(p, k) /\ ReceiverOK(p, k)
      /\ nvlTail' = nvlTail /\ fNvlTail' = fNvlTail /\ nvlBuf' = nvlBuf /\ fIdx' = fIdx
  BY <1>1 DEF IInv, Typed, fwdVars
<1>3. /\ rHead[<<p, k>>] \in Nat /\ nvlHead[<<p, k>>] \in Nat /\ fNvlTail[<<p, k>>] \in Nat
      /\ rLeft[<<p, k>>] \in Int /\ NvlRecv \in Nat
  BY <1>2, RankTypes, Numbers
<1>4. /\ rPc' \in [Rdma \X Nvl -> {"prefix", "run", "publish", "done"}]
      /\ rOff' \in [Rdma \X Nvl -> [Rdma -> Int]] /\ chanOff' \in [Rdma \X Nvl -> [Rdma -> Int]]
      /\ nvlHead' \in [Rdma \X Nvl -> Nat] /\ rHead' \in [Rdma \X Nvl -> Nat]
      /\ rLeft' \in [Rdma \X Nvl -> Int]
      /\ DOMAIN recvX' = Rdma \X Nvl
  BY <1>1, <1>2, <1>3 DEF Typed
<1>5. /\ nvlHead'[<<p, k>>] = rHead[<<p, k>>]
      /\ rPc'[<<p, k>>] = IF rLeft[<<p, k>>] > 0 THEN "run" ELSE "done"
  BY <1>1, <1>2 DEF Typed
<1>6. \A q \in Rdma \X Nvl : q # <<p, k>> =>
        /\ rPc'[q] = rPc[q] /\ rOff'[q] = rOff[q] /\ chanOff'[q] = chanOff[q]
        /\ nvlHead'[q] = nvlHead[q] /\ rHead'[q] = rHead[q] /\ rLeft'[q] = rLeft[q]
        /\ recvX'[q] = recvX[q]
  BY <1>1, <1>2 DEF Typed
<1>7. rPc'[<<p, k>>] # "prefix" /\ rPc[<<p, k>>] # "prefix" /\ rPc[<<p, k>>] # "done"
  BY <1>1, <1>5
<1>8. \A s \in Rdma : /\ Received(p, k, s)' = Received(p, k, s)
                      /\ InQueue(p, k, s)' = InQueue(p, k, s)
  BY <1>1, <1>2, <1>7, RouteFixed DEF Received, InQueue
<1>9. QueueOK(p, k)'
  <2>1. \A s \in Rdma : \A i : Earlier(InQueue(p, k, s), i)' = Earlier(InQueue(p, k, s), i)
    BY <1>8 DEF Earlier
  <2>2. /\ nvlHead'[<<p, k>>] <= rHead[<<p, k>>]
        /\ fNvlTail[<<p, k>>] <= nvlHead'[<<p, k>>] + NvlRecv
    BY <1>2, <1>3, <1>5 DEF QueueOK
  <2>. QED
    BY <1>1, <1>2, <1>8, <2>1, <2>2, RouteFixed DEF QueueOK
<1>10. ReceiverOK(p, k)'
  <2>1. Missing(p, k)' = Missing(p, k)
    BY <1>2, <1>8, RouteFixed DEF Missing
  <2>2. rPc'[<<p, k>>] = "done" => rLeft[<<p, k>>] = 0
    <3>. DEFINE n == [s \in Rdma |-> Received(p, k, s)]
    <3>1. Missing(p, k) = After(p, k, n)
      BY MissingIs
    <3>2. Cardinality(Missing(p, k)) \in Nat
      BY <1>2, <3>1, AfterIs
    <3>3. rLeft[<<p, k>>] = Cardinality(Missing(p, k))
      BY <1>2, <1>7 DEF ReceiverOK
    <3>. QED
      BY <1>5, <3>2, <3>3
  <2>. QED
    BY <1>1, <1>2, <1>7, <1>8, <2>1, <2>2, RouteFixed DEF ReceiverOK
<1>. QED
  BY <1>1, <1>4, <1>6, <1>9, <1>10, ReceiverStep

-----------------------------------------------------------------------------
(* The invariant holds of every behaviour, and what follows from it.       *)

LEMMA StepOK == IInv /\ [Next]_vars => IInv'
<1>. SUFFICES ASSUME IInv, [Next]_vars PROVE IInv'
  OBVIOUS
<1>1. CASE UNCHANGED vars
  <2>. USE DEF vars, warpVars, coordVars, fwdVars, recvVars
  <2>1. route' = route /\ Typed
    BY <1>1 DEF IInv
  <2>2. Typed'
    <3>1. \A q \in Rdma \X Rdma : sendHead'[q] \in [First(q[1])' .. Past(q[1])' - 1 -> Int]
      BY <1>1, <2>1, RouteFixed DEF Typed
    <3>. QED
      BY <1>1, <2>1, <3>1 DEF Typed
  <2>3. \A s \in Rdma : WarpsOK(s)'
    BY <1>1, <2>1, WarpsKept DEF IInv
  <2>4. \A s, d \in Rdma : TailsOK(s, d)' /\ RingOK(s, d)' /\ MetaOK(s, d)'
    BY <1>1, <2>1, TailsKept, RingKept, MetaKept DEF IInv
  <2>5. \A s, d \in Rdma : SentSlotsOK(s, d)' /\ ArrivedSlotsOK(s, d)'
    BY <1>1, <2>1, SentKept, ArrivedKept DEF IInv
  <2>6. \A d \in Rdma, j \in Nvl : \A s \in Rdma : ForwarderOK(d, j, s)'
    BY <1>1, <2>1, ForwarderKept DEF IInv
  <2>7. \A d \in Rdma, j \in Nvl : HeadsOK(d, j)' /\ QueueOK(d, j)' /\ ReceiverOK(d, j)'
    BY <1>1, <2>1, HeadsKept, QueueKept, ReceiverKept DEF IInv
  <2>. QED
    BY <2>2, <2>3, <2>4, <2>5, <2>6, <2>7 DEF IInv
<1>2. ASSUME NEW s \in Rdma, SendMeta(s) PROVE IInv'
  BY <1>2, SendMetaOK
<1>3. ASSUME NEW s \in Rdma, NEW w \in Warps, Warp(s, w) PROVE IInv'
  <2>1. TakeSlots(s, w) => IInv'
    BY TakeSlotsOK
  <2>2. CopyToken(s, w) => IInv'
    BY CopyTokenOK
  <2>3. Epilogue(s, w) => IInv'
    BY EpilogueOK
  <2>. QED
    BY <1>3, <2>1, <2>2, <2>3 DEF Warp
<1>4. ASSUME NEW s \in Rdma, Coordinator(s) PROVE IInv'
  <2>1. LandPut(s) => IInv'
    BY LandPutOK
  <2>2. AddTail(s) => IInv'
    BY AddTailOK
  <2>3. ASSUME NEW d \in Rdma, IssuePut(s, d) PROVE IInv'
    BY <2>3, IssuePutOK
  <2>4. ASSUME NEW d \in Rdma, TailArrives(s, d) PROVE IInv'
    BY <2>4, TailArrivesOK
  <2>. QED
    BY <1>4, <2>1, <2>2, <2>3, <2>4 DEF Coordinator
<1>5. ASSUME NEW d \in Rdma, NEW j \in Nvl, Forwarder(d, j) PROVE IInv'
  <2>1. ReadMeta(d, j) => IInv'
    BY ReadMetaOK
  <2>2. Retire(d, j) => IInv'
    BY RetireOK
  <2>3. ASSUME NEW s \in Rdma, CopyBatch(d, j, s) PROVE IInv'
    BY <2>3, CopyBatchOK
  <2>4. Publish(d, j) => IInv'
    BY PublishOK
  <2>. QED
    BY <1>5, <2>1, <2>2, <2>3, <2>4 DEF Forwarder
<1>6. ASSUME NEW d \in Rdma, NEW j \in Nvl, Receiver(d, j) PROVE IInv'
  <2>1. ReadPrefix(d, j) => IInv'
    BY ReadPrefixOK
  <2>2. CopyRows(d, j) => IInv'
    BY CopyRowsOK
  <2>3. MoveQueue(d, j) => IInv'
    BY MoveQueueOK
  <2>. QED
    BY <1>6, <2>1, <2>2, <2>3 DEF Receiver
<1>7. ASSUME NEW d \in Rdma, NEW s \in Rdma, Credit(d, s) \/ HeadArrives(d, s) PROVE IInv'
  BY <1>7, CreditOK, HeadArrivesOK
<1>8. \A d \in Ends : d \in Rdma
  BY DEF Ends
<1>. QED
  BY <1>1, <1>2, <1>3, <1>4, <1>5, <1>6, <1>7, <1>8 DEF Next

THEOREM Invariance == Spec => []IInv
  BY InitOK, StepOK, PTL DEF Spec

(***************************************************************************)
(* No counter passes the tokens of its flow, nor what gave rise to it      *)
(* (internode.cu 647-873).                                                 *)
(***************************************************************************)
THEOREM TypeCorrect == Spec => []TypeOK
<1>1. ASSUME IInv PROVE TypeOK
  <2>1. Typed /\ route \in Routings
    BY <1>1 DEF IInv, Typed
  <2>2. ASSUME NEW s \in Rdma
        PROVE  /\ notified[s] \in BOOLEAN
               /\ lock[s] \in First(s) .. Past(s) + SenderWarps
               /\ \A w \in Warps : /\ wTok[<<s, w>>] \in First(s) .. Past(s) + SenderWarps
                                   /\ wPc[<<s, w>>] \in {"lock", "copy", "done"}
    <3>1. WarpsOK(s)
      BY <1>1 DEF IInv
    <3>2. First(s) \in Nat /\ Past(s) \in Nat /\ SenderWarps \in Nat
      BY <2>1, TokenRange, Numbers
    <3>3. lock[s] \in First(s) .. Past(s) + SenderWarps
      <4>1. lock[s] \in Int /\ First(s) <= lock[s] /\ lock[s] <= Past(s) + SenderWarps
        BY <2>1, <3>1 DEF WarpsOK, Typed
      <4>. QED
        BY <3>2, <4>1
    <3>4. ASSUME NEW w \in Warps PROVE wTok[<<s, w>>] \in First(s) .. Past(s) + SenderWarps
      <4>1. wTok[<<s, w>>] \in Int
        BY <2>1, SourceTypes
      <4>2. First(s) <= wTok[<<s, w>>] /\ wTok[<<s, w>>] < Past(s) + SenderWarps
        BY <3>1 DEF WarpsOK
      <4>. QED
        BY <3>2, <4>1, <4>2
    <3>. QED
      BY <2>1, <3>3, <3>4 DEF Typed
  <2>3. ASSUME NEW s \in Rdma, NEW d \in Rdma
        PROVE  /\ nextTail[<<s, d>>] \in 0 .. Cardinality(Flow(s, d))
               /\ sendTail[<<s, d>>] \in 0 .. nextTail[<<s, d>>]
               /\ issued[<<s, d>>] \in 0 .. sendTail[<<s, d>>]
               /\ rdmaTail[<<s, d>>] \in 0 .. issued[<<s, d>>]
               /\ credited[<<s, d>>] \in 0 .. rdmaTail[<<s, d>>]
               /\ rdmaHead[<<s, d>>] \in 0 .. credited[<<s, d>>]
    <3>1. /\ rdmaHead[<<s, d>>] \in Nat /\ issued[<<s, d>>] \in Nat /\ sendTail[<<s, d>>] \in Nat
          /\ nextTail[<<s, d>>] \in Nat
          /\ rdmaHead[<<s, d>>] <= issued[<<s, d>>] /\ issued[<<s, d>>] <= sendTail[<<s, d>>]
          /\ sendTail[<<s, d>>] <= nextTail[<<s, d>>]
          /\ nextTail[<<s, d>>] <= Cardinality(Flow(s, d))
      BY <1>1, TailsInOrder
    <3>2. /\ rdmaTail[<<s, d>>] \in Nat /\ credited[<<s, d>>] \in Nat
          /\ rdmaTail[<<s, d>>] <= issued[<<s, d>>] /\ credited[<<s, d>>] <= rdmaTail[<<s, d>>]
          /\ rdmaHead[<<s, d>>] <= credited[<<s, d>>]
      <4>1. rdmaTail[<<s, d>>] \in Nat /\ credited[<<s, d>>] \in Nat
        BY <2>1, SourceTypes
      <4>2. RingOK(s, d)
        BY <1>1 DEF IInv
      <4>. QED
        BY <4>1, <4>2 DEF RingOK
    <3>3. Cardinality(Flow(s, d)) \in Nat
      BY <2>1, FlowIs
    <3>. QED
      BY <3>1, <3>2, <3>3
  <2>4. ASSUME NEW s \in Rdma, NEW d \in Rdma, NEW j \in Nvl
        PROVE  /\ fwdHead[<<d, j>>][s] \in 0 .. fHead[<<d, j>>][s]
               /\ fHead[<<d, j>>][s] \in 0 .. fTail[<<d, j>>][s]
               /\ fTail[<<d, j>>][s] \in 0 .. rdmaTail[<<s, d>>]
    <3>1. /\ fHead[<<d, j>>][s] \in Nat /\ fTail[<<d, j>>][s] \in Nat /\ rdmaTail[<<s, d>>] \in Nat
          /\ fwdHead[<<d, j>>][s] \in Nat
      <4>1. /\ fHead[<<d, j>>] \in [Rdma -> Nat] /\ fTail[<<d, j>>] \in [Rdma -> Nat]
            /\ fwdHead[<<d, j>>] \in [Rdma -> Nat]
        BY <2>1, RankTypes
      <4>2. rdmaTail[<<s, d>>] \in Nat
        BY <2>1, SourceTypes
      <4>. QED
        BY <4>1, <4>2
    <3>2. /\ fwdHead[<<d, j>>][s] <= fHead[<<d, j>>][s]
          /\ fHead[<<d, j>>][s] <= fTail[<<d, j>>][s] /\ fTail[<<d, j>>][s] <= rdmaTail[<<s, d>>]
      BY <1>1 DEF IInv, ForwarderOK
    <3>. QED
      BY <3>1, <3>2
  <2>5. ASSUME NEW d \in Rdma, NEW j \in Nvl
        PROVE  /\ fPc[<<d, j>>] \in {"meta", "run", "publish", "retired"}
               /\ rPc[<<d, j>>] \in {"prefix", "run", "publish", "done"}
               /\ nvlHead[<<d, j>>] \in 0 .. rHead[<<d, j>>]
               /\ rHead[<<d, j>>] \in 0 .. nvlTail[<<d, j>>]
               /\ nvlTail[<<d, j>>] \in 0 .. fNvlTail[<<d, j>>]
               /\ rLeft[<<d, j>>] \in Nat
    <3>1. /\ fPc[<<d, j>>] \in {"meta", "run", "publish", "retired"}
          /\ rPc[<<d, j>>] \in {"prefix", "run", "publish", "done"}
      BY <2>1, RankTypes
    <3>2. /\ nvlHead[<<d, j>>] \in 0 .. rHead[<<d, j>>]
          /\ rHead[<<d, j>>] \in 0 .. nvlTail[<<d, j>>]
          /\ nvlTail[<<d, j>>] \in 0 .. fNvlTail[<<d, j>>]
      <4>1. /\ nvlHead[<<d, j>>] \in Nat /\ rHead[<<d, j>>] \in Nat
            /\ nvlTail[<<d, j>>] \in Nat /\ fNvlTail[<<d, j>>] \in Nat
        BY <2>1, RankTypes
      <4>2. /\ nvlHead[<<d, j>>] <= rHead[<<d, j>>] /\ rHead[<<d, j>>] <= nvlTail[<<d, j>>]
            /\ nvlTail[<<d, j>>] <= fNvlTail[<<d, j>>]
        BY <1>1 DEF IInv, QueueOK
      <4>. QED
        BY <4>1, <4>2
    <3>3. rLeft[<<d, j>>] \in Nat
      <4>. DEFINE n == [s \in Rdma |-> Received(d, j, s)]
      <4>1. Missing(d, j) = After(d, j, n)
        BY MissingIs
      <4>2. Cardinality(After(d, j, n)) \in Nat
        BY <2>1, AfterIs
      <4>3. rLeft[<<d, j>>] = 0 \/ rLeft[<<d, j>>] = Cardinality(Missing(d, j))
        BY <1>1 DEF IInv, ReceiverOK
      <4>. QED
        BY <4>1, <4>2, <4>3
    <3>. QED
      BY <3>1, <3>2, <3>3
  <2>. QED
    BY <2>1, <2>2, <2>3, <2>4, <2>5, ZenonT(30) DEF TypeOK
<1>. QED
  BY <1>1, Invariance, PTL

(***************************************************************************)
(* The RDMA rings are read by the forwarders at their own pace and filled  *)
(* by the warps out of order: no slot between the slowest forwarder's head *)
(* and the tail is overwritten at the destination, nor one that is         *)
(* published and not yet sent at the source (internode.cu 583-873).        *)
(***************************************************************************)
THEOREM RdmaSlots == Spec => []RdmaSlotsKept
<1>1. ASSUME IInv PROVE RdmaSlotsKept
  <2>1. Typed /\ route \in Routings
    BY <1>1 DEF IInv, Typed
  <2>2. ASSUME NEW s \in Rdma, NEW d \in Rdma, NEW j \in Working(d),
               NEW i \in fHead[<<d, j>>][s] .. rdmaTail[<<s, d>>] - 1
        PROVE  recvBuf[<<s, d>>][i % RdmaRecv] = Nth(Flow(s, d), i)
    <3>1. j \in Nvl /\ fPc[<<d, j>>] # "retired"
      BY DEF Working
    <3>2. /\ fHead[<<d, j>>][s] \in Nat /\ rdmaTail[<<s, d>>] \in Nat
          /\ rdmaHead[<<s, d>>] \in Nat /\ rdmaHead[<<s, d>>] <= fHead[<<d, j>>][s]
          /\ rdmaTail[<<s, d>>] <= Cardinality(Flow(s, d)) /\ Cardinality(Flow(s, d)) \in Nat
      BY <1>1, <2>1, <3>1, ForMeIs, FlowIs
    <3>3. i \in Nat /\ i < Cardinality(Flow(s, d)) /\ i < rdmaTail[<<s, d>>] /\ rdmaHead[<<s, d>>] <= i
      BY <3>2
    <3>4. PICK u \in Flow(s, d) : Place(s, d, u) = i /\ Nth(Flow(s, d), i) = u
      BY <2>1, <3>3, PlaceTaken
    <3>5. recvBuf[<<s, d>>][Place(s, d, u) % RdmaRecv] = u
      BY <1>1, <3>3, <3>4, ReadSlot
    <3>. QED
      BY <3>4, <3>5
  <2>3. ASSUME NEW s \in Rdma, NEW d \in Rdma, NEW i \in issued[<<s, d>>] .. sendTail[<<s, d>>] - 1
        PROVE  (IF s = d THEN recvBuf ELSE sendBuf)[<<s, d>>][i % RdmaRecv] = Nth(Flow(s, d), i)
    <3>1. /\ rdmaHead[<<s, d>>] \in Nat /\ issued[<<s, d>>] \in Nat /\ sendTail[<<s, d>>] \in Nat
          /\ nextTail[<<s, d>>] \in Nat
          /\ rdmaHead[<<s, d>>] <= issued[<<s, d>>] /\ sendTail[<<s, d>>] <= nextTail[<<s, d>>]
          /\ nextTail[<<s, d>>] <= Cardinality(Flow(s, d))
      BY <1>1, TailsInOrder
    <3>2. \A u \in Flow(s, d) : Place(s, d, u) < sendTail[<<s, d>>] => u < lock[s] /\ ~ Copying(s, u)
      BY <1>1, TailsInOrder
    <3>3. Cardinality(Flow(s, d)) \in Nat
      BY <2>1, FlowIs
    <3>4. i \in Nat /\ i < Cardinality(Flow(s, d)) /\ i < sendTail[<<s, d>>] /\ rdmaHead[<<s, d>>] <= i
      BY <3>1, <3>3
    <3>5. PICK u \in Flow(s, d) : Place(s, d, u) = i /\ Nth(Flow(s, d), i) = u
      BY <2>1, <3>4, PlaceTaken
    <3>6. u < lock[s] /\ ~ Copying(s, u) /\ rdmaHead[<<s, d>>] <= Place(s, d, u)
      BY <3>2, <3>4, <3>5
    <3>7. SentSlotsOK(s, d)
      BY <1>1 DEF IInv
    <3>. QED
      BY <3>5, <3>6, <3>7 DEF SentSlotsOK
  <2>. QED
    BY <2>2, <2>3 DEF RdmaSlotsKept
<1>. QED
  BY <1>1, Invariance, PTL

\* As many elements have fewer than n before them as n says.
LEMMA FirstCounted ==
  ASSUME NEW A \in SUBSET Int, IsFiniteSet(A), NEW n \in Nat, n <= Cardinality(A)
  PROVE  /\ IsFiniteSet({a \in A : Earlier(A, a) < n})
         /\ Cardinality({a \in A : Earlier(A, a) < n}) = n
<1>1. Cardinality(A) \in Nat
  BY FS_CardinalityType
<1>2. CASE n = Cardinality(A)
  <2>1. \A a \in A : Earlier(A, a) < n
    BY <1>2, EarlierEnds
  <2>2. {a \in A : Earlier(A, a) < n} = A
    BY <2>1
  <2>. QED
    BY <1>2, <2>2
<1>3. CASE n < Cardinality(A)
  <2>1. PICK b \in A : Earlier(A, b) = n
    BY <1>3, EarlierOnto
  <2>2. \A a \in A : a < b <=> Earlier(A, a) < Earlier(A, b)
    BY EarlierTells
  <2>3. {a \in A : Earlier(A, a) < n} = {k \in A : k < b}
    BY <2>1, <2>2
  <2>. QED
    BY <2>1, <2>3, EarlierIsNat DEF Earlier
<1>. QED
  BY <1>1, <1>2, <1>3

\* A receiver has as many rows of a source as it has received.
LEMMA GotCounted ==
  ASSUME IInv, NEW d \in Rdma, NEW j \in Nvl, NEW s \in Rdma
  PROVE  Cardinality(Got(d, j, s)) = Received(d, j, s)
<1>. DEFINE R == Received(d, j, s)
            A == FlowTo(s, d, j)
            P == {u \in A : RankPlace(s, d, j, u) < R}
            Row(u) == <<RowBase(s, d, j) + RankPlace(s, d, j, u), <<s, u>> >>
            f == [u \in P |-> Row(u)]
<1>1. Typed /\ route \in Routings /\ QueueOK(d, j) /\ ReceiverOK(d, j) /\ ForwarderOK(d, j, s)
  BY DEF IInv, Typed
<1>2. A \in SUBSET Int /\ IsFiniteSet(A) /\ Cardinality(A) \in Nat
  BY <1>1, FlowIs
<1>3. R \in Nat /\ R <= Cardinality(A)
  <2>1. R \in Nat /\ Cardinality(InQueue(d, j, s)) \in Nat
    BY QueueSplits, QueueIs
  <2>2. fIdx[<<d, j>>][s] = R + Cardinality(InQueue(d, j, s))
    BY <1>1 DEF QueueOK
  <2>3. fIdx[<<d, j>>][s] = Cardinality(Passed(s, d, j, fHead[<<d, j>>][s]))
    BY <1>1 DEF ForwarderOK
  <2>4. fHead[<<d, j>>][s] \in Nat
    BY <1>1, RankTypes
  <2>5. Cardinality(Passed(s, d, j, fHead[<<d, j>>][s])) <= Cardinality(A)
    BY <1>1, <2>4, PassedIs
  <2>. HIDE DEF R, A
  <2>. QED
    BY <1>2, <2>1, <2>2, <2>3, <2>5
<1>4. IsFiniteSet(P) /\ Cardinality(P) = R
  <2>. HIDE DEF A, R
  <2>. QED
    BY <1>2, <1>3, FirstCounted DEF RankPlace, A
<1>5. /\ \A u \in P : Row(u) \in Got(d, j, s)
      /\ \A x \in Got(d, j, s) : \E u \in P : x = Row(u)
  <2>1. ASSUME NEW u \in P PROVE Row(u) \in Got(d, j, s)
    <3>1. Row(u) \in recvX[<<d, j>>]
      BY <1>1 DEF ReceiverOK
    <3>. QED
      BY <3>1 DEF Got
  <2>2. ASSUME NEW x \in Got(d, j, s) PROVE \E u \in P : x = Row(u)
    <3>1. x \in recvX[<<d, j>>] /\ x[2][1] = s
      BY DEF Got
    <3>2. PICK r \in Rdma : \E u \in FlowTo(r, d, j) :
            /\ RankPlace(r, d, j, u) < Received(d, j, r)
            /\ x = <<RowBase(r, d, j) + RankPlace(r, d, j, u), <<r, u>> >>
      BY <1>1, <3>1 DEF ReceiverOK
    <3>3. r = s
      BY <3>1, <3>2
    <3>. QED
      BY <3>2, <3>3
  <2>. QED
    BY <2>1, <2>2
<1>6. \A u, v \in P : Row(u) = Row(v) => u = v
  OBVIOUS
<1>. HIDE DEF P, Row
<1>7. f \in Bijection(P, Got(d, j, s))
  BY <1>5, <1>6 DEF Bijection, Injection, Surjection, IsInjective
<1>. HIDE DEF f
<1>. QED
  BY <1>4, <1>7, FS_Bijection DEF ExistsBijection

(***************************************************************************)
(* One NVL queue carries the tokens of all sources, and what is in it of   *)
(* one source is the tokens after those received, in order (internode.cu   *)
(* 878-1140).                                                              *)
(***************************************************************************)
THEOREM NvlSlots == Spec => []NvlSlotsKept
<1>1. ASSUME IInv PROVE NvlSlotsKept
  <2>. SUFFICES ASSUME NEW d \in Rdma, NEW j \in Nvl, NEW s \in Rdma
                PROVE
         /\ fIdx[<<d, j>>][s] = Cardinality(Got(d, j, s)) + Cardinality(InQueue(d, j, s))
         /\ \A i \in InQueue(d, j, s) :
              nvlBuf[<<d, j>>][i % NvlRecv][2] =
                Nth(FlowTo(s, d, j), Cardinality(Got(d, j, s)) + Earlier(InQueue(d, j, s), i))
    BY DEF NvlSlotsKept, InQueue
  <2>1. /\ fIdx[<<d, j>>][s] = Received(d, j, s) + Cardinality(InQueue(d, j, s))
        /\ \A i \in InQueue(d, j, s) :
             /\ nvlBuf[<<d, j>>][i % NvlRecv][2] \in FlowTo(s, d, j)
             /\ RankPlace(s, d, j, nvlBuf[<<d, j>>][i % NvlRecv][2])
                  = Received(d, j, s) + Earlier(InQueue(d, j, s), i)
    BY <1>1 DEF IInv, QueueOK
  <2>2. Cardinality(Got(d, j, s)) = Received(d, j, s)
    BY <1>1, GotCounted
  <2>3. \A u \in FlowTo(s, d, j) : Nth(FlowTo(s, d, j), RankPlace(s, d, j, u)) = u
    <3>1. FlowTo(s, d, j) \in SUBSET Int /\ IsFiniteSet(FlowTo(s, d, j))
      BY <1>1, FlowIs DEF IInv, Typed
    <3>. QED
      BY <3>1, NthIs DEF RankPlace
  <2>. QED
    BY <2>1, <2>2, <2>3
<1>. QED
  BY <1>1, Invariance, PTL

(***************************************************************************)
(* The row of every token is fixed by the routing alone, in whatever order *)
(* the two hops bring the sources in (internode.cu 1045-1115).             *)
(***************************************************************************)
THEOREM RowsAreCorrect == Spec => []RowsCorrect
<1>1. ASSUME IInv PROVE RowsCorrect
  <2>. SUFFICES ASSUME NEW d \in Rdma, NEW j \in Nvl, NEW x \in recvX[<<d, j>>]
                PROVE  /\ x[2][2] \in FlowTo(x[2][1], d, j)
                       /\ x[1] = GblRankOffset(x[2][1], d, j) + GblPrefix(x[2][1], d, j, x[2][2])
    BY DEF RowsCorrect
  <2>0. route \in Routings /\ ReceiverOK(d, j)
    BY <1>1 DEF IInv, Typed
  <2>1. PICK s \in Rdma : \E u \in FlowTo(s, d, j) :
          x = <<RowBase(s, d, j) + RankPlace(s, d, j, u), <<s, u>> >>
    BY <2>0 DEF ReceiverOK
  <2>2. PICK u \in FlowTo(s, d, j) : x = <<RowBase(s, d, j) + RankPlace(s, d, j, u), <<s, u>> >>
    BY <2>1
  <2>3. x[2][1] = s /\ x[2][2] = u /\ x[1] = RowBase(s, d, j) + RankPlace(s, d, j, u)
    BY <2>2
  <2>4. u \in Nat /\ First(s) <= u /\ u < Past(s) /\ First(s) \in Nat /\ Past(s) \in Nat
    BY <2>0, FlowIs, TokenRange
  <2>5. /\ GblPrefix(s, d, j, First(s)) \in Nat
        /\ GblPrefix(s, d, j, u) = GblPrefix(s, d, j, First(s)) + RankPlace(s, d, j, u)
    <3>1. u \in First(s) .. Past(s)
      BY <2>4
    <3>. QED
      BY <2>0, <3>1, PrefixIs
  <2>6. GblRankOffset(s, d, j) \in Nat /\ RankPlace(s, d, j, u) \in Nat
    BY <2>0, <2>4, OffsetsAreNat, RankPlaceIs
  <2>7. x[1] = GblRankOffset(s, d, j) + GblPrefix(s, d, j, u)
    BY <2>3, <2>5, <2>6 DEF RowBase
  <2>. QED
    BY <2>3, <2>7
<1>. QED
  BY <1>1, Invariance, PTL

\* An index in send_nvl_head is one token's.
LEMMA HeadsTell ==
  ASSUME route \in Routings, NEW d \in Rdma, NEW j \in Nvl, HeadsOK(d, j),
         NEW s \in Rdma, NEW t \in Flow(s, d), NEW y \in sendNvlHead[<<d, j>>],
         y[1] = IndexBase(s, d) + Place(s, d, t)
  PROVE  y[2] = IF t \in FlowTo(s, d, j) THEN RankPlace(s, d, j, t) ELSE None
<1>. DEFINE Said(r, u) == IF u \in FlowTo(r, d, j) THEN RankPlace(r, d, j, u) ELSE None
<1>1. PICK r \in Rdma : \E u \in Flow(r, d) : y = <<IndexBase(r, d) + Place(r, d, u), Said(r, u)>>
  BY DEF HeadsOK
<1>2. PICK u \in Flow(r, d) : y = <<IndexBase(r, d) + Place(r, d, u), Said(r, u)>>
  BY <1>1
<1>. HIDE DEF Said
<1>3. y[1] = IndexBase(r, d) + Place(r, d, u) /\ y[2] = Said(r, u)
  BY <1>2
<1>4. IndexBase(s, d) + Place(s, d, t) = IndexBase(r, d) + Place(r, d, u)
  BY <1>3
<1>5. s = r /\ t = u
  BY <1>4, IndexesDiffer
<1>. QED
  BY <1>3, <1>5 DEF Said

(***************************************************************************)
(* What combine is given brings every token back to its source: the heads  *)
(* stored by the warps and by the forwarders name the row it landed in, or *)
(* -1 (internode.cu 597-618, 941-977).                                     *)
(***************************************************************************)
THEOREM HandleIsConsistent == Spec => []HandleConsistent
<1>1. ASSUME IInv PROVE HandleConsistent
  <2>. DEFINE Back(s, d, j, t) ==
                LET h     == sendHead[<<s, d>>][t]
                    index == RdmaRankOffset(s, d) + RdmaPrefix(s, d, First(s)) + h
                    nvl   == {x[2] : x \in {y \in sendNvlHead[<<d, j>>] : y[1] = index}}
                IN  IF d \notin Nodes(s, t) THEN h = None
                    ELSE IF <<d, j>> \notin Ranks(s, t) THEN nvl = {None}
                    ELSE \E n \in nvl : /\ n # None /\ nvl = {n}
                                       /\ <<chanOff[<<d, j>>][s] + n, <<s, t>> >> \in recvX[<<d, j>>]
  <2>a. HandleConsistent <=>
          \A s, d \in Rdma : \A j \in Nvl :
            lock[s] >= Past(s) /\ fPc[<<d, j>>] = "retired" /\ rPc[<<d, j>>] = "done" =>
            \A t \in First(s) .. Past(s) - 1 : Back(s, d, j, t)
    BY DEF HandleConsistent
  <2>. HIDE DEF Back
  <2>. SUFFICES ASSUME NEW s \in Rdma, NEW d \in Rdma, NEW j \in Nvl,
                       lock[s] >= Past(s), fPc[<<d, j>>] = "retired", rPc[<<d, j>>] = "done",
                       NEW t \in First(s) .. Past(s) - 1
                PROVE  Back(s, d, j, t)
    BY <2>a
  <2>. DEFINE h     == sendHead[<<s, d>>][t]
              index == RdmaRankOffset(s, d) + RdmaPrefix(s, d, First(s)) + h
              nvl   == {x[2] : x \in {y \in sendNvlHead[<<d, j>>] : y[1] = index}}
              Said(u) == IF u \in FlowTo(s, d, j) THEN RankPlace(s, d, j, u) ELSE None
  <2>0. /\ Typed /\ route \in Routings /\ TailsOK(s, d) /\ ForwarderOK(d, j, s)
        /\ HeadsOK(d, j) /\ ReceiverOK(d, j)
    BY <1>1 DEF IInv, Typed
  <2>1. First(s) \in Nat /\ Past(s) \in Nat /\ t \in Nat /\ t < Past(s) /\ lock[s] \in Int /\ t < lock[s]
    <3>1. First(s) \in Nat /\ Past(s) \in Nat /\ lock[s] \in Int
      BY <2>0, TokenRange, SourceTypes
    <3>. QED
      BY <3>1
  <2>2. h = IF t \in Flow(s, d) THEN Place(s, d, t) ELSE None
    BY <2>0, <2>1 DEF TailsOK
  <2>3. t \in Flow(s, d) <=> d \in Nodes(s, t)
    BY <2>0, FlowIs
  <2>4. ASSUME d \in Nodes(s, t) PROVE nvl = {Said(t)}
    <3>1. t \in Flow(s, d) /\ h = Place(s, d, t)
      BY <2>2, <2>3, <2>4
    <3>2. Place(s, d, t) \in Nat /\ Place(s, d, t) < Cardinality(Flow(s, d)) /\ t \in Int
          /\ Cardinality(Flow(s, d)) \in Nat
      BY <2>0, <2>1, <3>1, PlaceIs, FlowIs
    <3>3. Place(s, d, t) < fHead[<<d, j>>][s]
      <4>1. Cardinality(Flow(s, d)) <= fHead[<<d, j>>][s]
        BY <2>0 DEF ForwarderOK
      <4>2. fHead[<<d, j>>][s] \in Nat
        BY <2>0, RankTypes
      <4>. QED
        BY <3>2, <4>1, <4>2
    <3>4. index = IndexBase(s, d) + Place(s, d, t)
      BY <3>1 DEF IndexBase
    <3>5. <<index, Said(t)>> \in sendNvlHead[<<d, j>>]
      BY <2>0, <3>1, <3>3, <3>4 DEF HeadsOK
    <3>6. ASSUME NEW y \in sendNvlHead[<<d, j>>], y[1] = index PROVE y[2] = Said(t)
      <4>1. y[1] = IndexBase(s, d) + Place(s, d, t)
        BY <3>4, <3>6
      <4>. HIDE DEF h, index, nvl
      <4>. QED
        BY <2>0, <3>1, <4>1, HeadsTell
    <3>. HIDE DEF Said, index
    <3>. QED
      BY <3>5, <3>6
  <2>5. ASSUME d \in Nodes(s, t), <<d, j>> \in Ranks(s, t)
        PROVE  /\ Said(t) # None
               /\ <<chanOff[<<d, j>>][s] + Said(t), <<s, t>> >> \in recvX[<<d, j>>]
    <3>1. t \in FlowTo(s, d, j)
      BY <2>0, <2>3, <2>5, FlowIs
    <3>2. Said(t) = RankPlace(s, d, j, t) /\ RankPlace(s, d, j, t) \in Nat
      BY <2>0, <2>1, <3>1, RankPlaceIs
    <3>3. chanOff[<<d, j>>][s] = RowBase(s, d, j) /\ Cardinality(Missing(d, j)) = 0
      BY <2>0 DEF ReceiverOK
    <3>4. <<s, t>> \notin Missing(d, j)
      <4>. DEFINE n == [r \in Rdma |-> Received(d, j, r)]
      <4>1. Missing(d, j) = After(d, j, n)
        BY MissingIs
      <4>2. IsFiniteSet(After(d, j, n))
        BY <2>0, AfterIs
      <4>3. Missing(d, j) = {}
        BY <3>3, <4>1, <4>2, FS_EmptySet
      <4>. QED
        BY <4>3
    <3>5. Received(d, j, s) \in Nat /\ ~ (Received(d, j, s) <= RankPlace(s, d, j, t))
      BY <2>0, <3>1, <3>4 DEF Missing, ReceiverOK
    <3>6. RankPlace(s, d, j, t) < Received(d, j, s)
      BY <3>2, <3>5
    <3>7. <<RowBase(s, d, j) + RankPlace(s, d, j, t), <<s, t>> >> \in recvX[<<d, j>>]
      BY <2>0, <3>1, <3>6 DEF ReceiverOK
    <3>. QED
      BY <3>2, <3>3, <3>7 DEF None
  <2>6. ASSUME <<d, j>> \notin Ranks(s, t), d \in Nodes(s, t) PROVE Said(t) = None
    BY <2>0, <2>3, <2>6, FlowIs
  <2>. HIDE DEF nvl, Said, h
  <2>7. d \notin Nodes(s, t) => h = None
    BY <2>2, <2>3
  <2>8. d \in Nodes(s, t) /\ <<d, j>> \notin Ranks(s, t) => nvl = {None}
    BY <2>4, <2>6
  <2>9. d \in Nodes(s, t) /\ <<d, j>> \in Ranks(s, t) =>
          \E n \in nvl : /\ n # None /\ nvl = {n}
                         /\ <<chanOff[<<d, j>>][s] + n, <<s, t>> >> \in recvX[<<d, j>>]
    BY <2>4, <2>5
  <2>. QED
    BY <2>7, <2>8, <2>9 DEF Back, nvl, h
<1>. QED
  BY <1>1, Invariance, PTL
=============================================================================
