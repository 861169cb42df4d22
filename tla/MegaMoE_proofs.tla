-------------------------- MODULE MegaMoE_proofs ---------------------------
(***************************************************************************)
(* The gates are tests for equality on flags that are never reset.  They   *)
(* work because everything a flag or an expected value holds is a count of *)
(* facts that stay true: the expected values count the kernels a rank has  *)
(* begun, the flags who has done a part of which call; see LocalInv.  What *)
(* a rank has waited for then bounds how far it may be ahead of the rest:  *)
(* nobody signals a bank twice while somebody waits on it; see GateInv.    *)
(***************************************************************************)
EXTENDS MegaPrologue_proofs

-----------------------------------------------------------------------------
(***************************************************************************)
(* Epochs, flags and gates.  Whether a rank has begun kernel i, or has     *)
(* done a part x of its work there, never changes back; the flags count    *)
(* such facts.                                                             *)
(***************************************************************************)
DispatchAt(i) == i \in 1 .. Len(program) /\ program[i].kind \in Dispatches
CombineAt(i)  == i \in 1 .. Len(program) /\ program[i].kind = "combine"

RoutingAt(i)  == routing[program[i].layer]

Begun(r, i) == i < pc[r] \/ (i = pc[r] /\ stage[r] = "run")
Pushed(r, i, x)  == i < pc[r] \/ (i = pc[r] /\ stage[r] = "run" /\ x \in work[r].sent)
Flagged(r, i, x) == i < pc[r] \/ (i = pc[r] /\ stage[r] = "run" /\ x \in work[r].flagged)

\* The bank of a dispatch, and all dispatches that use a bank.
DispatchNo(i) == Cardinality({j \in 1 .. Len(program) : DispatchAt(j) /\ j <= i})
DispatchBank(b) == {j \in 1 .. Len(program) : DispatchAt(j) /\ DispatchNo(j) % 2 = b}

\* The combines a rank has begun: every operation has one, its third kernel.
Combines(r) == (pc[r] \div 4) + IF In(r, {"combine"}, "run") THEN 1 ELSE 0
CombineNo(i) == (i \div 4) + 1

Things == Experts \cup (Experts \X Ranks)
Parts  == Tiles \cup Experts \cup (Tiles \X (1 .. NBlocks))

EpochsTyped ==
  /\ work \in [Ranks -> [sent : SUBSET Things, flagged : SUBSET Things, tiles : SUBSET Parts,
                         reduced : SUBSET Tokens, aligned : BOOLEAN]]
  /\ dispEpoch \in [Ranks -> [parity : Banks, expected : [Banks -> Nat]]]
  /\ combEpoch \in [Ranks -> [parity : Banks, tiles : [Banks -> Nat], rows : [Banks -> Nat]]]

EpochsOK ==
  \A r \in Ranks :
    /\ dispEpoch[r].parity = Cardinality({j \in 1 .. Len(program) : DispatchAt(j) /\ Begun(r, j)}) % 2
    /\ combEpoch[r].parity = Combines(r) % 2
    /\ \A b \in Banks :
         /\ dispEpoch[r].expected[b] = NumRanks * Cardinality({j \in DispatchBank(b) : Begun(r, j)})
         /\ combEpoch[r].rows[b] = (Combines(r) + b) \div 2
         /\ combEpoch[r].tiles[b] = NBlocks * combEpoch[r].rows[b]

WorkOK ==
  \A r \in Ranks :
    /\ In(r, Dispatches, "run") =>
         work[r].flagged \subseteq work[r].sent /\ work[r].sent \subseteq Experts
    /\ In(r, {"combine"}, "run") =>
         /\ work[r].flagged \subseteq work[r].sent /\ work[r].sent \subseteq Segments(r)
         /\ work[r].tiles \subseteq MyTiles(r) \X (1 .. NBlocks)

\* The flag of an expert counts who has signalled it, in which dispatch.
Signals(b, e) == {p \in Ranks \X DispatchBank(b) : Flagged(p[1], p[2], e)}
DispFlagsOK ==
  /\ dispFlag = [r \in Ranks |-> [b \in Banks |-> [e \in Local(r) |-> dispFlag[r][b][e]]]]
  /\ \A r \in Ranks, b \in Banks : \A e \in Local(r) :
       dispFlag[r][b][e] = Cardinality(Signals(b, e))

\* The n-blocks of tile i that are done or, of an empty tile, made up for.
Blocks(r, i) == {n \in 1 .. NBlocks : <<i, n>> \in work[r].tiles}
Progress(r, i) ==
  IF i \in MyTiles(r) THEN Cardinality(Blocks(r, i)) ELSE IF work[r].aligned THEN NBlocks ELSE 0

TilesOK ==
  /\ combFlag \in [Ranks -> [Banks -> [Tiles -> Nat]]]
  /\ l2 = [r \in Ranks |-> [i \in Tiles |-> [n \in 1 .. NBlocks |-> l2[r][i][n]]]]
  /\ \A r \in Ranks, b \in Banks, i \in Tiles :
       combFlag[r][b][i] + (IF In(r, {"combine"}, "run") /\ b = Bank(r) THEN NBlocks ELSE 0)
         = combEpoch[r].tiles[b]
             + (IF In(r, {"combine"}, "run") /\ b = Bank(r) THEN Progress(r, i) ELSE 0)
  /\ \A r \in Ranks : In(r, {"combine"}, "run") =>
       \A i \in Tiles, n \in 1 .. NBlocks : <<i, n>> \in work[r].tiles => l2[r][i][n] = pc[r]

\* A slot's flag has the value of the last call in which its row came.
CallOf(b, v) == 4 * (2 * v - b) - 1
ReduceFlagsOK ==
  /\ reduceFlag \in [Ranks -> [Banks -> [Slots -> Nat]]]
  /\ \A q \in Ranks, b \in Banks, s \in Slots :
       LET i == CallOf(b, reduceFlag[q][b][s]) IN
       reduceFlag[q][b][s] # 0 =>
         /\ CombineAt(i) /\ RoutingAt(i)[q][s] # NoExpert
         /\ Flagged(Owner(RoutingAt(i)[q][s]), i, <<RoutingAt(i)[q][s], q>>)

RowsTyped ==
  /\ pool = [r \in Ranks |-> [row \in PoolRows |-> pool[r][row]]]
  /\ comb = [r \in Ranks |-> [s \in Slots |-> comb[r][s]]]
  /\ \A r \in Ranks : \A row \in PoolRows :
       pool[r][row] \in {NoRow} \cup ((1 .. Len(program)) \X Ranks \X Tokens)
  /\ \A r \in Ranks : \A s \in Slots :
       comb[r][s] \in {NoRow} \cup ((1 .. Len(program)) \X Experts)

LocalInv ==
  /\ EpochsTyped /\ EpochsOK /\ WorkOK /\ DispFlagsOK /\ TilesOK /\ ReduceFlagsOK /\ RowsTyped

-----------------------------------------------------------------------------
(***************************************************************************)
(* What the gates are for.  It needs that every rank waits for somebody,   *)
(* and, for the rows of a pool, that every rank has blocks to reduce with.  *)
(***************************************************************************)

\* The last kernel of its operation that waits for the rows of dispatch i.
Fence(i) == IF program[i].kind = "redispatch" THEN i ELSE 4 * ((i - 1) \div 4) + 3

\* r has been through a gate of expert e in dispatch i.
Opened(r, i, e) ==
  \/ /\ i < pc[r]
     /\ program[i].kind = "redispatch" \/ ExpertTotal(Matrix(RoutingAt(i)), e) > 0
  \/ /\ i = pc[r] /\ stage[r] = "run"
     /\ \E x \in work[r].tiles : x \in Pieces(r) /\ ExpertOf(r, x) = e
GatesOK ==
  \A r \in Ranks, i \in 1 .. Len(program) : DispatchAt(i) =>
    \A e \in Local(r) : Opened(r, i, e) => \A q \in Ranks : Flagged(q, i, e)

\* r has reduced the token of slot s in combine i.  A rank without an empty
\* tile has no blocks for that, and goes on.
Reduces(r, i) == RealTiles(Matrix(RoutingAt(i)), r) < MaxTiles
Reduced(r, i, s) ==
  \/ i < pc[r] /\ Reduces(r, i)
  \/ i = pc[r] /\ stage[r] = "run" /\ TokenOf(s) \in work[r].reduced
ReducedOK ==
  \A q \in Ranks, i \in 1 .. Len(program), s \in Slots :
    CombineAt(i) /\ RoutingAt(i)[q][s] # NoExpert /\ Reduced(q, i, s) =>
      Flagged(Owner(RoutingAt(i)[q][s]), i, <<RoutingAt(i)[q][s], q>>)

FencesOK ==
  \A q, r \in Ranks, i \in 1 .. Len(program) :
    DispatchAt(i) /\ Fence(i) < pc[q] => Begun(r, i)

\* What has been sent home stays until it is reduced.
CombOK ==
  \A q \in Ranks, i \in 1 .. Len(program), s \in Slots :
    LET e == RoutingAt(i)[q][s] IN
    /\ CombineAt(i) /\ e # NoExpert /\ pc[q] <= i
    /\ Pushed(Owner(e), i, <<e, q>>)
    => comb[q][s] = <<i, e>>

\* Where nobody was overtaken, ranks in dispatches of two layers are not
\* in each other's way.
LayersApart ==
  ~ overtaken =>
    \A q, r \in Ranks, i, j \in 1 .. Len(program) :
      /\ DispatchAt(i) /\ DispatchAt(j) /\ i < j /\ program[i].layer # program[j].layer
      /\ Begun(q, j)
      => i < pc[r]

\* The last kernel that reads what dispatch i has put into the pool.
LastUse(i) == IF program[i].kind = "redispatch" THEN i ELSE Fence(i) - 1
PushedRow(q, i, e, row) ==
  LET l == program[i].layer IN
  <<i, q, handle[q][l].token[SourceOffset(Matrix(routing[l]), q, e)
                               + (row - SegmentStart(Matrix(routing[l]), q, e))]>>
PoolOK ==
  ~ overtaken =>
    \A q, r \in Ranks, i \in 1 .. Len(program) : \A e \in Local(r) :
      DispatchAt(i) /\ Pushed(q, i, e) /\ pc[r] <= LastUse(i) =>
        \A row \in Segment(RoutingAt(i), q, e) : pool[r][row] = PushedRow(q, i, e, row)

GateInv == GatesOK /\ ReducedOK /\ FencesOK /\ CombOK

RowInv == LayersApart /\ PoolOK

-----------------------------------------------------------------------------
(***************************************************************************)
(* Where the kernels of an operation stand in the program.                 *)
(***************************************************************************)
Operation(k, kinds) ==
  \A a \in 1 .. 4 : /\ 4 * k + a \in 1 .. Len(program)
                    /\ program[4 * k + a].kind = kinds[a]
                    /\ program[4 * k + a].layer = OpLayer(program, k)
ForwardOp(k)  == /\ Operation(k, ForwardKinds)
                 /\ \A j \in 0 .. k - 1 : OpLayer(program, j) # OpLayer(program, k)
BackwardOp(k) == /\ Operation(k, BackwardKinds)
                 /\ \E j \in 0 .. k - 1 :
                      /\ ForwardOp(j) /\ OpLayer(program, j) = OpLayer(program, k)
                      /\ \A i \in (0 .. k - 1) \ {j} : OpLayer(program, i) # OpLayer(program, k)

LEMMA OperationIs ==
  ASSUME PlaceOK, NEW k \in Nat, 4 * k + 4 <= Len(program), NEW kinds \in [1 .. 4 -> Kinds],
         IsOperation(program, k, kinds)
  PROVE  Operation(k, kinds)
<1>1. Len(program) \in Nat
  BY ProgramIs DEF PlaceOK
<1>2. ASSUME NEW a \in 1 .. 4
      PROVE  /\ 4 * k + a \in 1 .. Len(program) /\ program[4 * k + a].kind = kinds[a]
             /\ program[4 * k + a].layer = OpLayer(program, k)
  <2>1. program[4 * k + a] = [kind |-> kinds[a], layer |-> OpLayer(program, k)]
    BY DEF IsOperation
  <2>. QED
    BY <1>1, <2>1
<1>. QED
  BY <1>2 DEF Operation

LEMMA KindsAre ==
  /\ ForwardKinds \in [1 .. 4 -> Kinds] /\ BackwardKinds \in [1 .. 4 -> Kinds]
  /\ ForwardKinds[1] = "prologue" /\ ForwardKinds[2] = "dispatch"
  /\ ForwardKinds[3] = "combine" /\ ForwardKinds[4] = "save"
  /\ BackwardKinds[1] = "dispatch" /\ BackwardKinds[2] = "wgrad2"
  /\ BackwardKinds[3] = "combine" /\ BackwardKinds[4] = "redispatch"
BY DEF ForwardKinds, BackwardKinds, Kinds

LEMMA Operations ==
  ASSUME PlaceOK, NEW k \in Nat, 4 * k + 4 <= Len(program)
  PROVE  ForwardOp(k) \/ BackwardOp(k)
<1>1. /\ Len(program) \in Nat /\ LayerByLayer(program)
  BY ProgramIs DEF PlaceOK
<1>2. \A j \in 0 .. k : 4 * j + 4 <= Len(program) /\ j \in 0 .. (Len(program) \div 4) - 1
  BY <1>1
<1>3. ASSUME NEW j \in 0 .. k, IsOperation(program, j, ForwardKinds),
             \A i \in 0 .. j - 1 : OpLayer(program, i) # OpLayer(program, j)
      PROVE  ForwardOp(j)
  BY <1>2, <1>3, OperationIs, KindsAre DEF ForwardOp
<1>4. CASE /\ IsOperation(program, k, ForwardKinds)
           /\ \A i \in 0 .. k - 1 : OpLayer(program, i) # OpLayer(program, k)
  BY <1>3, <1>4
<1>5. CASE /\ IsOperation(program, k, BackwardKinds)
           /\ \E j \in 0 .. k - 1 :
                /\ IsOperation(program, j, ForwardKinds) /\ OpLayer(program, j) = OpLayer(program, k)
                /\ \A i \in (0 .. k - 1) \ {j} : OpLayer(program, i) # OpLayer(program, k)
  <2>1. PICK j \in 0 .. k - 1 :
          /\ IsOperation(program, j, ForwardKinds) /\ OpLayer(program, j) = OpLayer(program, k)
          /\ \A i \in (0 .. k - 1) \ {j} : OpLayer(program, i) # OpLayer(program, k)
    BY <1>5
  <2>2. \A i \in 0 .. j - 1 : OpLayer(program, i) # OpLayer(program, j)
    BY <2>1
  <2>3. ForwardOp(j)
    BY <1>3, <2>1, <2>2
  <2>4. Operation(k, BackwardKinds)
    BY <1>2, <1>5, OperationIs, KindsAre
  <2>. QED
    BY <2>1, <2>3, <2>4 DEF BackwardOp
<1>. QED
  BY <1>1, <1>2, <1>4, <1>5 DEF LayerByLayer

\* Every kernel is one of the four of an operation.
LEMMA KernelIs ==
  ASSUME PlaceOK, NEW i \in 1 .. Len(program)
  PROVE  \E k \in Nat : \E a \in 1 .. 4 :
           /\ i = 4 * k + a /\ 4 * k + 4 <= Len(program)
           /\ program[i].layer = OpLayer(program, k) /\ program[i].layer \in Layers
           /\ \/ ForwardOp(k) /\ program[i].kind = ForwardKinds[a]
              \/ BackwardOp(k) /\ program[i].kind = BackwardKinds[a]
<1>1. program \in Programs
  BY DEF PlaceOK
<1>2. PICK k \in Nat, a \in 1 .. 4 : i = 4 * k + a /\ 4 * k + 4 <= Len(program)
  BY <1>1, OperationOf
<1>3. ForwardOp(k) \/ BackwardOp(k)
  BY <1>2, Operations
<1>4. program[i].layer \in Layers
  BY <1>1, ProgramIs
<1>5. CASE ForwardOp(k)
  BY <1>2, <1>4, <1>5 DEF ForwardOp, Operation
<1>6. CASE BackwardOp(k)
  BY <1>2, <1>4, <1>6 DEF BackwardOp, Operation
<1>. QED
  BY <1>3, <1>5, <1>6

LEMMA CombineIs ==
  ASSUME PlaceOK, NEW i \in 1 .. Len(program)
  PROVE  /\ program[i].kind = "combine" <=> i % 4 = 3
         /\ program[i].layer \in Layers
         /\ program[i].kind = "redispatch" => i % 4 = 0
         /\ program[i].kind = "dispatch" => i % 4 \in {1, 2}
         /\ program[i].kind = "wgrad2" => i % 4 = 2
<1>1. PICK k \in Nat, a \in 1 .. 4 :
        /\ i = 4 * k + a /\ program[i].layer \in Layers
        /\ program[i].kind \in {ForwardKinds[a], BackwardKinds[a]}
        /\ program[i].kind = ForwardKinds[a] \/ program[i].kind = BackwardKinds[a]
  BY KernelIs
<1>2. i % 4 = a % 4
  BY <1>1
<1>3. a \in {1, 2, 3, 4}
  BY <1>1
<1>. QED
  BY <1>1, <1>2, <1>3, KindsAre

\* A dispatch and the kernels behind it.
LEMMA FenceIs ==
  ASSUME PlaceOK, NEW i, DispatchAt(i)
  PROVE  /\ i \in 1 .. Len(program) /\ i \in Nat /\ Fence(i) \in 1 .. Len(program) /\ Fence(i) \in Nat
         /\ program[Fence(i)].layer = program[i].layer
         /\ i <= LastUse(i) /\ LastUse(i) <= Fence(i) /\ LastUse(i) \in Nat
         /\ program[i].kind \in {"dispatch", "redispatch"}
         /\ program[i].kind = "redispatch" => Fence(i) = i /\ LastUse(i) = i
         /\ program[i].kind = "dispatch" => /\ CombineAt(Fence(i)) /\ i < Fence(i)
                                            /\ LastUse(i) = Fence(i) - 1
                                            /\ Fence(i) = 4 * ((i - 1) \div 4) + 3
         /\ i < LastUse(i) => DispatchAt(LastUse(i) + 2) /\ program[LastUse(i) + 2].layer = program[i].layer
<1>1. i \in 1 .. Len(program) /\ program[i].kind \in {"dispatch", "redispatch"} /\ Len(program) \in Nat
  BY ProgramIs DEF DispatchAt, Dispatches, PlaceOK
<1>2. PICK k \in Nat, a \in 1 .. 4 :
        /\ i = 4 * k + a /\ 4 * k + 4 <= Len(program)
        /\ program[i].layer = OpLayer(program, k)
        /\ \/ ForwardOp(k) /\ program[i].kind = ForwardKinds[a]
           \/ BackwardOp(k) /\ program[i].kind = BackwardKinds[a]
  BY <1>1, KernelIs
<1>3. CASE program[i].kind = "redispatch"
  BY <1>1, <1>3 DEF Fence, LastUse
<1>4. CASE program[i].kind = "dispatch"
  <2>1. a \in {1, 2} /\ (a = 1 => BackwardOp(k))
    BY <1>2, <1>4, KindsAre
  <2>2. (i - 1) \div 4 = k
    BY <1>2, <2>1
  <2>3. Fence(i) = 4 * k + 3 /\ LastUse(i) = 4 * k + 2
    BY <1>2, <1>4, <2>2 DEF Fence, LastUse
  <2>4. Operation(k, ForwardKinds) \/ Operation(k, BackwardKinds)
    BY <1>2 DEF ForwardOp, BackwardOp
  <2>5. /\ 4 * k + 3 \in 1 .. Len(program) /\ program[4 * k + 3].kind = "combine"
        /\ program[4 * k + 3].layer = OpLayer(program, k)
    BY <2>4, KindsAre DEF Operation
  <2>6. a = 1 => /\ DispatchAt(4 * k + 4) /\ program[4 * k + 4].layer = OpLayer(program, k)
    BY <2>1, KindsAre DEF Operation, BackwardOp, DispatchAt, Dispatches
  <2>7. i < LastUse(i) => DispatchAt(LastUse(i) + 2) /\ program[LastUse(i) + 2].layer = program[i].layer
    <3>1. LastUse(i) + 2 = 4 * k + 4 /\ (i < LastUse(i) => a = 1)
      BY <1>2, <2>1, <2>3
    <3>. QED
      BY <1>2, <2>6, <3>1
  <2>8. CombineAt(Fence(i)) /\ Fence(i) \in 1 .. Len(program) /\ program[Fence(i)].layer = program[i].layer
    BY <1>2, <2>3, <2>5 DEF CombineAt
  <2>9. i <= LastUse(i) /\ LastUse(i) = Fence(i) - 1 /\ i < Fence(i) /\ LastUse(i) \in Nat
        /\ Fence(i) \in Nat /\ LastUse(i) <= Fence(i)
    BY <1>2, <2>1, <2>3
  <2>. QED
    BY <1>1, <1>4, <2>2, <2>3, <2>7, <2>8, <2>9
<1>. QED
  BY <1>1, <1>3, <1>4

\* The dispatch a combine comes behind.
LEMMA CombineOf ==
  ASSUME PlaceOK, NEW c, CombineAt(c)
  PROVE  /\ c \in Nat /\ c \in 1 .. Len(program)
         /\ \E i \in 1 .. Len(program) :
              /\ DispatchAt(i) /\ program[i].kind = "dispatch" /\ i < c /\ Fence(i) = c
              /\ program[i].layer = program[c].layer
<1>1. c \in 1 .. Len(program) /\ program[c].kind = "combine" /\ Len(program) \in Nat
  BY ProgramIs DEF CombineAt, PlaceOK
<1>2. PICK k \in Nat, a \in 1 .. 4 :
        /\ c = 4 * k + a /\ 4 * k + 4 <= Len(program)
        /\ program[c].layer = OpLayer(program, k)
        /\ \/ ForwardOp(k) /\ program[c].kind = ForwardKinds[a]
           \/ BackwardOp(k) /\ program[c].kind = BackwardKinds[a]
  BY <1>1, KernelIs
<1>3. c = 4 * k + 3
  <2>1. a \in {1, 2, 3, 4}
    BY <1>2
  <2>. QED
    BY <1>1, <1>2, <2>1, KindsAre
<1>4. ASSUME NEW i \in {4 * k + 1, 4 * k + 2}, program[i].kind = "dispatch",
             program[i].layer = OpLayer(program, k), i \in 1 .. Len(program)
      PROVE  /\ DispatchAt(i) /\ i < c /\ Fence(i) = c /\ program[i].layer = program[c].layer
  <2>1. (i - 1) \div 4 = k
    BY <1>4
  <2>. QED
    BY <1>2, <1>3, <1>4, <2>1 DEF DispatchAt, Dispatches, Fence
<1>5. CASE ForwardOp(k)
  <2>1. /\ 4 * k + 2 \in 1 .. Len(program) /\ program[4 * k + 2].kind = "dispatch"
        /\ program[4 * k + 2].layer = OpLayer(program, k)
    BY <1>5, KindsAre DEF ForwardOp, Operation
  <2>. QED
    BY <1>1, <1>4, <2>1
<1>6. CASE BackwardOp(k)
  <2>1. /\ 4 * k + 1 \in 1 .. Len(program) /\ program[4 * k + 1].kind = "dispatch"
        /\ program[4 * k + 1].layer = OpLayer(program, k)
    BY <1>6, KindsAre DEF BackwardOp, Operation
  <2>. QED
    BY <1>1, <1>4, <2>1
<1>. QED
  BY <1>2, <1>5, <1>6

\* Of two dispatches the later one comes behind the fence of the earlier;
\* a layer's last dispatch is the one for dW1.
LEMMA FenceBetween ==
  ASSUME PlaceOK, NEW i, NEW j, DispatchAt(i), DispatchAt(j), i < j
  PROVE  /\ Fence(i) < j
         /\ program[i].layer = program[j].layer => program[i].kind = "dispatch"
<1>1. /\ i \in 1 .. Len(program) /\ program[i].kind \in {"dispatch", "redispatch"}
      /\ j \in 1 .. Len(program) /\ program[j].kind \in {"dispatch", "redispatch"}
      /\ Len(program) \in Nat
  BY ProgramIs DEF DispatchAt, Dispatches, PlaceOK
<1>2. PICK k \in Nat, a \in 1 .. 4 :
        /\ i = 4 * k + a /\ 4 * k + 4 <= Len(program)
        /\ program[i].layer = OpLayer(program, k)
        /\ \/ ForwardOp(k) /\ program[i].kind = ForwardKinds[a]
           \/ BackwardOp(k) /\ program[i].kind = BackwardKinds[a]
  BY <1>1, KernelIs
<1>3. PICK m \in Nat, b \in 1 .. 4 :
        /\ j = 4 * m + b /\ 4 * m + 4 <= Len(program)
        /\ program[j].layer = OpLayer(program, m)
        /\ \/ ForwardOp(m) /\ program[j].kind = ForwardKinds[b]
           \/ BackwardOp(m) /\ program[j].kind = BackwardKinds[b]
  BY <1>1, KernelIs
<1>4. a \in {1, 2, 3, 4} /\ b \in {1, 2, 3, 4}
  BY <1>2, <1>3
<1>5. /\ program[i].kind = "redispatch" => BackwardOp(k) /\ a = 4
      /\ program[i].kind = "dispatch" => a \in {1, 2}
      /\ a = 1 => BackwardOp(k)
      /\ a = 2 => ForwardOp(k)
  BY <1>1, <1>2, <1>4, KindsAre
<1>6. /\ k = m /\ program[i].kind = "dispatch" => b = 4
      /\ k = m => program[i].kind # "redispatch"
  <2>1. k = m => a < b
    BY <1>2, <1>3
  <2>2. ForwardOp(k) => ~ BackwardOp(k)
    BY KindsAre DEF ForwardOp, BackwardOp, Operation
  <2>. QED
    BY <1>1, <1>2, <1>3, <1>4, <1>5, <2>1, <2>2, KindsAre, SMTT(30), ZenonT(30)
<1>7. k <= m
  BY <1>2, <1>3, <1>4, SMTT(30), ZenonT(30)
<1>8. Fence(i) < j
  <2>1. CASE program[i].kind = "redispatch"
    BY <2>1 DEF Fence
  <2>2. CASE program[i].kind = "dispatch"
    <3>1. Fence(i) = 4 * k + 3
      <4>1. (i - 1) \div 4 = k
        BY <1>2, <1>4
      <4>. QED
        BY <2>2, <4>1 DEF Fence
    <3>. QED
      BY <1>3, <1>4, <1>6, <1>7, <2>2, <3>1
  <2>. QED
    BY <1>1, <2>1, <2>2
<1>9. ASSUME program[i].layer = program[j].layer, program[i].kind = "redispatch"
      PROVE  FALSE
  <2>1. BackwardOp(k) /\ k < m /\ OpLayer(program, k) = OpLayer(program, m)
    BY <1>2, <1>3, <1>5, <1>6, <1>7, <1>9
  <2>2. PICK x \in 0 .. k - 1 : OpLayer(program, x) = OpLayer(program, k)
    BY <2>1 DEF BackwardOp
  <2>3. x \in 0 .. m - 1 /\ k \in 0 .. m - 1 /\ x # k
    BY <2>1, <2>2
  <2>4. ~ ForwardOp(m)
    BY <2>1, <2>3 DEF ForwardOp
  <2>5. ~ BackwardOp(m)
    BY <2>1, <2>2, <2>3 DEF BackwardOp
  <2>. QED
    BY <1>3, <2>4, <2>5
<1>. QED
  BY <1>1, <1>8, <1>9

\* Whoever works on a layer has made its handle.
LEMMA PrologueOf ==
  ASSUME PlaceOK, NEW i \in 1 .. Len(program), program[i].kind # "prologue"
  PROVE  \E j \in 1 .. Len(program) :
           PrologueAt(program, j) /\ j < i /\ program[j].layer = program[i].layer
<1>1. PICK k \in Nat, a \in 1 .. 4 :
        /\ i = 4 * k + a /\ 4 * k + 4 <= Len(program)
        /\ program[i].layer = OpLayer(program, k)
        /\ \/ ForwardOp(k) /\ program[i].kind = ForwardKinds[a]
           \/ BackwardOp(k) /\ program[i].kind = BackwardKinds[a]
  BY KernelIs
<1>2. \A m \in Nat : ForwardOp(m) => /\ PrologueAt(program, 4 * m + 1)
                                     /\ 4 * m + 1 \in 1 .. Len(program)
                                     /\ program[4 * m + 1].layer = OpLayer(program, m)
  BY KindsAre DEF ForwardOp, Operation, PrologueAt
<1>3. CASE ForwardOp(k) /\ program[i].kind = ForwardKinds[a]
  <2>1. a # 1
    BY <1>3, KindsAre
  <2>. QED
    BY <1>1, <1>2, <1>3, <2>1
<1>4. CASE BackwardOp(k)
  <2>1. PICK m \in 0 .. k - 1 : ForwardOp(m) /\ OpLayer(program, m) = OpLayer(program, k)
    BY <1>4 DEF BackwardOp
  <2>2. m \in Nat /\ 4 * m + 1 < i
    BY <1>1, <2>1
  <2>. QED
    BY <1>1, <1>2, <2>1, <2>2
<1>. QED
  BY <1>1, <1>3, <1>4

\* A rank in another kernel of a layer has the finished handle.
LEMMA HandleAt ==
  ASSUME PrologueInv, NEW r \in Ranks, NEW i \in 1 .. Len(program), i <= pc[r],
         program[i].kind # "prologue", NEW l, l = program[i].layer
  PROVE  /\ l \in Layers
         /\ \A q \in Ranks : HasTables(handle[q][l], routing[l], q)
         /\ TokensOK(routing[l], r, handle[r][l].token)
         /\ \A q \in Ranks : Agree(q, r, l, handle[r][l].slot)
<1>. USE DEF PrologueInv
<1>1. PICK j \in 1 .. Len(program) :
        PrologueAt(program, j) /\ j < i /\ program[j].layer = l
  BY PrologueOf
<1>2. /\ pc[r] \in Nat /\ Place(r) \in Nat /\ Place(r) >= 8 * pc[r]
  <2>1. /\ pc[r] \in Nat /\ Place(r) \in Nat /\ StageNo[stage[r]] \in 0 .. 7
        /\ Place(r) = 8 * pc[r] + StageNo[stage[r]]
    BY PlaceIsNat
  <2>2. ASSUME NEW a \in Nat, NEW b \in 0 .. 7, NEW p, p = 8 * a + b
        PROVE  p >= 8 * a
    BY <2>2
  <2>. QED
    BY <2>1, <2>2
<1>3. Reached(r, j, 8)
  <2>1. j \in Nat /\ j + 1 <= pc[r]
    BY <1>1, <1>2
  <2>. QED
    BY <1>2, <2>1 DEF Reached
<1>4. Reached(r, j, 5) /\ Reached(r, j, 6) /\ Reached(r, j, 7)
  BY <1>3, ReachedBefore
<1>5. ASSUME NEW q \in Ranks PROVE HasTables(handle[q][l], routing[l], q)
  <2>1. Reached(q, j, 6)
    BY <1>1, <1>4, Meets
  <2>2. Reached(q, j, 5)
    BY <2>1, ReachedBefore
  <2>. QED
    BY <1>1, <2>2, HandleIs
<1>6. TokensOK(routing[l], r, handle[r][l].token)
  BY <1>1, <1>4, HandleIs
<1>7. \A q \in Ranks : Agree(q, r, l, handle[r][l].slot)
  BY <1>1, <1>3 DEF SlotsOK
<1>8. l \in Layers
  BY ProgramIs DEF PlaceOK
<1>. QED
  BY <1>5, <1>6, <1>7, <1>8

\* The work of a rank in terms of the routing of the kernel it is in.
LEMMA WorkHere ==
  ASSUME PrologueInv, NEW r \in Ranks, Running(r), program[pc[r]].kind # "prologue",
         NEW R, R = RoutingAt(pc[r])
  PROVE  /\ pc[r] \in 1 .. Len(program) /\ pc[r] \in Nat /\ Layer(r) = program[pc[r]].layer /\ Layer(r) \in Layers
         /\ R = routing[Layer(r)] /\ R \in Choosing /\ Matrix(R) \in Matrices
         /\ Choices(r) = R[r]
         /\ HasTables(H(r), R, r) /\ TokensOK(R, r, H(r).token)
         /\ \A q \in Ranks : Agree(q, r, Layer(r), H(r).slot)
         /\ MyTiles(r) = 0 .. RealTiles(Matrix(R), r) - 1 /\ MyTiles(r) \subseteq Tiles
         /\ MaxTiles \in Nat
         /\ Segments(r) = {seg \in Local(r) \X Ranks : Matrix(R)[seg[2]][seg[1]] > 0}
         /\ \A seg \in Local(r) \X Ranks : RowsOfSegment(r, seg) = Segment(R, seg[2], seg[1])
<1>. USE DEF PrologueInv
<1>1. /\ pc[r] \in 1 .. Len(program) /\ pc[r] \in Nat /\ Layer(r) = program[pc[r]].layer
  BY PlaceIsNat DEF Running, Layer
<1>2. /\ Layer(r) \in Layers /\ HasTables(H(r), R, r) /\ TokensOK(R, r, H(r).token)
      /\ \A q \in Ranks : Agree(q, r, Layer(r), H(r).slot)
      /\ R = routing[Layer(r)]
  BY <1>1, HandleAt DEF RoutingAt, H
<1>3. /\ R \in Choosing /\ Matrix(R) \in Matrices /\ PoolTokens \in Nat
      /\ Sum(PaddedTotals(Matrix(R)), Local(r)) <= PoolTokens
  BY <1>2, RoutingIs
<1>4. Choices(r) = R[r]
  BY <1>2 DEF Choices
<1>5. MyTiles(r) = 0 .. RealTiles(Matrix(R), r) - 1
  BY <1>2, TablesAre DEF MyTiles
<1>6. MyTiles(r) \subseteq Tiles /\ MaxTiles \in Nat
  <2>1. /\ RealTiles(Matrix(R), r) \in Nat
        /\ BlockM * RealTiles(Matrix(R), r) <= PoolTokens
    BY <1>3, TilesAre
  <2>2. MaxTiles \in Nat /\ PoolTokens < BlockM * MaxTiles + BlockM
    BY <1>3, Numbers, Division DEF MaxTiles
  <2>3. RealTiles(Matrix(R), r) <= MaxTiles
    <3>. DEFINE x == RealTiles(Matrix(R), r)
                y == MaxTiles
    <3>1. x \in Nat /\ y \in Nat /\ BlockM * x < BlockM * y + BlockM
      BY <1>3, <2>1, <2>2, Numbers
    <3>. HIDE DEF x, y
    <3>2. ASSUME x >= y + 1 PROVE FALSE
      <4>1. BlockM * (y + 1) <= BlockM * x
        BY <3>1, <3>2, Monotone, Numbers
      <4>. QED
        BY <3>1, <4>1, Numbers, SMTT(30), ZenonT(30)
    <3>3. x <= y
      BY <3>1, <3>2
    <3>. QED
      BY <3>3 DEF x, y
  <2>. QED
    BY <1>5, <2>1, <2>2, <2>3 DEF Tiles
<1>7. \A seg \in Local(r) \X Ranks :
        /\ H(r).recvRow[seg[1]][seg[2]] = SegmentStart(Matrix(R), seg[2], seg[1])
        /\ H(r).recvCount[seg[1]][seg[2]] = Matrix(R)[seg[2]][seg[1]]
  <2>1. \A e \in Local(r) : \A q \in Ranks :
          /\ H(r).recvRow[e][q] = SegmentStart(Matrix(R), q, e)
          /\ H(r).recvCount[e][q] = Matrix(R)[q][e]
    BY <1>2, TablesAre
  <2>. QED
    BY <2>1
<1>8. Segments(r) = {seg \in Local(r) \X Ranks : Matrix(R)[seg[2]][seg[1]] > 0}
  BY <1>7 DEF Segments
<1>9. \A seg \in Local(r) \X Ranks : RowsOfSegment(r, seg) = Segment(R, seg[2], seg[1])
  BY <1>7 DEF RowsOfSegment, Segment
<1>. QED
  BY <1>1, <1>2, <1>3, <1>4, <1>5, <1>6, <1>8, <1>9

-----------------------------------------------------------------------------
(***************************************************************************)
(* What a step does to the ranks: one that works in a kernel of a dispatch *)
(* or a combine, enters or leaves one, or is elsewhere.                    *)
(***************************************************************************)
WorkType == [sent : SUBSET Things, flagged : SUBSET Things, tiles : SUBSET Parts,
             reduced : SUBSET Tokens, aligned : BOOLEAN]
Gated == Dispatches \cup {"combine"}
Busy(r) == In(r, Gated, "run")

WorkIs(r, s, f, t, d, a) ==
  /\ work'[r].sent = s /\ work'[r].flagged = f /\ work'[r].tiles = t
  /\ work'[r].reduced = d /\ work'[r].aligned = a

Frame(r) == /\ Others(r) /\ UNCHANGED <<program, routing>>
            /\ \A q \in Ranks \ {r} : work'[q] = work[q]
            /\ work' \in [Ranks -> WorkType]
Works(r, s, f, t, d, a) ==
  /\ Frame(r) /\ Busy(r) /\ pc'[r] = pc[r] /\ stage'[r] = "run"
  /\ WorkIs(r, s, f, t, d, a)
Enters(r) ==
  /\ Frame(r) /\ In(r, Gated, "start") /\ pc'[r] = pc[r] /\ stage'[r] = "run"
  /\ WorkIs(r, {}, {}, {}, {}, FALSE)
Leaves(r) ==
  /\ Frame(r) /\ Busy(r) /\ pc'[r] = pc[r] + 1 /\ stage'[r] = "start"
Walks(r) ==
  /\ Frame(r) /\ Running(r) /\ program[pc[r]].kind \notin Gated
  /\ stage[r] # "run" /\ stage'[r] # "run"
  /\ \/ pc'[r] = pc[r]
     \/ pc'[r] = pc[r] + 1

LEMMA NoWorkIs == NoWork \in WorkType
BY DEF NoWork, WorkType

LEMMA WorkChanges ==
  ASSUME work \in [Ranks -> WorkType], NEW r \in Ranks
  PROVE  /\ \A x \in Things : work' = [work EXCEPT ![r].sent = @ \cup {x}] =>
              /\ WorkIs(r, work[r].sent \cup {x}, work[r].flagged, work[r].tiles, work[r].reduced, work[r].aligned)
              /\ work' \in [Ranks -> WorkType] /\ \A q \in Ranks \ {r} : work'[q] = work[q]
         /\ \A x \in Things : work' = [work EXCEPT ![r].flagged = @ \cup {x}] =>
              /\ WorkIs(r, work[r].sent, work[r].flagged \cup {x}, work[r].tiles, work[r].reduced, work[r].aligned)
              /\ work' \in [Ranks -> WorkType] /\ \A q \in Ranks \ {r} : work'[q] = work[q]
         /\ \A x \in Parts : work' = [work EXCEPT ![r].tiles = @ \cup {x}] =>
              /\ WorkIs(r, work[r].sent, work[r].flagged, work[r].tiles \cup {x}, work[r].reduced, work[r].aligned)
              /\ work' \in [Ranks -> WorkType] /\ \A q \in Ranks \ {r} : work'[q] = work[q]
         /\ \A x \in Tokens : work' = [work EXCEPT ![r].reduced = @ \cup {x}] =>
              /\ WorkIs(r, work[r].sent, work[r].flagged, work[r].tiles, work[r].reduced \cup {x}, work[r].aligned)
              /\ work' \in [Ranks -> WorkType] /\ \A q \in Ranks \ {r} : work'[q] = work[q]
         /\ work' = [work EXCEPT ![r].aligned = TRUE] =>
              /\ WorkIs(r, work[r].sent, work[r].flagged, work[r].tiles, work[r].reduced, TRUE)
              /\ work' \in [Ranks -> WorkType] /\ \A q \in Ranks \ {r} : work'[q] = work[q]
         /\ work' = [work EXCEPT ![r] = NoWork] =>
              /\ WorkIs(r, {}, {}, {}, {}, FALSE)
              /\ work' \in [Ranks -> WorkType] /\ \A q \in Ranks \ {r} : work'[q] = work[q]
<1>. USE DEF WorkIs, WorkType
<1>1. ASSUME NEW x \in Things, work' = [work EXCEPT ![r].sent = @ \cup {x}]
      PROVE  /\ WorkIs(r, work[r].sent \cup {x}, work[r].flagged, work[r].tiles, work[r].reduced, work[r].aligned)
             /\ work' \in [Ranks -> WorkType] /\ \A q \in Ranks \ {r} : work'[q] = work[q]
  BY <1>1
<1>2. ASSUME NEW x \in Things, work' = [work EXCEPT ![r].flagged = @ \cup {x}]
      PROVE  /\ WorkIs(r, work[r].sent, work[r].flagged \cup {x}, work[r].tiles, work[r].reduced, work[r].aligned)
             /\ work' \in [Ranks -> WorkType] /\ \A q \in Ranks \ {r} : work'[q] = work[q]
  BY <1>2
<1>3. ASSUME NEW x \in Parts, work' = [work EXCEPT ![r].tiles = @ \cup {x}]
      PROVE  /\ WorkIs(r, work[r].sent, work[r].flagged, work[r].tiles \cup {x}, work[r].reduced, work[r].aligned)
             /\ work' \in [Ranks -> WorkType] /\ \A q \in Ranks \ {r} : work'[q] = work[q]
  BY <1>3
<1>4. ASSUME NEW x \in Tokens, work' = [work EXCEPT ![r].reduced = @ \cup {x}]
      PROVE  /\ WorkIs(r, work[r].sent, work[r].flagged, work[r].tiles, work[r].reduced \cup {x}, work[r].aligned)
             /\ work' \in [Ranks -> WorkType] /\ \A q \in Ranks \ {r} : work'[q] = work[q]
  BY <1>4
<1>5. ASSUME work' = [work EXCEPT ![r].aligned = TRUE]
      PROVE  /\ WorkIs(r, work[r].sent, work[r].flagged, work[r].tiles, work[r].reduced, TRUE)
             /\ work' \in [Ranks -> WorkType] /\ \A q \in Ranks \ {r} : work'[q] = work[q]
  BY <1>5
<1>6. ASSUME work' = [work EXCEPT ![r] = NoWork]
      PROVE  /\ WorkIs(r, {}, {}, {}, {}, FALSE)
             /\ work' \in [Ranks -> WorkType] /\ \A q \in Ranks \ {r} : work'[q] = work[q]
  BY <1>6, NoWorkIs DEF NoWork
<1>. QED
  BY <1>1, <1>2, <1>3, <1>4, <1>5, <1>6

Untouched == UNCHANGED <<pool, dispFlag, reduceFlag, comb, dispEpoch, combEpoch, combFlag, l2>>

LEMMA FrameIs ==
  ASSUME PlaceOK, NEW r \in Ranks, UNCHANGED <<program, routing>>
  PROVE  /\ Stay => Others(r) /\ pc'[r] = pc[r] /\ stage'[r] = stage[r]
         /\ \A w : GoTo(r, w) => Others(r) /\ pc'[r] = pc[r] /\ stage'[r] = w
         /\ NextKernel(r) => Others(r) /\ pc'[r] = pc[r] + 1 /\ stage'[r] = "start"
BY DEF PlaceOK, Stay, GoTo, NextKernel, Others

LEMMA WalkShape ==
  ASSUME PlaceOK, work \in [Ranks -> WorkType], NEW r \in Ranks,
         \/ Histogram(r) \/ BarrierStep(r) \/ PushCounts(r) \/ BuildTables(r)
         \/ Scatter(r) \/ CloneSlots(r) \/ SaveWeights(r) \/ WeightGrad2(r)
  PROVE  Walks(r) /\ Untouched
<1>. USE DEF Walks, Frame, Untouched, dataVars, localVars
<1>0. ASSUME NEW K \in {"prologue", "save", "wgrad2"}, NEW w, In(r, {K}, w)
      PROVE  Running(r) /\ program[pc[r]].kind \notin Gated /\ stage[r] = w
  BY <1>0 DEF In, Gated, Dispatches
<1>1. CASE Histogram(r)
  BY <1>0, <1>1, FrameIs DEF Histogram
<1>2. CASE BarrierStep(r)
  <2>1. In(r, {"prologue"}, stage[r]) /\ stage[r] \in DOMAIN Following
    BY <1>2, AtBarrier DEF BarrierStep
  <2>2. /\ stage[r] # "run" /\ Following[stage[r]] # "run"
    BY <2>1, StagesAre
  <2>3. Stay \/ GoTo(r, Following[stage[r]])
    BY <1>2 DEF BarrierStep
  <2>. QED
    BY <1>0, <1>2, <2>1, <2>2, <2>3, FrameIs DEF BarrierStep
<1>3. CASE PushCounts(r)
  BY <1>0, <1>3, FrameIs DEF PushCounts
<1>4. CASE BuildTables(r)
  BY <1>0, <1>4, FrameIs DEF BuildTables
<1>5. CASE Scatter(r)
  <2>1. /\ In(r, {"prologue"}, "scatter") /\ GoTo(r, "e") /\ UNCHANGED <<program, routing, work>>
        /\ Untouched
    BY <1>5 DEF Scatter
  <2>. QED
    BY <1>0, <2>1, FrameIs
<1>6. CASE CloneSlots(r)
  BY <1>0, <1>6, FrameIs DEF CloneSlots
<1>7. CASE SaveWeights(r)
  BY <1>0, <1>7, FrameIs DEF SaveWeights
<1>8. CASE WeightGrad2(r)
  <2>1. /\ In(r, {"wgrad2"}, "start") /\ NextKernel(r) /\ UNCHANGED <<program, routing, work>>
        /\ Untouched
    BY <1>8 DEF WeightGrad2
  <2>. QED
    BY <1>0, <2>1, FrameIs
<1>. QED
  BY <1>1, <1>2, <1>3, <1>4, <1>5, <1>6, <1>7, <1>8

LEMMA DispatchShapes ==
  ASSUME PlaceOK, work \in [Ranks -> WorkType], NEW r \in Ranks
  PROVE  /\ BeginDispatch(r) => Enters(r)
         /\ \A e \in Experts : PushTask(r, e) =>
              Works(r, work[r].sent \cup {e}, work[r].flagged, work[r].tiles, work[r].reduced, work[r].aligned)
         /\ \A e \in Experts : SignalTask(r, e) =>
              Works(r, work[r].sent, work[r].flagged \cup {e}, work[r].tiles, work[r].reduced, work[r].aligned)
         /\ \A x \in Tiles \cup Experts : FinishPiece(r, x) =>
              Works(r, work[r].sent, work[r].flagged, work[r].tiles \cup {x}, work[r].reduced, work[r].aligned)
         /\ EndDispatch(r) => Leaves(r)
<1>. USE DEF Frame
<1>1. \A w : In(r, Dispatches, w) => In(r, Gated, w) /\ stage[r] = w
  BY DEF In, Gated
<1>2. ASSUME BeginDispatch(r) PROVE Enters(r)
  BY <1>1, <1>2, FrameIs, WorkChanges DEF BeginDispatch, Enters
<1>3. ASSUME NEW e \in Experts, PushTask(r, e)
      PROVE  Works(r, work[r].sent \cup {e}, work[r].flagged, work[r].tiles, work[r].reduced, work[r].aligned)
  <2>1. e \in Things
    BY DEF Things
  <2>2. UNCHANGED <<program, routing>> /\ Stay /\ In(r, Dispatches, "run")
        /\ work' = [work EXCEPT ![r].sent = @ \cup {e}]
    BY <1>3 DEF PushTask
  <2>. QED
    BY <1>1, <2>1, <2>2, FrameIs, WorkChanges DEF Works, Busy
<1>4. ASSUME NEW e \in Experts, SignalTask(r, e)
      PROVE  Works(r, work[r].sent, work[r].flagged \cup {e}, work[r].tiles, work[r].reduced, work[r].aligned)
  <2>1. e \in Things
    BY DEF Things
  <2>2. UNCHANGED <<program, routing>> /\ Stay /\ In(r, Dispatches, "run")
        /\ work' = [work EXCEPT ![r].flagged = @ \cup {e}]
    BY <1>4 DEF SignalTask
  <2>. QED
    BY <1>1, <2>1, <2>2, FrameIs, WorkChanges DEF Works, Busy
<1>5. ASSUME NEW x \in Tiles \cup Experts, FinishPiece(r, x)
      PROVE  Works(r, work[r].sent, work[r].flagged, work[r].tiles \cup {x}, work[r].reduced, work[r].aligned)
  <2>1. x \in Parts
    BY DEF Parts
  <2>2. UNCHANGED <<program, routing>> /\ Stay /\ In(r, Dispatches, "run")
        /\ work' = [work EXCEPT ![r].tiles = @ \cup {x}]
    BY <1>5 DEF FinishPiece
  <2>. QED
    BY <1>1, <2>1, <2>2, FrameIs, WorkChanges DEF Works, Busy
<1>6. ASSUME EndDispatch(r) PROVE Leaves(r)
  BY <1>1, <1>6, FrameIs DEF EndDispatch, Leaves, Busy
<1>. QED
  BY <1>2, <1>3, <1>4, <1>5, <1>6

LEMMA CombineShapes ==
  ASSUME PlaceOK, work \in [Ranks -> WorkType], NEW r \in Ranks
  PROVE  /\ BeginCombine(r) => Enters(r)
         /\ \A i \in Tiles, n \in 1 .. NBlocks : StoreBlock(r, i, n) =>
              Works(r, work[r].sent, work[r].flagged, work[r].tiles, work[r].reduced, work[r].aligned)
         /\ \A i \in Tiles, n \in 1 .. NBlocks : CountBlock(r, i, n) =>
              Works(r, work[r].sent, work[r].flagged, work[r].tiles \cup {<<i, n>>}, work[r].reduced, work[r].aligned)
         /\ \A seg \in Experts \X Ranks : PushSegment(r, seg) =>
              Works(r, work[r].sent \cup {seg}, work[r].flagged, work[r].tiles, work[r].reduced, work[r].aligned)
         /\ \A seg \in Experts \X Ranks : SignalSegment(r, seg) =>
              Works(r, work[r].sent, work[r].flagged \cup {seg}, work[r].tiles, work[r].reduced, work[r].aligned)
         /\ AlignEmptyTiles(r) =>
              Works(r, work[r].sent, work[r].flagged, work[r].tiles, work[r].reduced, TRUE)
         /\ \A t \in Tokens : ReduceToken(r, t) =>
              Works(r, work[r].sent, work[r].flagged, work[r].tiles, work[r].reduced \cup {t}, work[r].aligned)
         /\ EndCombine(r) => Leaves(r)
<1>. USE DEF Frame
<1>1. \A w : In(r, {"combine"}, w) => In(r, Gated, w) /\ stage[r] = w
  BY DEF In, Gated
<1>2. ASSUME BeginCombine(r) PROVE Enters(r)
  BY <1>1, <1>2, FrameIs, WorkChanges DEF BeginCombine, Enters
<1>9. ASSUME NEW i \in Tiles, NEW n \in 1 .. NBlocks, StoreBlock(r, i, n)
      PROVE  Works(r, work[r].sent, work[r].flagged, work[r].tiles, work[r].reduced, work[r].aligned)
  <2>1. UNCHANGED <<program, routing>> /\ Stay /\ In(r, {"combine"}, "run") /\ work' = work
    BY <1>9 DEF StoreBlock
  <2>. QED
    BY <1>1, <2>1, FrameIs DEF Works, WorkIs, Busy
<1>3. ASSUME NEW i \in Tiles, NEW n \in 1 .. NBlocks, CountBlock(r, i, n)
      PROVE  Works(r, work[r].sent, work[r].flagged, work[r].tiles \cup {<<i, n>>}, work[r].reduced, work[r].aligned)
  <2>1. <<i, n>> \in Parts
    BY DEF Parts
  <2>2. UNCHANGED <<program, routing>> /\ Stay /\ In(r, {"combine"}, "run")
        /\ work' = [work EXCEPT ![r].tiles = @ \cup {<<i, n>>}]
    BY <1>3 DEF CountBlock
  <2>. QED
    BY <1>1, <2>1, <2>2, FrameIs, WorkChanges DEF Works, Busy
<1>4. ASSUME NEW seg \in Experts \X Ranks, PushSegment(r, seg)
      PROVE  Works(r, work[r].sent \cup {seg}, work[r].flagged, work[r].tiles, work[r].reduced, work[r].aligned)
  <2>1. seg \in Things
    BY DEF Things
  <2>2. UNCHANGED <<program, routing>> /\ Stay /\ In(r, {"combine"}, "run")
        /\ work' = [work EXCEPT ![r].sent = @ \cup {seg}]
    BY <1>4 DEF PushSegment
  <2>. QED
    BY <1>1, <2>1, <2>2, FrameIs, WorkChanges DEF Works, Busy
<1>5. ASSUME NEW seg \in Experts \X Ranks, SignalSegment(r, seg)
      PROVE  Works(r, work[r].sent, work[r].flagged \cup {seg}, work[r].tiles, work[r].reduced, work[r].aligned)
  <2>1. seg \in Things
    BY DEF Things
  <2>2. UNCHANGED <<program, routing>> /\ Stay /\ In(r, {"combine"}, "run")
        /\ work' = [work EXCEPT ![r].flagged = @ \cup {seg}]
    BY <1>5 DEF SignalSegment
  <2>. QED
    BY <1>1, <2>1, <2>2, FrameIs, WorkChanges DEF Works, Busy
<1>6. ASSUME AlignEmptyTiles(r)
      PROVE  Works(r, work[r].sent, work[r].flagged, work[r].tiles, work[r].reduced, TRUE)
  <2>1. UNCHANGED <<program, routing>> /\ Stay /\ In(r, {"combine"}, "run")
        /\ work' = [work EXCEPT ![r].aligned = TRUE]
    BY <1>6 DEF AlignEmptyTiles
  <2>. QED
    BY <1>1, <2>1, FrameIs, WorkChanges DEF Works, Busy
<1>7. ASSUME NEW t \in Tokens, ReduceToken(r, t)
      PROVE  Works(r, work[r].sent, work[r].flagged, work[r].tiles, work[r].reduced \cup {t}, work[r].aligned)
  <2>1. UNCHANGED <<program, routing>> /\ Stay /\ In(r, {"combine"}, "run")
        /\ work' = [work EXCEPT ![r].reduced = @ \cup {t}]
    BY <1>7 DEF ReduceToken
  <2>. QED
    BY <1>1, <2>1, FrameIs, WorkChanges DEF Works, Busy
<1>8. ASSUME EndCombine(r) PROVE Leaves(r)
  BY <1>1, <1>8, FrameIs DEF EndCombine, Leaves, Busy
<1>. QED
  BY <1>2, <1>3, <1>4, <1>5, <1>6, <1>7, <1>8, <1>9

-----------------------------------------------------------------------------
(***************************************************************************)
(* What such a step means for the facts that the flags count.              *)
(***************************************************************************)
GatedAt(i) == i \in 1 .. Len(program) /\ program[i].kind \in Gated
SameBegun ==
  \A q \in Ranks : \A i : GatedAt(i) => (Begun(q, i)' <=> Begun(q, i))
SameFor(i, x) ==
  \A q \in Ranks : (Pushed(q, i, x)' <=> Pushed(q, i, x)) /\ (Flagged(q, i, x)' <=> Flagged(q, i, x))
SameTurns ==
  \A q \in Ranks : Combines(q)' = Combines(q) /\ (In(q, {"combine"}, "run")' <=> In(q, {"combine"}, "run"))

LEMMA OfGated ==
  ASSUME PlaceOK
  PROVE  /\ \A i : GatedAt(i) => i \in Nat
         /\ \A i : DispatchAt(i) => GatedAt(i)
         /\ \A i : CombineAt(i) => GatedAt(i)
         /\ Len(program) \in Nat /\ \A q \in Ranks : pc[q] \in Nat /\ pc[q] \in 1 .. Len(program) + 1
BY ProgramIs DEF PlaceOK, GatedAt, DispatchAt, CombineAt, Gated

\* The count of combines turns when one is begun.
LEMMA CombinesAre ==
  ASSUME PlaceOK, NEW q \in Ranks
  PROVE  /\ Combines(q) \in Nat
         /\ Running(q) /\ program[pc[q]].kind = "combine" => (pc[q] + 1) \div 4 = pc[q] \div 4 + 1
         /\ Running(q) /\ program[pc[q]].kind # "combine" => (pc[q] + 1) \div 4 = pc[q] \div 4
         /\ In(q, {"combine"}, "run") => Combines(q) = pc[q] \div 4 + 1
         /\ ~ In(q, {"combine"}, "run") => Combines(q) = pc[q] \div 4
<1>1. pc[q] \in Nat /\ (Running(q) => pc[q] \in 1 .. Len(program))
  BY OfGated DEF Running
<1>2. pc[q] \div 4 \in Nat
  BY <1>1
<1>3. Running(q) => (program[pc[q]].kind = "combine" <=> pc[q] % 4 = 3)
  BY <1>1, CombineIs
<1>4. pc[q] % 4 = 3 => (pc[q] + 1) \div 4 = pc[q] \div 4 + 1
  BY <1>1
<1>5. pc[q] % 4 # 3 => (pc[q] + 1) \div 4 = pc[q] \div 4
  BY <1>1
<1>. QED
  BY <1>2, <1>3, <1>4, <1>5 DEF Combines

LEMMA OfWalk ==
  ASSUME PlaceOK, PlaceOK', NEW r \in Ranks, Walks(r)
  PROVE  SameBegun /\ SameTurns /\ \A i, x : GatedAt(i) => SameFor(i, x)
<1>1. /\ program' = program /\ Others(r) /\ Running(r) /\ program[pc[r]].kind \notin Gated
      /\ stage[r] # "run" /\ stage'[r] # "run" /\ pc'[r] \in {pc[r], pc[r] + 1}
      /\ \A q \in Ranks \ {r} : work'[q] = work[q]
  BY DEF Walks, Frame
<1>2. ASSUME NEW i, GatedAt(i) PROVE i < pc'[r] <=> i < pc[r]
  <2>1. i # pc[r] /\ i \in Nat /\ pc[r] \in Nat
    BY <1>1, <1>2, OfGated DEF GatedAt
  <2>. QED
    BY <1>1, <2>1
<1>3. SameBegun
  BY <1>1, <1>2 DEF SameBegun, Begun, Others
<1>4. \A i, x : GatedAt(i) => SameFor(i, x)
  BY <1>1, <1>2 DEF SameFor, Pushed, Flagged, Others
<1>5. ASSUME NEW q \in Ranks PROVE Combines(q)' = Combines(q) /\ (In(q, {"combine"}, "run")' <=> In(q, {"combine"}, "run"))
  <2>1. CASE q # r
    BY <1>1, <2>1 DEF Combines, In, Running, Others
  <2>2. CASE q = r
    <3>1. ~ In(q, {"combine"}, "run") /\ ~ In(q, {"combine"}, "run")'
      BY <1>1, <2>2 DEF In
    <3>2. Combines(q) = pc[q] \div 4 /\ Combines(q)' = pc'[q] \div 4
      <4>1. pc[q] \div 4 \in Nat /\ pc'[q] \div 4 \in Nat
        BY <1>1, <2>2, OfGated
      <4>. QED
        BY <3>1, <4>1 DEF Combines
    <3>3. program[pc[q]].kind # "combine"
      BY <1>1, <2>2 DEF Gated
    <3>4. (pc[q] + 1) \div 4 = pc[q] \div 4
      BY <1>1, <2>2, <3>3, CombinesAre
    <3>. QED
      BY <1>1, <2>2, <3>1, <3>2, <3>4
  <2>. QED
    BY <2>1, <2>2
<1>. QED
  BY <1>3, <1>4, <1>5 DEF SameTurns

LEMMA OfEnter ==
  ASSUME PlaceOK, PlaceOK', NEW r \in Ranks, Enters(r)
  PROVE  /\ GatedAt(pc[r]) /\ ~ Begun(r, pc[r]) /\ pc'[r] = pc[r]
         /\ \A q \in Ranks : \A i : GatedAt(i) => (Begun(q, i)' <=> Begun(q, i) \/ (q = r /\ i = pc[r]))
         /\ \A i, x : SameFor(i, x)
         /\ In(r, Dispatches, "start") => SameTurns
         /\ In(r, {"combine"}, "start") =>
              /\ ~ In(r, {"combine"}, "run") /\ In(r, {"combine"}, "run")'
              /\ \A q \in Ranks : Combines(q)' = IF q = r THEN Combines(q) + 1 ELSE Combines(q)
              /\ \A q \in Ranks \ {r} : In(q, {"combine"}, "run")' <=> In(q, {"combine"}, "run")
<1>1. /\ program' = program /\ Others(r) /\ Running(r) /\ program[pc[r]].kind \in Gated
      /\ stage[r] = "start" /\ stage'[r] = "run" /\ pc'[r] = pc[r]
      /\ \A q \in Ranks \ {r} : work'[q] = work[q]
      /\ work'[r].sent = {} /\ work'[r].flagged = {}
  BY DEF Enters, Frame, In, WorkIs
<1>2. pc[r] \in 1 .. Len(program) /\ pc[r] \in Nat
  BY <1>1, OfGated DEF Running
<1>3. /\ GatedAt(pc[r]) /\ ~ Begun(r, pc[r])
  BY <1>1, <1>2 DEF GatedAt, Begun
<1>4. \A q \in Ranks : \A i : GatedAt(i) => (Begun(q, i)' <=> Begun(q, i) \/ (q = r /\ i = pc[r]))
  BY <1>1 DEF Begun, Others
<1>5. \A i, x : SameFor(i, x)
  BY <1>1 DEF SameFor, Pushed, Flagged, Others
<1>6. \A q \in Ranks \ {r} : /\ Combines(q)' = Combines(q)
                             /\ (In(q, {"combine"}, "run")' <=> In(q, {"combine"}, "run"))
  BY <1>1 DEF Combines, In, Running, Others
<1>7. In(r, Dispatches, "start") => ~ In(r, {"combine"}, "run") /\ ~ In(r, {"combine"}, "run")'
  BY <1>1 DEF In, Dispatches
<1>8. In(r, {"combine"}, "start") => ~ In(r, {"combine"}, "run") /\ In(r, {"combine"}, "run")'
  BY <1>1 DEF In, Running
<1>9. In(r, Dispatches, "start") => Combines(r)' = Combines(r)
  BY <1>1, <1>7 DEF Combines
<1>10. In(r, {"combine"}, "start") => Combines(r)' = Combines(r) + 1
  <2>1. pc[r] \div 4 \in Nat
    BY <1>2
  <2>. QED
    BY <1>1, <1>8, <2>1 DEF Combines
<1>. QED
  BY <1>1, <1>3, <1>4, <1>5, <1>6, <1>7, <1>8, <1>9, <1>10 DEF SameTurns

LEMMA OfWork ==
  ASSUME PlaceOK, PlaceOK', NEW r \in Ranks, NEW s, NEW f, NEW t, NEW d, NEW a, Works(r, s, f, t, d, a)
  PROVE  /\ GatedAt(pc[r]) /\ SameBegun /\ SameTurns
         /\ work[r].sent \subseteq s => \A i, x : \A q \in Ranks :
              Pushed(q, i, x)' <=> Pushed(q, i, x) \/ (q = r /\ i = pc[r] /\ x \in s)
         /\ work[r].flagged \subseteq f => \A i, x : \A q \in Ranks :
              Flagged(q, i, x)' <=> Flagged(q, i, x) \/ (q = r /\ i = pc[r] /\ x \in f)
<1>1. /\ program' = program /\ Others(r) /\ Running(r) /\ program[pc[r]].kind \in Gated
      /\ stage[r] = "run" /\ stage'[r] = "run" /\ pc'[r] = pc[r]
      /\ \A q \in Ranks \ {r} : work'[q] = work[q]
      /\ work'[r].sent = s /\ work'[r].flagged = f
  BY DEF Works, Frame, In, WorkIs, Busy
<1>2. pc[r] \in 1 .. Len(program) /\ pc[r] \in Nat
  BY <1>1, OfGated DEF Running
<1>3. GatedAt(pc[r])
  BY <1>1, <1>2 DEF GatedAt
<1>4. SameBegun
  BY <1>1 DEF SameBegun, Begun, Others
<1>5. SameTurns
  BY <1>1 DEF SameTurns, Combines, In, Running, Others
<1>6. ASSUME work[r].sent \subseteq s, NEW i, NEW x, NEW q \in Ranks
      PROVE  Pushed(q, i, x)' <=> Pushed(q, i, x) \/ (q = r /\ i = pc[r] /\ x \in s)
  BY <1>1, <1>6 DEF Pushed, Others
<1>7. ASSUME work[r].flagged \subseteq f, NEW i, NEW x, NEW q \in Ranks
      PROVE  Flagged(q, i, x)' <=> Flagged(q, i, x) \/ (q = r /\ i = pc[r] /\ x \in f)
  BY <1>1, <1>7 DEF Flagged, Others
<1>. QED
  BY <1>3, <1>4, <1>5, <1>6, <1>7

LEMMA OfLeave ==
  ASSUME PlaceOK, PlaceOK', NEW r \in Ranks, Leaves(r)
  PROVE  /\ GatedAt(pc[r]) /\ SameBegun /\ pc'[r] = pc[r] + 1
         /\ \A q \in Ranks : Combines(q)' = Combines(q)
         /\ ~ In(r, {"combine"}, "run")'
         /\ \A q \in Ranks \ {r} : In(q, {"combine"}, "run")' <=> In(q, {"combine"}, "run")
         /\ \A i, x : \A q \in Ranks : GatedAt(i) =>
              (Pushed(q, i, x)' <=> Pushed(q, i, x) \/ (q = r /\ i = pc[r]))
         /\ \A i, x : \A q \in Ranks : GatedAt(i) =>
              (Flagged(q, i, x)' <=> Flagged(q, i, x) \/ (q = r /\ i = pc[r]))
<1>1. /\ program' = program /\ Others(r) /\ Running(r) /\ program[pc[r]].kind \in Gated
      /\ stage[r] = "run" /\ stage'[r] = "start" /\ pc'[r] = pc[r] + 1
      /\ \A q \in Ranks \ {r} : work'[q] = work[q]
  BY DEF Leaves, Frame, In, Busy
<1>2. pc[r] \in 1 .. Len(program) /\ pc[r] \in Nat
  BY <1>1, OfGated DEF Running
<1>3. GatedAt(pc[r])
  BY <1>1, <1>2 DEF GatedAt
<1>4. \A i : GatedAt(i) => (i < pc'[r] <=> i < pc[r] \/ i = pc[r])
  <2>1. \A i : GatedAt(i) => i \in Nat
    BY OfGated
  <2>. QED
    BY <1>1, <1>2, <2>1
<1>5. SameBegun
  BY <1>1, <1>4 DEF SameBegun, Begun, Others
<1>6. /\ \A q \in Ranks \ {r} : Combines(q)' = Combines(q) /\ (In(q, {"combine"}, "run")' <=> In(q, {"combine"}, "run"))
  BY <1>1 DEF Combines, In, Running, Others
<1>7. ~ In(r, {"combine"}, "run")' /\ Combines(r)' = (pc[r] + 1) \div 4
  <2>1. (pc[r] + 1) \div 4 \in Nat
    BY <1>2
  <2>. QED
    BY <1>1, <2>1 DEF In, Combines
<1>8. Combines(r)' = Combines(r)
  <2>1. CASE program[pc[r]].kind = "combine"
    <3>1. In(r, {"combine"}, "run")
      BY <1>1, <2>1 DEF In
    <3>. QED
      BY <1>1, <1>7, <2>1, <3>1, CombinesAre
  <2>2. CASE program[pc[r]].kind # "combine"
    <3>1. ~ In(r, {"combine"}, "run")
      BY <1>1, <2>2 DEF In
    <3>. QED
      BY <1>1, <1>7, <2>2, <3>1, CombinesAre
  <2>. QED
    BY <2>1, <2>2
<1>9. \A i, x : \A q \in Ranks : GatedAt(i) =>
        (Pushed(q, i, x)' <=> Pushed(q, i, x) \/ (q = r /\ i = pc[r]))
  BY <1>1, <1>4 DEF Pushed, Others
<1>10. \A i, x : \A q \in Ranks : GatedAt(i) =>
        (Flagged(q, i, x)' <=> Flagged(q, i, x) \/ (q = r /\ i = pc[r]))
  BY <1>1, <1>4 DEF Flagged, Others
<1>. QED
  BY <1>1, <1>3, <1>5, <1>6, <1>7, <1>8, <1>9, <1>10

-----------------------------------------------------------------------------
(***************************************************************************)
(* The epochs count the kernels a rank has begun.                          *)
(***************************************************************************)

DispEpochType == [parity : Banks, expected : [Banks -> Nat]]
CombEpochType == [parity : Banks, tiles : [Banks -> Nat], rows : [Banks -> Nat]]

LEMMA BanksAre ==
  /\ Banks = {0, 1}
  /\ \A b \in Banks : 1 - b \in Banks /\ Flipped(b) = 1 - b /\ \A c \in Banks : c = b \/ c = 1 - b
BY DEF Banks, Flipped

LEMMA NewDispEpoch ==
  ASSUME EpochsTyped, NEW r \in Ranks, BeginDispatch(r), NEW b, b = 1 - dispEpoch[r].parity
  PROVE  /\ b \in Banks /\ dispEpoch' \in [Ranks -> DispEpochType]
         /\ \A q \in Ranks \ {r} : dispEpoch'[q] = dispEpoch[q]
         /\ dispEpoch'[r].parity = b
         /\ dispEpoch'[r].expected[b] = dispEpoch[r].expected[b] + NumRanks
         /\ dispEpoch'[r].expected[1 - b] = dispEpoch[r].expected[1 - b]
<1>1. dispEpoch \in [Ranks -> DispEpochType] /\ dispEpoch[r].parity \in Banks
      /\ dispEpoch[r].expected \in [Banks -> Nat]
  BY DEF EpochsTyped, DispEpochType
<1>2. b \in Banks /\ 1 - b \in Banks /\ b # 1 - b /\ Flipped(dispEpoch[r].parity) = b
  BY <1>1 DEF Banks, Flipped
<1>3. dispEpoch' = [dispEpoch EXCEPT ![r].parity = b, ![r].expected[b] = @ + NumRanks]
  BY <1>2 DEF BeginDispatch
<1>. DEFINE e1 == [dispEpoch EXCEPT ![r].parity = b]
<1>4. /\ e1 \in [Ranks -> DispEpochType] /\ e1[r].parity = b
      /\ e1[r].expected = dispEpoch[r].expected
      /\ \A q \in Ranks \ {r} : e1[q] = dispEpoch[q]
  BY <1>1, <1>2 DEF DispEpochType
<1>5. dispEpoch' = [e1 EXCEPT ![r].expected[b] = @ + NumRanks]
  BY <1>3
<1>. HIDE DEF e1
<1>6. e1[r].expected[b] + NumRanks \in Nat
  BY <1>1, <1>2, <1>4, Numbers
<1>. QED
  BY <1>1, <1>2, <1>4, <1>5, <1>6 DEF DispEpochType

LEMMA NewCombEpoch ==
  ASSUME EpochsTyped, NEW r \in Ranks, BeginCombine(r), NEW b, b = 1 - combEpoch[r].parity
  PROVE  /\ b \in Banks /\ combEpoch' \in [Ranks -> CombEpochType]
         /\ \A q \in Ranks \ {r} : combEpoch'[q] = combEpoch[q]
         /\ combEpoch'[r].parity = b
         /\ combEpoch'[r].tiles[b] = combEpoch[r].tiles[b] + NBlocks
         /\ combEpoch'[r].tiles[1 - b] = combEpoch[r].tiles[1 - b]
         /\ combEpoch'[r].rows[b] = combEpoch[r].rows[b] + 1
         /\ combEpoch'[r].rows[1 - b] = combEpoch[r].rows[1 - b]
<1>1. combEpoch \in [Ranks -> CombEpochType] /\ combEpoch[r].parity \in Banks
      /\ combEpoch[r].tiles \in [Banks -> Nat] /\ combEpoch[r].rows \in [Banks -> Nat]
  BY DEF EpochsTyped, CombEpochType
<1>2. b \in Banks /\ 1 - b \in Banks /\ b # 1 - b /\ Flipped(Bank(r)) = b
  BY <1>1 DEF Banks, Flipped, Bank
<1>3. combEpoch' = [combEpoch EXCEPT ![r].parity = b, ![r].tiles[b] = @ + NBlocks,
                                    ![r].rows[b] = @ + 1]
  BY <1>2 DEF BeginCombine
<1>6. combEpoch[r].tiles[b] + NBlocks \in Nat /\ combEpoch[r].rows[b] + 1 \in Nat
  <2>1. combEpoch[r].tiles[b] \in Nat /\ combEpoch[r].rows[b] \in Nat /\ NBlocks \in Nat
    BY <1>1, <1>2, Numbers
  <2>. QED
    BY <2>1
<1>. DEFINE e1 == [combEpoch EXCEPT ![r].parity = b]
            e2 == [e1 EXCEPT ![r].tiles[b] = @ + NBlocks]
<1>4. /\ e1 \in [Ranks -> CombEpochType] /\ e1[r].parity = b
      /\ e1[r].tiles = combEpoch[r].tiles /\ e1[r].rows = combEpoch[r].rows
      /\ \A q \in Ranks \ {r} : e1[q] = combEpoch[q]
  BY <1>1, <1>2 DEF CombEpochType
<1>5. combEpoch' = [e2 EXCEPT ![r].rows[b] = @ + 1]
  BY <1>3
<1>7. /\ e2 \in [Ranks -> CombEpochType] /\ e2[r].parity = b
      /\ e2[r].tiles[b] = combEpoch[r].tiles[b] + NBlocks
      /\ e2[r].tiles[1 - b] = combEpoch[r].tiles[1 - b]
      /\ e2[r].rows = combEpoch[r].rows
      /\ \A q \in Ranks \ {r} : e2[q] = combEpoch[q]
  <2>. HIDE DEF e1
  <2>. QED
    BY <1>1, <1>2, <1>4, <1>6 DEF CombEpochType
<1>. HIDE DEF e1, e2
<1>. QED
  BY <1>1, <1>2, <1>5, <1>6, <1>7 DEF CombEpochType

\* A step of a block of a dispatch, or of a combine.
DispatchWork(r) ==
  \/ \E e \in Experts : PushTask(r, e) \/ SignalTask(r, e)
  \/ \E x \in Tiles \cup Experts : FinishPiece(r, x)
CombineWork(r) ==
  \/ \E i \in Tiles, n \in 1 .. NBlocks : StoreBlock(r, i, n) \/ CountBlock(r, i, n)
  \/ \E seg \in Experts \X Ranks : PushSegment(r, seg) \/ SignalSegment(r, seg)
  \/ AlignEmptyTiles(r) \/ \E t \in Tokens : ReduceToken(r, t)

LEMMA StepIs ==
  ASSUME PlaceOK, EpochsTyped, NEW r \in Ranks, RankStep(r)
  PROVE  \/ Walks(r) /\ Untouched
         \/ BeginDispatch(r) /\ Enters(r)
         \/ DispatchWork(r)
         \/ EndDispatch(r) /\ Leaves(r)
         \/ BeginCombine(r) /\ Enters(r)
         \/ CombineWork(r)
         \/ EndCombine(r) /\ Leaves(r)
<1>1. work \in [Ranks -> WorkType]
  BY DEF EpochsTyped, WorkType
<1>2. ASSUME PrologueStep(r) \/ WeightGrad2(r) PROVE Walks(r) /\ Untouched
  BY <1>1, <1>2, WalkShape DEF PrologueStep
<1>3. /\ BeginDispatch(r) => Enters(r)
      /\ EndDispatch(r) => Leaves(r)
      /\ BeginCombine(r) => Enters(r)
      /\ EndCombine(r) => Leaves(r)
  BY <1>1, DispatchShapes, CombineShapes
<1>4. DispatchStep(r) => BeginDispatch(r) \/ EndDispatch(r) \/ WeightGrad2(r) \/ DispatchWork(r)
  BY DEF DispatchStep, DispatchWork
<1>5. CombineStep(r) => BeginCombine(r) \/ EndCombine(r) \/ CombineWork(r)
  BY DEF CombineStep, CombineWork
<1>6. PrologueStep(r) \/ DispatchStep(r) \/ CombineStep(r)
  BY DEF RankStep
<1>. QED
  BY <1>2, <1>3, <1>4, <1>5, <1>6

\* Of the steps of blocks one needs no more, mostly, than that they are such.
LEMMA WorkIsWork ==
  ASSUME PlaceOK, EpochsTyped, NEW r \in Ranks, DispatchWork(r) \/ CombineWork(r)
  PROVE  /\ \E s, f, t, d, a : /\ Works(r, s, f, t, d, a)
                                /\ work[r].sent \subseteq s /\ work[r].flagged \subseteq f
                                /\ work[r].tiles \subseteq t /\ work[r].reduced \subseteq d
         /\ UNCHANGED <<dispEpoch, combEpoch>>
         /\ DispatchWork(r) => In(r, Dispatches, "run") /\ UNCHANGED <<combFlag, reduceFlag, l2, comb>>
         /\ CombineWork(r) => In(r, {"combine"}, "run") /\ UNCHANGED <<dispFlag, pool>>
<1>1. work \in [Ranks -> WorkType]
  BY DEF EpochsTyped, WorkType
<1>. DEFINE Some == \E s, f, t, d, a :
                      /\ Works(r, s, f, t, d, a)
                      /\ work[r].sent \subseteq s /\ work[r].flagged \subseteq f
                      /\ work[r].tiles \subseteq t /\ work[r].reduced \subseteq d
<1>2. ASSUME NEW s, NEW f, NEW t, NEW d, NEW a, Works(r, s, f, t, d, a),
             work[r].sent \subseteq s, work[r].flagged \subseteq f,
             work[r].tiles \subseteq t, work[r].reduced \subseteq d
      PROVE  Some
  BY <1>2
<1>. HIDE DEF Some
<1>. USE DEF dataVars, localVars
<1>3. ASSUME DispatchWork(r)
      PROVE  Some /\ UNCHANGED <<dispEpoch, combEpoch>> /\ In(r, Dispatches, "run")
             /\ UNCHANGED <<combFlag, reduceFlag, l2, comb>>
  <2>1. ASSUME NEW e \in Experts, PushTask(r, e)
        PROVE  Some /\ UNCHANGED <<dispEpoch, combEpoch>> /\ In(r, Dispatches, "run")
               /\ UNCHANGED <<combFlag, reduceFlag, l2, comb>>
    <3>2. Works(r, work[r].sent \cup {e}, work[r].flagged, work[r].tiles, work[r].reduced, work[r].aligned)
      BY <1>1, <2>1, DispatchShapes
    <3>1. Some
      BY <1>2, <3>2
    <3>. QED
      BY <2>1, <3>1 DEF PushTask
  <2>2. ASSUME NEW e \in Experts, SignalTask(r, e)
        PROVE  Some /\ UNCHANGED <<dispEpoch, combEpoch>> /\ In(r, Dispatches, "run")
               /\ UNCHANGED <<combFlag, reduceFlag, l2, comb>>
    <3>2. Works(r, work[r].sent, work[r].flagged \cup {e}, work[r].tiles, work[r].reduced, work[r].aligned)
      BY <1>1, <2>2, DispatchShapes
    <3>1. Some
      BY <1>2, <3>2
    <3>. QED
      BY <2>2, <3>1 DEF SignalTask
  <2>3. ASSUME NEW x \in Tiles \cup Experts, FinishPiece(r, x)
        PROVE  Some /\ UNCHANGED <<dispEpoch, combEpoch>> /\ In(r, Dispatches, "run")
               /\ UNCHANGED <<combFlag, reduceFlag, l2, comb>>
    <3>2. Works(r, work[r].sent, work[r].flagged, work[r].tiles \cup {x}, work[r].reduced, work[r].aligned)
      BY <1>1, <2>3, DispatchShapes
    <3>1. Some
      BY <1>2, <3>2
    <3>. QED
      BY <2>3, <3>1 DEF FinishPiece
  <2>. QED
    BY <1>3, <2>1, <2>2, <2>3 DEF DispatchWork
<1>4. ASSUME CombineWork(r)
      PROVE  Some /\ UNCHANGED <<dispEpoch, combEpoch>> /\ In(r, {"combine"}, "run")
             /\ UNCHANGED <<dispFlag, pool>>
  <2>6. ASSUME NEW i \in Tiles, NEW n \in 1 .. NBlocks, StoreBlock(r, i, n)
        PROVE  Some /\ UNCHANGED <<dispEpoch, combEpoch>> /\ In(r, {"combine"}, "run")
               /\ UNCHANGED <<dispFlag, pool>>
    <3>2. Works(r, work[r].sent, work[r].flagged, work[r].tiles, work[r].reduced, work[r].aligned)
      BY <1>1, <2>6, CombineShapes
    <3>1. Some
      BY <1>2, <3>2
    <3>. QED
      BY <2>6, <3>1 DEF StoreBlock
  <2>1. ASSUME NEW i \in Tiles, NEW n \in 1 .. NBlocks, CountBlock(r, i, n)
        PROVE  Some /\ UNCHANGED <<dispEpoch, combEpoch>> /\ In(r, {"combine"}, "run")
               /\ UNCHANGED <<dispFlag, pool>>
    <3>2. Works(r, work[r].sent, work[r].flagged, work[r].tiles \cup {<<i, n>>}, work[r].reduced, work[r].aligned)
      BY <1>1, <2>1, CombineShapes
    <3>1. Some
      BY <1>2, <3>2
    <3>. QED
      BY <2>1, <3>1 DEF CountBlock
  <2>2. ASSUME NEW seg \in Experts \X Ranks, PushSegment(r, seg)
        PROVE  Some /\ UNCHANGED <<dispEpoch, combEpoch>> /\ In(r, {"combine"}, "run")
               /\ UNCHANGED <<dispFlag, pool>>
    <3>2. Works(r, work[r].sent \cup {seg}, work[r].flagged, work[r].tiles, work[r].reduced, work[r].aligned)
      BY <1>1, <2>2, CombineShapes
    <3>1. Some
      BY <1>2, <3>2
    <3>. QED
      BY <2>2, <3>1 DEF PushSegment
  <2>3. ASSUME NEW seg \in Experts \X Ranks, SignalSegment(r, seg)
        PROVE  Some /\ UNCHANGED <<dispEpoch, combEpoch>> /\ In(r, {"combine"}, "run")
               /\ UNCHANGED <<dispFlag, pool>>
    <3>2. Works(r, work[r].sent, work[r].flagged \cup {seg}, work[r].tiles, work[r].reduced, work[r].aligned)
      BY <1>1, <2>3, CombineShapes
    <3>1. Some
      BY <1>2, <3>2
    <3>. QED
      BY <2>3, <3>1 DEF SignalSegment
  <2>4. ASSUME AlignEmptyTiles(r)
        PROVE  Some /\ UNCHANGED <<dispEpoch, combEpoch>> /\ In(r, {"combine"}, "run")
               /\ UNCHANGED <<dispFlag, pool>>
    <3>2. Works(r, work[r].sent, work[r].flagged, work[r].tiles, work[r].reduced, TRUE)
      BY <1>1, <2>4, CombineShapes
    <3>1. Some
      BY <1>2, <3>2
    <3>. QED
      BY <2>4, <3>1 DEF AlignEmptyTiles
  <2>5. ASSUME NEW t \in Tokens, ReduceToken(r, t)
        PROVE  Some /\ UNCHANGED <<dispEpoch, combEpoch>> /\ In(r, {"combine"}, "run")
               /\ UNCHANGED <<dispFlag, pool>>
    <3>2. Works(r, work[r].sent, work[r].flagged, work[r].tiles, work[r].reduced \cup {t}, work[r].aligned)
      BY <1>1, <2>5, CombineShapes
    <3>1. Some
      BY <1>2, <3>2
    <3>. QED
      BY <2>5, <3>1 DEF ReduceToken
  <2>. QED
    BY <1>4, <2>1, <2>2, <2>3, <2>4, <2>5, <2>6 DEF CombineWork
<1>. QED
  BY <1>3, <1>4 DEF Some

LEMMA Turns ==
  ASSUME NEW n \in Nat
  PROVE  /\ n % 2 \in Banks /\ (n + 1) % 2 = 1 - (n % 2)
         /\ (n + 1 + (1 - (n % 2))) \div 2 = (n + (1 - (n % 2))) \div 2 + 1
         /\ (n + 1 + (n % 2)) \div 2 = (n + (n % 2)) \div 2
         /\ \A b \in Banks : (n + b) \div 2 \in Nat
<1>1. PICK k \in Nat : n = 2 * k \/ n = 2 * k + 1
  <2>1. n = 2 * (n \div 2) + (n % 2) /\ n \div 2 \in Nat /\ n % 2 \in {0, 1}
    OBVIOUS
  <2>. QED
    BY <2>1
<1>2. CASE n = 2 * k
  <2>1. n % 2 = 0 /\ (n + 1) % 2 = 1 /\ (n + 2) \div 2 = k + 1 /\ (n + 1) \div 2 = k /\ n \div 2 = k
    BY <1>2
  <2>. QED
    BY <1>2, <2>1 DEF Banks
<1>3. CASE n = 2 * k + 1
  <2>1. n % 2 = 1 /\ (n + 1) % 2 = 0 /\ (n + 2) \div 2 = k + 1 /\ (n + 1) \div 2 = k + 1 /\ n \div 2 = k
    BY <1>3
  <2>. QED
    BY <1>3, <2>1 DEF Banks
<1>. QED
  BY <1>1, <1>2, <1>3

LEMMA EpochSteps ==
  ASSUME PlaceOK, PlaceOK', EpochsTyped, NEW r \in Ranks, RankStep(r)
  PROVE  /\ UNCHANGED <<program, routing>> /\ work' \in [Ranks -> WorkType]
         /\ \/ BeginDispatch(r) /\ Enters(r)
            \/ BeginCombine(r) /\ Enters(r)
            \/ /\ SameBegun /\ UNCHANGED <<dispEpoch, combEpoch>>
               /\ \A q \in Ranks : Combines(q)' = Combines(q)
<1>1. CASE Walks(r) /\ Untouched
  BY <1>1, OfWalk DEF Walks, Frame, Untouched, SameTurns
<1>2. CASE Enters(r) /\ (BeginDispatch(r) \/ BeginCombine(r))
  BY <1>2 DEF Enters, Frame
<1>3. CASE DispatchWork(r) \/ CombineWork(r)
  <2>1. PICK s, f, t, d, a : Works(r, s, f, t, d, a)
    BY <1>3, WorkIsWork
  <2>2. SameBegun /\ SameTurns
    BY <2>1, OfWork
  <2>3. UNCHANGED <<program, routing>> /\ work' \in [Ranks -> WorkType]
    BY <2>1 DEF Works, Frame
  <2>. QED
    BY <1>3, <2>2, <2>3, WorkIsWork DEF SameTurns
<1>4. CASE Leaves(r) /\ (EndDispatch(r) \/ EndCombine(r))
  <2>1. UNCHANGED <<dispEpoch, combEpoch>>
    BY <1>4 DEF EndDispatch, EndCombine, localVars
  <2>2. SameBegun /\ \A q \in Ranks : Combines(q)' = Combines(q)
    BY <1>4, OfLeave
  <2>. QED
    BY <1>4, <2>1, <2>2 DEF Leaves, Frame
<1>. QED
  BY <1>1, <1>2, <1>3, <1>4, StepIs

\* The dispatches that a rank has begun.
BegunOf(q, S) == {j \in S : Begun(q, j)}
AllDispatches == {j \in 1 .. Len(program) : DispatchAt(j)}

LEMMA DispatchesAre ==
  ASSUME PlaceOK
  PROVE  /\ IsFiniteSet(AllDispatches)
         /\ \A j \in AllDispatches : DispatchAt(j) /\ GatedAt(j) /\ j \in Nat
         /\ \A b : DispatchBank(b) = {j \in AllDispatches : DispatchNo(j) % 2 = b}
         /\ \A S \in SUBSET AllDispatches, q \in Ranks :
              /\ IsFiniteSet(BegunOf(q, S)) /\ Cardinality(BegunOf(q, S)) \in Nat
              /\ IsFiniteSet(S)
<1>1. IsFiniteSet(1 .. Len(program))
  <2>1. Len(program) \in Nat
    BY OfGated
  <2>. QED
    BY <2>1, FS_Interval
<1>2. IsFiniteSet(AllDispatches)
  BY <1>1, FS_Subset DEF AllDispatches
<1>3. ASSUME NEW S \in SUBSET AllDispatches, NEW q \in Ranks
      PROVE  /\ IsFiniteSet(BegunOf(q, S)) /\ Cardinality(BegunOf(q, S)) \in Nat
             /\ IsFiniteSet(S)
  <2>1. BegunOf(q, S) \in SUBSET AllDispatches
    BY DEF BegunOf
  <2>. QED
    BY <1>2, <2>1, FS_Subset, FS_CardinalityType
<1>. QED
  BY <1>2, <1>3, OfGated DEF AllDispatches, DispatchBank

LEMMA SameEpochs ==
  ASSUME PlaceOK, EpochsTyped, EpochsOK, UNCHANGED program, NEW q \in Ranks,
         dispEpoch'[q] = dispEpoch[q], \A i : GatedAt(i) => (Begun(q, i)' <=> Begun(q, i))
  PROVE  /\ dispEpoch'[q].parity = Cardinality(BegunOf(q, AllDispatches))' % 2
         /\ \A b \in Banks : dispEpoch'[q].expected[b] = NumRanks * Cardinality(BegunOf(q, DispatchBank(b)))'
<1>1. AllDispatches' = AllDispatches /\ \A b \in Banks : DispatchBank(b)' = DispatchBank(b)
  BY DEF AllDispatches, DispatchAt, DispatchBank, DispatchNo
<1>2. BegunOf(q, AllDispatches)' = BegunOf(q, AllDispatches)
  BY <1>1, DispatchesAre DEF BegunOf
<1>3. \A b \in Banks : BegunOf(q, DispatchBank(b))' = BegunOf(q, DispatchBank(b))
  BY <1>1, DispatchesAre DEF BegunOf
<1>4. BegunOf(q, AllDispatches) = {j \in 1 .. Len(program) : DispatchAt(j) /\ Begun(q, j)}
  BY DEF BegunOf, AllDispatches
<1>. QED
  BY <1>2, <1>3, <1>4 DEF EpochsOK, BegunOf

LEMMA NextEpoch ==
  ASSUME PlaceOK, PlaceOK', EpochsTyped, EpochsOK, NEW r \in Ranks, BeginDispatch(r), Enters(r)
  PROVE  /\ dispEpoch'[r].parity = Cardinality(BegunOf(r, AllDispatches))' % 2
         /\ \A b \in Banks : dispEpoch'[r].expected[b] = NumRanks * Cardinality(BegunOf(r, DispatchBank(b)))'
         /\ DispatchAt(pc[r]) /\ pc[r] \in DispatchBank(dispEpoch'[r].parity)
<1>0. PICK i, b : i = pc[r] /\ b = 1 - dispEpoch[r].parity
  OBVIOUS
<1>. DEFINE A == BegunOf(r, AllDispatches)
            n == Cardinality(A)
<1>1. /\ GatedAt(i) /\ ~ Begun(r, i) /\ i \in Nat
      /\ \A j : GatedAt(j) => (Begun(r, j)' <=> Begun(r, j) \/ j = i)
  BY <1>0, OfEnter, OfGated
<1>2. DispatchAt(i) /\ stage[r] = "start" /\ program' = program
  BY <1>0, <1>1 DEF BeginDispatch, In, GatedAt, DispatchAt
<1>3. AllDispatches' = AllDispatches /\ \A c \in Banks : DispatchBank(c)' = DispatchBank(c)
  BY <1>2 DEF AllDispatches, DispatchAt, DispatchBank, DispatchNo
<1>4. /\ i \in AllDispatches /\ i \notin A /\ IsFiniteSet(A) /\ n \in Nat
      /\ A = {j \in 1 .. Len(program) : DispatchAt(j) /\ Begun(r, j)}
  BY <1>1, <1>2, DispatchesAre DEF AllDispatches, BegunOf, DispatchAt
<1>5. A' = A \cup {i}
  BY <1>1, <1>3, <1>4, DispatchesAre DEF BegunOf
<1>6. Cardinality(A') = n + 1 /\ Cardinality(A \cup {i}) = n + 1
  BY <1>4, <1>5, FS_AddElement
<1>7. DispatchNo(i) = n + 1
  <2>1. \A j \in AllDispatches : Begun(r, j) <=> j < i
    BY <1>0, <1>2 DEF Begun
  <2>2. {j \in 1 .. Len(program) : DispatchAt(j) /\ j <= i} = A \cup {i}
    <3>1. \A j \in AllDispatches : j <= i <=> j < i \/ j = i
      BY <1>1, DispatchesAre
    <3>. QED
      BY <1>4, <2>1, <3>1 DEF AllDispatches, BegunOf
  <2>. QED
    BY <1>6, <2>2 DEF DispatchNo
<1>8. /\ dispEpoch[r].parity = n % 2 /\ b = (n + 1) % 2 /\ n % 2 \in Banks
  BY <1>0, <1>4, Turns DEF EpochsOK
<1>9. /\ b \in Banks /\ 1 - b \in Banks /\ dispEpoch'[r].parity = b
      /\ dispEpoch'[r].expected[b] = dispEpoch[r].expected[b] + NumRanks
      /\ dispEpoch'[r].expected[1 - b] = dispEpoch[r].expected[1 - b]
  BY <1>0, NewDispEpoch, BanksAre
<1>10. i \in DispatchBank(b) /\ i \notin DispatchBank(1 - b)
  <2>1. b # 1 - b
    BY <1>9, BanksAre
  <2>. QED
    BY <1>4, <1>7, <1>8, <2>1, DispatchesAre
<1>. HIDE DEF n, A
<1>11. /\ BegunOf(r, DispatchBank(b))' = BegunOf(r, DispatchBank(b)) \cup {i}
       /\ BegunOf(r, DispatchBank(1 - b))' = BegunOf(r, DispatchBank(1 - b))
       /\ i \notin BegunOf(r, DispatchBank(b))
  <2>1. \A c \in Banks : \A j \in DispatchBank(c) : GatedAt(j)
    BY DispatchesAre
  <2>. QED
    BY <1>1, <1>3, <1>9, <1>10, <2>1 DEF BegunOf
<1>12. /\ IsFiniteSet(BegunOf(r, DispatchBank(b))) /\ Cardinality(BegunOf(r, DispatchBank(b))) \in Nat
  <2>1. DispatchBank(b) \in SUBSET AllDispatches
    BY DispatchesAre
  <2>. QED
    BY <2>1, DispatchesAre
<1>13. Cardinality(BegunOf(r, DispatchBank(b)))' = Cardinality(BegunOf(r, DispatchBank(b))) + 1
  BY <1>11, <1>12, FS_AddElement
<1>14. /\ dispEpoch[r].expected[b] = NumRanks * Cardinality(BegunOf(r, DispatchBank(b)))
       /\ dispEpoch[r].expected[1 - b] = NumRanks * Cardinality(BegunOf(r, DispatchBank(1 - b)))
  BY <1>9 DEF EpochsOK, BegunOf
<1>15. dispEpoch'[r].expected[b] = NumRanks * Cardinality(BegunOf(r, DispatchBank(b)))'
  BY <1>9, <1>12, <1>13, <1>14, Numbers
<1>16. dispEpoch'[r].expected[1 - b] = NumRanks * Cardinality(BegunOf(r, DispatchBank(1 - b)))'
  BY <1>9, <1>11, <1>14
<1>17. dispEpoch'[r].parity = Cardinality(BegunOf(r, AllDispatches))' % 2
  BY <1>5, <1>6, <1>8, <1>9 DEF A
<1>. QED
  BY <1>0, <1>2, <1>9, <1>10, <1>15, <1>16, <1>17, BanksAre

LEMMA EpochsKept ==
  ASSUME PlaceOK, PlaceOK', EpochsTyped, EpochsOK, NEW r \in Ranks, RankStep(r)
  PROVE  EpochsTyped' /\ EpochsOK'
<1>. DEFINE DispFine(q) ==
              /\ dispEpoch'[q].parity = Cardinality(BegunOf(q, AllDispatches))' % 2
              /\ \A b \in Banks : dispEpoch'[q].expected[b] = NumRanks * Cardinality(BegunOf(q, DispatchBank(b)))'
            CombFine(q) ==
              /\ combEpoch'[q].parity = Combines(q)' % 2
              /\ \A b \in Banks : /\ combEpoch'[q].rows[b] = (Combines(q)' + b) \div 2
                                  /\ combEpoch'[q].tiles[b] = NBlocks * combEpoch'[q].rows[b]
<1>1. UNCHANGED <<program, routing>> /\ work' \in [Ranks -> WorkType]
  BY EpochSteps
<1>2. ASSUME \A q \in Ranks : DispFine(q) /\ CombFine(q)
      PROVE  EpochsOK'
  <2>1. \A q \in Ranks : BegunOf(q, AllDispatches)' = {j \in 1 .. Len(program) : DispatchAt(j) /\ Begun(q, j)}'
    BY DEF BegunOf, AllDispatches
  <2>. QED
    BY <1>2, <2>1 DEF EpochsOK, BegunOf
<1>3. ASSUME NEW q \in Ranks, combEpoch'[q] = combEpoch[q], Combines(q)' = Combines(q)
      PROVE  CombFine(q)
  BY <1>3 DEF EpochsOK
<1>4. dispEpoch \in [Ranks -> DispEpochType] /\ combEpoch \in [Ranks -> CombEpochType]
  BY DEF EpochsTyped, DispEpochType, CombEpochType
<1>5. ASSUME dispEpoch' \in [Ranks -> DispEpochType], combEpoch' \in [Ranks -> CombEpochType]
      PROVE  EpochsTyped'
  BY <1>1, <1>5 DEF EpochsTyped, DispEpochType, CombEpochType, WorkType
<1>6. CASE /\ SameBegun /\ UNCHANGED <<dispEpoch, combEpoch>>
           /\ \A q \in Ranks : Combines(q)' = Combines(q)
  <2>1. \A q \in Ranks : DispFine(q)
    BY <1>1, <1>6, SameEpochs DEF SameBegun
  <2>2. \A q \in Ranks : CombFine(q)
    BY <1>3, <1>6
  <2>. HIDE DEF DispFine, CombFine
  <2>. QED
    BY <1>2, <1>4, <1>5, <1>6, <2>1, <2>2
<1>7. CASE BeginDispatch(r) /\ Enters(r)
  <2>1. /\ combEpoch' = combEpoch /\ In(r, Dispatches, "start")
    BY <1>7 DEF BeginDispatch
  <2>2. \A q \in Ranks : Combines(q)' = Combines(q)
    BY <1>7, <2>1, OfEnter DEF SameTurns
  <2>3. DispFine(r)
    BY <1>7, NextEpoch
  <2>4. ASSUME NEW q \in Ranks \ {r} PROVE DispFine(q)
    <3>1. dispEpoch'[q] = dispEpoch[q]
      BY <1>7, NewDispEpoch
    <3>2. \A i : GatedAt(i) => (Begun(q, i)' <=> Begun(q, i))
      BY <1>7, OfEnter
    <3>. QED
      BY <1>1, <3>1, <3>2, SameEpochs
  <2>5. \A q \in Ranks : CombFine(q)
    BY <1>3, <2>1, <2>2
  <2>6. dispEpoch' \in [Ranks -> DispEpochType]
    BY <1>7, NewDispEpoch
  <2>. HIDE DEF DispFine, CombFine
  <2>. QED
    BY <1>2, <1>4, <1>5, <2>1, <2>3, <2>4, <2>5, <2>6
<1>8. CASE BeginCombine(r) /\ Enters(r)
  <2>1. /\ dispEpoch' = dispEpoch /\ In(r, {"combine"}, "start")
    BY <1>8 DEF BeginCombine
  <2>2. \A q \in Ranks : Combines(q)' = IF q = r THEN Combines(q) + 1 ELSE Combines(q)
    BY <1>8, <2>1, OfEnter
  <2>3. \A q \in Ranks : DispFine(q)
    <3>1. \A q \in Ranks : \A i : GatedAt(i) /\ DispatchAt(i) => (Begun(q, i)' <=> Begun(q, i))
      <4>1. ~ DispatchAt(pc[r])
        BY <2>1 DEF In, DispatchAt, Dispatches
      <4>. QED
        BY <1>8, <4>1, OfEnter
    <3>2. \A q \in Ranks : BegunOf(q, AllDispatches)' = BegunOf(q, AllDispatches)
      BY <1>1, <3>1, DispatchesAre DEF BegunOf, AllDispatches, DispatchAt
    <3>3. \A q \in Ranks, b \in Banks : BegunOf(q, DispatchBank(b))' = BegunOf(q, DispatchBank(b))
      <4>1. \A b \in Banks : DispatchBank(b)' = DispatchBank(b)
        BY <1>1 DEF DispatchAt, DispatchBank, DispatchNo
      <4>2. \A b \in Banks : \A j \in DispatchBank(b) : GatedAt(j) /\ DispatchAt(j)
        BY DispatchesAre
      <4>. QED
        BY <3>1, <4>1, <4>2 DEF BegunOf
    <3>4. \A q \in Ranks : BegunOf(q, AllDispatches) = {j \in 1 .. Len(program) : DispatchAt(j) /\ Begun(q, j)}
      BY DEF BegunOf, AllDispatches
    <3>. QED
      BY <2>1, <3>2, <3>3, <3>4, SMTT(30), ZenonT(30) DEF EpochsOK, BegunOf
  <2>4. \A q \in Ranks \ {r} : combEpoch'[q] = combEpoch[q]
    BY <1>8, NewCombEpoch
  <2>5. \A q \in Ranks \ {r} : CombFine(q)
    BY <1>3, <2>2, <2>4
  <2>6. CombFine(r)
    <3>. DEFINE n == Combines(r)
                b == 1 - combEpoch[r].parity
    <3>1. n \in Nat /\ Combines(r)' = n + 1
      BY <2>2, CombinesAre
    <3>2. /\ combEpoch[r].parity = n % 2 /\ combEpoch[r].parity \in Banks
          /\ \A c \in Banks : /\ combEpoch[r].rows[c] = (n + c) \div 2
                              /\ combEpoch[r].tiles[c] = NBlocks * combEpoch[r].rows[c]
      BY <3>1, Turns DEF EpochsOK
    <3>3. /\ b \in Banks /\ 1 - b \in Banks /\ combEpoch'[r].parity = b
          /\ combEpoch'[r].tiles[b] = combEpoch[r].tiles[b] + NBlocks
          /\ combEpoch'[r].tiles[1 - b] = combEpoch[r].tiles[1 - b]
          /\ combEpoch'[r].rows[b] = combEpoch[r].rows[b] + 1
          /\ combEpoch'[r].rows[1 - b] = combEpoch[r].rows[1 - b]
      BY <1>8, NewCombEpoch, BanksAre
    <3>4. 1 - b = n % 2 /\ b = 1 - (n % 2)
      BY <3>1, <3>2, BanksAre
    <3>. HIDE DEF n, b
    <3>5. /\ b = (n + 1) % 2 /\ (n + 1 + b) \div 2 = (n + b) \div 2 + 1
          /\ (n + 1 + (1 - b)) \div 2 = (n + (1 - b)) \div 2
          /\ (n + b) \div 2 \in Nat
      BY <3>1, <3>3, <3>4, Turns
    <3>6. NBlocks * ((n + b) \div 2 + 1) = NBlocks * ((n + b) \div 2) + NBlocks
      BY <3>5, Numbers
    <3>7. /\ combEpoch'[r].rows[b] = (Combines(r)' + b) \div 2
          /\ combEpoch'[r].tiles[b] = NBlocks * combEpoch'[r].rows[b]
      BY <3>1, <3>2, <3>3, <3>5, <3>6
    <3>8. /\ combEpoch'[r].rows[1 - b] = (Combines(r)' + (1 - b)) \div 2
          /\ combEpoch'[r].tiles[1 - b] = NBlocks * combEpoch'[r].rows[1 - b]
      BY <3>1, <3>2, <3>3, <3>5
    <3>9. combEpoch'[r].parity = Combines(r)' % 2
      BY <3>1, <3>3, <3>5
    <3>. QED
      BY <3>3, <3>7, <3>8, <3>9, BanksAre
  <2>7. combEpoch' \in [Ranks -> CombEpochType]
    BY <1>8, NewCombEpoch
  <2>. HIDE DEF DispFine, CombFine
  <2>. QED
    BY <1>2, <1>4, <1>5, <2>1, <2>3, <2>5, <2>6, <2>7
<1>. QED
  BY <1>6, <1>7, <1>8, EpochSteps

-----------------------------------------------------------------------------
(***************************************************************************)
(* What the blocks of a kernel have done is part of what there is to do.   *)
(***************************************************************************)

\* What WorkHere says, as a fact of a state, and so of the next one too.
HereOK ==
  \A r \in Ranks : Running(r) /\ program[pc[r]].kind # "prologue" =>
    LET R == RoutingAt(pc[r]) IN
    /\ HasTables(H(r), R, r)
    /\ Choices(r) = R[r]
    /\ MyTiles(r) = 0 .. RealTiles(Matrix(R), r) - 1
    /\ Segments(r) = {seg \in Local(r) \X Ranks : Matrix(R)[seg[2]][seg[1]] > 0}
    /\ \A seg \in Local(r) \X Ranks : RowsOfSegment(r, seg) = Segment(R, seg[2], seg[1])

LEMMA HereNow == PrologueInv => HereOK
BY WorkHere DEF HereOK

LEMMA SameHere ==
  ASSUME PrologueInv, PrologueInv', UNCHANGED <<program, routing>>, NEW q \in Ranks,
         Running(q), program[pc[q]].kind # "prologue", pc'[q] = pc[q]
  PROVE  /\ MyTiles(q)' = MyTiles(q) /\ Segments(q)' = Segments(q) /\ Choices(q)' = Choices(q)
         /\ \A seg \in Local(q) \X Ranks : RowsOfSegment(q, seg)' = RowsOfSegment(q, seg)
         /\ Pieces(q)' = Pieces(q)
         /\ \A x \in Pieces(q) : ExpertOf(q, x)' = ExpertOf(q, x)
<1>1. HereOK
  BY HereNow
<1>2. HereOK'
  BY HereNow, PTL
<1>3. Running(q)' /\ program'[pc'[q]].kind # "prologue" /\ RoutingAt(pc[q])' = RoutingAt(pc[q])
  BY DEF Running, RoutingAt
<1>4. PICK R : R = RoutingAt(pc[q])
  OBVIOUS
<1>5. /\ HasTables(H(q), R, q) /\ Choices(q) = R[q]
      /\ MyTiles(q) = 0 .. RealTiles(Matrix(R), q) - 1
      /\ Segments(q) = {seg \in Local(q) \X Ranks : Matrix(R)[seg[2]][seg[1]] > 0}
      /\ \A seg \in Local(q) \X Ranks : RowsOfSegment(q, seg) = Segment(R, seg[2], seg[1])
  BY <1>1, <1>4 DEF HereOK
<1>6. /\ HasTables(H(q)', R, q) /\ Choices(q)' = R[q]
      /\ MyTiles(q)' = 0 .. RealTiles(Matrix(R), q) - 1
      /\ Segments(q)' = {seg \in Local(q) \X Ranks : Matrix(R)[seg[2]][seg[1]] > 0}
      /\ \A seg \in Local(q) \X Ranks : RowsOfSegment(q, seg)' = Segment(R, seg[2], seg[1])
  <2>1. RoutingAt(pc[q])' = R
    BY <1>3, <1>4
  <2>. QED
    BY <1>2, <1>3, <2>1 DEF HereOK
<1>7. H(q).expert = TablesOf(Matrix(R), q).expert /\ H(q)'.expert = TablesOf(Matrix(R), q).expert
  BY <1>5, <1>6 DEF HasTables, Tables
<1>8. Pieces(q)' = Pieces(q) /\ \A x \in Pieces(q) : ExpertOf(q, x)' = ExpertOf(q, x)
  BY <1>7 DEF Pieces, ExpertOf, ByTile
<1>. QED
  BY <1>5, <1>6, <1>8

LEMMA WorkKept ==
  ASSUME PrologueInv, PrologueInv', EpochsTyped, WorkOK, NEW r \in Ranks, RankStep(r)
  PROVE  WorkOK'
<1>. DEFINE Fine(q) ==
              /\ In(q, Dispatches, "run") =>
                   work[q].flagged \subseteq work[q].sent /\ work[q].sent \subseteq Experts
              /\ In(q, {"combine"}, "run") =>
                   /\ work[q].flagged \subseteq work[q].sent /\ work[q].sent \subseteq Segments(q)
                   /\ work[q].tiles \subseteq MyTiles(q) \X (1 .. NBlocks)
<1>1. PlaceOK /\ PlaceOK' /\ work \in [Ranks -> WorkType]
  BY DEF PrologueInv, EpochsTyped, WorkType
<1>2. UNCHANGED <<program, routing>>
  BY <1>1, EpochSteps
<1>3. ASSUME NEW q \in Ranks \ {r}, Frame(r) PROVE Fine(q)'
  <2>1. pc'[q] = pc[q] /\ stage'[q] = stage[q] /\ work'[q] = work[q]
    BY <1>3 DEF Frame, Others
  <2>2. CASE In(q, {"combine"}, "run")
    <3>1. MyTiles(q)' = MyTiles(q) /\ Segments(q)' = Segments(q)
      BY <1>2, <2>1, <2>2, SameHere DEF In
    <3>. QED
      BY <1>2, <2>1, <2>2, <3>1 DEF WorkOK, In, Running
  <2>3. CASE ~ In(q, {"combine"}, "run")
    BY <1>2, <2>1, <2>3 DEF WorkOK, In, Running
  <2>. QED
    BY <2>2, <2>3
<1>4. ASSUME Frame(r), Fine(r)' PROVE WorkOK'
  BY <1>3, <1>4 DEF WorkOK
<1>5. CASE stage'[r] # "run" /\ Frame(r)
  BY <1>4, <1>5 DEF In
<1>6. CASE Enters(r)
  BY <1>4, <1>6 DEF Enters, WorkIs
<1>7. ASSUME NEW s, NEW f, NEW t, NEW d, NEW a, Works(r, s, f, t, d, a),
             In(r, Dispatches, "run") => f \subseteq s /\ s \subseteq Experts,
             In(r, {"combine"}, "run") => /\ f \subseteq s /\ s \subseteq Segments(r)
                                          /\ t \subseteq MyTiles(r) \X (1 .. NBlocks)
      PROVE  WorkOK'
  <2>1. /\ Frame(r) /\ pc'[r] = pc[r] /\ stage'[r] = stage[r]
        /\ work'[r].sent = s /\ work'[r].flagged = f /\ work'[r].tiles = t
        /\ Running(r) /\ program[pc[r]].kind # "prologue"
    BY <1>7 DEF Works, Busy, In, WorkIs, Gated, Dispatches
  <2>2. MyTiles(r)' = MyTiles(r) /\ Segments(r)' = Segments(r)
    BY <1>2, <2>1, SameHere
  <2>3. Fine(r)'
    BY <1>2, <1>7, <2>1, <2>2 DEF In, Running
  <2>. QED
    BY <1>4, <2>1, <2>3
<1>. HIDE DEF Fine
<1>8. ASSUME DispatchWork(r) PROVE WorkOK'
  <2>1. In(r, Dispatches, "run") /\ ~ In(r, {"combine"}, "run")
    BY <1>1, <1>8, WorkIsWork DEF In, Dispatches
  <2>2. work[r].flagged \subseteq work[r].sent /\ work[r].sent \subseteq Experts
    BY <2>1 DEF WorkOK
  <2>3. ASSUME NEW e \in Experts, PushTask(r, e) PROVE WorkOK'
    <3>1. Works(r, work[r].sent \cup {e}, work[r].flagged, work[r].tiles, work[r].reduced, work[r].aligned)
      BY <1>1, <2>3, DispatchShapes
    <3>2. work[r].flagged \subseteq work[r].sent \cup {e} /\ work[r].sent \cup {e} \subseteq Experts
      BY <2>2
    <3>. QED
      BY <1>7, <2>1, <3>1, <3>2
  <2>4. ASSUME NEW e \in Experts, SignalTask(r, e) PROVE WorkOK'
    <3>1. Works(r, work[r].sent, work[r].flagged \cup {e}, work[r].tiles, work[r].reduced, work[r].aligned)
      BY <1>1, <2>4, DispatchShapes
    <3>2. work[r].flagged \cup {e} \subseteq work[r].sent
      BY <2>2, <2>4 DEF SignalTask
    <3>. QED
      BY <1>7, <2>1, <2>2, <3>1, <3>2
  <2>5. ASSUME NEW x \in Tiles \cup Experts, FinishPiece(r, x) PROVE WorkOK'
    <3>1. Works(r, work[r].sent, work[r].flagged, work[r].tiles \cup {x}, work[r].reduced, work[r].aligned)
      BY <1>1, <2>5, DispatchShapes
    <3>. QED
      BY <1>7, <2>1, <2>2, <3>1
  <2>. QED
    BY <1>8, <2>3, <2>4, <2>5 DEF DispatchWork
<1>9. ASSUME CombineWork(r) PROVE WorkOK'
  <2>1. In(r, {"combine"}, "run") /\ ~ In(r, Dispatches, "run")
    BY <1>1, <1>9, WorkIsWork DEF In, Dispatches
  <2>2. /\ work[r].flagged \subseteq work[r].sent /\ work[r].sent \subseteq Segments(r)
        /\ work[r].tiles \subseteq MyTiles(r) \X (1 .. NBlocks)
    BY <2>1 DEF WorkOK
  <2>8. ASSUME NEW i \in Tiles, NEW n \in 1 .. NBlocks, StoreBlock(r, i, n) PROVE WorkOK'
    <3>1. Works(r, work[r].sent, work[r].flagged, work[r].tiles, work[r].reduced, work[r].aligned)
      BY <1>1, <2>8, CombineShapes
    <3>. QED
      BY <1>7, <2>1, <2>2, <3>1
  <2>3. ASSUME NEW i \in Tiles, NEW n \in 1 .. NBlocks, CountBlock(r, i, n) PROVE WorkOK'
    <3>1. Works(r, work[r].sent, work[r].flagged, work[r].tiles \cup {<<i, n>>}, work[r].reduced, work[r].aligned)
      BY <1>1, <2>3, CombineShapes
    <3>2. work[r].tiles \cup {<<i, n>>} \subseteq MyTiles(r) \X (1 .. NBlocks)
      BY <2>2, <2>3 DEF CountBlock
    <3>. QED
      BY <1>7, <2>1, <2>2, <3>1, <3>2
  <2>4. ASSUME NEW seg \in Experts \X Ranks, PushSegment(r, seg) PROVE WorkOK'
    <3>1. Works(r, work[r].sent \cup {seg}, work[r].flagged, work[r].tiles, work[r].reduced, work[r].aligned)
      BY <1>1, <2>4, CombineShapes
    <3>2. work[r].flagged \subseteq work[r].sent \cup {seg} /\ work[r].sent \cup {seg} \subseteq Segments(r)
      BY <2>2, <2>4 DEF PushSegment
    <3>. QED
      BY <1>7, <2>1, <2>2, <3>1, <3>2
  <2>5. ASSUME NEW seg \in Experts \X Ranks, SignalSegment(r, seg) PROVE WorkOK'
    <3>1. Works(r, work[r].sent, work[r].flagged \cup {seg}, work[r].tiles, work[r].reduced, work[r].aligned)
      BY <1>1, <2>5, CombineShapes
    <3>2. work[r].flagged \cup {seg} \subseteq work[r].sent
      BY <2>2, <2>5 DEF SignalSegment
    <3>. QED
      BY <1>7, <2>1, <2>2, <3>1, <3>2
  <2>6. ASSUME AlignEmptyTiles(r) PROVE WorkOK'
    <3>1. Works(r, work[r].sent, work[r].flagged, work[r].tiles, work[r].reduced, TRUE)
      BY <1>1, <2>6, CombineShapes
    <3>. QED
      BY <1>7, <2>1, <2>2, <3>1
  <2>7. ASSUME NEW t \in Tokens, ReduceToken(r, t) PROVE WorkOK'
    <3>1. Works(r, work[r].sent, work[r].flagged, work[r].tiles, work[r].reduced \cup {t}, work[r].aligned)
      BY <1>1, <2>7, CombineShapes
    <3>. QED
      BY <1>7, <2>1, <2>2, <3>1
  <2>. QED
    BY <1>9, <2>3, <2>4, <2>5, <2>6, <2>7, <2>8 DEF CombineWork
<1>10. /\ Walks(r) => stage'[r] # "run" /\ Frame(r)
       /\ Leaves(r) => stage'[r] # "run" /\ Frame(r)
  BY DEF Walks, Leaves
<1>. QED
  BY <1>1, <1>5, <1>6, <1>8, <1>9, <1>10, StepIs

-----------------------------------------------------------------------------
(***************************************************************************)
(* The steps of a dispatch and of a combine, one by one.                   *)
(***************************************************************************)

LEMMA AtDispatch ==
  ASSUME PlaceOK, NEW r \in Ranks, NEW w, In(r, Dispatches, w)
  PROVE  /\ DispatchAt(pc[r]) /\ pc[r] \in Nat /\ stage[r] = w /\ Running(r)
         /\ program[pc[r]].kind # "prologue" /\ ~ CombineAt(pc[r])
BY OfGated DEF In, Running, DispatchAt, CombineAt, Dispatches

LEMMA AtCombine ==
  ASSUME PlaceOK, NEW r \in Ranks, NEW w, In(r, {"combine"}, w)
  PROVE  /\ CombineAt(pc[r]) /\ pc[r] \in Nat /\ stage[r] = w /\ Running(r)
         /\ program[pc[r]].kind # "prologue" /\ ~ DispatchAt(pc[r])
BY OfGated DEF In, Running, DispatchAt, CombineAt, Dispatches

\* Which step makes which rank have pushed, and signalled, what.
LEMMA DispatchFacts ==
  ASSUME PrologueInv, PrologueInv', EpochsTyped, WorkOK, NEW r \in Ranks, RankStep(r)
  PROVE  /\ \A q \in Ranks, e \in Experts : \A i : DispatchAt(i) =>
              /\ Pushed(q, i, e)' <=> Pushed(q, i, e) \/ (q = r /\ i = pc[r] /\ PushTask(r, e))
              /\ Flagged(q, i, e)' <=> Flagged(q, i, e) \/ (q = r /\ i = pc[r] /\ SignalTask(r, e))
         /\ (\A e \in Experts : ~ PushTask(r, e)) => pool' = pool
         /\ (\A e \in Experts : ~ SignalTask(r, e)) => dispFlag' = dispFlag
<1>1. PlaceOK /\ PlaceOK' /\ work \in [Ranks -> WorkType]
  BY DEF PrologueInv, EpochsTyped, WorkType
<1>. DEFINE Facts(q, e, i) ==
              /\ Pushed(q, i, e)' <=> Pushed(q, i, e) \/ (q = r /\ i = pc[r] /\ PushTask(r, e))
              /\ Flagged(q, i, e)' <=> Flagged(q, i, e) \/ (q = r /\ i = pc[r] /\ SignalTask(r, e))
            Fine == /\ \A q \in Ranks, e \in Experts : \A i : DispatchAt(i) => Facts(q, e, i)
                    /\ (\A e \in Experts : ~ PushTask(r, e)) => pool' = pool
                    /\ (\A e \in Experts : ~ SignalTask(r, e)) => dispFlag' = dispFlag
<1>2. \A e \in Experts :
        /\ PushTask(r, e) => In(r, Dispatches, "run") /\ UNCHANGED dispFlag
        /\ SignalTask(r, e) => In(r, Dispatches, "run") /\ UNCHANGED pool
  BY DEF PushTask, SignalTask
<1>3. \A e \in Experts :
        /\ PushTask(r, e) => /\ work'[r].sent = work[r].sent \cup {e} /\ e \notin work[r].sent
                             /\ work'[r].flagged = work[r].flagged
                             /\ Works(r, work[r].sent \cup {e}, work[r].flagged, work[r].tiles, work[r].reduced, work[r].aligned)
        /\ SignalTask(r, e) => /\ work'[r].flagged = work[r].flagged \cup {e} /\ e \notin work[r].flagged
                               /\ work'[r].sent = work[r].sent
                               /\ Works(r, work[r].sent, work[r].flagged \cup {e}, work[r].tiles, work[r].reduced, work[r].aligned)
  <2>. SUFFICES ASSUME NEW e \in Experts
       PROVE 
        /\ PushTask(r, e) => /\ work'[r].sent = work[r].sent \cup {e} /\ e \notin work[r].sent
                             /\ work'[r].flagged = work[r].flagged
                             /\ Works(r, work[r].sent \cup {e}, work[r].flagged, work[r].tiles, work[r].reduced, work[r].aligned)
        /\ SignalTask(r, e) => /\ work'[r].flagged = work[r].flagged \cup {e} /\ e \notin work[r].flagged
                               /\ work'[r].sent = work[r].sent
                               /\ Works(r, work[r].sent, work[r].flagged \cup {e}, work[r].tiles, work[r].reduced, work[r].aligned)
    OBVIOUS
  <2>1. PushTask(r, e) => Works(r, work[r].sent \cup {e}, work[r].flagged, work[r].tiles, work[r].reduced, work[r].aligned)
    BY <1>1, DispatchShapes
  <2>2. SignalTask(r, e) => Works(r, work[r].sent, work[r].flagged \cup {e}, work[r].tiles, work[r].reduced, work[r].aligned)
    BY <1>1, DispatchShapes
  <2>3. PushTask(r, e) => e \notin work[r].sent
    BY DEF PushTask
  <2>4. SignalTask(r, e) => e \notin work[r].flagged
    BY DEF SignalTask
  <2>. QED
    BY <2>1, <2>2, <2>3, <2>4 DEF Works, WorkIs
<1>4. ASSUME NEW e \in Experts, PushTask(r, e) PROVE Fine
  <2>1. \A f \in Experts : ~ SignalTask(r, f) /\ (PushTask(r, f) => f = e)
    <3>1. ASSUME NEW f \in Experts, SignalTask(r, f) PROVE FALSE
      BY <1>3, <1>4, <3>1
    <3>2. ASSUME NEW f \in Experts, PushTask(r, f) PROVE f = e
      BY <1>3, <1>4, <3>2
    <3>. QED
      BY <3>1, <3>2
  <2>2. /\ \A i, x : \A q \in Ranks : Pushed(q, i, x)' <=> Pushed(q, i, x) \/ (q = r /\ i = pc[r] /\ x \in work[r].sent \cup {e})
        /\ \A i, x : \A q \in Ranks : Flagged(q, i, x)' <=> Flagged(q, i, x) \/ (q = r /\ i = pc[r] /\ x \in work[r].flagged)
    <3>1. Works(r, work[r].sent \cup {e}, work[r].flagged, work[r].tiles, work[r].reduced, work[r].aligned)
      BY <1>3, <1>4
    <3>. QED
      BY <1>1, <3>1, OfWork
  <2>3. stage[r] = "run"
    BY <1>2, <1>4 DEF In
  <2>4. \A q \in Ranks, f \in Experts : \A i : DispatchAt(i) => Facts(q, f, i)
    BY <1>4, <2>1, <2>2, <2>3 DEF Pushed, Flagged
  <2>. HIDE DEF Facts
  <2>. QED
    BY <1>2, <1>4, <2>4
<1>5. ASSUME NEW e \in Experts, SignalTask(r, e) PROVE Fine
  <2>1. \A f \in Experts : ~ PushTask(r, f) /\ (SignalTask(r, f) => f = e)
    <3>1. ASSUME NEW f \in Experts, PushTask(r, f) PROVE FALSE
      BY <1>3, <1>5, <3>1
    <3>2. ASSUME NEW f \in Experts, SignalTask(r, f) PROVE f = e
      BY <1>3, <1>5, <3>2
    <3>. QED
      BY <3>1, <3>2
  <2>2. /\ \A i, x : \A q \in Ranks : Pushed(q, i, x)' <=> Pushed(q, i, x) \/ (q = r /\ i = pc[r] /\ x \in work[r].sent)
        /\ \A i, x : \A q \in Ranks : Flagged(q, i, x)' <=> Flagged(q, i, x) \/ (q = r /\ i = pc[r] /\ x \in work[r].flagged \cup {e})
    <3>1. Works(r, work[r].sent, work[r].flagged \cup {e}, work[r].tiles, work[r].reduced, work[r].aligned)
      BY <1>3, <1>5
    <3>. QED
      BY <1>1, <3>1, OfWork
  <2>3. stage[r] = "run"
    BY <1>2, <1>5 DEF In
  <2>4. \A q \in Ranks, f \in Experts : \A i : DispatchAt(i) => Facts(q, f, i)
    BY <1>5, <2>1, <2>2, <2>3 DEF Pushed, Flagged
  <2>. HIDE DEF Facts
  <2>. QED
    BY <1>2, <1>5, <2>4
<1>6. ASSUME \A e \in Experts : ~ PushTask(r, e) /\ ~ SignalTask(r, e) PROVE Fine
  <2>. DEFINE Same == \A e \in Experts : \A i : DispatchAt(i) => SameFor(i, e)
  <2>1. ASSUME pool' = pool, dispFlag' = dispFlag, Same PROVE Fine
    BY <1>6, <2>1 DEF SameFor
  <2>2. ASSUME Walks(r), Untouched PROVE Fine
    <3>1. Same
      BY <1>1, <2>2, OfWalk, OfGated
    <3>. QED
      BY <2>1, <2>2, <3>1 DEF Untouched
  <2>3. ASSUME Enters(r), BeginDispatch(r) \/ BeginCombine(r) PROVE Fine
    <3>1. Same
      BY <1>1, <2>3, OfEnter
    <3>2. pool' = pool /\ dispFlag' = dispFlag
      BY <2>3 DEF BeginDispatch, BeginCombine, dataVars
    <3>. QED
      BY <2>1, <3>1, <3>2
  <2>4. ASSUME DispatchWork(r) PROVE Fine
    <3>1. PICK x \in Tiles \cup Experts : FinishPiece(r, x)
      BY <1>6, <2>4 DEF DispatchWork
    <3>2. Works(r, work[r].sent, work[r].flagged, work[r].tiles \cup {x}, work[r].reduced, work[r].aligned)
      BY <1>1, <3>1, DispatchShapes
    <3>3. /\ \A i, y : \A q \in Ranks : Pushed(q, i, y)' <=> Pushed(q, i, y) \/ (q = r /\ i = pc[r] /\ y \in work[r].sent)
          /\ \A i, y : \A q \in Ranks : Flagged(q, i, y)' <=> Flagged(q, i, y) \/ (q = r /\ i = pc[r] /\ y \in work[r].flagged)
      BY <1>1, <3>2, OfWork
    <3>4. stage[r] = "run" /\ pool' = pool /\ dispFlag' = dispFlag
      BY <3>1 DEF FinishPiece, In, dataVars
    <3>5. Same
      BY <3>3, <3>4 DEF SameFor, Pushed, Flagged
    <3>. QED
      BY <2>1, <3>4, <3>5
  <2>5. ASSUME CombineWork(r) PROVE Fine
    <3>1. PICK s, f, t, d, a : /\ Works(r, s, f, t, d, a)
                               /\ work[r].sent \subseteq s /\ work[r].flagged \subseteq f
      BY <1>1, <2>5, WorkIsWork
    <3>2. In(r, {"combine"}, "run") /\ pool' = pool /\ dispFlag' = dispFlag
      BY <1>1, <2>5, WorkIsWork
    <3>3. ~ DispatchAt(pc[r])
      BY <1>1, <3>2, AtCombine
    <3>4. Same
      BY <1>1, <3>1, <3>3, OfWork DEF SameFor
    <3>. QED
      BY <2>1, <3>2, <3>4
  <2>6. ASSUME Leaves(r), EndDispatch(r) PROVE Fine
    <3>1. stage[r] = "run" /\ work[r].flagged = Experts /\ In(r, Dispatches, "run")
          /\ pool' = pool /\ dispFlag' = dispFlag
      BY <2>6 DEF EndDispatch, In, dataVars
    <3>2. \A e \in Experts : e \in work[r].sent /\ e \in work[r].flagged
      BY <3>1 DEF WorkOK
    <3>4. \A i, x : \A q \in Ranks : DispatchAt(i) =>
            /\ Pushed(q, i, x)' <=> Pushed(q, i, x) \/ (q = r /\ i = pc[r])
            /\ Flagged(q, i, x)' <=> Flagged(q, i, x) \/ (q = r /\ i = pc[r])
      BY <1>1, <2>6, OfLeave, OfGated
    <3>5. \A e \in Experts : Pushed(r, pc[r], e) /\ Flagged(r, pc[r], e)
      BY <3>1, <3>2 DEF Pushed, Flagged
    <3>3. Same
      BY <3>4, <3>5 DEF SameFor
    <3>. QED
      BY <2>1, <3>1, <3>3
  <2>7. ASSUME Leaves(r), EndCombine(r) PROVE Fine
    <3>1. In(r, {"combine"}, "run") /\ pool' = pool /\ dispFlag' = dispFlag
      BY <2>7 DEF EndCombine, dataVars
    <3>2. ~ DispatchAt(pc[r])
      BY <1>1, <3>1, AtCombine
    <3>3. Same
      BY <1>1, <2>7, <3>2, OfLeave, OfGated DEF SameFor
    <3>. QED
      BY <2>1, <3>1, <3>3
  <2>. HIDE DEF Fine, Same
  <2>. QED
    BY <1>1, <2>2, <2>3, <2>4, <2>5, <2>6, <2>7, StepIs
<1>7. Fine
  <2>. HIDE DEF Fine
  <2>. QED
    BY <1>4, <1>5, <1>6
<1>. QED
  BY <1>7

\* A segment that has rows in combine i.
HasRows(i, seg) == /\ seg \in Experts \X Ranks /\ i \in 1 .. Len(program)
                   /\ Matrix(RoutingAt(i))[seg[2]][seg[1]] > 0

LEMMA CombineFacts ==
  ASSUME PrologueInv, PrologueInv', EpochsTyped, WorkOK, NEW r \in Ranks, RankStep(r)
  PROVE  /\ \A seg : \A i : CombineAt(i) /\ HasRows(i, seg) =>
              /\ Pushed(Owner(seg[1]), i, seg)'
                   <=> Pushed(Owner(seg[1]), i, seg) \/ (i = pc[r] /\ PushSegment(r, seg))
              /\ Flagged(Owner(seg[1]), i, seg)'
                   <=> Flagged(Owner(seg[1]), i, seg) \/ (i = pc[r] /\ SignalSegment(r, seg))
         /\ (\A seg \in Experts \X Ranks : ~ PushSegment(r, seg)) => comb' = comb
         /\ (\A seg \in Experts \X Ranks : ~ SignalSegment(r, seg)) => reduceFlag' = reduceFlag
<1>1. PlaceOK /\ PlaceOK' /\ work \in [Ranks -> WorkType]
  BY DEF PrologueInv, EpochsTyped, WorkType
<1>. DEFINE Facts(seg, i) ==
              /\ Pushed(Owner(seg[1]), i, seg)'
                   <=> Pushed(Owner(seg[1]), i, seg) \/ (i = pc[r] /\ PushSegment(r, seg))
              /\ Flagged(Owner(seg[1]), i, seg)'
                   <=> Flagged(Owner(seg[1]), i, seg) \/ (i = pc[r] /\ SignalSegment(r, seg))
            Fine == /\ \A seg : \A i : CombineAt(i) /\ HasRows(i, seg) => Facts(seg, i)
                    /\ (\A seg \in Experts \X Ranks : ~ PushSegment(r, seg)) => comb' = comb
                    /\ (\A seg \in Experts \X Ranks : ~ SignalSegment(r, seg)) => reduceFlag' = reduceFlag
<1>2. \A seg \in Experts \X Ranks :
        /\ PushSegment(r, seg) => In(r, {"combine"}, "run") /\ UNCHANGED reduceFlag /\ Owner(seg[1]) = r
        /\ SignalSegment(r, seg) => In(r, {"combine"}, "run") /\ UNCHANGED comb /\ Owner(seg[1]) = r
  <2>1. ASSUME NEW seg \in Experts \X Ranks, PushSegment(r, seg)
        PROVE  In(r, {"combine"}, "run") /\ UNCHANGED reduceFlag /\ Owner(seg[1]) = r
    BY <2>1 DEF PushSegment, Segments, Local
  <2>2. ASSUME NEW seg \in Experts \X Ranks, SignalSegment(r, seg)
        PROVE  In(r, {"combine"}, "run") /\ UNCHANGED comb /\ Owner(seg[1]) = r
    BY <2>2 DEF SignalSegment, WorkOK, Segments, Local
  <2>. QED
    BY <2>1, <2>2
<1>3. \A seg \in Experts \X Ranks :
        /\ PushSegment(r, seg) => /\ work'[r].sent = work[r].sent \cup {seg} /\ seg \notin work[r].sent
                             /\ work'[r].flagged = work[r].flagged
                             /\ Works(r, work[r].sent \cup {seg}, work[r].flagged, work[r].tiles, work[r].reduced, work[r].aligned)
        /\ SignalSegment(r, seg) => /\ work'[r].flagged = work[r].flagged \cup {seg} /\ seg \notin work[r].flagged
                               /\ work'[r].sent = work[r].sent
                               /\ Works(r, work[r].sent, work[r].flagged \cup {seg}, work[r].tiles, work[r].reduced, work[r].aligned)
  <2>. SUFFICES ASSUME NEW seg \in Experts \X Ranks
       PROVE 
        /\ PushSegment(r, seg) => /\ work'[r].sent = work[r].sent \cup {seg} /\ seg \notin work[r].sent
                             /\ work'[r].flagged = work[r].flagged
                             /\ Works(r, work[r].sent \cup {seg}, work[r].flagged, work[r].tiles, work[r].reduced, work[r].aligned)
        /\ SignalSegment(r, seg) => /\ work'[r].flagged = work[r].flagged \cup {seg} /\ seg \notin work[r].flagged
                               /\ work'[r].sent = work[r].sent
                               /\ Works(r, work[r].sent, work[r].flagged \cup {seg}, work[r].tiles, work[r].reduced, work[r].aligned)
    OBVIOUS
  <2>1. PushSegment(r, seg) => Works(r, work[r].sent \cup {seg}, work[r].flagged, work[r].tiles, work[r].reduced, work[r].aligned)
    BY <1>1, CombineShapes
  <2>2. SignalSegment(r, seg) => Works(r, work[r].sent, work[r].flagged \cup {seg}, work[r].tiles, work[r].reduced, work[r].aligned)
    BY <1>1, CombineShapes
  <2>3. PushSegment(r, seg) => seg \notin work[r].sent
    BY DEF PushSegment
  <2>4. SignalSegment(r, seg) => seg \notin work[r].flagged
    BY DEF SignalSegment
  <2>. QED
    BY <2>1, <2>2, <2>3, <2>4 DEF Works, WorkIs
<1>0. \A seg, i : HasRows(i, seg) => seg \in Experts \X Ranks /\ Owner(seg[1]) \in Ranks
  <2>1. \A seg \in Experts \X Ranks : seg[1] \in Experts
    OBVIOUS
  <2>. QED
    BY <2>1, OwnerIs DEF HasRows
<1>4. ASSUME NEW e \in Experts \X Ranks, PushSegment(r, e) PROVE Fine
  <2>1. \A f \in Experts \X Ranks : ~ SignalSegment(r, f) /\ (PushSegment(r, f) => f = e)
    <3>1. ASSUME NEW f \in Experts \X Ranks, SignalSegment(r, f) PROVE FALSE
      BY <1>3, <1>4, <3>1
    <3>2. ASSUME NEW f \in Experts \X Ranks, PushSegment(r, f) PROVE f = e
      <4>1. work[r].sent \cup {e} = work[r].sent \cup {f} /\ e \notin work[r].sent
        BY <1>3, <1>4, <3>2
      <4>. QED
        BY <4>1
    <3>. QED
      BY <3>1, <3>2
  <2>2. /\ \A i, x : \A q \in Ranks : Pushed(q, i, x)' <=> Pushed(q, i, x) \/ (q = r /\ i = pc[r] /\ x \in work[r].sent \cup {e})
        /\ \A i, x : \A q \in Ranks : Flagged(q, i, x)' <=> Flagged(q, i, x) \/ (q = r /\ i = pc[r] /\ x \in work[r].flagged)
    <3>1. Works(r, work[r].sent \cup {e}, work[r].flagged, work[r].tiles, work[r].reduced, work[r].aligned)
      BY <1>3, <1>4
    <3>. QED
      BY <1>1, <3>1, OfWork
  <2>3. stage[r] = "run" /\ Owner(e[1]) = r
    BY <1>2, <1>4 DEF In
  <2>4. \A seg, i : CombineAt(i) /\ HasRows(i, seg) => Facts(seg, i)
    BY <1>0, <1>4, <2>1, <2>2, <2>3 DEF Pushed, Flagged
  <2>. HIDE DEF Facts
  <2>. QED
    BY <1>2, <1>4, <2>4
<1>5. ASSUME NEW e \in Experts \X Ranks, SignalSegment(r, e) PROVE Fine
  <2>1. \A f \in Experts \X Ranks : ~ PushSegment(r, f) /\ (SignalSegment(r, f) => f = e)
    <3>1. ASSUME NEW f \in Experts \X Ranks, PushSegment(r, f) PROVE FALSE
      BY <1>3, <1>5, <3>1
    <3>2. ASSUME NEW f \in Experts \X Ranks, SignalSegment(r, f) PROVE f = e
      <4>1. work[r].flagged \cup {e} = work[r].flagged \cup {f} /\ e \notin work[r].flagged
        BY <1>3, <1>5, <3>2
      <4>. QED
        BY <4>1
    <3>. QED
      BY <3>1, <3>2
  <2>2. /\ \A i, x : \A q \in Ranks : Pushed(q, i, x)' <=> Pushed(q, i, x) \/ (q = r /\ i = pc[r] /\ x \in work[r].sent)
        /\ \A i, x : \A q \in Ranks : Flagged(q, i, x)' <=> Flagged(q, i, x) \/ (q = r /\ i = pc[r] /\ x \in work[r].flagged \cup {e})
    <3>1. Works(r, work[r].sent, work[r].flagged \cup {e}, work[r].tiles, work[r].reduced, work[r].aligned)
      BY <1>3, <1>5
    <3>. QED
      BY <1>1, <3>1, OfWork
  <2>3. stage[r] = "run" /\ Owner(e[1]) = r
    BY <1>2, <1>5 DEF In
  <2>4. \A seg, i : CombineAt(i) /\ HasRows(i, seg) => Facts(seg, i)
    BY <1>0, <1>5, <2>1, <2>2, <2>3 DEF Pushed, Flagged
  <2>. HIDE DEF Facts
  <2>. QED
    BY <1>2, <1>5, <2>4
<1>6. ASSUME \A e \in Experts \X Ranks : ~ PushSegment(r, e) /\ ~ SignalSegment(r, e) PROVE Fine
  <2>. DEFINE Same == \A seg, i : CombineAt(i) /\ HasRows(i, seg) =>
                        /\ Pushed(Owner(seg[1]), i, seg)' <=> Pushed(Owner(seg[1]), i, seg)
                        /\ Flagged(Owner(seg[1]), i, seg)' <=> Flagged(Owner(seg[1]), i, seg)
  <2>1. ASSUME comb' = comb, reduceFlag' = reduceFlag, Same PROVE Fine
    BY <1>0, <1>6, <2>1
  <2>2. ASSUME Walks(r), Untouched PROVE Fine
    <3>1. Same
      BY <1>0, <1>1, <2>2, OfWalk, OfGated DEF SameFor
    <3>. QED
      BY <2>1, <2>2, <3>1 DEF Untouched
  <2>3. ASSUME Enters(r), BeginDispatch(r) \/ BeginCombine(r) PROVE Fine
    <3>1. Same
      BY <1>0, <1>1, <2>3, OfEnter DEF SameFor
    <3>2. comb' = comb /\ reduceFlag' = reduceFlag
      BY <2>3 DEF BeginDispatch, BeginCombine, dataVars
    <3>. QED
      BY <2>1, <3>1, <3>2
  <2>4. ASSUME CombineWork(r) PROVE Fine
    <3>. DEFINE Quietly == \E t, d, a :
                  Works(r, work[r].sent, work[r].flagged, t, d, a) /\ comb' = comb /\ reduceFlag' = reduceFlag
                  /\ stage[r] = "run"
    <3>8. ASSUME NEW i \in Tiles, NEW n \in 1 .. NBlocks, StoreBlock(r, i, n) PROVE Quietly
      <4>1. Works(r, work[r].sent, work[r].flagged, work[r].tiles, work[r].reduced, work[r].aligned)
        BY <1>1, <3>8, CombineShapes
      <4>2. comb' = comb /\ reduceFlag' = reduceFlag /\ stage[r] = "run"
        BY <3>8 DEF StoreBlock, dataVars, In
      <4>. QED
        BY <4>1, <4>2
    <3>1. ASSUME NEW i \in Tiles, NEW n \in 1 .. NBlocks, CountBlock(r, i, n) PROVE Quietly
      <4>1. Works(r, work[r].sent, work[r].flagged, work[r].tiles \cup {<<i, n>>}, work[r].reduced, work[r].aligned)
        BY <1>1, <3>1, CombineShapes
      <4>2. comb' = comb /\ reduceFlag' = reduceFlag /\ stage[r] = "run"
        BY <3>1 DEF CountBlock, dataVars, In
      <4>. QED
        BY <4>1, <4>2
    <3>2. ASSUME AlignEmptyTiles(r) PROVE Quietly
      <4>1. Works(r, work[r].sent, work[r].flagged, work[r].tiles, work[r].reduced, TRUE)
        BY <1>1, <3>2, CombineShapes
      <4>2. comb' = comb /\ reduceFlag' = reduceFlag /\ stage[r] = "run"
        BY <3>2 DEF AlignEmptyTiles, dataVars, In
      <4>. QED
        BY <4>1, <4>2
    <3>3. ASSUME NEW t \in Tokens, ReduceToken(r, t) PROVE Quietly
      <4>1. Works(r, work[r].sent, work[r].flagged, work[r].tiles, work[r].reduced \cup {t}, work[r].aligned)
        BY <1>1, <3>3, CombineShapes
      <4>2. comb' = comb /\ reduceFlag' = reduceFlag /\ stage[r] = "run"
        BY <3>3 DEF ReduceToken, dataVars, In
      <4>. QED
        BY <4>1, <4>2
    <3>4. Quietly
      <4>. HIDE DEF Quietly
      <4>. QED
        BY <1>6, <2>4, <3>1, <3>2, <3>3, <3>8 DEF CombineWork
    <3>5. PICK t, d, a : Works(r, work[r].sent, work[r].flagged, t, d, a)
      BY <3>4
    <3>6. /\ \A i, y : \A q \in Ranks : Pushed(q, i, y)' <=> Pushed(q, i, y) \/ (q = r /\ i = pc[r] /\ y \in work[r].sent)
          /\ \A i, y : \A q \in Ranks : Flagged(q, i, y)' <=> Flagged(q, i, y) \/ (q = r /\ i = pc[r] /\ y \in work[r].flagged)
      BY <1>1, <3>5, OfWork
    <3>7. Same
      BY <1>0, <3>4, <3>6 DEF Pushed, Flagged
    <3>. QED
      BY <2>1, <3>4, <3>7
  <2>5. ASSUME DispatchWork(r) PROVE Fine
    <3>1. PICK s, f, t, d, a : /\ Works(r, s, f, t, d, a)
                               /\ work[r].sent \subseteq s /\ work[r].flagged \subseteq f
      BY <1>1, <2>5, WorkIsWork
    <3>2. In(r, Dispatches, "run") /\ comb' = comb /\ reduceFlag' = reduceFlag
      BY <1>1, <2>5, WorkIsWork
    <3>3. ~ CombineAt(pc[r])
      BY <1>1, <3>2, AtDispatch
    <3>4. Same
      BY <1>0, <1>1, <3>1, <3>3, OfWork
    <3>. QED
      BY <2>1, <3>2, <3>4
  <2>6. ASSUME Leaves(r), EndCombine(r) PROVE Fine
    <3>1. stage[r] = "run" /\ work[r].flagged = Segments(r) /\ In(r, {"combine"}, "run")
          /\ comb' = comb /\ reduceFlag' = reduceFlag
      BY <2>6 DEF EndCombine, In, dataVars
    <3>2. HereOK /\ program[pc[r]].kind # "prologue" /\ Running(r)
      BY <1>1, <3>1, AtCombine, HereNow
    <3>3. ASSUME NEW seg, HasRows(pc[r], seg), Owner(seg[1]) = r
          PROVE  seg \in work[r].sent /\ seg \in work[r].flagged
      <4>1. seg \in Local(r) \X Ranks
        BY <3>3 DEF HasRows, Local
      <4>2. seg \in Segments(r)
        BY <3>2, <3>3, <4>1 DEF HereOK, HasRows
      <4>. QED
        BY <3>1, <4>2 DEF WorkOK
    <3>4. Same
      BY <1>0, <1>1, <2>6, <3>1, <3>3, OfLeave, OfGated, SMTT(30), ZenonT(30) DEF Pushed, Flagged
    <3>. QED
      BY <2>1, <3>1, <3>4
  <2>7. ASSUME Leaves(r), EndDispatch(r) PROVE Fine
    <3>1. In(r, Dispatches, "run") /\ comb' = comb /\ reduceFlag' = reduceFlag
      BY <2>7 DEF EndDispatch, dataVars
    <3>2. ~ CombineAt(pc[r])
      BY <1>1, <3>1, AtDispatch
    <3>3. Same
      BY <1>0, <1>1, <2>7, <3>2, OfLeave, OfGated
    <3>. QED
      BY <2>1, <3>1, <3>3
  <2>. HIDE DEF Fine, Same
  <2>. QED
    BY <1>1, <2>2, <2>3, <2>4, <2>5, <2>6, <2>7, StepIs
<1>7. Fine
  <2>. HIDE DEF Fine
  <2>. QED
    BY <1>4, <1>5, <1>6
<1>. QED
  BY <1>7

-----------------------------------------------------------------------------
(***************************************************************************)
(* A dispatch flag counts the signals of its bank.                         *)
(***************************************************************************)

\* The dispatch a rank is in uses the bank that its parity names.
LEMMA BankHere ==
  ASSUME PlaceOK, EpochsTyped, EpochsOK, NEW r \in Ranks, In(r, Dispatches, "run")
  PROVE  /\ pc[r] \in DispatchBank(dispEpoch[r].parity)
         /\ dispEpoch[r].parity \in Banks
<1>1. DispatchAt(pc[r]) /\ pc[r] \in Nat /\ stage[r] = "run" /\ pc[r] \in AllDispatches
  BY AtDispatch DEF AllDispatches, DispatchAt
<1>2. \A j \in AllDispatches : Begun(r, j) <=> j <= pc[r]
  BY <1>1, DispatchesAre DEF Begun
<1>3. {j \in 1 .. Len(program) : DispatchAt(j) /\ Begun(r, j)}
        = {j \in 1 .. Len(program) : DispatchAt(j) /\ j <= pc[r]}
  BY <1>2 DEF AllDispatches
<1>4. dispEpoch[r].parity = DispatchNo(pc[r]) % 2
  BY <1>3 DEF EpochsOK, DispatchNo
<1>5. dispEpoch[r].parity \in Banks
  BY DEF EpochsTyped
<1>. QED
  BY <1>1, <1>4, <1>5, DispatchesAre

LEMMA SignalsFinite ==
  ASSUME PlaceOK, NEW b, NEW e
  PROVE  /\ IsFiniteSet(Signals(b, e)) /\ Cardinality(Signals(b, e)) \in Nat
         /\ Signals(b, e) \subseteq Ranks \X AllDispatches
<1>1. Signals(b, e) \subseteq Ranks \X AllDispatches
  BY DispatchesAre DEF Signals
<1>2. IsFiniteSet(Ranks \X AllDispatches)
  BY DispatchesAre, Numbers, FS_Product
<1>. QED
  BY <1>1, <1>2, FS_Subset, FS_CardinalityType

LEMMA DispFlagsKept ==
  ASSUME PrologueInv, PrologueInv', EpochsTyped, EpochsOK, WorkOK, DispFlagsOK,
         NEW r \in Ranks, RankStep(r)
  PROVE  DispFlagsOK'
<1>1. PlaceOK /\ PlaceOK'
  BY DEF PrologueInv
<1>2. UNCHANGED <<program, routing>>
  BY <1>1, EpochSteps
<1>3. \A b : DispatchBank(b)' = DispatchBank(b)
  BY <1>2 DEF DispatchBank, DispatchAt, DispatchNo
<1>4. \A b : \A j \in DispatchBank(b) : DispatchAt(j)
  BY <1>1, DispatchesAre
<1>5. CASE \A e \in Experts : ~ SignalTask(r, e)
  <2>1. dispFlag' = dispFlag
    BY <1>5, DispatchFacts
  <2>2. \A q \in Ranks, e \in Experts : \A i : DispatchAt(i) => (Flagged(q, i, e)' <=> Flagged(q, i, e))
    BY <1>5, DispatchFacts
  <2>3. \A b \in Banks, e \in Experts : Signals(b, e)' = Signals(b, e)
    BY <1>3, <1>4, <2>2 DEF Signals
  <2>4. \A q \in Ranks : Local(q) \subseteq Experts
    BY LocalIs
  <2>. QED
    BY <2>1, <2>3, <2>4 DEF DispFlagsOK
<1>6. ASSUME NEW e \in Experts, SignalTask(r, e) PROVE DispFlagsOK'
  <2>1. PICK b : b = dispEpoch[r].parity
    OBVIOUS
  <2>2. /\ In(r, Dispatches, "run") /\ e \in Experts /\ e \notin work[r].flagged
        /\ dispFlag' = [dispFlag EXCEPT ![Owner(e)][b][e] = @ + 1]
    BY <1>6, <2>1 DEF SignalTask
  <2>3. pc[r] \in DispatchBank(b) /\ b \in Banks
    BY <1>1, <2>1, <2>2, BankHere
  <2>4. Owner(e) \in Ranks /\ e \in Local(Owner(e))
    BY OwnerIs
  <2>5. /\ dispFlag' = [q \in Ranks |-> [c \in Banks |-> [f \in Local(q) |-> dispFlag'[q][c][f]]]]
        /\ dispFlag'[Owner(e)][b][e] = dispFlag[Owner(e)][b][e] + 1
        /\ \A q \in Ranks, c \in Banks : \A f \in Local(q) :
             c # b \/ f # e => dispFlag'[q][c][f] = dispFlag[q][c][f]
    <3>1. dispFlag = [q \in Ranks |-> [c \in Banks |-> [f \in Local(q) |-> dispFlag[q][c][f]]]]
      BY DEF DispFlagsOK
    <3>0. \A q \in Ranks, c \in Banks :
            dispFlag[q][c] = [f \in Local(q) |-> dispFlag[q][c][f]]
      <4>1. \A q \in Ranks : dispFlag[q] = [c \in Banks |-> [f \in Local(q) |-> dispFlag[q][c][f]]]
        BY <3>1
      <4>2. ASSUME NEW q \in Ranks, NEW c \in Banks
            PROVE  dispFlag[q][c] = [f \in Local(q) |-> dispFlag[q][c][f]]
        <5>1. dispFlag[q] = [d \in Banks |-> [f \in Local(q) |-> dispFlag[q][d][f]]]
          BY <4>1
        <5>. QED
          BY ONLY <5>1, c \in Banks
      <4>. QED
        BY <4>2
    <3>2. PICK o : o = Owner(e)
      OBVIOUS
    <3>. DEFINE new == [dispFlag[o][b] EXCEPT ![e] = @ + 1]
    <3>3. new = [f \in Local(o) |-> new[f]] /\ new[e] = dispFlag[o][b][e] + 1
          /\ \A f \in Local(o) \ {e} : new[f] = dispFlag[o][b][f]
      BY <2>3, <2>4, <3>0, <3>2
    <3>4. dispFlag' = [dispFlag EXCEPT ![o][b] = new]
      BY <2>2, <3>2
    <3>. HIDE DEF new
    <3>5. /\ dispFlag'[o][b] = new
          /\ \A q \in Ranks, c \in Banks : q # o \/ c # b => dispFlag'[q][c] = dispFlag[q][c]
          /\ \A q \in Ranks : dispFlag'[q] = [c \in Banks |-> dispFlag'[q][c]]
          /\ dispFlag' = [q \in Ranks |-> dispFlag'[q]]
      BY <2>3, <2>4, <3>1, <3>2, <3>4
    <3>6. \A q \in Ranks, c \in Banks : dispFlag'[q][c] = [f \in Local(q) |-> dispFlag'[q][c][f]]
      <4>1. ASSUME NEW q \in Ranks, NEW c \in Banks
            PROVE  dispFlag'[q][c] = [f \in Local(q) |-> dispFlag'[q][c][f]]
        <5>1. CASE q = o /\ c = b
          BY <3>3, <3>5, <5>1
        <5>2. CASE ~ (q = o /\ c = b)
          <6>1. dispFlag'[q][c] = dispFlag[q][c]
            BY <3>5, <5>2
          <6>. QED
            BY <3>0, <6>1
        <5>. QED
          BY <5>1, <5>2
      <4>. QED
        BY <4>1
    <3>7. dispFlag' = [q \in Ranks |-> [c \in Banks |-> [f \in Local(q) |-> dispFlag'[q][c][f]]]]
      BY <3>5, <3>6
    <3>8. \A q \in Ranks, c \in Banks : \A f \in Local(q) :
             c # b \/ f # e => dispFlag'[q][c][f] = dispFlag[q][c][f]
      BY <3>3, <3>5
    <3>. QED
      BY <3>2, <3>3, <3>5, <3>7, <3>8
  <2>6. \A q \in Ranks, f \in Experts : \A i : DispatchAt(i) =>
          (Flagged(q, i, f)' <=> Flagged(q, i, f) \/ (q = r /\ i = pc[r] /\ SignalTask(r, f)))
    BY DispatchFacts
  <2>7. \A f \in Experts : SignalTask(r, f) => f = e
    <3>1. ASSUME NEW f \in Experts, SignalTask(r, f) PROVE f = e
      <4>1. /\ work \in [Ranks -> WorkType]
        BY DEF EpochsTyped, WorkType
      <4>2. /\ Works(r, work[r].sent, work[r].flagged \cup {e}, work[r].tiles, work[r].reduced, work[r].aligned)
            /\ Works(r, work[r].sent, work[r].flagged \cup {f}, work[r].tiles, work[r].reduced, work[r].aligned)
        BY <1>1, <1>6, <3>1, <4>1, DispatchShapes
      <4>3. work[r].flagged \cup {e} = work[r].flagged \cup {f}
        BY <4>2 DEF Works, WorkIs
      <4>. QED
        BY <2>2, <4>3
    <3>. QED
      BY <3>1
  <2>8. /\ Signals(b, e)' = Signals(b, e) \cup {<<r, pc[r]>>}
        /\ <<r, pc[r]>> \notin Signals(b, e)
    <3>1. ~ Flagged(r, pc[r], e)
      BY <1>1, <2>2, AtDispatch DEF Flagged
    <3>2. \A q \in Ranks, i \in DispatchBank(b) :
            Flagged(q, i, e)' <=> Flagged(q, i, e) \/ (q = r /\ i = pc[r])
      BY <1>4, <1>6, <2>6
    <3>. QED
      BY <1>3, <2>3, <3>1, <3>2 DEF Signals
  <2>9. \A c \in Banks, f \in Experts : c # b \/ f # e => Signals(c, f)' = Signals(c, f)
    <3>1. ASSUME NEW c \in Banks, NEW f \in Experts, c # b \/ f # e
          PROVE  Signals(c, f)' = Signals(c, f)
      <4>1. \A q \in Ranks, i \in DispatchBank(c) :
              Flagged(q, i, f)' <=> Flagged(q, i, f) \/ (q = r /\ i = pc[r] /\ f = e)
        BY <1>4, <1>6, <2>6, <2>7
      <4>2. c # b => pc[r] \notin DispatchBank(c)
        BY <1>1, <2>3, DispatchesAre
      <4>3. \A q \in Ranks, i \in DispatchBank(c) : Flagged(q, i, f)' <=> Flagged(q, i, f)
        BY <3>1, <4>1, <4>2
      <4>. QED
        BY <1>3, <4>3 DEF Signals
    <3>. QED
      BY <3>1
  <2>10. Cardinality(Signals(b, e))' = Cardinality(Signals(b, e)) + 1
    BY <1>1, <2>8, SignalsFinite, FS_AddElement
  <2>11. ASSUME NEW q \in Ranks, NEW c \in Banks, NEW f \in Local(q)
         PROVE  dispFlag'[q][c][f] = Cardinality(Signals(c, f))'
    <3>1. f \in Experts /\ Owner(f) = q
      BY LocalIs DEF Local
    <3>2. dispFlag[q][c][f] = Cardinality(Signals(c, f))
      BY DEF DispFlagsOK
    <3>3. CASE c = b /\ f = e
      BY <2>5, <2>10, <3>1, <3>2, <3>3
    <3>4. CASE c # b \/ f # e
      BY <2>5, <2>9, <3>1, <3>2, <3>4
    <3>. QED
      BY <3>3, <3>4
  <2>. QED
    BY <2>5, <2>11 DEF DispFlagsOK
<1>. QED
  BY <1>5, <1>6

-----------------------------------------------------------------------------
(***************************************************************************)
(* The flags of all tiles are level but for the work of this combine.      *)
(***************************************************************************)

Combining(q) == In(q, {"combine"}, "run")
Level(q, b, i) ==
  combFlag[q][b][i] + (IF Combining(q) /\ b = Bank(q) THEN NBlocks ELSE 0)
    = combEpoch[q].tiles[b] + (IF Combining(q) /\ b = Bank(q) THEN Progress(q, i) ELSE 0)
TilesFine(q) ==
  /\ \A b \in Banks, i \in Tiles : Level(q, b, i)
  /\ Combining(q) =>
       \A i \in Tiles, n \in 1 .. NBlocks : <<i, n>> \in work[q].tiles => l2[q][i][n] = pc[q]
L2Typed == l2 = [r \in Ranks |-> [i \in Tiles |-> [n \in 1 .. NBlocks |-> l2[r][i][n]]]]

TilesAll == /\ combFlag \in [Ranks -> [Banks -> [Tiles -> Nat]]] /\ L2Typed
            /\ \A q \in Ranks : TilesFine(q)

LEMMA TilesParts == TilesOK <=> TilesAll
BY DEF TilesAll, TilesOK, L2Typed, TilesFine, Level, Combining

LEMMA BlocksFinite ==
  ASSUME NEW q, NEW i
  PROVE  /\ IsFiniteSet(Blocks(q, i)) /\ Cardinality(Blocks(q, i)) \in Nat
         /\ IsFiniteSet(1 .. NBlocks) /\ Cardinality(1 .. NBlocks) = NBlocks
<1>1. IsFiniteSet(1 .. NBlocks) /\ Cardinality(1 .. NBlocks) = NBlocks
  BY Numbers, FS_Interval
<1>. QED
  BY <1>1, FS_Subset, FS_CardinalityType DEF Blocks

\* Nothing that the tiles depend on changes for q.
LEMMA SameTiles ==
  ASSUME PrologueInv, PrologueInv', UNCHANGED <<program, routing>>, EpochsTyped, TilesOK, NEW q \in Ranks,
         combFlag'[q] = combFlag[q], combEpoch'[q] = combEpoch[q], l2'[q] = l2[q],
         \/ ~ Combining(q) /\ ~ Combining(q)'
         \/ /\ pc'[q] = pc[q] /\ Combining(q) /\ Combining(q)'
            /\ work'[q].tiles = work[q].tiles /\ work'[q].aligned = work[q].aligned
  PROVE  TilesFine(q)'
<1>1. TilesFine(q) /\ Bank(q)' = Bank(q)
  BY TilesParts DEF TilesAll, Bank
<1>2. CASE ~ Combining(q) /\ ~ Combining(q)'
  BY <1>1, <1>2 DEF TilesFine, Level
<1>3. CASE /\ pc'[q] = pc[q] /\ Combining(q) /\ Combining(q)'
           /\ work'[q].tiles = work[q].tiles /\ work'[q].aligned = work[q].aligned
  <2>1. MyTiles(q)' = MyTiles(q)
    BY <1>3, SameHere DEF Combining, In
  <2>2. \A i \in Tiles : Blocks(q, i)' = Blocks(q, i)
    BY <1>3 DEF Blocks
  <2>3. \A i \in Tiles : Progress(q, i)' = Progress(q, i)
    BY <1>3, <2>1, <2>2 DEF Progress
  <2>. QED
    BY <1>1, <1>3, <2>3 DEF TilesFine, Level
<1>. QED
  BY <1>2, <1>3

LEMMA TilesOfBegin ==
  ASSUME PlaceOK, PlaceOK', EpochsTyped, TilesOK, NEW r \in Ranks, BeginCombine(r), Enters(r)
  PROVE  TilesFine(r)'
<1>1. PICK b : b = 1 - combEpoch[r].parity
  OBVIOUS
<1>2. /\ b \in Banks /\ 1 - b \in Banks /\ Bank(r)' = b
      /\ combEpoch'[r].tiles[b] = combEpoch[r].tiles[b] + NBlocks
      /\ combEpoch'[r].tiles[1 - b] = combEpoch[r].tiles[1 - b]
  BY <1>1, NewCombEpoch, BanksAre DEF Bank
<1>3. ~ Combining(r) /\ Combining(r)' /\ combFlag' = combFlag
      /\ work'[r].tiles = {} /\ work'[r].aligned = FALSE
  <2>1. In(r, {"combine"}, "start") /\ combFlag' = combFlag
    BY DEF BeginCombine
  <2>. QED
    BY <2>1, OfEnter DEF Combining, Enters, WorkIs
<1>4. \A i \in Tiles : Progress(r, i)' = 0
  <2>1. \A i : Blocks(r, i)' = {}
    BY <1>3 DEF Blocks
  <2>. QED
    BY <1>3, <2>1, FS_EmptySet DEF Progress
<1>5. \A c \in Banks, i \in Tiles : combFlag[r][c][i] = combEpoch[r].tiles[c]
                                    /\ combFlag[r][c][i] \in Nat
  <2>1. \A c \in Banks, i \in Tiles : combFlag[r][c][i] \in Nat /\ combEpoch[r].tiles[c] \in Nat
    BY DEF TilesOK, EpochsTyped
  <2>2. \A c \in Banks, i \in Tiles : Level(r, c, i)
    BY TilesParts DEF TilesAll, TilesFine
  <2>. QED
    BY <1>3, <2>1, <2>2 DEF Level
<1>6. \A i \in Tiles : Level(r, b, i)'
  <2>1. ASSUME NEW i \in Tiles
        PROVE  combFlag'[r][b][i] + NBlocks = combEpoch'[r].tiles[b] + 0
    BY <1>2, <1>3, <1>5, Numbers
  <2>. QED
    BY <1>2, <1>3, <1>4, <2>1 DEF Level
<1>7. \A i \in Tiles : Level(r, 1 - b, i)'
  <2>1. b # 1 - b
    BY <1>2, BanksAre
  <2>. QED
    BY <1>2, <1>3, <1>5, <2>1 DEF Level
<1>. QED
  BY <1>2, <1>3, <1>6, <1>7, BanksAre DEF TilesFine

LEMMA TilesOfStore ==
  ASSUME PrologueInv, PrologueInv', EpochsTyped, TilesOK,
         NEW r \in Ranks, NEW i \in Tiles, NEW n \in 1 .. NBlocks, StoreBlock(r, i, n)
  PROVE  TilesOK'
<1>1. PlaceOK /\ PlaceOK' /\ work \in [Ranks -> WorkType]
  BY DEF PrologueInv, EpochsTyped, WorkType
<1>2. Works(r, work[r].sent, work[r].flagged, work[r].tiles, work[r].reduced, work[r].aligned)
  BY <1>1, CombineShapes
<1>3. /\ Frame(r) /\ work'[r].tiles = work[r].tiles /\ work'[r].aligned = work[r].aligned
      /\ pc'[r] = pc[r] /\ UNCHANGED <<program, routing>> /\ \A q \in Ranks : Combining(q)' <=> Combining(q)
  <2>1. /\ Frame(r) /\ work'[r].tiles = work[r].tiles /\ work'[r].aligned = work[r].aligned
        /\ pc'[r] = pc[r] /\ UNCHANGED <<program, routing>>
    BY <1>2 DEF Works, WorkIs, Frame
  <2>2. SameTurns
    BY <1>1, <1>2, OfWork
  <2>. QED
    BY <2>1, <2>2 DEF SameTurns, Combining
<1>5. /\ Combining(r) /\ l2' = [l2 EXCEPT ![r][i][n] = pc[r]]
      /\ combFlag' = combFlag /\ combEpoch' = combEpoch /\ Bank(r)' = Bank(r)
  BY DEF StoreBlock, Combining, Bank
<1>7. /\ L2Typed' /\ l2'[r][i][n] = pc[r]
      /\ \A j \in Tiles, m \in 1 .. NBlocks : j # i \/ m # n => l2'[r][j][m] = l2[r][j][m]
      /\ \A q \in Ranks \ {r} : l2'[q] = l2[q]
  <2>1. l2 = [q \in Ranks |-> [j \in Tiles |-> [m \in 1 .. NBlocks |-> l2[q][j][m]]]]
    BY DEF TilesOK
  <2>2. \A q \in Ranks : l2[q] = [j \in Tiles |-> [m \in 1 .. NBlocks |-> l2[q][j][m]]]
    BY <2>1
  <2>3. \A q \in Ranks, j \in Tiles : l2[q][j] = [m \in 1 .. NBlocks |-> l2[q][j][m]]
    <3>1. ASSUME NEW q \in Ranks, NEW j \in Tiles
          PROVE  l2[q][j] = [m \in 1 .. NBlocks |-> l2[q][j][m]]
      <4>1. l2[q] = [k \in Tiles |-> [m \in 1 .. NBlocks |-> l2[q][k][m]]]
        BY <2>2
      <4>. QED
        BY ONLY <4>1, j \in Tiles
    <3>. QED
      BY <3>1
  <2>. DEFINE new == [l2[r][i] EXCEPT ![n] = pc[r]]
  <2>4. /\ new = [m \in 1 .. NBlocks |-> new[m]] /\ new[n] = pc[r]
        /\ \A m \in (1 .. NBlocks) \ {n} : new[m] = l2[r][i][m]
    BY <2>3
  <2>5. l2' = [l2 EXCEPT ![r][i] = new]
    BY <1>5
  <2>. HIDE DEF new
  <2>6. /\ l2'[r][i] = new
        /\ \A q \in Ranks, j \in Tiles : q # r \/ j # i => l2'[q][j] = l2[q][j]
        /\ \A q \in Ranks : l2'[q] = [j \in Tiles |-> l2'[q][j]]
        /\ l2' = [q \in Ranks |-> l2'[q]]
        /\ \A q \in Ranks \ {r} : l2'[q] = l2[q]
    BY <2>1, <2>2, <2>5
  <2>7. \A q \in Ranks, j \in Tiles : l2'[q][j] = [m \in 1 .. NBlocks |-> l2'[q][j][m]]
    <3>1. ASSUME NEW q \in Ranks, NEW j \in Tiles
          PROVE  l2'[q][j] = [m \in 1 .. NBlocks |-> l2'[q][j][m]]
      <4>1. CASE q = r /\ j = i
        BY <2>4, <2>6, <4>1
      <4>2. CASE ~ (q = r /\ j = i)
        <5>1. l2'[q][j] = l2[q][j]
          BY <2>6, <4>2
        <5>. QED
          BY <2>3, <5>1
      <4>. QED
        BY <4>1, <4>2
    <3>. QED
      BY <3>1
  <2>8. L2Typed'
    BY <2>6, <2>7 DEF L2Typed
  <2>. QED
    BY <2>4, <2>6, <2>8
<1>8. ASSUME NEW q \in Ranks \ {r} PROVE TilesFine(q)'
  <2>1. pc'[q] = pc[q] /\ work'[q] = work[q]
    BY <1>3 DEF Frame, Others
  <2>. QED
    BY <1>3, <1>5, <1>7, <2>1, SameTiles
<1>9. TilesFine(r)'
  <2>1. MyTiles(r)' = MyTiles(r)
    BY <1>3, <1>5, SameHere DEF Combining, In
  <2>2. \A j \in Tiles : Progress(r, j)' = Progress(r, j)
    BY <1>3, <2>1 DEF Progress, Blocks
  <2>3. TilesFine(r)
    BY TilesParts DEF TilesAll
  <2>4. \A c \in Banks, j \in Tiles : Level(r, c, j)'
    BY <1>3, <1>5, <2>2, <2>3 DEF TilesFine, Level
  <2>5. \A j \in Tiles, m \in 1 .. NBlocks : <<j, m>> \in work'[r].tiles => l2'[r][j][m] = pc[r]
    <3>1. \A j \in Tiles, m \in 1 .. NBlocks : <<j, m>> \in work[r].tiles => l2[r][j][m] = pc[r]
      BY <1>5, <2>3 DEF TilesFine
    <3>. QED
      BY <1>3, <1>7, <3>1
  <2>. QED
    BY <1>3, <2>4, <2>5 DEF TilesFine
<1>10. TilesAll'
  <2>1. combFlag' \in [Ranks -> [Banks -> [Tiles -> Nat]]]
    BY <1>5 DEF TilesOK
  <2>. QED
    BY <1>7, <1>8, <1>9, <2>1 DEF TilesAll
<1>. QED
  BY <1>10, TilesParts, PTL

LEMMA TilesOfCount ==
  ASSUME PrologueInv, PrologueInv', EpochsTyped, TilesOK,
         NEW r \in Ranks, NEW i \in Tiles, NEW n \in 1 .. NBlocks, CountBlock(r, i, n)
  PROVE  TilesOK'
<1>1. PlaceOK /\ PlaceOK' /\ work \in [Ranks -> WorkType]
  BY DEF PrologueInv, EpochsTyped, WorkType
<1>2. Works(r, work[r].sent, work[r].flagged, work[r].tiles \cup {<<i, n>>}, work[r].reduced, work[r].aligned)
  BY <1>1, CombineShapes
<1>3. /\ Frame(r) /\ work'[r].tiles = work[r].tiles \cup {<<i, n>>} /\ work'[r].aligned = work[r].aligned
      /\ pc'[r] = pc[r] /\ UNCHANGED <<program, routing>> /\ \A q \in Ranks : Combining(q)' <=> Combining(q)
  <2>1. /\ Frame(r) /\ work'[r].tiles = work[r].tiles \cup {<<i, n>>} /\ work'[r].aligned = work[r].aligned
        /\ pc'[r] = pc[r] /\ UNCHANGED <<program, routing>>
    BY <1>2 DEF Works, WorkIs, Frame
  <2>2. SameTurns
    BY <1>1, <1>2, OfWork
  <2>. QED
    BY <2>1, <2>2 DEF SameTurns, Combining
<1>4. PICK b : b = Bank(r)
  OBVIOUS
<1>5. /\ Combining(r) /\ i \in MyTiles(r) /\ <<i, n>> \notin work[r].tiles
      /\ l2' = l2 /\ l2[r][i][n] = pc[r]
      /\ combFlag' = [combFlag EXCEPT ![r][b][i] = @ + 1]
      /\ combEpoch' = combEpoch /\ b \in Banks /\ Bank(r)' = b
  BY <1>4 DEF CountBlock, Combining, Bank, EpochsTyped
<1>6. /\ combFlag' \in [Ranks -> [Banks -> [Tiles -> Nat]]]
      /\ combFlag'[r][b][i] = combFlag[r][b][i] + 1
      /\ \A q \in Ranks, c \in Banks, j \in Tiles :
           q # r \/ c # b \/ j # i => combFlag'[q][c][j] = combFlag[q][c][j]
      /\ \A q \in Ranks \ {r} : combFlag'[q] = combFlag[q]
  <2>1. combFlag \in [Ranks -> [Banks -> [Tiles -> Nat]]]
    BY DEF TilesOK
  <2>. QED
    BY <1>5, <2>1
<1>8. ASSUME NEW q \in Ranks \ {r} PROVE TilesFine(q)'
  <2>1. pc'[q] = pc[q] /\ work'[q] = work[q]
    BY <1>3 DEF Frame, Others
  <2>. QED
    BY <1>3, <1>5, <1>6, <2>1, SameTiles
<1>9. TilesFine(r)'
  <2>1. MyTiles(r)' = MyTiles(r)
    BY <1>3, <1>5, SameHere DEF Combining, In
  <2>2. /\ Blocks(r, i)' = Blocks(r, i) \cup {n} /\ n \notin Blocks(r, i)
        /\ \A j \in Tiles \ {i} : Blocks(r, j)' = Blocks(r, j)
    BY <1>3, <1>5 DEF Blocks
  <2>3. /\ Progress(r, i)' = Progress(r, i) + 1 /\ Progress(r, i) \in Nat
        /\ \A j \in Tiles \ {i} : Progress(r, j)' = Progress(r, j)
    <3>1. Cardinality(Blocks(r, i))' = Cardinality(Blocks(r, i)) + 1
      BY <2>2, BlocksFinite, FS_AddElement
    <3>. QED
      BY <1>3, <1>5, <2>1, <2>2, <3>1, BlocksFinite DEF Progress
  <2>4. TilesFine(r)
    BY TilesParts DEF TilesAll
  <2>5. \A c \in Banks, j \in Tiles : combFlag[r][c][j] \in Nat /\ combEpoch[r].tiles[c] \in Nat
    BY DEF TilesOK, EpochsTyped
  <2>6. combFlag[r][b][i] + NBlocks = combEpoch[r].tiles[b] + Progress(r, i)
    BY <1>4, <1>5, <2>4 DEF TilesFine, Level
  <2>7. combFlag'[r][b][i] + NBlocks = combEpoch'[r].tiles[b] + Progress(r, i)'
    <3>1. ASSUME NEW x \in Nat, NEW y \in Nat, NEW z \in Nat, NEW w \in Nat, x + w = y + z
          PROVE  (x + 1) + w = y + (z + 1)
      BY <3>1
    <3>2. combFlag'[r][b][i] = combFlag[r][b][i] + 1 /\ combEpoch'[r].tiles[b] = combEpoch[r].tiles[b]
      BY <1>5, <1>6
    <3>3. combFlag[r][b][i] \in Nat /\ combEpoch[r].tiles[b] \in Nat /\ NBlocks \in Nat
      BY <1>5, <2>5, Numbers
    <3>. QED
      BY <2>3, <2>6, <3>1, <3>2, <3>3
  <2>8. Level(r, b, i)'
    BY <1>3, <1>5, <2>7 DEF Level
  <2>9. ASSUME NEW c \in Banks, NEW j \in Tiles, c # b \/ j # i PROVE Level(r, c, j)'
    <3>1. Level(r, c, j) /\ combFlag'[r][c][j] = combFlag[r][c][j]
      BY <1>6, <2>4, <2>9 DEF TilesFine
    <3>2. CASE c = b
      <4>1. Progress(r, j)' = Progress(r, j)
        BY <2>3, <2>9, <3>2
      <4>. QED
        BY <1>3, <1>4, <1>5, <3>1, <3>2, <4>1 DEF Level
    <3>3. CASE c # b
      BY <1>3, <1>4, <1>5, <3>1, <3>3 DEF Level
    <3>. QED
      BY <3>2, <3>3
  <2>10. \A j \in Tiles, m \in 1 .. NBlocks : <<j, m>> \in work'[r].tiles => l2'[r][j][m] = pc[r]
    <3>1. \A j \in Tiles, m \in 1 .. NBlocks : <<j, m>> \in work[r].tiles => l2[r][j][m] = pc[r]
      BY <1>5, <2>4 DEF TilesFine
    <3>. QED
      BY <1>3, <1>5, <3>1
  <2>. QED
    BY <1>3, <2>8, <2>9, <2>10 DEF TilesFine
<1>10. TilesAll'
  <2>1. L2Typed'
    BY <1>5 DEF TilesOK, L2Typed
  <2>. QED
    BY <1>6, <1>8, <1>9, <2>1 DEF TilesAll
<1>. QED
  BY <1>10, TilesParts, PTL

\* A rank's tiles are its own.
LEMMA TilesOfOthers ==
  ASSUME PrologueInv, PrologueInv', UNCHANGED <<program, routing>>, EpochsTyped, TilesOK,
         NEW r \in Ranks, Frame(r), NEW q \in Ranks \ {r},
         combFlag'[q] = combFlag[q], combEpoch'[q] = combEpoch[q], l2'[q] = l2[q]
  PROVE  TilesFine(q)'
<1>1. pc'[q] = pc[q] /\ stage'[q] = stage[q] /\ work'[q] = work[q]
  BY DEF Frame, Others
<1>2. Combining(q)' <=> Combining(q)
  BY <1>1 DEF Combining, In, Running
<1>. QED
  BY <1>1, <1>2, SameTiles

LEMMA TilesOfAlign ==
  ASSUME PrologueInv, PrologueInv', EpochsTyped, TilesOK, NEW r \in Ranks, AlignEmptyTiles(r)
  PROVE  TilesOK'
<1>1. PlaceOK /\ PlaceOK' /\ work \in [Ranks -> WorkType]
  BY DEF PrologueInv, EpochsTyped, WorkType
<1>2. Works(r, work[r].sent, work[r].flagged, work[r].tiles, work[r].reduced, TRUE)
  BY <1>1, CombineShapes
<1>3. /\ Frame(r) /\ work'[r].tiles = work[r].tiles /\ work'[r].aligned
      /\ pc'[r] = pc[r] /\ UNCHANGED <<program, routing>> /\ \A q \in Ranks : Combining(q)' <=> Combining(q)
  <2>1. /\ Frame(r) /\ work'[r].tiles = work[r].tiles /\ work'[r].aligned
        /\ pc'[r] = pc[r] /\ UNCHANGED <<program, routing>>
    BY <1>2 DEF Works, WorkIs, Frame
  <2>2. SameTurns
    BY <1>1, <1>2, OfWork
  <2>. QED
    BY <2>1, <2>2 DEF SameTurns, Combining
<1>4. PICK b : b = Bank(r)
  OBVIOUS
<1>5. /\ Combining(r) /\ ~ work[r].aligned
      /\ combFlag' = [combFlag EXCEPT ![r][b] =
           [i \in Tiles |-> IF i \in EmptyTiles(r) THEN @[i] + NBlocks ELSE @[i]]]
      /\ combEpoch' = combEpoch /\ b \in Banks /\ Bank(r)' = b /\ l2' = l2
  BY <1>4 DEF AlignEmptyTiles, Combining, Bank, EpochsTyped
<1>6. /\ combFlag' \in [Ranks -> [Banks -> [Tiles -> Nat]]]
      /\ \A i \in Tiles : combFlag'[r][b][i] =
           IF i \in MyTiles(r) THEN combFlag[r][b][i] ELSE combFlag[r][b][i] + NBlocks
      /\ \A q \in Ranks, c \in Banks, j \in Tiles :
           q # r \/ c # b => combFlag'[q][c][j] = combFlag[q][c][j]
      /\ \A q \in Ranks \ {r} : combFlag'[q] = combFlag[q]
  <2>1. combFlag \in [Ranks -> [Banks -> [Tiles -> Nat]]] /\ NBlocks \in Nat
    BY Numbers DEF TilesOK
  <2>. DEFINE new == [i \in Tiles |-> IF i \in EmptyTiles(r) THEN combFlag[r][b][i] + NBlocks ELSE combFlag[r][b][i]]
  <2>2. new \in [Tiles -> Nat]
    BY <1>5, <2>1
  <2>3. \A i \in Tiles : new[i] = IF i \in MyTiles(r) THEN combFlag[r][b][i] ELSE combFlag[r][b][i] + NBlocks
    BY DEF EmptyTiles
  <2>4. combFlag' = [combFlag EXCEPT ![r][b] = new]
    BY <1>5
  <2>. HIDE DEF new
  <2>. QED
    BY <1>5, <2>1, <2>2, <2>3, <2>4
<1>7. ASSUME NEW q \in Ranks \ {r} PROVE TilesFine(q)'
  BY <1>3, <1>5, <1>6, TilesOfOthers
<1>8. TilesFine(r)'
  <2>1. MyTiles(r)' = MyTiles(r)
    BY <1>3, <1>5, SameHere DEF Combining, In
  <2>2. \A i \in Tiles : Blocks(r, i)' = Blocks(r, i)
    BY <1>3 DEF Blocks
  <2>3. \A i \in Tiles : Progress(r, i)' = IF i \in MyTiles(r) THEN Progress(r, i) ELSE NBlocks
    BY <1>3, <2>1, <2>2 DEF Progress
  <2>4. \A i \in Tiles \ MyTiles(r) : Progress(r, i) = 0
    BY <1>5 DEF Progress
  <2>5. TilesFine(r)
    BY TilesParts DEF TilesAll
  <2>6. \A c \in Banks, j \in Tiles : combFlag[r][c][j] \in Nat /\ combEpoch[r].tiles[c] \in Nat
    BY DEF TilesOK, EpochsTyped
  <2>7. ASSUME NEW i \in Tiles PROVE Level(r, b, i)'
    <3>1. combFlag[r][b][i] + NBlocks = combEpoch[r].tiles[b] + Progress(r, i)
      BY <1>4, <1>5, <2>5 DEF TilesFine, Level
    <3>2. combFlag'[r][b][i] + NBlocks = combEpoch'[r].tiles[b] + Progress(r, i)'
      <4>1. CASE i \in MyTiles(r)
        BY <1>5, <1>6, <2>3, <3>1, <4>1
      <4>2. CASE i \notin MyTiles(r)
        <5>1. combFlag'[r][b][i] = combFlag[r][b][i] + NBlocks /\ Progress(r, i)' = NBlocks /\ Progress(r, i) = 0
          BY <1>6, <2>3, <2>4, <4>2
        <5>2. combFlag[r][b][i] \in Nat /\ combEpoch[r].tiles[b] \in Nat /\ NBlocks \in Nat
          BY <1>5, <2>6, Numbers
        <5>3. ASSUME NEW x \in Nat, NEW y \in Nat, NEW w \in Nat, x + w = y + 0
              PROVE  (x + w) + w = y + w
          BY <5>3
        <5>. QED
          BY <1>5, <3>1, <5>1, <5>2, <5>3
      <4>. QED
        BY <4>1, <4>2
    <3>. QED
      BY <1>3, <1>5, <3>2 DEF Level
  <2>8. ASSUME NEW c \in Banks, NEW j \in Tiles, c # b PROVE Level(r, c, j)'
    <3>1. Level(r, c, j) /\ combFlag'[r][c][j] = combFlag[r][c][j]
      BY <1>6, <2>5, <2>8 DEF TilesFine
    <3>. QED
      BY <1>3, <1>4, <1>5, <2>8, <3>1 DEF Level
  <2>9. \A j \in Tiles, m \in 1 .. NBlocks : <<j, m>> \in work'[r].tiles => l2'[r][j][m] = pc'[r]
    BY <1>3, <1>5, <2>5 DEF TilesFine
  <2>. QED
    BY <2>7, <2>8, <2>9 DEF TilesFine
<1>9. L2Typed'
  <2>1. L2Typed
    BY TilesParts DEF TilesAll
  <2>. QED
    BY <1>5, <2>1 DEF L2Typed
<1>10. TilesAll'
  BY <1>6, <1>7, <1>8, <1>9 DEF TilesAll
<1>. QED
  BY <1>10, TilesParts, PTL

LEMMA TilesOfEnd ==
  ASSUME PlaceOK, PlaceOK', EpochsTyped, TilesOK, NEW r \in Ranks, EndCombine(r), Leaves(r)
  PROVE  TilesFine(r)'
<1>1. /\ Combining(r) /\ ~ Combining(r)'
      /\ work[r].tiles = MyTiles(r) \X (1 .. NBlocks)
      /\ EmptyTiles(r) # {} => work[r].aligned
      /\ combFlag' = combFlag /\ combEpoch' = combEpoch
  BY OfLeave DEF EndCombine, Combining, localVars
<1>2. TilesFine(r)
  BY TilesParts DEF TilesAll
<1>3. ASSUME NEW i \in Tiles PROVE Progress(r, i) = NBlocks
  <2>1. CASE i \in MyTiles(r)
    <3>1. Blocks(r, i) = 1 .. NBlocks
      BY <1>1, <2>1 DEF Blocks
    <3>. QED
      BY <2>1, <3>1, BlocksFinite DEF Progress
  <2>2. CASE i \notin MyTiles(r)
    BY <1>1, <2>2 DEF Progress, EmptyTiles
  <2>. QED
    BY <2>1, <2>2
<1>4. \A c \in Banks, j \in Tiles : combFlag[r][c][j] \in Nat /\ combEpoch[r].tiles[c] \in Nat
  BY DEF TilesOK, EpochsTyped
<1>5. ASSUME NEW c \in Banks, NEW i \in Tiles PROVE Level(r, c, i)'
  <2>1. Level(r, c, i) /\ NBlocks \in Nat
    BY <1>2, Numbers DEF TilesFine
  <2>2. combFlag[r][c][i] = combEpoch[r].tiles[c]
    <3>1. CASE c = Bank(r)
      <4>1. combFlag[r][c][i] + NBlocks = combEpoch[r].tiles[c] + NBlocks
        BY <1>1, <1>3, <2>1, <3>1 DEF Level
      <4>. QED
        BY <1>4, <2>1, <4>1
    <3>2. CASE c # Bank(r)
      <4>1. combFlag[r][c][i] + 0 = combEpoch[r].tiles[c] + 0
        BY <2>1, <3>2 DEF Level
      <4>. QED
        BY <1>4, <4>1
    <3>. QED
      BY <3>1, <3>2
  <2>. QED
    BY <1>1, <2>2 DEF Level
<1>. QED
  BY <1>1, <1>5 DEF TilesFine

LEMMA TilesKept ==
  ASSUME PrologueInv, PrologueInv', EpochsTyped, TilesOK, NEW r \in Ranks, RankStep(r)
  PROVE  TilesOK'
<1>1. PlaceOK /\ PlaceOK' /\ work \in [Ranks -> WorkType]
  BY DEF PrologueInv, EpochsTyped, WorkType
<1>2. UNCHANGED <<program, routing>>
  BY <1>1, EpochSteps
<1>3. ASSUME combFlag' = combFlag, l2' = l2, Frame(r), TilesFine(r)',
             \A q \in Ranks \ {r} : combEpoch'[q] = combEpoch[q]
      PROVE  TilesOK'
  <2>1. ASSUME NEW q \in Ranks \ {r} PROVE TilesFine(q)'
    BY <1>2, <1>3, TilesOfOthers
  <2>2. combFlag' \in [Ranks -> [Banks -> [Tiles -> Nat]]] /\ L2Typed'
    BY <1>3, TilesParts DEF TilesAll, L2Typed
  <2>3. TilesAll'
    BY <1>3, <2>1, <2>2 DEF TilesAll
  <2>. QED
    BY <2>3, TilesParts, PTL
<1>4. ASSUME combFlag' = combFlag, l2' = l2, combEpoch' = combEpoch, Frame(r),
             \/ ~ Combining(r) /\ ~ Combining(r)'
             \/ /\ pc'[r] = pc[r] /\ Combining(r) /\ Combining(r)'
                /\ work'[r].tiles = work[r].tiles /\ work'[r].aligned = work[r].aligned
      PROVE  TilesOK'
  <2>1. TilesFine(r)'
    BY <1>2, <1>4, SameTiles
  <2>. QED
    BY <1>3, <1>4, <2>1
<1>5. CASE Walks(r) /\ Untouched
  <2>1. ~ Combining(r) /\ ~ Combining(r)'
    BY <1>5 DEF Walks, Combining, In
  <2>. QED
    BY <1>4, <1>5, <2>1 DEF Walks, Untouched
<1>6. CASE BeginDispatch(r) /\ Enters(r)
  <2>1. combFlag' = combFlag /\ l2' = l2 /\ combEpoch' = combEpoch /\ Frame(r)
    BY <1>6 DEF BeginDispatch, Enters
  <2>2. ~ Combining(r) /\ ~ Combining(r)'
    BY <1>1, <1>2, <1>6 DEF BeginDispatch, Enters, Combining, In, Dispatches
  <2>. QED
    BY <1>4, <2>1, <2>2
<1>7. CASE DispatchWork(r)
  <2>1. /\ In(r, Dispatches, "run") /\ combFlag' = combFlag /\ l2' = l2 /\ combEpoch' = combEpoch
        /\ \E s, f, t, d, a : Works(r, s, f, t, d, a)
    BY <1>1, <1>7, WorkIsWork
  <2>2. Frame(r) /\ pc'[r] = pc[r]
    BY <2>1 DEF Works
  <2>3. ~ Combining(r) /\ ~ Combining(r)'
    BY <1>2, <2>1, <2>2 DEF Combining, In, Dispatches
  <2>. QED
    BY <1>4, <2>1, <2>2, <2>3
<1>8. CASE EndDispatch(r) /\ Leaves(r)
  <2>1. combFlag' = combFlag /\ l2' = l2 /\ combEpoch' = combEpoch /\ Frame(r)
    BY <1>8 DEF EndDispatch, Leaves, localVars
  <2>2. ~ Combining(r) /\ ~ Combining(r)'
    BY <1>8 DEF EndDispatch, Leaves, Combining, In, Dispatches
  <2>. QED
    BY <1>4, <2>1, <2>2
<1>9. CASE BeginCombine(r) /\ Enters(r)
  <2>1. combFlag' = combFlag /\ l2' = l2 /\ Frame(r)
    BY <1>9 DEF BeginCombine, Enters
  <2>2. PICK b : b = 1 - combEpoch[r].parity
    OBVIOUS
  <2>3. \A q \in Ranks \ {r} : combEpoch'[q] = combEpoch[q]
    BY <1>9, <2>2, NewCombEpoch
  <2>. QED
    BY <1>1, <1>3, <1>9, <2>1, <2>3, TilesOfBegin
<1>10. CASE CombineWork(r)
  <2>1. ASSUME combFlag' = combFlag, l2' = l2, combEpoch' = combEpoch, In(r, {"combine"}, "run"),
               NEW s, NEW f, NEW d, Works(r, s, f, work[r].tiles, d, work[r].aligned)
        PROVE  TilesOK'
    <3>1. /\ Frame(r) /\ pc'[r] = pc[r] /\ stage'[r] = "run"
          /\ work'[r].tiles = work[r].tiles /\ work'[r].aligned = work[r].aligned
      BY <2>1 DEF Works, WorkIs
    <3>2. Combining(r) /\ Combining(r)'
      BY <1>2, <2>1, <3>1 DEF Combining, In, Running
    <3>. QED
      BY <1>4, <2>1, <3>1, <3>2
  <2>2. ASSUME NEW seg \in Experts \X Ranks, PushSegment(r, seg) PROVE TilesOK'
    <3>1. Works(r, work[r].sent \cup {seg}, work[r].flagged, work[r].tiles, work[r].reduced, work[r].aligned)
      BY <1>1, <2>2, CombineShapes
    <3>. QED
      BY <2>1, <2>2, <3>1 DEF PushSegment, localVars
  <2>3. ASSUME NEW seg \in Experts \X Ranks, SignalSegment(r, seg) PROVE TilesOK'
    <3>1. Works(r, work[r].sent, work[r].flagged \cup {seg}, work[r].tiles, work[r].reduced, work[r].aligned)
      BY <1>1, <2>3, CombineShapes
    <3>. QED
      BY <2>1, <2>3, <3>1 DEF SignalSegment, localVars
  <2>4. ASSUME NEW t \in Tokens, ReduceToken(r, t) PROVE TilesOK'
    <3>1. Works(r, work[r].sent, work[r].flagged, work[r].tiles, work[r].reduced \cup {t}, work[r].aligned)
      BY <1>1, <2>4, CombineShapes
    <3>. QED
      BY <2>1, <2>4, <3>1 DEF ReduceToken, localVars
  <2>. QED
    BY <1>10, <2>2, <2>3, <2>4, TilesOfStore, TilesOfCount, TilesOfAlign DEF CombineWork
<1>11. CASE EndCombine(r) /\ Leaves(r)
  <2>1. combFlag' = combFlag /\ l2' = l2 /\ combEpoch' = combEpoch /\ Frame(r)
    BY <1>11 DEF EndCombine, Leaves, localVars
  <2>. QED
    BY <1>1, <1>3, <1>11, <2>1, TilesOfEnd
<1>. QED
  BY <1>1, <1>5, <1>6, <1>7, <1>8, <1>9, <1>10, <1>11, StepIs

-----------------------------------------------------------------------------
(***************************************************************************)
(* The rows in the pools and in the combine buffers.                       *)
(***************************************************************************)

LEMMA ToOwner ==
  ASSUME NEW r \in Ranks, NEW e \in Local(r)
  PROVE  e \in Experts /\ Owner(e) = r
BY DEF Local

\* What a task of a dispatch does to the pools.
LEMMA RowsPushed ==
  ASSUME PrologueInv, RowsTyped, NEW r \in Ranks, NEW e \in Experts, PushTask(r, e)
  PROVE  /\ pool' = [q \in Ranks |-> [row \in PoolRows |-> pool'[q][row]]]
         /\ \A q \in Ranks \ {Owner(e)} : pool'[q] = pool[q]
         /\ \A row \in PoolRows : pool'[Owner(e)][row] =
              IF row \in Segment(RoutingAt(pc[r]), r, e)
              THEN PushedRow(r, pc[r], e, row) ELSE pool[Owner(e)][row]
         /\ \A row \in Segment(RoutingAt(pc[r]), r, e) :
              PushedRow(r, pc[r], e, row) \in (1 .. Len(program)) \X Ranks \X Tokens
<1>1. Running(r) /\ program[pc[r]].kind # "prologue"
  BY DEF PushTask, In, Dispatches
<1>2. PICK R : R = RoutingAt(pc[r])
  OBVIOUS
<1>3. /\ pc[r] \in 1 .. Len(program) /\ Layer(r) = program[pc[r]].layer
      /\ R = routing[Layer(r)] /\ Matrix(R) \in Matrices
      /\ HasTables(H(r), R, r) /\ TokensOK(R, r, H(r).token) /\ H(r) = handle[r][Layer(r)]
  BY <1>1, <1>2, WorkHere DEF H
<1>4. /\ H(r).sendRow[e] = SegmentStart(Matrix(R), r, e)
      /\ H(r).sendCount[e] = Matrix(R)[r][e]
      /\ H(r).offset[e] = SourceOffset(Matrix(R), r, e)
  <2>1. PICK h : h = H(r)
    OBVIOUS
  <2>2. HasTables(h, R, r)
    BY <1>3, <2>1
  <2>3. /\ h.sendRow[e] = SegmentStart(Matrix(R), r, e)
        /\ h.offset[e] = SourceOffset(Matrix(R), r, e)
        /\ h.sendCount = Matrix(R)[r]
    BY <2>2, TablesAre
  <2>. QED
    BY <2>1, <2>3
<1>5. Rows(H(r).sendRow[e], H(r).sendCount[e]) = Segment(R, r, e)
  BY <1>4 DEF Segment
<1>6. /\ SegmentStart(Matrix(R), r, e) \in Nat /\ Matrix(R)[r][e] \in Nat
      /\ SourceOffset(Matrix(R), r, e) \in Nat
  BY <1>3, SegmentIs, OffsetsApart
<1>. DEFINE S == Segment(R, r, e)
            new == [row \in PoolRows |->
                      IF row \in S THEN PushedRow(r, pc[r], e, row) ELSE pool[Owner(e)][row]]
<1>7. ASSUME NEW row \in S
      PROVE  /\ <<pc[r], r, H(r).token[H(r).offset[e] + row - H(r).sendRow[e]]>> = PushedRow(r, pc[r], e, row)
             /\ PushedRow(r, pc[r], e, row) \in (1 .. Len(program)) \X Ranks \X Tokens
  <2>1. /\ row \in Int /\ row - SegmentStart(Matrix(R), r, e) \in 0 .. Matrix(R)[r][e] - 1
        /\ SourceOffset(Matrix(R), r, e) + row - SegmentStart(Matrix(R), r, e)
             = SourceOffset(Matrix(R), r, e) + (row - SegmentStart(Matrix(R), r, e))
    BY <1>6 DEF Segment, Rows
  <2>2. H(r).token[SourceOffset(Matrix(R), r, e) + (row - SegmentStart(Matrix(R), r, e))] \in Tokens
    BY <1>3, <2>1 DEF TokensOK
  <2>3. PushedRow(r, pc[r], e, row)
          = <<pc[r], r, H(r).token[SourceOffset(Matrix(R), r, e) + (row - SegmentStart(Matrix(R), r, e))]>>
    BY <1>3 DEF PushedRow
  <2>4. <<pc[r], r, H(r).token[H(r).offset[e] + row - H(r).sendRow[e]]>> = PushedRow(r, pc[r], e, row)
    BY <1>4, <2>1, <2>3
  <2>5. PushedRow(r, pc[r], e, row) \in (1 .. Len(program)) \X Ranks \X Tokens
    <3>1. \A a \in 1 .. Len(program), t \in Tokens : <<a, r, t>> \in (1 .. Len(program)) \X Ranks \X Tokens
      OBVIOUS
    <3>2. pc[r] \in 1 .. Len(program)
      BY <1>3
    <3>. QED
      BY <2>2, <2>3, <3>1, <3>2
  <2>. QED
    BY <2>4, <2>5
<1>8. pool' = [pool EXCEPT ![Owner(e)] = new]
  <2>1. pool' = [pool EXCEPT ![Owner(e)] = [row \in PoolRows |->
                   IF row \in Rows(H(r).sendRow[e], H(r).sendCount[e])
                   THEN <<pc[r], r, H(r).token[H(r).offset[e] + row - H(r).sendRow[e]]>>
                   ELSE pool[Owner(e)][row]]]
    BY DEF PushTask
  <2>2. [row \in PoolRows |->
                   IF row \in Rows(H(r).sendRow[e], H(r).sendCount[e])
                   THEN <<pc[r], r, H(r).token[H(r).offset[e] + row - H(r).sendRow[e]]>>
                   ELSE pool[Owner(e)][row]] = new
    BY <1>5, <1>7
  <2>. QED
    BY <2>1, <2>2
<1>9. /\ new = [row \in PoolRows |-> new[row]]
      /\ \A row \in PoolRows : new[row] = IF row \in S THEN PushedRow(r, pc[r], e, row) ELSE pool[Owner(e)][row]
  OBVIOUS
<1>10. pool = [q \in Ranks |-> [row \in PoolRows |-> pool[q][row]]] /\ Owner(e) \in Ranks
  BY OwnerIs DEF RowsTyped
<1>11. \A q \in Ranks : pool[q] = [row \in PoolRows |-> pool[q][row]]
  BY <1>10
<1>. HIDE DEF new
<1>12. /\ pool' = [q \in Ranks |-> pool'[q]] /\ pool'[Owner(e)] = new
       /\ \A q \in Ranks \ {Owner(e)} : pool'[q] = pool[q]
  BY <1>8, <1>10
<1>13. \A q \in Ranks : pool'[q] = [row \in PoolRows |-> pool'[q][row]]
  BY <1>9, <1>11, <1>12
<1>. QED
  BY <1>2, <1>7, <1>9, <1>12, <1>13

\* The rows a combine sends home are all of its own GEMM.
LEMMA RowsComputed ==
  ASSUME PrologueInv, EpochsTyped, TilesOK, NEW r \in Ranks, In(r, {"combine"}, "run"),
         NEW seg \in Local(r) \X Ranks, GatedOnTiles(r, seg)
  PROVE  \A row \in RowsOfSegment(r, seg) : L2Call(r, row) = pc[r]
<1>. SUFFICES ASSUME NEW row \in RowsOfSegment(r, seg) PROVE L2Call(r, row) = pc[r]
  OBVIOUS
<1>1. Running(r) /\ program[pc[r]].kind # "prologue" /\ Combining(r)
  BY DEF In, Combining
<1>2. PICK R : R = RoutingAt(pc[r])
  OBVIOUS
<1>3. /\ Matrix(R) \in Matrices /\ MyTiles(r) = 0 .. RealTiles(Matrix(R), r) - 1 /\ MyTiles(r) \subseteq Tiles
      /\ RowsOfSegment(r, seg) = Segment(R, seg[2], seg[1])
  BY <1>1, <1>2, WorkHere
<1>4. PICK i : i = row \div BlockM
  OBVIOUS
<1>5. i \in MyTiles(r) /\ i \in Tiles
  <2>1. seg[1] \in Local(r) /\ seg[2] \in Ranks /\ row \in Rows(SegmentStart(Matrix(R), seg[2], seg[1]), Matrix(R)[seg[2]][seg[1]])
    BY <1>3 DEF Segment
  <2>2. /\ row \in Nat /\ PoolBase(Matrix(R), seg[1]) <= row
        /\ row < PoolBase(Matrix(R), seg[1]) + PaddedTotals(Matrix(R))[seg[1]]
    BY <1>3, <2>1, RowsOfSegments
  <2>3. i \in 0 .. RealTiles(Matrix(R), r) - 1
    BY <1>3, <1>4, <2>1, <2>2, TileOfRow
  <2>. QED
    BY <1>3, <2>3
<1>6. combFlag[r][Bank(r)][i] = combEpoch[r].tiles[Bank(r)]
  BY <1>4 DEF GatedOnTiles, TilesOf, TileDone
<1>7. Bank(r) \in Banks /\ combEpoch[r].tiles[Bank(r)] \in Nat /\ NBlocks \in Nat
  <2>1. combEpoch[r] \in [parity : Banks, tiles : [Banks -> Nat], rows : [Banks -> Nat]]
    BY DEF EpochsTyped
  <2>. QED
    BY <2>1, Numbers DEF Bank
<1>8. TilesFine(r)
  BY TilesParts DEF TilesAll
<1>9. Progress(r, i) = NBlocks
  <2>1. Progress(r, i) \in Nat
    BY <1>5, BlocksFinite DEF Progress
  <2>2. combFlag[r][Bank(r)][i] + NBlocks = combEpoch[r].tiles[Bank(r)] + Progress(r, i)
    BY <1>1, <1>5, <1>7, <1>8 DEF TilesFine, Level
  <2>. QED
    BY <1>6, <1>7, <2>1, <2>2
<1>10. Blocks(r, i) = 1 .. NBlocks
  <2>1. Cardinality(Blocks(r, i)) = Cardinality(1 .. NBlocks)
    BY <1>5, <1>9, BlocksFinite DEF Progress
  <2>2. Blocks(r, i) \subseteq 1 .. NBlocks
    BY DEF Blocks
  <2>. QED
    BY <2>1, <2>2, BlocksFinite, FS_Subset
<1>11. \A n \in 1 .. NBlocks : l2[r][i][n] = pc[r]
  <2>1. \A n \in 1 .. NBlocks : <<i, n>> \in work[r].tiles
    BY <1>10 DEF Blocks
  <2>. QED
    BY <1>1, <1>5, <1>8, <2>1 DEF TilesFine
<1>12. 1 \in 1 .. NBlocks
  BY Numbers
<1>. QED
  BY <1>4, <1>11, <1>12 DEF L2Call

\* What a combine block does to the combine buffers.
LEMMA RowsReturned ==
  ASSUME PrologueInv, EpochsTyped, WorkOK, TilesOK, RowsTyped,
         NEW r \in Ranks, NEW seg \in Experts \X Ranks, PushSegment(r, seg)
  PROVE  /\ seg \in Segments(r) /\ seg \in Local(r) \X Ranks
         /\ comb' = [q \in Ranks |-> [s \in Slots |-> comb'[q][s]]]
         /\ \A q \in Ranks \ {seg[2]} : comb'[q] = comb[q]
         /\ \A s \in Slots : comb'[seg[2]][s] =
              IF \E row \in RowsOfSegment(r, seg) : SlotOf(r, row) = s
              THEN <<pc[r], seg[1]>> ELSE comb[seg[2]][s]
<1>1. /\ In(r, {"combine"}, "run") /\ seg \in Segments(r) /\ GatedOnTiles(r, seg)
      /\ comb' = [comb EXCEPT ![seg[2]] = [s \in Slots |->
           LET rows == {row \in RowsOfSegment(r, seg) : SlotOf(r, row) = s}
           IN  IF rows = {} THEN comb[seg[2]][s]
                            ELSE <<L2Call(r, CHOOSE row \in rows : TRUE), seg[1]>>]]
  BY DEF PushSegment
<1>2. seg \in Local(r) \X Ranks
  BY <1>1 DEF Segments
<1>3. \A row \in RowsOfSegment(r, seg) : L2Call(r, row) = pc[r]
  BY <1>1, <1>2, RowsComputed
<1>. DEFINE new == [s \in Slots |->
                      IF \E row \in RowsOfSegment(r, seg) : SlotOf(r, row) = s
                      THEN <<pc[r], seg[1]>> ELSE comb[seg[2]][s]]
<1>4. comb' = [comb EXCEPT ![seg[2]] = new]
  <2>1. ASSUME NEW s \in Slots
        PROVE  LET rows == {row \in RowsOfSegment(r, seg) : SlotOf(r, row) = s}
               IN  (IF rows = {} THEN comb[seg[2]][s]
                                ELSE <<L2Call(r, CHOOSE row \in rows : TRUE), seg[1]>>) = new[s]
    <3>. DEFINE rows == {row \in RowsOfSegment(r, seg) : SlotOf(r, row) = s}
    <3>1. CASE rows = {}
      BY <3>1
    <3>2. CASE rows # {}
      <4>1. (CHOOSE row \in rows : TRUE) \in rows
        BY <3>2
      <4>2. L2Call(r, CHOOSE row \in rows : TRUE) = pc[r]
        BY <1>3, <4>1
      <4>3. \E row \in RowsOfSegment(r, seg) : SlotOf(r, row) = s
        BY <3>2
      <4>. QED
        BY <3>2, <4>2, <4>3
    <3>. QED
      BY <3>1, <3>2
  <2>. QED
    BY <1>1, <2>1
<1>5. /\ new = [s \in Slots |-> new[s]]
      /\ \A s \in Slots : new[s] = IF \E row \in RowsOfSegment(r, seg) : SlotOf(r, row) = s
                                   THEN <<pc[r], seg[1]>> ELSE comb[seg[2]][s]
  OBVIOUS
<1>. HIDE DEF new
<1>6. comb = [q \in Ranks |-> [s \in Slots |-> comb[q][s]]] /\ seg[2] \in Ranks
  BY <1>2 DEF RowsTyped
<1>7. \A q \in Ranks : comb[q] = [s \in Slots |-> comb[q][s]]
  BY <1>6
<1>8. /\ comb' = [q \in Ranks |-> comb'[q]] /\ comb'[seg[2]] = new
      /\ \A q \in Ranks \ {seg[2]} : comb'[q] = comb[q]
  BY <1>4, <1>6
<1>9. \A q \in Ranks : comb'[q] = [s \in Slots |-> comb'[q][s]]
  BY <1>5, <1>7, <1>8
<1>. QED
  BY <1>1, <1>2, <1>5, <1>8, <1>9

LEMMA RowsKept ==
  ASSUME PrologueInv, PrologueInv', EpochsTyped, WorkOK, TilesOK, RowsTyped, NEW r \in Ranks, RankStep(r)
  PROVE  RowsTyped'
<1>. DEFINE PoolOf == /\ pool = [q \in Ranks |-> [row \in PoolRows |-> pool[q][row]]]
                      /\ \A q \in Ranks : \A row \in PoolRows :
                           pool[q][row] \in {NoRow} \cup ((1 .. Len(program)) \X Ranks \X Tokens)
            CombOf == /\ comb = [q \in Ranks |-> [s \in Slots |-> comb[q][s]]]
                      /\ \A q \in Ranks : \A s \in Slots :
                           comb[q][s] \in {NoRow} \cup ((1 .. Len(program)) \X Experts)
<1>1. PlaceOK /\ PlaceOK'
  BY DEF PrologueInv
<1>2. UNCHANGED program
  BY <1>1, EpochSteps
<1>3. PoolOf'
  <2>1. ASSUME NEW e \in Experts, PushTask(r, e) PROVE PoolOf'
    <3>1. PICK S : S = Segment(RoutingAt(pc[r]), r, e)
      OBVIOUS
    <3>2. /\ pool' = [q \in Ranks |-> [row \in PoolRows |-> pool'[q][row]]]
          /\ \A q \in Ranks \ {Owner(e)} : pool'[q] = pool[q]
          /\ \A row \in PoolRows : pool'[Owner(e)][row] =
               IF row \in S THEN PushedRow(r, pc[r], e, row) ELSE pool[Owner(e)][row]
          /\ \A row \in S : PushedRow(r, pc[r], e, row) \in (1 .. Len(program)) \X Ranks \X Tokens
      BY <2>1, <3>1, RowsPushed
    <3>3. ASSUME NEW q \in Ranks, NEW row \in PoolRows
          PROVE  pool'[q][row] \in {NoRow} \cup ((1 .. Len(program)) \X Ranks \X Tokens)
      <4>1. pool[q][row] \in {NoRow} \cup ((1 .. Len(program)) \X Ranks \X Tokens)
        BY DEF RowsTyped
      <4>. QED
        BY <3>2, <4>1
    <3>. QED
      BY <1>2, <3>2, <3>3
  <2>2. ASSUME \A e \in Experts : ~ PushTask(r, e) PROVE PoolOf'
    <3>1. pool' = pool
      BY <2>2, DispatchFacts
    <3>. QED
      BY <1>2, <3>1 DEF RowsTyped
  <2>. QED
    BY <2>1, <2>2
<1>4. CombOf'
  <2>1. ASSUME NEW seg \in Experts \X Ranks, PushSegment(r, seg) PROVE CombOf'
    <3>1. /\ comb' = [q \in Ranks |-> [s \in Slots |-> comb'[q][s]]]
          /\ \A q \in Ranks \ {seg[2]} : comb'[q] = comb[q]
          /\ \A s \in Slots : comb'[seg[2]][s] = <<pc[r], seg[1]>> \/ comb'[seg[2]][s] = comb[seg[2]][s]
      <4>1. PICK S : S = {s \in Slots : \E row \in RowsOfSegment(r, seg) : SlotOf(r, row) = s}
        OBVIOUS
      <4>2. /\ comb' = [q \in Ranks |-> [s \in Slots |-> comb'[q][s]]]
            /\ \A q \in Ranks \ {seg[2]} : comb'[q] = comb[q]
            /\ \A s \in Slots : comb'[seg[2]][s] =
                 IF \E row \in RowsOfSegment(r, seg) : SlotOf(r, row) = s
                 THEN <<pc[r], seg[1]>> ELSE comb[seg[2]][s]
        BY <2>1, RowsReturned
      <4>3. \A s \in Slots : comb'[seg[2]][s] = IF s \in S THEN <<pc[r], seg[1]>> ELSE comb[seg[2]][s]
        BY <4>1, <4>2
      <4>. QED
        BY <4>2, <4>3
    <3>2. pc[r] \in 1 .. Len(program)
      BY <1>1, <2>1, AtCombine DEF PushSegment, CombineAt
    <3>3. ASSUME NEW q \in Ranks, NEW s \in Slots
          PROVE  comb'[q][s] \in {NoRow} \cup ((1 .. Len(program)) \X Experts)
      <4>1. comb[q][s] \in {NoRow} \cup ((1 .. Len(program)) \X Experts)
        BY DEF RowsTyped
      <4>. QED
        BY <3>1, <3>2, <4>1
    <3>. QED
      BY <1>2, <3>1, <3>3
  <2>2. ASSUME \A seg \in Experts \X Ranks : ~ PushSegment(r, seg) PROVE CombOf'
    <3>1. comb' = comb
      BY <2>2, CombineFacts
    <3>. QED
      BY <1>2, <3>1 DEF RowsTyped
  <2>. QED
    BY <2>1, <2>2
<1>. QED
  BY <1>3, <1>4 DEF RowsTyped

-----------------------------------------------------------------------------
(***************************************************************************)
(* A slot's flag names the last call in which its row came home.           *)
(***************************************************************************)

\* The slots a segment's rows go home to are those that chose the expert.
LEMMA SlotsHome ==
  ASSUME PrologueInv, NEW r \in Ranks, Running(r), program[pc[r]].kind # "prologue",
         NEW e \in Local(r), NEW q \in Ranks
  PROVE  /\ \A row \in RowsOfSegment(r, <<e, q>>) : SlotOf(r, row) \in To(RoutingAt(pc[r]), q, e)
         /\ \A s \in To(RoutingAt(pc[r]), q, e) :
              \E row \in RowsOfSegment(r, <<e, q>>) : SlotOf(r, row) = s
<1>1. PICK R : R = RoutingAt(pc[r])
  OBVIOUS
<1>2. /\ R = routing[Layer(r)] /\ Matrix(R) \in Matrices
      /\ Agree(q, r, Layer(r), H(r).slot)
      /\ RowsOfSegment(r, <<e, q>>) = Segment(R, q, e)
  BY <1>1, WorkHere
<1>3. e \in Experts
  BY ToOwner
<1>. DEFINE S == Segment(R, q, e)
            T == To(R, q, e)
            f == [row \in S |-> SlotOf(r, row)]
<1>4. ASSUME NEW row \in S
      PROVE  /\ \E s \in Slots : H(r).slot[row] = <<Layer(r), q, s>> /\ R[q][s] = e
             /\ \A other \in S : other # row => H(r).slot[other] # H(r).slot[row]
  BY <1>2 DEF Agree
<1>5. ASSUME NEW row \in S
      PROVE  SlotOf(r, row) \in T /\ H(r).slot[row] = <<Layer(r), q, SlotOf(r, row)>>
  <2>1. PICK s \in Slots : H(r).slot[row] = <<Layer(r), q, s>> /\ R[q][s] = e
    BY <1>4
  <2>2. SlotOf(r, row) = s
    BY <2>1 DEF SlotOf
  <2>. QED
    BY <2>1, <2>2 DEF To
<1>6. f \in Injection(S, T)
  <2>1. f \in [S -> T]
    BY <1>5
  <2>2. ASSUME NEW x \in S, NEW y \in S, f[x] = f[y] PROVE x = y
    <3>1. H(r).slot[x] = H(r).slot[y]
      BY <1>5, <2>2
    <3>. QED
      BY <1>4, <3>1
  <2>. QED
    BY <2>1, <2>2 DEF Injection, IsInjective
<1>7. IsFiniteSet(T) /\ Cardinality(T) = Matrix(R)[q][e] /\ Cardinality(T) \in Nat
  BY <1>3, ToFinite DEF Matrix
<1>8. IsFiniteSet(S) /\ Cardinality(S) = Matrix(R)[q][e]
  <2>1. SegmentStart(Matrix(R), q, e) \in Nat /\ Matrix(R)[q][e] \in Nat
    BY <1>2, <1>3, SegmentIs
  <2>. DEFINE a == SegmentStart(Matrix(R), q, e)
              n == Matrix(R)[q][e]
  <2>2. S = a .. a + n - 1
    BY DEF Segment, Rows
  <2>. HIDE DEF a, n
  <2>3. a \in Nat /\ n \in Nat
    BY <2>1 DEF a, n
  <2>4. a + n - 1 \in Int /\ (a + n - 1) - a + 1 = n /\ (n = 0 => a + n - 1 < a) /\ (n > 0 => a <= a + n - 1)
    BY <2>3
  <2>5. IsFiniteSet(S) /\ Cardinality(S) = n
    BY <2>2, <2>3, <2>4, FS_Interval
  <2>. QED
    BY <2>5 DEF n
<1>9. f \in Surjection(S, T)
  <2>. HIDE DEF f, S, T
  <2>. QED
    BY <1>6, <1>7, <1>8, FS_Injection
<1>10. \A s \in T : \E row \in S : SlotOf(r, row) = s
  BY <1>9 DEF Surjection
<1>. QED
  BY <1>1, <1>2, <1>5, <1>10

\* The call that the value of a reduce flag stands for.
LEMMA CallIs ==
  ASSUME NEW k \in Nat
  PROVE  CallOf((k + 1) % 2, ((k + 1) + ((k + 1) % 2)) \div 2) = 4 * k + 3
<1>1. PICK b : b = (k + 1) % 2
  OBVIOUS
<1>2. PICK v : v = (k + 1 + b) \div 2
  OBVIOUS
<1>3. b \in {0, 1} /\ 2 * v - b = k + 1
  BY <1>1, <1>2
<1>. QED
  BY <1>1, <1>2, <1>3 DEF CallOf

LEMMA CallHere ==
  ASSUME PlaceOK, EpochsTyped, EpochsOK, NEW r \in Ranks, In(r, {"combine"}, "run")
  PROVE  /\ Bank(r) \in Banks /\ combEpoch[r].rows[Bank(r)] \in Nat
         /\ CallOf(Bank(r), combEpoch[r].rows[Bank(r)]) = pc[r]
<1>1. CombineAt(pc[r]) /\ pc[r] \in Nat /\ pc[r] \in 1 .. Len(program)
  BY AtCombine DEF CombineAt
<1>2. pc[r] % 4 = 3
  BY <1>1, CombineIs DEF CombineAt
<1>3. PICK k \in Nat : pc[r] = 4 * k + 3 /\ pc[r] \div 4 = k
  BY <1>1, <1>2
<1>4. Combines(r) = k + 1
  BY <1>3, CombinesAre
<1>5. Bank(r) = (k + 1) % 2 /\ Bank(r) \in Banks /\ combEpoch[r].rows[Bank(r)] \in Nat
  BY <1>4 DEF EpochsOK, EpochsTyped, Bank
<1>6. combEpoch[r].rows[Bank(r)] = ((k + 1) + Bank(r)) \div 2
  <2>1. \A b \in Banks : combEpoch[r].rows[b] = (Combines(r) + b) \div 2
    BY DEF EpochsOK
  <2>. QED
    BY <1>4, <1>5, <2>1
<1>. QED
  BY <1>3, <1>5, <1>6, CallIs

\* What a combine block does to the flags of the slots.
LEMMA SlotsSignalled ==
  ASSUME PrologueInv, EpochsTyped, EpochsOK, WorkOK, ReduceFlagsOK,
         NEW r \in Ranks, NEW seg \in Experts \X Ranks, SignalSegment(r, seg)
  PROVE  /\ seg \in Segments(r) /\ seg \in Local(r) \X Ranks /\ HasRows(pc[r], seg) /\ CombineAt(pc[r])
         /\ reduceFlag' \in [Ranks -> [Banks -> [Slots -> Nat]]]
         /\ \A q \in Ranks, b \in Banks, s \in Slots :
              \/ reduceFlag'[q][b][s] = reduceFlag[q][b][s]
              \/ /\ q = seg[2] /\ s \in To(RoutingAt(pc[r]), q, seg[1])
                 /\ CallOf(b, reduceFlag'[q][b][s]) = pc[r]
<1>1. PICK A : A = {SlotOf(r, row) : row \in RowsOfSegment(r, seg)}
  OBVIOUS
<1>2. PICK v, c : v = combEpoch[r].rows[Bank(r)] /\ c = Bank(r)
  OBVIOUS
<1>3. /\ In(r, {"combine"}, "run") /\ seg \in work[r].sent
      /\ reduceFlag' = [reduceFlag EXCEPT ![seg[2]][c] = [s \in Slots |->
           IF s \in A THEN v ELSE @[s]]]
  BY <1>1, <1>2 DEF SignalSegment
<1>4. PlaceOK
  BY DEF PrologueInv
<1>5. /\ Running(r) /\ program[pc[r]].kind # "prologue" /\ CombineAt(pc[r])
      /\ c \in Banks /\ v \in Nat /\ CallOf(c, v) = pc[r]
  BY <1>2, <1>3, <1>4, AtCombine, CallHere
<1>6. seg \in Segments(r) /\ seg \in Local(r) \X Ranks
  BY <1>3 DEF WorkOK, Segments
<1>7. HasRows(pc[r], seg)
  <2>1. HereOK
    BY HereNow
  <2>. QED
    BY <1>5, <1>6, <2>1 DEF HereOK, HasRows, CombineAt
<1>8. A \subseteq To(RoutingAt(pc[r]), seg[2], seg[1])
  <2>1. seg = <<seg[1], seg[2]>> /\ seg[1] \in Local(r) /\ seg[2] \in Ranks
    BY <1>6
  <2>2. \A row \in RowsOfSegment(r, <<seg[1], seg[2]>>) :
          SlotOf(r, row) \in To(RoutingAt(pc[r]), seg[2], seg[1])
    BY <1>5, <2>1, SlotsHome
  <2>. QED
    BY <1>1, <2>1, <2>2
<1>9. reduceFlag \in [Ranks -> [Banks -> [Slots -> Nat]]] /\ seg[2] \in Ranks
  BY <1>6 DEF ReduceFlagsOK
<1>. DEFINE new == [s \in Slots |-> IF s \in A THEN v ELSE reduceFlag[seg[2]][c][s]]
<1>10. reduceFlag' = [reduceFlag EXCEPT ![seg[2]][c] = new]
  BY <1>3, <1>5, <1>9
<1>11. /\ new \in [Slots -> Nat]
       /\ \A s \in Slots : new[s] = reduceFlag[seg[2]][c][s] \/ (s \in A /\ new[s] = v)
  BY <1>5, <1>9
<1>. HIDE DEF new
<1>12. reduceFlag' \in [Ranks -> [Banks -> [Slots -> Nat]]]
  BY <1>5, <1>9, <1>10, <1>11
<1>13. /\ reduceFlag'[seg[2]][c] = new
       /\ \A q \in Ranks, b \in Banks : q # seg[2] \/ b # c => reduceFlag'[q][b] = reduceFlag[q][b]
  BY <1>5, <1>9, <1>10
<1>14. ASSUME NEW q \in Ranks, NEW b \in Banks, NEW s \in Slots,
              reduceFlag'[q][b][s] # reduceFlag[q][b][s]
       PROVE  /\ q = seg[2] /\ s \in To(RoutingAt(pc[r]), q, seg[1])
              /\ CallOf(b, reduceFlag'[q][b][s]) = pc[r]
  BY <1>5, <1>8, <1>11, <1>13, <1>14
<1>. QED
  BY <1>5, <1>6, <1>7, <1>12, <1>14

\* A slot that has an expert is of a segment that has rows.
LEMMA SlotHasRows ==
  ASSUME PlaceOK, NEW q \in Ranks, NEW i \in 1 .. Len(program), NEW s \in Slots,
         NEW e, e = RoutingAt(i)[q][s], e # NoExpert
  PROVE  HasRows(i, <<e, q>>) /\ e \in Experts /\ Owner(e) \in Ranks /\ e \in Local(Owner(e))
<1>1. program[i].layer \in Layers
  BY CombineIs
<1>2. RoutingAt(i) \in Choosing
  BY <1>1, RoutingIs DEF RoutingAt
<1>3. e \in Experts /\ s \in To(RoutingAt(i), q, e)
  BY <1>2 DEF Choosing, To
<1>4. Matrix(RoutingAt(i))[q][e] > 0
  <2>1. Cardinality(To(RoutingAt(i), q, e)) \in Nat /\ Cardinality(To(RoutingAt(i), q, e)) # 0
    BY <1>3, ToFinite, FS_EmptySet
  <2>. QED
    BY <1>3, <2>1 DEF Matrix
<1>. QED
  BY <1>3, <1>4, OwnerIs DEF HasRows

\* The call in which slot s of q has got the value v of its flag.
Stands(q, b, s, v) ==
  /\ CombineAt(CallOf(b, v)) /\ RoutingAt(CallOf(b, v))[q][s] # NoExpert
  /\ Flagged(Owner(RoutingAt(CallOf(b, v))[q][s]), CallOf(b, v), <<RoutingAt(CallOf(b, v))[q][s], q>>)
ReduceAll ==
  /\ reduceFlag \in [Ranks -> [Banks -> [Slots -> Nat]]]
  /\ \A q \in Ranks, b \in Banks, s \in Slots : \A v \in Nat :
       reduceFlag[q][b][s] = v /\ v # 0 => Stands(q, b, s, v)

LEMMA ReduceParts == ReduceFlagsOK <=> ReduceAll
<1>1. ReduceFlagsOK => ReduceAll
  BY DEF ReduceFlagsOK, ReduceAll, Stands
<1>2. ASSUME ReduceAll PROVE ReduceFlagsOK
  <2>1. ASSUME NEW q \in Ranks, NEW b \in Banks, NEW s \in Slots, reduceFlag[q][b][s] # 0
        PROVE  Stands(q, b, s, reduceFlag[q][b][s])
    BY <1>2, <2>1 DEF ReduceAll
  <2>. QED
    BY <1>2, <2>1 DEF ReduceFlagsOK, ReduceAll, Stands
<1>. QED
  BY <1>1, <1>2

LEMMA ReduceFlagsKept ==
  ASSUME PrologueInv, PrologueInv', EpochsTyped, EpochsOK, WorkOK, ReduceFlagsOK,
         NEW r \in Ranks, RankStep(r)
  PROVE  ReduceFlagsOK'
<1>1. PlaceOK /\ PlaceOK'
  BY DEF PrologueInv
<1>2. UNCHANGED <<program, routing>>
  BY <1>1, EpochSteps
<1>3. \A i : (CombineAt(i)' <=> CombineAt(i)) /\ \A q, s : RoutingAt(i)[q][s]' = RoutingAt(i)[q][s]
  BY <1>2 DEF RoutingAt, CombineAt
<1>4. ASSUME NEW q \in Ranks, NEW b \in Banks, NEW s \in Slots, NEW v \in Nat, Stands(q, b, s, v)
      PROVE  Stands(q, b, s, v)'
  <2>1. PICK i : i = CallOf(b, v)
    OBVIOUS
  <2>2. PICK e : e = RoutingAt(i)[q][s]
    OBVIOUS
  <2>3. CombineAt(i) /\ e # NoExpert /\ Flagged(Owner(e), i, <<e, q>>)
    BY <1>4, <2>1, <2>2 DEF Stands
  <2>4. HasRows(i, <<e, q>>)
    BY <1>1, <2>2, <2>3, SlotHasRows DEF CombineAt
  <2>5. Flagged(Owner(<<e, q>>[1]), i, <<e, q>>)' <=>
          Flagged(Owner(<<e, q>>[1]), i, <<e, q>>) \/ (i = pc[r] /\ SignalSegment(r, <<e, q>>))
    BY <2>3, <2>4, CombineFacts
  <2>6. Flagged(Owner(e), i, <<e, q>>)'
    BY <2>3, <2>5
  <2>. QED
    BY <1>3, <2>1, <2>2, <2>3, <2>6 DEF Stands
<1>5. ASSUME NEW seg \in Experts \X Ranks, SignalSegment(r, seg) PROVE ReduceAll'
  <2>1. /\ seg \in Local(r) \X Ranks /\ HasRows(pc[r], seg) /\ CombineAt(pc[r])
        /\ reduceFlag' \in [Ranks -> [Banks -> [Slots -> Nat]]]
        /\ \A q \in Ranks, b \in Banks, s \in Slots :
             \/ reduceFlag'[q][b][s] = reduceFlag[q][b][s]
             \/ /\ q = seg[2] /\ s \in To(RoutingAt(pc[r]), q, seg[1])
                /\ CallOf(b, reduceFlag'[q][b][s]) = pc[r]
    BY <1>5, SlotsSignalled
  <2>2. PICK i : i = pc[r]
    OBVIOUS
  <2>3. Flagged(Owner(seg[1]), i, seg)'
    BY <1>5, <2>1, <2>2, CombineFacts
  <2>4. ASSUME NEW q \in Ranks, NEW b \in Banks, NEW s \in Slots,
               NEW v \in Nat, reduceFlag'[q][b][s] = v, v # 0
        PROVE  Stands(q, b, s, v)'
    <3>1. CASE reduceFlag'[q][b][s] = reduceFlag[q][b][s]
      <4>1. Stands(q, b, s, v)
        BY <2>4, <3>1, ReduceParts DEF ReduceAll
      <4>. QED
        BY <1>4, <4>1
    <3>2. CASE /\ q = seg[2] /\ s \in To(RoutingAt(i), q, seg[1])
               /\ CallOf(b, v) = i
      <4>1. PICK e : e = seg[1]
        OBVIOUS
      <4>2. RoutingAt(i)[q][s] = e /\ seg = <<e, q>> /\ e \in Experts
        BY <2>1, <3>2, <4>1 DEF To
      <4>3. e # NoExpert
        BY <4>2, MegaAssumption
      <4>4. RoutingAt(i)[q][s]' = e /\ CombineAt(i)' /\ Flagged(Owner(e), i, <<e, q>>)'
        BY <1>3, <2>1, <2>2, <2>3, <4>1, <4>2
      <4>. QED
        BY <3>2, <4>3, <4>4 DEF Stands
    <3>. QED
      BY <2>1, <2>2, <2>4, <3>1, <3>2
  <2>. QED
    BY <2>1, <2>4 DEF ReduceAll
<1>6. ASSUME \A seg \in Experts \X Ranks : ~ SignalSegment(r, seg) PROVE ReduceAll'
  <2>1. reduceFlag' = reduceFlag
    BY <1>6, CombineFacts
  <2>2. ASSUME NEW q \in Ranks, NEW b \in Banks, NEW s \in Slots,
               NEW v \in Nat, reduceFlag'[q][b][s] = v, v # 0
        PROVE  Stands(q, b, s, v)'
    <3>1. Stands(q, b, s, v)
      BY <2>1, <2>2, ReduceParts DEF ReduceAll
    <3>. QED
      BY <1>4, <3>1
  <2>. QED
    BY <2>1, <2>2, ReduceParts DEF ReduceAll
<1>7. ReduceAll'
  BY <1>5, <1>6
<1>. QED
  BY <1>7, ReduceParts, PTL

-----------------------------------------------------------------------------
(***************************************************************************)
(* All of this holds of the specification.                                 *)
(***************************************************************************)

LEMMA InitLocalInv == Init => LocalInv
<1>. SUFFICES ASSUME Init PROVE LocalInv
  OBVIOUS
<1>0. PrologueInv /\ PlaceOK
  BY InitPrologueInv DEF PrologueInv
<1>1. /\ Len(program) \in Nat
      /\ \A r \in Ranks : pc[r] = 1 /\ stage[r] = "start"
      /\ work = [r \in Ranks |-> NoWork]
  BY <1>0, OfGated DEF Init
<1>2. \A r \in Ranks : \A K : ~ In(r, K, "run")
  BY <1>1 DEF In
<1>3. /\ \A r \in Ranks, i \in 1 .. Len(program) : ~ Begun(r, i)
      /\ \A r \in Ranks, i \in 1 .. Len(program) : \A x : ~ Flagged(r, i, x)
  BY <1>1 DEF Begun, Flagged
<1>4. \A r \in Ranks : Combines(r) = 0
  BY <1>1, <1>2 DEF Combines
<1>5. EpochsTyped
  <2>1. work \in [Ranks -> WorkType]
    BY <1>1, NoWorkIs
  <2>2. dispEpoch \in [Ranks -> [parity : Banks, expected : [Banks -> Nat]]]
    BY BanksAre DEF Init
  <2>3. combEpoch \in [Ranks -> [parity : Banks, tiles : [Banks -> Nat], rows : [Banks -> Nat]]]
    BY BanksAre DEF Init
  <2>. QED
    BY <2>1, <2>2, <2>3 DEF EpochsTyped, WorkType
<1>6. EpochsOK
  <2>. SUFFICES ASSUME NEW r \in Ranks
                PROVE  /\ dispEpoch[r].parity = Cardinality({j \in 1 .. Len(program) : DispatchAt(j) /\ Begun(r, j)}) % 2
                       /\ combEpoch[r].parity = Combines(r) % 2
                       /\ \A b \in Banks :
                            /\ dispEpoch[r].expected[b] = NumRanks * Cardinality({j \in DispatchBank(b) : Begun(r, j)})
                            /\ combEpoch[r].rows[b] = (Combines(r) + b) \div 2
                            /\ combEpoch[r].tiles[b] = NBlocks * combEpoch[r].rows[b]
    BY DEF EpochsOK
  <2>1. /\ {j \in 1 .. Len(program) : DispatchAt(j) /\ Begun(r, j)} = {}
        /\ \A b : {j \in DispatchBank(b) : Begun(r, j)} = {}
    BY <1>3 DEF DispatchBank
  <2>2. /\ dispEpoch[r].parity = 0 /\ combEpoch[r].parity = 0
        /\ \A b \in Banks : /\ dispEpoch[r].expected[b] = 0 /\ combEpoch[r].rows[b] = 0
                            /\ combEpoch[r].tiles[b] = 0
    BY DEF Init
  <2>3. \A b \in Banks : (0 + b) \div 2 = 0
    BY BanksAre
  <2>4. NumRanks * 0 = 0 /\ NBlocks * 0 = 0 /\ 0 % 2 = 0
    BY Numbers
  <2>. QED
    BY <1>4, <2>1, <2>2, <2>3, <2>4, FS_EmptySet
<1>7. WorkOK
  BY <1>2 DEF WorkOK
<1>8. DispFlagsOK
  <2>1. \A b \in Banks : \A e : Signals(b, e) = {}
    BY <1>3 DEF Signals, DispatchBank
  <2>2. dispFlag = [r \in Ranks |-> [b \in Banks |-> [e \in Local(r) |-> 0]]]
    BY DEF Init
  <2>3. dispFlag = [r \in Ranks |-> [b \in Banks |-> [e \in Local(r) |-> dispFlag[r][b][e]]]]
    BY <2>2
  <2>. QED
    BY <2>1, <2>2, <2>3, FS_EmptySet DEF DispFlagsOK
<1>9. TilesOK
  <2>1. combFlag = [r \in Ranks |-> [b \in Banks |-> [i \in Tiles |-> 0]]]
    BY DEF Init
  <2>2. l2 = [r \in Ranks |-> [i \in Tiles |-> [n \in 1 .. NBlocks |-> 0]]]
    BY DEF Init
  <2>3. \A r \in Ranks, b \in Banks : combEpoch[r].tiles[b] = 0
    BY DEF Init
  <2>4. combFlag \in [Ranks -> [Banks -> [Tiles -> Nat]]]
    BY <2>1
  <2>5. L2Typed
    BY <2>2 DEF L2Typed
  <2>6. \A r \in Ranks : TilesFine(r)
    BY <1>2, <2>1, <2>3 DEF TilesFine, Level, Combining
  <2>. QED
    BY <2>4, <2>5, <2>6, TilesParts DEF TilesAll
<1>10. ReduceFlagsOK
  <2>1. reduceFlag = [r \in Ranks |-> [b \in Banks |-> [s \in Slots |-> 0]]]
    BY DEF Init
  <2>. QED
    BY <2>1 DEF ReduceFlagsOK
<1>11. RowsTyped
  <2>1. /\ pool = [r \in Ranks |-> [row \in PoolRows |-> NoRow]]
        /\ comb = [r \in Ranks |-> [s \in Slots |-> NoRow]]
    BY DEF Init
  <2>. QED
    BY <2>1 DEF RowsTyped
<1>. QED
  BY <1>5, <1>6, <1>7, <1>8, <1>9, <1>10, <1>11 DEF LocalInv

LEMMA SameLocalInv ==
  ASSUME LocalInv, UNCHANGED megaVars
  PROVE  LocalInv'
<1>1. /\ UNCHANGED <<program, routing, pc, stage, work, pool, dispFlag, reduceFlag, comb>>
      /\ UNCHANGED <<handle, dispEpoch, combEpoch, combFlag, l2>>
  BY DEF megaVars, dataVars, localVars
<1>. USE <1>1 DEF LocalInv
<1>2. /\ \A r, K, w : In(r, K, w)' <=> In(r, K, w)
      /\ \A r, i : Begun(r, i)' <=> Begun(r, i)
      /\ \A r, i, x : Flagged(r, i, x)' <=> Flagged(r, i, x)
      /\ \A i : (DispatchAt(i)' <=> DispatchAt(i)) /\ (CombineAt(i)' <=> CombineAt(i))
      /\ \A i : RoutingAt(i)' = RoutingAt(i)
  BY DEF In, Running, Begun, Flagged, DispatchAt, CombineAt, RoutingAt
<1>3. \A b : DispatchBank(b)' = DispatchBank(b)
  BY <1>2 DEF DispatchBank, DispatchNo
<1>4. /\ \A r : MyTiles(r)' = MyTiles(r) /\ Segments(r)' = Segments(r) /\ Bank(r)' = Bank(r)
      /\ \A r : Combines(r)' = Combines(r)
      /\ \A r, i : Progress(r, i)' = Progress(r, i)
      /\ \A b, e : Signals(b, e)' = Signals(b, e)
  BY <1>2, <1>3 DEF MyTiles, Segments, Bank, Combines, Progress, Blocks, Signals, H, Layer
<1>5. EpochsTyped'
  BY DEF EpochsTyped
<1>6. EpochsOK'
  BY <1>2, <1>3, <1>4 DEF EpochsOK
<1>7. WorkOK'
  BY <1>2, <1>4 DEF WorkOK
<1>8. DispFlagsOK'
  BY <1>4 DEF DispFlagsOK
<1>9. TilesOK'
  BY <1>2, <1>4 DEF TilesOK
<1>10. ReduceFlagsOK'
  BY <1>2 DEF ReduceFlagsOK
<1>11. RowsTyped'
  BY DEF RowsTyped
<1>. QED
  BY <1>5, <1>6, <1>7, <1>8, <1>9, <1>10, <1>11

LEMMA NextLocalInv ==
  ASSUME PrologueInv, PrologueInv', LocalInv, NEW r \in Ranks, RankStep(r)
  PROVE  LocalInv'
<1>1. PlaceOK /\ PlaceOK'
  BY DEF PrologueInv
<1>. USE DEF LocalInv
<1>. QED
  BY <1>1, EpochsKept, WorkKept, DispFlagsKept, TilesKept, ReduceFlagsKept, RowsKept

LEMMA StateTyped == PrologueInv /\ LocalInv => MegaTypeOK
<1>. SUFFICES ASSUME PrologueInv, LocalInv PROVE MegaTypeOK
  OBVIOUS
<1>1. PlaceOK /\ Len(program) \in Nat
  BY OfGated DEF PrologueInv
<1>2. /\ pc \in [Ranks -> 1 .. Len(program) + 1]
      /\ counts \in [Ranks -> [Ranks -> [Experts -> 0 .. Cardinality(Slots)]]]
  BY DEF PrologueInv, PlaceOK, CountsOK
<1>3. \A r \in Ranks : \A row \in PoolRows :
        /\ pool[r][row] \in {NoRow} \cup ((1 .. Len(program)) \X Ranks \X Tokens)
        /\ origin[r][row] \in {NoRow} \cup (Layers \X Ranks \X Slots)
  BY DEF PrologueInv, OriginOK, LocalInv, RowsTyped
<1>4. \A r \in Ranks : \A s \in Slots :
        comb[r][s] \in {NoRow} \cup ((1 .. Len(program)) \X Experts)
  BY DEF LocalInv, RowsTyped
<1>5. ASSUME NEW r \in Ranks, NEW b \in Banks, NEW e \in Local(r)
      PROVE  dispFlag[r][b][e] \in 0 .. NumRanks * Len(program)
  <2>1. dispFlag[r][b][e] = Cardinality(Signals(b, e))
    BY DEF LocalInv, DispFlagsOK
  <2>2. IsFiniteSet(1 .. Len(program)) /\ Cardinality(1 .. Len(program)) = Len(program)
    BY <1>1, FS_Interval, SMTT(30), ZenonT(30)
  <2>3. /\ IsFiniteSet(Ranks \X (1 .. Len(program)))
        /\ Cardinality(Ranks \X (1 .. Len(program))) = NumRanks * Len(program)
    BY <2>2, Numbers, FS_Product DEF NumRanks
  <2>4. Signals(b, e) \subseteq Ranks \X (1 .. Len(program))
    BY DEF Signals, DispatchBank
  <2>5. Cardinality(Signals(b, e)) <= NumRanks * Len(program) /\ Cardinality(Signals(b, e)) \in Nat
    BY <2>3, <2>4, FS_Subset, FS_CardinalityType
  <2>. QED
    BY <1>1, <2>1, <2>5, Numbers
<1>6. ASSUME NEW r \in Ranks, NEW b \in Banks, NEW s \in Slots
      PROVE  reduceFlag[r][b][s] \in 0 .. Len(program)
  <2>1. PICK v \in Nat : v = reduceFlag[r][b][s]
    BY DEF LocalInv, ReduceFlagsOK
  <2>2. CASE v = 0
    BY <1>1, <2>1, <2>2
  <2>3. CASE v # 0
    <3>1. CombineAt(CallOf(b, v))
      BY <2>1, <2>3, ReduceParts DEF LocalInv, ReduceAll, Stands
    <3>2. 4 * (2 * v - b) - 1 <= Len(program) /\ b \in {0, 1}
      BY <1>1, <3>1, BanksAre DEF CombineAt, CallOf
    <3>. QED
      BY <1>1, <2>1, <2>3, <3>2, SMTT(30), ZenonT(30)
  <2>. QED
    BY <2>2, <2>3
<1>. QED
  BY <1>2, <1>3, <1>4, <1>5, <1>6 DEF MegaTypeOK

LEMMA MegaInvariant == Spec => [](PrologueInv /\ LocalInv)
<1>1. Init => PrologueInv /\ LocalInv
  BY InitPrologueInv, InitLocalInv
<1>2. PrologueInv /\ [Next]_megaVars => PrologueInv'
  BY NextPrologueInv
<1>3. PrologueInv /\ LocalInv /\ PrologueInv' /\ [Next]_megaVars => LocalInv'
  <2>1. ASSUME PrologueInv, LocalInv, PrologueInv', Next PROVE LocalInv'
    BY <2>1, NextLocalInv DEF Next
  <2>. QED
    BY <2>1, SameLocalInv
<1>. QED
  BY <1>1, <1>2, <1>3, PTL DEF Spec

(***************************************************************************)
(* The state that ranks write for each other keeps its type: in particular *)
(* no dispatch flag counts more than one signal per rank and dispatch, no  *)
(* slot's flag exceeds the calls, and every row pushed or sent home is of  *)
(* a kernel of the program, not a mixture of two.                          *)
(***************************************************************************)
THEOREM MegaTypes == Spec => []MegaTypeOK
BY MegaInvariant, StateTyped, PTL

-----------------------------------------------------------------------------
(***************************************************************************)
(* What an open gate means: everybody has signalled this very dispatch.    *)
(***************************************************************************)

\* Every real tile is an expert's.
LEMMA TileHasExpert ==
  ASSUME NEW c \in Matrices, NEW r \in Ranks, NEW i \in 0 .. RealTiles(c, r) - 1
  PROVE  TileToExpert(c, r, i) \in Local(r)
<1>. DEFINE first == ExpertsPerRank * r
            last  == first + ExpertsPerRank - 1
            x     == i * BlockM
            End(e) == PoolBase(c, e) + PaddedTotals(c)[e]
            U == {e \in Local(r) : x < End(e)}
<1>1. Local(r) = first .. last /\ first \in Nat
  BY LocalRange
<1>2. last \in Nat /\ first <= last
  <2>. HIDE DEF first
  <2>. QED
    BY <1>1, Numbers
<1>. HIDE DEF first, last
<1>3. \A e \in Local(r) : /\ e \in Experts /\ Owner(e) = r /\ e \in Nat
                          /\ PoolBase(c, e) \in Nat /\ PaddedTotals(c)[e] \in Nat
                          /\ PoolBase(c, e) = Sum(PaddedTotals(c), Earlier(e))
                          /\ Earlier(e) = first .. e - 1 /\ e \notin Earlier(e)
                          /\ IsFiniteSet(Earlier(e))
                          /\ \A y \in Earlier(e) \cup {e} : PaddedTotals(c)[y] \in Nat
  <2>1. ASSUME NEW e \in Local(r)
        PROVE  /\ e \in Experts /\ Owner(e) = r /\ e \in Nat
               /\ PoolBase(c, e) \in Nat /\ PaddedTotals(c)[e] \in Nat
               /\ PoolBase(c, e) = Sum(PaddedTotals(c), Earlier(e))
               /\ Earlier(e) = first .. e - 1 /\ e \notin Earlier(e)
    <3>1. e \in Experts /\ Owner(e) = r
      BY ToOwner
    <3>2. e \in Nat
      BY <1>1
    <3>3. Earlier(e) = first .. e - 1 /\ e \notin Earlier(e)
      BY <1>1, <1>2, <3>1, <3>2 DEF Earlier
    <3>. QED
      BY <3>1, <3>2, <3>3, BaseIs, Totals, Bases
  <2>2. ASSUME NEW e \in Local(r)
        PROVE  IsFiniteSet(Earlier(e)) /\ \A y \in Earlier(e) \cup {e} : PaddedTotals(c)[y] \in Nat
    <3>1. Earlier(e) \subseteq Local(r)
      BY <2>1 DEF Earlier
    <3>. QED
      BY <2>1, <3>1, LocalIs, FS_Subset
  <2>. QED
    BY <2>1, <2>2
<1>4. \A e \in Local(r) : Sum(PaddedTotals(c), Earlier(e) \cup {e}) = End(e)
  BY <1>3, SumAdd
<1>5. /\ RealTiles(c, r) \in Nat /\ Sum(PaddedTotals(c), Local(r)) = BlockM * RealTiles(c, r)
      /\ i \in Nat
  BY TilesAre
<1>6. x < BlockM * RealTiles(c, r) /\ x \in Nat
  <2>. DEFINE n == RealTiles(c, r)
  <2>1. n \in Nat /\ i + 1 <= n
    BY <1>5
  <2>. HIDE DEF n
  <2>2. BlockM * (i + 1) <= BlockM * n
    BY <1>5, <2>1, Monotone, Numbers
  <2>3. BlockM * (i + 1) = i * BlockM + BlockM /\ i * BlockM \in Nat /\ BlockM * n \in Nat
    BY <1>5, <2>1, Numbers
  <2>4. i * BlockM < BlockM * n
    BY <2>2, <2>3, Numbers
  <2>. QED
    BY <2>3, <2>4 DEF n
<1>7. last \in U
  <2>1. last \in Local(r)
    BY <1>1, <1>2
  <2>2. Earlier(last) \cup {last} = Local(r)
    BY <1>1, <1>2, <1>3, <2>1
  <2>3. End(last) = BlockM * RealTiles(c, r)
    BY <1>4, <1>5, <2>1, <2>2
  <2>. QED
    BY <1>6, <2>1, <2>3
<1>8. PICK e \in U : \A f \in U : e <= f
  <2>1. U \in SUBSET Nat /\ U # {}
    BY <1>3, <1>7
  <2>. HIDE DEF U
  <2>. QED
    BY <2>1, LeastOf
<1>9. e \in Local(r) /\ x < End(e)
  BY <1>8
<1>10. PoolBase(c, e) <= x
  <2>1. CASE e = first
    <3>1. Earlier(e) = {}
      BY <1>1, <1>3, <1>9, <2>1
    <3>2. PoolBase(c, e) = Sum(PaddedTotals(c), {})
      BY <1>3, <1>9, <3>1
    <3>3. PoolBase(c, e) = 0
      BY <3>2, SumEmpty
    <3>. HIDE DEF x
    <3>. QED
      BY <1>6, <3>3
  <2>2. CASE e # first
    <3>1. e - 1 \in Local(r) /\ e - 1 < e /\ e - 1 \in Nat
      BY <1>1, <1>2, <1>9, <2>2
    <3>2. Earlier(e) = Earlier(e - 1) \cup {e - 1}
      <4>1. Earlier(e) = first .. e - 1 /\ Earlier(e - 1) = first .. (e - 1) - 1
        BY <1>3, <1>9, <3>1
      <4>. QED
        BY <1>1, <1>2, <1>9, <3>1, <4>1
    <3>3. PoolBase(c, e) = End(e - 1)
      BY <1>3, <1>4, <1>9, <3>1, <3>2
    <3>4. ~ (x < End(e - 1))
      BY <1>3, <1>8, <1>9, <3>1
    <3>5. End(e - 1) \in Nat
      BY <1>3, <3>1
    <3>. QED
      BY <1>6, <3>3, <3>4, <3>5
  <2>. QED
    BY <2>1, <2>2
<1>11. PaddedTotals(c)[e] = Padded(ExpertTotal(c, e))
  BY <1>3, <1>9, Totals
<1>. QED
  BY <1>9, <1>10, <1>11 DEF TileToExpert

\* The pieces of a dispatch are of local experts, and every expert has some:
\* in the tn layout always, in the others where it has rows.
LEMMA PiecesAre ==
  ASSUME PrologueInv, NEW r \in Ranks, Running(r), program[pc[r]].kind \in Dispatches
  PROVE  /\ \A x \in Pieces(r) : ExpertOf(r, x) \in Local(r)
         /\ \A e \in Local(r) :
              program[pc[r]].kind = "redispatch" \/ ExpertTotal(Matrix(RoutingAt(pc[r])), e) > 0 =>
                \E x \in Pieces(r) : ExpertOf(r, x) = e
<1>1. program[pc[r]].kind # "prologue" /\ (ByTile(r) <=> program[pc[r]].kind # "redispatch")
  BY DEF Dispatches, ByTile
<1>2. PICK R : R = RoutingAt(pc[r])
  OBVIOUS
<1>3. Matrix(R) \in Matrices /\ HasTables(H(r), R, r)
  BY <1>1, <1>2, WorkHere
<1>4. /\ DOMAIN H(r).expert = 0 .. RealTiles(Matrix(R), r) - 1
      /\ \A i \in 0 .. RealTiles(Matrix(R), r) - 1 : H(r).expert[i] = TileToExpert(Matrix(R), r, i)
  BY <1>3, TablesAre
<1>5. CASE ByTile(r)
  <2>1. ASSUME NEW x \in Pieces(r) PROVE ExpertOf(r, x) \in Local(r)
    BY <1>3, <1>4, <1>5, TileHasExpert DEF Pieces, ExpertOf
  <2>2. ASSUME NEW e \in Local(r), ExpertTotal(Matrix(R), e) > 0
        PROVE  \E x \in Pieces(r) : ExpertOf(r, x) = e
    <3>1. PICK row : row = PoolBase(Matrix(R), e)
      OBVIOUS
    <3>2. e \in Experts
      BY ToOwner
    <3>3. /\ row \in Nat /\ PoolBase(Matrix(R), e) <= row
          /\ row < PoolBase(Matrix(R), e) + PaddedTotals(Matrix(R))[e]
      <4>1. /\ PoolBase(Matrix(R), e) \in Nat /\ PaddedTotals(Matrix(R))[e] \in Nat
            /\ ExpertTotal(Matrix(R), e) <= PaddedTotals(Matrix(R))[e]
            /\ ExpertTotal(Matrix(R), e) \in Nat
        BY <1>3, <3>2, BaseIs, Totals, Columns
      <4>. QED
        BY <2>2, <3>1, <4>1
    <3>4. PICK i : i = row \div BlockM
      OBVIOUS
    <3>5. i \in 0 .. RealTiles(Matrix(R), r) - 1 /\ TileToExpert(Matrix(R), r, i) = e
      BY <1>3, <3>3, <3>4, TileOfRow
    <3>. QED
      BY <1>4, <1>5, <3>5 DEF Pieces, ExpertOf
  <2>. QED
    BY <1>1, <1>2, <1>5, <2>1, <2>2
<1>6. CASE ~ ByTile(r)
  BY <1>6 DEF Pieces, ExpertOf
<1>. QED
  BY <1>5, <1>6

\* Between two dispatches of a bank there is one of the other.
LEMMA BanksAlternate ==
  ASSUME PlaceOK, NEW b \in Banks, NEW i \in DispatchBank(b), NEW j \in DispatchBank(b), i < j
  PROVE  \E m : DispatchAt(m) /\ i < m /\ m < j
<1>1. Len(program) \in Nat /\ i \in Nat /\ j \in Nat /\ DispatchAt(i) /\ DispatchAt(j)
      /\ DispatchNo(i) % 2 = b /\ DispatchNo(j) % 2 = b
  BY OfGated DEF DispatchBank
<1>. SUFFICES ASSUME \A m : DispatchAt(m) => ~ (i < m /\ m < j) PROVE FALSE
  OBVIOUS
<1>. DEFINE A(n) == {m \in 1 .. Len(program) : DispatchAt(m) /\ m <= n}
<1>2. A(j) = A(i) \cup {j} /\ j \notin A(i)
  <2>1. ASSUME NEW m \in A(j), m # j PROVE m \in A(i)
    <3>1. m \in Nat /\ m < j /\ DispatchAt(m)
      BY <1>1, <2>1
    <3>. QED
      BY <1>1, <3>1
  <2>2. A(i) \subseteq A(j) /\ j \in A(j) /\ j \notin A(i)
    BY <1>1 DEF DispatchAt
  <2>. QED
    BY <2>1, <2>2
<1>3. IsFiniteSet(A(i)) /\ Cardinality(A(i)) \in Nat
  <2>1. IsFiniteSet(1 .. Len(program))
    BY <1>1, FS_Interval
  <2>. QED
    BY <2>1, FS_Subset, FS_CardinalityType
<1>4. DispatchNo(j) = DispatchNo(i) + 1 /\ DispatchNo(i) \in Nat
  <2>1. DispatchNo(j) = Cardinality(A(j)) /\ DispatchNo(i) = Cardinality(A(i))
    BY DEF DispatchNo
  <2>. HIDE DEF A
  <2>. QED
    BY <1>2, <1>3, <2>1, FS_AddElement
<1>. QED
  BY <1>1, <1>4, Turns, BanksAre

\* What an open gate means: that every rank has signalled this dispatch.
LEMMA GateMeans ==
  ASSUME PrologueInv, LocalInv, FencesOK, NEW r \in Ranks, In(r, Dispatches, "run"),
         NEW e \in Local(r)
  PROVE  /\ dispFlag[r][dispEpoch[r].parity][e] <= dispEpoch[r].expected[dispEpoch[r].parity]
         /\ GateOpen(r, e) => \A q \in Ranks : Flagged(q, pc[r], e)
<1>1. PlaceOK /\ EpochsTyped /\ EpochsOK /\ DispFlagsOK
  BY DEF PrologueInv, LocalInv
<1>2. PICK b, i : b = dispEpoch[r].parity /\ i = pc[r]
  OBVIOUS
<1>3. i \in DispatchBank(b) /\ b \in Banks /\ DispatchAt(i) /\ i \in Nat /\ stage[r] = "run"
  BY <1>1, <1>2, BankHere, AtDispatch
<1>4. PICK B : B = BegunOf(r, DispatchBank(b))
  OBVIOUS
<1>5. /\ IsFiniteSet(B) /\ Cardinality(B) \in Nat /\ i \in B
      /\ \A j \in DispatchBank(b) : j <= i => j \in B
      /\ dispEpoch[r].expected[b] = NumRanks * Cardinality(B)
  <2>1. DispatchBank(b) \in SUBSET AllDispatches
    BY <1>1, DispatchesAre
  <2>2. IsFiniteSet(B) /\ Cardinality(B) \in Nat
    BY <1>1, <1>4, <2>1, DispatchesAre
  <2>3. \A j \in DispatchBank(b) : j \in Nat
    BY <1>1, <2>1, DispatchesAre
  <2>4. B = {j \in DispatchBank(b) : Begun(r, j)}
    BY <1>4 DEF BegunOf
  <2>5. \A j \in DispatchBank(b) : j <= i => j \in B
    BY <1>2, <1>3, <2>3, <2>4 DEF Begun
  <2>6. i \in B
    BY <1>3, <2>5
  <2>7. \A c \in Banks : dispEpoch[r].expected[c] = NumRanks * Cardinality({j \in DispatchBank(c) : Begun(r, j)})
    BY <1>1 DEF EpochsOK
  <2>8. dispEpoch[r].expected[b] = NumRanks * Cardinality(B)
    BY <1>3, <2>4, <2>7
  <2>. QED
    BY <2>2, <2>5, <2>6, <2>8
<1>6. Signals(b, e) \subseteq Ranks \X B
  <2>. SUFFICES ASSUME NEW p \in Ranks, NEW j \in DispatchBank(b), Flagged(p, j, e), ~ (j <= i)
                PROVE  FALSE
    BY <1>5 DEF Signals
  <2>1. DispatchAt(j) /\ j \in Nat /\ i < j /\ pc[p] \in Nat /\ j <= pc[p]
    BY <1>1, <1>3, OfGated DEF DispatchBank, Flagged
  <2>2. PICK m : DispatchAt(m) /\ i < m /\ m < j
    BY <1>1, <1>3, <2>1, BanksAlternate
  <2>3. Fence(m) < j /\ Fence(m) \in Nat /\ m \in 1 .. Len(program) /\ m \in Nat
    BY <1>1, <2>1, <2>2, FenceBetween, FenceIs
  <2>4. Begun(r, m)
    BY <2>1, <2>2, <2>3 DEF FencesOK
  <2>. QED
    BY <1>2, <1>3, <2>2, <2>3, <2>4 DEF Begun
<1>7. /\ IsFiniteSet(Ranks \X B) /\ Cardinality(Ranks \X B) = NumRanks * Cardinality(B)
  BY <1>5, Numbers, FS_Product DEF NumRanks
<1>8. dispFlag[r][b][e] = Cardinality(Signals(b, e))
  BY <1>1, <1>3 DEF DispFlagsOK
<1>9. Cardinality(Signals(b, e)) <= NumRanks * Cardinality(B)
  BY <1>6, <1>7, FS_Subset
<1>10. ASSUME GateOpen(r, e), NEW q \in Ranks PROVE Flagged(q, i, e)
  <2>1. Cardinality(Signals(b, e)) = Cardinality(Ranks \X B)
    BY <1>2, <1>5, <1>7, <1>8, <1>10 DEF GateOpen
  <2>2. Signals(b, e) = Ranks \X B
    BY <1>6, <1>7, <2>1, FS_Subset
  <2>3. <<q, i>> \in Signals(b, e)
    BY <1>5, <2>2
  <2>. QED
    BY <2>3 DEF Signals
<1>. QED
  BY <1>2, <1>5, <1>8, <1>9, <1>10

-----------------------------------------------------------------------------
(***************************************************************************)
(* How the kernels of other ranks and of earlier calls are ordered.        *)
(***************************************************************************)

LEMMA HistoryIs ==
  ASSUME NEW r \in Ranks, RankStep(r)
  PROVE  BeginDispatch(r) \/ UNCHANGED overtaken
<1>1. ASSUME PrologueStep(r) PROVE UNCHANGED overtaken
  BY <1>1 DEF PrologueStep, Histogram, BarrierStep, PushCounts, BuildTables, Scatter, CloneSlots, SaveWeights
<1>2. ASSUME DispatchStep(r) PROVE BeginDispatch(r) \/ UNCHANGED overtaken
  BY <1>2 DEF DispatchStep, EndDispatch, WeightGrad2, PushTask, SignalTask, FinishPiece
<1>3. ASSUME CombineStep(r) PROVE UNCHANGED overtaken
  BY <1>3 DEF CombineStep, BeginCombine, AlignEmptyTiles, EndCombine, StoreBlock, CountBlock,
     PushSegment, SignalSegment, ReduceToken
<1>. QED
  BY <1>1, <1>2, <1>3 DEF RankStep

\* How a step moves the ranks through the program.
LEMMA Progresses ==
  ASSUME PrologueInv, PrologueInv', EpochsTyped, NEW r \in Ranks, RankStep(r)
  PROVE  /\ UNCHANGED <<program, routing>>
         /\ \A q \in Ranks \ {r} : pc'[q] = pc[q] /\ stage'[q] = stage[q] /\ work'[q] = work[q]
         /\ \/ pc'[r] = pc[r]
            \/ /\ pc'[r] = pc[r] + 1
               /\ GatedAt(pc[r]) => \/ EndDispatch(r) /\ DispatchAt(pc[r])
                                    \/ EndCombine(r) /\ CombineAt(pc[r])
         /\ \A q \in Ranks : \A i : GatedAt(i) /\ Begun(q, i) => Begun(q, i)'
         /\ \A q \in Ranks : \A i : GatedAt(i) /\ Begun(q, i)' =>
              Begun(q, i) \/ (q = r /\ i = pc[r] /\ (BeginDispatch(r) \/ BeginCombine(r)))
<1>1. PlaceOK /\ PlaceOK' /\ work \in [Ranks -> WorkType]
  BY DEF PrologueInv, EpochsTyped, WorkType
<1>2. UNCHANGED <<program, routing>>
  BY <1>1, EpochSteps
<1>3. /\ \A q \in Ranks : \A i : GatedAt(i) /\ Begun(q, i) => Begun(q, i)'
      /\ \A q \in Ranks : \A i : GatedAt(i) /\ Begun(q, i)' =>
           Begun(q, i) \/ (q = r /\ i = pc[r] /\ (BeginDispatch(r) \/ BeginCombine(r)))
  <2>1. CASE SameBegun
    BY <2>1 DEF SameBegun
  <2>2. CASE Enters(r) /\ (BeginDispatch(r) \/ BeginCombine(r))
    BY <1>1, <2>2, OfEnter
  <2>. QED
    BY <1>1, <2>1, <2>2, EpochSteps
<1>4. Frame(r) => \A q \in Ranks \ {r} : pc'[q] = pc[q] /\ stage'[q] = stage[q] /\ work'[q] = work[q]
  BY DEF Frame, Others
<1>5. CASE Walks(r)
  <2>1. ~ GatedAt(pc[r])
    BY <1>5 DEF Walks, GatedAt
  <2>. QED
    BY <1>2, <1>3, <1>4, <1>5, <2>1 DEF Walks
<1>6. CASE Enters(r)
  BY <1>2, <1>3, <1>4, <1>6 DEF Enters
<1>7. CASE DispatchWork(r) \/ CombineWork(r)
  <2>1. \E s, f, t, d, a : Works(r, s, f, t, d, a)
    BY <1>1, <1>7, WorkIsWork
  <2>. QED
    BY <1>2, <1>3, <1>4, <2>1 DEF Works
<1>8. CASE EndDispatch(r) /\ Leaves(r)
  <2>1. DispatchAt(pc[r])
    BY <1>1, <1>8, AtDispatch DEF EndDispatch
  <2>. QED
    BY <1>2, <1>3, <1>4, <1>8, <2>1 DEF Leaves
<1>9. CASE EndCombine(r) /\ Leaves(r)
  <2>1. CombineAt(pc[r])
    BY <1>1, <1>9, AtCombine DEF EndCombine
  <2>. QED
    BY <1>2, <1>3, <1>4, <1>9, <2>1 DEF Leaves
<1>. QED
  BY <1>1, <1>5, <1>6, <1>7, <1>8, <1>9, StepIs

LEMMA TotalOfSegment ==
  ASSUME PlaceOK, NEW i, NEW e, NEW q, HasRows(i, <<e, q>>)
  PROVE  /\ e \in Experts /\ q \in Ranks /\ Owner(e) \in Ranks /\ e \in Local(Owner(e))
         /\ ExpertTotal(Matrix(RoutingAt(i)), e) > 0
<1>1. e \in Experts /\ q \in Ranks /\ i \in 1 .. Len(program) /\ Matrix(RoutingAt(i))[q][e] > 0
  BY DEF HasRows
<1>2. Matrix(RoutingAt(i)) \in Matrices
  BY MatrixIs
<1>3. Owner(e) \in Ranks /\ e \in Local(Owner(e))
  BY <1>1, OwnerIs
<1>. DEFINE c == Matrix(RoutingAt(i))
<1>4. /\ SegmentStart(c, q, e) \in Nat /\ c[q][e] \in Nat /\ PoolBase(c, e) <= SegmentStart(c, q, e)
      /\ SegmentStart(c, q, e) + c[q][e] <= PoolBase(c, e) + ExpertTotal(c, e)
      /\ ExpertTotal(c, e) \in Nat /\ PoolBase(c, e) \in Nat
  BY <1>1, <1>2, <1>3, SegmentIs, BaseIs, Columns
<1>. HIDE DEF c
<1>5. c[q][e] > 0
  BY <1>1 DEF c
<1>6. ExpertTotal(c, e) > 0
  BY <1>4, <1>5
<1>. QED
  BY <1>1, <1>3, <1>6 DEF c

\* Whoever has been through a gate knows that all have signalled.
LEMMA AllPast ==
  ASSUME PrologueInv, GatesOK, NEW i, DispatchAt(i), program[i].kind = "dispatch",
         NEW e \in Experts, ExpertTotal(Matrix(RoutingAt(i)), e) > 0, i < pc[Owner(e)]
  PROVE  \A q \in Ranks : Flagged(q, i, e) /\ Begun(q, i) /\ i <= pc[q]
<1>1. Owner(e) \in Ranks /\ e \in Local(Owner(e)) /\ i \in 1 .. Len(program)
  BY OwnerIs DEF DispatchAt
<1>2. Opened(Owner(e), i, e)
  BY DEF Opened
<1>3. \A q \in Ranks : Flagged(q, i, e)
  BY <1>1, <1>2 DEF GatesOK
<1>4. PlaceOK
  BY DEF PrologueInv
<1>5. i \in Nat /\ \A q \in Ranks : pc[q] \in Nat
  BY <1>1, <1>4, OfGated
<1>. QED
  BY <1>3, <1>5 DEF Flagged, Begun

\* All ranks are past an earlier combine when a segment of a later one, or
\* its flag, is under way.
LEMMA PastCombine ==
  ASSUME PrologueInv, GatesOK, NEW i, CombineAt(i), NEW j, CombineAt(j), j < i,
         NEW e, NEW q, HasRows(i, <<e, q>>), i <= pc[Owner(e)]
  PROVE  \A p \in Ranks : j < pc[p]
<1>1. PlaceOK
  BY DEF PrologueInv
<1>2. PICK d \in 1 .. Len(program) :
        /\ DispatchAt(d) /\ program[d].kind = "dispatch" /\ d < i /\ Fence(d) = i
        /\ program[d].layer = program[i].layer
  BY <1>1, CombineOf
<1>3. PICK c \in 1 .. Len(program) :
        /\ DispatchAt(c) /\ program[c].kind = "dispatch" /\ c < j /\ Fence(c) = j
  BY <1>1, CombineOf
<1>4. /\ i \in Nat /\ j \in Nat /\ d \in Nat /\ c \in Nat /\ \A p \in Ranks : pc[p] \in Nat
  BY <1>1, <1>2, <1>3, OfGated
<1>5. j < d
  <2>1. CASE c < d
    BY <1>1, <1>2, <1>3, <2>1, FenceBetween
  <2>2. CASE d < c
    <3>1. Fence(d) < c
      BY <1>1, <1>2, <1>3, <2>2, FenceBetween
    <3>. QED
      BY <1>2, <1>3, <1>4, <3>1
  <2>3. CASE c = d
    BY <1>2, <1>3, <1>4, <2>3
  <2>. QED
    BY <1>4, <2>1, <2>2, <2>3
<1>6. RoutingAt(d) = RoutingAt(i)
  BY <1>2 DEF RoutingAt
<1>7. e \in Experts /\ Owner(e) \in Ranks /\ ExpertTotal(Matrix(RoutingAt(d)), e) > 0
  BY <1>1, <1>6, TotalOfSegment
<1>8. d < pc[Owner(e)]
  BY <1>2, <1>4, <1>7
<1>9. \A p \in Ranks : d <= pc[p]
  BY <1>2, <1>7, <1>8, AllPast
<1>. QED
  BY <1>4, <1>5, <1>9

-----------------------------------------------------------------------------
(***************************************************************************)
(* Gates and arrivals: what a rank that went on had waited for.            *)
(***************************************************************************)

\* How a rank comes through a gate of a dispatch.
LEMMA OpenedIs ==
  ASSUME PrologueInv, PrologueInv', EpochsTyped, NEW r \in Ranks, RankStep(r),
         NEW q \in Ranks, NEW i, DispatchAt(i), NEW e \in Local(q), Opened(q, i, e)'
  PROVE  \/ Opened(q, i, e)
         \/ /\ q = r /\ i = pc[r] /\ In(r, Dispatches, "run")
            /\ \E x \in Pieces(r) : FinishPiece(r, x) /\ ExpertOf(r, x) = e
<1>1. PlaceOK /\ PlaceOK' /\ work \in [Ranks -> WorkType] /\ GatedAt(i) /\ i \in Nat
  <2>1. PlaceOK /\ PlaceOK' /\ work \in [Ranks -> WorkType]
    BY DEF PrologueInv, EpochsTyped, WorkType
  <2>. QED
    BY <2>1, OfGated
<1>2. /\ UNCHANGED <<program, routing>>
      /\ \A p \in Ranks \ {r} : pc'[p] = pc[p] /\ stage'[p] = stage[p] /\ work'[p] = work[p]
      /\ pc'[r] = pc[r] \/ (pc'[r] = pc[r] + 1 /\ (GatedAt(pc[r]) =>
                                      (EndDispatch(r) /\ DispatchAt(pc[r])) \/ (EndCombine(r) /\ CombineAt(pc[r]))))
      /\ \A p \in Ranks : pc[p] \in Nat
  BY <1>1, Progresses, OfGated
<1>3. RoutingAt(i)' = RoutingAt(i)
  BY <1>2 DEF RoutingAt
<1>. DEFINE Whole == program[i].kind = "redispatch" \/ ExpertTotal(Matrix(RoutingAt(i)), e) > 0
            Piece(p) == \E x \in work[p].tiles : x \in Pieces(p) /\ ExpertOf(p, x) = e
<1>4. CASE i < pc'[q] /\ Whole
  <2>1. CASE i < pc[q]
    BY <1>4, <2>1 DEF Opened
  <2>2. CASE ~ (i < pc[q])
    <3>1. q = r /\ i = pc[r] /\ pc'[r] = pc[r] + 1
      BY <1>1, <1>2, <1>4, <2>2
    <3>2. EndDispatch(r)
      <4>1. ~ CombineAt(i)
        BY DEF DispatchAt, CombineAt, Dispatches
      <4>. QED
        BY <1>1, <1>2, <3>1, <4>1
    <3>3. In(r, Dispatches, "run") /\ work[r].tiles = Pieces(r)
      BY <3>2 DEF EndDispatch
    <3>4. Running(r) /\ program[pc[r]].kind \in Dispatches /\ stage[r] = "run"
      BY <3>3 DEF In
    <3>5. \E x \in Pieces(r) : ExpertOf(r, x) = e
      BY <1>4, <3>1, <3>4, PiecesAre
    <3>. QED
      BY <3>1, <3>3, <3>4, <3>5 DEF Opened
  <2>. QED
    BY <2>1, <2>2
<1>5. CASE i = pc'[q] /\ stage'[q] = "run" /\ Piece(q)'
  <2>1. pc'[q] = pc[q]
    <3>1. CASE q # r
      BY <1>2, <3>1
    <3>2. CASE q = r /\ pc'[r] = pc[r] + 1
      <4>1. Walks(r) \/ Leaves(r)
        <5>1. Enters(r) => pc'[r] = pc[r]
          BY DEF Enters
        <5>2. DispatchWork(r) \/ CombineWork(r) => pc'[r] = pc[r]
          BY <1>1, WorkIsWork DEF Works
        <5>. QED
          BY <1>1, <1>2, <3>2, <5>1, <5>2, StepIs
      <4>. QED
        BY <1>5, <3>2, <4>1 DEF Walks, Leaves
    <3>. QED
      BY <1>2, <3>1, <3>2
  <2>2. i = pc[q] /\ Running(q) /\ program[pc[q]].kind # "prologue" /\ program[pc[q]].kind \in Dispatches
    BY <1>5, <2>1 DEF DispatchAt, Dispatches, Running
  <2>3. Pieces(q)' = Pieces(q) /\ \A x \in Pieces(q) : ExpertOf(q, x)' = ExpertOf(q, x)
    BY <1>2, <2>1, <2>2, SameHere
  <2>4. PICK x \in work'[q].tiles : x \in Pieces(q) /\ ExpertOf(q, x) = e
    BY <1>5, <2>3
  <2>5. CASE q # r
    BY <1>2, <1>5, <2>2, <2>4, <2>5 DEF Opened
  <2>6. CASE q = r /\ x \in work[r].tiles /\ stage[r] = "run"
    BY <2>2, <2>4, <2>6 DEF Opened
  <2>7. CASE q = r /\ ~ (x \in work[r].tiles /\ stage[r] = "run")
    <3>1. ~ (Walks(r) \/ Enters(r) \/ Leaves(r))
      BY <1>5, <2>2, <2>4, <2>7 DEF Walks, Enters, Leaves, WorkIs, Gated
    <3>2. ~ CombineWork(r)
      <4>1. CombineWork(r) => In(r, {"combine"}, "run")
        BY <1>1, WorkIsWork
      <4>. QED
        BY <2>2, <2>7, <4>1 DEF In, Dispatches
    <3>3. DispatchWork(r)
      BY <1>1, <3>1, <3>2, StepIs
    <3>4. In(r, Dispatches, "run") /\ stage[r] = "run"
      BY <1>1, <3>3, WorkIsWork DEF In
    <3>5. ASSUME NEW f \in Experts, PushTask(r, f) \/ SignalTask(r, f) PROVE FALSE
      BY <1>1, <2>4, <2>7, <3>4, <3>5, DispatchShapes DEF Works, WorkIs
    <3>6. PICK y \in Tiles \cup Experts : FinishPiece(r, y)
      BY <3>3, <3>5 DEF DispatchWork
    <3>7. x = y
      BY <1>1, <2>4, <2>7, <3>4, <3>6, DispatchShapes DEF Works, WorkIs
    <3>. QED
      BY <2>2, <2>4, <2>7, <3>4, <3>6, <3>7
  <2>. QED
    BY <2>5, <2>6, <2>7
<1>. QED
  BY <1>2, <1>3, <1>4, <1>5 DEF Opened

LEMMA GatesKept ==
  ASSUME PrologueInv, PrologueInv', LocalInv, GatesOK, FencesOK, NEW r \in Ranks, RankStep(r)
  PROVE  GatesOK'
<1>1. EpochsTyped /\ WorkOK /\ PlaceOK
  BY DEF LocalInv, PrologueInv
<1>2. UNCHANGED program
  BY <1>1, Progresses
<1>3. \A i : DispatchAt(i)' <=> DispatchAt(i)
  BY <1>2 DEF DispatchAt
<1>. SUFFICES ASSUME NEW p \in Ranks, NEW i \in 1 .. Len(program), DispatchAt(i),
                     NEW e \in Local(p), Opened(p, i, e)', NEW q \in Ranks
              PROVE  Flagged(q, i, e)'
  BY <1>2, <1>3 DEF GatesOK
<1>4. Flagged(q, i, e)
  <2>1. CASE Opened(p, i, e)
    BY <2>1 DEF GatesOK
  <2>2. CASE /\ p = r /\ i = pc[r] /\ In(r, Dispatches, "run")
             /\ \E x \in Pieces(r) : FinishPiece(r, x) /\ ExpertOf(r, x) = e
    <3>1. GateOpen(r, e)
      BY <2>2 DEF FinishPiece
    <3>. QED
      BY <2>2, <3>1, GateMeans
  <2>. QED
    BY <1>1, <2>1, <2>2, OpenedIs
<1>5. e \in Experts
  BY ToOwner
<1>. QED
  BY <1>1, <1>4, <1>5, DispatchFacts

LEMMA TilesToSpare ==
  ASSUME PrologueInv, NEW r \in Ranks, In(r, {"combine"}, "run"), Reduces(r, pc[r])
  PROVE  EmptyTiles(r) # {}
<1>1. PlaceOK
  BY DEF PrologueInv
<1>2. Running(r) /\ program[pc[r]].kind # "prologue"
  BY <1>1, AtCombine
<1>3. PICK R : R = RoutingAt(pc[r])
  OBVIOUS
<1>4. /\ MyTiles(r) = 0 .. RealTiles(Matrix(R), r) - 1 /\ Layer(r) \in Layers
      /\ R = routing[Layer(r)] /\ Matrix(R) \in Matrices /\ MaxTiles \in Nat
  BY <1>2, <1>3, WorkHere
<1>5. RealTiles(Matrix(R), r) < MaxTiles
  BY <1>3 DEF Reduces
<1>6. RealTiles(Matrix(R), r) \in Nat
  BY <1>4, TilesAre
<1>7. RealTiles(Matrix(R), r) \in Tiles /\ RealTiles(Matrix(R), r) \notin MyTiles(r)
  BY <1>4, <1>5, <1>6 DEF Tiles
<1>. QED
  BY <1>7 DEF EmptyTiles

\* How a rank comes to have reduced a token.
LEMMA ReducedIs ==
  ASSUME PrologueInv, PrologueInv', EpochsTyped, NEW r \in Ranks, RankStep(r),
         NEW q \in Ranks, NEW i, CombineAt(i), NEW s \in Slots, Reduced(q, i, s)'
  PROVE  \/ Reduced(q, i, s)
         \/ q = r /\ i = pc[r] /\ ReduceToken(r, TokenOf(s))
<1>1. PlaceOK /\ PlaceOK' /\ work \in [Ranks -> WorkType] /\ GatedAt(i) /\ i \in Nat
  <2>1. PlaceOK /\ PlaceOK' /\ work \in [Ranks -> WorkType]
    BY DEF PrologueInv, EpochsTyped, WorkType
  <2>. QED
    BY <2>1, OfGated
<1>2. /\ UNCHANGED <<program, routing>>
      /\ \A p \in Ranks \ {r} : pc'[p] = pc[p] /\ stage'[p] = stage[p] /\ work'[p] = work[p]
      /\ pc'[r] = pc[r] \/ (pc'[r] = pc[r] + 1 /\ (GatedAt(pc[r]) =>
                                      (EndDispatch(r) /\ DispatchAt(pc[r])) \/ (EndCombine(r) /\ CombineAt(pc[r]))))
      /\ \A p \in Ranks : pc[p] \in Nat
  BY <1>1, Progresses, OfGated
<1>2a. Reduces(q, i)' <=> Reduces(q, i)
  BY <1>2 DEF Reduces, RoutingAt
<1>3. CASE q # r
  BY <1>2, <1>3, <1>2a DEF Reduced
<1>4. CASE q = r /\ i < pc'[r] /\ ~ (i < pc[r])
  <2>1. i = pc[r] /\ pc'[r] = pc[r] + 1 /\ Reduces(r, i)
    <3>1. i = pc[r] /\ pc'[r] = pc[r] + 1
      BY <1>1, <1>2, <1>4
    <3>. QED
      BY <1>4, <1>2a, <3>1 DEF Reduced
  <2>2. EndCombine(r)
    <3>1. ~ DispatchAt(i)
      BY DEF DispatchAt, CombineAt, Dispatches
    <3>. QED
      BY <1>1, <1>2, <2>1, <3>1
  <2>3. In(r, {"combine"}, "run") /\ work[r].reduced = Tokens
    <3>1. In(r, {"combine"}, "run")
      BY <2>2 DEF EndCombine
    <3>2. EmptyTiles(r) # {}
      BY <2>1, <3>1, TilesToSpare
    <3>. QED
      BY <2>2, <3>1, <3>2 DEF EndCombine
  <2>4. TokenOf(s) \in Tokens
    BY TokenIs
  <2>. QED
    BY <1>4, <2>1, <2>3, <2>4 DEF Reduced, In
<1>5. CASE q = r /\ i < pc[r]
  <2>1. i # pc'[r]
    BY <1>1, <1>2, <1>5
  <2>. QED
    BY <1>5, <1>2a, <2>1 DEF Reduced
<1>6. CASE q = r /\ ~ (i < pc'[r])
  <2>1. i = pc'[r] /\ stage'[r] = "run" /\ TokenOf(s) \in work'[r].reduced
    BY <1>6 DEF Reduced
  <2>2. CASE Walks(r) \/ Leaves(r)
    BY <2>1, <2>2 DEF Walks, Leaves
  <2>3. CASE Enters(r)
    BY <2>1, <2>3 DEF Enters, WorkIs
  <2>4. CASE DispatchWork(r)
    <3>1. In(r, Dispatches, "run") /\ pc'[r] = pc[r]
      BY <1>1, <2>4, WorkIsWork DEF Works
    <3>. QED
      BY <1>1, <2>1, <3>1, AtDispatch
  <2>5. CASE CombineWork(r)
    <3>1. In(r, {"combine"}, "run") /\ pc'[r] = pc[r] /\ stage[r] = "run"
      BY <1>1, <2>5, WorkIsWork DEF Works, In
    <3>2. CASE TokenOf(s) \in work[r].reduced
      BY <1>6, <2>1, <3>1, <3>2 DEF Reduced
    <3>3. CASE TokenOf(s) \notin work[r].reduced
      <4>1. ASSUME NEW k \in Tiles, NEW n \in 1 .. NBlocks, StoreBlock(r, k, n) \/ CountBlock(r, k, n)
            PROVE  FALSE
        BY <1>1, <2>1, <3>3, <4>1, CombineShapes DEF Works, WorkIs
      <4>2. ASSUME NEW seg \in Experts \X Ranks, PushSegment(r, seg) \/ SignalSegment(r, seg) PROVE FALSE
        BY <1>1, <2>1, <3>3, <4>2, CombineShapes DEF Works, WorkIs
      <4>3. ~ AlignEmptyTiles(r)
        BY <1>1, <2>1, <3>3, CombineShapes DEF Works, WorkIs
      <4>4. PICK t \in Tokens : ReduceToken(r, t)
        BY <2>5, <4>1, <4>2, <4>3 DEF CombineWork
      <4>5. t = TokenOf(s)
        <5>1. Works(r, work[r].sent, work[r].flagged, work[r].tiles, work[r].reduced \cup {t}, work[r].aligned)
          BY <1>1, <4>4, CombineShapes
        <5>2. work'[r].reduced = work[r].reduced \cup {t}
          BY <5>1 DEF Works, WorkIs
        <5>. QED
          BY <2>1, <3>3, <5>2
      <4>. QED
        BY <1>6, <2>1, <3>1, <4>4, <4>5
    <3>. QED
      BY <3>2, <3>3
  <2>. QED
    BY <1>1, <2>2, <2>3, <2>4, <2>5, StepIs
<1>. QED
  BY <1>3, <1>4, <1>5, <1>6

\* What the arrival of a slot's flag means.
LEMMA ArrivedMeans ==
  ASSUME PrologueInv, LocalInv, NEW r \in Ranks, In(r, {"combine"}, "run"),
         NEW t, AllArrived(r, t), NEW s \in ValidSlots(r, t)
  PROVE  LET e == RoutingAt(pc[r])[r][s] IN
         /\ s \in Slots /\ e = Choices(r)[s] /\ e # NoExpert /\ CombineAt(pc[r])
         /\ Flagged(Owner(e), pc[r], <<e, r>>)
<1>1. PlaceOK /\ EpochsTyped /\ EpochsOK /\ ReduceAll
  BY ReduceParts DEF PrologueInv, LocalInv
<1>2. CombineAt(pc[r]) /\ Running(r) /\ program[pc[r]].kind # "prologue"
  BY <1>1, AtCombine
<1>3. s \in Slots /\ Choices(r)[s] # NoExpert /\ RoutingAt(pc[r])[r][s] = Choices(r)[s]
  BY <1>2, WorkHere DEF ValidSlots
<1>4. PICK b, v : b = Bank(r) /\ v = combEpoch[r].rows[Bank(r)]
  OBVIOUS
<1>5. b \in Banks /\ v \in Nat /\ CallOf(b, v) = pc[r]
  BY <1>1, <1>4, CallHere
<1>6. v # 0
  <2>1. pc[r] \in Nat /\ pc[r] >= 1
    BY <1>1, PlaceIsNat
  <2>2. b \in {0, 1}
    BY <1>5 DEF Banks
  <2>. QED
    BY <1>5, <2>1, <2>2 DEF CallOf
<1>7. reduceFlag[r][b][s] = v
  BY <1>4 DEF AllArrived
<1>8. Stands(r, b, s, v)
  BY <1>1, <1>3, <1>5, <1>6, <1>7 DEF ReduceAll
<1>. QED
  BY <1>2, <1>3, <1>5, <1>8 DEF Stands

LEMMA ReducedKept ==
  ASSUME PrologueInv, PrologueInv', LocalInv, ReducedOK, NEW r \in Ranks, RankStep(r)
  PROVE  ReducedOK'
<1>1. EpochsTyped /\ WorkOK /\ PlaceOK
  BY DEF LocalInv, PrologueInv
<1>2. UNCHANGED <<program, routing>>
  BY <1>1, Progresses
<1>3. \A i : (CombineAt(i)' <=> CombineAt(i)) /\ RoutingAt(i)' = RoutingAt(i)
  BY <1>2 DEF CombineAt, RoutingAt
<1>. SUFFICES ASSUME NEW q \in Ranks, NEW i \in 1 .. Len(program), NEW s \in Slots,
                     CombineAt(i), RoutingAt(i)[q][s] # NoExpert, Reduced(q, i, s)'
              PROVE  Flagged(Owner(RoutingAt(i)[q][s]), i, <<RoutingAt(i)[q][s], q>>)'
  BY <1>2, <1>3 DEF ReducedOK
<1>4. PICK e : e = RoutingAt(i)[q][s]
  OBVIOUS
<1>5. Flagged(Owner(e), i, <<e, q>>)
  <2>1. CASE Reduced(q, i, s)
    BY <1>4, <2>1 DEF ReducedOK
  <2>2. CASE q = r /\ i = pc[r] /\ ReduceToken(r, TokenOf(s))
    <3>1. In(r, {"combine"}, "run") /\ AllArrived(r, TokenOf(s))
      BY <2>2 DEF ReduceToken
    <3>2. Running(r) /\ program[pc[r]].kind # "prologue"
      BY <1>1, <3>1, AtCombine
    <3>3. Choices(r) = RoutingAt(i)[r]
      BY <2>2, <3>2, WorkHere
    <3>4. s \in ValidSlots(r, TokenOf(s))
      BY <2>2, <3>3 DEF ValidSlots
    <3>. QED
      BY <1>4, <2>2, <3>1, <3>4, ArrivedMeans
  <2>. QED
    BY <1>1, <2>1, <2>2, ReducedIs
<1>6. HasRows(i, <<e, q>>)
  BY <1>1, <1>4, SlotHasRows
<1>7. Flagged(Owner(<<e, q>>[1]), i, <<e, q>>)'
  BY <1>1, <1>5, <1>6, CombineFacts
<1>. QED
  BY <1>2, <1>4, <1>7 DEF Flagged, RoutingAt

-----------------------------------------------------------------------------
(***************************************************************************)
(* Behind the last kernel of an operation everybody has begun it.          *)
(***************************************************************************)

LEMMA LocalSome ==
  ASSUME NEW r \in Ranks
  PROVE  \E e \in Local(r) : TRUE
<1>1. /\ Local(r) = ExpertsPerRank * r .. ExpertsPerRank * r + ExpertsPerRank - 1
      /\ ExpertsPerRank * r \in Nat
  BY LocalRange
<1>2. ExpertsPerRank * r \in Local(r)
  BY <1>1, Numbers
<1>. QED
  BY <1>2

\* Nobody ends the kernel that a dispatch's rows are waited for in before
\* all ranks have begun that dispatch.
LEMMA FencesKept ==
  ASSUME PrologueInv, PrologueInv', LocalInv, NoRankIdle,
         GatesOK, ReducedOK, FencesOK, NEW p \in Ranks, RankStep(p)
  PROVE  FencesOK'
<1>1. EpochsTyped /\ WorkOK /\ PlaceOK
  BY DEF LocalInv, PrologueInv
<1>2. UNCHANGED program
  BY <1>1, Progresses
<1>3. \A i : (DispatchAt(i)' <=> DispatchAt(i)) /\ Fence(i)' = Fence(i)
  BY <1>2 DEF DispatchAt, Fence
<1>. SUFFICES ASSUME NEW q \in Ranks, NEW r \in Ranks, NEW i \in 1 .. Len(program),
                     DispatchAt(i), Fence(i) < pc'[q]
              PROVE  Begun(r, i)'
  BY <1>2, <1>3 DEF FencesOK
<1>4. GatedAt(i) /\ i \in Nat /\ Fence(i) \in Nat /\ \A x \in Ranks : pc[x] \in Nat
  BY <1>1, OfGated, FenceIs
<1>5. SUFFICES Begun(r, i)
  BY <1>1, <1>4, Progresses
<1>6. CASE Fence(i) < pc[q]
  BY <1>6 DEF FencesOK
<1>7. CASE ~ (Fence(i) < pc[q])
  <2>1. /\ q = p /\ pc'[p] = pc[p] + 1 /\ Fence(i) = pc[p]
        /\ GatedAt(pc[p]) => (EndDispatch(p) /\ DispatchAt(pc[p])) \/ (EndCombine(p) /\ CombineAt(pc[p]))
    <3>1. pc'[q] # pc[q]
      BY <1>7
    <3>2. q = p /\ pc'[p] = pc[p] + 1
      BY <1>1, <3>1, Progresses
    <3>. QED
      BY <1>1, <1>4, <1>7, <3>2, Progresses
  <2>2. CASE program[i].kind = "redispatch"
    <3>1. i = pc[p] /\ EndDispatch(p)
      <4>1. i = pc[p]
        BY <1>1, <2>1, <2>2, FenceIs
      <4>2. ~ CombineAt(i)
        BY <2>2 DEF CombineAt
      <4>. QED
        BY <1>4, <2>1, <4>1, <4>2
    <3>2. In(p, Dispatches, "run") /\ work[p].tiles = Pieces(p)
      BY <3>1 DEF EndDispatch
    <3>3. PICK e \in Local(p) : TRUE
      BY LocalSome
    <3>4. \E x \in Pieces(p) : ExpertOf(p, x) = e
      BY <2>2, <3>1, <3>2, PiecesAre DEF In
    <3>5. Opened(p, i, e)
      BY <3>1, <3>2, <3>4 DEF Opened, In
    <3>6. Flagged(r, i, e)
      BY <3>5 DEF GatesOK
    <3>. QED
      BY <3>6 DEF Flagged, Begun
  <2>3. CASE program[i].kind = "dispatch"
    <3>1. PICK c : c = Fence(i)
      OBVIOUS
    <3>2. /\ CombineAt(c) /\ c \in 1 .. Len(program) /\ program[c].layer = program[i].layer
          /\ i < c /\ c = pc[p] /\ c \in Nat
      BY <1>1, <2>1, <2>3, <3>1, FenceIs
    <3>3. EndCombine(p)
      <4>1. GatedAt(c) /\ ~ DispatchAt(c)
        BY <1>1, <3>2, OfGated DEF CombineAt, DispatchAt, Dispatches
      <4>. QED
        BY <2>1, <3>2, <4>1
    <3>4. In(p, {"combine"}, "run") /\ (Reduces(p, c) => work[p].reduced = Tokens)
      <4>1. In(p, {"combine"}, "run")
        BY <3>3 DEF EndCombine
      <4>2. Reduces(p, c) => EmptyTiles(p) # {}
        BY <3>2, <4>1, TilesToSpare
      <4>. QED
        BY <3>3, <4>1, <4>2 DEF EndCombine
    <3>5. RoutingAt(c) = RoutingAt(i) /\ program[i].layer \in Layers
      BY <1>1, <3>2, CombineIs DEF RoutingAt
    <3>6. PICK x \in Ranks, s \in Slots :
            RoutingAt(c)[x][s] # NoExpert /\ (x = p \/ Owner(RoutingAt(c)[x][s]) = p)
      <4>1. routing \in Routings
        BY <1>1 DEF PlaceOK
      <4>. QED
        BY <3>2, <3>5, <4>1 DEF NoRankIdle, RoutingAt
    <3>7. PICK e : e = RoutingAt(c)[x][s]
      OBVIOUS
    <3>8. HasRows(c, <<e, x>>)
      BY <1>1, <3>2, <3>6, <3>7, SlotHasRows
    <3>9. e \in Experts /\ Owner(e) \in Ranks /\ ExpertTotal(Matrix(RoutingAt(i)), e) > 0
      BY <1>1, <3>5, <3>8, TotalOfSegment
    <3>10. CASE Owner(e) = p \/ Reduces(p, c)
      <4>1. CASE Owner(e) = p
        BY <2>3, <3>2, <3>9, <4>1, AllPast
      <4>2. CASE x = p /\ Reduces(p, c)
        <5>1. Reduced(p, c, s)
          BY <3>2, <3>4, <4>2, TokenIs DEF Reduced, In
        <5>2. Flagged(Owner(e), c, <<e, p>>)
          BY <3>2, <3>6, <3>7, <4>2, <5>1 DEF ReducedOK
        <5>3. c <= pc[Owner(e)]
          BY <1>4, <3>2, <3>9, <5>2 DEF Flagged
        <5>4. i < pc[Owner(e)]
          BY <1>4, <3>2, <3>9, <5>3
        <5>. QED
          BY <2>3, <3>9, <5>4, AllPast
      <4>. QED
        BY <3>6, <3>7, <3>10, <4>1, <4>2
    <3>11. CASE ~ Reduces(p, c)
      <4>1. Matrix(RoutingAt(i)) \in Matrices
        BY MatrixIs
      <4>2. PICK f \in Local(p) : ExpertTotal(Matrix(RoutingAt(i)), f) # 0
        BY <3>5, <3>11, <4>1, FullPool DEF Reduces
      <4>3. ExpertTotal(Matrix(RoutingAt(i)), f) > 0 /\ f \in Experts /\ Owner(f) = p
        <5>1. f \in Experts /\ Owner(f) = p
          BY DEF Local
        <5>2. ExpertTotal(Matrix(RoutingAt(i)), f) \in Nat
          BY <4>1, <5>1, Columns
        <5>. QED
          BY <4>2, <5>1, <5>2
      <4>. QED
        BY <2>3, <3>2, <4>3, AllPast
    <3>. QED
      BY <3>10, <3>11
  <2>. QED
    BY <1>1, <2>2, <2>3, FenceIs
<1>. QED
  BY <1>6, <1>7

\* A row that has come home is not overwritten before it is reduced.
LEMMA CombKept ==
  ASSUME PrologueInv, PrologueInv', LocalInv, GatesOK, CombOK, NEW r \in Ranks, RankStep(r)
  PROVE  CombOK'
<1>1. EpochsTyped /\ WorkOK /\ PlaceOK /\ TilesOK /\ RowsTyped
  BY DEF LocalInv, PrologueInv
<1>2. UNCHANGED <<program, routing>>
  BY <1>1, Progresses
<1>3. \A i : (CombineAt(i)' <=> CombineAt(i)) /\ RoutingAt(i)' = RoutingAt(i)
  BY <1>2 DEF CombineAt, RoutingAt
<1>. SUFFICES ASSUME NEW q \in Ranks, NEW i \in 1 .. Len(program), NEW s \in Slots, NEW e,
                     e = RoutingAt(i)[q][s], CombineAt(i), e # NoExpert, pc'[q] <= i,
                     Pushed(Owner(e), i, <<e, q>>)'
              PROVE  comb'[q][s] = <<i, e>>
  <2>1. ASSUME NEW q \in Ranks, NEW i \in 1 .. Len(program), NEW s \in Slots,
               CombineAt(i), RoutingAt(i)[q][s] # NoExpert, pc'[q] <= i,
               Pushed(Owner(RoutingAt(i)[q][s]), i, <<RoutingAt(i)[q][s], q>>)'
        PROVE  comb'[q][s] = <<i, RoutingAt(i)[q][s]>>
    <3>1. PICK e : e = RoutingAt(i)[q][s]
      OBVIOUS
    <3>2. Pushed(Owner(e), i, <<e, q>>)'
      BY <1>2, <2>1, <3>1 DEF Pushed, RoutingAt
    <3>. QED
      BY <2>1, <3>1, <3>2
  <2>. QED
    BY <1>2, <1>3, <2>1 DEF CombOK
<1>4. HasRows(i, <<e, q>>) /\ e \in Experts /\ Owner(e) \in Ranks /\ e \in Local(Owner(e))
  BY <1>1, SlotHasRows
<1>5. /\ i \in Nat /\ pc[q] \in Nat /\ pc[r] \in Nat /\ pc[q] <= i
      /\ s \in To(RoutingAt(i), q, e)
  <2>1. i \in Nat /\ pc[q] \in Nat /\ pc[r] \in Nat
    BY <1>1, OfGated
  <2>2. pc'[q] = pc[q] \/ pc'[q] = pc[q] + 1
    BY <1>1, Progresses
  <2>. QED
    BY <2>1, <2>2 DEF To
<1>6. Pushed(Owner(e), i, <<e, q>>) \/ (i = pc[r] /\ PushSegment(r, <<e, q>>))
  <2>1. Pushed(Owner(<<e, q>>[1]), i, <<e, q>>)'
          <=> Pushed(Owner(<<e, q>>[1]), i, <<e, q>>) \/ (i = pc[r] /\ PushSegment(r, <<e, q>>))
    BY <1>1, <1>4, CombineFacts
  <2>. QED
    BY <2>1
<1>7. ASSUME NEW f, NEW z, <<f, z>> \in Experts \X Ranks, PushSegment(r, <<f, z>>)
      PROVE  /\ f \in Local(r) /\ Owner(f) = r /\ CombineAt(pc[r]) /\ HasRows(pc[r], <<f, z>>)
             /\ \A x \in Ranks \ {z} : comb'[x] = comb[x]
             /\ \A y \in Slots : y \in To(RoutingAt(pc[r]), z, f) => comb'[z][y] = <<pc[r], f>>
             /\ \A y \in Slots : y \notin To(RoutingAt(pc[r]), z, f) => comb'[z][y] = comb[z][y]
  <2>. DEFINE seg == <<f, z>>
  <2>. HIDE DEF seg
  <2>0. seg \in Experts \X Ranks /\ PushSegment(r, seg) /\ seg[1] = f /\ seg[2] = z /\ seg = <<f, z>>
    BY <1>7 DEF seg
  <2>1. /\ seg \in Segments(r) /\ seg \in Local(r) \X Ranks
        /\ \A x \in Ranks \ {seg[2]} : comb'[x] = comb[x]
        /\ \A y \in Slots : comb'[seg[2]][y] =
              IF \E row \in RowsOfSegment(r, seg) : SlotOf(r, row) = y
              THEN <<pc[r], seg[1]>> ELSE comb[seg[2]][y]
    BY <1>1, <2>0, RowsReturned, SMTT(30), ZenonT(30)
  <2>2. In(r, {"combine"}, "run")
    BY <1>7 DEF PushSegment
  <2>3. CombineAt(pc[r]) /\ Running(r) /\ program[pc[r]].kind # "prologue"
    BY <1>1, <2>2, AtCombine
  <2>4. f \in Local(r) /\ z \in Ranks /\ Owner(f) = r /\ f \in Experts
    BY <2>0, <2>1, ToOwner
  <2>5. HasRows(pc[r], <<f, z>>)
    <3>1. Segments(r) = {x \in Local(r) \X Ranks : Matrix(RoutingAt(pc[r]))[x[2]][x[1]] > 0}
      BY <2>3, WorkHere
    <3>. QED
      BY <2>0, <2>1, <2>3, <2>4, <3>1 DEF HasRows, CombineAt
  <2>6. /\ \A row \in RowsOfSegment(r, <<f, z>>) : SlotOf(r, row) \in To(RoutingAt(pc[r]), z, f)
        /\ \A y \in To(RoutingAt(pc[r]), z, f) :
             \E row \in RowsOfSegment(r, <<f, z>>) : SlotOf(r, row) = y
    BY <2>3, <2>4, SlotsHome, SMTT(30), ZenonT(30)
  <2>. QED
    BY <2>0, <2>1, <2>3, <2>4, <2>5, <2>6
<1>8. CASE i = pc[r] /\ PushSegment(r, <<e, q>>)
  BY <1>4, <1>5, <1>7, <1>8
<1>9. CASE Pushed(Owner(e), i, <<e, q>>)
  <2>1. comb[q][s] = <<i, e>> /\ i <= pc[Owner(e)]
    BY <1>1, <1>4, <1>5, <1>9, OfGated DEF CombOK, Pushed
  <2>. SUFFICES ASSUME comb'[q][s] # comb[q][s]
                PROVE  comb'[q][s] = <<i, e>>
    BY <2>1
  <2>2. PICK f \in Experts, z \in Ranks : PushSegment(r, <<f, z>>)
    <3>1. ~ (\A seg \in Experts \X Ranks : ~ PushSegment(r, seg))
      BY <1>1, CombineFacts
    <3>. QED
      BY <3>1
  <2>3. PICK j : j = pc[r]
    OBVIOUS
  <2>4. /\ Owner(f) = r /\ CombineAt(j) /\ HasRows(j, <<f, z>>) /\ z = q
        /\ s \in To(RoutingAt(j), q, f) /\ comb'[q][s] = <<j, f>>
    BY <1>7, <2>2, <2>3
  <2>5. CASE j = i
    BY <2>4, <2>5 DEF To
  <2>6. CASE j < i
    <3>1. j < pc[r]
      BY <1>4, <2>1, <2>4, <2>6, PastCombine
    <3>. QED
      BY <1>5, <2>3, <3>1
  <2>7. CASE i < j
    <3>1. i < pc[q]
      BY <1>5, <2>3, <2>4, <2>7, PastCombine
    <3>. QED
      BY <1>5, <3>1
  <2>. QED
    BY <1>5, <2>3, <2>5, <2>6, <2>7
<1>. QED
  BY <1>6, <1>8, <1>9

\* Whoever begins a dispatch of another layer too early is seen.
LEMMA LayersKept ==
  ASSUME PrologueInv, PrologueInv', LocalInv, FencesOK, LayersApart, NEW p \in Ranks, RankStep(p)
  PROVE  LayersApart' /\ (overtaken => overtaken')
<1>1. EpochsTyped /\ WorkOK /\ PlaceOK
  BY DEF LocalInv, PrologueInv
<1>2. UNCHANGED program
  BY <1>1, Progresses
<1>3. \A i : DispatchAt(i)' <=> DispatchAt(i)
  BY <1>2 DEF DispatchAt
<1>4. overtaken => overtaken'
  BY HistoryIs DEF BeginDispatch
<1>. SUFFICES ASSUME ~ overtaken', NEW q \in Ranks, NEW r \in Ranks,
                     NEW i \in 1 .. Len(program), NEW j \in 1 .. Len(program),
                     DispatchAt(i), DispatchAt(j), i < j, program[i].layer # program[j].layer,
                     Begun(q, j)'
              PROVE  i < pc'[r]
  BY <1>2, <1>3, <1>4 DEF LayersApart
<1>5. /\ GatedAt(i) /\ GatedAt(j) /\ i \in Nat /\ j \in Nat /\ pc[r] \in Nat
      /\ pc'[r] = pc[r] \/ pc'[r] = pc[r] + 1
  BY <1>1, OfGated, Progresses
<1>6. SUFFICES i < pc[r]
  BY <1>5
<1>7. CASE Begun(q, j)
  BY <1>4, <1>7 DEF LayersApart
<1>8. CASE ~ Begun(q, j)
  <2>1. q = p /\ j = pc[p] /\ BeginDispatch(p)
    <3>1. q = p /\ j = pc[p] /\ (BeginDispatch(p) \/ BeginCombine(p))
      BY <1>1, <1>5, <1>8, Progresses
    <3>2. BeginCombine(p) => CombineAt(pc[p])
      BY <1>1, AtCombine DEF BeginCombine
    <3>. QED
      BY <3>1, <3>2 DEF DispatchAt, CombineAt, Dispatches
  <2>2. Fence(i) < pc[p]
    BY <1>1, <2>1, FenceBetween
  <2>3. Begun(r, i)
    BY <2>2 DEF FencesOK
  <2>4. ~ Overtakes(p, r)
    BY <2>1 DEF BeginDispatch
  <2>. QED
    BY <1>5, <2>1, <2>3, <2>4 DEF Begun, Overtakes, DispatchAt, Layer
<1>. QED
  BY <1>7, <1>8

-----------------------------------------------------------------------------
(***************************************************************************)
(* Rows stay in the pool for as long as they are read.                     *)
(***************************************************************************)

\* Which token a row of a dispatch carries does not change any more.
LEMMA TokenKept ==
  ASSUME PrologueInv, NEW p \in Ranks, RankStep(p), NEW q \in Ranks, NEW i, DispatchAt(i), i <= pc[q]
  PROVE  handle'[q][program[i].layer].token = handle[q][program[i].layer].token
<1>1. PlaceOK /\ HandleOK /\ program \in Programs
  BY DEF PrologueInv, PlaceOK
<1>2. i \in 1 .. Len(program) /\ program[i].kind # "prologue" /\ i \in Nat /\ pc[q] \in Nat
  BY <1>1, OfGated DEF DispatchAt, Dispatches
<1>3. PICK l : l = program[i].layer
  OBVIOUS
<1>4. l \in Layers /\ HasTables(handle[q][l], routing[l], q)
  BY <1>2, <1>3, HandleAt
<1>5. PICK k \in 1 .. Len(program) : PrologueAt(program, k) /\ k < i /\ program[k].layer = l
  BY <1>1, <1>2, <1>3, PrologueOf
<1>6. ASSUME NEW w, In(p, {"prologue"}, w), NEW new, Replaced(p, Layer(p), new)
      PROVE  handle'[q][l] = handle[q][l]
  <2>1. PrologueAt(program, pc[p]) /\ Layer(p) \in Layers /\ Layer(p) = program[pc[p]].layer
    BY <1>1, <1>6, AtPrologue
  <2>2. ~ (q = p /\ l = Layer(p))
    <3>. SUFFICES ASSUME q = p, l = Layer(p) PROVE FALSE
      OBVIOUS
    <3>1. k = pc[p]
      BY <1>1, <1>5, <2>1, OnePrologue
    <3>. QED
      BY <1>2, <1>5, <3>1
  <2>. QED
    BY <1>1, <1>4, <1>6, <2>1, <2>2, OneHandle
<1>7. CASE BuildTables(p)
  <2>1. \E new : Replaced(p, Layer(p), new) /\ In(p, {"prologue"}, "tables")
    BY <1>7 DEF BuildTables, Replaced
  <2>. QED
    BY <1>3, <1>6, <2>1
<1>8. CASE Scatter(p)
  <2>1. \E new : Replaced(p, Layer(p), new) /\ In(p, {"prologue"}, "scatter")
    BY <1>8 DEF Scatter, Replaced
  <2>. QED
    BY <1>3, <1>6, <2>1
<1>9. CASE CloneSlots(p)
  <2>1. \E new : Replaced(p, Layer(p), new) /\ In(p, {"prologue"}, "clone")
    BY <1>9 DEF CloneSlots, Replaced
  <2>. QED
    BY <1>3, <1>6, <2>1
<1>10. CASE SaveWeights(p)
  <2>1. PICK L : L = Layer(p)
    OBVIOUS
  <2>2. L \in Layers
    BY <1>1, <1>10, <2>1, ProgramIs, PlaceIsNat DEF SaveWeights, In, Running, Layer
  <2>3. Replaced(p, L, [handle[p][L] EXCEPT !.weight = origin[p]])
    BY <1>10, <2>1 DEF SaveWeights, Replaced
  <2>4. CASE q = p /\ l = L
    <3>1. handle'[q][l] = [handle[q][l] EXCEPT !.weight = origin[p]]
      BY <1>1, <2>2, <2>3, <2>4, OneHandle
    <3>2. "token" \in DOMAIN handle[q][l]
      BY <1>4 DEF HasTables
    <3>. QED
      BY <1>3, <3>1, <3>2
  <2>5. CASE ~ (q = p /\ l = L)
    BY <1>1, <1>3, <1>4, <2>2, <2>3, <2>5, OneHandle
  <2>. QED
    BY <2>4, <2>5
<1>11. CASE Histogram(p) \/ BarrierStep(p) \/ PushCounts(p) \/ Quiet(p)
  <2>1. UNCHANGED handle
    BY <1>11 DEF Histogram, BarrierStep, PushCounts, Quiet, localVars
  <2>. QED
    BY <2>1
<1>. QED
  BY <1>1, <1>7, <1>8, <1>9, <1>10, <1>11, Steps

\* A row of the pool is not overwritten while the dispatch it came in needs it.
LEMMA PoolKept ==
  ASSUME PrologueInv, PrologueInv', LocalInv, SpareTile, ReducedOK, LayersApart, PoolOK,
         NEW p \in Ranks, RankStep(p), overtaken => overtaken'
  PROVE  PoolOK'
<1>1. EpochsTyped /\ WorkOK /\ PlaceOK /\ RowsTyped
  BY DEF LocalInv, PrologueInv
<1>2. UNCHANGED <<program, routing>>
  BY <1>1, Progresses
<1>3. \A i : (DispatchAt(i)' <=> DispatchAt(i)) /\ RoutingAt(i)' = RoutingAt(i) /\ LastUse(i)' = LastUse(i)
  BY <1>2 DEF DispatchAt, RoutingAt, LastUse, Fence
<1>. SUFFICES ASSUME ~ overtaken', NEW q \in Ranks, NEW r \in Ranks, NEW i \in 1 .. Len(program),
                     NEW e \in Local(r), DispatchAt(i), Pushed(q, i, e)', pc'[r] <= LastUse(i),
                     NEW row \in Segment(RoutingAt(i), q, e)
              PROVE  pool'[r][row] = PushedRow(q, i, e, row)'
  BY <1>2, <1>3 DEF PoolOK
<1>4. ~ overtaken
  OBVIOUS
<1>5. /\ e \in Experts /\ Owner(e) = r /\ i \in Nat /\ LastUse(i) \in Nat
      /\ pc[q] \in Nat /\ pc[r] \in Nat /\ pc[p] \in Nat /\ pc[r] <= LastUse(i)
  <2>1. /\ i \in Nat /\ LastUse(i) \in Nat /\ pc[q] \in Nat /\ pc[r] \in Nat /\ pc[p] \in Nat
    BY <1>1, OfGated, FenceIs
  <2>2. pc'[r] = pc[r] \/ pc'[r] = pc[r] + 1
    BY <1>1, Progresses
  <2>3. pc[r] <= LastUse(i)
    BY <2>1, <2>2
  <2>. QED
    BY <2>1, <2>3, ToOwner
<1>6. Pushed(q, i, e) \/ (q = p /\ i = pc[p] /\ PushTask(p, e))
  BY <1>1, <1>5, DispatchFacts
<1>7. i <= pc[q]
  BY <1>5, <1>6 DEF Pushed
<1>8. PushedRow(q, i, e, row)' = PushedRow(q, i, e, row)
  <2>1. handle'[q][program[i].layer].token = handle[q][program[i].layer].token
    BY <1>7, TokenKept
  <2>. QED
    BY <1>2, <2>1 DEF PushedRow
<1>. SUFFICES pool'[r][row] = PushedRow(q, i, e, row)
  BY <1>8
<1>9. /\ program[i].layer \in Layers /\ RoutingAt(i) = routing[program[i].layer]
      /\ row \in PoolRows /\ Matrix(RoutingAt(i)) \in Matrices
  <2>1. program[i].layer \in Layers
    BY <1>1, CombineIs
  <2>2. RoutingAt(i) = routing[program[i].layer]
    BY DEF RoutingAt
  <2>3. row \in PoolRows
    BY <1>1, <2>1, <2>2, SegmentInPool
  <2>. QED
    BY <2>1, <2>2, <2>3, MatrixIs
<1>10. CASE q = p /\ i = pc[p] /\ PushTask(p, e)
  BY <1>1, <1>5, <1>9, <1>10, RowsPushed
<1>11. CASE Pushed(q, i, e)
  <2>1. pool[r][row] = PushedRow(q, i, e, row)
    BY <1>4, <1>5, <1>11 DEF PoolOK
  <2>. SUFFICES ASSUME pool'[r][row] # pool[r][row]
                PROVE  pool'[r][row] = PushedRow(q, i, e, row)
    BY <2>1
  <2>2. PICK f \in Experts : PushTask(p, f)
    BY <1>1, DispatchFacts
  <2>3. PICK j : j = pc[p]
    OBVIOUS
  <2>4. In(p, Dispatches, "run")
    BY <2>2 DEF PushTask
  <2>5. DispatchAt(j) /\ j \in Nat /\ stage[p] = "run" /\ j \in 1 .. Len(program)
    BY <1>1, <2>3, <2>4, AtDispatch DEF DispatchAt
  <2>6. Owner(f) = r /\ f \in Local(r)
    <3>1. Owner(f) = r
      BY <1>1, <2>2, RowsPushed
    <3>. QED
      BY <3>1 DEF Local
  <2>7. row \in Segment(RoutingAt(j), p, f) /\ pool'[r][row] = PushedRow(p, j, f, row)
    BY <1>1, <1>9, <2>2, <2>3, <2>6, RowsPushed
  <2>8. program[i].layer = program[j].layer => f = e /\ p = q
    <3>. SUFFICES ASSUME program[i].layer = program[j].layer PROVE f = e /\ p = q
      OBVIOUS
    <3>1. RoutingAt(j) = RoutingAt(i)
      BY DEF RoutingAt
    <3>. DEFINE c == Matrix(RoutingAt(i))
    <3>2. /\ row \in Rows(SegmentStart(c, q, e), c[q][e])
          /\ row \in Rows(SegmentStart(c, p, f), c[p][f])
      BY <2>7, <3>1 DEF Segment
    <3>3. c \in Matrices
      BY <1>9
    <3>. HIDE DEF c
    <3>. QED
      BY <2>6, <3>2, <3>3, RowsOfSegments, SMTT(30), ZenonT(30)
  <2>9. CASE i = j
    BY <2>7, <2>8, <2>9
  <2>10. CASE i # j /\ program[i].layer = program[j].layer
    <3>1. i < j /\ p = q /\ j = pc[q]
      BY <1>5, <1>7, <2>3, <2>5, <2>8, <2>10
    <3>2. program[i].kind = "dispatch" /\ Fence(i) < j
      BY <1>1, <2>5, <2>10, <3>1, FenceBetween
    <3>3. PICK c : c = Fence(i)
      OBVIOUS
    <3>4. /\ CombineAt(c) /\ c \in 1 .. Len(program) /\ c \in Nat /\ LastUse(i) = c - 1
          /\ program[c].layer = program[i].layer
      BY <1>1, <3>2, <3>3, FenceIs
    <3>5. RoutingAt(c) = RoutingAt(i)
      BY <3>4 DEF RoutingAt
    <3>6. \E s \in Slots : RoutingAt(c)[q][s] = e
      <4>1. Matrix(RoutingAt(i))[q][e] \in Nat /\ Matrix(RoutingAt(i))[q][e] # 0
        <5>1. SegmentStart(Matrix(RoutingAt(i)), q, e) \in Nat /\ Matrix(RoutingAt(i))[q][e] \in Nat
          BY <1>5, <1>9, SegmentIs
        <5>. QED
          BY <5>1 DEF Segment, Rows
      <4>2. Cardinality(To(RoutingAt(i), q, e)) # 0
        BY <1>5, <4>1 DEF Matrix
      <4>3. To(RoutingAt(i), q, e) # {}
        BY <4>2, FS_EmptySet
      <4>. QED
        BY <3>5, <4>3 DEF To
    <3>7. PICK s \in Slots : RoutingAt(c)[q][s] = e
      BY <3>6
    <3>8. e # NoExpert
      BY <1>5, MegaAssumption
    <3>9. Reduced(q, c, s)
      <4>1. \A R : CountsOf(R) = Matrix(R)
        BY DEF CountsOf, Matrix, To
      <4>2. RealTiles(CountsOf(RoutingAt(i)), q) < MaxTiles
        BY <1>1, <1>9 DEF SpareTile, PlaceOK
      <4>3. Reduces(q, c)
        BY <3>5, <4>1, <4>2 DEF Reduces
      <4>. QED
        BY <3>1, <3>2, <3>3, <4>3 DEF Reduced
    <3>10. Flagged(r, c, <<e, q>>)
      BY <1>5, <3>4, <3>7, <3>8, <3>9 DEF ReducedOK
    <3>11. c <= pc[r]
      BY <1>5, <3>4, <3>10 DEF Flagged
    <3>. QED
      BY <1>5, <3>4, <3>11
  <2>11. CASE i < j /\ program[i].layer # program[j].layer
    <3>1. Begun(p, j)
      BY <2>3, <2>5 DEF Begun
    <3>2. i < pc[r]
      BY <1>4, <2>5, <2>11, <3>1 DEF LayersApart
    <3>3. i < LastUse(i)
      BY <1>5, <3>2
    <3>4. PICK m : m = LastUse(i) + 2
      OBVIOUS
    <3>5. DispatchAt(m) /\ m \in 1 .. Len(program) /\ m \in Nat /\ program[m].layer = program[i].layer
      BY <1>1, <3>3, <3>4, FenceIs, OfGated DEF DispatchAt
    <3>6. m < j
      <4>1. Fence(i) < j /\ Fence(i) \in Nat /\ LastUse(i) = Fence(i) - 1
        <5>1. program[i].kind # "redispatch"
          BY <1>1, <3>3, <1>5, FenceIs
        <5>. QED
          BY <1>1, <2>5, <2>11, <5>1, FenceIs, FenceBetween
      <4>2. m # j
        BY <2>11, <3>5
      <4>. QED
        BY <1>5, <2>5, <3>4, <4>1, <4>2
    <3>7. m < pc[r]
      BY <1>4, <2>5, <2>11, <3>1, <3>5, <3>6 DEF LayersApart
    <3>. QED
      BY <1>5, <3>4, <3>7
  <2>12. CASE j < i /\ program[i].layer # program[j].layer
    <3>1. Begun(q, i)
      BY <1>11 DEF Pushed, Begun
    <3>2. j < pc[p]
      BY <1>4, <2>5, <2>12, <3>1 DEF LayersApart
    <3>. QED
      BY <1>5, <2>3, <3>2
  <2>. QED
    BY <1>5, <2>5, <2>9, <2>10, <2>11, <2>12
<1>. QED
  BY <1>6, <1>10, <1>11

LEMMA InitGateInv == Init => GateInv /\ RowInv
<1>. SUFFICES ASSUME Init PROVE GateInv /\ RowInv
  OBVIOUS
<1>1. PlaceOK
  BY InitPrologueInv DEF PrologueInv
<1>2. \A r \in Ranks : pc[r] = 1 /\ stage[r] = "start"
  BY DEF Init
<1>3. \A i \in 1 .. Len(program) : i \in Nat /\ ~ (i < 1)
  BY <1>1, OfGated
<1>4. \A r \in Ranks, i \in 1 .. Len(program) :
        /\ ~ Begun(r, i)
        /\ \A x : ~ Pushed(r, i, x) /\ ~ Flagged(r, i, x) /\ ~ Opened(r, i, x) /\ ~ Reduced(r, i, x)
  BY <1>2, <1>3 DEF Begun, Pushed, Flagged, Opened, Reduced
<1>5. GatesOK /\ LayersApart /\ PoolOK
  BY <1>4 DEF GatesOK, LayersApart, PoolOK
<1>6. ReducedOK
  BY <1>4 DEF ReducedOK
<1>7. FencesOK
  <2>1. \A i \in 1 .. Len(program) : DispatchAt(i) => Fence(i) \in Nat /\ Fence(i) >= 1
    BY <1>1, FenceIs
  <2>. QED
    BY <1>2, <2>1 DEF FencesOK
<1>8. CombOK
  <2>1. ASSUME NEW q \in Ranks, NEW i \in 1 .. Len(program), NEW s \in Slots,
               RoutingAt(i)[q][s] # NoExpert
        PROVE  ~ Pushed(Owner(RoutingAt(i)[q][s]), i, <<RoutingAt(i)[q][s], q>>)
    <3>1. Owner(RoutingAt(i)[q][s]) \in Ranks
      BY <1>1, <2>1, SlotHasRows
    <3>. QED
      BY <1>4, <3>1
  <2>. QED
    BY <2>1 DEF CombOK
<1>. QED
  BY <1>5, <1>6, <1>7, <1>8 DEF GateInv, RowInv

LEMMA SameGateInv ==
  ASSUME UNCHANGED megaVars
  PROVE  (GateInv => GateInv') /\ (RowInv => RowInv')
<1>1. /\ UNCHANGED <<program, routing, overtaken, pc, stage, work, handle, pool, comb>>
  BY DEF megaVars, dataVars, localVars
<1>2. /\ \A r, i : Begun(r, i)' <=> Begun(r, i)
      /\ \A r, i, x : Pushed(r, i, x)' <=> Pushed(r, i, x)
      /\ \A r, i, x : Flagged(r, i, x)' <=> Flagged(r, i, x)
      /\ \A i : (DispatchAt(i)' <=> DispatchAt(i)) /\ (CombineAt(i)' <=> CombineAt(i))
      /\ \A i : RoutingAt(i)' = RoutingAt(i) /\ Fence(i)' = Fence(i)
  BY <1>1 DEF Begun, Pushed, Flagged, DispatchAt, CombineAt, RoutingAt, Fence
<1>3. /\ \A r, i, e : Opened(r, i, e)' <=> Opened(r, i, e)
      /\ \A r, i, s : Reduced(r, i, s)' <=> Reduced(r, i, s)
      /\ \A i : LastUse(i)' = LastUse(i)
      /\ \A q, i, e, row : PushedRow(q, i, e, row)' = PushedRow(q, i, e, row)
  BY <1>1, <1>2 DEF Opened, Reduced, Reduces, Pieces, ExpertOf, ByTile, H, Layer, LastUse, PushedRow
<1>. USE <1>1, <1>2, <1>3
<1>4. GatesOK => GatesOK'
  BY DEF GatesOK
<1>5. ReducedOK => ReducedOK'
  BY DEF ReducedOK
<1>6. FencesOK => FencesOK'
  BY DEF FencesOK
<1>7. CombOK => CombOK'
  BY DEF CombOK
<1>8. LayersApart => LayersApart'
  BY DEF LayersApart
<1>9. PoolOK => PoolOK'
  BY DEF PoolOK
<1>. QED
  BY <1>4, <1>5, <1>6, <1>7, <1>8, <1>9 DEF GateInv, RowInv

LEMMA NextGateInv ==
  ASSUME NoRankIdle, PrologueInv, PrologueInv', LocalInv, GateInv, NEW r \in Ranks, RankStep(r)
  PROVE  GateInv'
BY GatesKept, ReducedKept, FencesKept, CombKept DEF GateInv

LEMMA NextRowInv ==
  ASSUME SpareTile, PrologueInv, PrologueInv', LocalInv, GateInv, RowInv, NEW r \in Ranks, RankStep(r)
  PROVE  RowInv'
<1>. USE DEF GateInv, RowInv
<1>1. LayersApart' /\ (overtaken => overtaken')
  BY LayersKept
<1>2. PoolOK'
  BY <1>1, PoolKept
<1>. QED
  BY <1>1, <1>2

LEMMA GateInvariant ==
  ASSUME NoRankIdle
  PROVE  Spec => [](PrologueInv /\ LocalInv /\ GateInv)
<1>1. Init => GateInv
  BY InitGateInv
<1>2. PrologueInv /\ LocalInv /\ GateInv /\ PrologueInv' /\ [Next]_megaVars => GateInv'
  <2>1. ASSUME PrologueInv, LocalInv, GateInv, PrologueInv', Next PROVE GateInv'
    BY <2>1, NextGateInv DEF Next
  <2>. QED
    BY <2>1, SameGateInv
<1>. QED
  BY <1>1, <1>2, MegaInvariant, PTL DEF Spec

LEMMA RowInvariant ==
  ASSUME NoRankIdle, SpareTile
  PROVE  Spec => [](PrologueInv /\ LocalInv /\ GateInv /\ RowInv)
<1>1. Init => RowInv
  BY InitGateInv
<1>2. PrologueInv /\ LocalInv /\ GateInv /\ RowInv /\ PrologueInv' /\ [Next]_megaVars => RowInv'
  <2>1. ASSUME PrologueInv, LocalInv, GateInv, RowInv, PrologueInv', Next PROVE RowInv'
    BY <2>1, NextRowInv DEF Next
  <2>. QED
    BY <2>1, SameGateInv
<1>. QED
  BY <1>1, <1>2, GateInvariant, PTL DEF Spec

-----------------------------------------------------------------------------
(***************************************************************************)
(* What the gates give.                                                    *)
(***************************************************************************)
LEMMA NotOvershot == PrologueInv /\ LocalInv /\ GateInv => GatesNotOvershot
<1>. SUFFICES ASSUME PrologueInv, LocalInv, GateInv, NEW r \in Ranks
              PROVE  /\ In(r, Dispatches, "run") => \A piece \in Pieces(r) \ work[r].tiles :
                          dispFlag[r][dispEpoch[r].parity][ExpertOf(r, piece)]
                            <= dispEpoch[r].expected[dispEpoch[r].parity]
                     /\ ~ In(r, {"combine"}, "run") => \A b \in Banks, i \in Tiles :
                          combFlag[r][b][i] = combEpoch[r].tiles[b]
  BY DEF GatesNotOvershot
<1>1. ASSUME In(r, Dispatches, "run"), NEW piece \in Pieces(r)
      PROVE  dispFlag[r][dispEpoch[r].parity][ExpertOf(r, piece)]
               <= dispEpoch[r].expected[dispEpoch[r].parity]
  <2>1. ExpertOf(r, piece) \in Local(r)
    BY <1>1, PiecesAre DEF In
  <2>. QED
    BY <1>1, <2>1, GateMeans DEF GateInv
<1>2. ASSUME ~ In(r, {"combine"}, "run"), NEW b \in Banks, NEW i \in Tiles
      PROVE  combFlag[r][b][i] = combEpoch[r].tiles[b]
  <2>1. TilesAll /\ EpochsTyped
    BY TilesParts DEF LocalInv
  <2>2. Level(r, b, i) /\ combFlag[r][b][i] \in Nat
    BY <2>1 DEF TilesAll, TilesFine
  <2>3. combEpoch[r].tiles[b] \in Nat
    BY <2>1 DEF EpochsTyped
  <2>. QED
    BY <1>2, <2>2, <2>3 DEF Level, Combining
<1>. QED
  BY <1>1, <1>2

\* What has been signalled has been pushed.
LEMMA SignalledAfter ==
  ASSUME PlaceOK, WorkOK, NEW r \in Ranks, NEW i, DispatchAt(i) \/ CombineAt(i), NEW x, Flagged(r, i, x)
  PROVE  Pushed(r, i, x)
<1>1. CASE i < pc[r]
  BY <1>1 DEF Pushed
<1>2. CASE i = pc[r] /\ stage[r] = "run" /\ x \in work[r].flagged
  <2>1. In(r, Dispatches, "run") \/ In(r, {"combine"}, "run")
    BY <1>2, OfGated DEF DispatchAt, CombineAt, In, Running
  <2>2. work[r].flagged \subseteq work[r].sent
    BY <2>1 DEF WorkOK
  <2>. QED
    BY <1>2, <2>2 DEF Pushed
<1>. QED
  BY <1>1, <1>2 DEF Flagged

LEMMA ReducedRight == PrologueInv /\ LocalInv /\ GateInv => ReduceReadsThisCall
<1>. SUFFICES ASSUME PrologueInv, LocalInv, GateInv, NEW r \in Ranks, In(r, {"combine"}, "run"),
                     NEW t, AllArrived(r, t), NEW s \in ValidSlots(r, t)
              PROVE  comb[r][s] = <<pc[r], Choices(r)[s]>>
  BY DEF ReduceReadsThisCall
<1>1. PlaceOK /\ WorkOK /\ CombOK
  BY DEF PrologueInv, LocalInv, GateInv
<1>2. PICK e : e = RoutingAt(pc[r])[r][s]
  OBVIOUS
<1>3. /\ s \in Slots /\ e = Choices(r)[s] /\ e # NoExpert /\ CombineAt(pc[r])
      /\ Flagged(Owner(e), pc[r], <<e, r>>)
  BY <1>2, ArrivedMeans
<1>4. pc[r] \in 1 .. Len(program) /\ pc[r] \in Nat
  BY <1>1, <1>3, OfGated DEF CombineAt
<1>5. Owner(e) \in Ranks
  BY <1>1, <1>2, <1>3, <1>4, SlotHasRows
<1>6. Pushed(Owner(e), pc[r], <<e, r>>)
  BY <1>1, <1>3, <1>5, SignalledAfter
<1>7. comb[r][s] = <<pc[r], e>>
  <2>1. PICK i \in 1 .. Len(program) : i = pc[r]
    BY <1>4
  <2>2. pc[r] <= i
    BY <1>4, <2>1
  <2>3. comb[r][s] = <<i, e>>
    <3>1. CombineAt(i) /\ RoutingAt(i)[r][s] = e /\ Pushed(Owner(e), i, <<e, r>>)
      BY <1>2, <1>3, <1>6, <2>1, Zenon
    <3>. QED
      BY <1>1, <1>3, <2>2, <3>1 DEF CombOK
  <2>. QED
    BY <2>1, <2>3
<1>. QED
  BY <1>3, <1>7

\* The real rows of an expert are all there when everybody has pushed.
LEMMA RowsArrived ==
  ASSUME PrologueInv, PoolOK, ~ overtaken, NEW r \in Ranks, Running(r),
         program[pc[r]].kind # "prologue", NEW i, DispatchAt(i), program[i].layer = Layer(r),
         pc[r] <= LastUse(i), NEW e \in Local(r), \A q \in Ranks : Pushed(q, i, e)
  PROVE  RowsOfCall(r, i, RealRows(H(r), e))
<1>1. PlaceOK /\ i \in 1 .. Len(program) /\ e \in Experts
  BY ToOwner DEF PrologueInv, DispatchAt
<1>2. PICK R, l, c : R = RoutingAt(i) /\ l = Layer(r) /\ c = Matrix(R)
  OBVIOUS
<1>3. /\ R = RoutingAt(pc[r]) /\ R = routing[l] /\ c \in Matrices
      /\ HasTables(H(r), R, r) /\ \A q \in Ranks : Agree(q, r, l, H(r).slot)
  <2>1. RoutingAt(pc[r]) = RoutingAt(i)
    BY DEF RoutingAt, Layer
  <2>. QED
    BY <1>2, <2>1, WorkHere
<1>4. H(r).base[e] = PoolBase(c, e) /\ H(r).total[e] = ExpertTotal(c, e)
  BY <1>2, <1>3, TablesAre
<1>. SUFFICES ASSUME NEW row \in RealRows(H(r), e)
              PROVE  pool[r][row] = <<i, H(r).slot[row][2], TokenOf(H(r).slot[row][3])>>
  BY DEF RowsOfCall
<1>5. PICK q \in Ranks : row \in Rows(SegmentStart(c, q, e), c[q][e])
  BY <1>1, <1>3, <1>4, SegmentsCover DEF RealRows
<1>6. row \in Segment(R, q, e)
  BY <1>2, <1>5 DEF Segment
<1>7. pool[r][row] = PushedRow(q, i, e, row)
  BY <1>1, <1>2, <1>6 DEF PoolOK
<1>8. PICK s \in Slots :
        /\ H(r).slot[row] = <<l, q, s>>
        /\ handle[q][l].token[SourceOffset(Matrix(routing[l]), q, e)
                                + (row - SegmentStart(Matrix(routing[l]), q, e))] = TokenOf(s)
  BY <1>3, <1>6 DEF Agree
<1>9. PushedRow(q, i, e, row) = <<i, q, TokenOf(s)>>
  BY <1>2, <1>8 DEF PushedRow
<1>10. H(r).slot[row][2] = q /\ H(r).slot[row][3] = s
  BY <1>8
<1>. QED
  BY <1>7, <1>9, <1>10

\* dW2 comes right behind the dispatch whose rows it reads.
LEMMA WgradIs ==
  ASSUME PlaceOK, NEW i \in 1 .. Len(program), program[i].kind = "wgrad2"
  PROVE  /\ DispatchAt(i - 1) /\ program[i - 1].kind = "dispatch"
         /\ program[i - 1].layer = program[i].layer /\ LastUse(i - 1) = i
<1>1. PICK k \in Nat, a \in 1 .. 4 :
        /\ i = 4 * k + a /\ 4 * k + 4 <= Len(program)
        /\ program[i].layer = OpLayer(program, k)
        /\ \/ ForwardOp(k) /\ program[i].kind = ForwardKinds[a]
           \/ BackwardOp(k) /\ program[i].kind = BackwardKinds[a]
  BY KernelIs
<1>2. a = 2 /\ BackwardOp(k)
  <2>1. a \in {1, 2, 3, 4}
    BY <1>1
  <2>. QED
    BY <1>1, <2>1, KindsAre
<1>3. /\ 4 * k + 1 \in 1 .. Len(program) /\ program[4 * k + 1].kind = "dispatch"
      /\ program[4 * k + 1].layer = OpLayer(program, k)
  BY <1>2, KindsAre, SMTT(30), ZenonT(30) DEF BackwardOp, Operation
<1>4. i - 1 = 4 * k + 1 /\ (4 * k + 1 - 1) \div 4 = k
  BY <1>1, <1>2
<1>5. DispatchAt(i - 1) /\ program[i - 1].kind = "dispatch" /\ program[i - 1].layer = program[i].layer
  BY <1>1, <1>3, <1>4 DEF DispatchAt, Dispatches
<1>6. Fence(i - 1) = 4 * k + 3
  BY <1>4, <1>5 DEF Fence
<1>7. LastUse(i - 1) = Fence(i - 1) - 1
  BY <1>5 DEF LastUse
<1>8. LastUse(i - 1) = i
  BY <1>1, <1>2, <1>6, <1>7
<1>. QED
  BY <1>5, <1>8

LEMMA TilesRight == PrologueInv /\ LocalInv /\ GateInv /\ RowInv => TilesReadOwnCall
<1>. SUFFICES ASSUME PrologueInv, LocalInv, GateInv, RowInv, NEW r \in Ranks, ~ overtaken
              PROVE  /\ In(r, Dispatches, "run") =>
                          \A piece \in Pieces(r) \ work[r].tiles :
                            GateOpen(r, ExpertOf(r, piece)) => RowsOfCall(r, pc[r], RowsOf(r, piece))
                     /\ In(r, {"wgrad2"}, "start") =>
                          \A e \in Local(r) : RowsOfCall(r, pc[r] - 1, RealRows(H(r), e))
  BY DEF TilesReadOwnCall
<1>1. PlaceOK /\ WorkOK /\ PoolOK /\ GatesOK /\ FencesOK
  BY DEF PrologueInv, LocalInv, GateInv, RowInv
<1>2. ASSUME In(r, Dispatches, "run"), NEW piece \in Pieces(r), GateOpen(r, ExpertOf(r, piece))
      PROVE  RowsOfCall(r, pc[r], RowsOf(r, piece))
  <2>1. PICK e, i : e = ExpertOf(r, piece) /\ i = pc[r]
    OBVIOUS
  <2>2. e \in Local(r)
    BY <1>2, <2>1, PiecesAre DEF In
  <2>3. DispatchAt(i) /\ Running(r) /\ program[pc[r]].kind # "prologue" /\ i \in Nat
    BY <1>1, <1>2, <2>1, AtDispatch
  <2>4. \A q \in Ranks : Pushed(q, i, e)
    BY <1>1, <1>2, <2>1, <2>2, <2>3, GateMeans, SignalledAfter
  <2>5. pc[r] <= LastUse(i) /\ program[i].layer = Layer(r)
    BY <1>1, <2>1, <2>3, FenceIs DEF Layer
  <2>6. RowsOfCall(r, i, RealRows(H(r), e))
    BY <1>1, <2>2, <2>3, <2>4, <2>5, RowsArrived
  <2>. QED
    BY <2>1, <2>6 DEF RowsOfCall, RowsOf
<1>3. ASSUME In(r, {"wgrad2"}, "start"), NEW e \in Local(r)
      PROVE  RowsOfCall(r, pc[r] - 1, RealRows(H(r), e))
  <2>1. Running(r) /\ program[pc[r]].kind = "wgrad2" /\ pc[r] \in 1 .. Len(program) /\ pc[r] \in Nat
    BY <1>1, <1>3, OfGated DEF In, Running
  <2>2. PICK i : i = pc[r] - 1
    OBVIOUS
  <2>3. /\ DispatchAt(i) /\ program[i].kind = "dispatch" /\ program[i].layer = Layer(r)
        /\ LastUse(i) = pc[r] /\ i < pc[r] /\ pc[r] <= LastUse(i) /\ i \in 1 .. Len(program)
    BY <1>1, <2>1, <2>2, WgradIs DEF Layer, DispatchAt
  <2>4. CASE ExpertTotal(Matrix(RoutingAt(i)), e) > 0
    <3>1. Opened(r, i, e)
      BY <2>3, <2>4 DEF Opened
    <3>2. \A q \in Ranks : Pushed(q, i, e)
      BY <1>1, <2>3, <3>1, SignalledAfter DEF GatesOK
    <3>. QED
      BY <1>1, <2>1, <2>2, <2>3, <3>2, RowsArrived
  <2>5. CASE ~ (ExpertTotal(Matrix(RoutingAt(i)), e) > 0)
    <3>1. RoutingAt(pc[r]) = RoutingAt(i)
      BY <2>3 DEF RoutingAt, Layer
    <3>2. HasTables(H(r), RoutingAt(i), r) /\ Matrix(RoutingAt(i)) \in Matrices
      BY <2>1, <3>1, WorkHere
    <3>3. /\ H(r).base[e] = PoolBase(Matrix(RoutingAt(i)), e)
          /\ H(r).total[e] = ExpertTotal(Matrix(RoutingAt(i)), e)
      BY <3>2, TablesAre
    <3>4. ExpertTotal(Matrix(RoutingAt(i)), e) \in Nat /\ PoolBase(Matrix(RoutingAt(i)), e) \in Nat
      BY <3>2, Columns, BaseIs, ToOwner
    <3>5. RealRows(H(r), e) = {}
      BY <2>5, <3>3, <3>4 DEF RealRows, Rows
    <3>. QED
      BY <3>5 DEF RowsOfCall
  <2>. QED
    BY <2>4, <2>5
<1>. QED
  BY <1>2, <1>3

(***************************************************************************)
(* Where no rank is idle, no gate is passed by: while a                    *)
(* piece of a dispatch waits, its flag is at most the expected value, and  *)
(* when no combine runs on a rank the flags of its tiles are level.  So a  *)
(* test for equality is enough, for any number of ranks, calls and tiles.  *)
(***************************************************************************)
THEOREM GatesHold ==
  ASSUME NoRankIdle
  PROVE  Spec => []GatesNotOvershot
BY GateInvariant, NotOvershot, PTL

(***************************************************************************)
(* Under the same hypothesis a token is never reduced from rows of an      *)
(* earlier call: when all flags of its slots have come, every slot holds   *)
(* the whole row that the expert chosen there computed in this call.       *)
(***************************************************************************)
THEOREM ReductionsRight ==
  ASSUME NoRankIdle
  PROVE  Spec => []ReduceReadsThisCall
BY GateInvariant, ReducedRight, PTL

(***************************************************************************)
(* If moreover every rank reduces, and as long as no rank has begun the    *)
(* dispatch of another layer while some rank was in the one before, the    *)
(* GEMMs read only rows of their own call: an open gate means that every   *)
(* sender has pushed, and no later push has reached the rows.              *)
(***************************************************************************)
THEOREM TilesAreOwn ==
  ASSUME NoRankIdle, SpareTile
  PROVE  Spec => []TilesReadOwnCall
BY RowInvariant, TilesRight, PTL
=============================================================================
