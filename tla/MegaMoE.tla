------------------------------ MODULE MegaMoE ------------------------------
(***************************************************************************)
(* The fused Mega MoE layers (flydsl/mega, bf16 path) on the ranks of one  *)
(* node.  All ranks run the same program of kernels, each on its stream:   *)
(*   "prologue"     exchange of counts, tables, origin slots; its clone    *)
(*   "dispatch"     push of token rows into the peers' pools, fused with a *)
(*                  grouped GEMM (layout nt or nn) that reads the own pool *)
(*   "save"         clone of the received routing weights for the backward *)
(*   "wgrad2"       dW2, a GEMM that reads the own pool once more          *)
(*   "redispatch"   the tn dispatch of the backward (dW1)                  *)
(*   "combine"      GEMM into l2 buffer, push of rows home, top-k reduce   *)
(* Kernels of a rank run one after the other, kernels of different ranks   *)
(* are not synchronised but by the barriers of the prologue and by flags   *)
(* that are never reset: two banks used in turn, each flag compared for    *)
(* equality with an expected value that the rank itself keeps.             *)
(*                                                                         *)
(* A row is represented by what was put into it: <<kernel, rank, token>>   *)
(* in a pool, where the kernel is the index of the call in the program.    *)
(***************************************************************************)
EXTENDS XgmiBarrier, Sequences, Functions

CONSTANTS
  ExpertsPerRank,
  BlockM,       \* rows of a tile; an expert's rows in a pool are padded to it
  NBlocks,      \* n-tiles of a GEMM, each computed by a block of its own
  NumTokens,    \* tokens of a rank
  TopK,
  DispatchCU,   \* blocks that share the comm tasks of a dispatch
  CombineCU,    \* blocks that share the segments of a combine
  NoExpert,     \* -1: a top-k slot with no expert
  Layers,       \* forwards, each with the handle it makes for its backward
  Programs,     \* sequences of [kind, layer] one of which all ranks run
  Routings      \* [Layers -> [Ranks -> [Slots -> Experts or NoExpert]]]

NumRanks == Cardinality(Ranks)
Experts  == 0 .. NumRanks * ExpertsPerRank - 1
Tokens   == 0 .. NumTokens - 1
Slots    == 0 .. NumTokens * TopK - 1       \* token * num_topk + topk_slot
Kinds    == {"prologue", "dispatch", "save", "wgrad2", "redispatch", "combine"}

ASSUME MegaAssumption ==
  /\ Ranks = 0 .. NumRanks - 1
  /\ {ExpertsPerRank, BlockM, NBlocks, NumTokens, TopK, DispatchCU, CombineCU} \subseteq Nat \ {0}
  /\ NoExpert \notin Experts
  /\ Programs \subseteq Seq([kind : Kinds, layer : Layers])
  /\ Routings \subseteq [Layers -> [Ranks -> [Slots -> Experts \cup {NoExpert}]]]

\* The kernels of one forward and of one backward of a layer.
ForwardKinds  == <<"prologue", "dispatch", "combine", "save">>
BackwardKinds == <<"dispatch", "wgrad2", "combine", "redispatch">>

\* The k-th operation of a program, counted from 0, and the layer it is of.
OpLayer(P, k) == P[4 * k + 1].layer
IsOperation(P, k, kinds) ==
  \A j \in 1 .. 4 : P[4 * k + j] = [kind |-> kinds[j], layer |-> OpLayer(P, k)]

\* Autograd runs operations whole.  A layer has one forward, which makes the
\* handle, and at most one backward, which comes later and uses it.
LayerByLayer(P) ==
  /\ Len(P) % 4 = 0
  /\ \A k \in 0 .. (Len(P) \div 4) - 1 :
       \/ /\ IsOperation(P, k, ForwardKinds)
          /\ \A i \in 0 .. k - 1 : OpLayer(P, i) # OpLayer(P, k)
       \/ /\ IsOperation(P, k, BackwardKinds)
          /\ \E j \in 0 .. k - 1 :
               /\ IsOperation(P, j, ForwardKinds) /\ OpLayer(P, j) = OpLayer(P, k)
               /\ \A i \in (0 .. k - 1) \ {j} : OpLayer(P, i) # OpLayer(P, k)

ASSUME ProgramAssumption == \A P \in Programs : LayerByLayer(P)

Owner(e) == e \div ExpertsPerRank           \* the rank an expert lives on
Local(r) == {e \in Experts : Owner(e) = r}
SlotAsToken(s) == s                        \* mutant: a slot taken for a token
TokenOf(s) == s \div TopK

\* A token's choices are different experts, as a top-k gives them: the pool is
\* sized for min(num_topk, num_experts_per_rank) rows of a token on a rank.
ASSUME ChoicesAssumption ==
  \A R \in Routings, l \in Layers, r \in Ranks : \A s, z \in Slots :
    s # z /\ TokenOf(s) = TokenOf(z) /\ R[l][r][s] # NoExpert => R[l][r][s] # R[l][r][z]

Padded(n) == ((n + BlockM - 1) \div BlockM) * BlockM

\* num_max_pool_tokens and the worst-case number of tiles
PoolTokens ==
  Padded(NumRanks * NumTokens * (IF TopK < ExpertsPerRank THEN TopK ELSE ExpertsPerRank)
         + ExpertsPerRank * (BlockM - 1))
MaxTiles == PoolTokens \div BlockM
Tiles    == 0 .. MaxTiles - 1
PoolRows == 0 .. PoolTokens - 1
Banks    == {0, 1}

-----------------------------------------------------------------------------
(***************************************************************************)
(* The tables of a handle, all computed from the matrix of counts: c[q][e] *)
(* is the number of rows rank q sends to expert e.                         *)
(***************************************************************************)
SumOver(S, f(_)) == SumFunctionOnSet([x \in S |-> f(x)], S)

ExpertTotal(c, e) == SumOver(Ranks, LAMBDA q : c[q][e])

PoolBase(c, e) ==
  SumOver({f \in Local(Owner(e)) : f < e}, LAMBDA f : Padded(ExpertTotal(c, f)))

\* First row in the owner's pool of what q sends to e.
SegmentStart(c, q, e) ==
  PoolBase(c, e) + SumOver({p \in Ranks : p < q}, LAMBDA p : c[p][e])

\* comm_task_index of expert e: local expert first, then destination rank
TaskIndex(e) == (e % ExpertsPerRank) * NumRanks + Owner(e)

\* expert_send_offset: where e's part of dispatched_token_idx starts
SourceOffset(c, r, e) ==
  SumOver({f \in Experts : TaskIndex(f) < TaskIndex(e)}, LAMBDA f : c[r][f])

RealTiles(c, r) == SumOver(Local(r), LAMBDA e : Padded(ExpertTotal(c, e))) \div BlockM

TileToExpert(c, r, i) ==
  CHOOSE e \in Local(r) :
    PoolBase(c, e) <= i * BlockM /\ i * BlockM < PoolBase(c, e) + Padded(ExpertTotal(c, e))

\* What the prologue returns on rank r; the last three are filled in later:
\* dispatched_token_idx, pool_src_slot and the routing weights.
TablesOf(c, r) ==
  [sendRow   |-> [e \in Experts |-> SegmentStart(c, r, e)],
   sendCount |-> c[r],
   offset    |-> [e \in Experts |-> SourceOffset(c, r, e)],
   recvRow   |-> [e \in Local(r) |-> [q \in Ranks |-> SegmentStart(c, q, e)]],
   recvCount |-> [e \in Local(r) |-> [q \in Ranks |-> c[q][e]]],
   base      |-> [e \in Local(r) |-> PoolBase(c, e)],
   total     |-> [e \in Local(r) |-> ExpertTotal(c, e)],
   expert    |-> [i \in 0 .. RealTiles(c, r) - 1 |-> TileToExpert(c, r, i)],
   token |-> <<>>, slot |-> <<>>, weight |-> <<>>]

Rows(start, count) == start .. start + count - 1
TilesOf(rows) == {row \div BlockM : row \in rows}
-----------------------------------------------------------------------------
VARIABLES
  program, routing,   \* chosen at the start
  pc,          \* pc[r]: index of the kernel rank r is in
  stage,       \* stage[r]: where it is in that kernel
  scratch,     \* scratch[r]: SCRATCH_SEND and SCRATCH_WITHIN
  counts,      \* counts[r]: expert_count buffer, written by all ranks
  origin,      \* origin[r][row]: pool_src_slot (and weight_recv_buf)
  handle,      \* handle[r][l]: what rank r's forward of layer l keeps
  pool,        \* pool[r][row]: dispatch_token_pool
  dispEpoch,   \* parity and, per bank, the expected dispatch_flag
  dispFlag,    \* dispFlag[r][bank][e]
  combEpoch,   \* parity and, per bank, expected combine_flag and reduce_flag
  combFlag,    \* combFlag[r][bank][tile]
  reduceFlag,  \* reduceFlag[r][bank][slot]
  l2,          \* l2[r][tile][n]: call whose GEMM last wrote this block
  comb,        \* comb[r][slot]: combine_token_buffer, <<call, expert>>
  work,        \* work[r]: what the blocks of the current kernel have done
  overtaken    \* history: a rank began a dispatch with another layer's handle
               \* while a rank was still in the dispatch of the layer before

dataVars  == <<counts, origin, pool, dispFlag, reduceFlag, comb>>  \* peers write
localVars == <<scratch, handle, dispEpoch, combEpoch, combFlag, l2>>
megaVars  == <<program, routing, overtaken, pc, stage, work, dataVars, localVars, xgmiVars>>

NoRow  == <<>>
NoCounts == [e \in Experts |-> 0]
NoHandle == [slot |-> <<>>]
NoWork == [sent |-> {}, flagged |-> {}, tiles |-> {}, reduced |-> {}, aligned |-> FALSE]

\* The heap is zeroed, and so are the epochs and the scratch tensor.
Init ==
  /\ XgmiInit
  /\ program \in Programs /\ routing \in Routings
  /\ pc      = [r \in Ranks |-> 1]
  /\ stage   = [r \in Ranks |-> "start"]
  /\ scratch = [r \in Ranks |-> [send |-> NoCounts, within |-> NoCounts]]
  /\ counts  = [r \in Ranks |-> [q \in Ranks |-> NoCounts]]
  /\ origin  = [r \in Ranks |-> [row \in PoolRows |-> NoRow]]
  /\ handle  = [r \in Ranks |-> [l \in Layers |-> NoHandle]]
  /\ pool    = [r \in Ranks |-> [row \in PoolRows |-> NoRow]]
  /\ dispEpoch  = [r \in Ranks |-> [parity |-> 0, expected |-> [b \in Banks |-> 0]]]
  /\ dispFlag   = [r \in Ranks |-> [b \in Banks |-> [e \in Local(r) |-> 0]]]
  /\ combEpoch  = [r \in Ranks |-> [parity |-> 0, tiles |-> [b \in Banks |-> 0],
                                    rows |-> [b \in Banks |-> 0]]]
  /\ combFlag   = [r \in Ranks |-> [b \in Banks |-> [i \in Tiles |-> 0]]]
  /\ reduceFlag = [r \in Ranks |-> [b \in Banks |-> [s \in Slots |-> 0]]]
  /\ l2      = [r \in Ranks |-> [i \in Tiles |-> [n \in 1 .. NBlocks |-> 0]]]
  /\ comb    = [r \in Ranks |-> [s \in Slots |-> NoRow]]
  /\ work    = [r \in Ranks |-> NoWork]
  /\ overtaken = FALSE

Running(r) == pc[r] <= Len(program)
Layer(r)   == program[pc[r]].layer
In(r, kinds, where) == Running(r) /\ program[pc[r]].kind \in kinds /\ stage[r] = where
Choices(r) == routing[Layer(r)][r]
SlotsTo(r, e) == {s \in Slots : Choices(r)[s] = e}
Chosen(r, e)  == Cardinality(SlotsTo(r, e))
H(r) == handle[r][Layer(r)]   \* the handle in use

NextKernel(r) ==
  /\ pc'    = [pc EXCEPT ![r] = @ + 1]
  /\ stage' = [stage EXCEPT ![r] = "start"]
GoTo(r, where) == stage' = [stage EXCEPT ![r] = where] /\ UNCHANGED pc
Stay == UNCHANGED <<pc, stage>>
-----------------------------------------------------------------------------
(***************************************************************************)
(* dispatch_prologue_kernel.  The grid_syncs make its phases sequential.   *)
(***************************************************************************)
Following == [b1 |-> "push", b3 |-> "tables", e |-> "clone"]

\* Count the rank's valid slots into SCRATCH_SEND (atomic adds).
Histogram(r) ==
  /\ In(r, {"prologue"}, "start")
  /\ scratch' = [scratch EXCEPT ![r].send = [e \in Experts |-> @[e] + Chosen(r, e)]]
  /\ GoTo(r, "b1")
  /\ UNCHANGED <<program, routing, overtaken, work, dataVars, handle, dispEpoch, combEpoch, combFlag, l2, xgmiVars>>

\* One of the barriers B1 (all entered), B3 (counts landed), E (origins landed)
BarrierStep(r) ==
  /\ Running(r) /\ stage[r] \in DOMAIN Following
  /\ \/ Call(r) /\ Stay
     \/ (\E t \in Ranks : Send(r, t)) /\ Stay
     \/ Advance(r) /\ Stay
     \/ Return(r) /\ GoTo(r, Following[stage[r]])
  /\ UNCHANGED <<program, routing, overtaken, work, dataVars, localVars>>

\* Block 0 stores its counts into row `rank' of every peer's matrix.
PushCounts(r) ==
  /\ In(r, {"prologue"}, "push")
  /\ counts' = [p \in Ranks |-> [counts[p] EXCEPT ![r] = scratch[r].send]]
  /\ GoTo(r, "b3")
  /\ UNCHANGED <<program, routing, overtaken, work, origin, pool, dispFlag, reduceFlag, comb, localVars, xgmiVars>>

\* Block 0 derives every table of the handle from the matrix.
BuildTables(r) ==
  /\ In(r, {"prologue"}, "tables")
  /\ handle' = [handle EXCEPT ![r][Layer(r)] =
       TablesOf(counts[r], r)]
  /\ GoTo(r, "scatter")
  /\ UNCHANGED <<program, routing, overtaken, work, dataVars, scratch, dispEpoch, combEpoch, combFlag, l2, xgmiVars>>

\* Atomics give the slots of one expert its places in any order.
PlacesOf(r) ==
  LET valid == {s \in Slots : Choices(r)[s] # NoExpert}
  IN  {f \in [valid -> 0 .. Cardinality(Slots) - 1] :
         \A s \in valid : LET e == Choices(r)[s] IN
           /\ f[s] < Chosen(r, e)
           /\ \A z \in SlotsTo(r, e) \ {s} : f[z] # f[s]}

KeepsWithin(old) == [old EXCEPT !.send = NoCounts]   \* mutant
Cleaned(old) == [old EXCEPT !.send = NoCounts, !.within = NoCounts]

\* Scatter of tokens, origin slots and weights; then SCRATCH is zeroed.
Scatter(r) ==
  /\ In(r, {"prologue"}, "scatter")
  /\ \E place \in PlacesOf(r) :
       LET within(s) == scratch[r].within[Choices(r)[s]] + place[s]
           dest(s)   == H(r).sendRow[Choices(r)[s]] + within(s)
           index(s)  == H(r).offset[Choices(r)[s]] + within(s)
       IN
       /\ handle' = [handle EXCEPT ![r][Layer(r)].token =
            [i \in {index(s) : s \in DOMAIN place} |->
               TokenOf(CHOOSE s \in DOMAIN place : index(s) = i)]]
       /\ origin' = [p \in Ranks |-> [row \in PoolRows |->
            LET here == {s \in DOMAIN place : Owner(Choices(r)[s]) = p /\ dest(s) = row}
            IN  IF here = {} THEN origin[p][row]
                             ELSE <<Layer(r), r, CHOOSE s \in here : TRUE>>]]
  /\ scratch' = [scratch EXCEPT ![r] = Cleaned([@ EXCEPT
       !.within = [e \in Experts |-> @[e] + Chosen(r, e)]])]
  /\ GoTo(r, "e")
  /\ UNCHANGED <<program, routing, overtaken, work, counts, pool, dispFlag, reduceFlag, comb,
                 dispEpoch, combEpoch, combFlag, l2, xgmiVars>>

\* symm.pool_src_slot.clone()
CloneSlots(r) ==
  /\ In(r, {"prologue"}, "clone")
  /\ handle' = [handle EXCEPT ![r][Layer(r)].slot = origin[r]]
  /\ NextKernel(r)
  /\ UNCHANGED <<program, routing, overtaken, work, dataVars, scratch, dispEpoch, combEpoch, combFlag, l2, xgmiVars>>

\* dispatch_weights_in_buf.clone(), after the forward
SaveWeights(r) ==
  /\ In(r, {"save"}, "start")
  /\ handle' = [handle EXCEPT ![r][Layer(r)].weight = origin[r]]
  /\ NextKernel(r)
  /\ UNCHANGED <<program, routing, overtaken, work, dataVars, scratch, dispEpoch, combEpoch, combFlag, l2, xgmiVars>>
-----------------------------------------------------------------------------
(***************************************************************************)
(* dispatch_grouped_gemm: comm blocks push, GEMM blocks wait and read.     *)
(***************************************************************************)
Dispatches == {"dispatch", "redispatch"}

Unflipped(parity) == parity   \* mutant: one bank of flags for all calls
Flipped(parity) == 1 - parity

Overtakes(r, p) ==
  pc[p] < pc[r] /\ program[pc[p]].kind \in Dispatches /\ Layer(p) # Layer(r)

\* The epoch kernel flips the parity and moves that bank's expected value.
BeginDispatch(r) ==
  /\ In(r, Dispatches, "start")
  /\ LET b == Flipped(dispEpoch[r].parity) IN
       dispEpoch' = [dispEpoch EXCEPT ![r].parity = b, ![r].expected[b] = @ + NumRanks]
  /\ work' = [work EXCEPT ![r] = NoWork]
  /\ overtaken' = (overtaken \/ \E p \in Ranks : Overtakes(r, p))
  /\ GoTo(r, "run")
  /\ UNCHANGED <<program, routing, dataVars, scratch, handle, combEpoch, combFlag, l2, xgmiVars>>

\* A block takes every DispatchCU-th task, one after the other.
IsNext(index, done, indices, stride) ==
  \A i \in indices : i < index /\ i % stride = index % stride => i \in done

\* A comm task: copy the rows for expert e into its owner's pool ...
PushTask(r, e) ==
  /\ In(r, Dispatches, "run")
  /\ e \in Experts \ work[r].sent
  /\ IsNext(TaskIndex(e), {TaskIndex(f) : f \in work[r].flagged},
            {TaskIndex(f) : f \in Experts}, DispatchCU)
  /\ pool' = [pool EXCEPT ![Owner(e)] = [row \in PoolRows |->
       IF row \in Rows(H(r).sendRow[e], H(r).sendCount[e])
       THEN <<pc[r], r, H(r).token[H(r).offset[e] + row - H(r).sendRow[e]]>>
       ELSE @[row]]]
  /\ work' = [work EXCEPT ![r].sent = @ \cup {e}]
  /\ Stay
  /\ UNCHANGED <<program, routing, overtaken, counts, origin, dispFlag, reduceFlag, comb, localVars, xgmiVars>>

\* ... then, even if there were none, add one to the expert's flag.
SignalTask(r, e) ==
  /\ In(r, Dispatches, "run")
  /\ e \in work[r].sent \ work[r].flagged
  /\ dispFlag' = [dispFlag EXCEPT ![Owner(e)][dispEpoch[r].parity][e] = @ + 1]
  /\ work' = [work EXCEPT ![r].flagged = @ \cup {e}]
  /\ Stay
  /\ UNCHANGED <<program, routing, overtaken, counts, origin, pool, reduceFlag, comb, localVars, xgmiVars>>

\* What the GEMM works through: tiles (nt, nn) or experts' rows (tn).
ByTile(r)  == program[pc[r]].kind = "dispatch"
RealRows(h, e) == Rows(h.base[e], h.total[e])
Pieces(r)  == IF ByTile(r) THEN DOMAIN H(r).expert ELSE Local(r)
ExpertOf(r, piece) == IF ByTile(r) THEN H(r).expert[piece] ELSE piece
RowsOf(r, piece) ==
  {row \in RealRows(H(r), ExpertOf(r, piece)) : ByTile(r) => row \div BlockM = piece}

\* Mutant: the gate opens with the first sender that is done.
OpensEarly(r, e) ==
  dispFlag[r][dispEpoch[r].parity][e] > dispEpoch[r].expected[dispEpoch[r].parity] - NumRanks

GateOpen(r, e) ==
  dispFlag[r][dispEpoch[r].parity][e] = dispEpoch[r].expected[dispEpoch[r].parity]

\* The blocks of a piece read its rows between the gate's opening and this.
FinishPiece(r, piece) ==
  /\ In(r, Dispatches, "run")
  /\ piece \in Pieces(r) \ work[r].tiles
  /\ GateOpen(r, ExpertOf(r, piece))
  /\ work' = [work EXCEPT ![r].tiles = @ \cup {piece}]
  /\ Stay
  /\ UNCHANGED <<program, routing, overtaken, dataVars, localVars, xgmiVars>>

EndDispatch(r) ==
  /\ In(r, Dispatches, "run")
  /\ work[r].flagged = Experts
  /\ work[r].tiles = Pieces(r)
  /\ NextKernel(r)
  /\ UNCHANGED <<program, routing, overtaken, work, dataVars, localVars, xgmiVars>>

\* dW2 reads the real rows of the pool; it waits for nobody.
WeightGrad2(r) ==
  /\ In(r, {"wgrad2"}, "start")
  /\ NextKernel(r)
  /\ UNCHANGED <<program, routing, overtaken, work, dataVars, localVars, xgmiVars>>
-----------------------------------------------------------------------------
(***************************************************************************)
(* grouped_gemm_combine: GEMM blocks, combine blocks and, in the part of   *)
(* the grid that has no tile, the blocks of the top-k reduction.           *)
(***************************************************************************)
Bank(r)      == combEpoch[r].parity
TileDone(r, i) == combFlag[r][Bank(r)][i] = combEpoch[r].tiles[Bank(r)]
MyTiles(r)   == DOMAIN H(r).expert
Segments(r)  == {seg \in Local(r) \X Ranks : H(r).recvCount[seg[1]][seg[2]] > 0}
RowsOfSegment(r, seg) == Rows(H(r).recvRow[seg[1]][seg[2]], H(r).recvCount[seg[1]][seg[2]])
SegmentIndex(seg) == (seg[1] % ExpertsPerRank) * NumRanks + seg[2]
SlotOf(r, row) == H(r).slot[row][3]

BeginCombine(r) ==
  /\ In(r, {"combine"}, "start")
  /\ LET b == Flipped(Bank(r)) IN
       combEpoch' = [combEpoch EXCEPT ![r].parity = b,
                       ![r].tiles[b] = @ + NBlocks, ![r].rows[b] = @ + 1]
  /\ work' = [work EXCEPT ![r] = NoWork]
  /\ GoTo(r, "run")
  /\ UNCHANGED <<program, routing, overtaken, dataVars, scratch, handle, dispEpoch, combFlag, l2, xgmiVars>>

\* Block (i, n) of the GEMM stores its part of tile i ...
StoreBlock(r, i, n) ==
  /\ In(r, {"combine"}, "run")
  /\ i \in MyTiles(r)
  /\ l2[r][i][n] # pc[r]
  /\ l2' = [l2 EXCEPT ![r][i][n] = pc[r]]
  /\ Stay
  /\ UNCHANGED <<program, routing, overtaken, work, dataVars, scratch, handle, dispEpoch, combEpoch,
                 combFlag, xgmiVars>>

\* ... and counts itself when the stores are done.
CountBlock(r, i, n) ==
  /\ In(r, {"combine"}, "run")
  /\ i \in MyTiles(r)
  /\ <<i, n>> \notin work[r].tiles
  /\ l2[r][i][n] = pc[r]
  /\ combFlag' = [combFlag EXCEPT ![r][Bank(r)][i] = @ + 1]
  /\ work' = [work EXCEPT ![r].tiles = @ \cup {<<i, n>>}]
  /\ Stay
  /\ UNCHANGED <<program, routing, overtaken, dataVars, scratch, handle, dispEpoch, combEpoch, l2, xgmiVars>>

\* The call whose GEMM a row of the l2 buffer is from, 0 if it is of several.
L2Call(r, row) ==
  LET blocks == l2[r][row \div BlockM]
  IN  IF \A n \in 1 .. NBlocks : blocks[n] = blocks[1] THEN blocks[1] ELSE 0

GatedOnFirstTile(r, seg) ==    \* mutant: waits only for the segment's first tile
  TileDone(r, H(r).recvRow[seg[1]][seg[2]] \div BlockM)
GatedOnTiles(r, seg) == \A i \in TilesOf(RowsOfSegment(r, seg)) : TileDone(r, i)

\* Push a segment's rows into the slots they came from, then their flags.
PushSegment(r, seg) ==
  /\ In(r, {"combine"}, "run")
  /\ seg \in Segments(r) \ work[r].sent
  /\ IsNext(SegmentIndex(seg), {SegmentIndex(z) : z \in work[r].flagged},
            {SegmentIndex(z) : z \in Segments(r)}, CombineCU)
  /\ GatedOnTiles(r, seg)
  /\ comb' = [comb EXCEPT ![seg[2]] = [s \in Slots |->
       LET rows == {row \in RowsOfSegment(r, seg) : SlotOf(r, row) = s}
       IN  IF rows = {} THEN @[s]
                        ELSE <<L2Call(r, CHOOSE row \in rows : TRUE), seg[1]>>]]
  /\ work' = [work EXCEPT ![r].sent = @ \cup {seg}]
  /\ Stay
  /\ UNCHANGED <<program, routing, overtaken, counts, origin, pool, dispFlag, reduceFlag, localVars, xgmiVars>>

SignalSegment(r, seg) ==
  /\ In(r, {"combine"}, "run")
  /\ seg \in work[r].sent \ work[r].flagged
  /\ LET arrived == {SlotOf(r, row) : row \in RowsOfSegment(r, seg)} IN
       reduceFlag' = [reduceFlag EXCEPT ![seg[2]][Bank(r)] = [s \in Slots |->
         IF s \in arrived THEN combEpoch[r].rows[Bank(r)] ELSE @[s]]]
  /\ work' = [work EXCEPT ![r].flagged = @ \cup {seg}]
  /\ Stay
  /\ UNCHANGED <<program, routing, overtaken, counts, origin, pool, dispFlag, comb, localVars, xgmiVars>>

\* The reduce blocks bring the flags of the empty tiles along.
AllButFirstEmpty(r) == {i \in Tiles : i - 1 \in Tiles \ MyTiles(r)}   \* mutant
EmptyTiles(r) == Tiles \ MyTiles(r)
AlignEmptyTiles(r) ==
  /\ In(r, {"combine"}, "run")
  /\ EmptyTiles(r) # {} /\ ~ work[r].aligned
  /\ combFlag' = [combFlag EXCEPT ![r][Bank(r)] =
       [i \in Tiles |-> IF i \in EmptyTiles(r) THEN @[i] + NBlocks ELSE @[i]]]
  /\ work' = [work EXCEPT ![r].aligned = TRUE]
  /\ Stay
  /\ UNCHANGED <<program, routing, overtaken, dataVars, scratch, handle, dispEpoch, combEpoch, l2, xgmiVars>>

ValidSlots(r, t) == {s \in Slots : TokenOf(s) = t /\ Choices(r)[s] # NoExpert}
AllArrived(r, t) ==
  \A s \in ValidSlots(r, t) : reduceFlag[r][Bank(r)][s] = combEpoch[r].rows[Bank(r)]

\* A warp sums a token's slots between their arrival and this.
ReduceToken(r, t) ==
  /\ In(r, {"combine"}, "run")
  /\ work[r].aligned /\ t \notin work[r].reduced
  /\ AllArrived(r, t)
  /\ work' = [work EXCEPT ![r].reduced = @ \cup {t}]
  /\ Stay
  /\ UNCHANGED <<program, routing, overtaken, dataVars, localVars, xgmiVars>>

EndCombine(r) ==
  /\ In(r, {"combine"}, "run")
  /\ work[r].tiles = MyTiles(r) \X (1 .. NBlocks)
  /\ work[r].flagged = Segments(r)
  /\ EmptyTiles(r) # {} => work[r].aligned /\ work[r].reduced = Tokens
  /\ NextKernel(r)
  /\ UNCHANGED <<program, routing, overtaken, work, dataVars, localVars, xgmiVars>>
-----------------------------------------------------------------------------
PrologueStep(r) ==
  \/ Histogram(r) \/ BarrierStep(r) \/ PushCounts(r) \/ BuildTables(r)
  \/ Scatter(r) \/ CloneSlots(r) \/ SaveWeights(r)

DispatchStep(r) ==
  \/ BeginDispatch(r) \/ EndDispatch(r) \/ WeightGrad2(r)
  \/ \E e \in Experts : PushTask(r, e) \/ SignalTask(r, e)
  \/ \E piece \in Tiles \cup Experts : FinishPiece(r, piece)

CombineStep(r) ==
  \/ BeginCombine(r) \/ AlignEmptyTiles(r) \/ EndCombine(r)
  \/ \E i \in Tiles, n \in 1 .. NBlocks : StoreBlock(r, i, n) \/ CountBlock(r, i, n)
  \/ \E seg \in Experts \X Ranks : PushSegment(r, seg) \/ SignalSegment(r, seg)
  \/ \E t \in Tokens : ReduceToken(r, t)

RankStep(r) == PrologueStep(r) \/ DispatchStep(r) \/ CombineStep(r)

Next == \E r \in Ranks : RankStep(r)

Spec == Init /\ [][Next]_megaVars

\* The kernels of a stream are executed: their blocks make progress.
FairSpec == Spec /\ \A r \in Ranks : WF_megaVars(RankStep(r))
-----------------------------------------------------------------------------
(***************************************************************************)
(* What the gates need of the routings, beyond what the code requires of   *)
(* its callers.  A rank that neither sends nor receives a row in a layer   *)
(* waits for nobody there; and if all tiles of a pool are real, a combine  *)
(* has no blocks for its reduction and does not wait for the rows either.  *)
(***************************************************************************)
NoRankIdle ==
  \A R \in Routings, l \in Layers, r \in Ranks : \E q \in Ranks, s \in Slots :
    R[l][q][s] # NoExpert /\ (q = r \/ Owner(R[l][q][s]) = r)

\* The matrix of counts of one layer's choices.
CountsOf(R) ==
  [q \in Ranks |-> [e \in Experts |-> Cardinality({s \in Slots : R[q][s] = e})]]
SpareTile ==
  \A R \in Routings, l \in Layers, r \in Ranks : RealTiles(CountsOf(R[l]), r) < MaxTiles

(***************************************************************************)
(* Types of the state that several ranks write.                            *)
(***************************************************************************)
MegaTypeOK ==
  /\ pc \in [Ranks -> 1 .. Len(program) + 1]
  /\ counts \in [Ranks -> [Ranks -> [Experts -> 0 .. Cardinality(Slots)]]]
  /\ \A r \in Ranks : \A row \in PoolRows :
       /\ pool[r][row] \in {NoRow} \cup ((1 .. Len(program)) \X Ranks \X Tokens)
       /\ origin[r][row] \in {NoRow} \cup (Layers \X Ranks \X Slots)
  /\ \A r \in Ranks : \A s \in Slots :
       comb[r][s] \in {NoRow} \cup ((1 .. Len(program)) \X Experts)
  /\ \A r \in Ranks : \A b \in Banks :
       /\ \A e \in Local(r) : dispFlag[r][b][e] \in 0 .. NumRanks * Len(program)
       /\ \A s \in Slots : reduceFlag[r][b][s] \in 0 .. Len(program)

(***************************************************************************)
(* The tables of a handle fit together although sender and receiver build  *)
(* them apart and atomics order the scatter: row i of what q sends to an   *)
(* expert of r carries the token whose slot of q the receiver has recorded *)
(* for that row; that slot chose the expert; and no slot is recorded twice. *)
(* Once saved, the routing weights are those of the same slots.            *)
(***************************************************************************)
HandleTablesAgree ==
  \A r \in Ranks, l \in Layers : handle[r][l].slot # <<>> =>
    LET h == handle[r][l] IN
    \A e \in Local(r), q \in Ranks :
      LET segment == Rows(h.recvRow[e][q], h.recvCount[e][q])
          sender  == handle[q][l]
      IN
      /\ segment \subseteq {row \in RealRows(h, e) : h.expert[row \div BlockM] = e}
      /\ segment = Rows(sender.sendRow[e], sender.sendCount[e])
      /\ \A row \in segment :
           /\ \E s \in Slots :
                /\ h.slot[row] = <<l, q, s>>
                /\ routing[l][q][s] = e
                /\ sender.token[sender.offset[e] + row - sender.sendRow[e]] = TokenOf(s)
           /\ \A other \in segment \ {row} : h.slot[other] # h.slot[row]
           /\ h.weight # <<>> => h.weight[row] = h.slot[row]

\* The rows a rank reads are the ones sent to it by this call (dispatch).
RowsOfCall(r, call, rows) ==
  \A row \in rows :
    LET o == H(r).slot[row]
    IN  pool[r][row] = <<call, o[2], TokenOf(o[3])>>

(***************************************************************************)
(* While a GEMM may read a tile, the dW1 GEMM an expert's rows, or dW2 the *)
(* pool, every real row there is the one its sender pushed in this very    *)
(* call: no flag of an earlier call opens the gate, no part is missing and *)
(* no peer has run ahead and overwritten it.  All of this is lost once a   *)
(* rank has gone from the backward of one layer to that of the next before *)
(* the others have ended its dW1 dispatch: nothing in the code orders the  *)
(* pushes of the two, which go to different rows of the same pool.  It     *)
(* needs routings that leave no rank idle: one that has no row to send or  *)
(* to receive waits for nobody and may be two dispatches ahead; and ones   *)
(* that leave every pool an empty tile: see NoRankIdle and SpareTile.      *)
(***************************************************************************)
TilesReadOwnCall ==
  \A r \in Ranks : overtaken \/
    /\ In(r, Dispatches, "run") =>
         \A piece \in Pieces(r) \ work[r].tiles :
           GateOpen(r, ExpertOf(r, piece)) => RowsOfCall(r, pc[r], RowsOf(r, piece))
    /\ In(r, {"wgrad2"}, "start") =>
         \A e \in Local(r) : RowsOfCall(r, pc[r] - 1, RealRows(H(r), e))

(***************************************************************************)
(* A gate that tests for equality would never open again once passed: no   *)
(* peer signals a bank for a later call while a tile still waits on it,    *)
(* and the flags of all tiles, empty ones too, are level with the expected *)
(* value when a combine has ended, in both banks.                          *)
(***************************************************************************)
GatesNotOvershot ==
  \A r \in Ranks :
    /\ In(r, Dispatches, "run") => \A piece \in Pieces(r) \ work[r].tiles :
         LET b == dispEpoch[r].parity IN
         dispFlag[r][b][ExpertOf(r, piece)] <= dispEpoch[r].expected[b]
    /\ ~ In(r, {"combine"}, "run") => \A b \in Banks, i \in Tiles :
         combFlag[r][b][i] = combEpoch[r].tiles[b]

(***************************************************************************)
(* While the reduction may sum a token, each of its valid slots holds the  *)
(* row that the expert chosen there computed in this call, all n-blocks of *)
(* it; an earlier call's row or flag is never taken for it.                *)
(***************************************************************************)
ReduceReadsThisCall ==
  \A r \in Ranks : In(r, {"combine"}, "run") =>
    \A t \in Tokens \ work[r].reduced : AllArrived(r, t) =>
      \A s \in ValidSlots(r, t) : comb[r][s] = <<pc[r], Choices(r)[s]>>

(***************************************************************************)
(* Every rank gets through its program: no gate, barrier or reduction      *)
(* waits for ever.                                                         *)
(***************************************************************************)
AllKernelsEnd == <>(\A r \in Ranks : ~ Running(r))
=============================================================================
