# A TLA+ verification of Primus-Turbo's expert-parallel communication

Primus-Turbo is a library of training kernels for AMD GPUs. Most of it is
numeric: GEMM, attention, quantization, normalization. What can be wrong in a
way no unit test reaches is its communication: kernels of several GPUs ("ranks")
that read and write each other's memory, with no lock, through barriers,
ring buffers, counters and flags. This directory holds TLA+ modules of that
part, TLC configurations that check them on small instances, and TLAPS proofs
of what holds for every instance. Paths below are relative to the repository.

## Inventory

| Component | State it keeps | Operations | What makes it correct |
|---|---|---|---|
| device barrier, `csrc/kernels/deep_ep/utils.cuh` | a signal word per pair of ranks, never reset | `barrier_block` | nobody leaves before everybody came; everybody who came leaves |
| intranode dispatch, `csrc/kernels/deep_ep/intranode.cu` | a ring per (source, destination, channel): offsets, head, tail, slots | sender and receiver blocks | each selected token arrives once, in its row; no slot is reused early; the handle is right |
| intranode combine, same file | the same rings in the other direction, `send_head`, heads per warp | sender blocks, reducing warps, head updater | each token is reduced from its own slots; a handle works again |
| `Buffer`, `csrc/pytorch/deep_ep/deep_ep.cpp`, `primus_turbo/pytorch/deep_ep/buffer.py` | exported memory, peers' pointers, signals | construct, gather handles, `sync`, operate, `destroy` | no access to freed or uncleared memory |
| host side of the intranode calls, same files | pinned counters, a communication stream | dispatch (waiting, `num_worst_tokens`, cached), combine | outputs sized by the call's own counts; calls do not meet in the buffer |
| layout kernel, `layout.cu` | none | `get_dispatch_layout` | counts equal the routing |
| internode, `internode.cu`, `runtime.cu` | RDMA and NVL rings, forwarder heads | dispatch and combine over two hops | as intranode, with credit given back across two hops |
| JAX binding, `csrc/jax/deep_ep`, `primus_turbo/jax/deep_ep/runtime.py` | a pool of buffers per process | FFI handlers, handle exchange by threads | one buffer per size, all ranks exchanged |
| symmetric memory, `primus_turbo/pytorch/core/symm_mem.py` | signal pad, IPC handles, a workspace per group | barrier by compare-and-swap, workspace growth, destroy | as the device barrier; no kernel uses a replaced workspace |
| Mega MoE barriers, `primus_turbo/flydsl/mega/barrier.py` | a counter and two signals per rank; a grid counter | `xgmi_barrier`, `grid_sync` | as the device barrier |
| Mega MoE epochs, `primus_turbo/flydsl/mega/` | two parity banks, expected counts, tile and slot flags | dispatch and GEMM, GEMM and combine | a gate opens exactly when its tile is complete |
| kernel dispatcher, `primus_turbo/pytorch/core/backend.py` | user choice, tuning cache | dispatch, tune, cache | a supported backend, the same on all ranks of a collective |
| async tensor parallelism, `primus_turbo/pytorch/kernels/async_tp/` | workspace chunks, streams, flags | all-gather and GEMM, GEMM and reduce-scatter | a chunk is used only when it has come |
| token dispatcher, `primus_turbo/pytorch/modules/moe/` | one buffer, handles | permute, dispatch, combine | handle used with the buffer it came from |
| quantized tensors, stream pool | cached forms; cached streams | sequential | not concurrent |

How they interact. `Buffer` allocates memory, exchanges IPC handles and clears
the signals. A dispatch launches two kernels on the rank's stream: a notify
kernel, which exchanges counts between two barriers, clears the ring pointers of
its own rank and gives the host the number of tokens through pinned memory, and
the data kernel, which fills and drains the rings. It returns a handle, whose
prefix matrices serve a cached dispatch and whose `send_head` serves combine.
Combine has the same shape, with a notify kernel that rewrites `send_head`.

Hard behaviours: kernels of different ranks are a whole call apart; warps of a
block are apart within a chunk; a rank may trap on a timeout while its peers go
on; the host reads counters kernels write; memory is freed while peers may still
look at it. `PROJECT.json` lists each hazard with its line.

## Modules

| Module | Models | State and actions |
|---|---|---|
| `Barrier` | the promise of a barrier | `entered`, `left`; `Enter`, `Leave` |
| `BarrierBlock` | `barrier_block` | `signal[r][t]` is `barrier_signal_ptrs[r][t]`; per lane `AddOwn`, `SubPeer`, `Load`; per wavefront `Return` (`__all_sync` held), `Retry`, `TimeoutTrap` |
| `IntranodeDispatch` | `dispatch`, offsets of `notify_dispatch` | per queue: sender `SendStartOffset`, `SendEndOffset`, `TakeChunk`, `FillSlot`, `PublishTail`; receiver `ReadStartOffset`, `ReadEndOffset`, `ReadTail`, `CopyRow`, `PublishHead`; `CleanRow`; `TimeoutTrap` |
| `IntranodeDispatch_proofs` | proofs about it | see below |
| `IntranodeCombine` | `cached_notify_combine`, `combine` | `StartCombine`, `EncodeColumn`; sender `TakeRound`, `FillSlot`, `PublishTail`; updater `ReadTail`, `MoveHead`, `StopMoving`; warps `TailsReached`, `ReadSlot`, `FinishToken`, `Retire`; `TimeoutTrap` |
| `IntranodeCombine_proofs` | proofs about it | see below |
| `BufferLifecycle` | `Buffer`'s constructor, `sync`, `destroy` over `BarrierBlock` | `Construct`, `ClearSignals` (the queued memset), `Gather`, `Sync`, `Operate`, `BeginDestroy`, `Free`, and the lanes of `BarrierBlock` |
| `BufferLifecycle_proofs` | proofs about it and `BarrierBlock` | see below |
| `DeepEPSession` | the host's calls, stream and counters over `Barrier` | host `CallAndWait`, `CallWorst`, `CallCached`, `CallIdle`, `ReadTotal`, `ReadAgain`, `TakeCounts`, `GiveUp`; kernel steps `EnterBarrier` .. `EndData` |
| `DeepEPSession_proofs` | proofs about it | see below |
| `AsyncTP` | `ag_gemm_impl.py`, `gemm_rs_impl.py`, the barrier of `symm_mem.py` | current stream `BeginGather`, `WaitSignal`, `Gemm`, `EndGather`, `BeginScatter`, `BarrierPut`, `BarrierTake`, `EndScatter`, `Reduce`; comm streams `CopyPart`, `SignalPart`, `Scatter`; copy stream `CopyOut`; another collective `BeginOther`, `EndOther` |
| `AsyncTP_proofs` | proofs about it | see below |
| `InternodeDispatch` | `dispatch` of `internode.cu`, prefix sums of `notify_dispatch` | source `SendMeta`, sender warps `TakeSlots`, `CopyToken`, `Epilogue`, coordinator `IssuePut`, `LandPut`, `AddTail`; destination forwarders `ReadMeta`, `CopyBatch`, `Publish`, `Retire`, coordinator `Credit`; receivers `ReadPrefix`, `CopyRows`, `MoveQueue`; remote adds under way `TailArrives`, `HeadArrives` |
| `InternodeDispatch_proofs` | proofs about it | see below |
| `XgmiBarrier` | `xgmi_barrier` | `counter[r]` is the word at `counter_ptr`, `signal[r]` the two signal words, `unsent[r]` the threads still to add; `Call`, `Send`, `Advance`, `Return` |
| `MegaMoE` | the bf16 kernels of `flydsl/mega/` over `XgmiBarrier` | buffers of the symmetric heap (`counts`, `origin`, `pool`, `dispFlag`, `comb`, `reduceFlag`), the rank's own (`scratch`, `handle`, epochs, `combFlag`, `l2`); prologue `Histogram`, `BarrierStep`, `PushCounts`, `BuildTables`, `Scatter`, `CloneSlots`, `SaveWeights`; dispatch `BeginDispatch`, `PushTask`, `SignalTask`, `FinishPiece`, `EndDispatch`, `WeightGrad2`; combine `BeginCombine`, `StoreBlock`, `CountBlock`, `PushSegment`, `SignalSegment`, `AlignEmptyTiles`, `ReduceToken`, `EndCombine` |
| `MegaPrologue_proofs` | proofs about `XgmiBarrier` and about the prologue of `MegaMoE`: its tables and handles | see below |
| `MegaMoE_proofs` | proofs about the gates of `MegaMoE`: epochs, flags, dispatch and combine | see below |
| `MC...` | instances | routings, queues and programs for TLC |

Composition: `BufferLifecycle` extends `BarrierBlock` and conjoins its steps with
the memory's state. `DeepEPSession` extends `Barrier`, the abstraction
`BarrierBlock` is proved to implement, so that the session has barriers of two
steps in place of a dozen per rank. `AsyncTP` has a barrier of its own, whose words
its gathers use too, and is shown to implement `Barrier` as a whole.
`MegaMoE` extends `XgmiBarrier`: its prologue takes the barrier's own steps, and the
barrier inside the kernels is shown to be a `Barrier`.

Abstractions. Memory is sequentially consistent and an atomic, a volatile load or a store of a
word is one step; the acquire and release the code asks for are taken to work.
A token's payload (hidden vector, scales, top-k) is the identity of the token.
Slots of one chunk are filled, and copied, in any order, one at a time, as the
warps do. Warps of a sender each test for room; they are modelled by one test,
the last one, since a larger head only gives more room. `clock` and
`wall_clock` are not modelled: a wait that is not satisfied may trap at any
moment (`TimeoutTrap`, bounded by `MaxTraps`), a superset of the real timings.
In `AsyncTP` a product, a copy or a reduction reads all through its step: what it
uses must be right from the signal to the end of the step. A block of the workspace
stands for a chunk, gathers and scatters having blocks of one size. The gemm stream
is the current one and there is a comm stream per peer, as in the documented use;
the copies of a reduce-scatter may come in any order, those to one peer of a gather
come in the order they are queued.

In `MegaMoE` all ranks run one program of kernels (the layers of a model, forward and
backward), each on one stream. A row is `<<kernel, rank, token>>`: which call of which
rank put which token there. Products and sums are the rows they were made of. The
phases of a kernel are those its `grid_sync` and block barriers separate; within a
phase the blocks take their tasks in any order the strides over the grid allow. The
routing weights travel with `pool_src_slot` and are not told apart from it until they
are cloned. What a model runs between two layers (the router, the activation) does
not touch these buffers.

In `InternodeDispatch` one channel and the flow of one NVL rank are followed, as channels
and flows share no queue; what others send shows in the prefix sums. The metadata of
a source arrives as a whole, which is what the `!= 0` tests of all four words wait
for. A put arrives after it was issued and before the tail that is added behind it;
a local one lands at once. An atomic addition to a remote word is issued in one step
(`issued`, `credited`) and arrives in another (`TailArrives`, `HeadArrives`), adds under
way to one word together; a quiet waits for those before it. A forwarder reads and copies
a batch in one step, and a receiver a queue, and each publishes in another, so between the two
the slots are in use and the words say the old. The two words a forwarder publishes, the RDMA
head for the coordinator and the NVL tail for the receiver, are written in one step: they have
different readers, neither of which reads the other's.
Timeouts are not modelled.

## Runs and what they show

| Run | Result | Instance and why it is enough |
|---|---|---|
| `barrier_block` | pass | 2 ranks, 4 calls: signals visit -Tag, 0, Tag, with ranks a call apart; the proof covers the rest |
| `intranode_dispatch` | pass | 2 ranks, 2 channels of 4 tokens, chunk 2, ring 3: the ring wraps, fills, and has a last partial chunk; followed are a second channel of 0 to 4 tokens, with both offsets in front of it, and a first channel of one token or none, whose start is 0 (encoded -1, as is the end when it is empty); 8 worst-case rows, one trap |
| `intranode_combine` | pass | 2 sending ranks, 3 warps, 5 tokens, chunk 2, ring 4: ring wraps, warps skip a rank early, late and throughout; two combines on one handle, one trap |
| `combine_small_ring` | violation | the same with a ring of 3 and no trap |
| `buffer_lifecycle` | pass | 2 ranks, 3 barrier calls, memory that holds 0 or Tag before the memset, any timeouts |
| `first_barrier` | violation | the same, with fairness and clean memory |
| `deep_ep_session` | pass | 2 ranks, all programs of 3 calls that begin with an uncached dispatch and do not wait for counts over an unfinished `num_worst_tokens` dispatch; CPU timeouts of none, one or both hosts |
| `mixed_dispatch` | violation | the two-call program that does |
| `async_tp` | pass | 2 ranks, 2 chunks, all sequences of three calls: each call has any kind before and behind it; with 3 ranks and 1 chunk (213 thousand states) the result is the same |
| `gather_overwrites` | violation | two gathers in a row |
| `mega_moe` | pass | 2 ranks of 2 experts, 2 tokens of 2 choices, tiles of 2 rows; forward of two layers then their backward in reverse, or one layer after the other: both banks come round, in all kernels. The routings have a segment that spans two tiles, an expert behind another's padding, experts and a rank that receive nothing, slots without an expert. The run has one n-block and one dispatch block (189 thousand states). One layer forward and backward over the crossed routing with 2 n-blocks (202 thousand states), and each program over each routing with 2 dispatch blocks (61 to 162 thousand), give the same result; `ReductionsRight` below is for any number of both |
| `internode_dispatch` | pass | 2 nodes of 2 ranks, the second of two channels, 2 sender warps, RDMA ring of 6 with puts of 2, NVL queue of 3 with chunks of 2. Node 0 sends node 1 seven tokens (the ring wraps, with a put of one at the end), or node 1 sends itself as many, or the two nodes send the ranks of node 1 tokens that meet in one NVL queue, or a token goes to both nodes; rows of an earlier channel and of another flow lie in front (146 thousand states) |

Properties of the passing runs: a type invariant each, and

- `BarrierImplemented`: `barrier_block` is a `Barrier` (refinement, `entered <- calls`).
- `CompleteBarrierReturns`: a barrier all ranks entered lets each of them out, but for those whose own wait trapped; a peer that traps in its own wait has subtracted before, and takes nobody with it.
- `RowsCorrect`: what a receiver copied is, in the row the prefix matrices give it, the right token, and rows past the last are unused at the end.
- `NoLiveSlotRewritten`: a slot published and not yet copied is as it was sent.
- `HandleConsistent`: `send_head` holds each token's place in its queue, -1 elsewhere.
- `AllDelivered`: every queue is delivered whole, unless a rank trapped.
- `ReducedRight`: a token is reduced from one contribution of each rank that holds it, no other, in every combine over the handle.
- `HeadBehindReaders`: the head never passes the slot a warp is still to read.
- `HeadsOnlyAdvance`, `EveryCombineEnds`: heads are monotone within a combine; combines end.
- `NoUseAfterFree`, `BarrierFromFreshMemory`: no lane works on freed signals; barriers hold whatever the memory held at first.
- `SizedByOwnCounts`: a waiting dispatch takes its own total and expert counts.
- `DataOnCleanQueues`: no kernel clears the ring pointers under a data phase, and none starts on uncleared ones.
- `MetadataApart`: counts are not posted to a rank whose data kernel still uses the area.
- `OwnDataUnlessGatherFollows`: what is multiplied, copied or reduced is of the call itself, unless the next call is a gather.
- `BarrierImplemented` of `AsyncTP`: the compare-and-swap barrier is a `Barrier`, whatever gathers do with its words.
- `AllCallsEnd`: every sequence of calls ends and leaves the signal pads clear.
- `AllCallsComplete`: every call before the first one a host gives up is executed on every rank, all of
  the program when none does; of the call that is given up the peers' hosts, though not their data kernels, still get
  what they wait for.
- `XgmiImplementsBarrier`: `xgmi_barrier`, as the kernels use it, is a `Barrier`.
- `HandleTablesAgree`: what sender and receiver compute of a handle apart fits together: row, token, slot and expert.
- `TilesReadOwnCall`: a GEMM that may read a tile finds in it what was pushed in this call, outside the case below.
- `GatesNotOvershot`: no flag compared for equality passes the value waited for; flags of empty tiles are level.
- `ReduceReadsThisCall`: a reduction that may start has all its rows, of this call.
- `AllKernelsEnd`: every rank gets through its program.
- `RdmaSlotsKept`, `NvlSlotsKept`: no slot of either ring is overwritten before its last reader is done: the slowest of the forwarders, the receiver.

In `internode_dispatch`, `RowsCorrect`, `HandleConsistent` and `AllDelivered` say for two
hops what they say for one in `intranode_dispatch`; the handle there is `send_rdma_head`
at the source and `send_nvl_head` at the node between.

## Where the code disagrees with what it says

1. **Combine with a small ring** (`combine_small_ring`). `Config` admits every ring
   longer than a chunk (`config.hpp:33`). The combine's head is the least of what
   the unretired warps report, and warps take tokens in turn, so the spread of the
   warps stays occupied. A ring shorter than chunk + warps - 1 (15 warps) may
   never have a chunk free: sender and warps wait for each other until the
   timeout traps. All default configurations are long enough.
2. **First barrier** (`first_barrier`). `deep_ep.cpp:81` says the memset of the
   signals needs no synchronization because `sync` does it. `sync` waits for the
   own device only. A peer that is through its `sync` may enter a barrier while
   the memset is still queued; its subtraction is then overwritten.
3. **Counters shared by calls** (`mixed_dispatch`). A waiting dispatch that
   follows a `num_worst_tokens` dispatch in flight takes the counts the earlier
   call's kernel writes after the reset at `deep_ep.cpp:523`.
4. **A gather behind a gather** (`gather_overwrites`). `fused_all_gather_matmul`
   copies chunks into its peers' shared workspace before it waits for anything of
   theirs (`ag_gemm_impl.py:93`). A rank that is done with one gather may overwrite
   what a slower peer has still to multiply. With a reduce-scatter or any other
   collective between the two it cannot (`OwnDataUnlessGatherFollows`).

Met while modelling, and stated as an assumption or an exception of a passing run:

5. **Internode dispatch with a small ring.** `config.hpp:36` says its checks see to it that
   "senders always have space". A sender warp waits for space in one node's ring
   with the lock in hand; up to `SenderWarps` tokens (7) are then unpublished,
   up to a chunk less one is published and not sent, and up to a chunk less one is
   free and not credited. With a ring of at most warps + chunk - 1 slots (a chunk of
   4 and a ring of 8, which `Config` accepts) no one goes on: TLC refutes `AllDelivered`
   with 2 warps, chunk 1 and ring 2. `RingAssumption` asks for more than all three
   together; that suffices in the run and is not the least that does. All default
   configurations have rings of 128 and more.
6. **The backward of one layer behind that of another.** A dispatch with a saved handle
   has no prologue and so no barrier. Nothing keeps a rank that has done the dW1
   dispatch of its last layer from pushing the rows of the next layer's backward into the pool of
   a peer whose dW1 GEMM still reads them: the flags only hold back readers. In
   `MegaMoE`, `overtaken` records that a rank got so far ahead, and
   `TilesReadOwnCall` claims nothing from then on; without that exception TLC refutes
   it on the program with both backwards in reverse order. The timing is narrow (the
   combine between the two dispatches waits for the peers' rows of the combine, but not
   for their dW1 GEMM).
7. **A pool full of real tiles.** The blocks that reduce are the ones whose tiles are
   empty (`grouped_gemm_combine_bf16_kernel.py:272`). If real rows filled every tile
   none would be left. That needs as many choices of every token of all ranks as can
   to fall on one rank, and each of its experts to get one row more than a whole number of
   tiles. `MegaMoE` does the same (`AlignEmptyTiles`, `EndCombine`); no routing
   of the run comes near. Such a rank not only lacks its results: it has waited for
   nobody's rows, and its dW1 dispatch may overwrite rows that a peer's GEMM of the
   backward dispatch still reads. TLC refutes `TilesReadOwnCall` on two full ranks of one expert
   with tiles of one row, and finds no error in `GatesNotOvershot` and `ReduceReadsThisCall`,
   which are proved without this exception.
8. **An idle rank.** The flags count signals and do not say whose. What keeps a rank
   from signalling the same bank for the next call but one is that it waits for its
   peers in between: for the rows of a tile, or for the rows of its own tokens. A rank
   all of whose choices are -1 and whose experts nobody has chosen has neither, so it runs through
   forward dispatch, combine, backward dispatch and combine, and its dW1 dispatch adds
   to the bank of the forward dispatch once more. Where a peer has not signalled yet
   its gate then opens without that peer's rows; where it has, the flag goes past the
   value and the gate stays shut. TLC refutes `TilesReadOwnCall` and `GatesNotOvershot` on
   such a routing (one layer forward and backward, rank 1 idle). The routings of the
   run, and so what it shows, leave no rank idle. The dW1 dispatch waits for
   all of its experts, used or not (`dispatch_grouped_gemm_bf16_kernel.py:199`), so
   it is only the other dispatches that may wait for nobody.

## Fairness

Weak fairness of each lane, sender, receiver, warp and updater step: their
wavefronts are resident (each kernel is launched with as many blocks as it has
channels, which must all be on the device at once, as the code assumes) and
they spin, so a step that stays enabled is taken. No fairness for `TimeoutTrap`
or `GiveUp`: they need not happen. None for a rank's decision to call the
barrier again in `BarrierBlock`. The host and its stream are weakly fair in
`DeepEPSession` and in `LifeFairness`: a program that calls goes on, and a
stream works off its queue. Where the code traps, the liveness properties of the data
kernels carry the escape "or a rank trapped", since a peer that is gone leaves its
queues as they are; `CompleteBarrierReturns` and `AllCallsComplete` claim of a rank what does not
depend on the one that gave up. In `AsyncTP` each stream is weakly fair by itself, as
streams run beside one another; it has no timeouts. In `MegaMoE` each rank is
weakly fair: the kernel at the head of its stream is on the device with all its
blocks, of which the waiting ones spin. In `InternodeDispatch` weak fairness of the
next-state relation is enough, since every step moves some bounded counter on: as
long as some warp can go on, one does.

## Proofs

`BufferLifecycle_proofs` proves of `BarrierBlock`, from `BlockAssumption` only (`Tag` positive,
`MaxCalls` a natural; `Ranks` any set), for every number of ranks and calls:

- `TypeCorrect`: `Spec => []TypeOK`, which includes that a signal is -Tag, 0 or Tag;
- `Invariance`: `Spec => []IInv`;
- `ImplementsBarrier`: `Spec => BarrierImplemented`.

`TypeOK` is not inductive: nothing in it keeps a signal from being raised twice.
`IInv` counts: `Added(r, t)` and `Taken(r, t)` are the atomics lane t of rank r
has done, derived from its calls and its place. Then signal[r][t] is Tag times
Added(r, t) - Taken(t, r) whatever the order (`SignalCounts`); a value a lane
has seen at or below zero stays justified, since only the lane itself raises it
(`ClearMeansTaken`); so a call returns only when every peer has subtracted as
often (`ReturnsMatched`). Hence the counts of two ranks are within one
(`CountsWithinOne`), which bounds the signals, and a returning call has been
entered by everyone, which is the guard of `Leave`.

and of `BufferLifecycle`, from `BlockAssumption` and `LeftoversAssumption`
(memory holds integers), for every number of ranks and operations and whatever
the memory held:

- `LifeInvariance`: `LifeSpec => []LifeIInv`;
- `LifeTypes`: `LifeSpec => []LifeTypeOK`, which bounds every signal: before the memset what the
  memory held, or Tag less; after it -Tag, 0 or Tag;
- `FreedIsUntouched`: `LifeSpec => []NoUseAfterFree`;
- `LifeImplementsBarrier`: `LifeSpec => BarrierFromFreshMemory`.

The argument is the same counting with an inequality in place of the equation.
A memset that runs late may wipe out subtractions of peers (finding 2), so a
cleared signal is at least Tag times the difference (`SignalAtLeast`); too high
a signal holds its owner back and never lets it through. A rank frees its
signals when its last call has returned (`StageFits`), and then `ReturnsMatched`
says that each peer has made its last subtraction.

`MegaPrologue_proofs` proves `XgmiRefinesBarrier`, `XgmiSpec => XgmiImplementsBarrier`, from
`XgmiAssumption` (finitely many ranks, `MaxCalls` a natural). Here the argument is of
another kind: a word is used by every second call, up and down in turn, and compared
for equality. `Raised(p, w)`, the ranks whose last addition to word w of rank p went
up, is what the word counts (`WordsCount`); a rank is in step
with its counter (`InStep`); and a call that returned was signalled by all (`ReturnsSignalled`).
Since no one is more than a call ahead, the word at the target means that all have
signalled this call and none the next one that uses the word.

It also proves `MegaImplementsBarrier`: each action of the kernels takes a step
of the barrier or leaves its state alone (`KernelsStepTheBarrier`), so every execution of
the kernels, with whatever program, routing and ranks, has a barrier in it.

On this rests `HandlesFit`, `Spec => []HandleTablesAgree`. It has two halves.

- Tables (no state in them). Every table is a sum over ranks or experts, and a
  sum of naturals is the size of a set of pairs (`SumIsStack`), so facts about sums are facts
  about finite sets. Segments of a pool lie apart and in their expert's rows, tiles name the
  expert of their rows (`RowsOfSegments`, `SegmentsCover`, `TileOfRow`); parts of
  `dispatched_token_idx` lie apart (`OffsetsApart`); the places atomics give out fill
  a segment, each once, in whatever order (`DestsDiffer`, `IndexesDiffer`, `SegmentFilled`); and
  the pool is large enough (`PoolSuffices`, listed as a result of its own).
- State. `HandleTablesAgree` says what holds when a handle is finished and is far from
  inductive; `PrologueInv` follows the prologue to it. A rank's kernel and stage are one number,
  its place, and the barrier calls it has made are a function of it (`CallsOK`). By
  the barrier's invariant whoever has left a call knows all have entered it (`Meets`), that is, where
  everybody is at least. So the counts a rank builds its tables from are
  those of this layer, from all (`CountsOK`, `CountsLanded`); what it has recorded of a
  peer's slots is right from the moment that peer has scattered until the rank enters the next
  prologue (`OriginOK`), because nobody scatters for that one before all have entered it; hence
  the clone, and the weights saved three kernels later, are right too (`SlotsOK`, `HandleOK`). The scratch counts are zero
  between prologues (`ScratchOK`), without which the places would not start from none.

Assumed, besides `XgmiAssumption` and the types of `MegaAssumption`, is what `MegaMoE` says of its inputs: autograd runs
forwards and backwards whole and a layer has one forward (`ProgramAssumption`), and a token's choices
are different experts (`ChoicesAssumption`), as `get_num_max_pool_tokens` counts on.

`MegaMoE_proofs` is about the gates: `MegaTypes`, `GatesHold`, `ReductionsRight` and `TilesAreOwn`,
of `Spec`, for any number of ranks, experts, tiles, tokens and calls. No counter is ever reset, so
all rests on facts that, once true, stay true: `Begun(r, i)`, rank r has begun kernel i of the
program, and `Pushed` and `Flagged(r, i, x)`, it has pushed, or signalled, part x of kernel i.

- `LocalInv` says what each counter counts, and is inductive beside `PrologueInv` without
  hypotheses on the routings. Parity and expected values count the kernels of that bank a rank has
  begun (`EpochsOK`); a dispatch flag is the number of pairs of a rank and a dispatch of the bank
  such that the rank has signalled the expert (`DispFlagsOK`); a tile's flag is level with the
  expected value but for the blocks this combine has still to do, for empty tiles the
  alignment (`TilesOK`); a slot's flag, read as a number, names the combine in which the expert of that
  slot has sent its row home (`ReduceFlagsOK`, `CallOf`). `MegaTypes` follows: flags
  count no rank twice, so they stay below ranks times kernels.
- `GateInv` says what waiting gives. A rank that has passed a gate of dispatch i has the
  signals of all ranks for i (`GatesOK`, `Opened`), one that has reduced a token its rows
  (`ReducedOK`). Hence everybody has begun i when anybody is past the last kernel of that
  operation that waits (`FencesOK`, `Fence`): nobody can be two dispatches ahead, on the same
  bank again. So the signals on a bank are those of all earlier calls and some of this
  one, and equality with the expected value says all of this one (`GateMeans`): the gate is neither
  passed by nor opened early. What was sent home stays until it is reduced (`CombOK`). Without
  `FencesOK` the rest is not inductive: a flag at most at its expected value does not
  bound what a rank two calls ahead may add to it.
- `RowInv` says that rows stay in a pool for as long as they are read (`PoolOK`): who writes there next
  has not begun. That is so only up to the moment `overtaken` records (6 above);
  until then dispatches of different layers are apart (`LayersApart`).

`GatesHold` and `ReductionsRight` assume `NoRankIdle` of the routings, `TilesAreOwn` also `SpareTile`.
These exclude the situations 8 and 7, in which TLC refutes what is proved here: an idle rank passes no
gate, so `FencesOK` fails of it, and a rank without an empty tile reduces nothing and so
does not wait for its peers' combine before it pushes again. Nothing in the code excludes either
situation. `MCMegaMoE` assumes both hypotheses of its routings, so TLC evaluates them: the
instance is one of those the theorems speak of.

`IntranodeDispatch_proofs` proves, from `DispatchAssumption` only (positive numbers, a
chunk shorter than the ring), `RowsAreCorrect`, `LiveSlotsKept`, `HandleIsConsistent`
and `TypeCorrect` from `Invariance`. The last includes that an offset that has been sent is
below 0, never the 0 a receiver takes for "not written yet", also of a first or an empty channel. `Place(q, t)` is the number of tokens queue q carries
before token t, whether or not it carries t. The sender at token t has tail `Place(q, t)`,
the receiver is at a place too, and the places from head to tail are less than a ring apart, so each
slot between them holds the token whose place it is. The place of a token,
added to the rows of earlier ranks and channels, is its row: the sums of three kernels
meet in `RowOfPlace`, and `RowsDiffer` says that no two tokens share a row.

`IntranodeCombine_proofs` proves, from `CombineAssumption` only, `ReducesRight`,
`HeadsStayBehind` and `TypeCorrect` from `Invariance`, for any number of combines over one
handle. Places again: what `cached_notify_combine` writes for a token a rank has not is the
place of its next one (`NextHeadIsLater`). A token not yet reduced has an owner that has not
retired and reports no head past it (`UnreducedHolds`); so the minimum the
updater publishes is not past it either, the sender is at most a ring beyond the head, and a
slot that is to be read is not written again (`SlotRead`). `HeadsAdvance`
needs `NumTokens <= Beyond` besides: a warp may report the place behind a rank's last
token and later the 1 << 25 that the source calls "a heuristic large number"
(`intranode.cu:582`), which is then to be the larger one.

`DeepEPSession_proofs` proves, from `SessionAssumption`, `DataQueuesClean`, `MetadataKeptApart` and
`SessionTypes` from `Invariance`. The stream of a rank is a chain of the kernels its calls have
launched; with each kernel goes the number of barriers before it, so that where a
rank is says how often it has entered and left, and `Barrier` says that nobody is
further than one barrier from it. `SizedRight`, that a waiting dispatch takes its own counts, has the
hypothesis `NoOvertaking`: no program has a `num_worst_tokens` dispatch and then a waiting one
with no `torch.cuda.synchronize` between. The run `mixed_dispatch` shows that it is needed.

`AsyncTP_proofs` proves, from `AsyncAssumption` only, `ScatterBarrierIsBarrier` and
`CallsWorkOnOwnData` and `TypeCorrect` from `Invariance`. A signal word is set by one rank and
taken by another in both kinds of calls. `Puts` and `Takes` count what each has done
to it as a function of the call it is in and its place there; the word is the difference,
0 or 1 (`PadOK`). Hence a rank that has taken a word knows that its setter is as far
as the setting (`Heard`), and since every call takes a word of every peer, no peer is more than a
call ahead (`NobodyAhead`). What is written in a protected call then stays until its reader is through.

`InternodeDispatch_proofs` proves, from `InternodeAssumption` only, `RdmaSlots`, `NvlSlots`,
`RowsAreCorrect`, `HandleIsConsistent` and `TypeCorrect` from `Invariance`; the size of the ring
(`RingAssumption`) matters for progress alone and is not used. There are
two kinds of places, `Place` in the flow of a source to a node and
`RankPlace` in the part of it for one rank, and the argument goes along the path of a token:

- Source: the warps take turns, so the lock fixes all tails. A ring has been given a slot
  for every token before the lock (`nextTail`), and those a round of the warps behind it are
  published (`sendTail`): `TailsOK`, kept by `LockMoves`. A copy is under way only in a slot
  between the two, which no put reads (`SlotInHand`, `TailsInOrder`).
- RDMA ring: from the last credit to the next tail is at most a ring, so a slot is taken
  once (`SlotsApart`); `SentSlotsOK` and `ArrivedSlotsOK` say what is in it at
  both ends. The credit is the least head of the forwarders at work, and so a
  forwarder reads its own tokens (`ReadSlot`).
- Forwarder: its head is a `Place`, and the entries it has made of a source are the tokens for its
  rank before that head (`ForwarderOK`, `Passed`). A batch moves both on
  (`BatchIs`, `BatchWritten`), and what it appends to the queue shared by all sources is in order for
  each of them (`QueueOK`, `QueueGrows`).
- What is published trails what is done, along the whole path: head before copied head, credit before
  published head, arrived add before issued one. `QueueSplits` separates what a receiver can see of its
  queue from the rest.
- Receiver: of each source it has a prefix, in the rows from `RowBase` on; `rLeft` is the number of
  tokens missing, those in the queue among them (`MissingFalls`), so it is done when
  nothing is missing, and not before.
- Handle: indexes of different sources do not meet (`IndexesDiffer`), so an entry of
  `send_nvl_head` is one token's (`HeadsTell`), and a retired forwarder has written one for each.

`num_tokens_to_recv` is a sum over the sources, which the model writes with the recursive
`SumFunction`. `SumIs`, that it is the size of the union, is proved by a smallest
counterexample (`LeastOf`) in place of an induction.

What the hypotheses are: the named assumptions on the constants, which TLC evaluates in the runs,
`NumTokens <= Beyond`, `NoOvertaking`, and `NoRankIdle` with `SpareTile`. No theorem assumes
anything of a state.

Every invariant, action property and refinement the passing runs check is the property of a
theorem. Only model-checked: liveness, for fairness and ENABLED are out of the prover's reach.

## Not modelled, and what is left

Most of the 80 thousand lines are numeric kernels: GEMM, attention, quantization,
normalization, their autotuning tables and code generators. What can be wrong in
them is arithmetic on floats, layouts in registers and shared memory, and speed;
they keep no state from call to call and their threads meet only at block
barriers. TLC and TLAPS have nothing to say of them that a numeric test does not say
better. This is why the share of the lines modelled is small, and it is not expected to
grow much.

Of the communication part, not modelled:

- internode: `combine`, `cached_notify`, timeouts, the host path and the ROCSHMEM set-up;
- the layout kernel and the JAX binding, which launch or feed what is modelled;
- symmetric memory: growth and destruction of a workspace;
- async tensor parallelism: separate gemm streams (`gemm_rs_impl.py:261`), the tiled
  reduce-scatter beyond its phases;
- Mega MoE: the fp8 path and the two-stage operations, whose gates and flags are those of the
  bf16 path, the launches of the tuner, replacement of the symmetric buffer, and `grid_sync`
  block by block;
- the kernel dispatcher, token dispatcher, tensor wrappers and the stream pool, which are sequential
  on the host.
