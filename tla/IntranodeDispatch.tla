------------------------- MODULE IntranodeDispatch -------------------------
(***************************************************************************)
(* The dispatch kernel of csrc/kernels/deep_ep/intranode.cu: every rank    *)
(* sends each of its tokens to the ranks that host an expert the token is  *)
(* routed to.  A queue is a ring of BufTokens slots in the memory of the   *)
(* receiving rank, one per sending rank and channel; the sending block of  *)
(* the channel fills it, the receiving block drains it into recv_x.        *)
(*                                                                         *)
(* The warps that share a side of a queue copy their tokens in any order   *)
(* and meet at a sync_barrier, so a side of a queue is one process whose   *)
(* copies are a set of pending steps.  Queues share no memory but the rows *)
(* of recv_x, so any set of them may be followed.  The payload is the      *)
(* token's identity (what recv_src_idx and the source rank say); scales,   *)
(* top-k indices and weights travel in the same slot.  The kernel starts   *)
(* from the memory notify_dispatch leaves: offsets, heads and tails zero,  *)
(* prefixes summed.                                                        *)
(***************************************************************************)
EXTENDS Integers, FiniteSets

CONSTANTS
  NumRanks,     \* kNumRanks
  Queues,       \* <<sender, receiver, channel>>: the queues that are followed
  NumChannels,  \* num_sms / 2
  NumTokens,    \* tokens each rank holds
  ChunkTokens,  \* num_max_send_tokens
  BufTokens,    \* num_recv_buffer_tokens
  NumWorst,     \* num_worst_tokens, 0 when the host waits for the counts
  Routings,     \* the values is_token_in_rank may have, over all ranks
  MaxTraps      \* bound: ranks whose kernel may die in a timeout

Ranks    == 0 .. NumRanks - 1
Tokens   == 0 .. NumTokens - 1
Channels == 0 .. NumChannels - 1
Dests    == {q[2] : q \in Queues}

\* Config's constructor checks that a chunk is smaller than the buffer.
ASSUME DispatchAssumption ==
  /\ NumRanks \in Nat \ {0} /\ NumChannels \in Nat \ {0} /\ NumTokens \in Nat
  /\ Queues \subseteq Ranks \X Ranks \X Channels
  /\ ChunkTokens \in Nat \ {0} /\ BufTokens \in Nat /\ ChunkTokens < BufTokens
  /\ NumWorst \in Nat /\ MaxTraps \in Nat
  /\ Routings \subseteq [Ranks -> [Tokens -> SUBSET Ranks]]

Src(q) == q[1]
Dst(q) == q[2]
Chn(q) == q[3]

None == <<>>   \* a slot or a row nothing has been written to

VARIABLES
  route,        \* is_token_in_rank of every rank
  startOff, endOff,  \* channel_start_offset, channel_end_offset: -value - 1
  unseen,       \* which of the two has been stored but is not visible yet
  head, tail,   \* channel_head_idx, channel_tail_idx, as published
  slot,         \* the ring itself
  sPc,          \* sender: "wait" for space, "fill" a chunk, or "done"
  sTok,         \* token_idx, the next token to look at
  sTail,        \* cached_channel_tail_idx of the sender
  sPend,        \* <<slot, token>> copies of the chunk still to make
  rPc,          \* receiver: "start", "end", "wait", "copy" or "done"
  rOff,         \* total_offset
  rLeft,        \* num_tokens_to_recv
  rHead, rTail, \* cached_channel_head_idx, cached_channel_tail_idx
  rPend,        \* queue indices still to copy out
  sendHead,     \* sendHead[r][t][d]: send_head of rank r, or Unset
  recvX,        \* recvX[d][i]: row i of rank d's output
  recvChanOff,  \* recv_channel_offset, per queue
  trapped       \* ranks whose kernel trapped

senderVars   == <<startOff, endOff, unseen, tail, slot, sPc, sTok, sTail, sPend, sendHead>>
receiverVars == <<head, rPc, rOff, rLeft, rHead, rTail, rPend, recvX, recvChanOff>>
vars == <<route, trapped, senderVars, receiverVars>>

Unset == -2          \* torch::empty
Unused == <<-1>>     \* a row of recv_topk_idx set to -1

-----------------------------------------------------------------------------
(* What notify_dispatch and get_dispatch_layout compute from the routing.  *)

CeilDiv(a, b) == (a + b - 1) \div b
Smaller(a, b) == IF a < b THEN a ELSE b
PerChannel    == CeilDiv(NumTokens, NumChannels)

\* get_channel_task_range
TokenStart(c) == Smaller(PerChannel * c, NumTokens)
TokenEnd(c)   == Smaller(TokenStart(c) + PerChannel, NumTokens)

Selected(s, d, from, to) == {t \in from .. to - 1 : d \in route[s][t]}

\* channel_prefix_matrix[d * num_channels + c] of rank s: an inclusive sum.
ChannelPrefix(s, d, c) == Cardinality(Selected(s, d, 0, TokenEnd(c)))

\* rank_prefix_matrix[s][d]: tokens that ranks up to s send to d.
RankPrefix(s, d) ==
  Cardinality({p \in (0 .. s) \X Tokens : d \in route[p[1]][p[2]]})
RankOffset(s, d) == IF s > 0 THEN RankPrefix(s - 1, d) ELSE 0

\* What the receiver's counter says, and the most rows it may allocate.
NumRecv(d) == RankPrefix(NumRanks - 1, d)
MaxRows    == IF NumWorst > NumRanks * NumTokens THEN NumWorst ELSE NumRanks * NumTokens

Init ==
  /\ route \in Routings
  /\ startOff = [q \in Queues |-> 0] /\ endOff = [q \in Queues |-> 0]
  /\ unseen = [q \in Queues |-> {"start", "end"}]
  /\ head = [q \in Queues |-> 0]     /\ tail = [q \in Queues |-> 0]
  /\ slot = [q \in Queues |-> [i \in 0 .. BufTokens - 1 |-> None]]
  /\ sPc = [q \in Queues |-> IF TokenStart(Chn(q)) < TokenEnd(Chn(q)) THEN "wait" ELSE "done"]
  /\ sTok = [q \in Queues |-> TokenStart(Chn(q))]
  /\ sTail = [q \in Queues |-> 0]    /\ sPend = [q \in Queues |-> {}]
  /\ rPc = [q \in Queues |-> "start"]
  /\ rOff = [q \in Queues |-> 0]     /\ rLeft = [q \in Queues |-> 0]
  /\ rHead = [q \in Queues |-> 0]    /\ rTail = [q \in Queues |-> 0]
  /\ rPend = [q \in Queues |-> {}]
  /\ sendHead = [r \in Ranks |-> [t \in Tokens |-> [d \in Dests |-> Unset]]]
  /\ recvX = [d \in Dests |-> [i \in 0 .. MaxRows - 1 |-> None]]
  /\ recvChanOff = [q \in Queues |-> Unset]
  /\ trapped = {}

-----------------------------------------------------------------------------
(* The sender of queue q, on rank Src(q).                                  *)

Alive(r) == r \notin trapped

\* An offset is sent as -value - 1, so that zero means "not sent yet".
EncodedAsNegative(value) == -value   \* mutant: as if 0 needed no shift
Encoded(value) == -value - 1

\* Both offsets are relaxed stores: they may become visible in either order,
\* and the loop goes on meanwhile, but not past the first release of the tail.
SendStartOffset(q) ==
  /\ Alive(Src(q))
  /\ "start" \in unseen[q]
  /\ unseen' = [unseen EXCEPT ![q] = @ \ {"start"}]
  /\ startOff' = [startOff EXCEPT ![q] =
       Encoded(IF Chn(q) > 0 THEN ChannelPrefix(Src(q), Dst(q), Chn(q) - 1) ELSE 0)]
  /\ UNCHANGED <<route, trapped, receiverVars, endOff, tail, slot, sPc, sTok, sTail,
                 sPend, sendHead>>

SendEndOffset(q) ==
  /\ Alive(Src(q))
  /\ "end" \in unseen[q]
  /\ unseen' = [unseen EXCEPT ![q] = @ \ {"end"}]
  /\ endOff' = [endOff EXCEPT ![q] = Encoded(ChannelPrefix(Src(q), Dst(q), Chn(q)))]
  /\ UNCHANGED <<route, trapped, receiverVars, startOff, tail, slot, sPc, sTok, sTail,
                 sPend, sendHead>>

\* Mutant: room for all but one token of a chunk is enough.
HasSpaceOffByOne(q) == BufTokens - (sTail[q] - head[q]) >= ChunkTokens - 1
HasSpace(q) == BufTokens - (sTail[q] - head[q]) >= ChunkTokens

\* A chunk ends after its ChunkTokens-th selected token or with the channel.
IsChunkEnd(q, e) ==
  LET n == Cardinality(Selected(Src(q), Dst(q), sTok[q], e))
  IN  \/ n = ChunkTokens /\ Dst(q) \in route[Src(q)][e - 1]
      \/ n < ChunkTokens /\ e = TokenEnd(Chn(q))

\* The queue index the next chunk gives token t.
IndexInQueue(q, t) == sTail[q] + Cardinality(Selected(Src(q), Dst(q), sTok[q], t))

\* What send_head records of token t: its queue index, or -1.
SendHeadAfterIncrement(q, t) ==   \* mutant: the index is recorded after the ++
  IF Dst(q) \in route[Src(q)][t] THEN IndexInQueue(q, t) + 1 ELSE -1
SendHead(q, t) == IF Dst(q) \in route[Src(q)][t] THEN IndexInQueue(q, t) ELSE -1

\* Leave the wait for space and walk one chunk: send_head gets every token
\* walked over, selected or not; the selected ones get a slot each.
TakeChunk(q) ==
  LET s == Src(q) d == Dst(q) IN
  /\ Alive(s)
  /\ sPc[q] = "wait"
  /\ HasSpace(q)
  /\ \E e \in sTok[q] + 1 .. TokenEnd(Chn(q)) :
       /\ IsChunkEnd(q, e)
       /\ sendHead' = [sendHead EXCEPT ![s] = [t \in Tokens |->
            IF t \in sTok[q] .. e - 1
            THEN [@[t] EXCEPT ![d] = SendHead(q, t)]
            ELSE @[t]]]
       /\ sPend' = [sPend EXCEPT ![q] =
            {<<IndexInQueue(q, t) % BufTokens, t>> : t \in Selected(s, d, sTok[q], e)}]
       /\ sTail' = [sTail EXCEPT ![q] = IndexInQueue(q, e)]
       /\ sTok' = [sTok EXCEPT ![q] = e]
  /\ sPc' = [sPc EXCEPT ![q] = "fill"]
  /\ UNCHANGED <<route, trapped, receiverVars, startOff, endOff, unseen, tail, slot>>

\* One of the warps of the rank copies one of the tokens of the chunk.
FillSlot(q) ==
  /\ Alive(Src(q))
  /\ \E p \in sPend[q] :
       /\ slot'  = [slot EXCEPT ![q][p[1]] = <<Src(q), p[2]>>]
       /\ sPend' = [sPend EXCEPT ![q] = @ \ {p}]
  /\ UNCHANGED <<route, trapped, receiverVars, startOff, endOff, unseen, tail, sPc, sTok,
                 sTail, sendHead>>

\* After the sync_barrier of the rank's warps: st_release of the new tail.
PublishTail(q) ==
  /\ Alive(Src(q))
  /\ sPc[q] = "fill" /\ sPend[q] = {}
  /\ unseen[q] = {}
  /\ tail' = [tail EXCEPT ![q] = sTail[q]]
  /\ sPc'  = [sPc EXCEPT ![q] = IF sTok[q] < TokenEnd(Chn(q)) THEN "wait" ELSE "done"]
  /\ UNCHANGED <<route, trapped, receiverVars, startOff, endOff, unseen, slot, sTok, sTail,
                 sPend, sendHead>>

-----------------------------------------------------------------------------
(* The receiver of queue q, on rank Dst(q).                                *)

ReadStartOffset(q) ==
  /\ Alive(Dst(q))
  /\ rPc[q] = "start"
  /\ startOff[q] # 0
  /\ rOff' = [rOff EXCEPT ![q] = -startOff[q] - 1]
  /\ rPc'  = [rPc EXCEPT ![q] = "end"]
  /\ UNCHANGED <<route, trapped, senderVars, head, rLeft, rHead, rTail, rPend, recvX,
                 recvChanOff>>

ReadEndOffset(q) ==
  /\ Alive(Dst(q))
  /\ rPc[q] = "end"
  /\ endOff[q] # 0
  /\ recvChanOff' = [recvChanOff EXCEPT ![q] = rOff[q]]
  /\ rLeft' = [rLeft EXCEPT ![q] = (-endOff[q] - 1) - rOff[q]]
  /\ rOff'  = [rOff EXCEPT ![q] = @ + RankOffset(Src(q), Dst(q))]
  /\ rPc'   = [rPc EXCEPT ![q] = IF rLeft'[q] > 0 THEN "wait" ELSE "done"]
  /\ UNCHANGED <<route, trapped, senderVars, head, rHead, rTail, rPend, recvX>>

\* ld_acquire of the tail, shared with the warps of the rank at sync_barrier.
ReadTail(q) ==
  /\ Alive(Dst(q))
  /\ rPc[q] = "wait"
  /\ tail[q] # rHead[q]
  /\ rTail' = [rTail EXCEPT ![q] = tail[q]]
  /\ rPend' = [rPend EXCEPT ![q] = rHead[q] .. tail[q] - 1]
  /\ rPc'   = [rPc EXCEPT ![q] = "copy"]
  /\ UNCHANGED <<route, trapped, senderVars, head, rOff, rLeft, rHead, recvX, recvChanOff>>

CopyRow(q) ==
  /\ Alive(Dst(q))
  /\ \E i \in rPend[q] :
       /\ recvX' = [recvX EXCEPT ![Dst(q)][rOff[q] + (i - rHead[q])] = slot[q][i % BufTokens]]
       /\ rPend' = [rPend EXCEPT ![q] = @ \ {i}]
  /\ UNCHANGED <<route, trapped, senderVars, head, rPc, rOff, rLeft, rHead, rTail,
                 recvChanOff>>

\* The second sync_barrier of the rank's warps.
NotSynced(q) == TRUE   \* mutant: the barrier is missing
AllCopiedOut(q) == rPend[q] = {}

\* Mutant: the head is published before it is moved.
PublishOldHead(q) ==
  LET n == rTail[q] - rHead[q] IN
  /\ Alive(Dst(q))
  /\ rPc[q] = "copy" /\ AllCopiedOut(q)
  /\ head'  = [head EXCEPT ![q] = rHead[q]]
  /\ rHead' = [rHead EXCEPT ![q] = @ + n]
  /\ rOff'  = [rOff EXCEPT ![q] = @ + n]
  /\ rLeft' = [rLeft EXCEPT ![q] = @ - n]
  /\ rPc'   = [rPc EXCEPT ![q] = IF rLeft'[q] > 0 THEN "wait" ELSE "done"]
  /\ UNCHANGED <<route, trapped, senderVars, rTail, rPend, recvX, recvChanOff>>

\* After that barrier: move the queue and publish the head.
PublishHead(q) ==
  LET n == rTail[q] - rHead[q] IN
  /\ Alive(Dst(q))
  /\ rPc[q] = "copy" /\ AllCopiedOut(q)
  /\ rHead' = [rHead EXCEPT ![q] = @ + n]
  /\ head'  = [head EXCEPT ![q] = rHead'[q]]
  /\ rOff'  = [rOff EXCEPT ![q] = @ + n]
  /\ rLeft' = [rLeft EXCEPT ![q] = @ - n]
  /\ rPc'   = [rPc EXCEPT ![q] = IF rLeft'[q] > 0 THEN "wait" ELSE "done"]
  /\ UNCHANGED <<route, trapped, senderVars, rTail, rPend, recvX, recvChanOff>>

\* With num_worst_tokens, a thread of rank d that is done with its queue sets
\* a row that no token fills to -1 (it knows the rows from the rank prefix).
CleanRow(d) ==
  /\ Alive(d)
  /\ \E q \in Queues : \/ Src(q) = d /\ sPc[q] = "done"
                       \/ Dst(q) = d /\ rPc[q] = "done"
  /\ \E i \in NumRecv(d) .. NumWorst - 1 :
       /\ recvX[d][i] # Unused
       /\ recvX' = [recvX EXCEPT ![d][i] = Unused]
  /\ UNCHANGED <<route, trapped, senderVars, head, rPc, rOff, rLeft, rHead, rTail, rPend,
                 recvChanOff>>

\* A wait that lasts NUM_TIMEOUT_CYCLES traps and takes the whole kernel of
\* the rank with it.  (The waits for the offsets have no timeout.)
TimeoutTrap(q) ==
  /\ Cardinality(trapped) < MaxTraps
  /\ \E r \in {Src(q), Dst(q)} :
       /\ Alive(r)
       /\ \/ r = Src(q) /\ sPc[q] = "wait" /\ ~ HasSpace(q)
          \/ r = Dst(q) /\ rPc[q] = "wait" /\ tail[q] = rHead[q]
       /\ trapped' = trapped \cup {r}
  /\ UNCHANGED <<route, senderVars, receiverVars>>

SenderStep(q)   == \/ SendStartOffset(q) \/ SendEndOffset(q)
                   \/ TakeChunk(q) \/ FillSlot(q) \/ PublishTail(q)
ReceiverStep(q) == \/ ReadStartOffset(q) \/ ReadEndOffset(q)
                   \/ ReadTail(q) \/ CopyRow(q) \/ PublishHead(q)

Next == \/ \E q \in Queues : SenderStep(q) \/ ReceiverStep(q) \/ TimeoutTrap(q)
        \/ \E d \in Dests : CleanRow(d)

Spec == Init /\ [][Next]_vars

\* Every block of the kernel is resident, so every warp keeps executing;
\* a timeout may fire but need not.
Fairness ==
  /\ \A q \in Queues : WF_vars(SenderStep(q)) /\ WF_vars(ReceiverStep(q))
  /\ \A d \in Dests : WF_vars(CleanRow(d))

FairSpec == Spec /\ Fairness

-----------------------------------------------------------------------------
\* Once sent, an offset is never the 0 the receiver takes for "not sent yet",
\* not even that of the first channel or of one without tokens.
OffsetOK(off, sent) == IF sent THEN off \in -NumTokens - 1 .. -1 ELSE off = 0

TypeOK ==
  /\ route \in Routings
  /\ \A q \in Queues : /\ OffsetOK(startOff[q], "start" \notin unseen[q])
                       /\ OffsetOK(endOff[q], "end" \notin unseen[q])
                       /\ unseen[q] \subseteq {"start", "end"}
  /\ head \in [Queues -> 0 .. NumTokens] /\ tail \in [Queues -> 0 .. NumTokens]
  /\ slot \in [Queues -> [0 .. BufTokens - 1 -> (Ranks \X Tokens) \cup {None}]]
  /\ sPc \in [Queues -> {"wait", "fill", "done"}]
  /\ sTok \in [Queues -> 0 .. NumTokens] /\ sTail \in [Queues -> 0 .. NumTokens]
  /\ \A q \in Queues : sPend[q] \subseteq (0 .. BufTokens - 1) \X Tokens
  /\ rPc \in [Queues -> {"start", "end", "wait", "copy", "done"}]
  /\ rOff \in [Queues -> 0 .. NumRanks * NumTokens] /\ rLeft \in [Queues -> 0 .. NumTokens]
  /\ rHead \in [Queues -> 0 .. NumTokens] /\ rTail \in [Queues -> 0 .. NumTokens]
  /\ \A q \in Queues : rPend[q] \subseteq 0 .. NumTokens - 1
  /\ recvChanOff \in [Queues -> 0 .. NumTokens \cup {Unset}]
  /\ trapped \subseteq Ranks

\* The tokens routed to d in the order of rank and token index: row i of the
\* output belongs to the one with i of them before it.
Before(a, b) == a[1] < b[1] \/ (a[1] = b[1] /\ a[2] < b[2])
Arrivals(d) == {p \in Ranks \X Tokens : d \in route[p[1]][p[2]]}
RowOf(d, p) == Cardinality({o \in Arrivals(d) : Before(o, p)})

(***************************************************************************)
(* Whatever the interleaving of the queues, a row a receiver has written   *)
(* holds the token that belongs there: rows are grouped by source rank and *)
(* in token order within it, no slot was overwritten before it was copied, *)
(* no slot was copied before it was filled, no row was written twice with  *)
(* different tokens, and only rows past the last token are marked unused.  *)
(***************************************************************************)
RowsCorrect ==
  \A d \in Dests : \A i \in DOMAIN recvX[d] :
    \/ recvX[d][i] = None
    \/ recvX[d][i] = Unused /\ i >= NumRecv(d) /\ i < NumWorst
    \/ recvX[d][i] \in Arrivals(d) /\ RowOf(d, recvX[d][i]) = i

(***************************************************************************)
(* A sender never has a copy outstanding into a slot that lies between the *)
(* published head and tail, though it reads the head once per chunk and    *)
(* checks it against the largest chunk, not against what it will send.     *)
(***************************************************************************)
NoLiveSlotRewritten ==
  \A q \in Queues : \A p \in sPend[q] :
    ~ \E i \in head[q] .. tail[q] - 1 : i % BufTokens = p[1]

(***************************************************************************)
(* The handle combine is given is consistent: once a queue is drained, the *)
(* sender's send_head for a token plus the receiver's channel offset and   *)
(* rank offset is the row that token landed in, and is -1 otherwise.       *)
(***************************************************************************)
HandleConsistent ==
  \A q \in Queues : sPc[q] = "done" /\ rPc[q] = "done" =>
    \A t \in TokenStart(Chn(q)) .. TokenEnd(Chn(q)) - 1 :
      LET h == sendHead[Src(q)][t][Dst(q)]
      IN  IF Dst(q) \in route[Src(q)][t]
          THEN recvX[Dst(q)][RankOffset(Src(q), Dst(q)) + recvChanOff[q] + h] = <<Src(q), t>>
          ELSE h = -1

(***************************************************************************)
(* Unless a rank trapped, every token arrives, every unused row is marked, *)
(* and the kernel ends on every rank.                                      *)
(***************************************************************************)
AllDelivered ==
  <>( \/ trapped # {}
      \/ /\ \A q \in Queues :
              /\ sPc[q] = "done" /\ rPc[q] = "done"
              /\ \A t \in Selected(Src(q), Dst(q), TokenStart(Chn(q)), TokenEnd(Chn(q))) :
                   recvX[Dst(q)][RowOf(Dst(q), <<Src(q), t>>)] = <<Src(q), t>>
         /\ \A d \in Dests : \A i \in NumRecv(d) .. NumWorst - 1 : recvX[d][i] = Unused )
=============================================================================
