------------------------- MODULE InternodeDispatch -------------------------
(***************************************************************************)
(* The dispatch kernel of csrc/kernels/deep_ep/internode.cu.  A token goes *)
(* in two hops: from rank (s, v) - RDMA rank s, NVL rank v - over RDMA to  *)
(* rank (d, v) of every node d that hosts one of its experts, and from     *)
(* there over NVL to the ranks (d, j).  Channels, and the flows of         *)
(* different v, share no queue, so one channel and one v (SrcNvl) are      *)
(* followed; what the others send shows in the prefix sums only.           *)
(*                                                                         *)
(* On a source run the sender warps, which take turns by a sequential lock,*)
(* and a coordinator that issues puts; on a destination one forwarder per  *)
(* NVL peer, all reading the same RDMA ring, and a coordinator that gives  *)
(* ring space back to the source; on each NVL peer a receiver.  A payload  *)
(* is the token's identity: the slot carries its source metadata, scales   *)
(* and top-k data with it.  The kernel starts from what notify_dispatch    *)
(* leaves: queues and metadata zero, prefixes summed.  Timeouts, which     *)
(* trap, are not modelled.                                                 *)
(***************************************************************************)
EXTENDS Integers, FiniteSets, Sequences, Functions

CONSTANTS
  NumRdma,      \* kNumRDMARanks
  NvlPeers,     \* NUM_MAX_NVL_PEERS
  SrcNvl,       \* the NVL rank whose flow is followed
  NumChannels, Channel,
  SenderWarps,  \* kNumDispatchRDMASenderWarps
  RdmaSend, RdmaRecv,  \* num_max_rdma_chunked_{send,recv}_tokens
  NvlSend, NvlRecv,    \* num_max_nvl_chunked_{send,recv}_tokens
  Others,       \* tokens each rank of another NVL rank sends to each rank
  Routings      \* values of is_token_in_rank: per source, per token, the ranks <<d, j>>

Rdma  == 0 .. NumRdma - 1
Nvl   == 0 .. NvlPeers - 1
Warps == 0 .. SenderWarps - 1

\* Config's constructor checks the first four relations.  Its comment says the
\* fourth keeps space for senders; what does is RingAssumption (see below).
ASSUME InternodeAssumption ==
  /\ {NumRdma, NvlPeers, NumChannels, SenderWarps, RdmaSend, NvlSend} \subseteq Nat \ {0}
  /\ SrcNvl \in Nvl /\ Channel \in 0 .. NumChannels - 1 /\ Others \in Nat
  /\ RdmaRecv \in Nat /\ RdmaRecv % RdmaSend = 0 /\ RdmaSend <= RdmaRecv \div 2
  /\ NvlRecv \in Nat /\ NvlSend < NvlRecv
  /\ \A r \in Routings : \A s \in Rdma : r[s] \in Seq(SUBSET (Rdma \X Nvl))

(***************************************************************************)
(* A warp waits for space in the ring of one node while it holds the lock. *)
(* By then each of the SenderWarps warps may hold back the tail of one     *)
(* token (it publishes a token when it takes the next), RdmaSend - 1 more  *)
(* may be published but short of a chunk, and the forwarder coordinator    *)
(* may keep RdmaSend - 1 slots it has not given back.  A ring larger than  *)
(* all three together cannot fill up for good; one of SenderWarps +        *)
(* RdmaSend - 1 slots or less does.  Config accepts both.                  *)
(***************************************************************************)
ASSUME RingAssumption == RdmaRecv > SenderWarps + 2 * (RdmaSend - 1)

VARIABLES
  route,        \* is_token_in_rank of the followed sources
  notified,     \* the warps of s have sent their metadata and met
  meta,         \* rdma_channel_meta[s, d], as it arrived at d
  lock,         \* rdma_send_next_token_idx
  nextTail,     \* rdma_send_channel_next_tail[s, d]
  sendTail,     \* rdma_send_channel_tail[s, d]
  wTok, wPc,    \* token_idx of a warp, and "lock", "copy" or "done"
  wLast,        \* last_rdma_tail_idx of a warp, per lane d
  sendHead,     \* send_rdma_head[s][d], by token
  sendBuf, recvBuf,    \* the two ends of the RDMA ring [s, d]
  issued,       \* last_issued_tail[s, d]
  put,          \* the put the coordinator of s has in hand
  rdmaTail, rdmaHead,  \* the counters at d and at s, as far as adds have arrived
  fPc,          \* a forwarder: "meta", "run", "publish" or "retired"
  fHead, fTail, \* cached_rdma_channel_head and _tail, per source
  fwdHead,      \* forward_channel_head, per source
  fIdx,         \* rdma_nvl_token_idx, per source
  sendNvlHead,  \* <<index, value>> stores to send_nvl_head
  fNvlTail,     \* cached_nvl_channel_tail
  credited,     \* last_head of the forwarder coordinator
  nvlStart, nvlEnd,    \* nvl_channel_prefix_start and _end, per source
  nvlBuf, nvlTail, nvlHead,
  rPc,          \* a receiver: "prefix", "run", "publish" or "done"
  rHead,        \* cached_channel_head_idx
  rOff, rLeft,  \* total_offset per source, num_tokens_to_recv
  chanOff,      \* recv_gbl_channel_prefix_matrix
  recvX         \* <<row, token>> stores to recv_x

warpVars  == <<notified, lock, nextTail, sendTail, wTok, wPc, wLast, sendHead, sendBuf>>
coordVars == <<issued, put, rdmaTail>>
fwdVars   == <<fPc, fHead, fTail, fwdHead, fIdx, fNvlTail, sendNvlHead, nvlStart, nvlEnd,
               nvlBuf, nvlTail>>
recvVars  == <<nvlHead, rPc, rHead, rOff, rLeft, chanOff, recvX>>
vars == <<route, meta, recvBuf, rdmaHead, credited, warpVars, coordVars, fwdVars, recvVars>>

None  == -1
Unset == -2   \* torch::empty

-----------------------------------------------------------------------------
(* What notify_dispatch computes from the routing.                         *)

Smaller(a, b) == IF a < b THEN a ELSE b

\* get_channel_task_range
PerChannel(s)    == (Len(route[s]) + NumChannels - 1) \div NumChannels
TokenStart(s, c) == Smaller(PerChannel(s) * c, Len(route[s]))
TokenEnd(s, c)   == Smaller(TokenStart(s, c) + PerChannel(s), Len(route[s]))
First(s) == TokenStart(s, Channel)
Past(s)  == TokenEnd(s, Channel)

Ranks(s, t) == IF t = None THEN {} ELSE route[s][t + 1]
Nodes(s, t) == {p[1] : p \in Ranks(s, t)}
ToRank(s, d, j, from, to) == {t \in from .. to - 1 : <<d, j>> \in Ranks(s, t)}
ToNode(s, d, from, to)    == {t \in from .. to - 1 : d \in Nodes(s, t)}

\* gbl_ and rdma_channel_prefix_matrix, at the channel before this one and at it.
GblPrefix(s, d, j, to) == Cardinality(ToRank(s, d, j, 0, to))
RdmaPrefix(s, d, to)   == Cardinality(ToNode(s, d, 0, to))

\* recv_rdma_rank_prefix_sum[s - 1] of rank (d, SrcNvl), and
\* recv_gbl_rank_prefix_sum[(s, SrcNvl) - 1] of rank (d, j).
RdmaRankOffset(s, d) ==
  Cardinality(UNION {{<<i, t>> : t \in ToNode(i, d, 0, Len(route[i]))} : i \in 0 .. s - 1})
GblRankOffset(s, d, j) ==
  (s * (NvlPeers - 1) + SrcNvl) * Others +
  Cardinality(UNION {{<<i, t>> : t \in ToRank(i, d, j, 0, Len(route[i]))} : i \in 0 .. s - 1})

\* Words whose zero means "not yet" hold -value - 1.
Encode(v) == -v - 1
Decode(w) == -w - 1

Init ==
  /\ route \in Routings
  /\ notified = [s \in Rdma |-> FALSE]
  /\ meta = [p \in Rdma \X Rdma |-> [start |-> [j \in Nvl |-> 0], end |-> [j \in Nvl |-> 0],
                                     from |-> 0, to |-> 0]]
  /\ lock = [s \in Rdma |-> First(s)]
  /\ wTok = [p \in Rdma \X Warps |-> First(p[1]) + p[2]]
  /\ wPc = [p \in Rdma \X Warps |-> "lock"]
  /\ wLast = [p \in Rdma \X Warps |-> [d \in Rdma |-> None]]
  /\ sendHead = [p \in Rdma \X Rdma |-> [t \in First(p[1]) .. Past(p[1]) - 1 |-> Unset]]
  /\ \E zero \in {[p \in Rdma \X Rdma |-> 0]} :
       /\ nextTail = zero /\ sendTail = zero /\ issued = zero
       /\ rdmaTail = zero /\ rdmaHead = zero /\ credited = zero
  /\ \E ring \in {[p \in Rdma \X Rdma |-> [i \in 0 .. RdmaRecv - 1 |-> None]]} :
       sendBuf = ring /\ recvBuf = ring
  /\ put = [s \in Rdma |-> <<>>]
  /\ fPc = [q \in Rdma \X Nvl |-> "meta"] /\ rPc = [q \in Rdma \X Nvl |-> "prefix"]
  /\ \E zeros \in {[q \in Rdma \X Nvl |-> [s \in Rdma |-> 0]]} :
       /\ fHead = zeros /\ fTail = zeros /\ fwdHead = zeros /\ fIdx = zeros
       /\ nvlStart = zeros /\ nvlEnd = zeros /\ rOff = zeros /\ chanOff = zeros
  /\ \E zero \in {[q \in Rdma \X Nvl |-> 0]} :
       nvlTail = zero /\ fNvlTail = zero /\ nvlHead = zero /\ rHead = zero /\ rLeft = zero
  /\ nvlBuf = [q \in Rdma \X Nvl |-> [i \in 0 .. NvlRecv - 1 |-> <<0, None>>]]
  /\ sendNvlHead = [q \in Rdma \X Nvl |-> {}] /\ recvX = [q \in Rdma \X Nvl |-> {}]

-----------------------------------------------------------------------------
(* The source: the sender warps and their coordinator.                     *)

\* The warps send every node the prefixes of the channel, quiet, and meet:
\* no token is handled before all of them have arrived.
SendMeta(s) ==
  /\ ~ notified[s]
  /\ notified' = [notified EXCEPT ![s] = TRUE]
  /\ meta' = [p \in Rdma \X Rdma |->
       LET d == p[2] IN
       IF p[1] # s THEN meta[p] ELSE
       [start |-> [j \in Nvl |-> Encode(GblPrefix(s, d, j, First(s)))],
        end   |-> [j \in Nvl |-> Encode(GblPrefix(s, d, j, Past(s)))],
        from  |-> Encode(RdmaPrefix(s, d, First(s))),
        to    |-> Encode(RdmaPrefix(s, d, Past(s)))]]
  /\ UNCHANGED <<route, lock, nextTail, sendTail, wTok, wPc, wLast, sendHead, sendBuf,
                 recvBuf, rdmaHead, credited, coordVars, fwdVars, recvVars>>

\* rdma_tail_idx - head < num_max_rdma_chunked_recv_tokens
HasSpace(s, d) == nextTail[<<s, d>>] - rdmaHead[<<s, d>>] < RdmaRecv

\* The tails as warp w leaves them: a tail is stored once its slot is filled.
PublishLast(s, w) ==
  [p \in Rdma \X Rdma |->
     IF p[1] = s /\ wLast[<<s, w>>][p[2]] >= 0 THEN wLast[<<s, w>>][p[2]] + 1 ELSE sendTail[p]]

\* With the lock: take a slot in the ring of every node the token goes to,
\* wait until it is free, store it for combine, publish the warp's last token.
TakeSlots(s, w) ==
  LET t == wTok[<<s, w>>] IN
  /\ notified[s]
  /\ wPc[<<s, w>>] = "lock" /\ lock[s] = t /\ t < Past(s)
  /\ \A d \in Nodes(s, t) : HasSpace(s, d)
  /\ LET idx == [d \in Rdma |-> IF d \in Nodes(s, t) THEN nextTail[<<s, d>>] ELSE None] IN
       /\ sendHead' = [p \in Rdma \X Rdma |->
                         IF p[1] = s THEN [sendHead[p] EXCEPT ![t] = idx[p[2]]] ELSE sendHead[p]]
       /\ wLast' = [wLast EXCEPT ![<<s, w>>] = idx]
  /\ nextTail' = [p \in Rdma \X Rdma |->
                    IF p[1] = s /\ p[2] \in Nodes(s, t) THEN nextTail[p] + 1 ELSE nextTail[p]]
  /\ sendTail' = PublishLast(s, w)
  /\ lock' = [lock EXCEPT ![s] = @ + 1]
  /\ wPc' = [wPc EXCEPT ![<<s, w>>] = "copy"]
  /\ UNCHANGED <<route, meta, notified, wTok, sendBuf, recvBuf, rdmaHead, credited,
                 coordVars, fwdVars, recvVars>>

\* Without the lock: copy the token into its slots.  For the warp's own node
\* they are the slots the forwarders read.
Filled(ring, s, w, mine) ==
  [p \in Rdma \X Rdma |->
     IF p[1] = s /\ (p[2] = s) = mine /\ wLast[<<s, w>>][p[2]] >= 0
     THEN [ring[p] EXCEPT ![wLast[<<s, w>>][p[2]] % RdmaRecv] = wTok[<<s, w>>]]
     ELSE ring[p]]

CopyToken(s, w) ==
  /\ wPc[<<s, w>>] = "copy"
  /\ sendBuf' = Filled(sendBuf, s, w, FALSE)
  /\ recvBuf' = Filled(recvBuf, s, w, TRUE)
  /\ wTok' = [wTok EXCEPT ![<<s, w>>] = @ + SenderWarps]
  /\ wPc'  = [wPc EXCEPT ![<<s, w>>] = "lock"]
  /\ UNCHANGED <<route, meta, notified, lock, nextTail, sendTail, wLast, sendHead,
                 rdmaHead, credited, coordVars, fwdVars, recvVars>>

\* The epilogue publishes the last token of the warp, in the same order.
Epilogue(s, w) ==
  /\ notified[s]
  /\ wPc[<<s, w>>] = "lock" /\ lock[s] = wTok[<<s, w>>] /\ wTok[<<s, w>>] >= Past(s)
  /\ sendTail' = PublishLast(s, w)
  /\ lock' = [lock EXCEPT ![s] = @ + 1]
  /\ wPc'  = [wPc EXCEPT ![<<s, w>>] = "done"]
  /\ UNCHANGED <<route, meta, notified, nextTail, wTok, wLast, sendHead, sendBuf, recvBuf,
                 rdmaHead, credited, coordVars, fwdVars, recvVars>>

\* num_tokens_to_send, and whether what was processed is worth a put: a full
\* chunk, or all that is left.
ToSend(s, d) == Cardinality(ToNode(s, d, First(s), Past(s))) - issued[<<s, d>>]
FullChunk(s, d) == sendTail[<<s, d>>] - issued[<<s, d>>] >= RdmaSend   \* mutant
WorthAPut(s, d) ==
  \/ sendTail[<<s, d>>] - issued[<<s, d>>] = ToSend(s, d)
  \/ sendTail[<<s, d>>] - issued[<<s, d>>] >= RdmaSend

\* The coordinator goes round the nodes; a put to its own node is a fence.
IssuePut(s, d) ==
  /\ notified[s]
  /\ put[s] = <<>> /\ ToSend(s, d) > 0 /\ WorthAPut(s, d)
  /\ put' = [put EXCEPT ![s] =
               <<d, Smaller(sendTail[<<s, d>>] - issued[<<s, d>>], RdmaSend), d = s>>]
  /\ UNCHANGED <<route, meta, recvBuf, rdmaHead, credited, warpVars, issued, rdmaTail,
                 fwdVars, recvVars>>

\* The data arrives at some moment before quiet returns.
LandPut(s) ==
  /\ put[s] # <<>> /\ ~ put[s][3]
  /\ LET d == put[s][1]
         slots == {i % RdmaRecv : i \in issued[<<s, d>>] .. issued[<<s, d>>] + put[s][2] - 1} IN
       recvBuf' = [recvBuf EXCEPT ![<<s, d>>] =
                     [x \in DOMAIN @ |-> IF x \in slots THEN sendBuf[<<s, d>>][x] ELSE @[x]]]
  /\ put' = [put EXCEPT ![s] = <<@[1], @[2], TRUE>>]
  /\ UNCHANGED <<route, meta, rdmaHead, credited, warpVars, issued, rdmaTail, fwdVars, recvVars>>

\* quiet, which also completes the adds before it, then the tail is added to
\* at node d.  For its own node there is a fence only.
Landed(s) == put[s] # <<>> /\ put[s][3]
Quiet(s)  == put[s][1] # s => \A d \in Rdma : rdmaTail[<<s, d>>] = issued[<<s, d>>]
AddTail(s) ==
  /\ Landed(s) /\ Quiet(s)
  /\ \E d \in {put[s][1]} : issued' = [issued EXCEPT ![<<s, d>>] = @ + put[s][2]]
  /\ put' = [put EXCEPT ![s] = <<>>]
  /\ UNCHANGED <<route, meta, recvBuf, rdmaHead, rdmaTail, credited, warpVars, fwdVars, recvVars>>

\* The adds arrive at some moment after they were issued.
TailArrives(s, d) ==
  /\ rdmaTail[<<s, d>>] < issued[<<s, d>>]
  /\ rdmaTail' = [rdmaTail EXCEPT ![<<s, d>>] = issued[<<s, d>>]]
  /\ UNCHANGED <<route, meta, recvBuf, rdmaHead, credited, warpVars, issued, put, fwdVars, recvVars>>

-----------------------------------------------------------------------------
(* The destination: the forwarder of rank (d, SrcNvl) for each NVL rank j, *)
(* and their coordinator.                                                  *)

ToRecv(s, d) == Decode(meta[<<s, d>>].to) - Decode(meta[<<s, d>>].from)

\* Every source's metadata has come: its prefixes are passed on to (d, j).
ReadMeta(d, j) ==
  /\ fPc[<<d, j>>] = "meta"
  /\ \A s \in Rdma : /\ meta[<<s, d>>].start[j] < 0 /\ meta[<<s, d>>].end[j] < 0
                     /\ meta[<<s, d>>].from < 0 /\ meta[<<s, d>>].to < 0
  /\ nvlStart' = [nvlStart EXCEPT ![<<d, j>>] = [s \in Rdma |-> meta[<<s, d>>].start[j]]]
  /\ nvlEnd'   = [nvlEnd EXCEPT ![<<d, j>>] = [s \in Rdma |-> meta[<<s, d>>].end[j]]]
  /\ fPc'      = [fPc EXCEPT ![<<d, j>>] = "run"]
  /\ UNCHANGED <<route, meta, recvBuf, rdmaHead, credited, warpVars, coordVars, fHead, fTail,
                 fwdHead, fIdx, fNvlTail, sendNvlHead, nvlBuf, nvlTail, recvVars>>

\* Room in the NVL queue for a whole chunk.
AnyNvlRoom(d, j) == fNvlTail[<<d, j>>] - nvlHead[<<d, j>>] < NvlRecv    \* mutant
NvlRoom(d, j) == NvlRecv - (fNvlTail[<<d, j>>] - nvlHead[<<d, j>>]) >= NvlSend

\* The tail a forwarder goes by: it looks again only when it has used up the last.
SeenTail(d, j, s) ==
  IF fHead[<<d, j>>][s] = fTail[<<d, j>>][s] THEN rdmaTail[<<s, d>>] ELSE fTail[<<d, j>>][s]

\* The tokens of source s up to the tail that are for j, and where a batch
\* stops: at the tail, or after NvlSend tokens for j.
ForMe(d, j, s) ==
  {i \in fHead[<<d, j>>][s] .. SeenTail(d, j, s) - 1 :
     <<d, j>> \in Ranks(s, recvBuf[<<s, d>>][i % RdmaRecv])}
Earlier(set, i) == Cardinality({k \in set : k < i})
BatchEnd(d, j, s) ==
  LET lastOne == {i \in ForMe(d, j, s) : Earlier(ForMe(d, j, s), i) = NvlSend - 1}
  IN  IF lastOne = {} THEN SeenTail(d, j, s) ELSE 1 + CHOOSE i \in lastOne : TRUE

\* Mutant: the index counts only the tokens for j.
NvlHeadsOfMine(d, j, s, batch, mine) ==
  {<<RdmaRankOffset(s, d) + Decode(meta[<<s, d>>].from) + Earlier(mine, i) + fIdx[<<d, j>>][s],
     IF i \in mine THEN fIdx[<<d, j>>][s] + Earlier(mine, i) ELSE None>> : i \in batch}

\* send_nvl_head of a batch, at the index of the token among all that came to
\* this rank over RDMA.
NvlHeads(d, j, s, batch, mine) ==
  {<<RdmaRankOffset(s, d) + Decode(meta[<<s, d>>].from) + i,
     IF i \in mine THEN fIdx[<<d, j>>][s] + Earlier(mine, i) ELSE None>> : i \in batch}

\* One batch of one source: every token read once, those for j copied on.
CopyBatch(d, j, s) ==
  LET head  == fHead[<<d, j>>][s]
      end   == BatchEnd(d, j, s)
      mine  == {i \in ForMe(d, j, s) : i < end}
      At(i) == (fNvlTail[<<d, j>>] + Earlier(mine, i)) % NvlRecv
  IN
  /\ fPc[<<d, j>>] = "run" /\ head < ToRecv(s, d)
  /\ NvlRoom(d, j)
  /\ SeenTail(d, j, s) > head
  /\ sendNvlHead' = [sendNvlHead EXCEPT
                       ![<<d, j>>] = @ \cup NvlHeads(d, j, s, head .. end - 1, mine)]
  /\ nvlBuf' = [nvlBuf EXCEPT ![<<d, j>>] =
       [x \in DOMAIN @ |-> IF \E i \in mine : At(i) = x
                           THEN <<s, recvBuf[<<s, d>>][(CHOOSE i \in mine : At(i) = x) % RdmaRecv]>>
                           ELSE @[x]]]
  /\ fIdx'    = [fIdx EXCEPT ![<<d, j>>][s] = @ + Cardinality(mine)]
  /\ fTail'   = [fTail EXCEPT ![<<d, j>>][s] = SeenTail(d, j, s)]
  /\ fHead'   = [fHead EXCEPT ![<<d, j>>][s] = end]
  /\ fNvlTail' = [fNvlTail EXCEPT ![<<d, j>>] = @ + Cardinality(mine)]
  /\ fPc'     = [fPc EXCEPT ![<<d, j>>] = "publish"]
  /\ UNCHANGED <<route, meta, recvBuf, rdmaHead, credited, warpVars, coordVars, fwdHead,
                 nvlStart, nvlEnd, nvlTail, recvVars>>

\* "Sync head index", for the coordinator, and "Move tail index", for the
\* receiver: neither reads the other's word.
Publish(d, j) ==
  /\ fPc[<<d, j>>] = "publish"
  /\ fwdHead' = [fwdHead EXCEPT ![<<d, j>>] = fHead[<<d, j>>]]
  /\ nvlTail' = [nvlTail EXCEPT ![<<d, j>>] = fNvlTail[<<d, j>>]]
  /\ fPc'     = [fPc EXCEPT ![<<d, j>>] = "run"]
  /\ UNCHANGED <<route, meta, recvBuf, rdmaHead, credited, warpVars, coordVars, fHead, fTail,
                 fIdx, fNvlTail, sendNvlHead, nvlStart, nvlEnd, nvlBuf, recvVars>>

\* forward_channel_retired
Retire(d, j) ==
  /\ fPc[<<d, j>>] = "run" /\ \A s \in Rdma : fHead[<<d, j>>][s] >= ToRecv(s, d)
  /\ fPc' = [fPc EXCEPT ![<<d, j>>] = "retired"]
  /\ UNCHANGED <<route, meta, recvBuf, rdmaHead, credited, warpVars, coordVars, fHead, fTail,
                 fwdHead, fIdx, fNvlTail, sendNvlHead, nvlStart, nvlEnd, nvlBuf, nvlTail, recvVars>>

\* The coordinator gives space back up to the slowest forwarder still at work,
\* a chunk or more at a time.
Working(d) == {j \in Nvl : fPc[<<d, j>>] # "retired"}
FastestHead(d, s) ==    \* mutant
  {fwdHead[<<d, j>>][s] : j \in
     {k \in Working(d) : \A i \in Working(d) : fwdHead[<<d, i>>][s] <= fwdHead[<<d, k>>][s]}}
MinHead(d, s) ==
  {fwdHead[<<d, j>>][s] : j \in
     {k \in Working(d) : \A i \in Working(d) : fwdHead[<<d, k>>][s] <= fwdHead[<<d, i>>][s]}}

Credit(d, s) ==
  \E head \in MinHead(d, s) :
    /\ head >= credited[<<s, d>>] + RdmaSend
    /\ credited' = [credited EXCEPT ![<<s, d>>] = head]
    /\ UNCHANGED <<route, meta, recvBuf, rdmaHead, warpVars, coordVars, fwdVars, recvVars>>

\* Mutant: the whole head is added, not what it has grown by.
WholeHeadArrives(d, s) ==
  /\ rdmaHead[<<s, d>>] < credited[<<s, d>>]
  /\ rdmaHead' = [rdmaHead EXCEPT ![<<s, d>>] = @ + credited[<<s, d>>]]
  /\ UNCHANGED <<route, meta, recvBuf, credited, warpVars, coordVars, fwdVars, recvVars>>

\* The adds of the heads arrive at the source.
HeadArrives(d, s) ==
  /\ rdmaHead[<<s, d>>] < credited[<<s, d>>]
  /\ rdmaHead' = [rdmaHead EXCEPT ![<<s, d>>] = credited[<<s, d>>]]
  /\ UNCHANGED <<route, meta, recvBuf, credited, warpVars, coordVars, fwdVars, recvVars>>

-----------------------------------------------------------------------------
(* The receiver of rank (d, j).                                            *)

ChannelOnly(d, j, s) == Decode(nvlStart[<<d, j>>][s])   \* mutant: the rank prefix is left out
FirstRow(d, j, s) == GblRankOffset(s, d, j) + Decode(nvlStart[<<d, j>>][s])

ReadPrefix(d, j) ==
  /\ rPc[<<d, j>>] = "prefix"
  /\ \A s \in Rdma : nvlStart[<<d, j>>][s] < 0 /\ nvlEnd[<<d, j>>][s] < 0
  /\ rOff'    = [rOff EXCEPT ![<<d, j>>] = [s \in Rdma |-> FirstRow(d, j, s)]]
  /\ chanOff' = [chanOff EXCEPT ![<<d, j>>] = rOff'[<<d, j>>]]
  /\ rLeft'   = [rLeft EXCEPT ![<<d, j>>] =
                   SumFunction([s \in Rdma |->
                     Decode(nvlEnd[<<d, j>>][s]) - Decode(nvlStart[<<d, j>>][s])])]
  /\ rPc'     = [rPc EXCEPT ![<<d, j>>] = IF rLeft'[<<d, j>>] > 0 THEN "run" ELSE "done"]
  /\ UNCHANGED <<route, meta, recvBuf, rdmaHead, credited, warpVars, coordVars, fwdVars,
                 nvlHead, rHead, recvX>>

\* Everything up to the tail is copied out, each token to the next row of its
\* source, which its metadata names.
CopyRows(d, j) ==
  LET batch   == rHead[<<d, j>>] .. nvlTail[<<d, j>>] - 1
      At(i)   == nvlBuf[<<d, j>>][i % NvlRecv]
      From(s) == {i \in batch : At(i)[1] = s}
  IN
  /\ rPc[<<d, j>>] = "run" /\ batch # {}
  /\ recvX'   = [recvX EXCEPT ![<<d, j>>] = @ \cup
                   {<<rOff[<<d, j>>][At(i)[1]] + Earlier(From(At(i)[1]), i), At(i)>> : i \in batch}]
  /\ rOff'    = [rOff EXCEPT ![<<d, j>>] = [s \in Rdma |-> @[s] + Cardinality(From(s))]]
  /\ rLeft'   = [rLeft EXCEPT ![<<d, j>>] = @ - Cardinality(batch)]
  /\ rHead'   = [rHead EXCEPT ![<<d, j>>] = nvlTail[<<d, j>>]]
  /\ rPc'     = [rPc EXCEPT ![<<d, j>>] = "publish"]
  /\ UNCHANGED <<route, meta, recvBuf, rdmaHead, credited, warpVars, coordVars, fwdVars,
                 nvlHead, chanOff>>

\* "Move queue"
MoveQueue(d, j) ==
  /\ rPc[<<d, j>>] = "publish"
  /\ nvlHead' = [nvlHead EXCEPT ![<<d, j>>] = rHead[<<d, j>>]]
  /\ rPc'     = [rPc EXCEPT ![<<d, j>>] = IF rLeft[<<d, j>>] > 0 THEN "run" ELSE "done"]
  /\ UNCHANGED <<route, meta, recvBuf, rdmaHead, credited, warpVars, coordVars, fwdVars,
                 rHead, rOff, rLeft, chanOff, recvX>>

-----------------------------------------------------------------------------
Warp(s, w)       == TakeSlots(s, w) \/ CopyToken(s, w) \/ Epilogue(s, w)
Coordinator(s)   ==
  LandPut(s) \/ AddTail(s) \/ \E d \in Rdma : IssuePut(s, d) \/ TailArrives(s, d)
Forwarder(d, j)  ==
  ReadMeta(d, j) \/ Publish(d, j) \/ Retire(d, j) \/ \E s \in Rdma : CopyBatch(d, j, s)
Receiver(d, j)   == ReadPrefix(d, j) \/ CopyRows(d, j) \/ MoveQueue(d, j)

\* The nodes something is sent to.  On another nothing happens but that the
\* metadata is read.
Ends == {d \in Rdma : \E s \in Rdma : \E t \in First(s) .. Past(s) - 1 : d \in Nodes(s, t)}

Next ==
  \/ \E s \in Rdma : \/ SendMeta(s)
                     \/ \E w \in Warps : Warp(s, w)
                     \/ Coordinator(s)
  \/ \E d \in Ends : \/ \E j \in Nvl : Forwarder(d, j) \/ Receiver(d, j)
                     \/ \E s \in Rdma : Credit(d, s) \/ HeadArrives(d, s)

Spec == Init /\ [][Next]_vars

\* The blocks of a channel are resident together, so as long as some warp can
\* go on one does.  More is not needed: a step always advances some counter.
Fairness == WF_vars(Next)

FairSpec == Spec /\ Fairness

-----------------------------------------------------------------------------
\* The flow from s to node d, and the part of it for rank (d, j), in token order.
Nth(tokens, n) == CHOOSE t \in tokens : Earlier(tokens, t) = n
Flow(s, d)       == ToNode(s, d, First(s), Past(s))
FlowTo(s, d, j)  == ToRank(s, d, j, First(s), Past(s))
Got(d, j, s) == {x \in recvX[<<d, j>>] : x[2][1] = s}

\* A counter never passes the tokens of its flow, nor what gave rise to it: a
\* credit a tail, an issued token a published one, a head a tail.
TypeOK ==
  /\ route \in Routings
  /\ \A s \in Rdma :
       /\ notified[s] \in BOOLEAN
       /\ lock[s] \in First(s) .. Past(s) + SenderWarps
       /\ \A w \in Warps : /\ wTok[<<s, w>>] \in First(s) .. Past(s) + SenderWarps
                           /\ wPc[<<s, w>>] \in {"lock", "copy", "done"}
       /\ \A d \in Rdma :
            /\ nextTail[<<s, d>>] \in 0 .. Cardinality(Flow(s, d))
            /\ sendTail[<<s, d>>] \in 0 .. nextTail[<<s, d>>]
            /\ issued[<<s, d>>] \in 0 .. sendTail[<<s, d>>]
            /\ rdmaTail[<<s, d>>] \in 0 .. issued[<<s, d>>]
            /\ credited[<<s, d>>] \in 0 .. rdmaTail[<<s, d>>]
            /\ rdmaHead[<<s, d>>] \in 0 .. credited[<<s, d>>]
            /\ \A j \in Nvl :
                 /\ fwdHead[<<d, j>>][s] \in 0 .. fHead[<<d, j>>][s]
                 /\ fHead[<<d, j>>][s] \in 0 .. fTail[<<d, j>>][s]
                 /\ fTail[<<d, j>>][s] \in 0 .. rdmaTail[<<s, d>>]
  /\ \A d \in Rdma, j \in Nvl :
       /\ fPc[<<d, j>>] \in {"meta", "run", "publish", "retired"}
       /\ rPc[<<d, j>>] \in {"prefix", "run", "publish", "done"}
       /\ nvlHead[<<d, j>>] \in 0 .. rHead[<<d, j>>]
       /\ rHead[<<d, j>>] \in 0 .. nvlTail[<<d, j>>]
       /\ nvlTail[<<d, j>>] \in 0 .. fNvlTail[<<d, j>>]
       /\ rLeft[<<d, j>>] \in Nat

(***************************************************************************)
(* The row of every token is fixed by the routing alone: the rows of       *)
(* earlier ranks, then the tokens of its own rank in token order, whatever *)
(* order the two hops bring the sources in and whichever channel is done   *)
(* first (internode.cu 1045-1115).                                         *)
(***************************************************************************)
RowsCorrect ==
  \A d \in Rdma, j \in Nvl : \A x \in recvX[<<d, j>>] :
    LET s == x[2][1]  t == x[2][2]
    IN  /\ t \in FlowTo(s, d, j)
        /\ x[1] = GblRankOffset(s, d, j) + GblPrefix(s, d, j, t)

(***************************************************************************)
(* The RDMA rings are read by several forwarders at their own pace, while  *)
(* the sender warps fill them out of order and the coordinator sends what  *)
(* they published: from the slowest forwarder's head to the tail each slot *)
(* at the destination holds its token, and so does each slot of the send   *)
(* side that is published and not yet sent.                                *)
(***************************************************************************)
RdmaSlotsKept ==
  \A s, d \in Rdma :
    /\ \A j \in Working(d) : \A i \in fHead[<<d, j>>][s] .. rdmaTail[<<s, d>>] - 1 :
         recvBuf[<<s, d>>][i % RdmaRecv] = Nth(Flow(s, d), i)
    /\ \A i \in issued[<<s, d>>] .. sendTail[<<s, d>>] - 1 :
         (IF s = d THEN recvBuf ELSE sendBuf)[<<s, d>>][i % RdmaRecv] = Nth(Flow(s, d), i)

(***************************************************************************)
(* One NVL queue carries the tokens of all sources: the tokens of a source *)
(* in it are those after the ones received, in order, up to the ones the   *)
(* forwarder counts; a forwarder that has reserved a chunk never fills     *)
(* more, so none is lost to the next.                                      *)
(***************************************************************************)
NvlSlotsKept ==
  \A d \in Rdma, j \in Nvl : \A s \in Rdma :
    LET inQueue == {i \in rHead[<<d, j>>] .. fNvlTail[<<d, j>>] - 1 :
                      nvlBuf[<<d, j>>][i % NvlRecv][1] = s}
    IN  /\ fIdx[<<d, j>>][s] = Cardinality(Got(d, j, s)) + Cardinality(inQueue)
        /\ \A i \in inQueue :
             nvlBuf[<<d, j>>][i % NvlRecv][2] =
               Nth(FlowTo(s, d, j), Cardinality(Got(d, j, s)) + Earlier(inQueue, i))

(***************************************************************************)
(* What combine is given brings every token back: for a token at position  *)
(* send_rdma_head of its node's flow, send_nvl_head says -1 for the ranks  *)
(* it did not go to, and for the others its place after the channel's      *)
(* first row, which is the row it landed in.                               *)
(***************************************************************************)
HandleConsistent ==
  \A s, d \in Rdma : \A j \in Nvl :
    lock[s] >= Past(s) /\ fPc[<<d, j>>] = "retired" /\ rPc[<<d, j>>] = "done" =>
    \A t \in First(s) .. Past(s) - 1 :
      LET h     == sendHead[<<s, d>>][t]
          index == RdmaRankOffset(s, d) + RdmaPrefix(s, d, First(s)) + h
          nvl   == {x[2] : x \in {y \in sendNvlHead[<<d, j>>] : y[1] = index}}
      IN  IF d \notin Nodes(s, t) THEN h = None
          ELSE IF <<d, j>> \notin Ranks(s, t) THEN nvl = {None}
          ELSE \E n \in nvl : /\ n # None /\ nvl = {n}
                             /\ <<chanOff[<<d, j>>][s] + n, <<s, t>> >> \in recvX[<<d, j>>]

(***************************************************************************)
(* Every token reaches every rank it is for and every warp ends: no wait   *)
(* for space, for a full chunk or for a credit lasts, given RingAssumption.*)
(***************************************************************************)
AllDelivered ==
  <>( /\ \A s \in Rdma, w \in Warps : wPc[<<s, w>>] = "done"
      /\ \A s, d \in Rdma : ToSend(s, d) = 0
      /\ \A d \in Ends, j \in Nvl :
           /\ fPc[<<d, j>>] = "retired" /\ rPc[<<d, j>>] = "done"
           /\ \A s \in Rdma : Cardinality(Got(d, j, s)) = Cardinality(FlowTo(s, d, j)) )
=============================================================================
