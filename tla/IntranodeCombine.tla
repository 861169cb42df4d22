-------------------------- MODULE IntranodeCombine --------------------------
(***************************************************************************)
(* cached_notify_combine and combine of csrc/kernels/deep_ep/intranode.cu: *)
(* the expert outputs go back to the rank the tokens came from and are     *)
(* summed there.  The module follows one channel of one receiving rank:    *)
(* its block, with one warp that moves queue heads and Warps warps that    *)
(* reduce every Warps-th token each, and the senders of that channel, one  *)
(* per rank, each with a ring of BufTokens slots.  Blocks of different     *)
(* channels and receiving ranks share no memory.                           *)
(*                                                                         *)
(* send_head says where a rank put a token.  For a token a rank has not,   *)
(* cached_notify_combine rewrites the -1 to -h - 1, h being the place of   *)
(* the next token of the channel that rank does have, so that a reducing   *)
(* warp that skips the rank can still report how far it is.                *)
(*                                                                         *)
(* Combine may be called again with the same handle: send_head then holds  *)
(* what the last call rewrote and the slots hold its data.                 *)
(***************************************************************************)
EXTENDS Integers, FiniteSets

CONSTANTS
  Ranks,        \* the ranks, each of which sends
  Receiver,     \* the rank whose block reduces
  Warps,        \* num_recv_warps - 1, the reducing warps
  NumTokens,    \* tokens of the channel (numbered from its token_start_idx)
  ChunkTokens,  \* num_max_send_tokens
  BufTokens,    \* num_recv_buffer_tokens
  Routings,     \* which ranks may hold which token
  MaxCalls,     \* bound: calls of combine on one handle
  MaxTraps      \* bound: ranks whose kernel may die in a timeout

Tokens == 0 .. NumTokens - 1

\* Config's constructor checks no more than that a chunk is below the buffer.
ASSUME CombineAssumption ==
  /\ Warps \in Nat \ {0} /\ NumTokens \in Nat /\ MaxCalls \in Nat \ {0}
  /\ Receiver \in Ranks /\ MaxTraps \in Nat
  /\ ChunkTokens \in Nat \ {0} /\ BufTokens \in Nat /\ ChunkTokens < BufTokens
  /\ Routings \subseteq [Tokens -> SUBSET Ranks]

None   == <<>>     \* the content of a slot never written
NotYet == {None}   \* a token not yet reduced
Beyond == 33554432   \* 1 << 25, the head of a rank with no later token

VARIABLES
  route,      \* ranks that hold each token of the channel
  call,       \* which call of combine this is
  sendHead,   \* sendHead[t][r], rewritten in place
  encoded,    \* ranks whose column of send_head is rewritten in this call
  head, tail, \* head_idx and tail_idx of the queue of each rank
  slot,       \* the rings
  sPc,        \* sender: "wait", "fill" or "done"
  sTail,      \* current_channel_tail_idx of the sender
  sPend,      \* queue indices of the round still to copy
  sharedTail, \* channel_tail_idx, the block's copy of the tails
  warpHead,   \* warp_channel_head_idx
  retired,    \* the warps whose warp_retired is set
  moving,     \* the ranks whose lane of the head updater still runs
  wTok,       \* token_idx of each reducing warp
  wPc,        \* "wait" for the tails or "reduce"
  wPend,      \* ranks whose slot the warp has yet to read
  wAcc,       \* what it has read for its token
  recvX,      \* the reduced tokens, as the set of contributions
  trapped     \* ranks whose kernel trapped

handleVars == <<route, call, sendHead, encoded>>
senderVars == <<tail, slot, sPc, sTail, sPend>>
moverVars  == <<head, sharedTail, moving>>
warpVars   == <<warpHead, retired, wTok, wPc, wPend, wAcc, recvX>>
vars == <<handleVars, senderVars, moverVars, warpVars, trapped>>

\* Dispatch numbers the tokens it sends to a rank in token order.
PlaceOf(r, t)   == Cardinality({u \in 0 .. t - 1 : r \in route[u]})
CountOf(r)      == Cardinality({u \in Tokens : r \in route[u]})
TokenAt(r, i)   == CHOOSE t \in Tokens : r \in route[t] /\ PlaceOf(r, t) = i

\* Before the first call: the handle dispatch returned, and queues at rest.
Init ==
  /\ route \in Routings
  /\ call = 0
  /\ sendHead = [t \in Tokens |-> [r \in Ranks |->
                   IF r \in route[t] THEN PlaceOf(r, t) ELSE -1]]
  /\ encoded = Ranks
  /\ head = [r \in Ranks |-> 0] /\ tail = [r \in Ranks |-> 0]
  /\ slot = [r \in Ranks |-> [i \in 0 .. BufTokens - 1 |-> None]]
  /\ sPc = [r \in Ranks |-> "done"]
  /\ sTail = [r \in Ranks |-> 0] /\ sPend = [r \in Ranks |-> {}]
  /\ sharedTail = [r \in Ranks |-> 0]
  /\ warpHead = [w \in 1 .. Warps |-> [r \in Ranks |-> 0]]
  /\ retired = 1 .. Warps /\ moving = {}
  /\ wTok = [w \in 1 .. Warps |-> NumTokens]
  /\ wPc = [w \in 1 .. Warps |-> "wait"]
  /\ wPend = [w \in 1 .. Warps |-> {}] /\ wAcc = [w \in 1 .. Warps |-> {}]
  /\ recvX = [t \in Tokens |-> NotYet]
  /\ trapped = {}

Alive(r) == r \notin trapped

KernelDone ==
  /\ trapped = {}
  /\ \A r \in Ranks : sPc[r] = "done"
  /\ retired = 1 .. Warps /\ moving = {}

\* A combine on the handle: its first barrier waits for the kernels of all
\* ranks, its memset clears heads and tails and nothing else, its second
\* barrier lets the senders start; the receiving block resets its shared state.
StartCombine ==
  /\ KernelDone
  /\ call < MaxCalls
  /\ call' = call + 1
  /\ encoded' = {}
  /\ head' = [r \in Ranks |-> 0] /\ tail' = [r \in Ranks |-> 0]
  /\ sPc' = [r \in Ranks |-> IF CountOf(r) > 0 THEN "wait" ELSE "done"]
  /\ sTail' = [r \in Ranks |-> 0] /\ sPend' = [r \in Ranks |-> {}]
  /\ sharedTail' = [r \in Ranks |-> 0]
  /\ warpHead' = [w \in 1 .. Warps |-> [r \in Ranks |-> 0]]
  /\ retired' = {} /\ moving' = Ranks
  /\ wTok' = [w \in 1 .. Warps |-> w - 1]
  /\ recvX' = [t \in Tokens |-> NotYet]
  /\ UNCHANGED <<route, sendHead, slot, wPc, wPend, wAcc, trapped>>

-----------------------------------------------------------------------------
(* cached_notify_combine: the warp of rank r scans its column backwards.   *)

FarthestHead(t, r) ==   \* mutant: last_head is set once
  LET later == {u \in t + 1 .. NumTokens - 1 : sendHead[u][r] >= 0}
  IN  IF later = {} THEN Beyond
      ELSE sendHead[CHOOSE u \in later : \A v \in later : u >= v][r]

NextHead(t, r) ==
  LET later == {u \in t + 1 .. NumTokens - 1 : sendHead[u][r] >= 0}
  IN  IF later = {} THEN Beyond
      ELSE sendHead[CHOOSE u \in later : \A v \in later : u <= v][r]

EncodeColumn(r) ==
  /\ Alive(Receiver)
  /\ r \notin encoded
  /\ encoded' = encoded \cup {r}
  /\ sendHead' = [t \in Tokens |->
       IF sendHead[t][r] < 0
       THEN [sendHead[t] EXCEPT ![r] = -NextHead(t, r) - 1]
       ELSE sendHead[t]]
  /\ UNCHANGED <<trapped, route, call, senderVars, moverVars, warpVars>>

\* The combine kernel of the receiving rank follows it in the stream.  (The
\* senders wait only for the barrier that follows the memset of the queues.)
NotOrdered == call > 0   \* mutant: the combine kernel does not wait for it
KernelStarted == encoded = Ranks

-----------------------------------------------------------------------------
(* The sender on rank r.                                                   *)

RoundTokens(r) ==
  IF CountOf(r) - sTail[r] < ChunkTokens THEN CountOf(r) - sTail[r] ELSE ChunkTokens

TakeRound(r) ==
  /\ Alive(r)
  /\ sPc[r] = "wait"
  /\ BufTokens - (sTail[r] - head[r]) >= RoundTokens(r)
  /\ sPend' = [sPend EXCEPT ![r] = sTail[r] .. sTail[r] + RoundTokens(r) - 1]
  /\ sTail' = [sTail EXCEPT ![r] = @ + RoundTokens(r)]
  /\ sPc'   = [sPc EXCEPT ![r] = "fill"]
  /\ UNCHANGED <<trapped, handleVars, moverVars, warpVars, tail, slot>>

\* One of the rank's warps copies one of the tokens of the round.
FillSlot(r) ==
  /\ Alive(r)
  /\ \E i \in sPend[r] :
       /\ slot'  = [slot EXCEPT ![r][i % BufTokens] = <<call, r, TokenAt(r, i)>>]
       /\ sPend' = [sPend EXCEPT ![r] = @ \ {i}]
  /\ UNCHANGED <<trapped, handleVars, moverVars, warpVars, tail, sPc, sTail>>

\* The sync_barrier of the warps of the rank.
NotSynced(r) == TRUE   \* mutant: the barrier is missing
AllFilled(r) == sPend[r] = {}

PublishTail(r) ==
  /\ Alive(r)
  /\ sPc[r] = "fill" /\ AllFilled(r)
  /\ tail' = [tail EXCEPT ![r] = sTail[r]]
  /\ sPc'  = [sPc EXCEPT ![r] = IF sTail[r] < CountOf(r) THEN "wait" ELSE "done"]
  /\ UNCHANGED <<trapped, handleVars, moverVars, warpVars, slot, sTail, sPend>>

-----------------------------------------------------------------------------
(* The head updater, one lane per rank.  A pass reads the flags and heads  *)
(* of the warps one at a time; both only ever grow within a call, so what  *)
(* a slower pass publishes is never ahead of what is published here.       *)

Active == (1 .. Warps) \ retired

ReadTail(r) ==
  /\ Alive(Receiver)
  /\ KernelStarted
  /\ r \in moving /\ Active # {}
  /\ sharedTail[r] # tail[r]
  /\ sharedTail' = [sharedTail EXCEPT ![r] = tail[r]]
  /\ UNCHANGED <<trapped, handleVars, senderVars, warpVars, head, moving>>

\* The least head of the warps that have not retired.
MinHead(r) == CHOOSE h \in {warpHead[w][r] : w \in Active} :
                \A w \in Active : h <= warpHead[w][r]

MoveHead(r) ==
  /\ Alive(Receiver)
  /\ KernelStarted
  /\ r \in moving /\ Active # {}
  /\ MinHead(r) > head[r]
  /\ head' = [head EXCEPT ![r] = MinHead(r)]
  /\ UNCHANGED <<trapped, handleVars, senderVars, warpVars, sharedTail, moving>>

StopMoving(r) ==
  /\ Alive(Receiver)
  /\ KernelStarted
  /\ r \in moving /\ Active = {}
  /\ moving' = moving \ {r}
  /\ UNCHANGED <<trapped, handleVars, senderVars, warpVars, head, sharedTail>>

-----------------------------------------------------------------------------
(* The reducing warps.                                                     *)

Expected(w) == sendHead[wTok[w]]
TailsPassed(w) ==   \* mutant: waits for one tail too many
  \A r \in Ranks : ~ (sharedTail[r] <= Expected(w)[r] + 1 /\ Expected(w)[r] >= 0)
TailsSeen(w) ==
  \A r \in Ranks : ~ (sharedTail[r] <= Expected(w)[r] /\ Expected(w)[r] >= 0)

TailsReached(w) ==
  /\ Alive(Receiver)
  /\ KernelStarted
  /\ wPc[w] = "wait" /\ wTok[w] < NumTokens
  /\ TailsSeen(w)
  /\ wPc'   = [wPc EXCEPT ![w] = "reduce"]
  /\ wPend' = [wPend EXCEPT ![w] = {r \in Ranks : Expected(w)[r] >= 0}]
  /\ wAcc'  = [wAcc EXCEPT ![w] = {}]
  /\ UNCHANGED <<trapped, handleVars, senderVars, moverVars, warpHead, retired, wTok, recvX>>

ReadSlot(w) ==
  /\ Alive(Receiver)
  /\ \E r \in wPend[w] :
       /\ wAcc'  = [wAcc EXCEPT ![w] = @ \cup {slot[r][Expected(w)[r] % BufTokens]}]
       /\ wPend' = [wPend EXCEPT ![w] = @ \ {r}]
  /\ UNCHANGED <<trapped, handleVars, senderVars, moverVars, warpHead, retired, wTok, wPc, recvX>>

\* The head a warp reports for a rank: past the slot it read, or, for a rank
\* it skipped, the place of that rank's next token.
ReportedHeadRaw(e) == IF e < 0 THEN -e ELSE e + 1   \* mutant: wrong decoding
ReportedHead(e)    == IF e < 0 THEN -e - 1 ELSE e + 1

\* Store the sum, report the heads, go to the next token of this warp.
FinishToken(w) ==
  /\ Alive(Receiver)
  /\ wPc[w] = "reduce" /\ wPend[w] = {}
  /\ recvX' = [recvX EXCEPT ![wTok[w]] = wAcc[w]]
  /\ warpHead' = [warpHead EXCEPT ![w] = [r \in Ranks |-> ReportedHead(Expected(w)[r])]]
  /\ wTok' = [wTok EXCEPT ![w] = @ + Warps]
  /\ wPc'  = [wPc EXCEPT ![w] = "wait"]
  /\ wAcc' = [wAcc EXCEPT ![w] = {}]
  /\ UNCHANGED <<trapped, handleVars, senderVars, moverVars, retired, wPend>>

Retire(w) ==
  /\ Alive(Receiver)
  /\ KernelStarted
  /\ wPc[w] = "wait" /\ wTok[w] >= NumTokens
  /\ w \notin retired
  /\ retired' = retired \cup {w}
  /\ UNCHANGED <<trapped, handleVars, senderVars, moverVars, warpHead, wTok, wPc, wPend,
                 wAcc, recvX>>

-----------------------------------------------------------------------------
\* A wait of NUM_TIMEOUT_CYCLES, of a sender for room or of a reducing warp for
\* a tail, traps and takes the whole kernel of its rank with it.
TimeoutTrap(r) ==
  /\ Alive(r) /\ Cardinality(trapped) < MaxTraps
  /\ \/ sPc[r] = "wait" /\ BufTokens - (sTail[r] - head[r]) < RoundTokens(r)
     \/ /\ r = Receiver /\ KernelStarted
        /\ \E w \in 1 .. Warps :
             /\ wPc[w] = "wait" /\ wTok[w] < NumTokens
             /\ ~ TailsSeen(w)
  /\ trapped' = trapped \cup {r}
  /\ UNCHANGED <<handleVars, senderVars, moverVars, warpVars>>

SenderStep(r) == TakeRound(r) \/ FillSlot(r) \/ PublishTail(r)
WarpStep(w)   == TailsReached(w) \/ ReadSlot(w) \/ FinishToken(w) \/ Retire(w)

Next ==
  \/ \E r \in Ranks : \/ EncodeColumn(r) \/ SenderStep(r) \/ TimeoutTrap(r)
                      \/ ReadTail(r) \/ MoveHead(r) \/ StopMoving(r)
  \/ \E w \in 1 .. Warps : WarpStep(w)
  \/ StartCombine

Spec == Init /\ [][Next]_vars

\* All blocks are resident and their warps keep executing.  A pass of the head
\* updater does both of its updates; a further call need never come.
Fairness ==
  /\ \A r \in Ranks : /\ WF_vars(EncodeColumn(r)) /\ WF_vars(SenderStep(r))
                      /\ WF_vars(ReadTail(r)) /\ WF_vars(MoveHead(r))
                      /\ WF_vars(StopMoving(r))
  /\ \A w \in 1 .. Warps : WF_vars(WarpStep(w))

FairSpec == Spec /\ Fairness

-----------------------------------------------------------------------------
TypeOK ==
  /\ route \in Routings /\ call \in 0 .. MaxCalls
  /\ \A t \in Tokens, r \in Ranks :
       sendHead[t][r] \in -NumTokens - 1 .. NumTokens - 1 \cup {-Beyond - 1}
  /\ encoded \subseteq Ranks /\ moving \subseteq Ranks /\ retired \subseteq 1 .. Warps
  /\ tail \in [Ranks -> 0 .. NumTokens] /\ sharedTail \in [Ranks -> 0 .. NumTokens]
  /\ head \in [Ranks -> 0 .. NumTokens \cup {Beyond}]
  /\ warpHead \in [1 .. Warps -> [Ranks -> 0 .. NumTokens \cup {Beyond}]]
  /\ sPc \in [Ranks -> {"wait", "fill", "done"}] /\ sTail \in [Ranks -> 0 .. NumTokens]
  /\ \A r \in Ranks : sPend[r] \subseteq 0 .. NumTokens - 1
  /\ wPc \in [1 .. Warps -> {"wait", "reduce"}]
  /\ wTok \in [1 .. Warps -> 0 .. NumTokens + Warps - 1]
  /\ \A w \in 1 .. Warps : wPend[w] \subseteq Ranks
  /\ trapped \subseteq Ranks

(***************************************************************************)
(* A reduced token is the sum of exactly the contributions this call's     *)
(* senders made for it: none missing, none of another token or of an       *)
(* earlier call, although slots are reused while other warps still reduce. *)
(***************************************************************************)
ReducedRight ==
  \A t \in Tokens : recvX[t] = NotYet \/ recvX[t] = {<<call, r, t>> : r \in route[t]}

(***************************************************************************)
(* The published head never passes a slot that some warp has still to read,*)
(* even though a warp that has retired no longer holds it back and one that*)
(* skips the rank reports a head it has not reached (1 << 25 at the end).  *)
(***************************************************************************)
HeadBehindReaders ==
  \A r \in Ranks : \A t \in Tokens :
    r \in route[t] /\ recvX[t] = NotYet => head[r] <= PlaceOf(r, t)

(***************************************************************************)
(* Within a call no warp reports a smaller head than before and the queue  *)
(* head never moves back: what the updater's warp-by-warp scan relies on.  *)
(***************************************************************************)
HeadsOnlyAdvance ==
  [][call' = call =>
       \A r \in Ranks : /\ head'[r] >= head[r]
                        /\ \A w \in 1 .. Warps : warpHead'[w][r] >= warpHead[w][r]]_vars

(***************************************************************************)
(* Every combine ends on every block: no sender waits for ever for room    *)
(* that only warps waiting for that sender could make (and none traps).    *)
(***************************************************************************)
EveryCombineEnds == []<>(KernelDone \/ trapped # {})
=============================================================================
