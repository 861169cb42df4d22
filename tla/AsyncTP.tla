------------------------------ MODULE AsyncTP ------------------------------
(***************************************************************************)
(* Async tensor parallelism, primus_turbo/pytorch/kernels/async_tp: a      *)
(* matrix product pipelined with an all-gather of its input, or with a     *)
(* reduce-scatter of its output.  All calls of a group share one symmetric *)
(* workspace, which peers write into, and one signal pad, whose words are  *)
(* handed over by compare-and-swap.  The first words of the pad serve the  *)
(* barrier of symm_mem.py too.                                             *)
(*                                                                         *)
(* Hosts only enqueue; what is modelled is how the streams of each rank    *)
(* run: the current one, which is the gemm stream as in the documented     *)
(* use, a comm stream per destination, and a copy stream.                  *)
(***************************************************************************)
EXTENDS Naturals, Sequences, FiniteSets

CONSTANTS
  NumRanks,    \* ranks of the tensor-parallel group
  NumSplits,   \* chunks a shard is cut into
  Programs     \* the sequences of calls, the same on every rank

\* "gather": fused_all_gather_matmul; "scatter": fused_matmul_reduce_scatter;
\* "other": any other collective of the group on the current stream.
Kinds == {"gather", "scatter", "other"}

ASSUME AsyncAssumption ==
  /\ NumRanks \in Nat \ {0, 1}
  /\ NumSplits \in Nat \ {0}
  /\ \A p \in Programs : p \in Seq(Kinds)

Ranks == 0 .. NumRanks - 1
Steps == 0 .. NumSplits - 1
Peers(r) == Ranks \ {r}
Cells == 0 .. NumRanks * NumSplits - 1   \* blocks of the workspace

VARIABLES
  program,   \* the calls of this behaviour
  call,      \* call[r]: the call the streams of rank r work on
  at,        \* where in it the current stream is
  word,      \* the index of the loop over signal words it is in
  used,      \* gather: chunks the gemm has consumed
  copied,    \* gather: chunks the copy stream has copied out
  sent,      \* gather: half-steps (copy, signal) done towards each peer
  written,   \* scatter: the pairs <<peer, chunk>> written
  round,     \* scatter: which of its two barriers comes next, or runs
  pad,       \* pad[r][s][q]: the word of r's signal pad that q sets in step s
  mem        \* mem[r]: r's workspace; a block is <<call, rank, chunk>>

gatherVars  == <<used, copied, sent>>
scatterVars == <<written, round>>
vars == <<program, call, at, word, gatherVars, scatterVars, pad, mem>>

Calls == 1 .. Len(program)
Running(r, kind) == call[r] \in Calls /\ program[call[r]] = kind

Init ==
  /\ program \in Programs
  /\ call    = [r \in Ranks |-> 1]
  /\ at      = [r \in Ranks |-> "begin"]
  /\ word    = [r \in Ranks |-> 0]
  /\ used    = [r \in Ranks |-> 0]
  /\ copied  = [r \in Ranks |-> 0]
  /\ sent    = [r \in Ranks |-> [d \in Ranks |-> 0]]
  /\ written = [r \in Ranks |-> {}]
  /\ round   = [r \in Ranks |-> 1]
  /\ pad     = [r \in Ranks |-> [s \in Steps |-> [q \in Ranks |-> 0]]]
  /\ mem     = [r \in Ranks |-> [c \in Cells |-> <<0, 0, 0>>]]

\* The current stream has joined the others; what follows is the next call's.
NextCall(r) ==
  /\ call' = [call EXCEPT ![r] = @ + 1]
  /\ at'   = [at EXCEPT ![r] = "begin"]

-----------------------------------------------------------------------------
(* The signal words.                                                       *)

AddSignal(owner, s, setter) ==   \* mutant: an addition that does not wait
  pad' = [pad EXCEPT ![owner][s][setter] = @ + 1]

\* One word goes from 0 to 1, by its setter, or the setter spins.
PutSignal(owner, s, setter) ==
  /\ pad[owner][s][setter] = 0
  /\ pad' = [pad EXCEPT ![owner][s][setter] = 1]

SeeSignal(owner, s, setter) ==   \* mutant: the word stays set
  pad[owner][s][setter] = 1 /\ UNCHANGED pad

\* And back to 0, by its owner.
TakeSignal(owner, s, setter) ==
  /\ pad[owner][s][setter] = 1
  /\ pad' = [pad EXCEPT ![owner][s][setter] = 0]

-----------------------------------------------------------------------------
(* The pipelined all-gather.                                               *)

\* Where rank r puts its part of chunk s in the workspace of d ...
GatherCell(r, d, s) == s * (NumRanks - 1) + (IF r < d THEN r ELSE r - 1)

\* ... and where r looks for the part of rank q.
PartOf(r, q, s) == s * (NumRanks - 1) + Cardinality({p \in Peers(r) : p < q})

\* comm_event is recorded after each send of a step: the last one counts.
LastPeer(r) == IF r = NumRanks - 1 THEN NumRanks - 2 ELSE NumRanks - 1

\* The loop over the words leaves out the rank's own.
FirstWord(r) == IF r = 0 THEN 1 ELSE 0
WordAfter(r, w) == IF w + 1 = r THEN w + 2 ELSE w + 1

\* All streams wait for the current one; the product of the own shard first.
BeginGather(r) ==
  /\ at[r] = "begin" /\ Running(r, "gather")
  /\ at'     = [at EXCEPT ![r] = "wait"]
  /\ word'   = [word EXCEPT ![r] = FirstWord(r)]
  /\ used'   = [used EXCEPT ![r] = 0]
  /\ copied' = [copied EXCEPT ![r] = 0]
  /\ sent'   = [sent EXCEPT ![r] = [d \in Ranks |-> 0]]
  /\ UNCHANGED <<program, call, scatterVars, pad, mem>>

Sending(r, d) ==
  /\ Running(r, "gather") /\ at[r] # "begin"
  /\ d # r
  /\ sent[r][d] < 2 * NumSplits

\* The comm stream for d copies the next part into d's workspace at once ...
CopyPart(r, d) ==
  LET s == sent[r][d] \div 2 IN
  /\ Sending(r, d) /\ sent[r][d] % 2 = 0
  /\ mem'  = [mem EXCEPT ![d][GatherCell(r, d, s)] = <<call[r], r, s>>]
  /\ sent' = [sent EXCEPT ![r][d] = @ + 1]
  /\ UNCHANGED <<program, call, at, word, used, copied, scatterVars, pad>>

\* ... and then sets the word that says so.
SignalPart(r, d) ==
  /\ Sending(r, d) /\ sent[r][d] % 2 = 1
  /\ PutSignal(d, sent[r][d] \div 2, r)
  /\ sent' = [sent EXCEPT ![r][d] = @ + 1]
  /\ UNCHANGED <<program, call, at, word, used, copied, scatterVars, mem>>

\* Waits for the rank's own sends, then for the words of the step in turn.
WaitSignal(r) ==
  /\ at[r] = "wait"
  /\ sent[r][LastPeer(r)] >= 2 * (used[r] + 1)
  /\ TakeSignal(r, used[r], word[r])
  /\ IF WordAfter(r, word[r]) < NumRanks
     THEN word' = [word EXCEPT ![r] = WordAfter(r, @)] /\ UNCHANGED at
     ELSE word' = [word EXCEPT ![r] = FirstWord(r)] /\ at' = [at EXCEPT ![r] = "gemm"]
  /\ UNCHANGED <<program, call, gatherVars, scatterVars, mem>>

\* The product of the chunk is done with its part of the workspace.
Gemm(r) ==
  /\ at[r] = "gemm"
  /\ used' = [used EXCEPT ![r] = @ + 1]
  /\ at'   = [at EXCEPT ![r] = IF used[r] + 1 < NumSplits THEN "wait" ELSE "join"]
  /\ UNCHANGED <<program, call, word, copied, sent, scatterVars, pad, mem>>

\* Chunks whose words the rank has taken.
Arrived(r) == IF at[r] = "gemm" THEN used[r] + 1 ELSE used[r]

\* The copy stream copies a chunk to the gathered output, beside the gemm.
CopyOut(r) ==
  /\ Running(r, "gather") /\ at[r] # "begin"
  /\ copied[r] < Arrived(r)
  /\ copied' = [copied EXCEPT ![r] = @ + 1]
  /\ UNCHANGED <<program, call, at, word, used, sent, scatterVars, pad, mem>>

EndGather(r) ==
  /\ at[r] = "join"
  /\ copied[r] = NumSplits
  /\ \A d \in Peers(r) : sent[r][d] = 2 * NumSplits
  /\ NextCall(r)
  /\ UNCHANGED <<program, word, gatherVars, scatterVars, pad, mem>>

-----------------------------------------------------------------------------
(* The reduce-scatter, and the barrier of the symmetric memory around it.  *)

\* Rows of rank r, chunk s: the same place in every workspace.
ScatterCell(r, s) == r * NumSplits + s

LastWordMissed == NumRanks - 2   \* mutant: a loop one short
LastWord == NumRanks - 1

BeginScatterAtOnce(r) ==   \* mutant: no barrier before the peers are written to
  /\ at[r] = "begin" /\ Running(r, "scatter")
  /\ at'      = [at EXCEPT ![r] = "scatter"]
  /\ written' = [written EXCEPT ![r] = {}]
  /\ round'   = [round EXCEPT ![r] = 1]
  /\ UNCHANGED <<program, call, word, gatherVars, pad, mem>>

BeginScatter(r) ==
  /\ at[r] = "begin" /\ Running(r, "scatter")
  /\ at'      = [at EXCEPT ![r] = "put"]
  /\ word'    = [word EXCEPT ![r] = 0]
  /\ written' = [written EXCEPT ![r] = {}]
  /\ round'   = [round EXCEPT ![r] = 1]
  /\ UNCHANGED <<program, call, gatherVars, pad, mem>>

\* The barrier kernel sets its word in every pad, the own one included ...
BarrierPut(r) ==
  /\ at[r] = "put"
  /\ PutSignal(word[r], 0, r)
  /\ IF word[r] < LastWord
     THEN word' = [word EXCEPT ![r] = @ + 1] /\ UNCHANGED at
     ELSE word' = [word EXCEPT ![r] = 0] /\ at' = [at EXCEPT ![r] = "take"]
  /\ UNCHANGED <<program, call, gatherVars, scatterVars, mem>>

\* ... and then takes the words of all ranks from its own.
BarrierTake(r) ==
  /\ at[r] = "take"
  /\ TakeSignal(r, 0, word[r])
  /\ IF word[r] < LastWord
     THEN word' = [word EXCEPT ![r] = @ + 1] /\ UNCHANGED at
     ELSE /\ word' = [word EXCEPT ![r] = 0]
          /\ at'   = [at EXCEPT ![r] = IF round[r] = 1 THEN "scatter" ELSE "reduce"]
  /\ UNCHANGED <<program, call, gatherVars, scatterVars, mem>>

\* A chunk of the product goes to the rank it belongs to, over any stream.
Scatter(r, d, s) ==
  /\ at[r] = "scatter"
  /\ <<d, s>> \notin written[r]
  /\ written' = [written EXCEPT ![r] = @ \cup {<<d, s>>}]
  /\ mem'     = [mem EXCEPT ![d][ScatterCell(r, s)] = <<call[r], r, s>>]
  /\ UNCHANGED <<program, call, at, word, gatherVars, round, pad>>

\* The current stream joins the comm streams and enters the second barrier.
EndScatter(r) ==
  /\ at[r] = "scatter"
  /\ written[r] = Ranks \X Steps
  /\ at'    = [at EXCEPT ![r] = "put"]
  /\ round' = [round EXCEPT ![r] = 2]
  /\ UNCHANGED <<program, call, word, gatherVars, written, pad, mem>>

\* The sum over the ranks, and the copy of the workspace if one is asked for.
Reduce(r) ==
  /\ at[r] = "reduce"
  /\ NextCall(r)
  /\ UNCHANGED <<program, word, gatherVars, scatterVars, pad, mem>>

-----------------------------------------------------------------------------
(* Another collective: nobody is through it before everybody has come.     *)

BeginOther(r) ==
  /\ at[r] = "begin" /\ Running(r, "other")
  /\ at' = [at EXCEPT ![r] = "meet"]
  /\ UNCHANGED <<program, call, word, gatherVars, scatterVars, pad, mem>>

EndOther(r) ==
  /\ at[r] = "meet"
  /\ \A q \in Ranks : call[q] > call[r] \/ (call[q] = call[r] /\ at[q] = "meet")
  /\ NextCall(r)
  /\ UNCHANGED <<program, word, gatherVars, scatterVars, pad, mem>>

-----------------------------------------------------------------------------
CurrentStep(r) ==
  \/ BeginGather(r) \/ WaitSignal(r) \/ Gemm(r) \/ EndGather(r)
  \/ BeginScatter(r) \/ BarrierPut(r) \/ BarrierTake(r) \/ EndScatter(r) \/ Reduce(r)
  \/ BeginOther(r) \/ EndOther(r)

SendStep(r, d) == CopyPart(r, d) \/ SignalPart(r, d)

ScatterStep(r) == \E d \in Ranks, s \in Steps : Scatter(r, d, s)

Next ==
  \E r \in Ranks :
    \/ CurrentStep(r)
    \/ CopyOut(r)
    \/ ScatterStep(r)
    \/ \E d \in Ranks : SendStep(r, d)

Spec == Init /\ [][Next]_vars

\* Every stream goes on with what it has been given.
FairSpec ==
  /\ Spec
  /\ \A r \in Ranks :
       /\ WF_vars(CurrentStep(r))
       /\ WF_vars(CopyOut(r))
       /\ WF_vars(ScatterStep(r))
       /\ \A d \in Ranks : WF_vars(SendStep(r, d))

-----------------------------------------------------------------------------
Places == {"begin", "wait", "gemm", "join", "put", "take", "scatter", "reduce", "meet"}

TypeOK ==
  /\ program \in Programs
  /\ call \in [Ranks -> 1 .. Len(program) + 1]
  /\ at \in [Ranks -> Places]
  /\ word \in [Ranks -> Ranks]
  /\ used \in [Ranks -> 0 .. NumSplits]
  /\ copied \in [Ranks -> 0 .. NumSplits]
  /\ sent \in [Ranks -> [Ranks -> 0 .. 2 * NumSplits]]
  /\ written \in [Ranks -> SUBSET (Ranks \X Steps)]
  /\ round \in [Ranks -> {1, 2}]
  /\ pad \in [Ranks -> [Steps -> [Ranks -> {0, 1}]]]
  /\ mem \in [Ranks -> [Cells -> (0 .. Len(program)) \X Ranks \X Steps]]

-----------------------------------------------------------------------------
(* What the calls promise.                                                 *)

\* The parts r has been told of and has not yet multiplied and copied.
InUse(r) ==
  IF ~ Running(r, "gather") \/ at[r] = "begin" THEN {}
  ELSE {part \in Peers(r) \X Steps :
          \/ part[2] < Arrived(r) /\ part[2] >= copied[r]
          \/ part[2] < Arrived(r) /\ part[2] >= used[r]
          \/ at[r] = "wait" /\ part[2] = used[r] /\ part[1] < word[r]}

GatheredOwn(r) ==
  \A part \in InUse(r) :
    mem[r][PartOf(r, part[1], part[2])] = <<call[r], part[1], part[2]>>

ReducedOwn(r) ==
  at[r] = "reduce" =>
    \A q \in Ranks, s \in Steps : mem[r][ScatterCell(q, s)] = <<call[r], q, s>>

(***************************************************************************)
(* A call works on its own data: what a rank multiplies, copies or reduces *)
(* is what its peers wrote for this very call, although they write without *)
(* asking and may be a call ahead.                                         *)
(***************************************************************************)
OwnData == \A r \in Ranks : GatheredOwn(r) /\ ReducedOwn(r)

(***************************************************************************)
(* The same, but for a call with a gather right behind it: a gather begins *)
(* without a barrier, and only a gather does.  A scatter or any collective *)
(* in between protects the data of the call before.                        *)
(***************************************************************************)
OwnDataUnlessGatherFollows ==
  \A r \in Ranks :
    (call[r] + 1 \in Calls => program[call[r] + 1] # "gather")
      => GatheredOwn(r) /\ ReducedOwn(r)

\* Barriers entered and left: two in every scatter.
BarriersBefore(r) == 2 * Cardinality({k \in 1 .. call[r] - 1 : program[k] = "scatter"})

Entered(r) == BarriersBefore(r) +
  (IF at[r] \in {"put", "take", "scatter", "reduce"} THEN round[r] ELSE 0)

Left(r) == IF at[r] \in {"put", "take"} THEN Entered(r) - 1 ELSE Entered(r)

Abstract == INSTANCE Barrier WITH
  MaxCalls <- 2 * Len(program),
  entered  <- [r \in Ranks |-> Entered(r)],
  left     <- [r \in Ranks |-> Left(r)]

(***************************************************************************)
(* The compare-and-swap barrier is a barrier, although its words are those *)
(* of the first step of a gather: no signal of a gather is taken for one   *)
(* of a barrier, whatever calls follow one another.                        *)
(***************************************************************************)
BarrierImplemented == Abstract!Spec

(***************************************************************************)
(* Every sequence of calls made alike on all ranks ends on all of them,    *)
(* and leaves the signal pads clear for whoever comes next.                *)
(***************************************************************************)
AllCallsEnd ==
  <>[]( /\ \A r \in Ranks : call[r] > Len(program)
        /\ \A r, q \in Ranks, s \in Steps : pad[r][s][q] = 0 )
=============================================================================
