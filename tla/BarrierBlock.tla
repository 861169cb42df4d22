---------------------------- MODULE BarrierBlock ----------------------------
(***************************************************************************)
(* barrier_block of csrc/kernels/deep_ep/utils.cuh: the barrier every      *)
(* DeepEP kernel starts and ends its metadata phase with.  Each rank owns  *)
(* a row of signals in its own buffer, one per peer, that is never reset.  *)
(* Thread t of rank r adds Tag to the rank's own signal for t, takes Tag   *)
(* off t's signal for r, and the wavefront spins until it has read no      *)
(* positive signal in one pass over its row.                               *)
(*                                                                         *)
(* The atomics are performed one lane at a time, in program order within a *)
(* lane and in any order between lanes; the loads of a pass are likewise   *)
(* not simultaneous.  A pass that saw a positive value is repeated, or, on *)
(* a timeout, traps: the kernel of that rank is gone for good.             *)
(***************************************************************************)
EXTENDS Integers

CONSTANTS
  Ranks,     \* the ranks of the node (kNumRanks of them)
  Tag,       \* FINISHED_SUM_TAG
  MaxCalls   \* bound: barrier calls per rank

ASSUME BlockAssumption == Tag \in Nat \ {0} /\ MaxCalls \in Nat

VARIABLES
  calls,     \* calls[r]:     calls of barrier_block rank r has entered
  returns,   \* returns[r]:   calls that returned
  signal,    \* signal[r][t]: barrier_signal_ptrs[r][t]
  lane,      \* lane[r][t]:   where thread t of rank r is
  trapped    \* ranks whose kernel has trapped

vars == <<calls, returns, signal, lane, trapped>>

\* A lane is outside; at the atomicAdd; at the atomicSub; at the load of a
\* pass; or has loaded in this pass a value that is not ("held") or is <= 0.
LaneStates == {"out", "add", "sub", "load", "held", "clear"}

TypeOK ==
  /\ calls   \in [Ranks -> 0 .. MaxCalls]
  /\ returns \in [Ranks -> 0 .. MaxCalls]
  /\ signal  \in [Ranks -> [Ranks -> {-Tag, 0, Tag}]]
  /\ lane    \in [Ranks -> [Ranks -> LaneStates]]
  /\ trapped \in SUBSET Ranks

Init ==
  /\ calls   = [r \in Ranks |-> 0]
  /\ returns = [r \in Ranks |-> 0]
  /\ signal  = [r \in Ranks |-> [t \in Ranks |-> 0]]
  /\ lane    = [r \in Ranks |-> [t \in Ranks |-> "out"]]
  /\ trapped = {}

Call(r) ==
  /\ r \notin trapped
  /\ calls[r] = returns[r]
  /\ calls[r] < MaxCalls
  /\ calls' = [calls EXCEPT ![r] = @ + 1]
  /\ lane'  = [lane EXCEPT ![r] = [t \in Ranks |-> "add"]]
  /\ UNCHANGED <<returns, signal, trapped>>

\* atomicAdd_system(barrier_signal_ptrs[rank] + thread_id, FINISHED_SUM_TAG)
AddOwn(r, t) ==
  /\ r \notin trapped
  /\ lane[r][t] = "add"
  /\ signal' = [signal EXCEPT ![r][t] = @ + Tag]
  /\ lane'   = [lane EXCEPT ![r][t] = "sub"]
  /\ UNCHANGED <<calls, returns, trapped>>

\* Mutant: the subtraction is done in the rank's own row.
SubPeerInOwnRow(r, t) ==
  /\ r \notin trapped
  /\ lane[r][t] = "sub"
  /\ signal' = [signal EXCEPT ![r][t] = @ - Tag]
  /\ lane'   = [lane EXCEPT ![r][t] = "load"]
  /\ UNCHANGED <<calls, returns, trapped>>

\* atomicSub_system(barrier_signal_ptrs[thread_id] + rank, FINISHED_SUM_TAG)
SubPeer(r, t) ==
  /\ r \notin trapped
  /\ lane[r][t] = "sub"
  /\ signal' = [signal EXCEPT ![t][r] = @ - Tag]
  /\ lane'   = [lane EXCEPT ![r][t] = "load"]
  /\ UNCHANGED <<calls, returns, trapped>>

ReleasedBelowZero(value) == value < 0   \* mutant
Released(value) == value <= 0

\* ld_volatile_global(barrier_signal_ptrs[rank] + thread_id)
Load(r, t) ==
  /\ r \notin trapped
  /\ lane[r][t] = "load"
  /\ lane' = [lane EXCEPT ![r][t] = IF Released(signal[r][t]) THEN "clear" ELSE "held"]
  /\ UNCHANGED <<calls, returns, signal, trapped>>

PassDone(r) == \A t \in Ranks : lane[r][t] \in {"held", "clear"}
AnyClear(r) == PassDone(r) /\ \E t \in Ranks : lane[r][t] = "clear"   \* mutant: __any_sync
AllClear(r) == \A t \in Ranks : lane[r][t] = "clear"

\* __all_sync holds: leave the loop, __syncthreads, return.
Return(r) ==
  /\ r \notin trapped
  /\ AllClear(r)
  /\ returns' = [returns EXCEPT ![r] = @ + 1]
  /\ lane'    = [lane EXCEPT ![r] = [t \in Ranks |-> "out"]]
  /\ UNCHANGED <<calls, signal, trapped>>

\* __all_sync fails: every lane loads again, whatever it saw in this pass.
Retry(r) ==
  /\ r \notin trapped
  /\ PassDone(r) /\ ~ AllClear(r)
  /\ lane' = [lane EXCEPT ![r] = [t \in Ranks |-> "load"]]
  /\ UNCHANGED <<calls, returns, signal, trapped>>

\* NUM_TIMEOUT_CYCLES have passed since the wait began.
TimeoutTrap(r) ==
  /\ r \notin trapped
  /\ PassDone(r) /\ ~ AllClear(r)
  /\ trapped' = trapped \cup {r}
  /\ UNCHANGED <<calls, returns, signal, lane>>

RankStep(r) ==
  \/ Return(r)
  \/ Retry(r)
  \/ \E t \in Ranks : AddOwn(r, t) \/ SubPeer(r, t) \/ Load(r, t)

Next == \E r \in Ranks : Call(r) \/ RankStep(r) \/ TimeoutTrap(r)

Spec == Init /\ [][Next]_vars

\* The lanes of a resident wavefront keep executing.  Nothing obliges a rank
\* to call the barrier again, and nothing obliges a timeout to fire.
LaneStep(r, t) == AddOwn(r, t) \/ SubPeer(r, t) \/ Load(r, t)
Fairness ==
  \A r \in Ranks :
    /\ WF_vars(Return(r))
    /\ WF_vars(Retry(r))
    /\ \A t \in Ranks : WF_vars(LaneStep(r, t))

FairSpec == Spec /\ Fairness

-----------------------------------------------------------------------------
(***************************************************************************)
(* The abstract barrier, with a call as entering and a return as leaving:  *)
(* although signals are never reset and ranks may be a whole call apart,   *)
(* barrier_block never lets a rank out of its k-th call before every rank  *)
(* is in (or past) its k-th, with lanes and loads in any order.            *)
(***************************************************************************)
Abstract == INSTANCE Barrier WITH entered <- calls, left <- returns
BarrierImplemented == Abstract!Spec

(***************************************************************************)
(* The barrier does not hang: once every rank has made its k-th call, each *)
(* of them returns from it, unless its own wait timed out and trapped.  A  *)
(* peer that trapped had sent its signals before, and those must be enough.*)
(***************************************************************************)
CompleteBarrierReturns ==
  \A r \in Ranks : \A k \in 1 .. MaxCalls :
    (\A q \in Ranks : calls[q] >= k) ~> (returns[r] >= k \/ r \in trapped)
=============================================================================
