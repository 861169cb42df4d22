------------------------------ MODULE Barrier ------------------------------
(***************************************************************************)
(* What a cross-rank barrier promises its callers, whatever it is built    *)
(* from: a rank leaves its k-th barrier only when every rank has entered   *)
(* its own k-th.  The device barriers of the library (barrier_block in     *)
(* csrc/kernels/deep_ep/utils.cuh) are shown to implement it.              *)
(***************************************************************************)
EXTENDS Naturals

CONSTANTS
  Ranks,     \* the ranks that share the barrier
  MaxCalls   \* bound: how many times a rank calls the barrier

ASSUME BarrierAssumption == MaxCalls \in Nat

VARIABLES
  entered,   \* entered[r]: barrier calls rank r has made
  left       \* left[r]:    barrier calls that have returned to rank r

barrierVars == <<entered, left>>

Init ==
  /\ entered = [r \in Ranks |-> 0]
  /\ left    = [r \in Ranks |-> 0]

Enter(r) ==
  /\ entered[r] = left[r]
  /\ entered[r] < MaxCalls
  /\ entered' = [entered EXCEPT ![r] = @ + 1]
  /\ UNCHANGED left

Leave(r) ==
  /\ left[r] < entered[r]
  /\ \A q \in Ranks : entered[q] >= entered[r]
  /\ left' = [left EXCEPT ![r] = @ + 1]
  /\ UNCHANGED entered

Next == \E r \in Ranks : Enter(r) \/ Leave(r)

Spec == Init /\ [][Next]_barrierVars
=============================================================================
