---------------------------- MODULE XgmiBarrier ----------------------------
(***************************************************************************)
(* xgmi_barrier of flydsl/mega/barrier.py, the barrier across ranks of the *)
(* Mega MoE prologue.  Each rank owns two signal words and a counter of    *)
(* its calls that is never reset.  The counter modulo four chooses the     *)
(* word (bit 0) and the direction (bit 1): calls 0 and 1 count word 0 and  *)
(* word 1 up from zero to the number of ranks, calls 2 and 3 back down.    *)
(* Thread t of block 0 adds the step to peer t's word; thread 0 then moves *)
(* the counter and spins until the rank's own word equals the target.      *)
(*                                                                         *)
(* The blocks other than block 0 do not wait here: the grid_sync after a   *)
(* barrier holds them.  A stuck wait only prints and goes on waiting.      *)
(***************************************************************************)
EXTENDS Integers, FiniteSets

CONSTANTS
  Ranks,     \* world_size ranks
  MaxCalls   \* bound: barrier calls per rank

ASSUME XgmiAssumption == IsFiniteSet(Ranks) /\ MaxCalls \in Nat

VARIABLES
  calls,     \* calls[r]:     calls of xgmi_barrier block 0 of rank r has entered
  returns,   \* returns[r]:   calls that returned
  counter,   \* counter[r]:   the word at counter_ptr
  status,    \* status[r]:    the counter as the current call read it, & 3
  unsent,    \* unsent[r]:    threads of block 0 that have not yet added
  signal,    \* signal[r][w]: signal word w of rank r
  at         \* at[r]:        "out", "send" or "wait"

xgmiVars == <<calls, returns, counter, status, unsent, signal, at>>

XgmiInit ==
  /\ calls   = [r \in Ranks |-> 0]
  /\ returns = [r \in Ranks |-> 0]
  /\ counter = [r \in Ranks |-> 0]
  /\ status  = [r \in Ranks |-> 0]
  /\ unsent  = [r \in Ranks |-> {}]
  /\ signal  = [r \in Ranks |-> [w \in {0, 1} |-> 0]]
  /\ at      = [r \in Ranks |-> "out"]

Word(s)      == s % 2                       \* status & 1
CountsUp(s)  == s \in {0, 1}                \* status & 2 is zero
AddValue(s)  == IF CountsUp(s) THEN 1 ELSE -1
OwnNotCounted(s) == IF CountsUp(s) THEN Cardinality(Ranks) - 1 ELSE 0   \* mutant
Target(s)    == IF CountsUp(s) THEN Cardinality(Ranks) ELSE 0

Call(r) ==
  /\ at[r] = "out"
  /\ calls[r] < MaxCalls
  /\ calls'  = [calls EXCEPT ![r] = @ + 1]
  /\ status' = [status EXCEPT ![r] = counter[r] % 4]
  /\ unsent' = [unsent EXCEPT ![r] = Ranks]
  /\ at'     = [at EXCEPT ![r] = "send"]
  /\ UNCHANGED <<returns, counter, signal>>

\* atomic_add(sym.map(signal_ptr, t), 0, add_value, scope="sys")
Send(r, t) ==
  /\ t \in unsent[r]
  /\ signal' = [signal EXCEPT ![t][Word(status[r])] = @ + AddValue(status[r])]
  /\ unsent' = [unsent EXCEPT ![r] = @ \ {t}]
  /\ UNCHANGED <<calls, returns, counter, status, at>>

\* After the block's barrier thread 0 advances phase and sign.
Advance(r) ==
  /\ at[r] = "send"
  /\ unsent[r] = {}
  /\ counter' = [counter EXCEPT ![r] = @ + 1]
  /\ at'      = [at EXCEPT ![r] = "wait"]
  /\ UNCHANGED <<calls, returns, status, unsent, signal>>

\* The spin ends on equality with the target, not on reaching it.
Return(r) ==
  /\ at[r] = "wait"
  /\ signal[r][Word(status[r])] = Target(status[r])
  /\ returns' = [returns EXCEPT ![r] = @ + 1]
  /\ at'      = [at EXCEPT ![r] = "out"]
  /\ UNCHANGED <<calls, counter, status, unsent, signal>>

\* Steps of a call that is under way.
XgmiStep(r) == (\E t \in Ranks : Send(r, t)) \/ Advance(r) \/ Return(r)

XgmiNext == \E r \in Ranks : Call(r) \/ XgmiStep(r)

XgmiSpec == XgmiInit /\ [][XgmiNext]_xgmiVars

-----------------------------------------------------------------------------
(***************************************************************************)
(* The barrier of the Mega prologue is the abstract barrier: although the  *)
(* words are shared by every second call and are never reset, and a rank   *)
(* may already have signalled its next call, no rank leaves its k-th call  *)
(* before all are in it.                                                   *)
(***************************************************************************)
AbstractBarrier == INSTANCE Barrier WITH entered <- calls, left <- returns
XgmiImplementsBarrier == AbstractBarrier!Spec
=============================================================================
