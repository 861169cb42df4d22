-------------------------- MODULE BufferLifecycle --------------------------
(***************************************************************************)
(* The life of the IPC buffer of csrc/pytorch/deep_ep/deep_ep.cpp and      *)
(* Buffer.__init__ of primus_turbo/pytorch/deep_ep/buffer.py: construct,   *)
(* exchange handles, sync, operate, destroy.  The barrier signals live in  *)
(* the buffer of their rank, behind the data, so that barrier_block works  *)
(* on memory each rank clears, maps and frees at its own pace.             *)
(*                                                                         *)
(* An operation is a call of barrier_block here: every kernel of dispatch  *)
(* and combine begins with one.  Each rank makes the same MaxCalls calls,  *)
(* the last from destroy.                                                  *)
(***************************************************************************)
EXTENDS BarrierBlock

CONSTANT Leftovers   \* what freshly allocated signal memory may hold

ASSUME LeftoversAssumption == Leftovers \subseteq Int

VARIABLES
  stage,     \* where the host of each rank is in the life of its Buffer
  clearing   \* ranks whose hipMemsetAsync of their signals is still queued

lifeVars == <<vars, stage, clearing>>

Stages == {"new", "built", "gathered", "ready", "closing", "freed"}

LifeInit ==
  /\ calls   = [r \in Ranks |-> 0]
  /\ returns = [r \in Ranks |-> 0]
  /\ signal  \in [Ranks -> {[t \in Ranks |-> v] : v \in Leftovers}]
  /\ lane    = [r \in Ranks |-> [t \in Ranks |-> "out"]]
  /\ trapped = {}
  /\ stage   = [r \in Ranks |-> "new"]
  /\ clearing = {}

\* The constructor allocates and queues the memset on comm_stream.
Construct(r) ==
  /\ stage[r] = "new"
  /\ stage'    = [stage EXCEPT ![r] = "built"]
  /\ clearing' = clearing \cup {r}
  /\ UNCHANGED vars

ClearNothing(r) ==   \* mutant: the memset covers no signal
  /\ r \in clearing
  /\ clearing' = clearing \ {r}
  /\ UNCHANGED <<vars, stage>>

\* The memset itself, in the time of the device.
ClearSignals(r) ==
  /\ r \in clearing
  /\ clearing' = clearing \ {r}
  /\ signal'   = [signal EXCEPT ![r] = [t \in Ranks |-> 0]]
  /\ UNCHANGED <<calls, returns, lane, trapped, stage>>

\* The two all_gather_object calls: every rank has built its buffer.
Gather(r) ==
  /\ stage[r] = "built"
  /\ \A q \in Ranks : stage[q] # "new"
  /\ stage' = [stage EXCEPT ![r] = "gathered"]
  /\ UNCHANGED <<vars, clearing>>

SyncWithoutDevice(r) ==   \* mutant: no hipDeviceSynchronize
  /\ stage[r] = "gathered"
  /\ stage' = [stage EXCEPT ![r] = "ready"]
  /\ UNCHANGED <<vars, clearing>>

\* Buffer::sync opens the peers' handles and ends in a hipDeviceSynchronize,
\* which waits for the rank's own memset and for nothing of its peers.
Sync(r) ==
  /\ stage[r] = "gathered"
  /\ r \notin clearing
  /\ stage' = [stage EXCEPT ![r] = "ready"]
  /\ UNCHANGED <<vars, clearing>>

Operate(r) ==
  /\ stage[r] = "ready"
  /\ calls[r] + 1 < MaxCalls
  /\ Call(r)
  /\ UNCHANGED <<stage, clearing>>

\* destroy: device idle, then one more barrier.
BeginDestroy(r) ==
  /\ stage[r] = "ready"
  /\ calls[r] + 1 = MaxCalls
  /\ Call(r)
  /\ stage' = [stage EXCEPT ![r] = "closing"]
  /\ UNCHANGED clearing

BarrierLaunched(r) == TRUE   \* mutant: the device is not synchronized again
DeviceIdle(r) == r \notin trapped /\ calls[r] = returns[r]

\* Device idle again; close the peers' handles, free the local buffer.
Free(r) ==
  /\ stage[r] = "closing"
  /\ DeviceIdle(r)
  /\ stage' = [stage EXCEPT ![r] = "freed"]
  /\ UNCHANGED <<vars, clearing>>

HostStep(r) == \/ Construct(r) \/ Gather(r) \/ Sync(r)
               \/ Operate(r) \/ BeginDestroy(r) \/ Free(r)

DeviceStep(r) ==
  \/ ClearSignals(r)
  \/ (RankStep(r) \/ TimeoutTrap(r)) /\ UNCHANGED <<stage, clearing>>

LifeNext == \E r \in Ranks : HostStep(r) \/ DeviceStep(r)

LifeSpec == LifeInit /\ [][LifeNext]_lifeVars

\* Hosts and devices go on; timeouts need not fire.
LifeFairness ==
  \A r \in Ranks :
    /\ WF_lifeVars(HostStep(r))
    /\ WF_lifeVars(ClearSignals(r))
    /\ WF_lifeVars(Return(r) /\ UNCHANGED <<stage, clearing>>)
    /\ WF_lifeVars(Retry(r) /\ UNCHANGED <<stage, clearing>>)
    /\ \A t \in Ranks : WF_lifeVars(LaneStep(r, t) /\ UNCHANGED <<stage, clearing>>)

LifeFairSpec == LifeSpec /\ LifeFairness

-----------------------------------------------------------------------------
\* The constructor of the rank is done, and so is the memset it has queued.
Cleared(r) == stage[r] # "new" /\ r \notin clearing

(***************************************************************************)
(* Types.  A signal that has been cleared is -Tag, 0 or Tag for ever after,*)
(* whatever the memory held at first and although a late memset may have   *)
(* wiped out what a peer had subtracted; before, at most one barrier's Tag *)
(* has been taken off what the memory held.                                *)
(***************************************************************************)
LifeTypeOK ==
  /\ calls   \in [Ranks -> 0 .. MaxCalls]
  /\ returns \in [Ranks -> 0 .. MaxCalls]
  /\ lane    \in [Ranks -> [Ranks -> LaneStates]]
  /\ trapped \in SUBSET Ranks
  /\ stage \in [Ranks -> Stages] /\ clearing \in SUBSET Ranks
  /\ signal \in [Ranks -> [Ranks -> Int]]
  /\ \A r, t \in Ranks :
       signal[r][t] \in IF Cleared(r) THEN {-Tag, 0, Tag}
                        ELSE Leftovers \cup {v - Tag : v \in Leftovers}

(***************************************************************************)
(* No memory is touched after it was freed: once a rank has freed its      *)
(* buffer no lane of a peer still has its atomicSub on it to do, although  *)
(* destroy ends with a barrier whose own signals are in that buffer, and   *)
(* the rank's own kernels are over.                                        *)
(***************************************************************************)
NoUseAfterFree ==
  \A r, t \in Ranks : stage[t] = "freed" =>
    /\ lane[r][t] \notin {"add", "sub"}
    /\ lane[t][r] = "out"

(***************************************************************************)
(* The barrier starts from clear signals: no rank is let into a barrier    *)
(* early by what its memory held before, nor by a peer's buffer being      *)
(* cleared after the rank has signalled there.                             *)
(***************************************************************************)
BarrierFromFreshMemory == BarrierImplemented

(***************************************************************************)
(* What the constructor's comment takes for granted: the signals need no   *)
(* synchronization before sync.  Then a barrier every rank has entered     *)
(* returns on every rank, unless a wait timed out.                         *)
(***************************************************************************)
FirstBarrierReturns == CompleteBarrierReturns
=============================================================================
