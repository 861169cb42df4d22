--------------------------- MODULE DeepEPSession ---------------------------
(***************************************************************************)
(* Buffer::intranode_dispatch and intranode_combine of                     *)
(* csrc/pytorch/deep_ep/deep_ep.cpp, over a whole sequence of calls: each  *)
(* rank has a host thread that issues the calls and a stream that executes *)
(* their kernels in order, some time later.  What the calls share is the   *)
(* IPC buffer of each rank, written by every rank, and the pinned counters *)
(* by which notify_dispatch tells its host how many tokens will arrive.    *)
(*                                                                         *)
(* A kernel is a script of steps.  Its barriers are the abstract ones that *)
(* barrier_block implements; the data kernels, which IntranodeDispatch and *)
(* IntranodeCombine take apart, are a beginning and an end.                *)
(***************************************************************************)
EXTENDS Barrier, Integers, Sequences, FiniteSets

CONSTANTS
  Programs,    \* the sequences of calls, the same on every rank
  MaxThrows    \* bound: hosts that may give up waiting

\* "sync": a dispatch whose host waits for the counts; "worst": one given
\* num_worst_tokens; "cached": one given the handle of an earlier dispatch;
\* "combine"; "idle": the caller waits for the device.
Kinds == {"sync", "worst", "cached", "combine", "idle"}

ASSUME SessionAssumption ==
  /\ MaxThrows \in Nat
  /\ \A p \in Programs : p \in Seq(Kinds) /\ 3 * Len(p) <= MaxCalls

VARIABLES
  program,   \* the calls of this behaviour
  next,      \* next[r]: the call the host of rank r makes next
  host,      \* "ready", "waiting" for the total, "counting" experts, "thrown"
  seen,      \* num_recv_tokens as read by the waiting host
  total,     \* *moe_recv_counter, as the call whose counts it holds
  expert,    \* moe_recv_expert_counter, one expert standing for all
  sized,     \* sized[r][k]: the calls whose counts call k was given
  stream,    \* the kernels of each rank not yet finished, as <<script, call>>
  step,      \* how many steps of the kernel at its head are done
  written,   \* which of the two counters that kernel has written
  posted,    \* posted[r][q]: the call whose counts q last left in r's buffer
  cleaned,   \* the call that last reset the queues in each buffer
  begun,     \* the last call whose data kernel has begun on each rank
  feeders    \* the ranks whose data the data kernel at its head needs

hostVars   == <<program, next, host, seen, sized>>
kernelVars == <<stream, step, written, posted, cleaned, begun, feeders>>
sessionVars == <<hostVars, kernelVars, total, expert, barrierVars>>

Calls   == 1 .. Len(program)
Unready == -1     \* what the host resets the counters to

-----------------------------------------------------------------------------
(* The scripts, from the kernels of intranode.cu.                          *)

NoFirstBarrier  == <<"post", "enter", "leave", "counts", "clean", "enter", "leave">>    \* mutant
NoSecondBarrier == <<"enter", "leave", "post", "counts", "clean", "enter", "leave">>   \* mutant
NotifyDispatch == <<"enter", "leave", "post", "enter", "leave",
                    "counts", "clean", "enter", "leave">>
NoLastBarrier  == <<"enter", "leave", "clean">>   \* mutant
CachedNotify   == <<"enter", "leave", "clean", "enter", "leave">>
Data           == <<"begin", "end">>

Script(name) == CASE name = "notify" -> NotifyDispatch
                  [] name = "cached" -> CachedNotify
                  [] name = "data"   -> Data

Busy(r)     == stream[r] # <<>>
Kernel(r)   == Head(stream[r])[1]
CallOf(r)   == Head(stream[r])[2]
AtStep(r, s) == Busy(r) /\ Script(Kernel(r))[step[r] + 1] = s
InData(r)   == AtStep(r, "end")

SessionInit ==
  /\ Init
  /\ program \in Programs
  /\ next    = [r \in Ranks |-> 1]
  /\ host    = [r \in Ranks |-> "ready"]
  /\ total   = [r \in Ranks |-> Unready] /\ expert = [r \in Ranks |-> Unready]
  /\ seen    = [r \in Ranks |-> Unready]
  /\ sized   = [r \in Ranks |-> [k \in Calls |-> {}]]
  /\ stream  = [r \in Ranks |-> <<>>]
  /\ step    = [r \in Ranks |-> 0]
  /\ written = [r \in Ranks |-> {}]
  /\ posted  = [r \in Ranks |-> [q \in Ranks |-> 0]]
  /\ cleaned = [r \in Ranks |-> 0]
  /\ begun   = [r \in Ranks |-> 0]
  /\ feeders = [r \in Ranks |-> {}]

-----------------------------------------------------------------------------
(* The hosts.                                                              *)

HostReady(r, kinds) ==
  host[r] = "ready" /\ next[r] \in Calls /\ program[next[r]] \in kinds

Launch(r, names) ==
  stream' = [stream EXCEPT ![r] = @ \o [i \in 1 .. Len(names) |-> <<names[i], next[r]>>]]

\* Not cached, no num_worst_tokens: reset, launch notify_dispatch, wait.
CallAndWait(r) ==
  /\ HostReady(r, {"sync"})
  /\ total'  = [total EXCEPT ![r] = Unready]
  /\ expert' = [expert EXCEPT ![r] = Unready]
  /\ Launch(r, <<"notify">>)
  /\ host'   = [host EXCEPT ![r] = "waiting"]
  /\ UNCHANGED <<program, next, seen, sized, step, written, posted, cleaned, begun, feeders, barrierVars>>

\* With num_worst_tokens nothing is waited for; the counters are reset all the same.
CallWorst(r) ==
  /\ HostReady(r, {"worst"})
  /\ total'  = [total EXCEPT ![r] = Unready]
  /\ expert' = [expert EXCEPT ![r] = Unready]
  /\ Launch(r, <<"notify", "data">>)
  /\ next'   = [next EXCEPT ![r] = @ + 1]
  /\ UNCHANGED <<program, host, seen, sized, step, written, posted, cleaned, begun, feeders, barrierVars>>

\* The cached dispatch and the combine need no counts.
CallCached(r) ==
  /\ HostReady(r, {"cached", "combine"})
  /\ Launch(r, <<"cached", "data">>)
  /\ next' = [next EXCEPT ![r] = @ + 1]
  /\ UNCHANGED <<program, host, seen, sized, total, expert, step, written, posted, cleaned, begun, feeders,
                 barrierVars>>

CallIdle(r) ==
  /\ HostReady(r, {"idle"})
  /\ ~ Busy(r)
  /\ next' = [next EXCEPT ![r] = @ + 1]
  /\ UNCHANGED <<program, host, seen, sized, total, expert, kernelVars, barrierVars>>

\* One turn of the waiting loop reads the total first ...
ReadTotal(r) ==
  /\ host[r] = "waiting"
  /\ total[r] # Unready
  /\ seen' = [seen EXCEPT ![r] = total[r]]
  /\ host' = [host EXCEPT ![r] = "counting"]
  /\ UNCHANGED <<program, next, sized, total, expert, kernelVars, barrierVars>>

ExpertsSkipped(r) == TRUE   \* mutant: only the total is waited for
ExpertsRead(r) == expert[r] # Unready

ReadAgainReset(r) ==   \* mutant: the total is reset on every turn
  /\ host[r] = "counting"
  /\ ~ ExpertsRead(r)
  /\ host'  = [host EXCEPT ![r] = "waiting"]
  /\ total' = [total EXCEPT ![r] = Unready]
  /\ UNCHANGED <<program, next, seen, sized, expert, kernelVars, barrierVars>>

\* ... then the experts, and starts again if one is not set yet.
ReadAgain(r) ==
  /\ host[r] = "counting"
  /\ ~ ExpertsRead(r)
  /\ host' = [host EXCEPT ![r] = "waiting"]
  /\ UNCHANGED <<program, next, seen, sized, total, expert, kernelVars, barrierVars>>

\* All are set: allocate by the counts and launch dispatch.
TakeCounts(r) ==
  /\ host[r] = "counting"
  /\ ExpertsRead(r)
  /\ sized' = [sized EXCEPT ![r][next[r]] = {seen[r], expert[r]}]
  /\ Launch(r, <<"data">>)
  /\ host'  = [host EXCEPT ![r] = "ready"]
  /\ next'  = [next EXCEPT ![r] = @ + 1]
  /\ UNCHANGED <<program, seen, total, expert, step, written, posted, cleaned, begun, feeders,
                 barrierVars>>

\* The CPU timeout: the call throws and its kernels stay in the stream.
GiveUp(r) ==
  /\ \/ host[r] = "waiting" /\ total[r] = Unready
     \/ host[r] = "counting" /\ ~ ExpertsRead(r)
  /\ Cardinality({q \in Ranks : host[q] = "thrown"}) < MaxThrows
  /\ host' = [host EXCEPT ![r] = "thrown"]
  /\ UNCHANGED <<program, next, seen, sized, total, expert, kernelVars, barrierVars>>

HostStep(r) == \/ CallAndWait(r) \/ CallWorst(r) \/ CallCached(r) \/ CallIdle(r)
               \/ ReadTotal(r) \/ ReadAgain(r) \/ TakeCounts(r)

-----------------------------------------------------------------------------
(* The kernels.                                                            *)

\* A step is done; the last one takes the kernel off the stream.
Advance(r) ==
  IF step[r] + 1 < Len(Script(Kernel(r)))
  THEN step' = [step EXCEPT ![r] = @ + 1] /\ UNCHANGED stream
  ELSE step' = [step EXCEPT ![r] = 0] /\ stream' = [stream EXCEPT ![r] = Tail(@)]

EnterBarrier(r) ==
  /\ AtStep(r, "enter")
  /\ Enter(r)
  /\ Advance(r)
  /\ UNCHANGED <<hostVars, total, expert, written, posted, cleaned, begun, feeders>>

LeaveBarrier(r) ==
  /\ AtStep(r, "leave")
  /\ Leave(r)
  /\ Advance(r)
  /\ UNCHANGED <<hostVars, total, expert, written, posted, cleaned, begun, feeders>>

\* The rank's counts go into the buffer of every rank.
PostCounts(r) ==
  /\ AtStep(r, "post")
  /\ posted' = [q \in Ranks |-> [posted[q] EXCEPT ![r] = CallOf(r)]]
  /\ Advance(r)
  /\ UNCHANGED <<hostVars, total, expert, written, cleaned, begun, feeders, barrierVars>>

\* The call all counts in the rank's buffer belong to, if it is one call.
Summed(r) ==
  IF \A q \in Ranks : posted[r][q] = CallOf(r) THEN CallOf(r) ELSE 0

\* Thread `rank` stores the total, other threads the experts, in any order.
StoreCounts(r) ==
  /\ AtStep(r, "counts")
  /\ \E c \in {"total", "expert"} \ written[r] :
       /\ IF c = "total" THEN total' = [total EXCEPT ![r] = Summed(r)] /\ UNCHANGED expert
                         ELSE expert' = [expert EXCEPT ![r] = Summed(r)] /\ UNCHANGED total
       /\ IF written[r] = {}
          THEN written' = [written EXCEPT ![r] = {c}] /\ UNCHANGED <<step, stream>>
          ELSE written' = [written EXCEPT ![r] = {}] /\ Advance(r)
  /\ UNCHANGED <<hostVars, posted, cleaned, begun, feeders, barrierVars>>

\* The memset of the channel offsets, heads and tails of the rank's buffer.
CleanQueues(r) ==
  /\ AtStep(r, "clean")
  /\ cleaned' = [cleaned EXCEPT ![r] = CallOf(r)]
  /\ Advance(r)
  /\ UNCHANGED <<hostVars, total, expert, written, posted, begun, feeders, barrierVars>>

\* A dispatch waits for the offsets of every rank.  A combine waits for those
\* it gets something from or has no room to send to; they may be none.
FeederSets(k) == IF program[k] = "combine" THEN SUBSET Ranks ELSE {Ranks}

BeginData(r) ==
  /\ AtStep(r, "begin")
  /\ begun' = [begun EXCEPT ![r] = CallOf(r)]
  /\ \E set \in FeederSets(CallOf(r)) : feeders' = [feeders EXCEPT ![r] = set]
  /\ Advance(r)
  /\ UNCHANGED <<hostVars, total, expert, written, posted, cleaned, barrierVars>>

EndData(r) ==
  /\ AtStep(r, "end")
  /\ \A q \in feeders[r] : begun[q] >= CallOf(r)
  /\ feeders' = [feeders EXCEPT ![r] = {}]
  /\ Advance(r)
  /\ UNCHANGED <<hostVars, total, expert, written, posted, cleaned, begun, barrierVars>>

KernelStep(r) == \/ EnterBarrier(r) \/ LeaveBarrier(r) \/ PostCounts(r) \/ StoreCounts(r)
                 \/ CleanQueues(r) \/ BeginData(r) \/ EndData(r)

SessionNext == \E r \in Ranks : HostStep(r) \/ GiveUp(r) \/ KernelStep(r)

SessionSpec == SessionInit /\ [][SessionNext]_sessionVars

\* Hosts run, streams execute; nobody has to give up.
SessionFairSpec ==
  /\ SessionSpec
  /\ \A r \in Ranks : WF_sessionVars(HostStep(r)) /\ WF_sessionVars(KernelStep(r))

-----------------------------------------------------------------------------
SessionTypeOK ==
  /\ program \in Programs
  /\ next \in [Ranks -> 1 .. Len(program) + 1]
  /\ host \in [Ranks -> {"ready", "waiting", "counting", "thrown"}]
  /\ total \in [Ranks -> Calls \cup {Unready}] /\ expert \in [Ranks -> Calls \cup {Unready}]
  /\ seen \in [Ranks -> Calls \cup {Unready}]
  /\ sized \in [Ranks -> [Calls -> SUBSET (Calls \cup {Unready})]]
  /\ \A r \in Ranks : /\ step[r] \in 0 .. 8
                      /\ Busy(r) => step[r] < Len(Script(Kernel(r)))
  /\ written \in [Ranks -> SUBSET {"total", "expert"}]
  /\ posted \in [Ranks -> [Ranks -> 0 .. Len(program)]]
  /\ cleaned \in [Ranks -> 0 .. Len(program)] /\ begun \in [Ranks -> 0 .. Len(program)]
  /\ feeders \in [Ranks -> SUBSET Ranks]
  /\ entered \in [Ranks -> Nat] /\ left \in [Ranks -> Nat]

(***************************************************************************)
(* A dispatch that waits allocates its outputs by its own counts, total    *)
(* and experts, though the counters are one pair for all calls, are reset  *)
(* by the host and are written by kernels that run later.                  *)
(***************************************************************************)
SizedByOwnCounts ==
  \A r \in Ranks, k \in Calls : sized[r][k] \in {{}, {k}}

(***************************************************************************)
(* The data of a call flows through queues cleaned for that call: while a  *)
(* rank is in the data kernel of call k, every rank's queues were last     *)
(* reset for k, neither still in the state of an earlier call nor already  *)
(* reset for the next, however far apart the hosts and streams run.        *)
(***************************************************************************)
DataOnCleanQueues ==
  \A r \in Ranks : InData(r) => \A q \in Ranks : cleaned[q] = CallOf(r)

(***************************************************************************)
(* The metadata of a call is not written over data in use: from the first  *)
(* to the last barrier of a notify kernel no rank is in a data kernel, so  *)
(* counts put into a peer's buffer hit no queue and no prefix being read.  *)
(***************************************************************************)
MetadataApart ==
  \A r, q \in Ranks :
    AtStep(r, "post") \/ AtStep(r, "counts") \/ AtStep(r, "clean") => ~ InData(q)

(***************************************************************************)
(* Every sequence of calls, made alike on all ranks, is executed to the    *)
(* end on all of them.  A host that gives up waiting takes nothing with it *)
(* but what comes after: the calls before are executed on every rank, and  *)
(* the peers, though their data kernels will wait in vain, get the counts  *)
(* of the very call it gave up.                                            *)
(***************************************************************************)
Executed(r, k) == next[r] > k /\ (Busy(r) => CallOf(r) > k)
Counted(r, k)  == next[r] > k \/ host[r] = "thrown"

AllCallsComplete ==
  <>[](\A r \in Ranks, k \in Calls :
         LET thrown == {q \in Ranks : host[q] = "thrown"} IN
         /\ (\A q \in thrown : next[q] > k) => Executed(r, k)
         /\ (\A q \in thrown : next[q] >= k) => Counted(r, k))
=============================================================================
