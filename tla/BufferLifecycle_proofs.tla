----------------------- MODULE BufferLifecycle_proofs -----------------------
(***************************************************************************)
(* barrier_block is a barrier for any number of ranks, any tag and any     *)
(* number of calls.  The argument counts the atomics: Added(r, t) is the   *)
(* number of times lane t of rank r has raised signal[r][t] and Taken(r, t)*)
(* the number of times it has lowered signal[t][r].  A signal is Tag times *)
(* the difference of the two counts, whatever the interleaving, and since a*)
(* rank returns only from rows it has seen non-positive, the counts of two *)
(* ranks are never more than one apart.                                    *)
(***************************************************************************)
EXTENDS BufferLifecycle, TLAPS

Added(r, t) == returns[r] + IF lane[r][t] \in {"out", "add"} THEN 0 ELSE 1
Taken(r, t) == returns[r] + IF lane[r][t] \in {"out", "add", "sub"} THEN 0 ELSE 1

\* The types of the variables, without the bound on the signals.
Typed ==
  /\ calls   \in [Ranks -> 0 .. MaxCalls]
  /\ returns \in [Ranks -> 0 .. MaxCalls]
  /\ signal  \in [Ranks -> [Ranks -> Int]]
  /\ lane    \in [Ranks -> [Ranks -> LaneStates]]
  /\ trapped \in SUBSET Ranks

\* The lanes of a rank are inside a call exactly when the rank is.
InCall ==
  \A r, t \in Ranks :
    calls[r] = returns[r] + IF lane[r][t] = "out" THEN 0 ELSE 1

\* What a signal holds.
SignalCounts ==
  \A r, t \in Ranks : signal[r][t] = Tag * (Added(r, t) - Taken(t, r))

\* A lane that has read a non-positive value may rely on it.
ClearMeansTaken ==
  \A r, t \in Ranks : lane[r][t] = "clear" => Added(r, t) <= Taken(t, r)

\* A call that returned was matched by every peer.
ReturnsMatched ==
  \A r, t \in Ranks : returns[r] <= Taken(t, r)

IInv ==
  /\ Typed
  /\ InCall
  /\ SignalCounts
  /\ ClearMeansTaken
  /\ ReturnsMatched

-----------------------------------------------------------------------------
LEMMA TagArithmetic ==
  ASSUME NEW n \in Int
  PROVE  /\ Tag * (n + 1) = Tag * n + Tag
         /\ Tag * (n - 1) = Tag * n - Tag
         /\ Tag * n <= 0 => n <= 0
         /\ Tag * 1 = Tag /\ Tag * 0 = 0 /\ Tag * (-1) = -Tag
<1>1. Tag \in Nat \ {0}
  BY BlockAssumption
<1>. QED
  BY <1>1

LEMMA CountsAreNat ==
  ASSUME Typed, NEW r \in Ranks, NEW t \in Ranks
  PROVE  Added(r, t) \in Nat /\ Taken(r, t) \in Nat
BY BlockAssumption DEF Typed, Added, Taken

LEMMA InitIInv == Init => IInv
<1>. SUFFICES ASSUME Init PROVE IInv
  OBVIOUS
<1>1. Typed
  BY BlockAssumption DEF Init, Typed, LaneStates
<1>2. InCall
  BY DEF Init, InCall
<1>3. SignalCounts
  BY TagArithmetic DEF Init, SignalCounts, Added, Taken
<1>4. ClearMeansTaken /\ ReturnsMatched
  BY DEF Init, ClearMeansTaken, ReturnsMatched, Taken
<1>. QED
  BY <1>1, <1>2, <1>3, <1>4 DEF IInv

\* A step that only enters a call or repeats a pass changes no count.
LEMMA CallKeeps ==
  ASSUME IInv, NEW r \in Ranks, Call(r)
  PROVE  IInv'
<1>. USE BlockAssumption
<1>1. Typed'
  BY DEF IInv, Typed, Call, LaneStates
<1>2. InCall'
  BY DEF IInv, Typed, InCall, Call
<1>3. \A p, t \in Ranks : /\ Added(p, t)' = Added(p, t)
                          /\ Taken(p, t)' = Taken(p, t)
  BY DEF IInv, Typed, InCall, Call, Added, Taken
<1>4. SignalCounts'
  BY <1>3 DEF IInv, SignalCounts, Call
<1>5. ClearMeansTaken'
  BY <1>3 DEF IInv, Typed, ClearMeansTaken, Call
<1>6. ReturnsMatched'
  BY <1>3 DEF IInv, ReturnsMatched, Call
<1>. QED
  BY <1>1, <1>2, <1>4, <1>5, <1>6 DEF IInv

LEMMA AddOwnKeeps ==
  ASSUME IInv, NEW r \in Ranks, NEW t \in Ranks, AddOwn(r, t)
  PROVE  IInv'
<1>. USE BlockAssumption
<1>1. Typed'
  BY DEF IInv, Typed, AddOwn, LaneStates
<1>2. InCall'
  BY DEF IInv, Typed, InCall, AddOwn
<1>3. \A p, q \in Ranks :
        /\ Added(p, q)' = IF p = r /\ q = t THEN Added(p, q) + 1 ELSE Added(p, q)
        /\ Taken(p, q)' = Taken(p, q)
  BY DEF IInv, Typed, AddOwn, Added, Taken
<1>4. SignalCounts'
  <2>1. SUFFICES ASSUME NEW p \in Ranks, NEW q \in Ranks
                 PROVE  signal'[p][q] = Tag * (Added(p, q)' - Taken(q, p)')
    BY DEF SignalCounts
  <2>2. signal[p][q] = Tag * (Added(p, q) - Taken(q, p))
    BY DEF IInv, SignalCounts
  <2>3. Added(p, q) \in Nat /\ Taken(q, p) \in Nat
    BY CountsAreNat DEF IInv
  <2>4. CASE p = r /\ q = t
    <3>1. signal'[p][q] = signal[p][q] + Tag
      BY <2>4 DEF IInv, Typed, AddOwn
    <3>2. Added(p, q)' - Taken(q, p)' = (Added(p, q) - Taken(q, p)) + 1
      BY <1>3, <2>3, <2>4
    <3>. QED
      BY <2>2, <2>3, <3>1, <3>2, TagArithmetic
  <2>5. CASE ~ (p = r /\ q = t)
    <3>1. signal'[p][q] = signal[p][q]
      BY <2>5 DEF IInv, Typed, AddOwn
    <3>. QED
      BY <1>3, <2>2, <2>5, <3>1
  <2>. QED
    BY <2>4, <2>5
<1>5. ClearMeansTaken'
  BY <1>3 DEF IInv, Typed, ClearMeansTaken, AddOwn
<1>6. ReturnsMatched'
  BY <1>3 DEF IInv, ReturnsMatched, AddOwn
<1>. QED
  BY <1>1, <1>2, <1>4, <1>5, <1>6 DEF IInv

LEMMA SubPeerKeeps ==
  ASSUME IInv, NEW r \in Ranks, NEW t \in Ranks, SubPeer(r, t)
  PROVE  IInv'
<1>. USE BlockAssumption
<1>1. Typed'
  BY DEF IInv, Typed, SubPeer, LaneStates
<1>2. InCall'
  BY DEF IInv, Typed, InCall, SubPeer
<1>3. \A p, q \in Ranks :
        /\ Added(p, q)' = Added(p, q)
        /\ Taken(p, q)' = IF p = r /\ q = t THEN Taken(p, q) + 1 ELSE Taken(p, q)
  BY DEF IInv, Typed, SubPeer, Added, Taken
<1>4. SignalCounts'
  <2>1. SUFFICES ASSUME NEW p \in Ranks, NEW q \in Ranks
                 PROVE  signal'[p][q] = Tag * (Added(p, q)' - Taken(q, p)')
    BY DEF SignalCounts
  <2>2. signal[p][q] = Tag * (Added(p, q) - Taken(q, p))
    BY DEF IInv, SignalCounts
  <2>3. Added(p, q) \in Nat /\ Taken(q, p) \in Nat
    BY CountsAreNat DEF IInv
  <2>4. CASE p = t /\ q = r
    <3>1. signal'[p][q] = signal[p][q] - Tag
      BY <2>4 DEF IInv, Typed, SubPeer
    <3>2. Added(p, q)' - Taken(q, p)' = (Added(p, q) - Taken(q, p)) - 1
      BY <1>3, <2>3, <2>4
    <3>. QED
      BY <2>2, <2>3, <3>1, <3>2, TagArithmetic
  <2>5. CASE ~ (p = t /\ q = r)
    <3>1. signal'[p][q] = signal[p][q]
      BY <2>5 DEF IInv, Typed, SubPeer
    <3>. QED
      BY <1>3, <2>2, <2>5, <3>1
  <2>. QED
    BY <2>4, <2>5
<1>5. \A p, q \in Ranks : Taken(p, q) <= Taken(p, q)'
  BY <1>3, CountsAreNat DEF IInv
<1>6. ClearMeansTaken'
  <2>1. SUFFICES ASSUME NEW p \in Ranks, NEW q \in Ranks, lane'[p][q] = "clear"
                 PROVE  Added(p, q)' <= Taken(q, p)'
    BY DEF ClearMeansTaken
  <2>2. lane[p][q] = "clear"
    BY <2>1 DEF IInv, Typed, SubPeer
  <2>3. Added(p, q) <= Taken(q, p)
    BY <2>2 DEF IInv, ClearMeansTaken
  <2>. QED
    BY <1>3, <2>3, CountsAreNat DEF IInv
<1>7. ReturnsMatched'
  <2>1. SUFFICES ASSUME NEW p \in Ranks, NEW q \in Ranks
                 PROVE  returns'[p] <= Taken(q, p)'
    BY DEF ReturnsMatched
  <2>2. returns'[p] = returns[p] /\ returns[p] <= Taken(q, p) /\ returns[p] \in Nat
    BY DEF IInv, Typed, ReturnsMatched, SubPeer
  <2>. QED
    BY <1>3, <2>2, CountsAreNat DEF IInv
<1>. QED
  BY <1>1, <1>2, <1>4, <1>6, <1>7 DEF IInv

LEMMA LoadKeeps ==
  ASSUME IInv, NEW r \in Ranks, NEW t \in Ranks, Load(r, t)
  PROVE  IInv'
<1>. USE BlockAssumption
<1>1. Typed'
  BY DEF IInv, Typed, Load, LaneStates
<1>2. InCall'
  BY DEF IInv, Typed, InCall, Load
<1>3. \A p, q \in Ranks : /\ Added(p, q)' = Added(p, q)
                          /\ Taken(p, q)' = Taken(p, q)
  BY DEF IInv, Typed, Load, Added, Taken
<1>4. SignalCounts'
  BY <1>3 DEF IInv, SignalCounts, Load
<1>5. ClearMeansTaken'
  <2>1. SUFFICES ASSUME NEW p \in Ranks, NEW q \in Ranks, lane'[p][q] = "clear"
                 PROVE  Added(p, q) <= Taken(q, p)
    BY <1>3 DEF ClearMeansTaken
  <2>2. CASE p = r /\ q = t
    <3>1. signal[p][q] <= 0
      BY <2>1, <2>2 DEF IInv, Typed, Load, Released
    <3>2. Tag * (Added(p, q) - Taken(q, p)) <= 0
      BY <3>1 DEF IInv, SignalCounts
    <3>. QED
      BY <3>2, TagArithmetic, CountsAreNat DEF IInv
  <2>3. CASE ~ (p = r /\ q = t)
    BY <2>1, <2>3 DEF IInv, Typed, ClearMeansTaken, Load, Released
  <2>. QED
    BY <2>2, <2>3
<1>6. ReturnsMatched'
  BY <1>3 DEF IInv, ReturnsMatched, Load
<1>. QED
  BY <1>1, <1>2, <1>4, <1>5, <1>6 DEF IInv

\* Leaving a call moves a lane's one in "in this call" into returns[r].
LEMMA ReturnKeeps ==
  ASSUME IInv, NEW r \in Ranks, Return(r)
  PROVE  IInv'
<1>. USE BlockAssumption
<1>1. returns[r] + 1 = calls[r]
  BY DEF IInv, Typed, InCall, Return, AllClear
<1>2. Typed'
  BY <1>1 DEF IInv, Typed, Return, LaneStates
<1>3. InCall'
  BY <1>1 DEF IInv, Typed, InCall, Return
<1>4. \A p, q \in Ranks : /\ Added(p, q)' = Added(p, q)
                          /\ Taken(p, q)' = Taken(p, q)
  BY DEF IInv, Typed, Return, AllClear, Added, Taken
<1>5. SignalCounts'
  BY <1>4 DEF IInv, SignalCounts, Return
<1>6. ClearMeansTaken'
  BY <1>4 DEF IInv, Typed, ClearMeansTaken, Return
<1>7. ReturnsMatched'
  <2>1. SUFFICES ASSUME NEW p \in Ranks, NEW q \in Ranks
                 PROVE  returns'[p] <= Taken(q, p)
    BY <1>4 DEF ReturnsMatched
  <2>2. CASE p = r
    <3>1. lane[r][q] = "clear"
      BY DEF Return, AllClear
    <3>2. Added(r, q) <= Taken(q, r)
      BY <3>1 DEF IInv, ClearMeansTaken
    <3>3. Added(r, q) = returns[r] + 1
      BY <3>1 DEF Added
    <3>4. returns'[r] = returns[r] + 1
      BY DEF IInv, Typed, Return
    <3>. QED
      BY <2>2, <3>2, <3>3, <3>4
  <2>3. CASE p # r
    BY <2>3 DEF IInv, Typed, ReturnsMatched, Return
  <2>. QED
    BY <2>2, <2>3
<1>. QED
  BY <1>2, <1>3, <1>5, <1>6, <1>7 DEF IInv

LEMMA RetryKeeps ==
  ASSUME IInv, NEW r \in Ranks, Retry(r)
  PROVE  IInv'
<1>1. Typed'
  BY DEF IInv, Typed, Retry, LaneStates
<1>2. InCall'
  BY DEF IInv, Typed, InCall, Retry, PassDone
<1>3. \A p, q \in Ranks : /\ Added(p, q)' = Added(p, q)
                          /\ Taken(p, q)' = Taken(p, q)
  BY DEF IInv, Typed, Retry, PassDone, Added, Taken
<1>4. SignalCounts'
  BY <1>3 DEF IInv, SignalCounts, Retry
<1>5. ClearMeansTaken'
  BY <1>3 DEF IInv, Typed, ClearMeansTaken, Retry
<1>6. ReturnsMatched'
  BY <1>3 DEF IInv, ReturnsMatched, Retry
<1>. QED
  BY <1>1, <1>2, <1>4, <1>5, <1>6 DEF IInv

\* A trap and a stuttering step leave everything the invariant counts alone.
LEMMA FrameKeeps ==
  ASSUME IInv, UNCHANGED <<calls, returns, signal, lane>>, trapped' \in SUBSET Ranks
  PROVE  IInv'
BY DEF IInv, Typed, InCall, SignalCounts, ClearMeansTaken, ReturnsMatched,
       Added, Taken

LEMMA NextKeeps == IInv /\ [Next]_vars => IInv'
<1>. SUFFICES ASSUME IInv, [Next]_vars PROVE IInv'
  OBVIOUS
<1>1. ASSUME NEW r \in Ranks, Call(r) PROVE IInv'
  BY <1>1, CallKeeps
<1>2. ASSUME NEW r \in Ranks, RankStep(r) PROVE IInv'
  <2>1. CASE Return(r)
    BY <2>1, ReturnKeeps
  <2>2. CASE Retry(r)
    BY <2>2, RetryKeeps
  <2>3. ASSUME NEW t \in Ranks, AddOwn(r, t) \/ SubPeer(r, t) \/ Load(r, t)
        PROVE  IInv'
    BY <2>3, AddOwnKeeps, SubPeerKeeps, LoadKeeps
  <2>. QED
    BY <1>2, <2>1, <2>2, <2>3 DEF RankStep
<1>3. ASSUME NEW r \in Ranks, TimeoutTrap(r) PROVE IInv'
  <2>1. trapped' \in SUBSET Ranks
    BY <1>3 DEF IInv, Typed, TimeoutTrap
  <2>. QED
    BY <1>3, <2>1, FrameKeeps DEF TimeoutTrap
<1>4. CASE UNCHANGED vars
  BY <1>4, FrameKeeps DEF vars, IInv, Typed
<1>. QED
  BY <1>1, <1>2, <1>3, <1>4 DEF Next

THEOREM Invariance == Spec => []IInv
<1>1. Init => IInv
  BY InitIInv
<1>2. IInv /\ [Next]_vars => IInv'
  BY NextKeeps
<1>. QED
  BY <1>1, <1>2, PTL DEF Spec

(***************************************************************************)
(* The counts of two ranks differ by at most one, so the signals, which    *)
(* the code never resets and which live as long as the buffer, stay within *)
(* one tag of zero: they cannot drift, and their 32-bit width cannot matter*)
(* however many kernels run.                                               *)
(***************************************************************************)
LEMMA CountsWithinOne ==
  ASSUME IInv, NEW r \in Ranks, NEW t \in Ranks
  PROVE  Added(r, t) - Taken(t, r) \in {-1, 0, 1}
<1>1. returns[r] <= Taken(t, r) /\ returns[t] <= Taken(r, t)
  BY DEF IInv, ReturnsMatched
<1>2. /\ returns[r] \in Nat /\ returns[t] \in Nat
      /\ Added(r, t) \in returns[r] .. returns[r] + 1
      /\ Taken(r, t) <= Added(r, t)
      /\ Taken(t, r) \in returns[t] .. returns[t] + 1
  BY BlockAssumption DEF IInv, Typed, Added, Taken
<1>3. Taken(r, t) \in Nat
  BY CountsAreNat DEF IInv
<1>. QED
  BY <1>1, <1>2, <1>3

(***************************************************************************)
(* Type correctness, including that every signal is -Tag, 0 or Tag.        *)
(***************************************************************************)
THEOREM TypeCorrect == Spec => []TypeOK
<1>1. IInv => TypeOK
  <2>. SUFFICES ASSUME IInv PROVE TypeOK
    OBVIOUS
  <2>1. ASSUME NEW r \in Ranks, NEW t \in Ranks
        PROVE  signal[r][t] \in {-Tag, 0, Tag}
    <3>1. signal[r][t] = Tag * (Added(r, t) - Taken(t, r))
      BY DEF IInv, SignalCounts
    <3>2. Added(r, t) - Taken(t, r) \in {-1, 0, 1}
      BY CountsWithinOne
    <3>. QED
      BY <3>1, <3>2, TagArithmetic
  <2>. QED
    BY <2>1 DEF IInv, Typed, TypeOK
<1>. QED
  BY <1>1, Invariance, PTL

(***************************************************************************)
(* barrier_block implements the abstract barrier: a call is Enter, a return*)
(* is Leave, and every other step leaves the callers where they were.      *)
(***************************************************************************)
THEOREM ImplementsBarrier == Spec => BarrierImplemented
<1>1. Init => Abstract!Init
  BY DEF Init, Abstract!Init
<1>2. IInv /\ [Next]_vars => [Abstract!Next]_Abstract!barrierVars
  <2>. SUFFICES ASSUME IInv, [Next]_vars
                PROVE  Abstract!Next \/ UNCHANGED Abstract!barrierVars
    OBVIOUS
  <2>1. ASSUME NEW r \in Ranks, Call(r) PROVE Abstract!Next
    BY <2>1 DEF Call, Abstract!Next, Abstract!Enter
  <2>2. ASSUME NEW r \in Ranks, Return(r) PROVE Abstract!Next
    <3>1. ASSUME NEW q \in Ranks PROVE calls[q] >= calls[r]
      <4>1. lane[r][q] = "clear"
        BY <2>2 DEF Return, AllClear
      <4>2. Added(r, q) <= Taken(q, r)
        BY <4>1 DEF IInv, ClearMeansTaken
      <4>3. Added(r, q) = calls[r]
        BY <4>1 DEF IInv, InCall, Added
      <4>4. Taken(q, r) <= calls[q]
        BY BlockAssumption DEF IInv, Typed, InCall, Taken
      <4>. QED
        BY <4>2, <4>3, <4>4, CountsAreNat, BlockAssumption DEF IInv, Typed
    <3>2. returns[r] < calls[r]
      BY <2>2, BlockAssumption DEF IInv, Typed, InCall, Return, AllClear
    <3>. QED
      BY <2>2, <3>1, <3>2 DEF Return, Abstract!Next, Abstract!Leave
  <2>3. ASSUME NEW r \in Ranks,
               \/ Retry(r) \/ TimeoutTrap(r)
               \/ \E t \in Ranks : AddOwn(r, t) \/ SubPeer(r, t) \/ Load(r, t)
        PROVE  UNCHANGED Abstract!barrierVars
    BY <2>3 DEF Retry, TimeoutTrap, AddOwn, SubPeer, Load, Abstract!barrierVars
  <2>4. CASE UNCHANGED vars
    BY <2>4 DEF vars, Abstract!barrierVars
  <2>. QED
    BY <2>1, <2>2, <2>3, <2>4 DEF Next, RankStep
<1>. QED
  BY <1>1, <1>2, Invariance, PTL DEF Spec, BarrierImplemented, Abstract!Spec

-----------------------------------------------------------------------------
(***************************************************************************)
(* No signal is touched after it was freed, and the barriers of a buffer   *)
(* are barriers whatever its memory held, for any number of ranks and of   *)
(* operations.  The argument is the counting above, with one difference:   *)
(* a memset that runs late may wipe subtractions out, so a signal is at    *)
(* least, and no longer exactly, what the atomics make it.  A signal that  *)
(* is too high may hold a rank back, and never lets it through.            *)
(***************************************************************************)

LifeTyped ==
  /\ Typed
  /\ stage \in [Ranks -> Stages]
  /\ clearing \in SUBSET Ranks

SignalAtLeast ==
  \A r, t \in Ranks :
    Cleared(r) => signal[r][t] >= Tag * (Added(r, t) - Taken(t, r))

\* Barriers are called between sync and destroy, and destroy makes the last.
StageFits ==
  \A r \in Ranks :
    /\ r \in clearing => stage[r] \in {"built", "gathered"}
    /\ stage[r] \in {"new", "built", "gathered"} => calls[r] = 0
    /\ stage[r] \in {"closing", "freed"} => calls[r] = MaxCalls
    /\ stage[r] = "freed" => returns[r] = MaxCalls

LifeIInv ==
  /\ LifeTyped
  /\ InCall
  /\ SignalAtLeast
  /\ ClearMeansTaken
  /\ ReturnsMatched
  /\ StageFits

-----------------------------------------------------------------------------
LEMMA TagTimesNegative ==
  ASSUME NEW n \in Int, n <= 0
  PROVE  Tag * n <= 0
BY BlockAssumption

LEMMA LifeInitIInv == LifeInit => LifeIInv
<1>. SUFFICES ASSUME LifeInit PROVE LifeIInv
  OBVIOUS
<1>1. LifeTyped
  BY BlockAssumption, LeftoversAssumption DEF LifeInit, LifeTyped, Typed, LaneStates, Stages
<1>2. InCall
  BY DEF LifeInit, InCall
<1>3. SignalAtLeast
  BY DEF LifeInit, SignalAtLeast, Cleared
<1>4. ClearMeansTaken /\ ReturnsMatched
  BY DEF LifeInit, ClearMeansTaken, ReturnsMatched, Taken
<1>5. StageFits
  BY DEF LifeInit, StageFits
<1>. QED
  BY <1>1, <1>2, <1>3, <1>4, <1>5 DEF LifeIInv

\* A rank with a lane inside a call works on signals it has cleared.
LEMMA InsideIsCleared ==
  ASSUME LifeIInv, NEW r \in Ranks, NEW t \in Ranks, lane[r][t] # "out"
  PROVE  Cleared(r) /\ stage[r] # "freed" /\ calls[r] = returns[r] + 1
<1>1. calls[r] = returns[r] + 1 /\ returns[r] \in Nat
  BY BlockAssumption DEF LifeIInv, LifeTyped, Typed, InCall
<1>2. stage[r] \notin {"new", "built", "gathered"}
  BY <1>1 DEF LifeIInv, StageFits
<1>3. stage[r] # "freed"
  BY <1>1 DEF LifeIInv, StageFits
<1>. QED
  BY <1>1, <1>2, <1>3 DEF LifeIInv, StageFits, Cleared

\* The hosts' steps that neither call a barrier nor touch a signal.
LEMMA HostOnlyKeeps ==
  ASSUME LifeIInv, NEW r \in Ranks, Construct(r) \/ Gather(r) \/ Sync(r) \/ Free(r)
  PROVE  LifeIInv'
<1>1. UNCHANGED vars
  BY DEF Construct, Gather, Sync, Free
<1>2. LifeTyped'
  BY <1>1 DEF LifeIInv, LifeTyped, Typed, Stages, vars, Construct, Gather, Sync, Free
<1>3. InCall' /\ ClearMeansTaken' /\ ReturnsMatched'
  BY <1>1 DEF LifeIInv, vars, InCall, ClearMeansTaken, ReturnsMatched, Added, Taken
<1>4. \A p \in Ranks : Cleared(p)' => Cleared(p)
  BY DEF LifeIInv, LifeTyped, Cleared, Construct, Gather, Sync, Free
<1>5. SignalAtLeast'
  BY <1>1, <1>4 DEF LifeIInv, vars, SignalAtLeast, Added, Taken
<1>6. StageFits'
  <2>1. SUFFICES ASSUME NEW p \in Ranks
                 PROVE  /\ p \in clearing' => stage'[p] \in {"built", "gathered"}
                        /\ stage'[p] \in {"new", "built", "gathered"} => calls[p] = 0
                        /\ stage'[p] \in {"closing", "freed"} => calls[p] = MaxCalls
                        /\ stage'[p] = "freed" => returns[p] = MaxCalls
    BY <1>1 DEF StageFits, vars
  <2>. QED
    BY <2>1 DEF LifeIInv, LifeTyped, StageFits, Construct, Gather, Sync, Free, DeviceIdle
<1>. QED
  BY <1>2, <1>3, <1>5, <1>6 DEF LifeIInv

\* The memset sets to zero what nobody has raised yet, and what peers may
\* already have lowered.
LEMMA ClearSignalsKeeps ==
  ASSUME LifeIInv, NEW r \in Ranks, ClearSignals(r)
  PROVE  LifeIInv'
<1>. USE BlockAssumption
<1>1. LifeTyped'
  BY DEF LifeIInv, LifeTyped, Typed, ClearSignals
<1>2. InCall' /\ ClearMeansTaken' /\ ReturnsMatched'
  BY DEF LifeIInv, ClearSignals, InCall, ClearMeansTaken, ReturnsMatched, Added, Taken
<1>3. SignalAtLeast'
  <2>1. SUFFICES ASSUME NEW p \in Ranks, NEW q \in Ranks, Cleared(p)'
                 PROVE  signal'[p][q] >= Tag * (Added(p, q) - Taken(q, p))
    BY DEF SignalAtLeast, ClearSignals, Added, Taken
  <2>2. CASE p = r
    <3>1. calls[r] = 0 /\ Taken(q, r) \in Nat
      BY CountsAreNat DEF LifeIInv, LifeTyped, StageFits, ClearSignals
    <3>2. Added(r, q) = 0
      BY <3>1 DEF LifeIInv, LifeTyped, Typed, InCall, Added
    <3>3. signal'[r][q] = 0
      BY DEF LifeIInv, LifeTyped, Typed, ClearSignals
    <3>4. Tag * (Added(r, q) - Taken(q, r)) <= 0
      BY <3>1, <3>2, TagTimesNegative
    <3>. QED
      BY <2>2, <3>3, <3>4
  <2>3. CASE p # r
    BY <2>1, <2>3 DEF LifeIInv, LifeTyped, Typed, SignalAtLeast, Cleared, ClearSignals
  <2>. QED
    BY <2>2, <2>3
<1>4. StageFits'
  BY DEF LifeIInv, LifeTyped, StageFits, ClearSignals
<1>. QED
  BY <1>1, <1>2, <1>3, <1>4 DEF LifeIInv

\* Operate and BeginDestroy call a barrier.
LEMMA LifeCallKeeps ==
  ASSUME LifeIInv, NEW r \in Ranks, Operate(r) \/ BeginDestroy(r)
  PROVE  LifeIInv'
<1>. USE BlockAssumption
<1>1. Call(r) /\ stage[r] = "ready"
  BY DEF Operate, BeginDestroy
<1>2. LifeTyped'
  BY <1>1 DEF LifeIInv, LifeTyped, Typed, Stages, LaneStates, Call, Operate, BeginDestroy
<1>3. InCall'
  BY <1>1 DEF LifeIInv, LifeTyped, Typed, InCall, Call
<1>4. \A p, t \in Ranks : /\ Added(p, t)' = Added(p, t)
                          /\ Taken(p, t)' = Taken(p, t)
  BY <1>1 DEF LifeIInv, LifeTyped, Typed, InCall, Call, Added, Taken
<1>5. \A p \in Ranks : Cleared(p)' => Cleared(p)
  BY DEF LifeIInv, LifeTyped, Cleared, Operate, BeginDestroy
<1>6. SignalAtLeast'
  BY <1>1, <1>4, <1>5 DEF LifeIInv, SignalAtLeast, Call
<1>7. ClearMeansTaken' /\ ReturnsMatched'
  BY <1>1, <1>4 DEF LifeIInv, LifeTyped, Typed, ClearMeansTaken, ReturnsMatched, Call
<1>8. StageFits'
  BY <1>1 DEF LifeIInv, LifeTyped, Typed, StageFits, Call, Operate, BeginDestroy
<1>. QED
  BY <1>2, <1>3, <1>6, <1>7, <1>8 DEF LifeIInv

-----------------------------------------------------------------------------
(* The steps of the device, with the hosts where they are.                 *)

HostsRest == UNCHANGED <<stage, clearing>>

LEMMA LifeAddOwnKeeps ==
  ASSUME LifeIInv, NEW r \in Ranks, NEW t \in Ranks, AddOwn(r, t), HostsRest
  PROVE  LifeIInv'
<1>. USE BlockAssumption
<1>1. LifeTyped' /\ StageFits'
  BY DEF LifeIInv, LifeTyped, Typed, StageFits, HostsRest, AddOwn, LaneStates
<1>2. InCall'
  BY DEF LifeIInv, LifeTyped, Typed, InCall, AddOwn
<1>3. \A p, q \in Ranks :
        /\ Added(p, q)' = IF p = r /\ q = t THEN Added(p, q) + 1 ELSE Added(p, q)
        /\ Taken(p, q)' = Taken(p, q)
  BY DEF LifeIInv, LifeTyped, Typed, AddOwn, Added, Taken
<1>4. SignalAtLeast'
  <2>1. SUFFICES ASSUME NEW p \in Ranks, NEW q \in Ranks, Cleared(p)
                 PROVE  signal'[p][q] >= Tag * (Added(p, q)' - Taken(q, p)')
    BY DEF SignalAtLeast, HostsRest, Cleared
  <2>2. /\ signal[p][q] >= Tag * (Added(p, q) - Taken(q, p))
        /\ signal[p][q] \in Int
        /\ Added(p, q) \in Nat /\ Taken(q, p) \in Nat
    BY <2>1, CountsAreNat DEF LifeIInv, LifeTyped, Typed, SignalAtLeast
  <2>3. CASE p = r /\ q = t
    <3>1. signal'[p][q] = signal[p][q] + Tag
      BY <2>3 DEF LifeIInv, LifeTyped, Typed, AddOwn
    <3>2. Added(p, q)' - Taken(q, p)' = (Added(p, q) - Taken(q, p)) + 1
      BY <1>3, <2>2, <2>3
    <3>. QED
      BY <2>2, <3>1, <3>2, TagArithmetic
  <2>4. CASE ~ (p = r /\ q = t)
    <3>1. signal'[p][q] = signal[p][q]
      BY <2>4 DEF LifeIInv, LifeTyped, Typed, AddOwn
    <3>. QED
      BY <1>3, <2>2, <2>4, <3>1
  <2>. QED
    BY <2>3, <2>4
<1>5. ClearMeansTaken' /\ ReturnsMatched'
  BY <1>3 DEF LifeIInv, LifeTyped, Typed, ClearMeansTaken, ReturnsMatched, AddOwn
<1>. QED
  BY <1>1, <1>2, <1>4, <1>5 DEF LifeIInv

LEMMA LifeSubPeerKeeps ==
  ASSUME LifeIInv, NEW r \in Ranks, NEW t \in Ranks, SubPeer(r, t), HostsRest
  PROVE  LifeIInv'
<1>. USE BlockAssumption
<1>1. LifeTyped' /\ StageFits'
  BY DEF LifeIInv, LifeTyped, Typed, StageFits, HostsRest, SubPeer, LaneStates
<1>2. InCall'
  BY DEF LifeIInv, LifeTyped, Typed, InCall, SubPeer
<1>3. \A p, q \in Ranks :
        /\ Added(p, q)' = Added(p, q)
        /\ Taken(p, q)' = IF p = r /\ q = t THEN Taken(p, q) + 1 ELSE Taken(p, q)
  BY DEF LifeIInv, LifeTyped, Typed, SubPeer, Added, Taken
<1>4. SignalAtLeast'
  <2>1. SUFFICES ASSUME NEW p \in Ranks, NEW q \in Ranks, Cleared(p)
                 PROVE  signal'[p][q] >= Tag * (Added(p, q)' - Taken(q, p)')
    BY DEF SignalAtLeast, HostsRest, Cleared
  <2>2. /\ signal[p][q] >= Tag * (Added(p, q) - Taken(q, p))
        /\ signal[p][q] \in Int
        /\ Added(p, q) \in Nat /\ Taken(q, p) \in Nat
    BY <2>1, CountsAreNat DEF LifeIInv, LifeTyped, Typed, SignalAtLeast
  <2>3. CASE p = t /\ q = r
    <3>1. signal'[p][q] = signal[p][q] - Tag
      BY <2>3 DEF LifeIInv, LifeTyped, Typed, SubPeer
    <3>2. Added(p, q)' - Taken(q, p)' = (Added(p, q) - Taken(q, p)) - 1
      BY <1>3, <2>2, <2>3
    <3>. QED
      BY <2>2, <3>1, <3>2, TagArithmetic
  <2>4. CASE ~ (p = t /\ q = r)
    <3>1. signal'[p][q] = signal[p][q]
      BY <2>4 DEF LifeIInv, LifeTyped, Typed, SubPeer
    <3>. QED
      BY <1>3, <2>2, <2>4, <3>1
  <2>. QED
    BY <2>3, <2>4
<1>5. \A p, q \in Ranks : /\ Taken(p, q) \in Nat /\ Taken(p, q)' \in Nat
                          /\ Taken(p, q) <= Taken(p, q)' /\ Added(p, q) \in Nat
  BY <1>3, CountsAreNat DEF LifeIInv, LifeTyped
<1>6. ClearMeansTaken'
  <2>1. SUFFICES ASSUME NEW p \in Ranks, NEW q \in Ranks, lane'[p][q] = "clear"
                 PROVE  Added(p, q)' <= Taken(q, p)'
    BY DEF ClearMeansTaken
  <2>2. lane[p][q] = "clear"
    BY <2>1 DEF LifeIInv, LifeTyped, Typed, SubPeer
  <2>3. Added(p, q) <= Taken(q, p) /\ Added(p, q)' = Added(p, q)
    BY <1>3, <2>2 DEF LifeIInv, ClearMeansTaken
  <2>. QED
    BY <1>5, <2>3
<1>7. ReturnsMatched'
  <2>1. SUFFICES ASSUME NEW p \in Ranks, NEW q \in Ranks
                 PROVE  returns'[p] <= Taken(q, p)'
    BY DEF ReturnsMatched
  <2>2. returns'[p] = returns[p] /\ returns[p] <= Taken(q, p) /\ returns[p] \in Nat
    BY DEF LifeIInv, LifeTyped, Typed, ReturnsMatched, SubPeer
  <2>. QED
    BY <1>5, <2>2
<1>. QED
  BY <1>1, <1>2, <1>4, <1>6, <1>7 DEF LifeIInv

LEMMA LifeLoadKeeps ==
  ASSUME LifeIInv, NEW r \in Ranks, NEW t \in Ranks, Load(r, t), HostsRest
  PROVE  LifeIInv'
<1>. USE BlockAssumption
<1>1. LifeTyped' /\ StageFits'
  BY DEF LifeIInv, LifeTyped, Typed, StageFits, HostsRest, Load, LaneStates
<1>2. InCall'
  BY DEF LifeIInv, LifeTyped, Typed, InCall, Load
<1>3. \A p, q \in Ranks : /\ Added(p, q)' = Added(p, q)
                          /\ Taken(p, q)' = Taken(p, q)
  BY DEF LifeIInv, LifeTyped, Typed, Load, Added, Taken
<1>4. SignalAtLeast'
  BY <1>3 DEF LifeIInv, SignalAtLeast, HostsRest, Cleared, Load
<1>5. ClearMeansTaken'
  <2>1. SUFFICES ASSUME NEW p \in Ranks, NEW q \in Ranks, lane'[p][q] = "clear"
                 PROVE  Added(p, q) <= Taken(q, p)
    BY <1>3 DEF ClearMeansTaken
  <2>2. CASE p = r /\ q = t
    <3>1. signal[p][q] <= 0
      BY <2>1, <2>2 DEF LifeIInv, LifeTyped, Typed, Load, Released
    <3>2. Cleared(p)
      BY <2>2, InsideIsCleared DEF Load
    <3>3. /\ signal[p][q] >= Tag * (Added(p, q) - Taken(q, p))
          /\ signal[p][q] \in Int
          /\ Added(p, q) \in Nat /\ Taken(q, p) \in Nat
      BY <3>2, CountsAreNat DEF LifeIInv, LifeTyped, Typed, SignalAtLeast
    <3>4. Tag * (Added(p, q) - Taken(q, p)) <= 0
      BY <3>1, <3>3
    <3>. QED
      BY <3>3, <3>4, TagArithmetic
  <2>3. CASE ~ (p = r /\ q = t)
    BY <2>1, <2>3 DEF LifeIInv, LifeTyped, Typed, ClearMeansTaken, Load
  <2>. QED
    BY <2>2, <2>3
<1>6. ReturnsMatched'
  BY <1>3 DEF LifeIInv, ReturnsMatched, Load
<1>. QED
  BY <1>1, <1>2, <1>4, <1>5, <1>6 DEF LifeIInv

LEMMA LifeReturnKeeps ==
  ASSUME LifeIInv, NEW r \in Ranks, Return(r), HostsRest
  PROVE  LifeIInv'
<1>. USE BlockAssumption
<1>1. \A q \in Ranks : lane[r][q] = "clear" /\ Added(r, q) <= Taken(q, r)
  BY DEF Return, AllClear, LifeIInv, ClearMeansTaken
<1>2. stage[r] # "freed" /\ calls[r] = returns[r] + 1
  BY <1>1, InsideIsCleared
<1>3. LifeTyped'
  BY <1>2 DEF LifeIInv, LifeTyped, Typed, HostsRest, Return, LaneStates
<1>4. StageFits'
  BY <1>2 DEF LifeIInv, LifeTyped, Typed, StageFits, HostsRest, Return
<1>5. InCall'
  BY <1>2 DEF LifeIInv, LifeTyped, Typed, InCall, Return
<1>6. \A p, q \in Ranks : /\ Added(p, q)' = Added(p, q)
                          /\ Taken(p, q)' = Taken(p, q)
  BY <1>1 DEF LifeIInv, LifeTyped, Typed, Return, Added, Taken
<1>7. SignalAtLeast'
  BY <1>6 DEF LifeIInv, SignalAtLeast, HostsRest, Cleared, Return
<1>8. ClearMeansTaken'
  BY <1>6 DEF LifeIInv, LifeTyped, Typed, ClearMeansTaken, Return
<1>9. ReturnsMatched'
  <2>1. SUFFICES ASSUME NEW p \in Ranks, NEW q \in Ranks
                 PROVE  returns'[p] <= Taken(q, p)
    BY <1>6 DEF ReturnsMatched
  <2>2. CASE p = r
    <3>1. Added(r, q) = returns[r] + 1 /\ returns'[r] = returns[r] + 1
      BY <1>1 DEF LifeIInv, LifeTyped, Typed, Added, Return
    <3>. QED
      BY <1>1, <2>2, <3>1
  <2>3. CASE p # r
    BY <2>3 DEF LifeIInv, LifeTyped, Typed, ReturnsMatched, Return
  <2>. QED
    BY <2>2, <2>3
<1>. QED
  BY <1>3, <1>4, <1>5, <1>7, <1>8, <1>9 DEF LifeIInv

LEMMA LifeRetryKeeps ==
  ASSUME LifeIInv, NEW r \in Ranks, Retry(r), HostsRest
  PROVE  LifeIInv'
<1>1. LifeTyped' /\ StageFits'
  BY DEF LifeIInv, LifeTyped, Typed, StageFits, HostsRest, Retry, LaneStates
<1>2. InCall'
  BY DEF LifeIInv, LifeTyped, Typed, InCall, Retry, PassDone
<1>3. \A p, q \in Ranks : /\ Added(p, q)' = Added(p, q)
                          /\ Taken(p, q)' = Taken(p, q)
  BY DEF LifeIInv, LifeTyped, Typed, Retry, PassDone, Added, Taken
<1>4. SignalAtLeast'
  BY <1>3 DEF LifeIInv, SignalAtLeast, HostsRest, Cleared, Retry
<1>5. ClearMeansTaken' /\ ReturnsMatched'
  BY <1>3 DEF LifeIInv, LifeTyped, Typed, ClearMeansTaken, ReturnsMatched, Retry
<1>. QED
  BY <1>1, <1>2, <1>4, <1>5 DEF LifeIInv

LEMMA LifeFrameKeeps ==
  ASSUME LifeIInv, UNCHANGED <<calls, returns, signal, lane, stage, clearing>>,
         trapped' \in SUBSET Ranks
  PROVE  LifeIInv'
BY DEF LifeIInv, LifeTyped, Typed, InCall, SignalAtLeast, Cleared, ClearMeansTaken,
       ReturnsMatched, StageFits, Added, Taken

LEMMA LifeNextKeeps == LifeIInv /\ [LifeNext]_lifeVars => LifeIInv'
<1>. SUFFICES ASSUME LifeIInv, [LifeNext]_lifeVars PROVE LifeIInv'
  OBVIOUS
<1>1. ASSUME NEW r \in Ranks, HostStep(r) PROVE LifeIInv'
  BY <1>1, HostOnlyKeeps, LifeCallKeeps DEF HostStep
<1>2. ASSUME NEW r \in Ranks, ClearSignals(r) PROVE LifeIInv'
  BY <1>2, ClearSignalsKeeps
<1>3. ASSUME NEW r \in Ranks, RankStep(r), HostsRest PROVE LifeIInv'
  <2>1. CASE Return(r)
    BY <1>3, <2>1, LifeReturnKeeps
  <2>2. CASE Retry(r)
    BY <1>3, <2>2, LifeRetryKeeps
  <2>3. ASSUME NEW t \in Ranks, AddOwn(r, t) \/ SubPeer(r, t) \/ Load(r, t)
        PROVE  LifeIInv'
    BY <1>3, <2>3, LifeAddOwnKeeps, LifeSubPeerKeeps, LifeLoadKeeps
  <2>. QED
    BY <1>3, <2>1, <2>2, <2>3 DEF RankStep
<1>4. ASSUME NEW r \in Ranks, TimeoutTrap(r), HostsRest PROVE LifeIInv'
  <2>1. trapped' \in SUBSET Ranks
    BY <1>4 DEF LifeIInv, LifeTyped, Typed, TimeoutTrap
  <2>. QED
    BY <1>4, <2>1, LifeFrameKeeps DEF TimeoutTrap, HostsRest
<1>5. CASE UNCHANGED lifeVars
  BY <1>5, LifeFrameKeeps DEF lifeVars, vars, LifeIInv, LifeTyped, Typed
<1>. QED
  BY <1>1, <1>2, <1>3, <1>4, <1>5 DEF LifeNext, DeviceStep, HostsRest

(***************************************************************************)
(* The counting holds throughout the life of the buffer.                   *)
(***************************************************************************)
THEOREM LifeInvariance == LifeSpec => []LifeIInv
<1>. QED
  BY LifeInitIInv, LifeNextKeeps, PTL DEF LifeSpec

(***************************************************************************)
(* Buffer::destroy frees its memory only when no peer has an atomic on it  *)
(* left to do: the rank has returned from its last barrier, so every peer  *)
(* has done as many subtractions on its signals as there are calls.        *)
(***************************************************************************)
THEOREM FreedIsUntouched == LifeSpec => []NoUseAfterFree
<1>1. LifeIInv => NoUseAfterFree
  <2>1. SUFFICES ASSUME LifeIInv, NEW r \in Ranks, NEW t \in Ranks, stage[t] = "freed"
                 PROVE  lane[r][t] \notin {"add", "sub"} /\ lane[t][r] = "out"
    BY DEF NoUseAfterFree
  <2>2. lane[t][r] = "out"
    BY <2>1, InsideIsCleared
  <2>3. MaxCalls <= Taken(r, t)
    BY <2>1 DEF LifeIInv, StageFits, ReturnsMatched
  <2>4. lane[r][t] \in {"add", "sub"} => Taken(r, t) < MaxCalls
    <3>1. SUFFICES ASSUME lane[r][t] \in {"add", "sub"} PROVE Taken(r, t) < MaxCalls
      OBVIOUS
    <3>2. Taken(r, t) = returns[r] /\ calls[r] = returns[r] + 1
      BY <2>1, <3>1, InsideIsCleared, BlockAssumption
         DEF Taken, LifeIInv, LifeTyped, Typed
    <3>. QED
      BY <2>1, <3>2, BlockAssumption DEF LifeIInv, LifeTyped, Typed
  <2>5. Taken(r, t) \in Nat
    BY <2>1, CountsAreNat DEF LifeIInv, LifeTyped
  <2>. QED
    BY <2>2, <2>3, <2>4, <2>5, BlockAssumption
<1>. QED
  BY <1>1, LifeInvariance, PTL

(***************************************************************************)
(* Over the whole life of a buffer its barriers are barriers: whatever the *)
(* memory held, and whatever a late memset has wiped out, no rank leaves a *)
(* call that some rank has not entered.                                    *)
(***************************************************************************)
THEOREM LifeImplementsBarrier == LifeSpec => BarrierFromFreshMemory
<1>1. LifeInit => Abstract!Init
  BY DEF LifeInit, Abstract!Init
<1>2. LifeIInv /\ [LifeNext]_lifeVars => [Abstract!Next]_Abstract!barrierVars
  <2>. SUFFICES ASSUME LifeIInv, [LifeNext]_lifeVars
                PROVE  Abstract!Next \/ UNCHANGED Abstract!barrierVars
    OBVIOUS
  <2>1. ASSUME NEW r \in Ranks, Call(r) PROVE Abstract!Next
    BY <2>1 DEF Call, Abstract!Next, Abstract!Enter
  <2>2. ASSUME NEW r \in Ranks, Return(r) PROVE Abstract!Next
    <3>1. ASSUME NEW q \in Ranks
          PROVE  calls[q] >= calls[r] /\ calls[r] = returns[r] + 1
      <4>1. lane[r][q] = "clear"
        BY <2>2 DEF Return, AllClear
      <4>2. Added(r, q) <= Taken(q, r)
        BY <4>1 DEF LifeIInv, ClearMeansTaken
      <4>3. Added(r, q) = calls[r]
        BY <4>1 DEF LifeIInv, InCall, Added
      <4>4. Taken(q, r) <= calls[q]
        BY BlockAssumption DEF LifeIInv, LifeTyped, Typed, InCall, Taken
      <4>5. calls[r] = returns[r] + 1
        BY <4>1, InsideIsCleared
      <4>. QED
        BY <4>2, <4>3, <4>4, <4>5, CountsAreNat, BlockAssumption
           DEF LifeIInv, LifeTyped, Typed
    <3>2. returns[r] < calls[r]
      BY <3>1, BlockAssumption DEF LifeIInv, LifeTyped, Typed
    <3>. QED
      BY <2>2, <3>1, <3>2 DEF Return, Abstract!Next, Abstract!Leave
  <2>3. ASSUME NEW r \in Ranks,
               \/ Construct(r) \/ ClearSignals(r) \/ Gather(r) \/ Sync(r) \/ Free(r)
               \/ Retry(r) \/ TimeoutTrap(r)
               \/ \E t \in Ranks : AddOwn(r, t) \/ SubPeer(r, t) \/ Load(r, t)
        PROVE  UNCHANGED Abstract!barrierVars
    BY <2>3 DEF Construct, ClearSignals, Gather, Sync, Free, Retry, TimeoutTrap,
                AddOwn, SubPeer, Load, vars, Abstract!barrierVars
  <2>4. CASE UNCHANGED lifeVars
    BY <2>4 DEF lifeVars, vars, Abstract!barrierVars
  <2>. QED
    BY <2>1, <2>2, <2>3, <2>4
       DEF LifeNext, HostStep, DeviceStep, RankStep, Operate, BeginDestroy
<1>. QED
  BY <1>1, <1>2, LifeInvariance, PTL
     DEF LifeSpec, BarrierFromFreshMemory, BarrierImplemented, Abstract!Spec
-----------------------------------------------------------------------------
(***************************************************************************)
(* What a signal holds exactly.  The memset of a rank wipes out w          *)
(* subtractions of a peer, at most one, since a peer that waits in its     *)
(* first barrier cannot have made two.  A rank that has seen the signal    *)
(* clear has been overtaken by that many more.                             *)
(***************************************************************************)
WipedOut(r, t, w) ==
  /\ signal[r][t] = Tag * (Added(r, t) - Taken(t, r) + w)
  /\ returns[r] + w <= Taken(t, r)
  /\ lane[r][t] = "clear" => Added(r, t) + w <= Taken(t, r)

Uncleared(r, t, v) == Taken(t, r) <= 1 /\ signal[r][t] = v - Tag * Taken(t, r)

SignalsOK ==
  \A r, t \in Ranks :
    IF Cleared(r) THEN \E w \in {0, 1} : WipedOut(r, t, w)
                  ELSE \E v \in Leftovers : Uncleared(r, t, v)

\* A rank that has not cleared its signals is in no barrier, so that no peer
\* has left its first one.
LEMMA UnclearedIsFirst ==
  ASSUME LifeIInv, NEW r \in Ranks, NEW t \in Ranks,
         stage[r] \in {"new", "built", "gathered"}
  PROVE  /\ calls[r] = 0 /\ returns[r] = 0 /\ returns[t] = 0 /\ Taken(t, r) \in {0, 1}
         /\ Added(r, t) = 0 /\ lane[r][t] = "out"
<1>1. calls[r] = 0 /\ returns[r] = 0 /\ lane[r][t] = "out" /\ lane[r][r] = "out"
  BY BlockAssumption DEF LifeIInv, LifeTyped, Typed, StageFits, InCall
<1>2. Taken(r, t) = 0 /\ Added(r, t) = 0
  BY <1>1 DEF Taken, Added
<1>3. returns[t] <= Taken(r, t)
  BY DEF LifeIInv, ReturnsMatched
<1>4. returns[t] = 0
  BY <1>2, <1>3, BlockAssumption DEF LifeIInv, LifeTyped, Typed
<1>. QED
  BY <1>1, <1>2, <1>4 DEF Taken

LEMMA DirtyStage ==
  ASSUME LifeIInv, NEW r \in Ranks, ~ Cleared(r)
  PROVE  stage[r] \in {"new", "built", "gathered"}
BY DEF LifeIInv, StageFits, Cleared

LEMMA InitSignals == LifeInit => SignalsOK
<1>. SUFFICES ASSUME LifeInit, NEW r \in Ranks, NEW t \in Ranks
              PROVE  ~ Cleared(r) /\ \E v \in Leftovers : Uncleared(r, t, v)
  BY DEF SignalsOK
<1>1. ~ Cleared(r) /\ Taken(t, r) = 0
  BY DEF LifeInit, Cleared, Taken
<1>2. PICK v \in Leftovers : signal[r] = [q \in Ranks |-> v]
  BY DEF LifeInit
<1>3. signal[r][t] = v - Tag * 0
  BY <1>2, BlockAssumption, LeftoversAssumption
<1>. QED
  BY <1>1, <1>3 DEF Uncleared

\* A step that changes no count and no signal.
LEMMA SameCountsKeep ==
  ASSUME LifeIInv, SignalsOK, UNCHANGED <<signal, returns>>,
         \A p, q \in Ranks : Added(p, q)' = Added(p, q) /\ Taken(p, q)' = Taken(p, q),
         \A p \in Ranks : Cleared(p)' <=> Cleared(p),
         \A p, q \in Ranks : lane'[p][q] = "clear" => lane[p][q] = "clear"
  PROVE  SignalsOK'
<1>. SUFFICES ASSUME NEW r \in Ranks, NEW t \in Ranks
              PROVE  IF Cleared(r) THEN \E w \in {0, 1} : WipedOut(r, t, w)'
                                   ELSE \E v \in Leftovers : Uncleared(r, t, v)'
  BY DEF SignalsOK
<1>1. ASSUME NEW w, WipedOut(r, t, w) PROVE WipedOut(r, t, w)'
  BY <1>1 DEF WipedOut
<1>2. ASSUME NEW v, Uncleared(r, t, v) PROVE Uncleared(r, t, v)'
  BY <1>2 DEF Uncleared
<1>. QED
  BY <1>1, <1>2 DEF SignalsOK

LEMMA HostKeepsSignals ==
  ASSUME LifeIInv, SignalsOK, NEW r \in Ranks,
         \/ Construct(r) \/ Gather(r) \/ Sync(r) \/ Free(r)
         \/ Operate(r) \/ BeginDestroy(r)
  PROVE  SignalsOK'
<1>1. CASE Construct(r) \/ Gather(r) \/ Sync(r) \/ Free(r)
  <2>1. UNCHANGED vars
    BY <1>1 DEF Construct, Gather, Sync, Free
  <2>2. \A p \in Ranks : Cleared(p)' <=> Cleared(p)
    BY <1>1 DEF LifeIInv, LifeTyped, Stages, Cleared, Construct, Gather, Sync, Free
  <2>. QED
    BY <2>1, <2>2, SameCountsKeep DEF vars, Added, Taken
<1>2. CASE Operate(r) \/ BeginDestroy(r)
  <2>1. Call(r) /\ stage[r] = "ready" /\ clearing' = clearing
    BY <1>2 DEF Operate, BeginDestroy
  <2>2. \A p, q \in Ranks : Added(p, q)' = Added(p, q) /\ Taken(p, q)' = Taken(p, q)
    BY <2>1, BlockAssumption DEF LifeIInv, LifeTyped, Typed, InCall, Call, Added, Taken
  <2>3. \A p, q \in Ranks : lane'[p][q] = "clear" => lane[p][q] = "clear"
    BY <2>1 DEF LifeIInv, LifeTyped, Typed, Call
  <2>4. \A p \in Ranks : Cleared(p)' <=> Cleared(p)
    BY <1>2, <2>1 DEF LifeIInv, LifeTyped, Cleared, Operate, BeginDestroy
  <2>. QED
    BY <2>1, <2>2, <2>3, <2>4, SameCountsKeep DEF Call
<1>. QED
  BY <1>1, <1>2

LEMMA MemsetKeepsSignals ==
  ASSUME LifeIInv, SignalsOK, NEW r \in Ranks, ClearSignals(r)
  PROVE  SignalsOK'
<1>1. stage[r] \in {"built", "gathered"} /\ r \in clearing
  BY DEF LifeIInv, StageFits, ClearSignals
<1>2. \A p, q \in Ranks : /\ Added(p, q)' = Added(p, q) /\ Taken(p, q)' = Taken(p, q)
                          /\ returns'[p] = returns[p] /\ lane'[p][q] = lane[p][q]
  BY DEF ClearSignals, Added, Taken
<1>. SUFFICES ASSUME NEW p \in Ranks, NEW t \in Ranks
              PROVE  IF Cleared(p)' THEN \E w \in {0, 1} : WipedOut(p, t, w)'
                                    ELSE \E v \in Leftovers : Uncleared(p, t, v)'
  BY DEF SignalsOK
<1>3. CASE p = r
  <2>0. PICK w \in {0, 1} : w = Taken(t, r)
    BY <1>1, UnclearedIsFirst
  <2>1. w = Taken(t, r) /\ returns[r] = 0 /\ Added(r, t) = 0 /\ lane[r][t] = "out"
    BY <1>1, <2>0, UnclearedIsFirst
  <2>2. Cleared(r)' /\ signal'[r][t] = 0
    BY <1>1 DEF LifeIInv, LifeTyped, Typed, ClearSignals, Cleared
  <2>3. Tag * (0 - w + w) = 0
    <3>1. 0 - w + w = 0
      BY <2>1
    <3>. QED
      BY <3>1, TagArithmetic
  <2>4. WipedOut(r, t, w)'
    <3>1. Taken(t, r)' = w /\ Added(r, t)' = 0 /\ returns'[r] = 0 /\ lane'[r][t] = "out"
      BY <1>2, <2>1
    <3>2. signal'[r][t] = Tag * (Added(r, t)' - Taken(t, r)' + w)
      BY <2>2, <2>3, <3>1
    <3>3. returns'[r] + w <= Taken(t, r)'
      BY <3>1
    <3>. QED
      BY <3>1, <3>2, <3>3 DEF WipedOut
  <2>. QED
    BY <1>3, <2>1, <2>2, <2>4
<1>4. CASE p # r
  <2>1. signal'[p][t] = signal[p][t] /\ (Cleared(p)' <=> Cleared(p))
    BY <1>4 DEF LifeIInv, LifeTyped, Typed, ClearSignals, Cleared
  <2>2. ASSUME NEW w, WipedOut(p, t, w) PROVE WipedOut(p, t, w)'
    BY <1>2, <2>1, <2>2 DEF WipedOut
  <2>3. ASSUME NEW v, Uncleared(p, t, v) PROVE Uncleared(p, t, v)'
    BY <1>2, <2>1, <2>3 DEF Uncleared
  <2>. QED
    BY <2>1, <2>2, <2>3 DEF SignalsOK
<1>. QED
  BY <1>3, <1>4

LEMMA AddOwnKeepsSignals ==
  ASSUME LifeIInv, SignalsOK, NEW r \in Ranks, NEW t \in Ranks, AddOwn(r, t), HostsRest
  PROVE  SignalsOK'
<1>1. \A p, q \in Ranks :
        /\ Added(p, q)' = IF p = r /\ q = t THEN Added(p, q) + 1 ELSE Added(p, q)
        /\ Taken(p, q)' = Taken(p, q)
  BY BlockAssumption DEF LifeIInv, LifeTyped, Typed, AddOwn, Added, Taken
<1>2. lane[r][t] = "add" /\ Cleared(r)
  BY InsideIsCleared DEF AddOwn
<1>3. \A p \in Ranks : (Cleared(p)' <=> Cleared(p)) /\ returns'[p] = returns[p]
  BY DEF HostsRest, Cleared, AddOwn
<1>4. \A p, q \in Ranks : Added(p, q) \in Nat /\ Taken(p, q) \in Nat
  BY CountsAreNat DEF LifeIInv, LifeTyped
<1>. SUFFICES ASSUME NEW p \in Ranks, NEW q \in Ranks
              PROVE  IF Cleared(p) THEN \E w \in {0, 1} : WipedOut(p, q, w)'
                                   ELSE \E v \in Leftovers : Uncleared(p, q, v)'
  BY <1>3 DEF SignalsOK
<1>5. CASE p = r /\ q = t
  <2>1. PICK w \in {0, 1} : WipedOut(r, t, w)
    BY <1>2 DEF SignalsOK
  <2>2. signal'[r][t] = signal[r][t] + Tag /\ lane'[r][t] = "sub"
    BY DEF LifeIInv, LifeTyped, Typed, AddOwn
  <2>. DEFINE n == Added(r, t) - Taken(t, r) + w
  <2>3. n \in Int /\ signal[r][t] = Tag * n /\ (Added(r, t) + 1) - Taken(t, r) + w = n + 1
    BY <1>4, <2>1 DEF WipedOut
  <2>. HIDE DEF n
  <2>4. signal'[r][t] = Tag * ((Added(r, t) + 1) - Taken(t, r) + w)
    BY <2>2, <2>3, TagArithmetic
  <2>5. WipedOut(r, t, w)'
    BY <1>1, <1>3, <2>1, <2>2, <2>4 DEF WipedOut
  <2>. QED
    BY <1>2, <1>5, <2>5
<1>6. CASE ~ (p = r /\ q = t)
  <2>1. signal'[p][q] = signal[p][q] /\ lane'[p][q] = lane[p][q]
    BY <1>6 DEF LifeIInv, LifeTyped, Typed, AddOwn
  <2>2. ASSUME NEW w, WipedOut(p, q, w) PROVE WipedOut(p, q, w)'
    BY <1>1, <1>3, <1>6, <2>1, <2>2 DEF WipedOut
  <2>3. ASSUME NEW v, Uncleared(p, q, v) PROVE Uncleared(p, q, v)'
    BY <1>1, <2>1, <2>3 DEF Uncleared
  <2>. QED
    BY <2>2, <2>3 DEF SignalsOK
<1>. QED
  BY <1>5, <1>6

LEMMA SubPeerKeepsSignals ==
  ASSUME LifeIInv, SignalsOK, NEW r \in Ranks, NEW t \in Ranks, SubPeer(r, t), HostsRest
  PROVE  SignalsOK'
<1>1. \A p, q \in Ranks :
        /\ Added(p, q)' = Added(p, q)
        /\ Taken(p, q)' = IF p = r /\ q = t THEN Taken(p, q) + 1 ELSE Taken(p, q)
  BY BlockAssumption DEF LifeIInv, LifeTyped, Typed, SubPeer, Added, Taken
<1>2. lane[r][t] = "sub" /\ Taken(r, t) = returns[r]
  BY BlockAssumption DEF SubPeer, Taken, LifeIInv, LifeTyped, Typed
<1>3. \A p, q \in Ranks : /\ (Cleared(p)' <=> Cleared(p)) /\ returns'[p] = returns[p]
                          /\ lane'[p][q] = "clear" => lane[p][q] = "clear"
  BY DEF LifeIInv, LifeTyped, Typed, HostsRest, Cleared, SubPeer
<1>4. \A p, q \in Ranks : Added(p, q) \in Nat /\ Taken(p, q) \in Nat /\ returns[p] \in Nat
  BY CountsAreNat, BlockAssumption DEF LifeIInv, LifeTyped, Typed
<1>. SUFFICES ASSUME NEW p \in Ranks, NEW q \in Ranks
              PROVE  IF Cleared(p) THEN \E w \in {0, 1} : WipedOut(p, q, w)'
                                   ELSE \E v \in Leftovers : Uncleared(p, q, v)'
  BY <1>3 DEF SignalsOK
<1>5. CASE p = t /\ q = r
  <2>1. signal'[t][r] = signal[t][r] - Tag /\ Taken(r, t)' = Taken(r, t) + 1
        /\ Added(t, r)' = Added(t, r) /\ returns'[t] = returns[t]
        /\ (lane'[t][r] = "clear" => lane[t][r] = "clear")
    BY <1>1, <1>3 DEF LifeIInv, LifeTyped, Typed, SubPeer
  <2>2. CASE Cleared(t)
    <3>1. PICK w \in {0, 1} : WipedOut(t, r, w)
      BY <2>2 DEF SignalsOK
    <3>. DEFINE n == Added(t, r) - Taken(r, t) + w
    <3>2. n \in Int /\ signal[t][r] = Tag * n /\ Added(t, r) - (Taken(r, t) + 1) + w = n - 1
      BY <1>4, <3>1 DEF WipedOut
    <3>. HIDE DEF n
    <3>3. signal'[t][r] = Tag * (Added(t, r) - (Taken(r, t) + 1) + w)
      BY <2>1, <3>2, TagArithmetic
    <3>4. /\ returns[t] + w <= Taken(r, t) + 1
          /\ lane'[t][r] = "clear" => Added(t, r) + w <= Taken(r, t) + 1
      BY <1>4, <2>1, <3>1 DEF WipedOut
    <3>5. WipedOut(t, r, w)'
      BY <2>1, <3>3, <3>4 DEF WipedOut
    <3>. QED
      BY <1>5, <2>2, <3>5
  <2>3. CASE ~ Cleared(t)
    <3>1. PICK v \in Leftovers : Uncleared(t, r, v)
      BY <2>3 DEF SignalsOK
    <3>2. Taken(r, t) = 0
      BY <1>2, <2>3, DirtyStage, UnclearedIsFirst
    <3>3. signal[t][r] = v - Tag * 0 /\ v \in Int
      BY <3>1, <3>2, LeftoversAssumption DEF Uncleared
    <3>4. signal'[t][r] = v - Tag * 1
      BY <2>1, <3>3, TagArithmetic, BlockAssumption
    <3>5. Uncleared(t, r, v)'
      BY <2>1, <3>2, <3>4 DEF Uncleared
    <3>. QED
      BY <1>5, <2>3, <3>5
  <2>. QED
    BY <2>2, <2>3
<1>6. CASE ~ (p = t /\ q = r)
  <2>1. /\ signal'[p][q] = signal[p][q] /\ Taken(q, p)' = Taken(q, p)
        /\ Added(p, q)' = Added(p, q) /\ returns'[p] = returns[p]
        /\ (lane'[p][q] = "clear" => lane[p][q] = "clear")
    BY <1>1, <1>3, <1>6 DEF LifeIInv, LifeTyped, Typed, SubPeer
  <2>2. ASSUME NEW w, WipedOut(p, q, w) PROVE WipedOut(p, q, w)'
    BY <2>1, <2>2 DEF WipedOut
  <2>3. ASSUME NEW v, Uncleared(p, q, v) PROVE Uncleared(p, q, v)'
    BY <2>1, <2>3 DEF Uncleared
  <2>. QED
    BY <2>2, <2>3 DEF SignalsOK
<1>. QED
  BY <1>5, <1>6

LEMMA LoadKeepsSignals ==
  ASSUME LifeIInv, SignalsOK, NEW r \in Ranks, NEW t \in Ranks, Load(r, t), HostsRest
  PROVE  SignalsOK'
<1>1. \A p, q \in Ranks :
        /\ Added(p, q)' = Added(p, q) /\ Taken(p, q)' = Taken(p, q)
        /\ signal'[p][q] = signal[p][q] /\ returns'[p] = returns[p]
        /\ (Cleared(p)' <=> Cleared(p))
        /\ Added(p, q) \in Nat /\ Taken(p, q) \in Nat
  BY CountsAreNat, BlockAssumption
     DEF LifeIInv, LifeTyped, Typed, Load, Added, Taken, HostsRest, Cleared
<1>. SUFFICES ASSUME NEW p \in Ranks, NEW q \in Ranks
              PROVE  IF Cleared(p) THEN \E w \in {0, 1} : WipedOut(p, q, w)'
                                   ELSE \E v \in Leftovers : Uncleared(p, q, v)'
  BY <1>1 DEF SignalsOK
<1>2. ASSUME NEW v, Uncleared(p, q, v) PROVE Uncleared(p, q, v)'
  BY <1>1, <1>2 DEF Uncleared
<1>3. ASSUME NEW w \in {0, 1}, WipedOut(p, q, w) PROVE WipedOut(p, q, w)'
  <2>1. ASSUME lane'[p][q] = "clear" PROVE Added(p, q) + w <= Taken(q, p)
    <3>1. CASE p = r /\ q = t
      <4>1. signal[p][q] <= 0
        BY <2>1, <3>1 DEF LifeIInv, LifeTyped, Typed, Load, Released
      <4>. DEFINE n == Added(p, q) - Taken(q, p) + w
      <4>2. n \in Int /\ Tag * n <= 0
        BY <1>1, <1>3, <4>1 DEF WipedOut
      <4>3. n <= 0
        <5>. HIDE DEF n
        <5>. QED
          BY <4>2, TagArithmetic
      <4>. QED
        BY <1>1, <4>3
    <3>2. CASE ~ (p = r /\ q = t)
      <4>1. lane[p][q] = "clear"
        BY <2>1, <3>2 DEF LifeIInv, LifeTyped, Typed, Load
      <4>. QED
        BY <1>3, <4>1 DEF WipedOut
    <3>. QED
      BY <3>1, <3>2
  <2>. QED
    BY <1>1, <1>3, <2>1 DEF WipedOut
<1>. QED
  BY <1>2, <1>3 DEF SignalsOK

LEMMA ReturnKeepsSignals ==
  ASSUME LifeIInv, SignalsOK, NEW r \in Ranks, Return(r), HostsRest
  PROVE  SignalsOK'
<1>1. \A p, q \in Ranks : Added(p, q)' = Added(p, q) /\ Taken(p, q)' = Taken(p, q)
  BY BlockAssumption DEF LifeIInv, LifeTyped, Typed, Return, AllClear, Added, Taken
<1>2. \A p, q \in Ranks : signal'[p][q] = signal[p][q] /\ (Cleared(p)' <=> Cleared(p))
  BY DEF Return, HostsRest, Cleared
<1>. SUFFICES ASSUME NEW p \in Ranks, NEW q \in Ranks
              PROVE  IF Cleared(p) THEN \E w \in {0, 1} : WipedOut(p, q, w)'
                                   ELSE \E v \in Leftovers : Uncleared(p, q, v)'
  BY <1>2 DEF SignalsOK
<1>3. ASSUME NEW v, Uncleared(p, q, v) PROVE Uncleared(p, q, v)'
  BY <1>1, <1>2, <1>3 DEF Uncleared
<1>4. ASSUME NEW w \in {0, 1}, WipedOut(p, q, w) PROVE WipedOut(p, q, w)'
  <2>1. CASE p = r
    <3>1. lane[r][q] = "clear" /\ lane'[r][q] = "out" /\ returns'[r] = returns[r] + 1
      BY DEF LifeIInv, LifeTyped, Typed, Return, AllClear
    <3>2. Added(r, q) = returns[r] + 1
      BY <3>1 DEF Added
    <3>. QED
      BY <1>1, <1>2, <1>4, <2>1, <3>1, <3>2 DEF WipedOut
  <2>2. CASE p # r
    <3>1. lane'[p][q] = lane[p][q] /\ returns'[p] = returns[p]
      BY <2>2 DEF LifeIInv, LifeTyped, Typed, Return
    <3>. QED
      BY <1>1, <1>2, <1>4, <3>1 DEF WipedOut
  <2>. QED
    BY <2>1, <2>2
<1>. QED
  BY <1>3, <1>4 DEF SignalsOK

LEMMA NextKeepsSignals == LifeIInv /\ SignalsOK /\ [LifeNext]_lifeVars => SignalsOK'
<1>. SUFFICES ASSUME LifeIInv, SignalsOK, [LifeNext]_lifeVars PROVE SignalsOK'
  OBVIOUS
<1>1. ASSUME NEW r \in Ranks, HostStep(r) PROVE SignalsOK'
  BY <1>1, HostKeepsSignals DEF HostStep
<1>2. ASSUME NEW r \in Ranks, ClearSignals(r) PROVE SignalsOK'
  BY <1>2, MemsetKeepsSignals
<1>3. ASSUME NEW r \in Ranks, RankStep(r), HostsRest PROVE SignalsOK'
  <2>1. CASE Return(r)
    BY <1>3, <2>1, ReturnKeepsSignals
  <2>2. CASE Retry(r)
    <3>1. \A p, q \in Ranks : /\ Added(p, q)' = Added(p, q) /\ Taken(p, q)' = Taken(p, q)
                              /\ lane'[p][q] = "clear" => lane[p][q] = "clear"
      BY <2>2 DEF LifeIInv, LifeTyped, Typed, Retry, PassDone, Added, Taken
    <3>2. \A p \in Ranks : Cleared(p)' <=> Cleared(p)
      BY <1>3 DEF HostsRest, Cleared
    <3>. QED
      BY <2>2, <3>1, <3>2, SameCountsKeep DEF Retry
  <2>3. ASSUME NEW t \in Ranks, AddOwn(r, t) \/ SubPeer(r, t) \/ Load(r, t)
        PROVE  SignalsOK'
    BY <1>3, <2>3, AddOwnKeepsSignals, SubPeerKeepsSignals, LoadKeepsSignals
  <2>. QED
    BY <1>3, <2>1, <2>2, <2>3 DEF RankStep
<1>4. ASSUME UNCHANGED <<calls, returns, signal, lane, stage, clearing>> PROVE SignalsOK'
  BY <1>4, SameCountsKeep DEF Added, Taken, Cleared
<1>5. ASSUME NEW r \in Ranks, TimeoutTrap(r), HostsRest PROVE SignalsOK'
  BY <1>4, <1>5 DEF TimeoutTrap, HostsRest
<1>6. CASE UNCHANGED lifeVars
  BY <1>4, <1>6 DEF lifeVars, vars
<1>. QED
  BY <1>1, <1>2, <1>3, <1>5, <1>6 DEF LifeNext, DeviceStep, HostsRest

(***************************************************************************)
(* Throughout the life of a buffer its state is as LifeTypeOK says; that a *)
(* cleared signal is -Tag, 0 or Tag takes the exact count of what the late *)
(* memset wiped out.                                                       *)
(***************************************************************************)
THEOREM LifeTypes == LifeSpec => []LifeTypeOK
<1>1. LifeIInv /\ SignalsOK => LifeTypeOK
  <2>. SUFFICES ASSUME LifeIInv, SignalsOK PROVE LifeTypeOK
    OBVIOUS
  <2>1. ASSUME NEW r \in Ranks, NEW t \in Ranks, Cleared(r)
        PROVE  signal[r][t] \in {-Tag, 0, Tag}
    <3>1. PICK w \in {0, 1} : WipedOut(r, t, w)
      BY <2>1 DEF SignalsOK
    <3>2. /\ returns[r] \in Nat /\ returns[t] \in Nat
          /\ Added(r, t) \in {returns[r], returns[r] + 1}
          /\ Taken(r, t) \in Nat /\ Taken(r, t) <= Added(r, t)
          /\ Taken(t, r) \in {returns[t], returns[t] + 1}
      BY CountsAreNat, BlockAssumption DEF LifeIInv, LifeTyped, Typed, Added, Taken
    <3>3. returns[t] <= Taken(r, t)
      BY DEF LifeIInv, ReturnsMatched
    <3>. DEFINE n == Added(r, t) - Taken(t, r) + w
    <3>4. n \in {-1, 0, 1} /\ signal[r][t] = Tag * n
      BY <3>1, <3>2, <3>3 DEF WipedOut
    <3>. QED
      BY <3>4, TagArithmetic
  <2>2. ASSUME NEW r \in Ranks, NEW t \in Ranks, ~ Cleared(r)
        PROVE  signal[r][t] \in Leftovers \cup {v - Tag : v \in Leftovers}
    <3>1. PICK v \in Leftovers : Uncleared(r, t, v)
      BY <2>2 DEF SignalsOK
    <3>2. Taken(t, r) \in {0, 1} /\ v \in Int
      BY <2>2, DirtyStage, UnclearedIsFirst, LeftoversAssumption
    <3>3. signal[r][t] = v \/ signal[r][t] = v - Tag
      BY <3>1, <3>2, TagArithmetic DEF Uncleared
    <3>. QED
      BY <3>3
  <2>. QED
    BY <2>1, <2>2 DEF LifeTypeOK, LifeIInv, LifeTyped, Typed
<1>. QED
  BY <1>1, LifeInvariance, InitSignals, NextKeepsSignals, PTL DEF LifeSpec
=============================================================================
