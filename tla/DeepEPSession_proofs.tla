------------------------ MODULE DeepEPSession_proofs ------------------------
(***************************************************************************)
(* What the calls of a session may rely on, for any ranks and programs.    *)
(*                                                                         *)
(* Everything is located by barriers: Base(k) barriers belong to the calls *)
(* before call k, so how many barriers a rank has entered and left tells   *)
(* which kernel it is in and how far, and a barrier carries that knowledge *)
(* from one rank to all others.  A stream is a chain of kernels, each one  *)
(* beginning at the barrier where the one before it ends, the last ending  *)
(* where the host will continue.                                           *)
(***************************************************************************)
EXTENDS DeepEPSession, FiniteSetTheorems, SequenceTheorems, TLAPS

NotifyKinds == {"sync", "worst"}
CachedKinds == {"cached", "combine"}

\* Calls before call k that run the one or the other of the barrier kernels.
CallsBefore(k, kinds) == {j \in 1 .. k - 1 : program[j] \in kinds}
Base(k) == 3 * Cardinality(CallsBefore(k, NotifyKinds))
           + 2 * Cardinality(CallsBefore(k, CachedKinds))
Barriers(k) == IF program[k] \in NotifyKinds THEN 3
               ELSE IF program[k] \in CachedKinds THEN 2 ELSE 0

\* A kernel <<script, call>>: barriers passed before it and after it.
Kernels == {"notify", "cached", "data"} \X Nat
StartOf(ker)  == IF ker[1] = "data" THEN Base(ker[2] + 1) ELSE Base(ker[2])
FinishOf(ker) == Base(ker[2] + 1)
KernelOK(ker) ==
  /\ ker[2] \in Calls /\ program[ker[2]] \in NotifyKinds \cup CachedKinds
  /\ ker[1] = "notify" => program[ker[2]] \in NotifyKinds
  /\ ker[1] = "cached" => program[ker[2]] \in CachedKinds

\* Barriers passed when all that the host has launched is done.
Ahead(r) == IF host[r] = "ready" THEN Base(next[r]) ELSE Base(next[r] + 1)

\* Barriers entered and left in the first st steps of a script.
Entries(name, st) ==
  IF name = "data" \/ st = 0 THEN 0
  ELSE IF st <= 3 THEN 1
  ELSE IF st <= 7 THEN 2 ELSE 3
Exits(name, st) ==
  IF name = "data" \/ st <= 1 THEN 0
  ELSE IF st <= 4 THEN 1 ELSE 2

-----------------------------------------------------------------------------
(* The inductive invariant.                                                *)

Typed ==
  /\ program \in Programs
  /\ next \in [Ranks -> 1 .. Len(program) + 1]
  /\ host \in [Ranks -> {"ready", "waiting", "counting", "thrown"}]
  /\ total \in [Ranks -> Calls \cup {Unready}] /\ expert \in [Ranks -> Calls \cup {Unready}]
  /\ seen \in [Ranks -> Calls \cup {Unready}]
  /\ sized \in [Ranks -> [Calls -> SUBSET (Calls \cup {Unready})]]
  /\ stream \in [Ranks -> Seq(Kernels)]
  /\ step \in [Ranks -> Nat]
  /\ written \in [Ranks -> {{}, {"total"}, {"expert"}}]
  /\ posted \in [Ranks -> [Ranks -> Calls \cup {0}]]
  /\ cleaned \in [Ranks -> Calls \cup {0}] /\ begun \in [Ranks -> Calls \cup {0}]
  /\ feeders \in [Ranks -> SUBSET Ranks]
  /\ entered \in [Ranks -> Nat] /\ left \in [Ranks -> Nat]

HostOK(r) == host[r] # "ready" => next[r] \in Calls /\ program[next[r]] = "sync"

\* The kernels of the stream follow one another, barrier by barrier.
ChainOK(r) ==
  /\ \A i \in 1 .. Len(stream[r]) : KernelOK(stream[r][i])
  /\ \A i \in 1 .. Len(stream[r]) - 1 : FinishOf(stream[r][i]) = StartOf(stream[r][i + 1])
  /\ Busy(r) => FinishOf(stream[r][Len(stream[r])]) = Ahead(r)

\* How far a rank is, counted in barriers.
PositionOK(r) ==
  IF Busy(r)
  THEN /\ step[r] < Len(Script(Kernel(r)))
       /\ entered[r] = StartOf(Head(stream[r])) + Entries(Kernel(r), step[r])
       /\ left[r]    = StartOf(Head(stream[r])) + Exits(Kernel(r), step[r])
  ELSE step[r] = 0 /\ entered[r] = Ahead(r) /\ left[r] = Ahead(r)

WrittenOK(r) == written[r] # {} => Busy(r) /\ Kernel(r) = "notify" /\ step[r] = 5

\* A rank resets its queues for call k between the barriers of call k.
CleanOK(r) ==
  /\ cleaned[r] \in Calls => left[r] > Base(cleaned[r])
  /\ \A k \in Calls :
       Barriers(k) > 0 /\ entered[r] >= Base(k) + Barriers(k) => cleaned[r] >= k
  /\ Busy(r) /\ ( \/ Kernel(r) = "notify" /\ step[r] = 7
                  \/ Kernel(r) = "cached" /\ step[r] = 3 ) => cleaned[r] = CallOf(r)

\* A rank posts its counts of call k between the first two barriers of call k.
PostOK(r) ==
  \A o \in Ranks :
    /\ posted[o][r] \in Calls => left[r] > Base(posted[o][r])
    /\ \A k \in Calls :
         program[k] \in NotifyKinds /\ entered[r] >= Base(k) + 2 => posted[o][r] >= k
    /\ Busy(r) /\ Kernel(r) = "notify" /\ step[r] = 3 => posted[o][r] = CallOf(r)

RankOK(r) ==
  /\ HostOK(r) /\ ChainOK(r) /\ PositionOK(r) /\ WrittenOK(r)
  /\ CleanOK(r) /\ PostOK(r)

Together == \A r, q \in Ranks : left[r] <= entered[q]

IInv == Typed /\ Together /\ \A r \in Ranks : RankOK(r)

-----------------------------------------------------------------------------
(* What the waiting host relies on besides.                                *)

\* No host waits for counts while a dispatch it did not wait for may run.
NoOvertaking ==
  \A p \in Programs : \A i, j \in DOMAIN p :
    i < j /\ p[i] = "worst" /\ p[j] = "sync" => \E m \in i .. j : p[m] = "idle"

\* The i-th kernel of the stream will still write the counters.
Pending(r, i) ==
  /\ i \in 1 .. Len(stream[r]) /\ stream[r][i][1] = "notify"
  /\ i > 1 \/ step[r] <= 5

\* No idle call lies between a kernel of the stream and the next call.
CallsBelow(r) ==
  \A i \in 1 .. Len(stream[r]) :
    /\ stream[r][i][2] <= next[r]
    /\ \A m \in Calls : stream[r][i][2] < m /\ m < next[r] => program[m] # "idle"

ReadyOK(r) ==
  host[r] = "ready" => \A i \in 1 .. Len(stream[r]) :
    stream[r][i][2] < next[r] /\ (Pending(r, i) => program[stream[r][i][2]] = "worst")

\* The one kernel that may still write is the last, and what it wrote is its own.
CountingOK(r) ==
  host[r] \in {"waiting", "counting"} =>
    /\ total[r] \in {Unready, next[r]} /\ expert[r] \in {Unready, next[r]}
    /\ \A i \in 1 .. Len(stream[r]) : Pending(r, i) =>
         /\ i = Len(stream[r]) /\ stream[r][i][2] = next[r]
         /\ total[r] # Unready => i = 1 /\ "total" \in written[r]
         /\ expert[r] # Unready => i = 1 /\ "expert" \in written[r]

SeenOK(r) == host[r] = "counting" => seen[r] = next[r] /\ total[r] # Unready

CountersOK(r) == CallsBelow(r) /\ ReadyOK(r) /\ CountingOK(r) /\ SeenOK(r)

CountersInv == SizedByOwnCounts /\ \A r \in Ranks : CountersOK(r)

-----------------------------------------------------------------------------
(* Counting barriers.                                                      *)

LEMMA ProgramLength ==
  ASSUME program \in Programs
  PROVE  Len(program) \in Nat /\ program \in Seq(Kinds) /\ Calls \subseteq Nat \ {0}
BY SessionAssumption DEF Calls

LEMMA CallsCounted ==
  ASSUME NEW k \in Nat, NEW kinds
  PROVE  /\ IsFiniteSet(CallsBefore(k, kinds))
         /\ Cardinality(CallsBefore(k, kinds)) \in Nat
         /\ k > 0 => Cardinality(CallsBefore(k + 1, kinds))
                       = Cardinality(CallsBefore(k, kinds)) + IF program[k] \in kinds THEN 1 ELSE 0
<1>. DEFINE c == k - 1
            A == CallsBefore(k, kinds)
            B == CallsBefore(k + 1, kinds)
<1>1. IsFiniteSet(1 .. c)
  <2>. c \in Int
    OBVIOUS
  <2>. HIDE DEF c
  <2>. QED
    BY FS_Interval
<1>2. A \in SUBSET (1 .. c)
  BY DEF CallsBefore
<1>3. IsFiniteSet(A) /\ Cardinality(A) \in Nat
  BY <1>1, <1>2, FS_Subset, FS_CardinalityType
<1>4. ASSUME k > 0 PROVE B = IF program[k] \in kinds THEN A \cup {k} ELSE A
  <2>1. \A j : j \in 1 .. (k + 1) - 1 <=> j \in 1 .. k - 1 \/ j = k
    BY <1>4
  <2>. QED
    BY <2>1 DEF CallsBefore
<1>5. k \notin A
  BY DEF CallsBefore
<1>. HIDE DEF A, B
<1>. SUFFICES /\ IsFiniteSet(A) /\ Cardinality(A) \in Nat
              /\ k > 0 => Cardinality(B) = Cardinality(A) + IF program[k] \in kinds THEN 1 ELSE 0
  BY DEF A, B
<1>6. Cardinality(A \cup {k}) = Cardinality(A) + 1
  BY <1>3, <1>5, FS_AddElement
<1>7. ASSUME k > 0
      PROVE  Cardinality(B) = Cardinality(A) + IF program[k] \in kinds THEN 1 ELSE 0
  <2>1. CASE program[k] \in kinds
    <3>1. B = A \cup {k}
      BY <1>4, <1>7, <2>1
    <3>. QED
      BY <1>6, <2>1, <3>1
  <2>2. CASE program[k] \notin kinds
    <3>1. B = A
      BY <1>4, <1>7, <2>2
    <3>. QED
      BY <1>3, <2>2, <3>1
  <2>. QED
    BY <2>1, <2>2
<1>. QED
  BY <1>3, <1>7

LEMMA CallsGrow ==
  ASSUME NEW a \in Nat, NEW b \in Nat, a <= b, NEW kinds
  PROVE  Cardinality(CallsBefore(a, kinds)) <= Cardinality(CallsBefore(b, kinds))
<1>1. CallsBefore(a, kinds) \in SUBSET CallsBefore(b, kinds)
  BY DEF CallsBefore
<1>. QED
  BY <1>1, CallsCounted, FS_Subset

LEMMA BaseSteps ==
  ASSUME NEW k \in Nat \ {0}
  PROVE  /\ Base(k) \in Nat /\ Base(k + 1) = Base(k) + Barriers(k)
         /\ Barriers(k) \in {0, 2, 3}
         /\ program[k] \in NotifyKinds => Barriers(k) = 3
         /\ program[k] \in CachedKinds => Barriers(k) = 2
         /\ program[k] = "idle" => Barriers(k) = 0
<1>. DEFINE n(j) == Cardinality(CallsBefore(j, NotifyKinds))
            c(j) == Cardinality(CallsBefore(j, CachedKinds))
<1>1. /\ n(k) \in Nat /\ n(k + 1) = n(k) + IF program[k] \in NotifyKinds THEN 1 ELSE 0
      /\ c(k) \in Nat /\ c(k + 1) = c(k) + IF program[k] \in CachedKinds THEN 1 ELSE 0
  BY CallsCounted
<1>2. /\ program[k] \in CachedKinds => program[k] \notin NotifyKinds
      /\ program[k] = "idle" => program[k] \notin NotifyKinds /\ program[k] \notin CachedKinds
  BY DEF NotifyKinds, CachedKinds
<1>3. Base(k) = 3 * n(k) + 2 * c(k) /\ Base(k + 1) = 3 * n(k + 1) + 2 * c(k + 1)
  BY DEF Base
<1>. HIDE DEF n, c
<1>. QED
  BY <1>1, <1>2, <1>3 DEF Barriers

LEMMA BaseIsNat == \A k \in Nat : Base(k) \in Nat
<1>. TAKE k \in Nat
<1>. DEFINE n == Cardinality(CallsBefore(k, NotifyKinds))
            c == Cardinality(CallsBefore(k, CachedKinds))
<1>1. n \in Nat /\ c \in Nat /\ Base(k) = 3 * n + 2 * c
  BY CallsCounted DEF Base
<1>. HIDE DEF n, c
<1>. QED
  BY <1>1

LEMMA BaseOrder ==
  ASSUME NEW a \in Nat, NEW b \in Nat, a <= b
  PROVE  Base(a) \in Nat /\ Base(b) \in Nat /\ Base(a) <= Base(b)
<1>. DEFINE n(j) == Cardinality(CallsBefore(j, NotifyKinds))
            c(j) == Cardinality(CallsBefore(j, CachedKinds))
<1>1. /\ n(a) \in Nat /\ n(b) \in Nat /\ n(a) <= n(b)
      /\ c(a) \in Nat /\ c(b) \in Nat /\ c(a) <= c(b)
  BY CallsCounted, CallsGrow
<1>2. Base(a) = 3 * n(a) + 2 * c(a) /\ Base(b) = 3 * n(b) + 2 * c(b)
  BY DEF Base
<1>. HIDE DEF n, c
<1>. QED
  BY <1>1, <1>2

\* The barriers of a call come before those of a later one.
LEMMA CallsInOrder ==
  ASSUME NEW a \in Nat \ {0}, NEW b \in Nat \ {0}
  PROVE  /\ Base(a) \in Nat /\ Base(b) \in Nat
         /\ a < b => Base(a) + Barriers(a) <= Base(b)
         /\ a < b \/ a = b \/ b < a
<1>1. a < b => Base(a + 1) <= Base(b)
  BY BaseOrder
<1>. QED
  BY <1>1, BaseSteps, BaseOrder

-----------------------------------------------------------------------------
(* The scripts.                                                            *)

LEMMA ScriptLengths ==
  /\ Len(Script("notify")) = 9 /\ Len(Script("cached")) = 5 /\ Len(Script("data")) = 2
  /\ \A name \in {"notify", "cached", "data"} : Len(Script(name)) \in Nat \ {0}
<1>1. Len(Script("notify")) = 9 /\ Len(Script("cached")) = 5 /\ Len(Script("data")) = 2
  BY DEF Script, NotifyDispatch, CachedNotify, Data
<1>2. ASSUME NEW name \in {"notify", "cached", "data"} PROVE Len(Script(name)) \in Nat \ {0}
  <2>1. CASE name = "notify"
    <3>1. Len(Script(name)) = 9
      BY <1>1, <2>1, Zenon
    <3>. QED
      BY <3>1
  <2>2. CASE name = "cached"
    <3>1. Len(Script(name)) = 5
      BY <1>1, <2>2, Zenon
    <3>. QED
      BY <3>1
  <2>3. CASE name = "data"
    <3>1. Len(Script(name)) = 2
      BY <1>1, <2>3, Zenon
    <3>. QED
      BY <3>1
  <2>. QED
    BY <2>1, <2>2, <2>3
<1>. QED
  BY <1>1, <1>2

LEMMA NotifySteps ==
  ASSUME NEW st \in 0 .. 8
  PROVE  LET s == Script("notify")[st + 1] IN
         /\ s = "enter" <=> st \in {0, 3, 7}
         /\ s = "leave" <=> st \in {1, 4, 8}
         /\ s = "post" <=> st = 2
         /\ s = "counts" <=> st = 5
         /\ s = "clean" <=> st = 6
         /\ s \notin {"begin", "end"}
<1>1. st \in {0, 1, 2, 3, 4, 5, 6, 7, 8}
  OBVIOUS
<1>. QED
  BY <1>1 DEF Script, NotifyDispatch

LEMMA CachedSteps ==
  ASSUME NEW st \in 0 .. 4
  PROVE  LET s == Script("cached")[st + 1] IN
         /\ s = "enter" <=> st \in {0, 3}
         /\ s = "leave" <=> st \in {1, 4}
         /\ s = "clean" <=> st = 2
         /\ s \notin {"post", "counts", "begin", "end"}
<1>1. st \in {0, 1, 2, 3, 4}
  OBVIOUS
<1>. QED
  BY <1>1 DEF Script, CachedNotify

LEMMA DataSteps ==
  ASSUME NEW st \in 0 .. 1
  PROVE  LET s == Script("data")[st + 1] IN
         /\ s = "begin" <=> st = 0
         /\ s = "end" <=> st = 1
         /\ s \notin {"enter", "leave", "post", "counts", "clean"}
<1>1. st \in {0, 1}
  OBVIOUS
<1>. QED
  BY <1>1 DEF Script, Data

-----------------------------------------------------------------------------
(* Where a rank is.                                                        *)

LEMMA HeadFacts ==
  ASSUME IInv, NEW r \in Ranks, Busy(r)
  PROVE  /\ stream[r] \in Seq(Kernels) /\ Len(stream[r]) \in Nat \ {0}
         /\ Head(stream[r]) = stream[r][1]
         /\ Kernel(r) \in {"notify", "cached", "data"} /\ KernelOK(stream[r][1])
         /\ CallOf(r) \in Calls /\ CallOf(r) \in Nat \ {0}
         /\ Base(CallOf(r)) \in Nat
         /\ Base(CallOf(r) + 1) = Base(CallOf(r)) + Barriers(CallOf(r))
         /\ Kernel(r) = "notify" => program[CallOf(r)] \in NotifyKinds /\ Barriers(CallOf(r)) = 3
         /\ Kernel(r) = "cached" => program[CallOf(r)] \in CachedKinds /\ Barriers(CallOf(r)) = 2
         /\ Barriers(CallOf(r)) \in Nat /\ Barriers(CallOf(r)) > 0
<1>1. stream[r] \in Seq(Kernels) /\ stream[r] # <<>>
  BY DEF IInv, Typed, Busy
<1>2. /\ Len(stream[r]) \in Nat \ {0} /\ Head(stream[r]) = stream[r][1]
      /\ stream[r][1] \in Kernels
  BY <1>1
<1>3. KernelOK(stream[r][1])
  BY <1>2 DEF IInv, RankOK, ChainOK
<1>4. CallOf(r) \in Calls /\ CallOf(r) \in Nat \ {0}
  BY <1>2, <1>3, ProgramLength DEF KernelOK, CallOf, IInv, Typed
<1>5. Kernel(r) \in {"notify", "cached", "data"}
  BY <1>2 DEF Kernel, Kernels
<1>6. /\ Kernel(r) = "notify" => program[CallOf(r)] \in NotifyKinds
      /\ Kernel(r) = "cached" => program[CallOf(r)] \in CachedKinds
  BY <1>2, <1>3 DEF KernelOK, Kernel, CallOf
<1>8. program[CallOf(r)] \in NotifyKinds \cup CachedKinds
  BY <1>2, <1>3 DEF KernelOK, CallOf
<1>7. /\ Base(CallOf(r)) \in Nat /\ Barriers(CallOf(r)) \in Nat
      /\ Base(CallOf(r) + 1) = Base(CallOf(r)) + Barriers(CallOf(r))
      /\ program[CallOf(r)] \in NotifyKinds => Barriers(CallOf(r)) = 3
      /\ program[CallOf(r)] \in CachedKinds => Barriers(CallOf(r)) = 2
  BY <1>4, BaseSteps
<1>. QED
  BY <1>1, <1>2, <1>3, <1>4, <1>5, <1>6, <1>7, <1>8

LEMMA PositionFacts ==
  ASSUME IInv, NEW r \in Ranks, Busy(r)
  PROVE  /\ step[r] \in Nat /\ step[r] < Len(Script(Kernel(r)))
         /\ entered[r] = (IF Kernel(r) = "data" THEN Base(CallOf(r) + 1) ELSE Base(CallOf(r)))
                         + Entries(Kernel(r), step[r])
         /\ left[r] = (IF Kernel(r) = "data" THEN Base(CallOf(r) + 1) ELSE Base(CallOf(r)))
                      + Exits(Kernel(r), step[r])
         /\ Kernel(r) = "notify" => step[r] \in 0 .. 8
         /\ Kernel(r) = "cached" => step[r] \in 0 .. 4
         /\ Kernel(r) = "data" => step[r] \in 0 .. 1
         /\ entered[r] \in Nat /\ left[r] \in Nat
<1>1. /\ step[r] \in Nat /\ step[r] < Len(Script(Kernel(r)))
      /\ entered[r] = StartOf(Head(stream[r])) + Entries(Kernel(r), step[r])
      /\ left[r] = StartOf(Head(stream[r])) + Exits(Kernel(r), step[r])
      /\ entered[r] \in Nat /\ left[r] \in Nat
  BY DEF IInv, Typed, RankOK, PositionOK
<1>2. StartOf(Head(stream[r])) = IF Kernel(r) = "data" THEN Base(CallOf(r) + 1) ELSE Base(CallOf(r))
  BY DEF StartOf, Kernel, CallOf
<1>3. /\ Kernel(r) = "notify" => step[r] \in 0 .. 8
      /\ Kernel(r) = "cached" => step[r] \in 0 .. 4
      /\ Kernel(r) = "data" => step[r] \in 0 .. 1
  <2>1. CASE Kernel(r) = "notify"
    <3>1. step[r] < 9
      BY <1>1, <2>1, ScriptLengths
    <3>. QED
      BY <1>1, <2>1, <3>1
  <2>2. CASE Kernel(r) = "cached"
    <3>1. step[r] < 5
      BY <1>1, <2>2, ScriptLengths
    <3>. QED
      BY <1>1, <2>2, <3>1
  <2>3. CASE Kernel(r) = "data"
    <3>1. step[r] < 2
      BY <1>1, <2>3, ScriptLengths
    <3>. QED
      BY <1>1, <2>3, <3>1
  <2>. QED
    BY <2>1, <2>2, <2>3
<1>. QED
  BY <1>1, <1>2, <1>3

\* These are not the last step of their kernel.
LEMMA BelowLength ==
  ASSUME NEW r \in Ranks, NEW st \in Nat,
         \/ Kernel(r) = "notify" /\ st < 8
         \/ Kernel(r) = "cached" /\ st < 4
         \/ Kernel(r) = "data" /\ st < 1
  PROVE  st + 1 < Len(Script(Kernel(r)))
<1>. DEFINE L == Len(Script(Kernel(r)))
<1>1. /\ Kernel(r) = "notify" => L = 9
      /\ Kernel(r) = "cached" => L = 5
      /\ Kernel(r) = "data" => L = 2
  BY ScriptLengths, Zenon
<1>. HIDE DEF L
<1>2. st + 1 < L
  BY <1>1
<1>. QED
  BY <1>2 DEF L

\* At which steps of which scripts a rank does what.
LEMMA StepKinds ==
  ASSUME IInv, NEW r \in Ranks
  PROVE  /\ AtStep(r, "enter") => Busy(r) /\ ( \/ Kernel(r) = "notify" /\ step[r] \in {0, 3, 7}
                                               \/ Kernel(r) = "cached" /\ step[r] \in {0, 3} )
         /\ AtStep(r, "leave") => Busy(r) /\ ( \/ Kernel(r) = "notify" /\ step[r] \in {1, 4, 8}
                                               \/ Kernel(r) = "cached" /\ step[r] \in {1, 4} )
         /\ AtStep(r, "post") => Busy(r) /\ Kernel(r) = "notify" /\ step[r] = 2
         /\ AtStep(r, "counts") => Busy(r) /\ Kernel(r) = "notify" /\ step[r] = 5
         /\ AtStep(r, "clean") => Busy(r) /\ ( \/ Kernel(r) = "notify" /\ step[r] = 6
                                               \/ Kernel(r) = "cached" /\ step[r] = 2 )
         /\ AtStep(r, "begin") => Busy(r) /\ Kernel(r) = "data" /\ step[r] = 0
         /\ AtStep(r, "end") => Busy(r) /\ Kernel(r) = "data" /\ step[r] = 1
<1>. SUFFICES ASSUME Busy(r)
              PROVE  /\ AtStep(r, "enter") => ( \/ Kernel(r) = "notify" /\ step[r] \in {0, 3, 7}
                                                \/ Kernel(r) = "cached" /\ step[r] \in {0, 3} )
                     /\ AtStep(r, "leave") => ( \/ Kernel(r) = "notify" /\ step[r] \in {1, 4, 8}
                                                \/ Kernel(r) = "cached" /\ step[r] \in {1, 4} )
                     /\ AtStep(r, "post") => Kernel(r) = "notify" /\ step[r] = 2
                     /\ AtStep(r, "counts") => Kernel(r) = "notify" /\ step[r] = 5
                     /\ AtStep(r, "clean") => ( \/ Kernel(r) = "notify" /\ step[r] = 6
                                                \/ Kernel(r) = "cached" /\ step[r] = 2 )
                     /\ AtStep(r, "begin") => Kernel(r) = "data" /\ step[r] = 0
                     /\ AtStep(r, "end") => Kernel(r) = "data" /\ step[r] = 1
  BY DEF AtStep
<1>1. CASE Kernel(r) = "notify"
  <2>1. step[r] \in 0 .. 8
    BY <1>1, PositionFacts
  <2>. QED
    BY <1>1, <2>1, NotifySteps DEF AtStep
<1>2. CASE Kernel(r) = "cached"
  <2>1. step[r] \in 0 .. 4
    BY <1>2, PositionFacts
  <2>. QED
    BY <1>2, <2>1, CachedSteps DEF AtStep
<1>3. CASE Kernel(r) = "data"
  <2>1. step[r] \in 0 .. 1
    BY <1>3, PositionFacts
  <2>. QED
    BY <1>3, <2>1, DataSteps DEF AtStep
<1>. QED
  BY <1>1, <1>2, <1>3, HeadFacts

-----------------------------------------------------------------------------
(* What the steps have in common.                                          *)

LEMMA ProgramFixed ==
  ASSUME program' = program
  PROVE  /\ Calls' = Calls
         /\ \A k : Base(k)' = Base(k) /\ Barriers(k)' = Barriers(k)
         /\ \A ker : /\ StartOf(ker)' = StartOf(ker) /\ FinishOf(ker)' = FinishOf(ker)
                     /\ (KernelOK(ker)' <=> KernelOK(ker))
BY DEF Calls, Base, CallsBefore, Barriers, StartOf, FinishOf, KernelOK

LEMMA ChainKept ==
  ASSUME NEW r \in Ranks, program' = program, ChainOK(r), HostOK(r),
         UNCHANGED <<stream[r], host[r], next[r]>>
  PROVE  ChainOK(r)' /\ HostOK(r)'
BY ProgramFixed DEF ChainOK, HostOK, Ahead, Busy

LEMMA PositionKept ==
  ASSUME NEW r \in Ranks, program' = program, PositionOK(r),
         UNCHANGED <<stream[r], step[r], host[r], next[r], entered[r], left[r]>>
  PROVE  PositionOK(r)'
BY ProgramFixed DEF PositionOK, Ahead, Busy, Kernel

LEMMA RankKept ==
  ASSUME NEW r \in Ranks, program' = program, RankOK(r),
         UNCHANGED <<stream[r], step[r], host[r], next[r], entered[r], left[r], written[r],
                     cleaned[r]>>,
         \A o \in Ranks : posted'[o][r] = posted[o][r]
  PROVE  RankOK(r)'
<1>1. ChainOK(r)' /\ HostOK(r)' /\ PositionOK(r)'
  BY ChainKept, PositionKept DEF RankOK
<1>2. WrittenOK(r)'
  BY DEF RankOK, WrittenOK, Busy, Kernel
<1>3. CleanOK(r)'
  BY ProgramFixed DEF RankOK, CleanOK, Busy, Kernel, CallOf
<1>4. PostOK(r)'
  BY ProgramFixed DEF RankOK, PostOK, Busy, Kernel, CallOf
<1>. QED
  BY <1>1, <1>2, <1>3, <1>4 DEF RankOK

\* A kernel goes on to its next step, or the stream to its next kernel.
LEMMA AdvanceOK ==
  ASSUME IInv, NEW r \in Ranks, Busy(r), Advance(r), program' = program, next' = next, host' = host,
         step[r] + 1 < Len(Script(Kernel(r))) =>
           /\ entered'[r] = StartOf(Head(stream[r])) + Entries(Kernel(r), step[r] + 1)
           /\ left'[r]    = StartOf(Head(stream[r])) + Exits(Kernel(r), step[r] + 1),
         step[r] + 1 >= Len(Script(Kernel(r))) =>
           entered'[r] = FinishOf(Head(stream[r])) /\ left'[r] = FinishOf(Head(stream[r]))
  PROVE  /\ HostOK(r)' /\ ChainOK(r)' /\ PositionOK(r)'
         /\ stream' \in [Ranks -> Seq(Kernels)] /\ step' \in [Ranks -> Nat]
         /\ \A q \in Ranks : q # r => stream'[q] = stream[q] /\ step'[q] = step[q]
         /\ IF step[r] + 1 < Len(Script(Kernel(r)))
            THEN stream'[r] = stream[r] /\ step'[r] = step[r] + 1
            ELSE stream'[r] = Tail(stream[r]) /\ step'[r] = 0
<1>0. stream \in [Ranks -> Seq(Kernels)] /\ step \in [Ranks -> Nat]
  BY DEF IInv, Typed
<1>1. HostOK(r)'
  BY DEF IInv, RankOK, HostOK, Calls
<1>2. CASE step[r] + 1 < Len(Script(Kernel(r)))
  <2>1. step' = [step EXCEPT ![r] = @ + 1] /\ stream' = stream
    BY <1>2 DEF Advance
  <2>2. step'[r] = step[r] + 1 /\ stream'[r] = stream[r]
    BY <1>0, <2>1
  <2>3. ChainOK(r)'
    BY <2>2, ChainKept DEF IInv, RankOK
  <2>4. PositionOK(r)'
    BY <1>2, <2>2, ProgramFixed DEF PositionOK, Busy, Kernel
  <2>. QED
    BY <1>0, <1>1, <1>2, <2>1, <2>2, <2>3, <2>4
<1>3. CASE ~ (step[r] + 1 < Len(Script(Kernel(r))))
  <2>. DEFINE s == stream[r]
              t == Tail(s)
  <2>1. step' = [step EXCEPT ![r] = 0] /\ stream' = [stream EXCEPT ![r] = t]
    BY <1>3 DEF Advance
  <2>2. s \in Seq(Kernels) /\ s # <<>> /\ Len(s) \in Nat \ {0} /\ Head(s) = s[1]
    BY HeadFacts DEF Busy
  <2>3. /\ t \in Seq(Kernels) /\ Len(t) = Len(s) - 1
        /\ \A i \in 1 .. Len(t) : t[i] = s[i + 1]
    BY <2>2, HeadTailProperties
  <2>4. stream'[r] = t /\ step'[r] = 0
    BY <1>0, <2>1
  <2>5. ChainOK(r)
    BY DEF IInv, RankOK
  <2>6. Ahead(r)' = Ahead(r)
    BY ProgramFixed DEF Ahead
  <2>7. ChainOK(r)'
    <3>1. \A i \in 1 .. Len(t) : KernelOK(t[i])
      BY <2>2, <2>3, <2>5 DEF ChainOK
    <3>2. \A i \in 1 .. Len(t) - 1 : FinishOf(t[i]) = StartOf(t[i + 1])
      BY <2>2, <2>3, <2>5 DEF ChainOK
    <3>3. t # <<>> => FinishOf(t[Len(t)]) = Ahead(r)
      <4>. SUFFICES ASSUME t # <<>> PROVE FinishOf(t[Len(t)]) = Ahead(r)
        OBVIOUS
      <4>1. Len(t) \in 1 .. Len(t) /\ Len(t) + 1 = Len(s)
        BY <2>2, <2>3
      <4>2. t[Len(t)] = s[Len(s)]
        BY <2>3, <4>1
      <4>. QED
        BY <2>2, <2>5, <4>2 DEF ChainOK, Busy
    <3>. HIDE DEF t, s
    <3>. QED
      BY <2>4, <2>6, <3>1, <3>2, <3>3, ProgramFixed DEF ChainOK, Busy
  <2>8. entered'[r] = FinishOf(s[1]) /\ left'[r] = FinishOf(s[1])
    BY <1>3, <2>2, PositionFacts, ScriptLengths, HeadFacts
  <2>9. PositionOK(r)'
    <3>1. CASE t = <<>>
      <4>1. Len(s) = 1
        <5>1. Len(t) = 0
          BY <3>1, EmptySeq
        <5>. HIDE DEF s, t
        <5>. QED
          BY <2>2, <2>3, <5>1
      <4>2. FinishOf(s[1]) = Ahead(r)
        BY <2>2, <2>5, <4>1 DEF ChainOK, Busy
      <4>. QED
        BY <2>4, <2>6, <2>8, <3>1, <4>2 DEF PositionOK, Busy
    <3>2. CASE t # <<>>
      <4>1. Head(t) = s[2] /\ Head(t) \in Kernels /\ Len(s) >= 2
        BY <2>2, <2>3, <3>2, HeadTailProperties
      <4>2. FinishOf(s[1]) = StartOf(Head(t)) /\ StartOf(Head(t)) \in Nat
        <5>1. KernelOK(s[2]) /\ FinishOf(s[1]) = StartOf(s[2])
          BY <2>2, <2>5, <4>1 DEF ChainOK
        <5>2. s[2][2] \in Nat
          BY <4>1 DEF Kernels
        <5>3. StartOf(s[2]) \in Nat
          <6>1. s[2][2] + 1 \in Nat
            BY <5>2
          <6>2. Base(s[2][2]) \in Nat /\ Base(s[2][2] + 1) \in Nat
            BY <5>2, <6>1, BaseIsNat
          <6>. QED
            BY <6>2 DEF StartOf
        <5>. HIDE DEF s, t
        <5>. QED
          BY <4>1, <5>1, <5>3
      <4>3. 0 < Len(Script(Head(t)[1]))
        <5>1. Head(t)[1] \in {"notify", "cached", "data"}
          BY <4>1 DEF Kernels
        <5>2. Len(Script(Head(t)[1])) \in Nat \ {0}
          BY <5>1, ScriptLengths
        <5>. HIDE DEF t
        <5>. QED
          BY <5>2
      <4>4. Entries(Head(t)[1], 0) = 0 /\ Exits(Head(t)[1], 0) = 0
        BY DEF Entries, Exits
      <4>5. /\ Kernel(r)' = Head(t)[1] /\ StartOf(Head(stream[r]))' = StartOf(Head(t))
            /\ Busy(r)'
        BY <2>4, <3>2, ProgramFixed DEF Kernel, Busy
      <4>. HIDE DEF t, s
      <4>. QED
        BY <2>4, <2>8, <4>2, <4>3, <4>4, <4>5 DEF PositionOK
    <3>. QED
      BY <3>1, <3>2
  <2>. HIDE DEF t
  <2>10. stream' \in [Ranks -> Seq(Kernels)] /\ step' \in [Ranks -> Nat]
    BY <1>0, <2>1, <2>3
  <2>11. \A q \in Ranks : q # r => stream'[q] = stream[q] /\ step'[q] = step[q]
    BY <1>0, <2>1
  <2>. QED
    BY <1>1, <1>3, <2>4, <2>7, <2>9, <2>10, <2>11 DEF t
<1>. QED
  BY <1>2, <1>3

-----------------------------------------------------------------------------
(* The kernels, one lemma for each step.                                   *)

\* What an entry adds is known of the rank already.
LEMMA EntryFacts ==
  ASSUME IInv, NEW r \in Ranks, AtStep(r, "enter")
  PROVE  /\ step[r] + 1 < Len(Script(Kernel(r)))
         /\ Entries(Kernel(r), step[r] + 1) = Entries(Kernel(r), step[r]) + 1
         /\ Exits(Kernel(r), step[r] + 1) = Exits(Kernel(r), step[r])
         /\ step[r] + 1 \notin {3, 5, 7}
         /\ \A j \in Calls : Barriers(j) > 0 /\ entered[r] + 1 >= Base(j) + Barriers(j) =>
              \/ entered[r] >= Base(j) + Barriers(j)
              \/ cleaned[r] = CallOf(r) /\ j <= CallOf(r)
         /\ \A j \in Calls : program[j] \in NotifyKinds /\ entered[r] + 1 >= Base(j) + 2 =>
              \/ entered[r] >= Base(j) + 2
              \/ \A o \in Ranks : posted[o][r] = CallOf(r) /\ j <= CallOf(r)
<1>. DEFINE k == CallOf(r)
            n == entered[r]
<1>1. /\ Busy(r) /\ \/ Kernel(r) = "notify" /\ step[r] \in {0, 3, 7}
                    \/ Kernel(r) = "cached" /\ step[r] \in {0, 3}
  BY StepKinds
<1>2. /\ k \in Calls /\ k \in Nat \ {0} /\ Base(k) \in Nat
      /\ Kernel(r) = "notify" => program[k] \in NotifyKinds /\ Barriers(k) = 3
      /\ Kernel(r) = "cached" => program[k] \in CachedKinds /\ Barriers(k) = 2
  BY <1>1, HeadFacts
<1>3. n = Base(k) + Entries(Kernel(r), step[r])
  BY <1>1, PositionFacts
<1>4. /\ Kernel(r) = "notify" /\ step[r] = 0 => n = Base(k)
      /\ Kernel(r) = "notify" /\ step[r] = 3 => n = Base(k) + 1
      /\ Kernel(r) = "notify" /\ step[r] = 7 => n = Base(k) + 2
      /\ Kernel(r) = "cached" /\ step[r] = 0 => n = Base(k)
      /\ Kernel(r) = "cached" /\ step[r] = 3 => n = Base(k) + 1
  BY <1>2, <1>3 DEF Entries
<1>5. /\ step[r] + 1 < Len(Script(Kernel(r)))
      /\ Entries(Kernel(r), step[r] + 1) = Entries(Kernel(r), step[r]) + 1
      /\ Exits(Kernel(r), step[r] + 1) = Exits(Kernel(r), step[r])
      /\ step[r] + 1 \notin {3, 5, 7}
  <2>1. CASE Kernel(r) = "notify"
    <3>1. step[r] \in {0, 3, 7} /\ Script(Kernel(r)) = Script("notify")
      BY <1>1, <2>1
    <3>2. step[r] + 1 < 9 /\ step[r] + 1 \notin {3, 5, 7}
      BY <3>1
    <3>3. /\ Entries(Kernel(r), step[r] + 1) = Entries(Kernel(r), step[r]) + 1
          /\ Exits(Kernel(r), step[r] + 1) = Exits(Kernel(r), step[r])
      BY <2>1, <3>1 DEF Entries, Exits
    <3>. QED
      BY <3>1, <3>2, <3>3, ScriptLengths
  <2>2. CASE Kernel(r) = "cached"
    <3>1. step[r] \in {0, 3} /\ Script(Kernel(r)) = Script("cached")
      BY <1>1, <2>2
    <3>2. step[r] + 1 < 5 /\ step[r] + 1 \notin {3, 5, 7}
      BY <3>1
    <3>3. /\ Entries(Kernel(r), step[r] + 1) = Entries(Kernel(r), step[r]) + 1
          /\ Exits(Kernel(r), step[r] + 1) = Exits(Kernel(r), step[r])
      BY <2>2, <3>1 DEF Entries, Exits
    <3>. QED
      BY <3>1, <3>2, <3>3, ScriptLengths
  <2>. QED
    BY <1>1, <2>1, <2>2
<1>6. /\ Kernel(r) = "notify" /\ step[r] = 7 => cleaned[r] = k
      /\ Kernel(r) = "cached" /\ step[r] = 3 => cleaned[r] = k
      /\ Kernel(r) = "notify" /\ step[r] = 3 => \A o \in Ranks : posted[o][r] = k
  BY <1>1 DEF IInv, RankOK, CleanOK, PostOK
<1>7. ASSUME NEW j \in Calls
      PROVE  /\ j \in Nat \ {0} /\ Base(j) \in Nat /\ Barriers(j) \in {0, 2, 3}
             /\ program[j] \in NotifyKinds => Barriers(j) = 3
             /\ program[j] \in CachedKinds => program[j] \notin NotifyKinds
             /\ j < k => Base(j) + Barriers(j) <= Base(k)
             /\ k < j => Base(k) + Barriers(k) <= Base(j)
             /\ j < k \/ j = k \/ k < j
  <2>1. j \in Nat \ {0}
    BY ProgramLength DEF IInv, Typed
  <2>2. /\ Base(j) \in Nat /\ Barriers(j) \in {0, 2, 3}
        /\ program[j] \in NotifyKinds => Barriers(j) = 3
    BY <2>1, BaseSteps
  <2>3. /\ j < k => Base(j) + Barriers(j) <= Base(k)
        /\ k < j => Base(k) + Barriers(k) <= Base(j)
    BY <1>2, <2>1, CallsInOrder
  <2>. QED
    BY <1>2, <2>1, <2>2, <2>3 DEF NotifyKinds, CachedKinds
<1>. HIDE DEF k, n
<1>8. ASSUME NEW j \in Calls, Barriers(j) > 0, n + 1 >= Base(j) + Barriers(j),
             ~ (n >= Base(j) + Barriers(j))
      PROVE  cleaned[r] = k /\ j <= k
  <2>1. CASE Kernel(r) = "notify" /\ step[r] = 0
    BY <1>2, <1>4, <1>7, <1>8, <2>1
  <2>2. CASE Kernel(r) = "notify" /\ step[r] = 3
    BY <1>2, <1>4, <1>7, <1>8, <2>2
  <2>3. CASE Kernel(r) = "notify" /\ step[r] = 7
    BY <1>2, <1>4, <1>6, <1>7, <1>8, <2>3
  <2>4. CASE Kernel(r) = "cached" /\ step[r] = 0
    BY <1>2, <1>4, <1>7, <1>8, <2>4
  <2>5. CASE Kernel(r) = "cached" /\ step[r] = 3
    BY <1>2, <1>4, <1>6, <1>7, <1>8, <2>5
  <2>. QED
    BY <1>1, <2>1, <2>2, <2>3, <2>4, <2>5
<1>9. ASSUME NEW j \in Calls, program[j] \in NotifyKinds, n + 1 >= Base(j) + 2,
             ~ (n >= Base(j) + 2)
      PROVE  (\A o \in Ranks : posted[o][r] = k) /\ j <= k
  <2>0. Barriers(j) = 3 /\ j \in Nat /\ Base(j) \in Nat
    BY <1>7, <1>9
  <2>1. CASE Kernel(r) = "notify" /\ step[r] = 0
    BY <1>2, <1>4, <1>7, <1>9, <2>0, <2>1
  <2>2. CASE Kernel(r) = "notify" /\ step[r] = 3
    BY <1>2, <1>4, <1>6, <1>7, <1>9, <2>0, <2>2
  <2>3. CASE Kernel(r) = "notify" /\ step[r] = 7
    BY <1>2, <1>4, <1>7, <1>9, <2>0, <2>3
  <2>4. CASE Kernel(r) = "cached" /\ step[r] = 0
    BY <1>2, <1>4, <1>7, <1>9, <2>0, <2>4
  <2>5. CASE Kernel(r) = "cached" /\ step[r] = 3
    <3>1. j # k
      BY <1>2, <1>7, <1>9, <2>5
    <3>. QED
      BY <1>2, <1>4, <1>7, <1>9, <2>0, <2>5, <3>1
  <2>. QED
    BY <1>1, <2>1, <2>2, <2>3, <2>4, <2>5
<1>. QED
  BY <1>5, <1>8, <1>9 DEF k, n

LEMMA EnterBarrierOK ==
  ASSUME IInv, NEW r \in Ranks, EnterBarrier(r)
  PROVE  IInv'
<1>1. /\ AtStep(r, "enter") /\ Advance(r) /\ program' = program /\ next' = next /\ host' = host
      /\ entered' = [entered EXCEPT ![r] = @ + 1] /\ left' = left
      /\ UNCHANGED <<seen, sized, total, expert, written, posted, cleaned, begun, feeders>>
  BY DEF EnterBarrier, Enter, hostVars
<1>2. Busy(r)
  BY <1>1 DEF AtStep
<1>3. /\ entered'[r] = entered[r] + 1 /\ left'[r] = left[r]
      /\ \A q \in Ranks : q # r => entered'[q] = entered[q]
      /\ entered' \in [Ranks -> Nat]
  BY <1>1 DEF IInv, Typed
<1>4. /\ HostOK(r)' /\ ChainOK(r)' /\ PositionOK(r)'
      /\ stream' \in [Ranks -> Seq(Kernels)] /\ step' \in [Ranks -> Nat]
      /\ \A q \in Ranks : q # r => stream'[q] = stream[q] /\ step'[q] = step[q]
      /\ stream'[r] = stream[r] /\ step'[r] = step[r] + 1
  <2>1. /\ entered[r] = StartOf(Head(stream[r])) + Entries(Kernel(r), step[r])
        /\ left[r] = StartOf(Head(stream[r])) + Exits(Kernel(r), step[r])
    BY <1>2 DEF IInv, RankOK, PositionOK
  <2>2. StartOf(Head(stream[r])) \in Nat
    <3>1. CallOf(r) + 1 \in Nat
      BY <1>2, HeadFacts
    <3>. QED
      BY <1>2, <3>1, HeadFacts, BaseIsNat DEF StartOf, CallOf
  <2>3. /\ step[r] + 1 < Len(Script(Kernel(r)))
        /\ entered'[r] = StartOf(Head(stream[r])) + Entries(Kernel(r), step[r] + 1)
        /\ left'[r]    = StartOf(Head(stream[r])) + Exits(Kernel(r), step[r] + 1)
    <3>1. Entries(Kernel(r), step[r]) \in Nat
      BY DEF Entries
    <3>. QED
      BY <1>1, <1>3, <2>1, <2>2, <3>1, EntryFacts
  <2>4. ~ (step[r] + 1 >= Len(Script(Kernel(r))))
    <3>1. Len(Script(Kernel(r))) \in Nat
      BY <1>2, HeadFacts, ScriptLengths
    <3>2. step[r] \in Nat
      BY <1>2, PositionFacts
    <3>. QED
      BY <2>3, <3>1, <3>2
  <2>. QED
    BY <1>1, <1>2, <2>3, <2>4, AdvanceOK
<1>5. Typed'
  BY <1>1, <1>3, <1>4, ProgramFixed DEF IInv, Typed
<1>6. Together'
  BY <1>1, <1>3 DEF IInv, Typed, Together
<1>7. \A q \in Ranks : q # r => RankOK(q)'
  BY <1>1, <1>3, <1>4, RankKept DEF IInv
<1>8. WrittenOK(r)'
  <2>1. AtStep(r, "counts") \/ written[r] = {}
    <3>1. written[r] # {} => Kernel(r) = "notify" /\ step[r] = 5
      BY DEF IInv, RankOK, WrittenOK
    <3>. QED
      BY <3>1, <1>1, StepKinds
  <2>2. ~ AtStep(r, "counts")
    BY <1>1 DEF AtStep
  <2>. QED
    BY <1>1, <2>1, <2>2 DEF WrittenOK
<1>9. Busy(r)' = Busy(r) /\ Kernel(r)' = Kernel(r) /\ CallOf(r)' = CallOf(r)
  BY <1>4 DEF Busy, Kernel, CallOf
<1>10. step[r] \in Nat /\ step'[r] \notin {3, 5, 7}
  BY <1>1, <1>4, EntryFacts DEF IInv, Typed
<1>11. CallOf(r) \in Nat /\ Calls \subseteq Nat
  BY <1>2, HeadFacts, ProgramLength DEF IInv, Typed
<1>12. CleanOK(r)'
  <2>1. \A k \in Calls : Barriers(k) > 0 /\ entered[r] + 1 >= Base(k) + Barriers(k) => cleaned[r] >= k
    <3>. TAKE k \in Calls
    <3>1. \/ ~ (Barriers(k) > 0 /\ entered[r] + 1 >= Base(k) + Barriers(k))
          \/ Barriers(k) > 0 /\ entered[r] >= Base(k) + Barriers(k)
          \/ cleaned[r] = CallOf(r) /\ k <= CallOf(r)
      BY <1>1, EntryFacts
    <3>2. Barriers(k) > 0 /\ entered[r] >= Base(k) + Barriers(k) => cleaned[r] >= k
      BY DEF IInv, RankOK, CleanOK
    <3>. QED
      BY <1>11, <3>1, <3>2
  <2>2. cleaned[r] \in Calls => left[r] > Base(cleaned[r])
    BY DEF IInv, RankOK, CleanOK
  <2>. QED
    BY <1>1, <1>3, <1>10, <2>1, <2>2, ProgramFixed DEF CleanOK
<1>13. PostOK(r)'
  <2>1. \A o \in Ranks, k \in Calls :
          program[k] \in NotifyKinds /\ entered[r] + 1 >= Base(k) + 2 => posted[o][r] >= k
    <3>. TAKE o \in Ranks, k \in Calls
    <3>1. \/ ~ (program[k] \in NotifyKinds /\ entered[r] + 1 >= Base(k) + 2)
          \/ program[k] \in NotifyKinds /\ entered[r] >= Base(k) + 2
          \/ posted[o][r] = CallOf(r) /\ k <= CallOf(r)
      BY <1>1, EntryFacts
    <3>2. program[k] \in NotifyKinds /\ entered[r] >= Base(k) + 2 => posted[o][r] >= k
      BY DEF IInv, RankOK, PostOK
    <3>. QED
      BY <1>11, <3>1, <3>2
  <2>2. \A o \in Ranks : posted[o][r] \in Calls => left[r] > Base(posted[o][r])
    BY DEF IInv, RankOK, PostOK
  <2>. QED
    BY <1>1, <1>3, <1>10, <2>1, <2>2, ProgramFixed DEF PostOK
<1>14. RankOK(r)'
  BY <1>4, <1>8, <1>12, <1>13 DEF RankOK
<1>. QED
  BY <1>5, <1>6, <1>7, <1>14 DEF IInv

\* The rank entered no barrier, reset nothing and posted nothing.
LEMMA CleanKept ==
  ASSUME IInv, NEW r \in Ranks, program' = program, cleaned'[r] = cleaned[r],
         entered'[r] = entered[r], left'[r] \in Nat, left'[r] >= left[r],
         step'[r] # 7, step'[r] = 3 => Kernel(r)' = "notify"
  PROVE  CleanOK(r)'
<1>1. CleanOK(r) /\ left[r] \in Nat
  BY DEF IInv, Typed, RankOK
<1>2. cleaned[r] \in Calls => left'[r] > Base(cleaned[r])
  <2>. SUFFICES ASSUME cleaned[r] \in Calls PROVE left'[r] > Base(cleaned[r])
    OBVIOUS
  <2>1. Base(cleaned[r]) \in Nat
    BY ProgramLength, BaseIsNat DEF IInv, Typed
  <2>. QED
    BY <1>1, <2>1 DEF CleanOK
<1>. QED
  BY <1>1, <1>2, ProgramFixed DEF CleanOK

LEMMA PostKept ==
  ASSUME IInv, NEW r \in Ranks, program' = program,
         \A o \in Ranks : posted'[o][r] = posted[o][r],
         entered'[r] = entered[r], left'[r] \in Nat, left'[r] >= left[r],
         step'[r] = 3 => Kernel(r)' = "cached"
  PROVE  PostOK(r)'
<1>1. PostOK(r) /\ left[r] \in Nat
  BY DEF IInv, Typed, RankOK
<1>2. \A o \in Ranks : posted[o][r] \in Calls => left'[r] > Base(posted[o][r])
  <2>. SUFFICES ASSUME NEW o \in Ranks, posted[o][r] \in Calls
                PROVE  left'[r] > Base(posted[o][r])
    OBVIOUS
  <2>1. Base(posted[o][r]) \in Nat
    BY ProgramLength, BaseIsNat DEF IInv, Typed
  <2>. QED
    BY <1>1, <2>1 DEF PostOK
<1>. QED
  BY <1>1, <1>2, ProgramFixed DEF PostOK

LEMMA WrittenKept ==
  ASSUME IInv, NEW r \in Ranks, ~ (Busy(r) /\ Kernel(r) = "notify" /\ step[r] = 5),
         written'[r] = written[r]
  PROVE  WrittenOK(r)'
BY DEF IInv, RankOK, WrittenOK

\* A step within a kernel that is no barrier.
LEMMA AdvanceInPlace ==
  ASSUME IInv, NEW r \in Ranks, Busy(r), Advance(r), program' = program, next' = next, host' = host,
         entered' = entered, left' = left,
         step[r] + 1 < Len(Script(Kernel(r))),
         Entries(Kernel(r), step[r] + 1) = Entries(Kernel(r), step[r]),
         Exits(Kernel(r), step[r] + 1) = Exits(Kernel(r), step[r])
  PROVE  /\ HostOK(r)' /\ ChainOK(r)' /\ PositionOK(r)'
         /\ stream' \in [Ranks -> Seq(Kernels)] /\ step' \in [Ranks -> Nat]
         /\ \A q \in Ranks : q # r => stream'[q] = stream[q] /\ step'[q] = step[q]
         /\ stream'[r] = stream[r] /\ step'[r] = step[r] + 1
         /\ Together'
<1>1. /\ entered[r] = StartOf(Head(stream[r])) + Entries(Kernel(r), step[r])
      /\ left[r] = StartOf(Head(stream[r])) + Exits(Kernel(r), step[r])
  BY DEF IInv, RankOK, PositionOK
<1>2. ~ (step[r] + 1 >= Len(Script(Kernel(r))))
  <2>1. Len(Script(Kernel(r))) \in Nat /\ step[r] \in Nat
    BY HeadFacts, ScriptLengths, PositionFacts
  <2>. QED
    BY <2>1
<1>3. Together'
  BY DEF IInv, Together
<1>. QED
  BY <1>1, <1>2, <1>3, AdvanceOK

LEMMA ExitFacts ==
  ASSUME IInv, NEW r \in Ranks, AtStep(r, "leave")
  PROVE  /\ step[r] + 1 < Len(Script(Kernel(r))) =>
              /\ Entries(Kernel(r), step[r] + 1) = Entries(Kernel(r), step[r])
              /\ Exits(Kernel(r), step[r] + 1) = Exits(Kernel(r), step[r]) + 1
         /\ step[r] + 1 >= Len(Script(Kernel(r))) =>
              entered[r] = FinishOf(Head(stream[r])) /\ left[r] + 1 = FinishOf(Head(stream[r]))
         /\ step[r] + 1 \notin {3, 7}
<1>1. /\ Busy(r) /\ \/ Kernel(r) = "notify" /\ step[r] \in {1, 4, 8}
                    \/ Kernel(r) = "cached" /\ step[r] \in {1, 4}
  BY StepKinds
<1>2. /\ FinishOf(Head(stream[r])) = Base(CallOf(r)) + Barriers(CallOf(r))
      /\ Base(CallOf(r)) \in Nat
      /\ Kernel(r) = "notify" => Barriers(CallOf(r)) = 3
      /\ Kernel(r) = "cached" => Barriers(CallOf(r)) = 2
  BY <1>1, HeadFacts DEF FinishOf, CallOf
<1>3. /\ Kernel(r) # "data" => entered[r] = Base(CallOf(r)) + Entries(Kernel(r), step[r])
      /\ Kernel(r) # "data" => left[r] = Base(CallOf(r)) + Exits(Kernel(r), step[r])
  BY <1>1, PositionFacts
<1>. DEFINE L == Len(Script(Kernel(r)))
            F == FinishOf(Head(stream[r]))
<1>4. /\ Kernel(r) = "notify" => L = 9
      /\ Kernel(r) = "cached" => L = 5
  BY ScriptLengths, Zenon
<1>. HIDE DEF L, F
<1>. SUFFICES /\ step[r] + 1 < L =>
                   /\ Entries(Kernel(r), step[r] + 1) = Entries(Kernel(r), step[r])
                   /\ Exits(Kernel(r), step[r] + 1) = Exits(Kernel(r), step[r]) + 1
              /\ step[r] + 1 >= L => entered[r] = F /\ left[r] + 1 = F
              /\ step[r] + 1 \notin {3, 7}
  BY DEF L, F
<1>5. F = Base(CallOf(r)) + Barriers(CallOf(r))
  BY <1>2 DEF F
<1>6. ASSUME step[r] \in {1, 4}, Kernel(r) = "notify" \/ step[r] = 1
      PROVE  /\ Entries(Kernel(r), step[r] + 1) = Entries(Kernel(r), step[r])
             /\ Exits(Kernel(r), step[r] + 1) = Exits(Kernel(r), step[r]) + 1
             /\ step[r] + 1 \notin {3, 7} /\ step[r] + 1 < L
  <2>1. step[r] + 1 < L
    BY <1>1, <1>4, <1>6
  <2>2. /\ Entries(Kernel(r), step[r] + 1) = Entries(Kernel(r), step[r])
        /\ Exits(Kernel(r), step[r] + 1) = Exits(Kernel(r), step[r]) + 1
    BY <1>1, <1>6 DEF Entries, Exits
  <2>. QED
    BY <1>6, <2>1, <2>2
<1>7. CASE Kernel(r) = "notify" /\ step[r] = 8
  <2>1. entered[r] = Base(CallOf(r)) + 3 /\ left[r] = Base(CallOf(r)) + 2
    BY <1>2, <1>3, <1>7 DEF Entries, Exits
  <2>. QED
    BY <1>2, <1>4, <1>5, <1>7, <2>1
<1>8. CASE Kernel(r) = "cached" /\ step[r] = 4
  <2>1. entered[r] = Base(CallOf(r)) + 2 /\ left[r] = Base(CallOf(r)) + 1
    BY <1>2, <1>3, <1>8 DEF Entries, Exits
  <2>. QED
    BY <1>2, <1>4, <1>5, <1>8, <2>1
<1>9. CASE step[r] \in {1, 4} /\ (Kernel(r) = "notify" \/ step[r] = 1)
  <2>1. L \in {5, 9}
    BY <1>1, <1>4
  <2>. QED
    BY <1>6, <1>9, <2>1
<1>. QED
  BY <1>1, <1>7, <1>8, <1>9

LEMMA LeaveBarrierOK ==
  ASSUME IInv, NEW r \in Ranks, LeaveBarrier(r)
  PROVE  IInv'
<1>1. /\ AtStep(r, "leave") /\ Advance(r) /\ program' = program /\ next' = next /\ host' = host
      /\ left[r] < entered[r] /\ \A q \in Ranks : entered[q] >= entered[r]
      /\ left' = [left EXCEPT ![r] = @ + 1] /\ entered' = entered
      /\ UNCHANGED <<seen, sized, total, expert, written, posted, cleaned, begun, feeders>>
  BY DEF LeaveBarrier, Leave, hostVars
<1>2. Busy(r)
  BY <1>1 DEF AtStep
<1>3. /\ left'[r] = left[r] + 1 /\ entered'[r] = entered[r]
      /\ \A q \in Ranks : q # r => left'[q] = left[q]
      /\ left' \in [Ranks -> Nat] /\ left[r] \in Nat
  BY <1>1 DEF IInv, Typed
<1>4. /\ HostOK(r)' /\ ChainOK(r)' /\ PositionOK(r)'
      /\ stream' \in [Ranks -> Seq(Kernels)] /\ step' \in [Ranks -> Nat]
      /\ \A q \in Ranks : q # r => stream'[q] = stream[q] /\ step'[q] = step[q]
      /\ step'[r] \in {0, step[r] + 1}
  <2>1. /\ entered[r] = StartOf(Head(stream[r])) + Entries(Kernel(r), step[r])
        /\ left[r] = StartOf(Head(stream[r])) + Exits(Kernel(r), step[r])
    BY <1>2 DEF IInv, RankOK, PositionOK
  <2>2. StartOf(Head(stream[r])) \in Nat /\ Exits(Kernel(r), step[r]) \in Nat
    <3>1. CallOf(r) + 1 \in Nat
      BY <1>2, HeadFacts
    <3>. QED
      BY <1>2, <3>1, HeadFacts, BaseIsNat DEF StartOf, CallOf, Exits
  <2>3. step[r] + 1 < Len(Script(Kernel(r))) =>
          /\ entered'[r] = StartOf(Head(stream[r])) + Entries(Kernel(r), step[r] + 1)
          /\ left'[r]    = StartOf(Head(stream[r])) + Exits(Kernel(r), step[r] + 1)
    BY <1>1, <1>3, <2>1, <2>2, ExitFacts
  <2>4. step[r] + 1 >= Len(Script(Kernel(r))) =>
          entered'[r] = FinishOf(Head(stream[r])) /\ left'[r] = FinishOf(Head(stream[r]))
    BY <1>1, <1>3, ExitFacts
  <2>. QED
    BY <1>1, <1>2, <2>3, <2>4, AdvanceOK
<1>5. Typed'
  BY <1>1, <1>3, <1>4, ProgramFixed DEF IInv, Typed
<1>6. Together'
  <2>1. ASSUME NEW q \in Ranks, NEW o \in Ranks PROVE left'[q] <= entered'[o]
    <3>1. CASE q = r
      <4>1. entered[r] \in Nat /\ entered[o] \in Nat
        BY DEF IInv, Typed
      <4>. QED
        BY <1>1, <1>3, <3>1, <4>1
    <3>2. CASE q # r
      BY <1>1, <1>3, <3>2 DEF IInv, Together
    <3>. QED
      BY <3>1, <3>2
  <2>. QED
    BY <2>1 DEF Together
<1>7. \A q \in Ranks : q # r => RankOK(q)'
  BY <1>1, <1>3, <1>4, RankKept DEF IInv
<1>8. step'[r] \notin {3, 7}
  BY <1>1, <1>4, ExitFacts
<1>9. WrittenOK(r)'
  <2>1. ~ (Kernel(r) = "notify" /\ step[r] = 5)
    BY <1>1, StepKinds
  <2>. QED
    BY <1>1, <2>1, WrittenKept
<1>10. CleanOK(r)' /\ PostOK(r)'
  BY <1>1, <1>3, <1>8, CleanKept, PostKept
<1>. QED
  BY <1>4, <1>5, <1>6, <1>7, <1>9, <1>10 DEF IInv, RankOK

\* What the barriers say of all ranks to one that is within a kernel.
LEMMA OtherCalls ==
  ASSUME IInv, NEW r \in Ranks, Busy(r), NEW j \in Calls
  PROVE  /\ j \in Nat \ {0} /\ Base(j) \in Nat /\ Barriers(j) \in {0, 2, 3}
         /\ program[j] \in NotifyKinds => Barriers(j) = 3
         /\ CallOf(r) < j => Base(CallOf(r)) + Barriers(CallOf(r)) <= Base(j)
         /\ j < CallOf(r) => Base(j) + Barriers(j) <= Base(CallOf(r))
<1>1. j \in Nat \ {0} /\ CallOf(r) \in Nat \ {0}
  BY HeadFacts, ProgramLength DEF IInv, Typed
<1>. QED
  BY <1>1, BaseSteps, CallsInOrder

\* When a rank sums up the counts in its buffer, they are all of its own call.
LEMMA CountsRight ==
  ASSUME IInv, NEW r \in Ranks, AtStep(r, "counts")
  PROVE  Summed(r) = CallOf(r)
<1>. DEFINE k == CallOf(r)
<1>1. Busy(r) /\ Kernel(r) = "notify" /\ step[r] = 5
  BY StepKinds
<1>2. /\ k \in Calls /\ k \in Nat /\ Base(k) \in Nat /\ Barriers(k) = 3
      /\ program[k] \in NotifyKinds
  BY <1>1, HeadFacts
<1>3. entered[r] = Base(k) + 2 /\ left[r] = Base(k) + 2
  BY <1>1, <1>2, PositionFacts DEF Entries, Exits
<1>4. ASSUME NEW q \in Ranks PROVE posted[r][q] = k
  <2>1. left[r] <= entered[q] /\ left[q] <= entered[r] /\ entered[q] \in Nat /\ left[q] \in Nat
    BY DEF IInv, Typed, Together
  <2>2. posted[r][q] >= k
    BY <1>2, <1>3, <2>1 DEF IInv, RankOK, PostOK
  <2>3. posted[r][q] \in Calls
    BY <1>2, <2>2 DEF IInv, Typed
  <2>4. left[q] > Base(posted[r][q])
    BY <2>3 DEF IInv, RankOK, PostOK
  <2>5. ~ (k < posted[r][q])
    <3>. DEFINE p == posted[r][q]
    <3>1. p \in Nat /\ Base(p) \in Nat /\ (k < p => Base(k) + 3 <= Base(p))
      BY <1>1, <1>2, <2>3, OtherCalls
    <3>2. Base(p) < Base(k) + 2
      BY <1>2, <1>3, <2>1, <2>4, <3>1
    <3>. QED
      BY <1>2, <3>1, <3>2
  <2>6. posted[r][q] \in Nat
    BY <1>1, <2>3, OtherCalls
  <2>. QED
    BY <1>2, <2>2, <2>5, <2>6
<1>. QED
  BY <1>4 DEF Summed

LEMMA PostCountsOK ==
  ASSUME IInv, NEW r \in Ranks, PostCounts(r)
  PROVE  IInv'
<1>. DEFINE k == CallOf(r)
<1>1. /\ AtStep(r, "post") /\ Advance(r) /\ program' = program /\ next' = next /\ host' = host
      /\ left' = left /\ entered' = entered
      /\ posted' = [q \in Ranks |-> [posted[q] EXCEPT ![r] = k]]
      /\ UNCHANGED <<seen, sized, total, expert, written, cleaned, begun, feeders>>
  BY DEF PostCounts, hostVars, barrierVars
<1>2. Busy(r) /\ Kernel(r) = "notify" /\ step[r] = 2
  BY <1>1, StepKinds
<1>3. k \in Calls /\ k \in Nat /\ Base(k) \in Nat /\ Barriers(k) = 3
  BY <1>2, HeadFacts
<1>4. /\ \A o \in Ranks : posted'[o][r] = k
      /\ \A o, q \in Ranks : q # r => posted'[o][q] = posted[o][q]
      /\ posted' \in [Ranks -> [Ranks -> Calls \cup {0}]]
  BY <1>1, <1>3 DEF IInv, Typed
<1>5. /\ HostOK(r)' /\ ChainOK(r)' /\ PositionOK(r)'
      /\ stream' \in [Ranks -> Seq(Kernels)] /\ step' \in [Ranks -> Nat]
      /\ \A q \in Ranks : q # r => stream'[q] = stream[q] /\ step'[q] = step[q]
      /\ stream'[r] = stream[r] /\ step'[r] = 3 /\ Together'
  <2>1. step[r] \in Nat /\ step[r] < 8
    BY <1>2
  <2>2. step[r] + 1 < Len(Script(Kernel(r)))
    BY <1>2, <2>1, BelowLength
  <2>3. /\ Entries(Kernel(r), step[r] + 1) = Entries(Kernel(r), step[r])
        /\ Exits(Kernel(r), step[r] + 1) = Exits(Kernel(r), step[r])
    BY <1>2 DEF Entries, Exits
  <2>4. step[r] + 1 = 3
    BY <1>2
  <2>. QED
    BY <1>1, <1>2, <2>2, <2>3, <2>4, AdvanceInPlace
<1>6. Typed'
  BY <1>1, <1>4, <1>5, ProgramFixed DEF IInv, Typed
<1>7. \A q \in Ranks : q # r => RankOK(q)'
  BY <1>1, <1>4, <1>5, RankKept DEF IInv
<1>8. Busy(r)' = Busy(r) /\ Kernel(r)' = "notify" /\ CallOf(r)' = k
  BY <1>2, <1>5 DEF Busy, Kernel, CallOf
<1>9. CleanOK(r)' /\ WrittenOK(r)'
  <2>1. left'[r] \in Nat /\ left'[r] >= left[r]
    BY <1>1 DEF IInv, Typed
  <2>. QED
    BY <1>1, <1>2, <1>5, <1>8, <2>1, CleanKept, WrittenKept
<1>10. PostOK(r)'
  <2>1. entered[r] = Base(k) + 1 /\ left[r] = Base(k) + 1
    BY <1>2, <1>3, PositionFacts DEF Entries, Exits
  <2>2. \A j \in Calls : entered[r] >= Base(j) + 2 => k >= j
    <3>. TAKE j \in Calls
    <3>1. j \in Nat /\ Base(j) \in Nat /\ (k < j => Base(k) + 3 <= Base(j))
      BY <1>2, <1>3, OtherCalls
    <3>. HIDE DEF k
    <3>. QED
      BY <1>3, <2>1, <3>1
  <2>3. left[r] > Base(k)
    BY <1>3, <2>1
  <2>. HIDE DEF k
  <2>. QED
    BY <1>1, <1>4, <1>8, <2>2, <2>3, ProgramFixed DEF PostOK
<1>. QED
  BY <1>5, <1>6, <1>7, <1>9, <1>10 DEF IInv, RankOK

LEMMA CleanQueuesOK ==
  ASSUME IInv, NEW r \in Ranks, CleanQueues(r)
  PROVE  IInv'
<1>. DEFINE k == CallOf(r)
<1>1. /\ AtStep(r, "clean") /\ Advance(r) /\ program' = program /\ next' = next /\ host' = host
      /\ left' = left /\ entered' = entered /\ cleaned' = [cleaned EXCEPT ![r] = k]
      /\ UNCHANGED <<seen, sized, total, expert, written, posted, begun, feeders>>
  BY DEF CleanQueues, hostVars, barrierVars
<1>2. Busy(r) /\ \/ Kernel(r) = "notify" /\ step[r] = 6
                 \/ Kernel(r) = "cached" /\ step[r] = 2
  BY <1>1, StepKinds
<1>3. /\ k \in Calls /\ k \in Nat /\ Base(k) \in Nat
      /\ Kernel(r) = "notify" => Barriers(k) = 3
      /\ Kernel(r) = "cached" => Barriers(k) = 2
  BY <1>2, HeadFacts
<1>4. /\ cleaned'[r] = k /\ \A q \in Ranks : q # r => cleaned'[q] = cleaned[q]
      /\ cleaned' \in [Ranks -> Calls \cup {0}]
  BY <1>1, <1>3 DEF IInv, Typed
<1>5. /\ HostOK(r)' /\ ChainOK(r)' /\ PositionOK(r)'
      /\ stream' \in [Ranks -> Seq(Kernels)] /\ step' \in [Ranks -> Nat]
      /\ \A q \in Ranks : q # r => stream'[q] = stream[q] /\ step'[q] = step[q]
      /\ stream'[r] = stream[r] /\ step'[r] = step[r] + 1 /\ Together'
  <2>1. /\ step[r] \in Nat
        /\ \/ Kernel(r) = "notify" /\ step[r] < 8
           \/ Kernel(r) = "cached" /\ step[r] < 4
    BY <1>2
  <2>2. step[r] + 1 < Len(Script(Kernel(r)))
    BY <2>1, BelowLength
  <2>3. /\ Entries(Kernel(r), step[r] + 1) = Entries(Kernel(r), step[r])
        /\ Exits(Kernel(r), step[r] + 1) = Exits(Kernel(r), step[r])
    BY <1>2 DEF Entries, Exits
  <2>. QED
    BY <1>1, <1>2, <2>2, <2>3, AdvanceInPlace
<1>6. Typed'
  BY <1>1, <1>4, <1>5, ProgramFixed DEF IInv, Typed
<1>7. \A q \in Ranks : q # r => RankOK(q)'
  BY <1>1, <1>4, <1>5, RankKept DEF IInv
<1>8. Busy(r)' = Busy(r) /\ Kernel(r)' = Kernel(r) /\ CallOf(r)' = k
  BY <1>5 DEF Busy, Kernel, CallOf
<1>9. PostOK(r)' /\ WrittenOK(r)'
  <2>1. left'[r] \in Nat /\ left'[r] >= left[r]
    BY <1>1 DEF IInv, Typed
  <2>2. step'[r] = 3 => Kernel(r)' = "cached"
    BY <1>2, <1>5, <1>8
  <2>3. ~ (Kernel(r) = "notify" /\ step[r] = 5)
    BY <1>2
  <2>. QED
    BY <1>1, <2>1, <2>2, <2>3, PostKept, WrittenKept
<1>10. CleanOK(r)'
  <2>1. /\ Kernel(r) = "notify" => entered[r] = Base(k) + 2 /\ left[r] = Base(k) + 2
        /\ Kernel(r) = "cached" => entered[r] = Base(k) + 1 /\ left[r] = Base(k) + 1
    BY <1>2, <1>3, PositionFacts DEF Entries, Exits
  <2>2. \A j \in Calls : entered[r] >= Base(j) + Barriers(j) => k >= j
    <3>. TAKE j \in Calls
    <3>1. /\ j \in Nat /\ Base(j) \in Nat /\ Barriers(j) \in Nat
          /\ (k < j => Base(k) + Barriers(k) <= Base(j))
      BY <1>2, <1>3, OtherCalls
    <3>. HIDE DEF k
    <3>. QED
      BY <1>2, <1>3, <2>1, <3>1
  <2>3. left[r] > Base(k)
    BY <1>2, <1>3, <2>1
  <2>. HIDE DEF k
  <2>. QED
    BY <1>1, <1>4, <1>8, <2>2, <2>3, ProgramFixed DEF CleanOK
<1>. QED
  BY <1>5, <1>6, <1>7, <1>9, <1>10 DEF IInv, RankOK

LEMMA StoreCountsOK ==
  ASSUME IInv, NEW r \in Ranks, StoreCounts(r)
  PROVE  IInv'
<1>. DEFINE k == CallOf(r)
<1>1. /\ AtStep(r, "counts") /\ program' = program /\ next' = next /\ host' = host
      /\ left' = left /\ entered' = entered
      /\ UNCHANGED <<seen, sized, posted, cleaned, begun, feeders>>
  BY DEF StoreCounts, hostVars, barrierVars
<1>2. PICK c \in {"total", "expert"} \ written[r] :
        /\ \/ total' = [total EXCEPT ![r] = Summed(r)] /\ expert' = expert
           \/ expert' = [expert EXCEPT ![r] = Summed(r)] /\ total' = total
        /\ IF written[r] = {}
           THEN written' = [written EXCEPT ![r] = {c}] /\ UNCHANGED <<step, stream>>
           ELSE written' = [written EXCEPT ![r] = {}] /\ Advance(r)
  BY DEF StoreCounts
<1>3. Busy(r) /\ Kernel(r) = "notify" /\ step[r] = 5
  BY <1>1, StepKinds
<1>4. Summed(r) \in Calls
  BY <1>1, <1>3, CountsRight, HeadFacts
<1>5. /\ total' \in [Ranks -> Calls \cup {Unready}]
      /\ expert' \in [Ranks -> Calls \cup {Unready}]
      /\ written' \in [Ranks -> {{}, {"total"}, {"expert"}}]
      /\ \A q \in Ranks : q # r => written'[q] = written[q]
  <2>1. total \in [Ranks -> Calls \cup {Unready}] /\ expert \in [Ranks -> Calls \cup {Unready}]
    BY DEF IInv, Typed
  <2>2. total' \in [Ranks -> Calls \cup {Unready}] /\ expert' \in [Ranks -> Calls \cup {Unready}]
    BY <1>2, <1>4, <2>1
  <2>3. PICK w \in {{}, {"total"}, {"expert"}} : written' = [written EXCEPT ![r] = w]
    BY <1>2
  <2>. QED
    BY <2>2, <2>3 DEF IInv, Typed
<1>6. CASE written[r] = {}
  <2>1. step' = step /\ stream' = stream
    BY <1>2, <1>6
  <2>2. Typed' /\ Together'
    BY <1>1, <1>5, <2>1, ProgramFixed DEF IInv, Typed, Together
  <2>3. \A q \in Ranks : q # r => RankOK(q)'
    BY <1>1, <1>5, <2>1, RankKept DEF IInv
  <2>4. HostOK(r)' /\ ChainOK(r)' /\ PositionOK(r)'
    BY <1>1, <2>1, ChainKept, PositionKept DEF IInv, RankOK
  <2>5. WrittenOK(r)'
    BY <1>3, <2>1 DEF WrittenOK, Busy, Kernel
  <2>6. CleanOK(r)' /\ PostOK(r)'
    <3>1. left'[r] \in Nat /\ left'[r] >= left[r]
      BY <1>1 DEF IInv, Typed
    <3>. QED
      BY <1>1, <1>3, <2>1, <3>1, CleanKept, PostKept
  <2>. QED
    BY <2>2, <2>3, <2>4, <2>5, <2>6 DEF IInv, RankOK
<1>7. CASE written[r] # {}
  <2>1. Advance(r) /\ written'[r] = {}
    BY <1>2, <1>7 DEF IInv, Typed
  <2>2. /\ HostOK(r)' /\ ChainOK(r)' /\ PositionOK(r)'
        /\ stream' \in [Ranks -> Seq(Kernels)] /\ step' \in [Ranks -> Nat]
        /\ \A q \in Ranks : q # r => stream'[q] = stream[q] /\ step'[q] = step[q]
        /\ stream'[r] = stream[r] /\ step'[r] = 6 /\ Together'
    <3>1. step[r] \in Nat /\ step[r] < 8
      BY <1>3
    <3>2. step[r] + 1 < Len(Script(Kernel(r)))
      BY <1>3, <3>1, BelowLength
    <3>3. /\ Entries(Kernel(r), step[r] + 1) = Entries(Kernel(r), step[r])
          /\ Exits(Kernel(r), step[r] + 1) = Exits(Kernel(r), step[r])
      BY <1>3 DEF Entries, Exits
    <3>4. step[r] + 1 = 6
      BY <1>3
    <3>. QED
      BY <1>1, <1>3, <2>1, <3>2, <3>3, <3>4, AdvanceInPlace
  <2>3. Typed'
    BY <1>1, <1>5, <2>2, ProgramFixed DEF IInv, Typed
  <2>4. \A q \in Ranks : q # r => RankOK(q)'
    BY <1>1, <1>5, <2>2, RankKept DEF IInv
  <2>5. WrittenOK(r)'
    BY <2>1 DEF WrittenOK
  <2>6. CleanOK(r)' /\ PostOK(r)'
    <3>1. left'[r] \in Nat /\ left'[r] >= left[r]
      BY <1>1 DEF IInv, Typed
    <3>. QED
      BY <1>1, <2>2, <3>1, CleanKept, PostKept
  <2>. QED
    BY <2>2, <2>3, <2>4, <2>5, <2>6 DEF IInv, RankOK
<1>. QED
  BY <1>6, <1>7

LEMMA BeginDataOK ==
  ASSUME IInv, NEW r \in Ranks, BeginData(r)
  PROVE  IInv'
<1>1. /\ AtStep(r, "begin") /\ Advance(r) /\ program' = program /\ next' = next /\ host' = host
      /\ left' = left /\ entered' = entered /\ begun' = [begun EXCEPT ![r] = CallOf(r)]
      /\ UNCHANGED <<seen, sized, total, expert, written, posted, cleaned>>
  BY DEF BeginData, hostVars, barrierVars
<1>2. Busy(r) /\ Kernel(r) = "data" /\ step[r] = 0
  BY <1>1, StepKinds
<1>3. begun' \in [Ranks -> Calls \cup {0}] /\ feeders' \in [Ranks -> SUBSET Ranks]
  <2>1. PICK set \in SUBSET Ranks : feeders' = [feeders EXCEPT ![r] = set]
    BY DEF BeginData, FeederSets
  <2>. QED
    BY <1>1, <1>2, <2>1, HeadFacts DEF IInv, Typed
<1>4. /\ HostOK(r)' /\ ChainOK(r)' /\ PositionOK(r)'
      /\ stream' \in [Ranks -> Seq(Kernels)] /\ step' \in [Ranks -> Nat]
      /\ \A q \in Ranks : q # r => stream'[q] = stream[q] /\ step'[q] = step[q]
      /\ stream'[r] = stream[r] /\ step'[r] = 1 /\ Together'
  <2>1. step[r] \in Nat /\ step[r] < 1
    BY <1>2
  <2>2. step[r] + 1 < Len(Script(Kernel(r)))
    BY <1>2, <2>1, BelowLength
  <2>3. /\ Entries(Kernel(r), step[r] + 1) = Entries(Kernel(r), step[r])
        /\ Exits(Kernel(r), step[r] + 1) = Exits(Kernel(r), step[r])
    BY <1>2 DEF Entries, Exits
  <2>4. step[r] + 1 = 1
    BY <1>2
  <2>. QED
    BY <1>1, <1>2, <2>2, <2>3, <2>4, AdvanceInPlace
<1>5. Typed'
  BY <1>1, <1>3, <1>4, ProgramFixed DEF IInv, Typed
<1>6. \A q \in Ranks : q # r => RankOK(q)'
  BY <1>1, <1>4, RankKept DEF IInv
<1>7. CleanOK(r)' /\ PostOK(r)' /\ WrittenOK(r)'
  <2>1. left'[r] \in Nat /\ left'[r] >= left[r]
    BY <1>1 DEF IInv, Typed
  <2>. QED
    BY <1>1, <1>2, <1>4, <2>1, CleanKept, PostKept, WrittenKept
<1>. QED
  BY <1>4, <1>5, <1>6, <1>7 DEF IInv, RankOK

LEMMA EndDataOK ==
  ASSUME IInv, NEW r \in Ranks, EndData(r)
  PROVE  IInv'
<1>1. /\ AtStep(r, "end") /\ Advance(r) /\ program' = program /\ next' = next /\ host' = host
      /\ left' = left /\ entered' = entered
      /\ UNCHANGED <<seen, sized, total, expert, written, posted, cleaned, begun>>
  BY DEF EndData, hostVars, barrierVars
<1>2. Busy(r) /\ Kernel(r) = "data" /\ step[r] = 1
  BY <1>1, StepKinds
<1>3. ~ (step[r] + 1 < Len(Script(Kernel(r))))
  <2>. DEFINE L == Len(Script(Kernel(r)))
  <2>1. L = 2
    BY <1>2, ScriptLengths, Zenon
  <2>. HIDE DEF L
  <2>2. ~ (step[r] + 1 < L)
    BY <1>2, <2>1
  <2>. QED
    BY <2>2 DEF L
<1>4. entered'[r] = FinishOf(Head(stream[r])) /\ left'[r] = FinishOf(Head(stream[r]))
  <2>1. Base(CallOf(r) + 1) \in Nat
    BY <1>2, HeadFacts
  <2>2. entered[r] = Base(CallOf(r) + 1) /\ left[r] = Base(CallOf(r) + 1)
    BY <1>2, <2>1, PositionFacts DEF Entries, Exits
  <2>. QED
    BY <1>1, <2>2 DEF FinishOf, CallOf
<1>5. /\ HostOK(r)' /\ ChainOK(r)' /\ PositionOK(r)'
      /\ stream' \in [Ranks -> Seq(Kernels)] /\ step' \in [Ranks -> Nat]
      /\ \A q \in Ranks : q # r => stream'[q] = stream[q] /\ step'[q] = step[q]
      /\ step'[r] = 0
  BY <1>1, <1>2, <1>3, <1>4, AdvanceOK
<1>6. Typed' /\ Together'
  <2>1. feeders' \in [Ranks -> SUBSET Ranks]
    BY DEF EndData, IInv, Typed
  <2>. QED
    BY <1>1, <1>5, <2>1, ProgramFixed DEF IInv, Typed, Together
<1>7. \A q \in Ranks : q # r => RankOK(q)'
  BY <1>1, <1>5, RankKept DEF IInv
<1>8. CleanOK(r)' /\ PostOK(r)' /\ WrittenOK(r)'
  <2>1. left'[r] \in Nat /\ left'[r] >= left[r]
    BY <1>1 DEF IInv, Typed
  <2>. QED
    BY <1>1, <1>2, <1>5, <2>1, CleanKept, PostKept, WrittenKept
<1>. QED
  BY <1>5, <1>6, <1>7, <1>8 DEF IInv, RankOK

-----------------------------------------------------------------------------
(* The hosts, one lemma for each step.                                     *)

LEMMA ChainFrom ==
  ASSUME NEW r \in Ranks, NEW t, program' = program, stream'[r] = t,
         \A i \in 1 .. Len(t) : KernelOK(t[i]),
         \A i \in 1 .. Len(t) - 1 : FinishOf(t[i]) = StartOf(t[i + 1]),
         FinishOf(t[Len(t)]) = Ahead(r)'
  PROVE  ChainOK(r)'
<1>1. /\ \A i \in 1 .. Len(t) : KernelOK(t[i])'
      /\ \A i \in 1 .. Len(t) - 1 : FinishOf(t[i])' = StartOf(t[i + 1])'
      /\ FinishOf(t[Len(t)])' = Ahead(r)'
  BY ProgramFixed
<1>. QED
  BY <1>1 DEF ChainOK

\* The host appends kernels that begin where the stream ends.
LEMMA LaunchOK ==
  ASSUME IInv, NEW r \in Ranks, NEW news \in Seq(Kernels), Len(news) > 0,
         stream' = [stream EXCEPT ![r] = @ \o news],
         UNCHANGED <<program, step, entered, left, written, posted, cleaned>>,
         \A i \in 1 .. Len(news) : KernelOK(news[i]),
         \A i \in 1 .. Len(news) - 1 : FinishOf(news[i]) = StartOf(news[i + 1]),
         StartOf(news[1]) = Ahead(r), FinishOf(news[Len(news)]) = Ahead(r)', HostOK(r)',
         \A q \in Ranks : q # r => host'[q] = host[q] /\ next'[q] = next[q]
  PROVE  /\ stream' \in [Ranks -> Seq(Kernels)]
         /\ \A q \in Ranks : RankOK(q)'
<1>. DEFINE s == stream[r]
            t == s \o news
            n == Len(s)
            m == Len(news)
<1>0. stream \in [Ranks -> Seq(Kernels)] /\ s \in Seq(Kernels) /\ n \in Nat /\ m \in Nat
  BY DEF IInv, Typed
<1>1. /\ t \in Seq(Kernels) /\ Len(t) = n + m
      /\ \A i \in 1 .. n : t[i] = s[i]
      /\ \A i \in 1 .. m : t[n + i] = news[i]
  <2>1. /\ Len(t) = n + m
        /\ \A i \in 1 .. n + m : t[i] = IF i <= n THEN s[i] ELSE news[i - n]
    BY <1>0, ConcatProperties
  <2>2. t \in Seq(Kernels)
    BY <1>0, ConcatProperties
  <2>. HIDE DEF t, s, n, m
  <2>3. ASSUME NEW i \in 1 .. m PROVE t[n + i] = news[i]
    <3>1. n + i \in 1 .. n + m /\ ~ (n + i <= n) /\ (n + i) - n = i
      BY <1>0
    <3>. QED
      BY <2>1, <3>1
  <2>4. ASSUME NEW i \in 1 .. n PROVE t[i] = s[i]
    <3>1. i \in 1 .. n + m /\ i <= n
      BY <1>0
    <3>. QED
      BY <2>1, <3>1
  <2>. QED
    BY <2>1, <2>2, <2>3, <2>4
<1>2. stream'[r] = t /\ (\A q \in Ranks : q # r => stream'[q] = stream[q])
  BY <1>0
<1>3. stream' \in [Ranks -> Seq(Kernels)]
  BY <1>0, <1>1
<1>4. m > 0 /\ (s # <<>> <=> n > 0) /\ t # <<>>
  BY <1>0, <1>1, EmptySeq
<1>5. ChainOK(r) /\ PositionOK(r)
  BY DEF IInv, RankOK
<1>6. /\ \A i \in 1 .. n : KernelOK(s[i])
      /\ \A i \in 1 .. n - 1 : FinishOf(s[i]) = StartOf(s[i + 1])
      /\ n > 0 => FinishOf(s[n]) = Ahead(r)
  BY <1>4, <1>5 DEF ChainOK, Busy
<1>7. ChainOK(r)'
  <2>1. ASSUME NEW i \in 1 .. n + m PROVE KernelOK(t[i])
    <3>1. CASE i <= n
      <4>1. i \in 1 .. n
        BY <1>0, <3>1
      <4>. HIDE DEF t, s, n, m
      <4>. QED
        BY <1>1, <1>6, <4>1
    <3>2. CASE i > n
      <4>1. i - n \in 1 .. m /\ n + (i - n) = i
        BY <1>0, <3>2
      <4>2. KernelOK(news[i - n])
        BY <4>1
      <4>. HIDE DEF t, s, n, m
      <4>. QED
        BY <1>1, <4>1, <4>2
    <3>. QED
      BY <1>0, <3>1, <3>2
  <2>2. ASSUME NEW i \in 1 .. (n + m) - 1 PROVE FinishOf(t[i]) = StartOf(t[i + 1])
    <3>. HIDE DEF t, s, n
    <3>1. CASE i < n
      <4>1. i \in 1 .. n - 1 /\ i \in 1 .. n /\ i + 1 \in 1 .. n
        BY <1>0, <3>1
      <4>. QED
        BY <1>1, <1>6, <4>1
    <3>2. CASE i = n
      <4>1. n \in 1 .. n /\ n > 0 /\ 1 \in 1 .. m
        BY <1>0, <1>4, <3>2
      <4>2. t[i] = s[n] /\ t[n + 1] = news[1]
        BY <1>1, <3>2, <4>1
      <4>. QED
        BY <1>6, <3>2, <4>1, <4>2
    <3>3. CASE i > n
      <4>1. i - n \in 1 .. m - 1 /\ i - n \in 1 .. m /\ (i - n) + 1 \in 1 .. m
        BY <1>0, <3>3, SMTT(30), ZenonT(30)
      <4>2. n + (i - n) = i /\ n + ((i - n) + 1) = i + 1
        BY <1>0, <3>3
      <4>3. t[i] = news[i - n] /\ t[i + 1] = news[(i - n) + 1]
        BY <1>1, <4>1, <4>2, SMTT(30), ZenonT(30)
      <4>4. FinishOf(news[i - n]) = StartOf(news[(i - n) + 1])
        BY <4>1
      <4>. QED
        BY <4>3, <4>4
    <3>. QED
      BY <1>0, <3>1, <3>2, <3>3
  <2>3. t[n + m] = news[m]
    <3>1. m \in 1 .. m
      BY <1>0, <1>4
    <3>. HIDE DEF t, s, n, m
    <3>. QED
      BY <1>1, <3>1
  <2>4. FinishOf(t[n + m]) = Ahead(r)'
    BY <2>3
  <2>. HIDE DEF t, s, n, m
  <2>5. \A i \in 1 .. Len(t) : KernelOK(t[i])
    BY <1>1, <2>1
  <2>6. \A i \in 1 .. Len(t) - 1 : FinishOf(t[i]) = StartOf(t[i + 1])
    BY <1>1, <2>2
  <2>7. FinishOf(t[Len(t)]) = Ahead(r)'
    BY <1>1, <2>4
  <2>. QED
    BY <1>2, <2>5, <2>6, <2>7, ChainFrom
<1>8. Busy(r)' /\ Head(stream[r])' = t[1]
  BY <1>1, <1>2, <1>4 DEF Busy
<1>9. ASSUME Busy(r) PROVE RankOK(r)'
  <2>1. t[1] = Head(stream[r])
    <3>1. 1 \in 1 .. n /\ Head(s) = s[1]
      BY <1>0, <1>4, <1>9, HeadFacts DEF Busy
    <3>2. t[1] = s[1]
      BY <1>1, <3>1
    <3>. QED
      BY <3>1, <3>2
  <2>2. Kernel(r)' = Kernel(r) /\ CallOf(r)' = CallOf(r)
    BY <1>8, <2>1 DEF Kernel, CallOf
  <2>3. PositionOK(r)'
    <3>. HIDE DEF t, s
    <3>. QED
      BY <1>5, <1>8, <1>9, <2>1, <2>2, ProgramFixed DEF PositionOK
  <2>4. WrittenOK(r)' /\ CleanOK(r)' /\ PostOK(r)'
    <3>. HIDE DEF t, s
    <3>1. WrittenOK(r) /\ CleanOK(r) /\ PostOK(r)
      BY DEF IInv, RankOK
    <3>2. WrittenOK(r)'
      BY <1>8, <2>2, <3>1 DEF WrittenOK
    <3>3. CleanOK(r)'
      BY <1>9, <2>2, <3>1, ProgramFixed DEF CleanOK
    <3>4. PostOK(r)'
      BY <1>9, <2>2, <3>1, ProgramFixed DEF PostOK
    <3>. QED
      BY <3>2, <3>3, <3>4
  <2>. QED
    BY <1>7, <2>3, <2>4 DEF RankOK
<1>10. ASSUME ~ Busy(r) PROVE RankOK(r)'
  <2>1. t[1] = news[1]
    <3>1. n = 0 /\ 1 \in 1 .. m
      BY <1>0, <1>4, <1>10 DEF Busy
    <3>2. t[n + 1] = news[1]
      BY <1>1, <3>1
    <3>3. n + 1 = 1
      BY <3>1
    <3>. HIDE DEF t, n
    <3>. QED
      BY <3>2, <3>3
  <2>2. step[r] = 0 /\ entered[r] = Ahead(r) /\ left[r] = Ahead(r)
    BY <1>5, <1>10 DEF PositionOK
  <2>3. news[1][1] \in {"notify", "cached", "data"} /\ news[1][2] \in Nat
    BY DEF Kernels
  <2>4. 0 < Len(Script(news[1][1]))
    <3>1. Len(Script(news[1][1])) \in Nat \ {0}
      BY <2>3, ScriptLengths
    <3>. QED
      BY <3>1
  <2>5. StartOf(news[1]) \in Nat
    <3>1. news[1][2] + 1 \in Nat
      BY <2>3
    <3>. QED
      BY <2>3, <3>1, BaseIsNat DEF StartOf
  <2>6. Entries(news[1][1], 0) = 0 /\ Exits(news[1][1], 0) = 0
    BY DEF Entries, Exits
  <2>7. /\ Kernel(r)' = news[1][1] /\ StartOf(Head(stream[r]))' = StartOf(news[1])
        /\ step'[r] = 0
    BY <1>8, <2>1, <2>2, ProgramFixed DEF Kernel
  <2>8. PositionOK(r)'
    <3>. HIDE DEF t, s
    <3>. QED
      BY <1>8, <2>2, <2>4, <2>5, <2>6, <2>7 DEF PositionOK
  <2>9. WrittenOK(r)' /\ CleanOK(r)' /\ PostOK(r)'
    <3>. HIDE DEF t, s
    <3>1. WrittenOK(r) /\ CleanOK(r) /\ PostOK(r)
      BY DEF IInv, RankOK
    <3>2. WrittenOK(r)'
      BY <1>10, <3>1 DEF WrittenOK
    <3>3. CleanOK(r)'
      BY <2>7, <3>1, ProgramFixed DEF CleanOK
    <3>4. PostOK(r)'
      BY <2>7, <3>1, ProgramFixed DEF PostOK
    <3>. QED
      BY <3>2, <3>3, <3>4
  <2>. QED
    BY <1>7, <2>8, <2>9 DEF RankOK
<1>11. \A q \in Ranks : q # r => RankOK(q)'
  BY <1>2, RankKept DEF IInv
<1>. QED
  BY <1>3, <1>9, <1>10, <1>11

LEMMA LaunchOne ==
  ASSUME NEW r \in Ranks, NEW a \in {"notify", "cached", "data"}, Launch(r, <<a>>), next[r] \in Nat
  PROVE  LET news == << <<a, next[r]>> >> IN
         /\ news \in Seq(Kernels) /\ Len(news) = 1 /\ news[1] = <<a, next[r]>>
         /\ stream' = [stream EXCEPT ![r] = @ \o news]
<1>1. [i \in 1 .. Len(<<a>>) |-> << <<a>>[i], next[r]>>] = << <<a, next[r]>> >>
  OBVIOUS
<1>2. <<a, next[r]>> \in Kernels
  BY DEF Kernels
<1>3. stream' = [stream EXCEPT ![r] = @ \o << <<a, next[r]>> >>]
  BY <1>1 DEF Launch
<1>. QED
  BY <1>2, <1>3

LEMMA LaunchTwo ==
  ASSUME NEW r \in Ranks, NEW a \in {"notify", "cached", "data"},
         NEW b \in {"notify", "cached", "data"}, Launch(r, <<a, b>>), next[r] \in Nat
  PROVE  LET news == << <<a, next[r]>>, <<b, next[r]>> >> IN
         /\ news \in Seq(Kernels) /\ Len(news) = 2
         /\ news[1] = <<a, next[r]>> /\ news[2] = <<b, next[r]>>
         /\ stream' = [stream EXCEPT ![r] = @ \o news]
<1>1. [i \in 1 .. Len(<<a, b>>) |-> << <<a, b>>[i], next[r]>>]
        = << <<a, next[r]>>, <<b, next[r]>> >>
  OBVIOUS
<1>2. <<a, next[r]>> \in Kernels /\ <<b, next[r]>> \in Kernels
  BY DEF Kernels
<1>3. stream' = [stream EXCEPT ![r] = @ \o << <<a, next[r]>>, <<b, next[r]>> >>]
  BY <1>1 DEF Launch
<1>. QED
  BY <1>2, <1>3

\* The kernels of one call: one, or two of which the second follows the first.
LEMMA ShortChain ==
  ASSUME NEW news, KernelOK(news[1]),
         \/ Len(news) = 1
         \/ Len(news) = 2 /\ KernelOK(news[2]) /\ FinishOf(news[1]) = StartOf(news[2])
  PROVE  /\ \A i \in 1 .. Len(news) : KernelOK(news[i])
         /\ \A i \in 1 .. Len(news) - 1 : FinishOf(news[i]) = StartOf(news[i + 1])
         /\ Len(news) > 0
         /\ Len(news) = 1 => FinishOf(news[Len(news)]) = FinishOf(news[1])
         /\ Len(news) = 2 => FinishOf(news[Len(news)]) = FinishOf(news[2])
<1>. DEFINE n == Len(news)
<1>1. n \in {1, 2} /\ (n = 2 => KernelOK(news[2]) /\ FinishOf(news[1]) = StartOf(news[2]))
  OBVIOUS
<1>. HIDE DEF n
<1>2. \A i \in 1 .. n : i = 1 \/ (n = 2 /\ i = 2)
  BY <1>1
<1>3. \A i \in 1 .. n - 1 : n = 2 /\ i = 1 /\ i + 1 = 2
  BY <1>1
<1>4. n > 0
  BY <1>1
<1>5. \A i \in 1 .. n : KernelOK(news[i])
  BY <1>1, <1>2
<1>6. \A i \in 1 .. n - 1 : FinishOf(news[i]) = StartOf(news[i + 1])
  BY <1>1, <1>3
<1>. QED
  BY <1>4, <1>5, <1>6 DEF n

\* A call made: its barriers follow those of the calls made before.
LEMMA CallFacts ==
  ASSUME IInv, NEW r \in Ranks, NEW kinds, HostReady(r, kinds)
  PROVE  /\ next[r] \in Calls /\ next[r] \in Nat \ {0} /\ program[next[r]] \in kinds
         /\ host[r] = "ready" /\ Ahead(r) = Base(next[r])
         /\ next[r] + 1 \in 1 .. Len(program) + 1
         /\ Base(next[r] + 1) = Base(next[r]) + Barriers(next[r])
         /\ program[next[r]] = "idle" => Base(next[r] + 1) = Base(next[r])
<1>1. /\ next[r] \in Calls /\ program[next[r]] \in kinds /\ host[r] = "ready"
      /\ Len(program) \in Nat /\ next[r] \in Nat \ {0}
  BY ProgramLength DEF HostReady, IInv, Typed
<1>2. next[r] + 1 \in 1 .. Len(program) + 1
  BY <1>1 DEF Calls
<1>3. /\ Base(next[r] + 1) = Base(next[r]) + Barriers(next[r]) /\ Base(next[r]) \in Nat
      /\ program[next[r]] = "idle" => Barriers(next[r]) = 0
  BY <1>1, BaseSteps
<1>. QED
  BY <1>1, <1>2, <1>3 DEF Ahead

LEMMA CallAndWaitOK ==
  ASSUME IInv, NEW r \in Ranks, CallAndWait(r)
  PROVE  IInv'
<1>. DEFINE k == next[r]
            news == << <<"notify", k>> >>
<1>1. /\ HostReady(r, {"sync"}) /\ Launch(r, <<"notify">>)
      /\ total' = [total EXCEPT ![r] = Unready] /\ expert' = [expert EXCEPT ![r] = Unready]
      /\ host' = [host EXCEPT ![r] = "waiting"]
      /\ UNCHANGED <<program, next, seen, sized, step, written, posted, cleaned, begun, feeders>>
      /\ entered' = entered /\ left' = left
  BY DEF CallAndWait, barrierVars
<1>2. /\ k \in Calls /\ k \in Nat \ {0} /\ program[k] = "sync" /\ Ahead(r) = Base(k)
  BY <1>1, CallFacts
<1>3. /\ news \in Seq(Kernels) /\ Len(news) = 1 /\ news[1] = <<"notify", k>>
      /\ stream' = [stream EXCEPT ![r] = @ \o news]
  BY <1>1, <1>2, LaunchOne
<1>4. /\ host' \in [Ranks -> {"ready", "waiting", "counting", "thrown"}] /\ host'[r] = "waiting"
      /\ \A q \in Ranks : q # r => host'[q] = host[q] /\ next'[q] = next[q]
      /\ total' \in [Ranks -> Calls \cup {Unready}] /\ expert' \in [Ranks -> Calls \cup {Unready}]
  BY <1>1 DEF IInv, Typed
<1>. HIDE DEF news
<1>5. HostOK(r)' /\ Ahead(r)' = Base(k + 1)
  BY <1>1, <1>2, <1>4, ProgramFixed DEF HostOK, Ahead
<1>6. KernelOK(news[1]) /\ StartOf(news[1]) = Base(k) /\ FinishOf(news[1]) = Base(k + 1)
  BY <1>2, <1>3 DEF KernelOK, StartOf, FinishOf, NotifyKinds
<1>7. stream' \in [Ranks -> Seq(Kernels)] /\ \A q \in Ranks : RankOK(q)'
  <2>1. /\ \A i \in 1 .. Len(news) : KernelOK(news[i])
        /\ \A i \in 1 .. Len(news) - 1 : FinishOf(news[i]) = StartOf(news[i + 1])
        /\ Len(news) > 0 /\ FinishOf(news[Len(news)]) = FinishOf(news[1])
    BY <1>3, <1>6, ShortChain
  <2>2. FinishOf(news[Len(news)]) = Ahead(r)' /\ StartOf(news[1]) = Ahead(r)
    BY <1>2, <1>5, <1>6, <2>1
  <2>. QED
    BY <1>1, <1>3, <1>4, <1>5, <2>1, <2>2, LaunchOK
<1>8. Typed' /\ Together'
  BY <1>1, <1>4, <1>7, ProgramFixed DEF IInv, Typed, Together
<1>. QED
  BY <1>7, <1>8 DEF IInv

LEMMA CallWorstOK ==
  ASSUME IInv, NEW r \in Ranks, CallWorst(r)
  PROVE  IInv'
<1>. DEFINE k == next[r]
            news == << <<"notify", k>>, <<"data", k>> >>
<1>1. /\ HostReady(r, {"worst"}) /\ Launch(r, <<"notify", "data">>)
      /\ total' = [total EXCEPT ![r] = Unready] /\ expert' = [expert EXCEPT ![r] = Unready]
      /\ next' = [next EXCEPT ![r] = @ + 1]
      /\ UNCHANGED <<program, host, seen, sized, step, written, posted, cleaned, begun, feeders>>
      /\ entered' = entered /\ left' = left
  BY DEF CallWorst, barrierVars
<1>2. /\ k \in Calls /\ k \in Nat \ {0} /\ program[k] = "worst" /\ Ahead(r) = Base(k)
      /\ host[r] = "ready" /\ k + 1 \in 1 .. Len(program) + 1
  BY <1>1, CallFacts
<1>3. /\ news \in Seq(Kernels) /\ Len(news) = 2
      /\ news[1] = <<"notify", k>> /\ news[2] = <<"data", k>>
      /\ stream' = [stream EXCEPT ![r] = @ \o news]
  BY <1>1, <1>2, LaunchTwo
<1>4. /\ next' \in [Ranks -> 1 .. Len(program) + 1] /\ next'[r] = k + 1
      /\ \A q \in Ranks : q # r => host'[q] = host[q] /\ next'[q] = next[q]
      /\ total' \in [Ranks -> Calls \cup {Unready}] /\ expert' \in [Ranks -> Calls \cup {Unready}]
  BY <1>1, <1>2 DEF IInv, Typed
<1>. HIDE DEF news
<1>5. HostOK(r)' /\ Ahead(r)' = Base(k + 1)
  BY <1>1, <1>2, <1>4, ProgramFixed DEF HostOK, Ahead
<1>6. /\ KernelOK(news[1]) /\ StartOf(news[1]) = Base(k) /\ FinishOf(news[1]) = Base(k + 1)
      /\ KernelOK(news[2]) /\ StartOf(news[2]) = Base(k + 1) /\ FinishOf(news[2]) = Base(k + 1)
  BY <1>2, <1>3 DEF KernelOK, StartOf, FinishOf, NotifyKinds
<1>7. stream' \in [Ranks -> Seq(Kernels)] /\ \A q \in Ranks : RankOK(q)'
  <2>1. /\ \A i \in 1 .. Len(news) : KernelOK(news[i])
        /\ \A i \in 1 .. Len(news) - 1 : FinishOf(news[i]) = StartOf(news[i + 1])
        /\ Len(news) > 0 /\ FinishOf(news[Len(news)]) = FinishOf(news[2])
    BY <1>3, <1>6, ShortChain
  <2>2. FinishOf(news[Len(news)]) = Ahead(r)' /\ StartOf(news[1]) = Ahead(r)
    BY <1>2, <1>5, <1>6, <2>1
  <2>. QED
    BY <1>1, <1>3, <1>4, <1>5, <2>1, <2>2, LaunchOK
<1>8. Typed' /\ Together'
  BY <1>1, <1>4, <1>7, ProgramFixed DEF IInv, Typed, Together
<1>. QED
  BY <1>7, <1>8 DEF IInv

LEMMA CallCachedOK ==
  ASSUME IInv, NEW r \in Ranks, CallCached(r)
  PROVE  IInv'
<1>. DEFINE k == next[r]
            news == << <<"cached", k>>, <<"data", k>> >>
<1>1. /\ HostReady(r, {"cached", "combine"}) /\ Launch(r, <<"cached", "data">>)
      /\ next' = [next EXCEPT ![r] = @ + 1]
      /\ UNCHANGED <<program, host, seen, sized, total, expert, step, written, posted, cleaned,
                     begun, feeders>>
      /\ entered' = entered /\ left' = left
  BY DEF CallCached, barrierVars
<1>2. /\ k \in Calls /\ k \in Nat \ {0} /\ program[k] \in CachedKinds /\ Ahead(r) = Base(k)
      /\ host[r] = "ready" /\ k + 1 \in 1 .. Len(program) + 1
  BY <1>1, CallFacts DEF CachedKinds
<1>3. /\ news \in Seq(Kernels) /\ Len(news) = 2
      /\ news[1] = <<"cached", k>> /\ news[2] = <<"data", k>>
      /\ stream' = [stream EXCEPT ![r] = @ \o news]
  BY <1>1, <1>2, LaunchTwo
<1>4. /\ next' \in [Ranks -> 1 .. Len(program) + 1] /\ next'[r] = k + 1
      /\ \A q \in Ranks : q # r => host'[q] = host[q] /\ next'[q] = next[q]
  BY <1>1, <1>2 DEF IInv, Typed
<1>. HIDE DEF news
<1>5. HostOK(r)' /\ Ahead(r)' = Base(k + 1)
  BY <1>1, <1>2, <1>4, ProgramFixed DEF HostOK, Ahead
<1>6. /\ KernelOK(news[1]) /\ StartOf(news[1]) = Base(k) /\ FinishOf(news[1]) = Base(k + 1)
      /\ KernelOK(news[2]) /\ StartOf(news[2]) = Base(k + 1) /\ FinishOf(news[2]) = Base(k + 1)
  BY <1>2, <1>3 DEF KernelOK, StartOf, FinishOf
<1>7. stream' \in [Ranks -> Seq(Kernels)] /\ \A q \in Ranks : RankOK(q)'
  <2>1. /\ \A i \in 1 .. Len(news) : KernelOK(news[i])
        /\ \A i \in 1 .. Len(news) - 1 : FinishOf(news[i]) = StartOf(news[i + 1])
        /\ Len(news) > 0 /\ FinishOf(news[Len(news)]) = FinishOf(news[2])
    BY <1>3, <1>6, ShortChain
  <2>2. FinishOf(news[Len(news)]) = Ahead(r)' /\ StartOf(news[1]) = Ahead(r)
    BY <1>2, <1>5, <1>6, <2>1
  <2>. QED
    BY <1>1, <1>3, <1>4, <1>5, <2>1, <2>2, LaunchOK
<1>8. Typed' /\ Together'
  BY <1>1, <1>4, <1>7, ProgramFixed DEF IInv, Typed, Together
<1>. QED
  BY <1>7, <1>8 DEF IInv

\* A host goes on without launching anything.
LEMMA HostMoved ==
  ASSUME IInv, NEW r \in Ranks, HostOK(r)', Ahead(r)' = Ahead(r),
         UNCHANGED <<program, stream, step, written, posted, cleaned, entered, left>>,
         \A q \in Ranks : q # r => host'[q] = host[q] /\ next'[q] = next[q]
  PROVE  Together' /\ \A q \in Ranks : RankOK(q)'
<1>1. Together'
  BY DEF IInv, Together
<1>2. \A q \in Ranks : q # r => RankOK(q)'
  BY RankKept DEF IInv
<1>3. RankOK(r)
  BY DEF IInv
<1>4. Busy(r)' = Busy(r) /\ Kernel(r)' = Kernel(r) /\ CallOf(r)' = CallOf(r)
  BY DEF Busy, Kernel, CallOf
<1>5. ChainOK(r)'
  BY <1>3, <1>4, ProgramFixed DEF RankOK, ChainOK
<1>6. PositionOK(r)'
  BY <1>3, <1>4, ProgramFixed DEF RankOK, PositionOK
<1>7. WrittenOK(r)' /\ CleanOK(r)' /\ PostOK(r)'
  <2>1. WrittenOK(r)'
    BY <1>3, <1>4 DEF RankOK, WrittenOK
  <2>2. CleanOK(r)'
    BY <1>3, <1>4, ProgramFixed DEF RankOK, CleanOK
  <2>3. PostOK(r)'
    BY <1>3, <1>4, ProgramFixed DEF RankOK, PostOK
  <2>. QED
    BY <2>1, <2>2, <2>3
<1>8. RankOK(r)'
  BY <1>5, <1>6, <1>7 DEF RankOK
<1>. QED
  BY <1>1, <1>2, <1>8

LEMMA CallIdleOK ==
  ASSUME IInv, NEW r \in Ranks, CallIdle(r)
  PROVE  IInv'
<1>1. /\ HostReady(r, {"idle"}) /\ next' = [next EXCEPT ![r] = @ + 1]
      /\ UNCHANGED <<program, host, seen, sized, total, expert>>
      /\ UNCHANGED <<stream, step, written, posted, cleaned, begun, feeders, entered, left>>
  BY DEF CallIdle, kernelVars, barrierVars
<1>2. /\ program[next[r]] = "idle" /\ host[r] = "ready" /\ Ahead(r) = Base(next[r])
      /\ next[r] + 1 \in 1 .. Len(program) + 1 /\ Base(next[r] + 1) = Base(next[r])
  BY <1>1, CallFacts
<1>3. /\ next' \in [Ranks -> 1 .. Len(program) + 1] /\ next'[r] = next[r] + 1
      /\ \A q \in Ranks : q # r => next'[q] = next[q]
  BY <1>1, <1>2 DEF IInv, Typed
<1>4. HostOK(r)' /\ Ahead(r)' = Ahead(r)
  BY <1>1, <1>2, <1>3, ProgramFixed DEF HostOK, Ahead
<1>5. Together' /\ \A q \in Ranks : RankOK(q)'
  BY <1>1, <1>3, <1>4, HostMoved
<1>6. Typed'
  BY <1>1, <1>3, ProgramFixed DEF IInv, Typed
<1>. QED
  BY <1>5, <1>6 DEF IInv

\* Waiting, counting and giving up are all in the same call.
LEMMA WaitingOK ==
  ASSUME IInv, NEW r \in Ranks, host[r] \in {"waiting", "counting"},
         NEW h \in {"waiting", "counting", "thrown"}, host' = [host EXCEPT ![r] = h],
         seen' \in [Ranks -> Calls \cup {Unready}],
         UNCHANGED <<program, next, sized, total, expert>>,
         UNCHANGED <<stream, step, written, posted, cleaned, begun, feeders, entered, left>>
  PROVE  IInv'
<1>1. /\ host' \in [Ranks -> {"ready", "waiting", "counting", "thrown"}] /\ host'[r] = h
      /\ \A q \in Ranks : q # r => host'[q] = host[q]
  BY DEF IInv, Typed
<1>2. HostOK(r)' /\ Ahead(r)' = Ahead(r)
  BY <1>1, ProgramFixed DEF IInv, RankOK, HostOK, Ahead
<1>3. Together' /\ \A q \in Ranks : RankOK(q)'
  BY <1>1, <1>2, HostMoved
<1>4. Typed'
  BY <1>1, ProgramFixed DEF IInv, Typed
<1>. QED
  BY <1>3, <1>4 DEF IInv

LEMMA TakeCountsOK ==
  ASSUME IInv, NEW r \in Ranks, TakeCounts(r)
  PROVE  IInv'
<1>. DEFINE k == next[r]
            news == << <<"data", k>> >>
<1>1. /\ host[r] = "counting" /\ Launch(r, <<"data">>)
      /\ sized' = [sized EXCEPT ![r][k] = {seen[r], expert[r]}]
      /\ host' = [host EXCEPT ![r] = "ready"] /\ next' = [next EXCEPT ![r] = @ + 1]
      /\ UNCHANGED <<program, seen, total, expert, step, written, posted, cleaned, begun, feeders>>
      /\ entered' = entered /\ left' = left
  BY DEF TakeCounts, barrierVars
<1>2. /\ k \in Calls /\ k \in Nat \ {0} /\ k + 1 \in 1 .. Len(program) + 1
      /\ Ahead(r) = Base(k + 1) /\ program[k] = "sync"
  <2>1. k \in Calls /\ Len(program) \in Nat /\ Ahead(r) = Base(k + 1) /\ program[k] = "sync"
    BY <1>1, ProgramLength DEF IInv, Typed, RankOK, HostOK, Ahead
  <2>. QED
    BY <2>1 DEF Calls
<1>3. /\ news \in Seq(Kernels) /\ Len(news) = 1 /\ news[1] = <<"data", k>>
      /\ stream' = [stream EXCEPT ![r] = @ \o news]
  BY <1>1, <1>2, LaunchOne
<1>4. /\ host' \in [Ranks -> {"ready", "waiting", "counting", "thrown"}] /\ host'[r] = "ready"
      /\ next' \in [Ranks -> 1 .. Len(program) + 1] /\ next'[r] = k + 1
      /\ \A q \in Ranks : q # r => host'[q] = host[q] /\ next'[q] = next[q]
      /\ sized' \in [Ranks -> [Calls -> SUBSET (Calls \cup {Unready})]]
  <2>1. {seen[r], expert[r]} \in SUBSET (Calls \cup {Unready})
    BY DEF IInv, Typed
  <2>2. sized \in [Ranks -> [Calls -> SUBSET (Calls \cup {Unready})]]
    BY DEF IInv, Typed
  <2>3. sized' \in [Ranks -> [Calls -> SUBSET (Calls \cup {Unready})]]
    BY <1>1, <1>2, <2>1, <2>2
  <2>. QED
    BY <1>1, <1>2, <2>3 DEF IInv, Typed
<1>. HIDE DEF news
<1>5. HostOK(r)' /\ Ahead(r)' = Base(k + 1)
  BY <1>1, <1>2, <1>4, ProgramFixed DEF HostOK, Ahead
<1>6. KernelOK(news[1]) /\ StartOf(news[1]) = Base(k + 1) /\ FinishOf(news[1]) = Base(k + 1)
  BY <1>2, <1>3 DEF KernelOK, StartOf, FinishOf, NotifyKinds
<1>7. stream' \in [Ranks -> Seq(Kernels)] /\ \A q \in Ranks : RankOK(q)'
  <2>1. /\ \A i \in 1 .. Len(news) : KernelOK(news[i])
        /\ \A i \in 1 .. Len(news) - 1 : FinishOf(news[i]) = StartOf(news[i + 1])
        /\ Len(news) > 0 /\ FinishOf(news[Len(news)]) = FinishOf(news[1])
    BY <1>3, <1>6, ShortChain
  <2>2. FinishOf(news[Len(news)]) = Ahead(r)' /\ StartOf(news[1]) = Ahead(r)
    BY <1>2, <1>5, <1>6, <2>1
  <2>. QED
    BY <1>1, <1>3, <1>4, <1>5, <2>1, <2>2, LaunchOK
<1>8. Typed' /\ Together'
  BY <1>1, <1>4, <1>7, ProgramFixed DEF IInv, Typed, Together
<1>. QED
  BY <1>7, <1>8 DEF IInv

-----------------------------------------------------------------------------
(* The invariant and what it says.                                         *)

LEMMA InitOK == SessionInit => IInv
<1>. SUFFICES ASSUME SessionInit PROVE IInv
  OBVIOUS
<1>1. /\ program \in Programs /\ Len(program) \in Nat /\ Calls \subseteq Nat \ {0}
      /\ 1 \in 1 .. Len(program) + 1
  BY ProgramLength DEF SessionInit
<1>2. Base(1) = 0
  <2>1. \A kinds : CallsBefore(1, kinds) = {}
    BY DEF CallsBefore
  <2>2. Cardinality({}) = 0
    BY FS_EmptySet
  <2>3. \A kinds : Cardinality(CallsBefore(1, kinds)) = 0
    BY <2>1, <2>2
  <2>. QED
    BY <2>3 DEF Base
<1>3. Typed
  <2>1. <<>> \in Seq(Kernels)
    OBVIOUS
  <2>. QED
    BY <1>1, <2>1 DEF SessionInit, Init, Typed
<1>4. Together
  BY DEF SessionInit, Init, Together
<1>5. ASSUME NEW r \in Ranks PROVE RankOK(r)
  <2>1. /\ next[r] = 1 /\ host[r] = "ready" /\ stream[r] = <<>> /\ step[r] = 0 /\ written[r] = {}
        /\ cleaned[r] = 0 /\ entered[r] = 0 /\ left[r] = 0 /\ \A o \in Ranks : posted[o][r] = 0
    BY DEF SessionInit, Init
  <2>2. HostOK(r) /\ ChainOK(r) /\ PositionOK(r) /\ WrittenOK(r)
    BY <1>2, <2>1 DEF HostOK, ChainOK, PositionOK, WrittenOK, Busy, Ahead
  <2>3. ASSUME NEW k \in Calls
        PROVE  /\ Barriers(k) > 0 => ~ (0 >= Base(k) + Barriers(k))
               /\ ~ (0 >= Base(k) + 2)
    <3>1. Base(k) \in Nat /\ Barriers(k) \in {0, 2, 3}
      BY <1>1, BaseSteps
    <3>. QED
      BY <3>1
  <2>4. CleanOK(r) /\ PostOK(r)
    BY <1>1, <2>1, <2>3 DEF CleanOK, PostOK, Busy
  <2>. QED
    BY <2>2, <2>4 DEF RankOK
<1>. QED
  BY <1>3, <1>4, <1>5 DEF IInv

\* Every step of a host or a kernel keeps the invariant.
LEMMA StepOK == IInv /\ [SessionNext]_sessionVars => IInv'
<1>. SUFFICES ASSUME IInv, [SessionNext]_sessionVars PROVE IInv'
  OBVIOUS
<1>1. ASSUME NEW r \in Ranks, HostStep(r) PROVE IInv'
  <2>1. CASE ReadTotal(r)
    <3>1. seen' \in [Ranks -> Calls \cup {Unready}]
      BY <2>1 DEF ReadTotal, IInv, Typed
    <3>. QED
      BY <2>1, <3>1, WaitingOK DEF ReadTotal, kernelVars, barrierVars
  <2>2. CASE ReadAgain(r)
    <3>1. seen' \in [Ranks -> Calls \cup {Unready}]
      BY <2>2 DEF ReadAgain, IInv, Typed
    <3>. QED
      BY <2>2, <3>1, WaitingOK DEF ReadAgain, kernelVars, barrierVars
  <2>. QED
    BY <1>1, <2>1, <2>2, CallAndWaitOK, CallWorstOK, CallCachedOK, CallIdleOK, TakeCountsOK
    DEF HostStep
<1>2. ASSUME NEW r \in Ranks, GiveUp(r) PROVE IInv'
  <2>1. seen' \in [Ranks -> Calls \cup {Unready}]
    BY <1>2 DEF GiveUp, IInv, Typed
  <2>. QED
    BY <1>2, <2>1, WaitingOK DEF GiveUp, kernelVars, barrierVars
<1>3. ASSUME NEW r \in Ranks, KernelStep(r) PROVE IInv'
  BY <1>3, EnterBarrierOK, LeaveBarrierOK, PostCountsOK, StoreCountsOK, CleanQueuesOK,
     BeginDataOK, EndDataOK DEF KernelStep
<1>4. CASE UNCHANGED sessionVars
  <2>1. /\ UNCHANGED <<program, next, host, seen, sized, total, expert>>
        /\ UNCHANGED <<stream, step, written, posted, cleaned, begun, feeders, entered, left>>
    BY <1>4 DEF sessionVars, hostVars, kernelVars, barrierVars
  <2>2. Typed' /\ Together'
    BY <2>1, ProgramFixed DEF IInv, Typed, Together
  <2>3. \A r \in Ranks : RankOK(r)'
    BY <2>1, RankKept DEF IInv
  <2>. QED
    BY <2>2, <2>3 DEF IInv
<1>. QED
  BY <1>1, <1>2, <1>3, <1>4 DEF SessionNext

\* In every reachable state the stream of each rank is a chain of kernels and
\* the barriers it has entered and left say where in that chain it is.
THEOREM Invariance == SessionSpec => []IInv
<1>1. SessionInit => IInv
  BY InitOK
<1>2. IInv /\ [SessionNext]_sessionVars => IInv'
  BY StepOK
<1>. QED
  BY <1>1, <1>2, PTL DEF SessionSpec

LEMMA InvariantTypes == IInv => SessionTypeOK
<1>. SUFFICES ASSUME IInv PROVE SessionTypeOK
  OBVIOUS
<1>1. Calls \cup {0} = 0 .. Len(program)
  BY ProgramLength DEF IInv, Typed, Calls
<1>2. ASSUME NEW r \in Ranks
      PROVE  step[r] \in 0 .. 8 /\ (Busy(r) => step[r] < Len(Script(Kernel(r))))
  <2>1. CASE Busy(r)
    <3>1. step[r] \in 0 .. 8
      BY <2>1, HeadFacts, PositionFacts
    <3>. QED
      BY <2>1, <3>1, PositionFacts
  <2>2. CASE ~ Busy(r)
    BY <2>2 DEF IInv, RankOK, PositionOK
  <2>. QED
    BY <2>1, <2>2
<1>3. written \in [Ranks -> SUBSET {"total", "expert"}]
  <2>1. \A w \in {{}, {"total"}, {"expert"}} : w \in SUBSET {"total", "expert"}
    OBVIOUS
  <2>. QED
    BY <2>1 DEF IInv, Typed
<1>4. /\ posted \in [Ranks -> [Ranks -> 0 .. Len(program)]]
      /\ cleaned \in [Ranks -> 0 .. Len(program)] /\ begun \in [Ranks -> 0 .. Len(program)]
  BY <1>1 DEF IInv, Typed
<1>. QED
  BY <1>2, <1>3, <1>4 DEF SessionTypeOK, IInv, Typed

\* Type correctness: among the rest, a stream never runs past the end of a script.
THEOREM SessionTypes == SessionSpec => []SessionTypeOK
BY Invariance, InvariantTypes, PTL

\* A rank in a data kernel has passed the barriers of its call and no others.
LEMMA DataFacts ==
  ASSUME IInv, NEW r \in Ranks, InData(r)
  PROVE  /\ Busy(r) /\ CallOf(r) \in Calls /\ CallOf(r) \in Nat \ {0}
         /\ Base(CallOf(r) + 1) \in Nat
         /\ entered[r] = Base(CallOf(r) + 1) /\ left[r] = Base(CallOf(r) + 1)
         /\ Base(CallOf(r) + 1) = Base(CallOf(r)) + Barriers(CallOf(r)) /\ Barriers(CallOf(r)) > 0
<1>1. Busy(r) /\ Kernel(r) = "data"
  BY StepKinds DEF InData
<1>2. Base(CallOf(r) + 1) \in Nat
  BY <1>1, HeadFacts
<1>3. entered[r] = Base(CallOf(r) + 1) /\ left[r] = Base(CallOf(r) + 1)
  BY <1>1, <1>2, PositionFacts DEF Entries, Exits
<1>. QED
  BY <1>1, <1>2, <1>3, HeadFacts

LEMMA InvariantClean == IInv => DataOnCleanQueues
<1>. SUFFICES ASSUME IInv, NEW r \in Ranks, InData(r), NEW q \in Ranks
              PROVE  cleaned[q] = CallOf(r)
  BY DEF DataOnCleanQueues
<1>. DEFINE k == CallOf(r)
<1>1. /\ Busy(r) /\ k \in Calls /\ k \in Nat \ {0} /\ Base(k + 1) \in Nat
      /\ entered[r] = Base(k + 1) /\ left[r] = Base(k + 1)
      /\ Base(k + 1) = Base(k) + Barriers(k) /\ Barriers(k) > 0
  BY DataFacts
<1>2. left[r] <= entered[q] /\ left[q] <= entered[r] /\ entered[q] \in Nat /\ left[q] \in Nat
  BY DEF IInv, Typed, Together
<1>3. cleaned[q] >= k
  BY <1>1, <1>2 DEF IInv, RankOK, CleanOK
<1>4. cleaned[q] \in Calls
  BY <1>1, <1>3 DEF IInv, Typed
<1>5. left[q] > Base(cleaned[q])
  BY <1>4 DEF IInv, RankOK, CleanOK
<1>. DEFINE c == cleaned[q]
<1>6. /\ c \in Nat /\ Base(c) \in Nat
      /\ k < c => Base(k) + Barriers(k) <= Base(c)
  BY <1>1, <1>4, OtherCalls
<1>. HIDE DEF k
<1>7. Base(c) < Base(k + 1)
  BY <1>1, <1>2, <1>5, <1>6
<1>8. ~ (k < c)
  BY <1>1, <1>6, <1>7
<1>9. c = k
  BY <1>1, <1>3, <1>6, <1>8
<1>. QED
  BY <1>9 DEF k

\* The data of a call flows through queues reset for that very call, at every
\* rank, for any number of ranks and any sequence of calls.
THEOREM DataQueuesClean == SessionSpec => []DataOnCleanQueues
BY Invariance, InvariantClean, PTL

LEMMA InvariantApart == IInv => MetadataApart
<1>. SUFFICES ASSUME IInv, NEW r \in Ranks, NEW q \in Ranks, InData(q),
                     AtStep(r, "post") \/ AtStep(r, "counts") \/ AtStep(r, "clean")
              PROVE  FALSE
  BY DEF MetadataApart
<1>. DEFINE k == CallOf(r)
            j == CallOf(q)
<1>1. /\ j \in Nat \ {0} /\ Base(j + 1) \in Nat
      /\ entered[q] = Base(j + 1) /\ left[q] = Base(j + 1)
  BY DataFacts
<1>2. /\ Busy(r)
      /\ \/ Kernel(r) = "notify" /\ step[r] \in {2, 5, 6}
         \/ Kernel(r) = "cached" /\ step[r] = 2
  BY StepKinds
<1>3. /\ k \in Nat \ {0} /\ Base(k) \in Nat /\ Base(k + 1) = Base(k) + Barriers(k)
      /\ Kernel(r) = "notify" => Barriers(k) = 3
      /\ Kernel(r) = "cached" => Barriers(k) = 2
  BY <1>2, HeadFacts
<1>4. /\ entered[r] \in Nat /\ left[r] \in Nat
      /\ left[r] > Base(k) /\ entered[r] < Base(k + 1)
  BY <1>2, <1>3, PositionFacts, SMTT(30), ZenonT(30) DEF Entries, Exits
<1>5. left[r] <= entered[q] /\ left[q] <= entered[r]
  BY DEF IInv, Together
<1>. HIDE DEF k, j
<1>6. Base(k + 1) \in Nat /\ (j + 1 <= k => Base(j + 1) <= Base(k))
  BY <1>1, <1>3, BaseOrder, BaseIsNat
<1>7. k + 1 <= j + 1 => Base(k + 1) <= Base(j + 1)
  BY <1>1, <1>3, BaseOrder
<1>8. ~ (j + 1 <= k)
  BY <1>1, <1>3, <1>4, <1>5, <1>6
<1>9. ~ (k + 1 <= j + 1)
  BY <1>1, <1>4, <1>5, <1>6, <1>7
<1>. QED
  BY <1>1, <1>3, <1>8, <1>9

\* No rank posts counts, sums them up or resets queues while another rank is in
\* a data kernel.
THEOREM MetadataKeptApart == SessionSpec => []MetadataApart
BY Invariance, InvariantApart, PTL

-----------------------------------------------------------------------------
(* The counters, where no host overtakes a dispatch it did not wait for.   *)

\* Nothing that concerns the counters of the rank has changed.
LEMMA CountersSame ==
  ASSUME NEW r \in Ranks, CountersOK(r), program' = program,
         UNCHANGED <<stream[r], step[r], next[r], host[r], seen[r], total[r], expert[r],
                     written[r]>>
  PROVE  CountersOK(r)'
<1>1. \A i : Pending(r, i)' <=> Pending(r, i)
  BY DEF Pending
<1>2. CallsBelow(r)'
  BY ProgramFixed DEF CountersOK, CallsBelow
<1>3. ReadyOK(r)'
  BY <1>1 DEF CountersOK, ReadyOK
<1>4. CountingOK(r)'
  BY <1>1 DEF CountersOK, CountingOK
<1>5. SeenOK(r)'
  BY DEF CountersOK, SeenOK
<1>. QED
  BY <1>2, <1>3, <1>4, <1>5 DEF CountersOK

\* A kernel goes on; the counters stay.
LEMMA CountersAdvance ==
  ASSUME IInv, NEW r \in Ranks, CountersOK(r), Busy(r), Advance(r), program' = program,
         UNCHANGED <<next[r], host[r], seen[r], total[r], expert[r], written[r]>>
  PROVE  CountersOK(r)'
<1>. DEFINE s == stream[r]
<1>1. /\ s \in Seq(Kernels) /\ s # <<>> /\ Len(s) \in Nat \ {0} /\ step[r] \in Nat
      /\ stream \in [Ranks -> Seq(Kernels)] /\ step \in [Ranks -> Nat]
  BY HeadFacts DEF Busy, IInv, Typed
<1>2. CASE step'[r] = step[r] + 1 /\ stream'[r] = s
  <2>1. \A i : Pending(r, i)' => Pending(r, i)
    BY <1>1, <1>2 DEF Pending
  <2>2. CallsBelow(r)'
    BY <1>2, ProgramFixed DEF CountersOK, CallsBelow
  <2>3. ReadyOK(r)'
    BY <1>2, <2>1 DEF CountersOK, ReadyOK
  <2>4. CountingOK(r)'
    BY <1>2, <2>1 DEF CountersOK, CountingOK
  <2>. QED
    BY <2>2, <2>3, <2>4 DEF CountersOK, SeenOK
<1>3. CASE step'[r] = 0 /\ stream'[r] = Tail(s)
  <2>. DEFINE t == Tail(s)
  <2>1. /\ Len(t) = Len(s) - 1
        /\ \A i \in 1 .. Len(t) : t[i] = s[i + 1]
    BY <1>1, HeadTailProperties
  <2>2. \A i \in 1 .. Len(t) : i + 1 \in 1 .. Len(s) /\ i + 1 > 1
    BY <1>1, <2>1
  <2>. HIDE DEF t
  <2>3. ASSUME NEW i \in 1 .. Len(t), Pending(r, i)'
        PROVE  Pending(r, i + 1)
    BY <1>3, <2>1, <2>2, <2>3 DEF Pending, t
  <2>4. stream'[r] = t
    BY <1>3 DEF t
  <2>5. CallsBelow(r)'
    <3>1. ASSUME NEW i \in 1 .. Len(t)
          PROVE  /\ t[i][2] <= next[r]
                 /\ \A m \in Calls : t[i][2] < m /\ m < next[r] => program[m] # "idle"
      BY <2>1, <2>2 DEF CountersOK, CallsBelow
    <3>. QED
      BY <2>4, <3>1, ProgramFixed DEF CallsBelow
  <2>6. ReadyOK(r)'
    <3>1. ASSUME host[r] = "ready", NEW i \in 1 .. Len(t)
          PROVE  t[i][2] < next[r] /\ (Pending(r, i)' => program[t[i][2]] = "worst")
      BY <2>1, <2>2, <2>3, <3>1 DEF CountersOK, ReadyOK
    <3>. QED
      BY <2>4, <3>1 DEF ReadyOK
  <2>7. CountingOK(r)'
    <3>1. ASSUME host[r] \in {"waiting", "counting"}, NEW i \in 1 .. Len(t), Pending(r, i)'
          PROVE  /\ i = Len(t) /\ t[i][2] = next[r]
                 /\ total[r] = Unready /\ expert[r] = Unready
      <4>1. Pending(r, i + 1) /\ i + 1 \in 1 .. Len(s) /\ i + 1 # 1 /\ t[i] = s[i + 1]
        BY <2>1, <2>2, <2>3, <3>1
      <4>2. /\ i + 1 = Len(s) /\ s[i + 1][2] = next[r]
            /\ total[r] = Unready /\ expert[r] = Unready
        BY <3>1, <4>1 DEF CountersOK, CountingOK
      <4>3. i = Len(t)
        BY <1>1, <2>1, <4>2
      <4>. QED
        BY <4>1, <4>2, <4>3
    <3>2. host[r] \in {"waiting", "counting"} =>
            total[r] \in {Unready, next[r]} /\ expert[r] \in {Unready, next[r]}
      BY DEF CountersOK, CountingOK
    <3>. QED
      BY <2>4, <3>1, <3>2 DEF CountingOK
  <2>. QED
    BY <2>5, <2>6, <2>7 DEF CountersOK, SeenOK
<1>. QED
  BY <1>1, <1>2, <1>3 DEF Advance

\* The kernels that do not touch the counters.
LEMMA CountersKernel ==
  ASSUME IInv, CountersInv, NEW r \in Ranks, Busy(r), Advance(r),
         UNCHANGED <<program, next, host, seen, sized, total, expert, written>>
  PROVE  CountersInv'
<1>1. stream \in [Ranks -> Seq(Kernels)] /\ step \in [Ranks -> Nat]
  BY DEF IInv, Typed
<1>2. \A q \in Ranks : q # r => stream'[q] = stream[q] /\ step'[q] = step[q]
  BY <1>1 DEF Advance
<1>3. \A q \in Ranks : q # r => CountersOK(q)'
  BY <1>2, CountersSame DEF CountersInv
<1>4. CountersOK(r)'
  BY CountersAdvance DEF CountersInv
<1>5. SizedByOwnCounts'
  BY ProgramFixed DEF CountersInv, SizedByOwnCounts
<1>. QED
  BY <1>3, <1>4, <1>5 DEF CountersInv

LEMMA CountersStored ==
  ASSUME IInv, CountersInv, NEW r \in Ranks, StoreCounts(r)
  PROVE  CountersInv'
<1>. DEFINE k == CallOf(r)
<1>1. /\ AtStep(r, "counts")
      /\ UNCHANGED <<program, next, host, seen, sized>>
  BY DEF StoreCounts, hostVars
<1>2. PICK c \in {"total", "expert"} \ written[r] :
        /\ IF c = "total" THEN total' = [total EXCEPT ![r] = k] /\ expert' = expert
                          ELSE expert' = [expert EXCEPT ![r] = k] /\ total' = total
        /\ IF written[r] = {}
           THEN written' = [written EXCEPT ![r] = {c}] /\ UNCHANGED <<step, stream>>
           ELSE written' = [written EXCEPT ![r] = {}] /\ Advance(r)
  BY <1>1, CountsRight DEF StoreCounts
<1>3. /\ Busy(r) /\ Kernel(r) = "notify" /\ step[r] = 5
      /\ k \in Calls /\ k \in Nat /\ Len(stream[r]) \in Nat \ {0}
      /\ Head(stream[r]) = stream[r][1]
  BY <1>1, StepKinds, HeadFacts
<1>4. /\ stream \in [Ranks -> Seq(Kernels)] /\ step \in [Ranks -> Nat]
      /\ written \in [Ranks -> {{}, {"total"}, {"expert"}}]
      /\ total \in [Ranks -> Calls \cup {Unready}] /\ expert \in [Ranks -> Calls \cup {Unready}]
  BY DEF IInv, Typed
<1>5. \A q \in Ranks : q # r =>
        /\ stream'[q] = stream[q] /\ step'[q] = step[q] /\ written'[q] = written[q]
        /\ total'[q] = total[q] /\ expert'[q] = expert[q]
  BY <1>2, <1>4 DEF Advance
<1>6. \A q \in Ranks : q # r => CountersOK(q)'
  BY <1>1, <1>5, CountersSame DEF CountersInv
<1>7. SizedByOwnCounts'
  BY <1>1, ProgramFixed DEF CountersInv, SizedByOwnCounts
<1>8. Pending(r, 1) /\ 1 \in 1 .. Len(stream[r]) /\ stream[r][1][2] = k
  BY <1>3 DEF Pending, Kernel, CallOf
<1>9. CountersOK(r)
  BY DEF CountersInv
<1>10. host[r] \in {"waiting", "counting"} => Len(stream[r]) = 1 /\ k = next[r]
  BY <1>8, <1>9 DEF CountersOK, CountingOK
<1>11. /\ IF c = "total" THEN total'[r] = k /\ expert'[r] = expert[r]
                         ELSE expert'[r] = k /\ total'[r] = total[r]
       /\ written'[r] = IF written[r] = {} THEN {c} ELSE {}
  BY <1>2, <1>4
<1>12. SeenOK(r)'
  <2>1. k # Unready
    BY <1>3 DEF Unready
  <2>. QED
    BY <1>1, <1>9, <1>11, <2>1 DEF CountersOK, SeenOK
<1>13. ASSUME host[r] \in {"waiting", "counting"}
       PROVE  total'[r] \in {Unready, next[r]} /\ expert'[r] \in {Unready, next[r]}
  BY <1>9, <1>10, <1>11, <1>13 DEF CountersOK, CountingOK
<1>14. CASE written[r] = {}
  <2>1. stream' = stream /\ step' = step
    BY <1>2, <1>14
  <2>2. \A i : Pending(r, i)' <=> Pending(r, i)
    BY <2>1 DEF Pending
  <2>3. CallsBelow(r)' /\ ReadyOK(r)'
    BY <1>1, <1>9, <2>1, <2>2, ProgramFixed DEF CountersOK, CallsBelow, ReadyOK
  <2>4. CountingOK(r)'
    <3>1. ASSUME host[r] \in {"waiting", "counting"}, NEW i \in 1 .. Len(stream[r]), Pending(r, i)
          PROVE  /\ i = Len(stream[r]) /\ stream[r][i][2] = next[r]
                 /\ total'[r] # Unready => i = 1 /\ "total" \in written'[r]
                 /\ expert'[r] # Unready => i = 1 /\ "expert" \in written'[r]
      <4>1. /\ i = Len(stream[r]) /\ stream[r][i][2] = next[r]
            /\ total[r] = Unready /\ expert[r] = Unready
        BY <1>9, <1>14, <3>1 DEF CountersOK, CountingOK
      <4>2. i = 1 /\ written'[r] = {c}
        BY <1>10, <1>11, <1>14, <3>1, <4>1
      <4>. QED
        BY <1>11, <4>1, <4>2
    <3>. QED
      BY <1>1, <1>13, <2>1, <2>2, <3>1 DEF CountingOK
  <2>. QED
    BY <1>6, <1>7, <1>12, <2>3, <2>4 DEF CountersInv, CountersOK
<1>15. CASE written[r] # {}
  <2>1. stream'[r] = stream[r] /\ step'[r] = 6
    <3>1. step[r] + 1 < Len(Script(Kernel(r)))
      <4>1. step[r] \in Nat /\ step[r] < 8
        BY <1>3
      <4>. QED
        BY <1>3, <4>1, BelowLength
    <3>2. step' = [step EXCEPT ![r] = @ + 1] /\ stream' = stream
      BY <1>2, <1>15, <3>1 DEF Advance
    <3>3. step'[r] = step[r] + 1
      BY <1>4, <3>2
    <3>. QED
      BY <1>3, <3>2, <3>3
  <2>2. \A i : Pending(r, i)' => Pending(r, i) /\ i > 1
    BY <1>3, <2>1 DEF Pending
  <2>3. CallsBelow(r)' /\ ReadyOK(r)'
    BY <1>1, <1>9, <2>1, <2>2, ProgramFixed DEF CountersOK, CallsBelow, ReadyOK
  <2>4. CountingOK(r)'
    <3>1. ASSUME host[r] \in {"waiting", "counting"}, NEW i \in 1 .. Len(stream[r])
          PROVE  ~ Pending(r, i)'
      <4>1. 1 .. Len(stream[r]) = 1 .. 1
        BY <1>10, <3>1
      <4>2. i = 1
        BY <4>1
      <4>. QED
        BY <2>2, <4>2
    <3>. QED
      BY <1>1, <1>13, <2>1, <3>1 DEF CountingOK
  <2>. QED
    BY <1>6, <1>7, <1>12, <2>3, <2>4 DEF CountersInv, CountersOK
<1>. QED
  BY <1>14, <1>15

\* What is in a stream after a launch.
LEMMA Appended ==
  ASSUME IInv, NEW r \in Ranks, NEW news \in Seq(Kernels), Len(news) > 0,
         stream' = [stream EXCEPT ![r] = @ \o news]
  PROVE  /\ Len(stream[r]) \in Nat /\ Len(stream'[r]) = Len(stream[r]) + Len(news)
         /\ \A q \in Ranks : q # r => stream'[q] = stream[q]
         /\ \A i \in 1 .. Len(stream'[r]) :
              \/ i \in 1 .. Len(stream[r]) /\ stream'[r][i] = stream[r][i]
              \/ i - Len(stream[r]) \in 1 .. Len(news) /\ stream'[r][i] = news[i - Len(stream[r])]
<1>. DEFINE s == stream[r]
            n == Len(s)
            m == Len(news)
<1>1. s \in Seq(Kernels) /\ n \in Nat /\ m \in Nat
  BY DEF IInv, Typed
<1>2. PICK t : t = s \o news
  OBVIOUS
<1>3. stream'[r] = t /\ \A q \in Ranks : q # r => stream'[q] = stream[q]
  BY <1>2 DEF IInv, Typed
<1>4. /\ Len(t) = n + m
      /\ \A i \in 1 .. n + m : t[i] = IF i <= n THEN s[i] ELSE news[i - n]
  BY <1>1, <1>2, ConcatProperties
<1>. HIDE DEF s, n, m
<1>5. \A i \in 1 .. n + m : \/ i \in 1 .. n /\ i <= n
                            \/ i - n \in 1 .. m /\ ~ (i <= n)
  BY <1>1
<1>6. \A i \in 1 .. n + m : \/ i \in 1 .. n /\ t[i] = s[i]
                            \/ i - n \in 1 .. m /\ t[i] = news[i - n]
  BY <1>4, <1>5
<1>. QED
  BY <1>1, <1>3, <1>4, <1>6 DEF s, n, m

\* A launch by a host that then goes to the next call, which is not of these kinds.
LEMMA CountersLaunched ==
  ASSUME IInv, CountersInv, NEW r \in Ranks, NEW news \in Seq(Kernels), Len(news) > 0,
         stream' = [stream EXCEPT ![r] = @ \o news],
         host'[r] = "ready", next'[r] = next[r] + 1,
         UNCHANGED <<program, step>>,
         next[r] \in Nat, next[r] \in Calls, program[next[r]] # "idle",
         \A i \in 1 .. Len(stream[r]) : Pending(r, i) => program[stream[r][i][2]] = "worst",
         \A i \in 1 .. Len(news) :
            /\ news[i][2] = next[r]
            /\ news[i][1] = "notify" => program[next[r]] = "worst"
  PROVE  CountersOK(r)'
<1>. DEFINE s == stream[r]
            k == next[r]
<1>1. PICK t : stream'[r] = t
  OBVIOUS
<1>2. /\ Len(s) \in Nat
      /\ \A i \in 1 .. Len(t) :
           \/ i \in 1 .. Len(s) /\ t[i] = s[i]
           \/ i - Len(s) \in 1 .. Len(news) /\ t[i] = news[i - Len(s)]
  BY <1>1, Appended
<1>3. CountersOK(r)
  BY DEF CountersInv
<1>4. ASSUME NEW i \in 1 .. Len(s) PROVE s[i][2] \in Nat /\ s[i][2] <= k
  <2>1. s[i] \in Kernels
    BY DEF IInv, Typed
  <2>. QED
    BY <1>3, <2>1 DEF CountersOK, CallsBelow, Kernels
<1>5. ASSUME NEW i \in 1 .. Len(t)
      PROVE  /\ t[i][2] <= k + 1 /\ t[i][2] < k + 1
             /\ \A m \in Calls : t[i][2] < m /\ m < k + 1 => program[m] # "idle"
             /\ Pending(r, i)' => program[t[i][2]] = "worst"
  <2>1. CASE i \in 1 .. Len(s) /\ t[i] = s[i]
    <3>1. s[i][2] \in Nat /\ s[i][2] <= k
      BY <1>4, <2>1
    <3>2. ASSUME NEW m \in Calls, s[i][2] < m, m < k + 1 PROVE program[m] # "idle"
      <4>1. m \in Nat
        BY ProgramLength DEF IInv, Typed
      <4>2. m < k \/ m = k
        BY <3>2, <4>1
      <4>. QED
        BY <1>3, <2>1, <3>2, <4>2 DEF CountersOK, CallsBelow
    <3>3. Pending(r, i)' => Pending(r, i)
      BY <1>1, <2>1 DEF Pending
    <3>. HIDE DEF s
    <3>4. t[i][2] <= k + 1 /\ t[i][2] < k + 1
      BY <2>1, <3>1
    <3>. QED
      BY <2>1, <3>2, <3>3, <3>4 DEF s
  <2>2. CASE i - Len(s) \in 1 .. Len(news) /\ t[i] = news[i - Len(s)]
    <3>1. t[i][2] = k /\ (t[i][1] = "notify" => program[k] = "worst")
      BY <2>2
    <3>2. Pending(r, i)' => t[i][1] = "notify"
      BY <1>1 DEF Pending
    <3>3. ASSUME NEW m \in Calls PROVE ~ (k < m /\ m < k + 1)
      <4>1. m \in Nat
        BY ProgramLength DEF IInv, Typed
      <4>. QED
        BY <4>1
    <3>. QED
      BY <3>1, <3>2, <3>3
  <2>. QED
    BY <1>2, <2>1, <2>2
<1>6. CallsBelow(r)'
  BY <1>1, <1>5, ProgramFixed DEF CallsBelow
<1>7. ReadyOK(r)'
  BY <1>1, <1>5 DEF ReadyOK
<1>. QED
  BY <1>6, <1>7 DEF CountersOK, CountingOK, SeenOK

LEMMA CountersCallWorst ==
  ASSUME IInv, CountersInv, NEW r \in Ranks, CallWorst(r) \/ CallCached(r)
  PROVE  CountersInv'
<1>. DEFINE k == next[r]
<1>1. PICK a \in {"notify", "cached"} :
        /\ HostReady(r, {"worst", "cached", "combine"}) /\ Launch(r, <<a, "data">>)
        /\ a = "notify" => program[k] = "worst"
        /\ next' = [next EXCEPT ![r] = @ + 1]
        /\ UNCHANGED <<program, host, seen, sized, step, written>>
        /\ \A q \in Ranks : q # r => total'[q] = total[q] /\ expert'[q] = expert[q]
  <2>1. total \in [Ranks -> Calls \cup {Unready}] /\ expert \in [Ranks -> Calls \cup {Unready}]
    BY DEF IInv, Typed
  <2>2. CASE CallWorst(r)
    <3>1. /\ HostReady(r, {"worst", "cached", "combine"}) /\ program[k] = "worst"
      BY <2>2 DEF CallWorst, HostReady
    <3>. QED
      BY <2>1, <2>2, <3>1 DEF CallWorst
  <2>3. CASE CallCached(r)
    <3>1. /\ HostReady(r, {"worst", "cached", "combine"})
      BY <2>3 DEF CallCached, HostReady
    <3>. QED
      BY <2>3, <3>1 DEF CallCached
  <2>. QED
    BY <2>2, <2>3
<1>2. /\ k \in Calls /\ k \in Nat /\ host[r] = "ready" /\ program[k] # "idle"
  BY <1>1, CallFacts
<1>3. PICK news : news = << <<a, k>>, <<"data", k>> >>
  OBVIOUS
<1>4. /\ news \in Seq(Kernels) /\ Len(news) = 2
      /\ news[1] = <<a, k>> /\ news[2] = <<"data", k>>
      /\ stream' = [stream EXCEPT ![r] = @ \o news]
  BY <1>1, <1>2, <1>3, LaunchTwo
<1>5. /\ next'[r] = k + 1 /\ host'[r] = "ready" /\ \A q \in Ranks : q # r => next'[q] = next[q]
  BY <1>1, <1>2 DEF IInv, Typed
<1>6. CountersOK(r)'
  <2>1. \A i \in 1 .. Len(news) : /\ news[i][2] = k
                                  /\ news[i][1] = "notify" => program[k] = "worst"
    <3>1. 1 .. Len(news) = 1 .. 2
      BY <1>4
    <3>2. \A i \in 1 .. 2 : i = 1 \/ i = 2
      OBVIOUS
    <3>. QED
      BY <1>1, <1>4, <3>1, <3>2
  <2>2. \A i \in 1 .. Len(stream[r]) : Pending(r, i) => program[stream[r][i][2]] = "worst"
    BY <1>2 DEF CountersInv, CountersOK, ReadyOK
  <2>3. Len(news) > 0
    BY <1>4
  <2>. QED
    BY <1>1, <1>2, <1>4, <1>5, <2>1, <2>2, <2>3, CountersLaunched
<1>7. \A q \in Ranks : q # r => CountersOK(q)'
  <2>1. \A q \in Ranks : q # r => stream'[q] = stream[q]
    BY <1>4 DEF IInv, Typed
  <2>. QED
    BY <1>1, <1>5, <2>1, CountersSame DEF CountersInv
<1>8. SizedByOwnCounts'
  BY <1>1, ProgramFixed DEF CountersInv, SizedByOwnCounts
<1>. QED
  BY <1>6, <1>7, <1>8 DEF CountersInv

LEMMA CountersTaken ==
  ASSUME IInv, CountersInv, NEW r \in Ranks, TakeCounts(r)
  PROVE  CountersInv'
<1>. DEFINE k == next[r]
<1>1. /\ host[r] = "counting" /\ Launch(r, <<"data">>) /\ expert[r] # Unready
      /\ sized' = [sized EXCEPT ![r][k] = {seen[r], expert[r]}]
      /\ host' = [host EXCEPT ![r] = "ready"] /\ next' = [next EXCEPT ![r] = @ + 1]
      /\ UNCHANGED <<program, seen, total, expert, step, written>>
  BY DEF TakeCounts, ExpertsRead
<1>2. k \in Calls /\ k \in Nat /\ program[k] = "sync"
  BY <1>1, ProgramLength DEF IInv, Typed, RankOK, HostOK
<1>3. CountersOK(r)
  BY DEF CountersInv
<1>4. seen[r] = k /\ expert[r] = k /\ total[r] # Unready
  BY <1>1, <1>3 DEF CountersOK, CountingOK, SeenOK
<1>5. ASSUME NEW i \in 1 .. Len(stream[r]), Pending(r, i) PROVE FALSE
  <2>1. "total" \in written[r] /\ "expert" \in written[r]
    BY <1>1, <1>3, <1>4, <1>5 DEF CountersOK, CountingOK
  <2>2. written[r] \in {{}, {"total"}, {"expert"}}
    BY DEF IInv, Typed
  <2>. QED
    BY <2>1, <2>2
<1>6. PICK news : news = << <<"data", k>> >>
  OBVIOUS
<1>7. /\ news \in Seq(Kernels) /\ Len(news) = 1 /\ news[1] = <<"data", k>>
      /\ stream' = [stream EXCEPT ![r] = @ \o news]
  BY <1>1, <1>2, <1>6, LaunchOne
<1>8. /\ next'[r] = k + 1 /\ host'[r] = "ready"
      /\ \A q \in Ranks : q # r => next'[q] = next[q] /\ host'[q] = host[q]
  BY <1>1, <1>2 DEF IInv, Typed
<1>9. CountersOK(r)'
  <2>1. \A i \in 1 .. Len(news) : /\ news[i][2] = k
                                  /\ news[i][1] = "notify" => program[k] = "worst"
    <3>1. 1 .. Len(news) = 1 .. 1
      BY <1>7
    <3>2. \A i \in 1 .. 1 : i = 1
      OBVIOUS
    <3>. QED
      BY <1>7, <3>1, <3>2
  <2>2. Len(news) > 0 /\ program[k] # "idle"
    BY <1>2, <1>7
  <2>. QED
    BY <1>1, <1>2, <1>5, <1>7, <1>8, <2>1, <2>2, CountersLaunched
<1>10. \A q \in Ranks : q # r => CountersOK(q)'
  <2>1. \A q \in Ranks : q # r => stream'[q] = stream[q]
    BY <1>7 DEF IInv, Typed
  <2>. QED
    BY <1>1, <1>8, <2>1, CountersSame DEF CountersInv
<1>11. SizedByOwnCounts'
  <2>1. sized \in [Ranks -> [Calls -> SUBSET (Calls \cup {Unready})]]
    BY DEF IInv, Typed
  <2>2. sized'[r][k] = {k}
    BY <1>1, <1>2, <1>4, <2>1
  <2>3. \A q \in Ranks, j \in Calls : q # r \/ j # k => sized'[q][j] = sized[q][j]
    BY <1>1, <1>2, <2>1
  <2>4. \A q \in Ranks, j \in Calls : sized'[q][j] \in {{}, {j}}
    BY <2>2, <2>3 DEF CountersInv, SizedByOwnCounts
  <2>. QED
    BY <1>1, <2>4, ProgramFixed DEF SizedByOwnCounts
<1>. QED
  BY <1>9, <1>10, <1>11 DEF CountersInv

\* A host begins to wait: it has overtaken no dispatch it did not wait for.
LEMMA CountersReset ==
  ASSUME NoOvertaking, IInv, CountersInv, NEW r \in Ranks, CallAndWait(r)
  PROVE  CountersInv'
<1>. DEFINE s == stream[r]
            k == next[r]
<1>1. /\ HostReady(r, {"sync"}) /\ Launch(r, <<"notify">>)
      /\ total' = [total EXCEPT ![r] = Unready] /\ expert' = [expert EXCEPT ![r] = Unready]
      /\ host' = [host EXCEPT ![r] = "waiting"]
      /\ UNCHANGED <<program, next, seen, sized, step, written>>
  BY DEF CallAndWait
<1>2. k \in Calls /\ k \in Nat \ {0} /\ program[k] = "sync" /\ host[r] = "ready"
  BY <1>1, CallFacts
<1>3. PICK news : news = << <<"notify", k>> >>
  OBVIOUS
<1>4. /\ news \in Seq(Kernels) /\ Len(news) = 1 /\ news[1] = <<"notify", k>>
      /\ stream' = [stream EXCEPT ![r] = @ \o news]
  BY <1>1, <1>2, <1>3, LaunchOne
<1>5. PICK t : stream'[r] = t
  OBVIOUS
<1>6. /\ Len(s) \in Nat /\ Len(t) = Len(s) + 1
      /\ \A i \in 1 .. Len(t) :
           \/ i \in 1 .. Len(s) /\ t[i] = s[i]
           \/ i = Len(t) /\ t[i] = <<"notify", k>>
  <2>1. Len(news) > 0
    BY <1>4
  <2>2. /\ Len(s) \in Nat /\ Len(t) = Len(s) + Len(news)
        /\ \A i \in 1 .. Len(t) :
             \/ i \in 1 .. Len(s) /\ t[i] = s[i]
             \/ i - Len(s) \in 1 .. Len(news) /\ t[i] = news[i - Len(s)]
    BY <1>4, <1>5, <2>1, Appended
  <2>. DEFINE n == Len(s)
              l == Len(t)
              m == Len(news)
  <2>3. m = 1 /\ n \in Nat /\ l = n + m
    BY <1>4, <2>2
  <2>. HIDE DEF n, l, m
  <2>4. \A i \in 1 .. l : i - n \in 1 .. m => i - n = 1 /\ i = l
    BY <2>3
  <2>. USE DEF n, l, m
  <2>5. \A i \in 1 .. Len(t) : i - Len(s) \in 1 .. Len(news) => i - Len(s) = 1 /\ i = Len(t)
    BY <2>4
  <2>. HIDE DEF n, l, m
  <2>6. Len(t) = Len(s) + 1
    BY <1>4, <2>2
  <2>. QED
    BY <1>4, <2>2, <2>5, <2>6
<1>7. CountersOK(r)
  BY DEF CountersInv
<1>8. ASSUME NEW i \in 1 .. Len(s)
      PROVE  s[i][2] \in Calls /\ s[i][2] \in Nat \ {0} /\ s[i][2] < k /\ ~ Pending(r, i)
  <2>1. s[i][2] \in Calls /\ s[i][2] \in Nat \ {0}
    BY ProgramLength DEF IInv, Typed, RankOK, ChainOK, KernelOK
  <2>2. s[i][2] < k /\ (Pending(r, i) => program[s[i][2]] = "worst")
    BY <1>2, <1>7 DEF CountersOK, ReadyOK
  <2>3. ASSUME program[s[i][2]] = "worst" PROVE FALSE
    <3>1. program \in Programs /\ DOMAIN program = Calls
      BY ProgramLength DEF IInv, Typed, Calls
    <3>2. PICK m \in s[i][2] .. k : program[m] = "idle"
      BY <1>2, <2>1, <2>2, <2>3, <3>1 DEF NoOvertaking
    <3>3. m # s[i][2] /\ m # k
      BY <1>2, <2>3, <3>2
    <3>4. s[i][2] < m /\ m < k /\ m \in Nat
      BY <1>2, <2>1, <3>2, <3>3
    <3>5. m \in Calls
      BY <1>2, <2>1, <3>4, ProgramLength DEF IInv, Typed, Calls
    <3>. QED
      BY <1>7, <3>2, <3>4, <3>5 DEF CountersOK, CallsBelow
  <2>. QED
    BY <2>1, <2>2, <2>3
<1>9. /\ host'[r] = "waiting" /\ total'[r] = Unready /\ expert'[r] = Unready
      /\ \A q \in Ranks : q # r => /\ host'[q] = host[q] /\ total'[q] = total[q]
                                   /\ expert'[q] = expert[q] /\ stream'[q] = stream[q]
  BY <1>1, <1>4 DEF IInv, Typed
<1>10. CallsBelow(r)'
  <2>1. ASSUME NEW i \in 1 .. Len(t)
        PROVE  /\ t[i][2] <= k
               /\ \A m \in Calls : t[i][2] < m /\ m < k => program[m] # "idle"
    <3>1. CASE i \in 1 .. Len(s) /\ t[i] = s[i]
      BY <1>7, <3>1 DEF CountersOK, CallsBelow
    <3>2. CASE t[i] = <<"notify", k>>
      <4>1. t[i][2] = k
        BY <3>2
      <4>2. \A m \in Calls : ~ (k < m /\ m < k)
        BY <1>2, ProgramLength DEF IInv, Typed
      <4>. QED
        BY <1>2, <4>1, <4>2
    <3>. QED
      BY <1>6, <3>1, <3>2
  <2>. QED
    BY <1>1, <1>5, <2>1, ProgramFixed DEF CallsBelow
<1>11. CountingOK(r)'
  <2>1. ASSUME NEW i \in 1 .. Len(t), Pending(r, i)' PROVE i = Len(t) /\ t[i][2] = k
    <3>1. CASE i \in 1 .. Len(s) /\ t[i] = s[i]
      <4>1. Pending(r, i)
        BY <1>1, <1>5, <2>1, <3>1 DEF Pending
      <4>. QED
        BY <1>8, <3>1, <4>1
    <3>2. CASE i = Len(t) /\ t[i] = <<"notify", k>>
      BY <3>2
    <3>. QED
      BY <1>6, <3>1, <3>2
  <2>. QED
    BY <1>1, <1>5, <1>9, <2>1 DEF CountingOK
<1>12. ReadyOK(r)' /\ SeenOK(r)'
  BY <1>9 DEF ReadyOK, SeenOK
<1>13. \A q \in Ranks : q # r => CountersOK(q)'
  BY <1>1, <1>9, CountersSame DEF CountersInv
<1>14. SizedByOwnCounts'
  BY <1>1, ProgramFixed DEF CountersInv, SizedByOwnCounts
<1>. QED
  BY <1>10, <1>11, <1>12, <1>13, <1>14 DEF CountersInv, CountersOK

\* A host reads, gives up, or passes an idle call.
LEMMA CountersRead ==
  ASSUME IInv, CountersInv, NEW r \in Ranks,
         CallIdle(r) \/ ReadTotal(r) \/ ReadAgain(r) \/ GiveUp(r)
  PROVE  CountersInv'
<1>1. /\ UNCHANGED <<program, sized, total, expert, stream, step, written>>
      /\ \A q \in Ranks : q # r => next'[q] = next[q] /\ host'[q] = host[q] /\ seen'[q] = seen[q]
  <2>1. /\ next \in [Ranks -> 1 .. Len(program) + 1] /\ seen \in [Ranks -> Calls \cup {Unready}]
        /\ host \in [Ranks -> {"ready", "waiting", "counting", "thrown"}]
    BY DEF IInv, Typed
  <2>2. /\ UNCHANGED <<program, sized, total, expert, stream, step, written>>
    BY DEF CallIdle, ReadTotal, ReadAgain, GiveUp, kernelVars
  <2>3. CASE CallIdle(r)
    BY <2>1, <2>2, <2>3 DEF CallIdle
  <2>4. CASE ReadTotal(r)
    BY <2>1, <2>2, <2>4 DEF ReadTotal
  <2>5. CASE ReadAgain(r)
    BY <2>1, <2>2, <2>5 DEF ReadAgain
  <2>6. CASE GiveUp(r)
    BY <2>1, <2>2, <2>6 DEF GiveUp
  <2>. QED
    BY <2>2, <2>3, <2>4, <2>5, <2>6
<1>2. CountersOK(r)
  BY DEF CountersInv
<1>3. \A i : Pending(r, i)' <=> Pending(r, i)
  BY <1>1 DEF Pending
<1>4. ASSUME CallIdle(r) PROVE CountersOK(r)'
  <2>1. stream'[r] = <<>> /\ host'[r] = "ready"
    BY <1>1, <1>4 DEF CallIdle, HostReady, Busy
  <2>2. \A i : i \notin 1 .. Len(stream'[r])
    <3>1. Len(stream'[r]) = 0
      BY <2>1
    <3>. QED
      BY <3>1
  <2>. QED
    BY <2>1, <2>2 DEF CountersOK, CallsBelow, ReadyOK, CountingOK, SeenOK
<1>5. ASSUME ReadTotal(r) \/ ReadAgain(r) \/ GiveUp(r) PROVE CountersOK(r)'
  <2>1. /\ next' = next /\ host[r] \in {"waiting", "counting"}
        /\ host'[r] \in {"waiting", "counting", "thrown"}
        /\ host'[r] = "counting" => host[r] = "waiting" /\ seen'[r] = total[r] /\ total[r] # Unready
    BY <1>5 DEF ReadTotal, ReadAgain, GiveUp, IInv, Typed
  <2>2. CallsBelow(r)'
    BY <1>1, <1>2, <2>1, ProgramFixed DEF CountersOK, CallsBelow
  <2>3. CountingOK(r)'
    BY <1>1, <1>2, <1>3, <2>1 DEF CountersOK, CountingOK
  <2>4. ReadyOK(r)' /\ SeenOK(r)'
    BY <1>1, <1>2, <2>1 DEF CountersOK, ReadyOK, SeenOK, CountingOK
  <2>. QED
    BY <2>2, <2>3, <2>4 DEF CountersOK
<1>6. CountersOK(r)'
  BY <1>4, <1>5
<1>7. \A q \in Ranks : q # r => CountersOK(q)'
  BY <1>1, CountersSame DEF CountersInv
<1>8. SizedByOwnCounts'
  BY <1>1, ProgramFixed DEF CountersInv, SizedByOwnCounts
<1>. QED
  BY <1>6, <1>7, <1>8 DEF CountersInv

LEMMA CountersInit == SessionInit => CountersInv
<1>. SUFFICES ASSUME SessionInit PROVE CountersInv
  OBVIOUS
<1>1. \A r \in Ranks : stream[r] = <<>> /\ host[r] = "ready"
  BY DEF SessionInit
<1>2. ASSUME NEW r \in Ranks, NEW i PROVE i \notin 1 .. Len(stream[r])
  <2>1. Len(stream[r]) = 0
    BY <1>1
  <2>. QED
    BY <2>1
<1>3. \A r \in Ranks : CountersOK(r)
  BY <1>1, <1>2 DEF CountersOK, CallsBelow, ReadyOK, CountingOK, SeenOK
<1>4. SizedByOwnCounts
  BY DEF SessionInit, SizedByOwnCounts
<1>. QED
  BY <1>3, <1>4 DEF CountersInv

LEMMA CountersStep ==
  ASSUME NoOvertaking, IInv, CountersInv, [SessionNext]_sessionVars
  PROVE  CountersInv'
<1>1. ASSUME NEW r \in Ranks, HostStep(r) \/ GiveUp(r) PROVE CountersInv'
  BY <1>1, CountersReset, CountersCallWorst, CountersTaken, CountersRead DEF HostStep
<1>2. ASSUME NEW r \in Ranks, KernelStep(r) PROVE CountersInv'
  <2>1. CASE StoreCounts(r)
    BY <2>1, CountersStored
  <2>2. CASE ~ StoreCounts(r)
    <3>1. /\ Busy(r) /\ Advance(r)
          /\ UNCHANGED <<program, next, host, seen, sized, total, expert, written>>
      BY <1>2, <2>2
      DEF KernelStep, EnterBarrier, LeaveBarrier, PostCounts, CleanQueues, BeginData, EndData,
          AtStep, hostVars
    <3>. QED
      BY <3>1, CountersKernel
  <2>. QED
    BY <2>1, <2>2
<1>3. CASE UNCHANGED sessionVars
  <2>1. UNCHANGED <<program, next, host, seen, sized, total, expert, stream, step, written>>
    BY <1>3 DEF sessionVars, hostVars, kernelVars
  <2>2. \A r \in Ranks : CountersOK(r)'
    BY <2>1, CountersSame DEF CountersInv
  <2>3. SizedByOwnCounts'
    BY <2>1, ProgramFixed DEF CountersInv, SizedByOwnCounts
  <2>. QED
    BY <2>2, <2>3 DEF CountersInv
<1>. QED
  BY <1>1, <1>2, <1>3 DEF SessionNext

\* A host that waits for counts allocates by the counts of its own call, both the
\* total and the experts, if it never waits while a dispatch launched with
\* num_worst_tokens may still be in the stream.
THEOREM SizedRight ==
  ASSUME NoOvertaking
  PROVE  SessionSpec => []SizedByOwnCounts
<1>1. SessionInit => IInv /\ CountersInv
  BY InitOK, CountersInit
<1>2. (IInv /\ CountersInv) /\ [SessionNext]_sessionVars => (IInv /\ CountersInv)'
  BY StepOK, CountersStep
<1>3. IInv /\ CountersInv => SizedByOwnCounts
  BY DEF CountersInv
<1>. QED
  BY <1>1, <1>2, <1>3, PTL DEF SessionSpec
=============================================================================
