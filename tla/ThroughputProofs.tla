-------------------------- MODULE ThroughputProofs --------------------------
(***************************************************************************)
(* The throughput phase for any number of workers, any durations and any   *)
(* interruption: a phase that returns leaves the link idle, the shared     *)
(* counter is exact, and the two figures of a download agree.              *)
(***************************************************************************)
EXTENDS Throughput, SumTheorems

\* No worker lives before the phase or after it was joined, and the probe is not
\* running once its summary was received.
QuietInv ==
    /\ pc \in {"entry", "collect", "returned"} => Live = {}
    /\ pc = "entry" => probe = "none"
    /\ pc = "returned" => probe # "running"

LEMMA InitQuiet == Init => QuietInv
  BY DEF Init, QuietInv, Live, Gone

\* A worker that takes a step is alive, so the phase is not one of the quiet ones.
LEMMA WorkerStep ==
    ASSUME QuietInv, NEW w \in Workers, worker[w].pc # "gone", UNCHANGED <<pc, probe>>
    PROVE  QuietInv'
<1>1. w \in Live
  BY DEF Live
<1> QED
  BY <1>1 DEF QuietInv

LEMMA StepQuiet == QuietInv /\ [Next]_vars => QuietInv'
<1> SUFFICES ASSUME QuietInv, [Next]_vars PROVE QuietInv'
  OBVIOUS
<1>1. ASSUME NEW w \in Workers, Loop(w) \/ Transfer(w) \/ Complete(w) \/ Fail(w)
      PROVE  QuietInv'
  <2>1. worker[w].pc # "gone" /\ UNCHANGED <<pc, probe>>
    BY <1>1 DEF Loop, Transfer, Complete, Fail
  <2> QED
    BY <2>1, WorkerStep
<1>2. CASE ProbeEnds
  BY <1>2 DEF ProbeEnds, QuietInv, Live
<1>3. CASE Enter
  BY <1>3 DEF Enter, QuietInv, Live
<1>4. CASE Tick \/ LeaveLoop \/ Drained \/ Collect
  BY <1>4 DEF Tick, LeaveLoop, Drained, Collect, QuietInv, Live
<1>5. CASE WatchToken \/ Shutdown \/ Drop \/ UNCHANGED vars
  BY <1>5 DEF WatchToken, Shutdown, Drop, vars, QuietInv, Live
<1> QED
  BY <1>1, <1>2, <1>3, <1>4, <1>5 DEF Next, Phase

\* The phase hands over its summary only when workers and probe are gone
\* (throughput.rs, the joins after the sampling loop).
THEOREM QuietPhase == Spec => []QuietOnReturn
<1>1. QuietInv => QuietOnReturn
  BY DEF QuietInv, QuietOnReturn
<1> QED
  BY <1>1, InitQuiet, StepQuiet, PTL DEF Spec

(***************************************************************************)
(* The counters.                                                           *)
(***************************************************************************)

Counted == SumFunctionOnSet([w \in Workers |-> worker[w].counted], Workers)

\* What a worker has counted belongs to a request that is under way.
WorkerInv ==
    /\ worker \in [Workers -> [pc : {"gone", "idle", "request"}, counted : 0..Chunks]]
    /\ \A w \in Workers : worker[w].pc # "request" => worker[w].counted = 0

\* The counter of an upload is what succeeded and what is under way; that of a
\* download only grows, so that its samples never decrease.
CountInv ==
    /\ direction \in {"download", "upload"}
    /\ total \in Nat /\ total <= MaxTotal
    /\ good \in Nat
    /\ direction = "upload" => total = good + Counted
    /\ direction = "download" => good = 0

SampleInv ==
    /\ samples \in Seq(0..MaxTotal) /\ Len(samples) <= Ticks
    /\ direction = "download" =>
        /\ \A i \in 1..Len(samples) : samples[i] <= total
        /\ \A i, j \in 1..Len(samples) : i <= j => samples[i] <= samples[j]

ResultInv ==
    /\ result \in [bytes : Nat, rate : Nat, steady : BOOLEAN]
    /\ direction = "download" =>
        IF result.steady THEN result.rate = result.bytes ELSE result.rate <= result.bytes

ControlInv ==
    /\ pc \in {"entry", "ticking", "draining", "collect", "returned", "dropped"}
    /\ stop \in BOOLEAN
    /\ probe \in {"none", "running", "sent"}
    /\ token \in BOOLEAN
    /\ cancelled \in BOOLEAN /\ (cancelled => token)

IInv == QuietInv /\ WorkerInv /\ CountInv /\ SampleInv /\ ResultInv /\ ControlInv

LEMMA CountedType == WorkerInv => Counted \in Nat
<1> SUFFICES ASSUME WorkerInv PROVE Counted \in Nat
  OBVIOUS
<1> DEFINE f == [w \in Workers |-> worker[w].counted]
<1>1. \A w \in Workers : f[w] \in Nat
  BY SizeAssumption DEF WorkerInv
<1> HIDE DEF f
<1>2. SumFunctionOnSet(f, Workers) \in Nat
  BY <1>1, WorkersAssumption, SumType
<1> QED
  BY <1>2 DEF Counted, f

LEMMA CountedTypeNext == (WorkerInv => Counted \in Nat)'
  BY CountedType, PTL

\* A worker's step changes the sum by what it changes of its own count.
LEMMA CountedStep ==
    ASSUME WorkerInv, WorkerInv', NEW w \in Workers,
           \A v \in Workers \ {w} : worker'[v] = worker[v]
    PROVE  Counted' = Counted + worker'[w].counted - worker[w].counted
<1> DEFINE f == [v \in Workers |-> worker[v].counted]
           g == [v \in Workers |-> worker'[v].counted]
           others == Workers \ {w}
<1>1. \A v \in Workers : f[v] \in Nat /\ g[v] \in Nat
  BY SizeAssumption DEF WorkerInv
<1>2. \A v \in others : f[v] = g[v]
  OBVIOUS
<1>3. f[w] = worker[w].counted /\ g[w] = worker'[w].counted
  OBVIOUS
<1>4. Counted = SumFunctionOnSet(f, Workers) /\ Counted' = SumFunctionOnSet(g, Workers)
  BY DEF Counted
<1>5. IsFiniteSet(others)
  BY WorkersAssumption, FS_Subset
<1> HIDE DEF f, g
<1>6. SumFunctionOnSet(f, Workers) = f[w] + SumFunctionOnSet(f, others)
  BY <1>1, WorkersAssumption, SumTakesOut
<1>7. SumFunctionOnSet(g, Workers) = g[w] + SumFunctionOnSet(g, others)
  BY <1>1, WorkersAssumption, SumTakesOut
<1>8. SumFunctionOnSet(f, others) = SumFunctionOnSet(g, others)
  BY <1>2, <1>5, SumSame
<1>9. SumFunctionOnSet(f, others) \in Nat
  BY <1>1, <1>5, SumType
<1> HIDE DEF others
<1> QED
  BY <1>1, <1>3, <1>4, <1>6, <1>7, <1>8, <1>9

LEMMA CountedSame ==
    ASSUME \A w \in Workers : worker'[w].counted = worker[w].counted
    PROVE  Counted' = Counted
<1> DEFINE f == [v \in Workers |-> worker[v].counted]
           g == [v \in Workers |-> worker'[v].counted]
<1>1. \A v \in Workers : f[v] = g[v]
  OBVIOUS
<1>2. Counted = SumFunctionOnSet(f, Workers) /\ Counted' = SumFunctionOnSet(g, Workers)
  BY DEF Counted
<1> HIDE DEF f, g
<1> QED
  BY <1>1, <1>2, WorkersAssumption, SumSame

LEMMA NothingCounted ==
    ASSUME \A w \in Workers : worker[w].counted = 0
    PROVE  Counted = 0
<1> DEFINE f == [v \in Workers |-> worker[v].counted]
           T == {U \in SUBSET Workers : SumFunctionOnSet(f, U) # 0}
<1>1. \A v \in Workers : f[v] = 0
  OBVIOUS
<1> HIDE DEF f
<1>2. ASSUME T # {} PROVE FALSE
  <2>1. T \in SUBSET (SUBSET Workers)
    OBVIOUS
  <2> HIDE DEF T
  <2>2. PICK U \in T : \A V \in SUBSET U : V # U => V \notin T
    BY <1>2, <2>1, WorkersAssumption, SmallestSubset
  <2>3. U \in SUBSET Workers /\ SumFunctionOnSet(f, U) # 0
    BY DEF T
  <2>4. IsFiniteSet(U)
    BY <2>3, WorkersAssumption, FS_Subset
  <2>5. U # {}
    BY <2>3, <2>4, SumEquation
  <2>6. Pick(U) \in U
    BY <2>5 DEF Pick
  <2>7. SumFunctionOnSet(f, U \ {Pick(U)}) = 0
    BY <2>2, <2>3, <2>6 DEF T
  <2>8. SumFunctionOnSet(f, U) = f[Pick(U)] + SumFunctionOnSet(f, U \ {Pick(U)})
    BY <2>4, <2>5, SumEquation
  <2> QED
    BY <1>1, <2>3, <2>6, <2>7, <2>8
<1>3. SumFunctionOnSet(f, Workers) = 0
  BY <1>2
<1> QED
  BY <1>3 DEF Counted, f

(***************************************************************************)
(* The rates of a download.                                                *)
(***************************************************************************)

Before(k) == IF k = 0 THEN 0 ELSE samples[k]

Growing ==
    /\ samples \in Seq(0..MaxTotal)
    /\ \A i, j \in 1..Len(samples) : i <= j => samples[i] <= samples[j]

LEMMA SampleType ==
    ASSUME samples \in Seq(0..MaxTotal), NEW i \in 1..Len(samples)
    PROVE  samples[i] \in Nat
<1> DEFINE Totals == 0..MaxTotal
<1>1. samples \in Seq(Totals) /\ Totals \subseteq Nat
  OBVIOUS
<1> HIDE DEF Totals
<1>2. samples[i] \in Totals
  BY <1>1
<1> QED
  BY <1>1, <1>2

LEMMA RateType ==
    ASSUME samples \in Seq(0..MaxTotal), NEW i \in 1..Len(samples)
    PROVE  Rate(i) \in Nat
<1>1. samples[i] \in Nat
  BY SampleType
<1>2. i # 1 => samples[i - 1] \in Nat
  BY SampleType
<1> QED
  BY <1>1, <1>2 DEF Rate, Minus

LEMMA RateOverType ==
    ASSUME samples \in Seq(0..MaxTotal), NEW a \in 1..(Len(samples) + 1)
    PROVE  RateOver(a, Len(samples)) \in Nat
<1> DEFINE S == a..Len(samples)
           f == [i \in S |-> Rate(i)]
<1>1. IsFiniteSet(S)
  BY FS_Interval
<1>2. \A i \in S : f[i] \in Nat
  BY RateType
<1> HIDE DEF S, f
<1>3. SumFunctionOnSet(f, S) \in Nat
  BY <1>1, <1>2, SumType
<1> QED
  BY <1>3 DEF RateOver, S, f

LEMMA RateIsGain ==
    ASSUME Growing, NEW i \in 1..Len(samples)
    PROVE  Rate(i) = Before(i) - Before(i - 1)
<1>1. samples[i] \in Nat
  BY SampleType DEF Growing
<1>2. CASE i = 1
  BY <1>1, <1>2 DEF Rate, Minus, Before
<1>3. CASE i # 1
  <2>1. i - 1 \in 1..Len(samples) /\ i - 1 # 0
    BY <1>3
  <2>2. samples[i - 1] \in Nat /\ samples[i - 1] <= samples[i]
    <3>1. samples[i - 1] \in Nat
      BY <2>1, SampleType DEF Growing
    <3>2. i - 1 <= i
      OBVIOUS
    <3> QED
      BY <2>1, <3>1, <3>2 DEF Growing
  <2>3. Rate(i) = Minus(samples[i], samples[i - 1])
    BY <1>3 DEF Rate
  <2>4. Before(i) = samples[i] /\ Before(i - 1) = samples[i - 1]
    BY <2>1 DEF Before
  <2> QED
    BY <1>1, <2>2, <2>3, <2>4 DEF Minus
<1> QED
  BY <1>2, <1>3

\* A counter that never decreases has gained what its rates add up to.
LEMMA RatesAddUp ==
    ASSUME Growing, NEW a \in 0..Len(samples)
    PROVE  RateOver(a + 1, Len(samples)) = Before(Len(samples)) - Before(a)
<1> DEFINE n == Len(samples)
           S == (a + 1)..n
           f == [i \in S |-> Rate(i)]
           Gain(k) == Before(k) - Before(a)
           T == {U \in SUBSET S : \E k \in a..n :
                   U = (a + 1)..k /\ SumFunctionOnSet(f, U) # Gain(k)}
<1>1. n \in Nat /\ IsFiniteSet(S)
  BY FS_Interval DEF Growing
<1>2. \A i \in S : f[i] \in Nat
  BY RateType DEF Growing
<1>3. \A k \in 0..n : Before(k) \in Nat
  BY SizeAssumption DEF Growing, Before
<1>4. \A i \in S : f[i] = Before(i) - Before(i - 1)
  <2>1. \A i \in S : i \in 1..n /\ f[i] = Rate(i)
    BY <1>1
  <2> HIDE DEF f, S
  <2> QED
    BY <2>1, RateIsGain
<1> HIDE DEF f
<1>5. ASSUME T # {} PROVE FALSE
  <2>1. T \in SUBSET (SUBSET S)
    OBVIOUS
  <2> HIDE DEF T
  <2>2. PICK U \in T : \A V \in SUBSET U : V # U => V \notin T
    <3> HIDE DEF S, n
    <3> QED
      BY <1>1, <1>5, <2>1, SmallestSubset
  <2>3. PICK k \in a..n : U = (a + 1)..k /\ SumFunctionOnSet(f, U) # Gain(k)
    BY DEF T
  <2>4. U \in SUBSET S /\ IsFiniteSet(U)
    BY <1>1, <2>1, FS_Subset
  <2>5. CASE k = a
    <3>1. U = {}
      BY <1>1, <2>3, <2>5
    <3>2. SumFunctionOnSet(f, U) = 0
      BY <2>4, <3>1, SumEquation
    <3> QED
      BY <1>1, <1>3, <2>3, <2>5, <3>2
  <2>6. CASE k # a
    <3> DEFINE V == (a + 1)..(k - 1)
    <3>1. k \in U /\ k - 1 \in a..n /\ k \in 0..n /\ k - 1 \in 0..n
      BY <1>1, <2>3, <2>6
    <3>2. V = U \ {k}
      BY <1>1, <2>3, <2>6
    <3>3. V \in SUBSET S /\ V \in SUBSET U /\ V # U
      BY <2>4, <3>1, <3>2
    <3>4. SumFunctionOnSet(f, V) = Gain(k - 1)
      BY <2>2, <3>1, <3>3 DEF T
    <3>5. SumFunctionOnSet(f, U) = f[k] + SumFunctionOnSet(f, U \ {k})
      BY <1>2, <2>4, <3>1, SumTakesOut
    <3>6. f[k] = Before(k) - Before(k - 1)
      BY <1>4, <2>4, <3>1
    <3>7. Before(k) \in Nat /\ Before(k - 1) \in Nat /\ Before(a) \in Nat
      BY <1>1, <1>3, <3>1
    <3> HIDE DEF V
    <3> QED
      BY <2>3, <3>2, <3>4, <3>5, <3>6, <3>7
  <2> QED
    BY <2>5, <2>6
<1>6. S \in SUBSET S /\ n \in a..n
  BY <1>1
<1>7. SumFunctionOnSet(f, S) = Gain(n)
  BY <1>5, <1>6
<1> QED
  BY <1>7 DEF RateOver, f

\* What the phase hands over when its workers are gone.
LEMMA SummaryAgrees ==
    ASSUME CountInv, SampleInv
    PROVE  /\ Summary \in [bytes : Nat, rate : Nat, steady : BOOLEAN]
           /\ direction = "download" =>
                IF Summary.steady THEN Summary.rate = Summary.bytes
                ELSE Summary.rate <= Summary.bytes
<1> DEFINE n == Len(samples)
           r == RampEnd
           Steady == n >= 2 /\ n - r >= 1
<1>1. n \in Nat /\ samples \in Seq(0..MaxTotal) /\ total \in Nat
  BY DEF SampleInv, CountInv
<1>2. r \in Nat \ {0}
  <2>1. (n + 4) \div 5 \in Int
    BY <1>1
  <2> HIDE DEF n
  <2> QED
    BY <2>1, SizeAssumption DEF RampEnd, n
<1>3. direction = "download" => Growing
  BY <1>1 DEF SampleInv, Growing
<1> HIDE DEF r
<1>4. CASE Steady
  <2>1. r \in 1..n /\ r \in 0..n /\ n \in 1..n /\ r + 1 \in 1..(n + 1)
    BY <1>1, <1>2, <1>4
  <2>2. Summary = [bytes |-> Minus(samples[n], samples[r]),
                   rate |-> RateOver(r + 1, n), steady |-> TRUE]
    BY <1>4 DEF Summary, r
  <2>3. samples[n] \in Nat /\ samples[r] \in Nat
    BY <1>1, <2>1, SampleType
  <2>4. Minus(samples[n], samples[r]) \in Nat
    BY <2>3 DEF Minus
  <2>5. RateOver(r + 1, n) \in Nat
    BY <1>1, <2>1, RateOverType
  <2>6. ASSUME direction = "download"
        PROVE  RateOver(r + 1, n) = Minus(samples[n], samples[r])
    <3>1. RateOver(r + 1, n) = Before(n) - Before(r)
      BY <1>3, <2>1, <2>6, RatesAddUp
    <3>2. samples[r] <= samples[n]
      BY <1>1, <1>3, <2>1, <2>6 DEF Growing
    <3> QED
      BY <1>1, <2>1, <2>3, <3>1, <3>2 DEF Before, Minus
  <2> QED
    BY <2>2, <2>4, <2>5, <2>6
<1>5. CASE ~Steady
  <2>1. Summary = [bytes |-> total, rate |-> RateOver(1, n), steady |-> FALSE]
    BY <1>5 DEF Summary, r
  <2>2. RateOver(1, n) \in Nat
    BY <1>1, RateOverType
  <2>3. ASSUME direction = "download" PROVE RateOver(1, n) <= total
    <3>1. RateOver(0 + 1, n) = Before(n) - Before(0)
      <4>1. 0 \in 0..n
        BY <1>1
      <4> QED
        BY <1>3, <2>3, <4>1, RatesAddUp
    <3>2. Before(n) \in Nat /\ Before(n) <= total
      <4>1. CASE n = 0
        BY <1>1, <4>1 DEF Before
      <4>2. CASE n # 0
        <5>1. n \in 1..n
          BY <1>1, <4>2
        <5>2. samples[n] \in Nat /\ samples[n] <= total
          BY <1>1, <2>3, <5>1, SizeAssumption DEF SampleInv
        <5> QED
          BY <4>2, <5>2 DEF Before
      <4> QED
        BY <4>1, <4>2
    <3> QED
      BY <1>1, <3>1, <3>2 DEF Before
  <2> QED
    BY <1>1, <2>1, <2>2, <2>3
<1> QED
  BY <1>4, <1>5

(***************************************************************************)
(* The invariant.                                                          *)
(***************************************************************************)

LEMMA InitIInv == Init => IInv
<1> SUFFICES ASSUME Init PROVE IInv
  OBVIOUS
<1>1. QuietInv
  BY InitQuiet
<1>2. WorkerInv
  BY SizeAssumption DEF Init, WorkerInv, Gone
<1>3. CountInv
  <2>1. \A w \in Workers : worker[w].counted = 0
    BY DEF Init, Gone
  <2>2. Counted = 0
    BY <2>1, NothingCounted
  <2> QED
    BY <2>2, SizeAssumption DEF Init, CountInv
<1>4. SampleInv
  BY SizeAssumption DEF Init, SampleInv
<1>5. ResultInv
  BY DEF Init, ResultInv, NoResult
<1>6. ControlInv
  BY DEF Init, ControlInv
<1> QED
  BY <1>1, <1>2, <1>3, <1>4, <1>5, <1>6 DEF IInv

\* A step of the worker w.
WorkerAction(w) == Loop(w) \/ Transfer(w) \/ Complete(w) \/ Fail(w)

LEMMA WorkerKeepsRest ==
    ASSUME IInv, NEW w \in Workers, WorkerAction(w)
    PROVE  /\ UNCHANGED <<direction, pc, stop, samples, probe, tokens, result>>
           /\ worker[w] \in [pc : {"gone", "idle", "request"}, counted : 0..Chunks]
           /\ \A v \in Workers \ {w} : worker'[v] = worker[v]
<1>1. worker \in [Workers -> [pc : {"gone", "idle", "request"}, counted : 0..Chunks]]
  BY DEF IInv, WorkerInv
<1> QED
  BY <1>1 DEF WorkerAction, Loop, Transfer, Complete, Fail

\* A chunk more, or the end of a download.
LEMMA TransferEffect ==
    ASSUME worker \in [Workers -> [pc : {"gone", "idle", "request"}, counted : 0..Chunks]],
           NEW w \in Workers, Transfer(w)
    PROVE  \/ /\ direction = "download"
              /\ worker' = [worker EXCEPT ![w] = Idle]
           \/ worker' = [worker EXCEPT ![w] =
                           [pc |-> "request", counted |-> worker[w].counted + 1]]
  BY DEF Transfer

LEMMA WorkerKeepsWorkers ==
    ASSUME IInv, NEW w \in Workers, WorkerAction(w)
    PROVE  WorkerInv'
<1> DEFINE States == [pc : {"gone", "idle", "request"}, counted : 0..Chunks]
           Kept(r) == r \in States /\ (r.pc # "request" => r.counted = 0)
<1>1. worker \in [Workers -> States] /\ \A v \in Workers : Kept(worker[v])
  BY DEF IInv, WorkerInv
<1>2. Kept(Gone) /\ Kept(Idle)
  BY SizeAssumption DEF Gone, Idle
<1>3. PICK r : worker' = [worker EXCEPT ![w] = r] /\ Kept(r)
  <2>1. CASE Loop(w)
    <3>1. Kept([pc |-> "request", counted |-> 0])
      BY SizeAssumption
    <3> HIDE DEF Kept
    <3> QED
      BY <1>2, <2>1, <3>1 DEF Loop
  <2>2. CASE Transfer(w)
    <3> DEFINE more == [pc |-> "request", counted |-> worker[w].counted + 1]
    <3>1. worker[w] \in States /\ worker[w].pc = "request" /\ worker[w].counted < Chunks
      BY <1>1, <2>2 DEF Transfer
    <3>2. Kept(more)
      BY <3>1, SizeAssumption
    <3>3. worker' = [worker EXCEPT ![w] = Idle] \/ worker' = [worker EXCEPT ![w] = more]
      BY <1>1, <2>2, TransferEffect
    <3> HIDE DEF Kept, more
    <3> QED
      BY <1>2, <3>2, <3>3
  <2>3. CASE Complete(w) \/ Fail(w)
    <3> HIDE DEF Kept
    <3> QED
      BY <1>2, <2>3 DEF Complete, Fail
  <2> QED
    BY <2>1, <2>2, <2>3 DEF WorkerAction
<1>4. worker' \in [Workers -> States] /\ \A v \in Workers : Kept(worker'[v])
  BY <1>1, <1>3
<1> QED
  BY <1>4 DEF WorkerInv

\* The counter and the requests change together.
LEMMA WorkerKeepsCount ==
    ASSUME IInv, NEW w \in Workers, WorkerAction(w)
    PROVE  /\ CountInv'
           /\ direction = "download" => total <= total'
<1>1. worker \in [Workers -> [pc : {"gone", "idle", "request"}, counted : 0..Chunks]]
  BY DEF IInv, WorkerInv
<1>2. Counted' = Counted + worker'[w].counted - worker[w].counted
  BY WorkerKeepsRest, WorkerKeepsWorkers, CountedStep DEF IInv
<1>3. Counted \in Nat /\ Counted' \in Nat
  BY WorkerKeepsWorkers, CountedType, CountedTypeNext DEF IInv
<1>4. worker[w].counted \in Nat /\ direction' = direction
  BY <1>1, SizeAssumption, WorkerKeepsRest
<1>5. CountInv
  BY DEF IInv
<1> HIDE DEF Counted
<1>6. CASE Loop(w)
  <2>1. worker'[w].counted = 0 /\ worker[w].counted = 0
    BY <1>1, <1>6 DEF Loop, Gone, IInv, WorkerInv
  <2>2. UNCHANGED <<direction, total, good>>
    BY <1>6 DEF Loop
  <2> QED
    BY <1>2, <1>3, <1>5, <2>1, <2>2 DEF CountInv
<1>7. CASE Transfer(w)
  <2>1. total' = total + 1 /\ total < MaxTotal /\ good' = good
    BY <1>7 DEF Transfer
  <2>2. direction = "upload" => worker'[w].counted = worker[w].counted + 1
    BY <1>1, <1>7, TransferEffect
  <2> QED
    BY <1>2, <1>3, <1>4, <1>5, <2>1, <2>2, SizeAssumption DEF CountInv
<1>8. CASE Complete(w)
  <2>1. worker'[w].counted = 0 /\ total' = total
    BY <1>1, <1>8 DEF Complete, Idle
  <2>2. good' = IF direction = "upload" THEN good + worker[w].counted ELSE good
    BY <1>8 DEF Complete
  <2> QED
    BY <1>2, <1>3, <1>4, <1>5, <2>1, <2>2, SizeAssumption DEF CountInv
<1>9. CASE Fail(w)
  <2>1. worker'[w].counted = 0 /\ direction = "upload" /\ good' = good
    BY <1>1, <1>9 DEF Fail, Idle
  <2>2. total' = total - worker[w].counted
    BY <1>9 DEF Fail
  <2> QED
    BY <1>2, <1>3, <1>4, <1>5, <2>1, <2>2, SizeAssumption DEF CountInv
<1> QED
  BY <1>6, <1>7, <1>8, <1>9 DEF WorkerAction

LEMMA WorkerKeepsIInv ==
    ASSUME IInv, NEW w \in Workers, WorkerAction(w)
    PROVE  IInv'
<1>1. QuietInv'
  <2>1. worker[w].pc # "gone" /\ UNCHANGED <<pc, probe>>
    BY DEF WorkerAction, Loop, Transfer, Complete, Fail
  <2> QED
    BY <2>1, WorkerStep DEF IInv
<1>2. SampleInv'
  <2>1. UNCHANGED <<direction, samples>> /\ SampleInv
    BY WorkerKeepsRest DEF IInv
  <2>2. direction = "download" => total <= total'
    BY WorkerKeepsCount
  <2>3. total \in Nat /\ total' \in Nat
    BY WorkerKeepsCount DEF IInv, CountInv
  <2>4. ASSUME direction = "download", NEW i \in 1..Len(samples) PROVE samples[i] <= total'
    <3>1. samples[i] \in Nat /\ samples[i] <= total
      BY <2>1, <2>4, SizeAssumption DEF SampleInv
    <3> QED
      BY <2>2, <2>3, <2>4, <3>1
  <2> QED
    BY <2>1, <2>4 DEF SampleInv
<1>3. ResultInv' /\ ControlInv'
  BY WorkerKeepsRest DEF IInv, ResultInv, ControlInv, tokens
<1> QED
  BY <1>1, <1>2, <1>3, WorkerKeepsWorkers, WorkerKeepsCount DEF IInv

\* Steps that touch neither counter, sample nor summary.
LEMMA Untouched ==
    ASSUME IInv, UNCHANGED <<direction, total, good, samples, result>>,
           WorkerInv', Counted' = Counted
    PROVE  CountInv' /\ SampleInv' /\ ResultInv'
  BY DEF IInv, CountInv, SampleInv, ResultInv

LEMMA StepIInv == IInv /\ [Next]_vars => IInv'
<1> SUFFICES ASSUME IInv, [Next]_vars PROVE IInv'
  OBVIOUS
<1>1. QuietInv'
  BY StepQuiet DEF IInv
<1>2. ASSUME NEW w \in Workers, Loop(w) \/ Transfer(w) \/ Complete(w) \/ Fail(w)
      PROVE  IInv'
  BY <1>2, WorkerKeepsIInv DEF WorkerAction
<1>3. ASSUME UNCHANGED worker PROVE WorkerInv' /\ Counted' = Counted
  BY <1>3 DEF IInv, WorkerInv, Counted
<1>4. CASE ProbeEnds \/ WatchToken \/ Shutdown \/ Drop \/ LeaveLoop \/ Collect
           \/ UNCHANGED vars
  <2>1. UNCHANGED <<direction, total, good, samples, result, worker>>
    BY <1>4 DEF ProbeEnds, WatchToken, Shutdown, Drop, LeaveLoop, Collect, vars
  <2>2. ControlInv'
    <3> USE DEF IInv, ControlInv, tokens
    <3>1. CASE ProbeEnds
      BY <3>1 DEF ProbeEnds
    <3>4. CASE LeaveLoop
      BY <3>4 DEF LeaveLoop
    <3>5. CASE Collect
      BY <3>5 DEF Collect
    <3>6. CASE UNCHANGED vars
      BY <3>6 DEF vars
    <3>2. CASE WatchToken \/ Shutdown
      BY <3>2 DEF WatchToken, Shutdown
    <3>3. CASE Drop
      BY <3>3 DEF Drop
    <3> QED
      BY <1>4, <3>1, <3>2, <3>3, <3>4, <3>5, <3>6
  <2> QED
    BY <1>1, <1>3, <2>1, <2>2, Untouched DEF IInv
<1>5. CASE Enter
  <2>1. UNCHANGED <<direction, total, good, samples, result>>
    BY <1>5 DEF Enter
  <2>2. ControlInv'
    BY <1>5 DEF Enter, tokens, IInv, ControlInv
  <2>3. WorkerInv' /\ \A w \in Workers : worker'[w].counted = worker[w].counted
    <3>1. CASE cancelled
      BY <1>3, <1>5, <3>1 DEF Enter
    <3>2. CASE ~cancelled
      <4>1. worker' = [w \in Workers |-> Idle]
        BY <1>5, <3>2 DEF Enter
      <4>2. \A w \in Workers : worker[w].pc = "gone"
        BY <1>5 DEF Enter, IInv, QuietInv, Live
      <4>3. \A w \in Workers : worker[w].counted = 0
        BY <4>2 DEF IInv, WorkerInv
      <4> QED
        BY <4>1, <4>3, SizeAssumption DEF WorkerInv, Idle
    <3> QED
      BY <3>1, <3>2
  <2> QED
    BY <1>1, <2>1, <2>2, <2>3, CountedSame, Untouched DEF IInv
<1>6. CASE Tick
  <2>1. /\ samples' = Append(samples, total) /\ Len(samples) < Ticks
        /\ UNCHANGED <<direction, total, good, result, worker>>
    BY <1>6 DEF Tick
  <2>2. ControlInv' /\ ResultInv'
    BY <1>6 DEF Tick, tokens, IInv, ControlInv, ResultInv
  <2>3. CountInv'
    BY <1>3, <2>1 DEF IInv, CountInv
  <2>4. SampleInv'
    <3> DEFINE n == Len(samples)
    <3>1. samples \in Seq(0..MaxTotal) /\ n \in Nat /\ total \in 0..MaxTotal
      BY DEF IInv, SampleInv, CountInv
    <3>2. samples' \in Seq(0..MaxTotal) /\ Len(samples') = n + 1
      BY <2>1, <3>1
    <3>3. samples'[n + 1] = total /\ \A i \in 1..n : samples'[i] = samples[i]
      BY <2>1, <3>1
    <3>4. n + 1 <= Ticks
      BY <2>1, <3>1, SizeAssumption
    <3>5. \A i \in 1..n : samples[i] \in Nat
      BY <3>1, SizeAssumption
    <3>6. ASSUME direction = "download"
          PROVE  /\ \A i \in 1..(n + 1) : samples'[i] <= total
                 /\ \A i, j \in 1..(n + 1) : i <= j => samples'[i] <= samples'[j]
      <4>1. /\ \A i \in 1..n : samples[i] <= total
            /\ \A i, j \in 1..n : i <= j => samples[i] <= samples[j]
        BY <3>6 DEF IInv, SampleInv
      <4>2. \A i \in 1..(n + 1) : i \in 1..n \/ i = n + 1
        BY <3>1
      <4>3. \A i \in 1..(n + 1) : samples'[i] <= total
        BY <3>1, <3>3, <4>1, <4>2
      <4>4. ASSUME NEW i \in 1..(n + 1), NEW j \in 1..(n + 1), i <= j
            PROVE  samples'[i] <= samples'[j]
        <5>1. CASE j = n + 1
          BY <3>3, <4>3, <5>1
        <5>2. CASE j # n + 1
          <6>1. i \in 1..n /\ j \in 1..n
            BY <3>1, <4>4, <5>2
          <6> QED
            BY <3>3, <4>1, <4>4, <6>1
        <5> QED
          BY <5>1, <5>2
      <4> QED
        BY <4>3, <4>4
    <3> QED
      BY <2>1, <3>2, <3>4, <3>6 DEF SampleInv
  <2> QED
    BY <1>1, <1>3, <2>1, <2>2, <2>3, <2>4 DEF IInv
<1>7. CASE Drained
  <2>1. UNCHANGED <<direction, total, good, samples, worker>> /\ result' = Summary
    BY <1>7 DEF Drained
  <2>2. ControlInv'
    BY <1>7 DEF Drained, tokens, IInv, ControlInv
  <2>3. ResultInv'
    BY <2>1, SummaryAgrees DEF IInv, ResultInv
  <2>4. CountInv' /\ SampleInv'
    BY <1>3, <2>1 DEF IInv, CountInv, SampleInv
  <2> QED
    BY <1>1, <1>3, <2>1, <2>2, <2>3, <2>4 DEF IInv
<1> QED
  BY <1>2, <1>4, <1>5, <1>6, <1>7 DEF Next, Phase

LEMMA Invariance == Spec => []IInv
  BY InitIInv, StepIInv, PTL DEF Spec

\* No counter leaves its range, and that of an upload never goes below zero, in
\* whatever order its workers fail.
THEOREM TypeCorrect == Spec => []TypeOK
<1>1. IInv => TypeOK
  <2> SUFFICES ASSUME IInv PROVE TypeOK
    OBVIOUS
  <2>1. Counted \in Nat
    BY CountedType DEF IInv
  <2>2. total \in 0..MaxTotal /\ good \in 0..MaxTotal
    BY <2>1, SizeAssumption DEF IInv, CountInv
  <2> QED
    BY <2>2 DEF IInv, WorkerInv, CountInv, SampleInv, ResultInv, ControlInv, TypeOK
<1> QED
  BY <1>1, Invariance, PTL

\* What an upload has counted is what succeeded and what is being sent.
THEOREM ExactTotal == Spec => []TotalIsExact
<1>1. IInv => TotalIsExact
  BY DEF IInv, CountInv, Counted, TotalIsExact
<1> QED
  BY <1>1, Invariance, PTL

\* The rate samples of a download and its bytes tell the same transfer.
THEOREM FiguresAgree == Spec => []DownloadFiguresAgree
<1>1. IInv => DownloadFiguresAgree
  BY DEF IInv, ResultInv, DownloadFiguresAgree
<1> QED
  BY <1>1, Invariance, PTL
=============================================================================
