----------------------------- MODULE LatencyProbe -----------------------------
(***************************************************************************)
(* The latency probes of a diagnostic (run_latency_probes) and the figures *)
(* made of them.  The jitter is the deviation that OnlineStats updates     *)
(* with every answer; the rest is computed at the end from all samples.    *)
(* Two pieces of code promise the same figure: compute_jitter, which takes *)
(* over where there is no deviation, computes it from the samples.         *)
(*                                                                         *)
(* Samples are whole milliseconds.  A mean is kept Scale times, a sum of   *)
(* squares Scale^2 times its value, a percentile 100 times: no rounding.   *)
(***************************************************************************)
EXTENDS Integers, Sequences, FiniteSets, Functions, CancelFlag

CONSTANTS
    Rtts,               \* what a probe may measure
    MaxRequests,        \* bound: probes that fit into total_duration
    Scale               \* a multiple of every number of answers

ASSUME RttsAssumption == Rtts \subseteq Nat
ASSUME ScaleAssumption ==
    /\ MaxRequests \in Nat /\ Scale \in Nat \ {0}
    /\ \A n \in 1..MaxRequests : Scale % n = 0

VARIABLES
    probing,            \* "off", "loop", "request" or "over"
    requests,           \* sent
    received,
    samples,
    mean, m2            \* OnlineStats, scaled

probes == <<probing, requests, received, samples, mean, m2>>

ProbesTypeOK ==
    /\ probing \in {"off", "loop", "request", "over"}
    /\ requests \in 0..MaxRequests
    /\ received \in 0..requests
    /\ samples \in Seq(Rtts) /\ Len(samples) = received
    /\ mean \in Nat /\ m2 \in Nat

ProbesInit ==
    /\ probing = "off"
    /\ requests = 0 /\ received = 0
    /\ samples = <<>>
    /\ mean = 0 /\ m2 = 0

BeginProbes ==
    /\ probing = "off"
    /\ probing' = "loop"
    /\ UNCHANGED <<requests, received, samples, mean, m2, cancelled>>

\* The duration is not over and the flag is not set.
Request ==
    /\ probing = "loop"
    /\ ~cancelled
    /\ requests < MaxRequests
    /\ requests' = requests + 1
    /\ probing' = "request"
    /\ UNCHANGED <<received, samples, mean, m2, cancelled>>

\* Mutant of Push: both differences are taken from the old mean.
PushBiased(x) ==
    LET delta == Scale * x - mean
    IN /\ mean' = mean + delta \div (received + 1)
       /\ m2' = m2 + delta * delta

\* OnlineStats::push.
Push(x) ==
    LET delta == Scale * x - mean
    IN /\ mean' = mean + delta \div (received + 1)
       /\ m2' = m2 + delta * (Scale * x - mean')

\* The probe is answered within its timeout, or fails.  One pause, one more round.
Answered ==
    /\ probing = "request"
    /\ \E x \in Rtts : Push(x) /\ samples' = Append(samples, x)
    /\ received' = received + 1
    /\ probing' = "loop"
    /\ UNCHANGED <<requests, cancelled>>

Unanswered ==
    /\ probing = "request"
    /\ probing' = "loop"
    /\ UNCHANGED <<requests, received, samples, mean, m2, cancelled>>

\* The duration is over, or the flag is set.
EndProbes ==
    /\ probing = "loop"
    /\ probing' = "over"
    /\ UNCHANGED <<requests, received, samples, mean, m2, cancelled>>

(***************************************************************************)
(* The figures.                                                            *)
(***************************************************************************)

Sum(s) == SumFunctionOnSet(s, 1..Len(s))

Square(x) == x * x

\* (n - 1) times the variance of compute_jitter, n^2 times.
Deviations ==
    SumFunctionOnSet([i \in 1..received |-> Square(received * samples[i] - Sum(samples))],
                     1..received)

\* Mutant of Percentile: the sample above the position.
PercentileAbove(sorted, p) ==
    LET position == p * (Len(sorted) - 1)
        lower == position \div 100
        upper == IF position % 100 = 0 THEN lower ELSE lower + 1
    IN 100 * sorted[upper + 1]

\* percentile_sorted, between the samples around the position.
Percentile(sorted, p) ==
    LET position == p * (Len(sorted) - 1)
        lower == position \div 100
        upper == IF position % 100 = 0 THEN lower ELSE lower + 1
    IN 100 * sorted[lower + 1]
         + (position % 100) * (sorted[upper + 1] - sorted[lower + 1])

\* Orders in which the positions of s are passed by ascending samples (sort_by).
Ascending(s) ==
    {p \in Bijection(1..Len(s), 1..Len(s)) :
        \A i, j \in 1..Len(s) : i <= j => s[p[i]] <= s[p[j]]}

Sorted(s) ==
    LET order == CHOOSE p \in Ascending(s) : TRUE
    IN [i \in 1..Len(s) |-> s[order[i]]]

\* latency_summary_from_samples and compute_sample_metrics.
Summary ==
    LET sorted == Sorted(samples)
    IN [lost |-> requests - received, sum |-> Sum(samples),
        min |-> 100 * sorted[1], p25 |-> Percentile(sorted, 25),
        median |-> Percentile(sorted, 50), p75 |-> Percentile(sorted, 75),
        p95 |-> Percentile(sorted, 95), p99 |-> Percentile(sorted, 99),
        max |-> 100 * sorted[received]]

\* valid_latency: the median, if anything was received.
HasLatency == received > 0

(***************************************************************************)
(* Properties.                                                             *)
(***************************************************************************)

\* The deviation kept from answer to answer is the one that compute_jitter finds in
\* all samples, and its mean is theirs, whatever their order
\* ("Use provided jitter or compute from samples using shared function").
JitterAgrees ==
    received > 0 =>
        /\ received * mean = Scale * Sum(samples)
        /\ Square(received) * m2 = Square(Scale) * Deviations

\* The percentiles of a summary are in order, between the smallest and the largest
\* sample, and the median splits the samples in the middle ("even-length medians are
\* the average of the two central values").
PercentilesAgree ==
    (probing = "over" /\ HasLatency) =>
        LET Rank(i) == Cardinality({j \in 1..received : samples[j] < samples[i]
                                      \/ (samples[j] = samples[i] /\ j <= i)})
            At(r) == samples[CHOOSE i \in 1..received : Rank(i) = r]
        IN /\ Summary.min <= Summary.p25 /\ Summary.p25 <= Summary.median
           /\ Summary.median <= Summary.p75 /\ Summary.p75 <= Summary.p95
           /\ Summary.p95 <= Summary.p99 /\ Summary.p99 <= Summary.max
           /\ Summary.median =
                50 * (At((received + 1) \div 2) + At(received \div 2 + 1))
=============================================================================
