------------------------------ MODULE CpuUsage ------------------------------
(***************************************************************************)
(* Per-core CPU usage (cpu.go): CollectCPU compares the counters of        *)
(* /proc/stat with those of the call before.  The counters are unsigned;   *)
(* /proc/stat lists the CPUs that are online, without gaps, so that a      *)
(* sample is known by its place in the list and not by its CPU.            *)
(*                                                                         *)
(* The kernel is the environment: it accounts jiffies to CPUs and takes    *)
(* CPUs off and on line.  The eight fields of a line count as two, time    *)
(* spent working and time spent waiting (idle and iowait); floats become   *)
(* whole percents.                                                         *)
(* A definition marked "Slip" is a plausible mistake in the code of the    *)
(* definition that follows it; it takes no part in CpuNext.                *)
(***************************************************************************)
EXTENDS Integers, Sequences, FiniteSets, Functions

CONSTANTS
  NumCPUs,   \* CPUs of the machine, numbered from 0
  Width,     \* the counters count modulo Width (2^64 in the code)
  MaxRan,    \* bound: jiffies of a CPU between two samples
  Freqs,     \* frequencies a cpufreq file may give
  Sentinel,  \* 1e18: above every frequency
  NoValue    \* no value

ASSUME CpuAssumption ==
  /\ NumCPUs \in Nat \ {0} /\ Width \in Nat /\ MaxRan \in Nat /\ MaxRan < Width
  /\ Freqs \subseteq Nat /\ Sentinel \in Nat /\ \A f \in Freqs : f < Sentinel
  /\ NoValue \notin Nat

CPUs == 0..(NumCPUs - 1)
Counter == 0..(Width - 1)
Sample == [active : Counter, waiting : Counter]

VARIABLES
  online,          \* CPUs that /proc/stat lists
  stat,            \* their counters; an offline CPU keeps its own
  prevCPUSamples,
  cpuMetrics,      \* what the last step returned to update(), if it did
  ran,             \* the truth: jiffies of each CPU since the last sample,
  sampled          \* and the CPUs that sample was of

cpuKernelVars == <<online, stat>>
cpuTruthVars  == <<ran, sampled>>
cpuVars == <<cpuKernelVars, prevCPUSamples, cpuMetrics, cpuTruthVars>>
-----------------------------------------------------------------------------
(* The kernel *)

\* A jiffy goes by on CPU c.
Jiffy(c) ==
  /\ c \in online
  /\ ran[c].active + ran[c].waiting < MaxRan
  /\ \E field \in {"active", "waiting"} :
       /\ stat' = [stat EXCEPT ![c][field] = (@ + 1) % Width]
       /\ ran' = [ran EXCEPT ![c][field] = @ + 1]
  /\ cpuMetrics' = NoValue
  /\ UNCHANGED <<online, prevCPUSamples, sampled>>

Hotplug(c) ==
  /\ online' = IF c \in online THEN online \ {c} ELSE online \cup {c}
  /\ online' # {}
  /\ cpuMetrics' = NoValue
  /\ UNCHANGED <<stat, prevCPUSamples, cpuTruthVars>>
-----------------------------------------------------------------------------
(* CollectCPU *)

\* Some CPUs, by number.
InOrder(S) == CHOOSE cpus \in [1..Cardinality(S) -> S] :
                \A i, j \in DOMAIN cpus : i < j => cpus[i] < cpus[j]

\* The lines of /proc/stat: the CPUs that are online.
readCPUSamples == [i \in 1..Cardinality(online) |-> stat[InOrder(online)[i]]]

\* Slip: a signed difference.
MinusSigned(a, b) == a - b
Minus(a, b) == (a - b) % Width
total(s)  == (s.active + s.waiting) % Width
active(s) == s.active

\* Slip: the share is taken of the waiting time.
coreUsageOfWaiting(prev, curr) ==
  LET waitingDiff == Minus(curr.waiting, prev.waiting)
      activeDiff  == Minus(active(curr), active(prev))
  IN  IF waitingDiff = 0 THEN 0 ELSE (100 * activeDiff) \div waitingDiff

\* The differences are unsigned: neither test of the code for a negative one
\* can fire, only the one for zero.
coreUsage(prev, curr) ==
  LET totalDiff  == Minus(total(curr), total(prev))
      activeDiff == Minus(active(curr), active(prev))
  IN  IF totalDiff = 0 THEN 0 ELSE (100 * activeDiff) \div totalDiff

CoreUsages(prev, curr) ==
  [i \in DOMAIN curr |-> IF Len(prev) = Len(curr) THEN coreUsage(prev[i], curr[i]) ELSE 0]

AvgUsage(usages) == SumFunction(usages) \div Len(usages)

\* The frequencies that could be read: their extremes, sum and number.
AddFreq(acc, f) ==
  IF f = NoValue THEN acc
  ELSE [min |-> IF f < acc.min THEN f ELSE acc.min, max |-> IF f > acc.max THEN f ELSE acc.max,
        sum |-> acc.sum + f, count |-> acc.count + 1]
NoFreqs == [min |-> Sentinel, max |-> 0, sum |-> 0, count |-> 0]
AllFreqs(freqs) ==
  LET first[k \in 0..Len(freqs)] == IF k = 0 THEN NoFreqs ELSE AddFreq(first[k - 1], freqs[k])
  IN  first[Len(freqs)]

\* Slip: the sentinel is not taken back.
FreqRangeLeaks(freqs) == AllFreqs(freqs)
FreqRange(freqs) ==
  LET all == AllFreqs(freqs) IN IF all.count = 0 THEN [all EXCEPT !.min = 0] ELSE all

\* Slip: the samples are replaced only when they were of use.
SaveWhenSame(curr) ==
  prevCPUSamples' = IF Len(prevCPUSamples) \in {0, Len(curr)} THEN curr ELSE prevCPUSamples
Save(curr) == prevCPUSamples' = curr

\* No cpufreq file is there for a CPU that is off line; either of the two of
\* one that is on line may be missing.
CollectCPU ==
  LET curr == readCPUSamples
      usages == CoreUsages(prevCPUSamples, curr)
  IN  /\ \E freqs \in [1..Len(curr) -> Freqs \cup {NoValue}] :
           /\ \A i \in DOMAIN freqs : i - 1 \notin online => freqs[i] = NoValue
           /\ cpuMetrics' = [usages |-> usages, avg |-> AvgUsage(usages),
                             freq |-> FreqRange(freqs)]
      /\ Save(curr)
      /\ sampled' = online
      /\ ran' = [c \in CPUs |-> [active |-> 0, waiting |-> 0]]
      /\ UNCHANGED cpuKernelVars

\* /proc/stat could not be read: nil and an error; the samples are kept.
CollectCPUFails ==
  /\ cpuMetrics' = NoValue
  /\ UNCHANGED <<cpuKernelVars, prevCPUSamples, cpuTruthVars>>
-----------------------------------------------------------------------------
CpuInit ==
  /\ online \in (SUBSET CPUs) \ {{}}
  /\ stat \in [CPUs -> {[active |-> 0, waiting |-> 0], [active |-> Width - 1, waiting |-> 0]}]
  /\ prevCPUSamples = <<>> /\ cpuMetrics = NoValue
  /\ ran = [c \in CPUs |-> [active |-> 0, waiting |-> 0]] /\ sampled = {}

CpuNext ==
  \/ \E c \in CPUs : Jiffy(c) \/ Hotplug(c)
  \/ CollectCPU \/ CollectCPUFails

CpuSpec == CpuInit /\ [][CpuNext]_cpuVars
-----------------------------------------------------------------------------
(* Properties *)

Usages == [usages : Seq(Nat), avg : Nat,
           freq : [min : Nat, max : Nat, sum : Nat, count : Nat]]

CpuTypeOK ==
  /\ online \in (SUBSET CPUs) \ {{}} /\ sampled \subseteq CPUs
  /\ stat \in [CPUs -> Sample]
  /\ prevCPUSamples \in Seq(Sample) /\ cpuMetrics \in Usages \cup {NoValue}
  /\ ran \in [CPUs -> [active : Nat, waiting : Nat]]

\* When /proc/stat lists the CPUs of the last sample again, each core's usage
\* is the share of its time since then that it really worked: also when a
\* counter wrapped, a call failed in between, or a CPU was away for a while
\* (cpu.go:83-93, 146-157).
TrueUsage(c) ==
  LET all == ran[c].active + ran[c].waiting
  IN  IF all = 0 THEN 0 ELSE (100 * ran[c].active) \div all

UsageIsTrue ==
  [][cpuMetrics' # NoValue /\ sampled = online =>
       cpuMetrics'.usages =
         [i \in 1..Cardinality(online) |-> TrueUsage(InOrder(online)[i])]]_cpuVars

\* The panel's frequencies are in order, whichever files could not be read:
\* the sentinel that the minimum starts from never shows (cpu.go:95-132).
FreqsInOrder ==
  cpuMetrics # NoValue =>
    LET f == cpuMetrics.freq
    IN  f.min <= f.max /\ f.min * f.count <= f.sum /\ f.sum <= f.max * f.count

\* cpu.go:34: "CoreUsages []float64 // 0-100 per core".  Samples are matched
\* by place and only their number is compared: when one CPU went off line and
\* another came on line, two CPUs' counters are subtracted, without a sign.
UsageIsPercent ==
  cpuMetrics # NoValue => \A i \in DOMAIN cpuMetrics.usages : cpuMetrics.usages[i] <= 100
=============================================================================
