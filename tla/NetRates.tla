------------------------------ MODULE NetRates ------------------------------
(***************************************************************************)
(* Bandwidth per network interface and in total (net.go): CollectNet       *)
(* compares the byte counters of /proc/net/dev with those of the last call *)
(* that could read them.  Interfaces come and go between two calls, and    *)
(* one that comes back under its old name counts from zero.  The list of   *)
(* interfaces is built in the random order of a Go map and then sorted.    *)
(*                                                                         *)
(* The kernel is the environment.  Rates are whole bytes per second.       *)
(* A definition marked "Slip" is a plausible mistake in the code of the    *)
(* definition that follows it; it takes no part in Next.                   *)
(***************************************************************************)
EXTENDS Integers, Sequences, FiniteSets, Functions

CONSTANTS
  Names,       \* names of interfaces
  NameOrder,   \* the place of a name in the alphabet
  Kind,        \* ifaceKind(name): 0 wireless, 1 ethernet, 2 virtual, 3 loopback
  Dirs,        \* "rx" and "tx"
  Statuses,    \* operstate and carrier as ifaceStatus reads them
  MaxBytes,    \* bound: bytes an interface counts, or moves between samples
  MaxSecs,     \* bound: seconds between two samples
  Nothing      \* no value

ASSUME NetAssumption ==
  /\ IsFiniteSet(Names) /\ NameOrder \in [Names -> Nat]
  /\ \A m, n \in Names : NameOrder[m] = NameOrder[n] => m = n
  /\ Kind \in [Names -> 0..3]
  /\ Statuses \subseteq [isUp : BOOLEAN, hasCarrier : BOOLEAN]
  /\ MaxBytes \in Nat /\ MaxSecs \in Nat

VARIABLES
  dev,             \* the kernel's counters of the interfaces there are
  prevNetSamples,  \* those of the last sample, and
  secs,            \* the seconds since it was taken
  metrics,         \* what the last step returned to update(), if it did
  moved,           \* the truth: bytes moved under each name since then,
  steady           \* and the interfaces that were there all the time

kernelVars == <<dev, secs>>
truthVars  == <<moved, steady>>
vars == <<kernelVars, prevNetSamples, metrics, truthVars>>

Zero == [d \in Dirs |-> 0]
Present == DOMAIN dev
-----------------------------------------------------------------------------
(* The kernel *)

Traffic(n) ==
  /\ n \in Present
  /\ \E d \in Dirs :
       /\ dev[n][d] < MaxBytes /\ moved[n][d] < MaxBytes
       /\ dev' = [dev EXCEPT ![n][d] = @ + 1]
       /\ moved' = [moved EXCEPT ![n][d] = @ + 1]
  /\ metrics' = Nothing
  /\ UNCHANGED <<secs, prevNetSamples, steady>>

Appears(n) ==
  /\ n \notin Present
  /\ dev' = [m \in Present \cup {n} |-> IF m = n THEN Zero ELSE dev[m]]
  /\ metrics' = Nothing
  /\ UNCHANGED <<secs, prevNetSamples, truthVars>>

Disappears(n) ==
  /\ n \in Present
  /\ dev' = [m \in Present \ {n} |-> dev[m]]
  /\ steady' = steady \ {n}
  /\ metrics' = Nothing
  /\ UNCHANGED <<secs, prevNetSamples, moved>>

Second ==
  /\ secs < MaxSecs /\ secs' = secs + 1
  /\ metrics' = Nothing
  /\ UNCHANGED <<dev, prevNetSamples, truthVars>>
-----------------------------------------------------------------------------
(* CollectNet *)

\* Slip: the counters are not compared before one is subtracted ...
BpsUnguarded(n, d) ==
  IF n \in DOMAIN prevNetSamples /\ secs > 0
  THEN (dev[n][d] - prevNetSamples[n][d]) \div secs ELSE 0

\* ... or the one that is ahead is taken for the new one.
BpsRestarted(n, d) ==
  IF n \in DOMAIN prevNetSamples /\ secs > 0
  THEN (IF dev[n][d] >= prevNetSamples[n][d]
        THEN dev[n][d] - prevNetSamples[n][d] ELSE prevNetSamples[n][d] - dev[n][d]) \div secs
  ELSE 0

\* No rate for an interface that the last sample lacks, or whose counter went
\* back.
Bps(n, d) ==
  IF n \in DOMAIN prevNetSamples /\ secs > 0 /\ dev[n][d] >= prevNetSamples[n][d]
  THEN (dev[n][d] - prevNetSamples[n][d]) \div secs
  ELSE 0

InTotal(n) == Kind[n] # 3

TotalBps(d) == SumFunction([n \in {m \in Present : InTotal(m)} |-> Bps(n, d)])

stateRank(s) == IF s.isUp /\ s.hasCarrier THEN 0 ELSE IF s.isUp THEN 1 ELSE 2

\* Slip: the names do not break ties.
BeforeUnnamed(status, a, b) ==
  \/ Kind[a] < Kind[b]
  \/ Kind[a] = Kind[b] /\ stateRank(status[a]) < stateRank(status[b])

Before(status, a, b) ==
  \/ Kind[a] < Kind[b]
  \/ /\ Kind[a] = Kind[b]
     /\ \/ stateRank(status[a]) < stateRank(status[b])
        \/ stateRank(status[a]) = stateRank(status[b]) /\ NameOrder[a] < NameOrder[b]

\* The orders of the map: each interface once.
Orders(S) == {s \in [1..Cardinality(S) -> S] : IsInjective(s)}

\* What the sort can make of any of them.
Sorted(orders, status) ==
  {s \in orders : \A i, j \in DOMAIN s : i < j => ~Before(status, s[j], s[i])}

CollectNet ==
  /\ LET orders == Orders(Present)
         rates  == [n \in Present |-> [d \in Dirs |-> Bps(n, d)]]
         totals == [d \in Dirs |-> TotalBps(d)]
     IN  \E status \in [Present -> Statuses] : \E order \in Sorted(orders, status) :
           metrics' = [interfaces |-> order, status |-> status, bps |-> rates, total |-> totals]
  /\ prevNetSamples' = dev
  /\ secs' = 0
  /\ moved' = [n \in Names |-> Zero] /\ steady' = Present
  /\ UNCHANGED dev

\* /proc/net/dev could not be read: nil and an error; the samples are kept.
CollectNetFails ==
  /\ metrics' = Nothing
  /\ UNCHANGED <<kernelVars, prevNetSamples, truthVars>>
-----------------------------------------------------------------------------
Init ==
  /\ dev \in UNION {[P -> [Dirs -> {0, 1}]] : P \in SUBSET Names}
  /\ secs = 0 /\ prevNetSamples = <<>> /\ metrics = Nothing
  /\ moved = [n \in Names |-> Zero] /\ steady = {}

Next ==
  \/ \E n \in Names : Traffic(n) \/ Appears(n) \/ Disappears(n)
  \/ Second \/ CollectNet \/ CollectNetFails

Spec == Init /\ [][Next]_vars
-----------------------------------------------------------------------------
(* Properties *)

Counters == [Dirs -> Nat]

TypeOK ==
  /\ DOMAIN dev \subseteq Names /\ dev \in [DOMAIN dev -> Counters]
  /\ DOMAIN prevNetSamples \subseteq Names
  /\ prevNetSamples \in [DOMAIN prevNetSamples -> Counters]
  /\ secs \in Nat /\ moved \in [Names -> Counters] /\ steady \subseteq Names
  /\ metrics # Nothing =>
       /\ metrics.interfaces \in Seq(Names) /\ metrics.total \in Counters
       /\ metrics.bps \in [DOMAIN dev -> Counters]

Real(S, d) == SumFunction([n \in S |-> moved[n][d]])

\* No rate is more than what really went through an interface of that name
\* since the last sample, however often it went away and came back in between
\* and however its counters restarted; and it is exactly that for one that
\* stayed (net.go:156-166).  Nor is the total, which the graph shows: it leaves
\* out the loopback interface, counts nothing twice, and misses nothing that
\* stayed (net.go:167-171).
RatesAreTrue ==
  [][metrics' # Nothing => \A d \in Dirs :
       LET others == {n \in Names : Kind[n] # 3}
       IN  /\ \A n \in Present :
                /\ metrics'.bps[n][d] * secs <= moved[n][d]
                /\ n \in steady /\ secs > 0 => metrics'.bps[n][d] = moved[n][d] \div secs
           /\ metrics'.total[d] * secs <= Real(others, d)
           /\ secs = 1 => metrics'.total[d] >= Real(others \cap steady, d)]_vars

\* The rows of the panel do not change places with the order of a map: kind,
\* state and name leave one order only (net.go:176-191).
OneOrder ==
  metrics # Nothing => Sorted(Orders(Present), metrics.status) = {metrics.interfaces}
=============================================================================
