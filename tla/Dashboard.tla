----------------------------- MODULE Dashboard -----------------------------
(***************************************************************************)
(* What main keeps between two repaints (main.go:141-147) and how update() *)
(* changes it: the rolling histories with their current and peak values,   *)
(* and the storage list with its refresh cadence.  update() runs once at   *)
(* start, on a tick of the 1 s ticker unless the Wi-Fi dialog is open, and *)
(* when the dialog closes.  The collectors (/proc, NVML, /sys/block) are   *)
(* the environment: each may fail.  Samples are small numbers.  Time goes  *)
(* by in units, several to a tick, because storageLast is taken when the   *)
(* enumeration is over and not when the tick came.                         *)
(* A definition marked "Slip" is a plausible mistake in the code of the    *)
(* definition that follows it; it takes no part in Next.                   *)
(***************************************************************************)
EXTENDS Integers, Sequences

CONSTANTS
  HistoryLen,   \* historyLen (120 in the code)
  RefreshRate,  \* refreshRate, the ticker's period, in units of time
  StorageRate,  \* storageRefreshRate, in units of time (120 ticks in the code)
  MaxStall,     \* bound: units of time that CollectStorage may take
  GpuReadings, MemReadings, RxReadings, TxReadings,  \* what collectors return
  Widths,       \* inner widths of a chart panel
  NoReading     \* the collector failed

ASSUME DashboardAssumption ==
  /\ HistoryLen \in Nat \ {0, 1}
  /\ RefreshRate \in Nat \ {0} /\ StorageRate \in Nat \ {0} /\ MaxStall \in Nat
  /\ GpuReadings \cup MemReadings \cup RxReadings \cup TxReadings \subseteq Nat
  /\ Widths \subseteq Int
  /\ NoReading \notin Nat

VARIABLES
  gpu, mem, rx, tx,  \* each: hist, cur and peak
  storageDevs,       \* "nil" or "devices"
  storageAge,        \* time since storageLast, counted up to MaxAge
  phase,             \* time since the ticker last fired
  ticked,            \* does the ticker's channel, of capacity 1, hold a tick?
  dialog,            \* is the Wi-Fi dialog open?
  started            \* has the first update run?

charts == <<gpu, mem, rx, tx>>
storageVars == <<storageDevs, storageAge>>
vars == <<charts, storageVars, phase, ticked, dialog, started>>

\* Older than this makes no difference to the code or to the properties.
MaxAge == StorageRate + RefreshRate
-----------------------------------------------------------------------------
(* Histories *)

\* The last n samples, or all of them.
TailBars(h, n) == IF Len(h) > n THEN SubSeq(h, Len(h) - n + 1, Len(h)) ELSE h

AppendHistory(h, v) == TailBars(Append(h, v), HistoryLen)

\* Slip: the nil check comes too late ...
UpdatedUnchecked(s, v) ==
  IF v = NoReading
  THEN [s EXCEPT !.hist = AppendHistory(@, v)]
  ELSE [hist |-> AppendHistory(s.hist, v), cur |-> v, peak |-> IF v > s.peak THEN v ELSE s.peak]

\* ... or the peak is moved before the current value.
UpdatedPeakFirst(s, v) ==
  IF v = NoReading
  THEN [s EXCEPT !.hist = AppendHistory(@, 0)]
  ELSE [hist |-> AppendHistory(s.hist, v), cur |-> v,
        peak |-> IF s.cur > s.peak THEN s.cur ELSE s.peak]

\* A reading moves the current value and the peak; a failed one only puts a
\* zero into the history.
Updated(s, v) ==
  IF v = NoReading
  THEN [s EXCEPT !.hist = AppendHistory(@, 0)]
  ELSE [hist |-> AppendHistory(s.hist, v),
        cur  |-> v,
        peak |-> IF v > s.peak THEN v ELSE s.peak]

\* Bars of width 2 that fit the panel: at least one.
VisibleBarCount(innerW) == IF innerW < 2 THEN 1 ELSE innerW \div 2

\* Slip: a single sample is plotted as it is.
Unpadded(s) == s
Pad(s) == IF Len(s) < 2 THEN <<0>> \o s ELSE s

PlotWidth(innerW) == IF innerW - 6 < 2 THEN 2 ELSE innerW - 6

\* The two series of the bandwidth plot: the tails that fit, cut to the same
\* length, with a zero in front of a single sample because the widget panics
\* on a series of fewer than two points.
PlotSeries(innerW) ==
  LET r == TailBars(rx.hist, PlotWidth(innerW))
      t == TailBars(tx.hist, PlotWidth(innerW))
      cnt == IF Len(t) < Len(r) THEN Len(t) ELSE Len(r)
      Cut(s) == SubSeq(s, Len(s) - cnt + 1, Len(s))
  IN  <<Pad(Cut(r)), Pad(Cut(t))>>
-----------------------------------------------------------------------------
(* update() *)

UpdateMem == \E v \in MemReadings \cup {NoReading} : mem' = Updated(mem, v)

UpdateGpu == \E v \in GpuReadings \cup {NoReading} : gpu' = Updated(gpu, v)

\* Slip: a failed collection puts its zero into one history only.
UpdateNetRxOnly ==
  \/ \E r \in RxReadings, t \in TxReadings : rx' = Updated(rx, r) /\ tx' = Updated(tx, t)
  \/ rx' = Updated(rx, NoReading) /\ UNCHANGED tx

UpdateNet ==
  \/ \E r \in RxReadings, t \in TxReadings : rx' = Updated(rx, r) /\ tx' = Updated(tx, t)
  \/ rx' = Updated(rx, NoReading) /\ tx' = Updated(tx, NoReading)

\* t units go by.  The ticker, made after the first update, goes on whatever
\* the loop does; it drops its tick when the last one was not yet received,
\* so that a loop that is late (a slow update, a stalled statfs, a blocking
\* call of nmcli) finds one tick for several.
Elapse(t, pending) ==
  LET now == IF started THEN phase + t ELSE 0
  IN  /\ phase' = now % RefreshRate
      /\ ticked' = (pending \/ now >= RefreshRate)

\* CollectStorage, which takes its time, and only then storageLast.
Enumerate(pending) ==
  /\ storageDevs' \in {"nil", "devices"} /\ storageAge' = 0
  /\ \E stall \in 0..MaxStall : Elapse(stall, pending)

\* The devices are enumerated when there is no list yet or it is StorageRate
\* old; an enumeration that finds nothing, or fails, yields nil.
UpdateStorage(pending) ==
  IF storageDevs = "nil" \/ storageAge >= StorageRate
  THEN Enumerate(pending)
  ELSE ticked' = pending /\ UNCHANGED <<storageVars, phase>>

\* pending: is a tick waiting when the update begins?  What an update does
\* besides CollectStorage takes less than a unit.
Update(pending) == UpdateMem /\ UpdateGpu /\ UpdateNet /\ UpdateStorage(pending)
-----------------------------------------------------------------------------
(* The main loop *)

Start ==
  /\ ~started /\ started' = TRUE
  /\ Update(FALSE)
  /\ UNCHANGED dialog

TimePasses ==
  /\ started /\ Elapse(1, ticked)
  /\ storageAge' = IF storageAge < MaxAge THEN storageAge + 1 ELSE MaxAge
  /\ UNCHANGED <<charts, storageDevs, dialog, started>>

Tick ==
  /\ ticked
  /\ IF dialog THEN ticked' = FALSE /\ UNCHANGED <<charts, storageVars, phase>> ELSE Update(FALSE)
  /\ UNCHANGED <<dialog, started>>

OpenDialog ==
  /\ started /\ ~dialog /\ dialog' = TRUE
  /\ UNCHANGED <<charts, storageVars, phase, ticked, started>>

\* Slip: the grid is rendered as it is, and the panels wait for a tick.
CloseDialogRenderOnly ==
  /\ dialog /\ dialog' = FALSE
  /\ UNCHANGED <<charts, storageVars, phase, ticked, started>>

\* The modal just closed: repaint the dashboard, without waiting for a tick.
CloseDialog ==
  /\ dialog /\ dialog' = FALSE
  /\ Update(ticked)
  /\ UNCHANGED started

NoSamples == [hist |-> <<>>, cur |-> 0, peak |-> 0]

Init ==
  /\ gpu = NoSamples /\ mem = NoSamples /\ rx = NoSamples /\ tx = NoSamples
  /\ storageDevs = "nil" /\ storageAge = MaxAge /\ phase = 0
  /\ ticked = FALSE /\ dialog = FALSE /\ started = FALSE

Next == Start \/ TimePasses \/ Tick \/ OpenDialog \/ CloseDialog

Spec == Init /\ [][Next]_vars
-----------------------------------------------------------------------------
(* Properties *)

Series == [hist : Seq(Nat), cur : Nat, peak : Nat]

TypeOK ==
  /\ {gpu, mem, rx, tx} \subseteq Series
  /\ storageDevs \in {"nil", "devices"}
  /\ storageAge \in 0..MaxAge /\ phase \in 0..RefreshRate - 1
  /\ {ticked, dialog, started} \subseteq BOOLEAN

\* No history outgrows the window, and all four hold the samples of the same
\* updates, also when a collector fails: RX and TX are plotted against each
\* other point by point.
HistoriesAligned ==
  /\ Len(gpu.hist) <= HistoryLen
  /\ \A s \in {mem, rx, tx} : Len(s.hist) = Len(gpu.hist)

\* Whatever the width of the panel, the bars fit it and the newest sample is
\* the rightmost one (main.go:117-118), and the plot gets two series of the
\* same length, at least two points each (main.go:597 "Plot panics if a series
\* has fewer than 2 points"), that end with the newest samples.
PlotSafe ==
  started => \A w \in Widths :
    LET d == PlotSeries(w)
        bars == TailBars(gpu.hist, VisibleBarCount(w))
    IN  /\ bars # <<>> /\ bars[Len(bars)] = gpu.hist[Len(gpu.hist)]
        /\ Len(bars) = 1 \/ 2 * Len(bars) <= w
        /\ Len(d[1]) = Len(d[2]) /\ Len(d[1]) >= 2
        /\ d[1][Len(d[1])] = rx.hist[Len(rx.hist)]
        /\ d[2][Len(d[2])] = tx.hist[Len(tx.hist)]

\* The peak in a chart's title is never below a bar of that chart.
PeakCoversHistory ==
  \A s \in {gpu, mem, rx, tx} :
    /\ s.cur <= s.peak
    /\ \A k \in DOMAIN s.hist : s.hist[k] <= s.peak

\* A dashboard on show whose ticks are all handled does not show a storage list
\* that was due when the ticker last fired, so that a list is never overdue by
\* a whole tick: however long the dialog covered it, and however the ticks, the
\* end of the last enumeration and a loop that is late lie to each other
\* (main.go:645-648, 708-743; README.md:111 "Refreshes every 2 minutes").
\* StorageRate itself is exceeded: storageLast is later than the tick that set
\* it, so that 120 ticks on the list is not yet due.
StorageFresh == started /\ ~dialog /\ ~ticked => storageAge < StorageRate + phase
=============================================================================
