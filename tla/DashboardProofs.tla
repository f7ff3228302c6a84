-------------------------- MODULE DashboardProofs --------------------------
(***************************************************************************)
(* The safety properties of the dashboard's state, proved for windows of   *)
(* any length, any refresh rate and any readings.                          *)
(***************************************************************************)
EXTENDS Dashboard, SequenceTheorems, TLAPS

\* A chart's samples: in the window, and none above the peak.
Good(s) ==
  /\ s \in Series /\ Len(s.hist) <= HistoryLen
  /\ s.cur <= s.peak
  /\ \A k \in 1..Len(s.hist) : s.hist[k] <= s.peak

\* The length of a history after one more sample.
Longer(n) == IF n < HistoryLen THEN n + 1 ELSE HistoryLen

Inv ==
  /\ Good(gpu) /\ Good(mem) /\ Good(rx) /\ Good(tx)
  /\ \A s \in {mem, rx, tx} : Len(s.hist) = Len(gpu.hist)
  /\ started => Len(gpu.hist) >= 1
  /\ storageDevs \in {"nil", "devices"} /\ storageAge \in 0..MaxAge /\ phase \in 0..RefreshRate - 1
  /\ ticked \in BOOLEAN /\ dialog \in BOOLEAN /\ started \in BOOLEAN
  /\ StorageFresh
-----------------------------------------------------------------------------
\* Arithmetic: nothing lies between 1 and 2, and halving is monotonic.
LEMMA OneOrTwo ==
  ASSUME NEW n \in Nat, n >= 1, n < 2
  PROVE  n = 1
OBVIOUS

LEMMA FitsToo ==
  ASSUME NEW b \in Nat, NEW n \in Nat, NEW w \in Int, b >= 1, b <= n, n = 1 \/ 2 * n <= w
  PROVE  b = 1 \/ 2 * b <= w
<1>1. CASE n = 1
  BY <1>1
<1>2. CASE 2 * n <= w
  <2>1. 2 * b <= 2 * n
    OBVIOUS
  <2> QED
    BY <1>2, <2>1
<1> QED
  BY <1>1, <1>2

\* The tail of a sequence: its length and its elements, the last ones last.
LEMMA TailOf ==
  ASSUME NEW S, NEW h \in Seq(S), NEW n \in Nat
  PROVE  /\ TailBars(h, n) \in Seq(S)
         /\ Len(TailBars(h, n)) = IF Len(h) > n THEN n ELSE Len(h)
         /\ \A k \in 1..Len(TailBars(h, n)) :
              TailBars(h, n)[k] = h[Len(h) - Len(TailBars(h, n)) + k]
<1>1. Len(h) \in Nat /\ \A k \in 1..Len(h) : h[k] \in S
  OBVIOUS
<1>2. CASE Len(h) > n
  <2> DEFINE m == Len(h) - n + 1
  <2>1. m \in Int /\ \A k \in m..Len(h) : h[k] \in S
    BY <1>1, <1>2
  <2>2. /\ SubSeq(h, m, Len(h)) \in Seq(S)
        /\ Len(SubSeq(h, m, Len(h))) = IF m <= Len(h) THEN Len(h) - m + 1 ELSE 0
        /\ \A i \in 1 .. Len(h) - m + 1 : SubSeq(h, m, Len(h))[i] = h[m + i - 1]
    BY <1>1, <2>1, SubSeqProperties
  <2>3. TailBars(h, n) = SubSeq(h, m, Len(h))
    BY <1>2 DEF TailBars
  <2>4. Len(SubSeq(h, m, Len(h))) = n /\ Len(h) - m + 1 = n
    BY <1>1, <1>2, <2>2
  <2>5. \A i \in 1..n : SubSeq(h, m, Len(h))[i] = h[Len(h) - n + i]
    BY <1>1, <2>2, <2>4
  <2> QED
    BY <1>2, <2>2, <2>3, <2>4, <2>5
<1>3. CASE ~(Len(h) > n)
  BY <1>1, <1>3 DEF TailBars
<1> QED
  BY <1>2, <1>3

\* It ends where the sequence ends.
LEMMA EndOfTail ==
  ASSUME NEW S, NEW h \in Seq(S), Len(h) >= 1, NEW n \in Nat, n >= 1
  PROVE  /\ TailBars(h, n) \in Seq(S) /\ TailBars(h, n) # <<>>
         /\ Len(TailBars(h, n)) = IF Len(h) > n THEN n ELSE Len(h)
         /\ Len(TailBars(h, n)) >= 1 /\ Len(TailBars(h, n)) <= n
         /\ TailBars(h, n)[Len(TailBars(h, n))] = h[Len(h)]
<1> DEFINE t == TailBars(h, n)
<1>1. /\ t \in Seq(S) /\ Len(t) = IF Len(h) > n THEN n ELSE Len(h)
      /\ \A k \in 1..Len(t) : t[k] = h[Len(h) - Len(t) + k]
  BY TailOf
<1> HIDE DEF t
<1>2. Len(t) \in Nat /\ Len(h) \in Nat
  BY <1>1
<1>3. Len(t) >= 1 /\ Len(t) <= n
  BY <1>1, <1>2
<1>4. t # <<>>
  BY <1>3
<1>5. Len(t) \in 1..Len(t) /\ Len(h) - Len(t) + Len(t) = Len(h)
  BY <1>2, <1>3
<1>6. t[Len(t)] = h[Len(h) - Len(t) + Len(t)]
  BY <1>1, <1>5
<1> QED
  BY <1>1, <1>3, <1>4, <1>5, <1>6 DEF t

\* A sample enters the window on the right and moves no other sample's bound.
LEMMA HistoryAppended ==
  ASSUME NEW h \in Seq(Nat), Len(h) <= HistoryLen, NEW v \in Nat, NEW p \in Nat,
         v <= p, \A k \in 1..Len(h) : h[k] <= p
  PROVE  /\ AppendHistory(h, v) \in Seq(Nat)
         /\ Len(AppendHistory(h, v)) = Longer(Len(h))
         /\ \A k \in 1..Len(AppendHistory(h, v)) : AppendHistory(h, v)[k] <= p
<1> DEFINE a == Append(h, v)
           t == TailBars(a, HistoryLen)
<1>0. HistoryLen \in Nat /\ HistoryLen > 1 /\ Len(h) \in Nat
  BY DashboardAssumption
<1>1. /\ a \in Seq(Nat) /\ Len(a) = Len(h) + 1
      /\ \A k \in 1..Len(h) : a[k] = h[k]
      /\ a[Len(h) + 1] = v
  BY AppendProperties
<1>2. \A k \in 1..Len(a) : a[k] <= p
  BY <1>0, <1>1
<1> HIDE DEF a
<1>3. /\ t \in Seq(Nat) /\ Len(t) = IF Len(a) > HistoryLen THEN HistoryLen ELSE Len(a)
      /\ \A k \in 1..Len(t) : t[k] = a[Len(a) - Len(t) + k]
  BY <1>0, <1>1, TailOf
<1>4. Len(t) = Longer(Len(h)) /\ Len(t) \in Nat /\ Len(t) <= Len(a)
  BY <1>0, <1>1, <1>3 DEF Longer
<1>5. \A k \in 1..Len(t) : t[k] <= p
  <2> SUFFICES ASSUME NEW k \in 1..Len(t) PROVE t[k] <= p
    OBVIOUS
  <2>1. Len(a) - Len(t) + k \in 1..Len(a)
    BY <1>0, <1>1, <1>4
  <2> QED
    BY <1>2, <1>3, <2>1
<1> QED
  BY <1>3, <1>4, <1>5 DEF AppendHistory, a

\* An update keeps a chart's samples in order and lengthens its history alike
\* whether the reading failed or not.
LEMMA UpdatedGood ==
  ASSUME NEW s, Good(s), NEW v \in Nat \cup {NoReading}
  PROVE  Good(Updated(s, v)) /\ Len(Updated(s, v).hist) = Longer(Len(s.hist))
<1>0. /\ s \in Series /\ s.hist \in Seq(Nat) /\ s.cur \in Nat /\ s.peak \in Nat
      /\ s = [hist |-> s.hist, cur |-> s.cur, peak |-> s.peak]
      /\ Len(s.hist) <= HistoryLen /\ s.cur <= s.peak
      /\ \A k \in 1..Len(s.hist) : s.hist[k] <= s.peak
  BY DEF Good, Series
<1>l. Longer(Len(s.hist)) <= HistoryLen
  BY <1>0, DashboardAssumption DEF Longer
<1>1. CASE v = NoReading
  <2> DEFINE h == AppendHistory(s.hist, 0)
  <2>0. 0 \in Nat /\ 0 <= s.peak
    BY <1>0
  <2>1. /\ h \in Seq(Nat) /\ Len(h) = Longer(Len(s.hist))
        /\ \A k \in 1..Len(h) : h[k] <= s.peak
    BY <1>0, <2>0, HistoryAppended
  <2> HIDE DEF h
  <2>2. Updated(s, v) = [hist |-> h, cur |-> s.cur, peak |-> s.peak]
    BY <1>0, <1>1 DEF Updated, h
  <2> QED
    BY <1>0, <1>l, <2>1, <2>2 DEF Good, Series
<1>2. CASE v # NoReading
  <2> DEFINE p == IF v > s.peak THEN v ELSE s.peak
             h == AppendHistory(s.hist, v)
  <2>0. v \in Nat /\ p \in Nat /\ v <= p /\ s.peak <= p
    BY <1>0, <1>2
  <2> HIDE DEF p
  <2>1. \A k \in 1..Len(s.hist) : s.hist[k] <= p
    BY <1>0, <2>0
  <2>2. /\ h \in Seq(Nat) /\ Len(h) = Longer(Len(s.hist))
        /\ \A k \in 1..Len(h) : h[k] <= p
    BY <1>0, <2>0, <2>1, HistoryAppended
  <2> HIDE DEF h
  <2>3. Updated(s, v) = [hist |-> h, cur |-> v, peak |-> p]
    BY <1>2 DEF Updated, h, p
  <2> QED
    BY <1>l, <2>0, <2>2, <2>3 DEF Good, Series
<1> QED
  BY <1>1, <1>2
-----------------------------------------------------------------------------
\* The ticker goes on, and as long as it has not fired the phase counts.
LEMMA Elapsed ==
  ASSUME Inv, NEW t \in Nat, NEW pending \in BOOLEAN, Elapse(t, pending)
  PROVE  /\ phase' \in 0..RefreshRate - 1 /\ ticked' \in BOOLEAN
         /\ started /\ ~ticked' => phase' = phase + t
<1>0. RefreshRate \in Nat \ {0} /\ phase \in 0..RefreshRate - 1
  BY DashboardAssumption DEF Inv
<1> DEFINE now == IF started THEN phase + t ELSE 0
<1>1. now \in Nat /\ phase' = now % RefreshRate /\ ticked' = (pending \/ now >= RefreshRate)
  BY <1>0 DEF Elapse
<1> HIDE DEF now
<1>2. now % RefreshRate \in 0..RefreshRate - 1
  BY <1>0, <1>1
<1>3. now < RefreshRate => now % RefreshRate = now
  BY <1>0, <1>1
<1>4. started => now = phase + t
  BY DEF now
<1>5. ~ticked' => now < RefreshRate
  <2>1. ~ticked' => ~(now >= RefreshRate)
    BY <1>1, Zenon
  <2> QED
    BY <1>0, <1>1, <2>1
<1> QED
  BY <1>1, <1>2, <1>3, <1>4, <1>5

\* The storage list after an update is not due.
LEMMA StorageUpdated ==
  ASSUME Inv, NEW pending \in BOOLEAN, UpdateStorage(pending)
  PROVE  /\ storageDevs' \in {"nil", "devices"}
         /\ storageAge' \in 0..MaxAge /\ storageAge' < StorageRate
         /\ phase' \in 0..RefreshRate - 1 /\ ticked' \in BOOLEAN
<1>0. /\ StorageRate \in Nat \ {0} /\ RefreshRate \in Nat \ {0} /\ MaxStall \in Nat
      /\ storageAge \in 0..MaxAge /\ MaxAge \in Nat
  BY DashboardAssumption DEF Inv, MaxAge
<1>1. CASE storageDevs = "nil" \/ storageAge >= StorageRate
  <2>1. Enumerate(pending)
    BY <1>1 DEF UpdateStorage
  <2>2. PICK stall \in 0..MaxStall : Elapse(stall, pending)
    BY <2>1 DEF Enumerate
  <2>3. stall \in Nat
    BY <1>0, <2>2
  <2>4. phase' \in 0..RefreshRate - 1 /\ ticked' \in BOOLEAN
    BY <2>2, <2>3, Elapsed
  <2> QED
    BY <1>0, <2>1, <2>4 DEF Enumerate
<1>2. CASE ~(storageDevs = "nil" \/ storageAge >= StorageRate)
  <2>1. ticked' = pending /\ UNCHANGED <<storageVars, phase>>
    BY <1>2 DEF UpdateStorage
  <2> QED
    BY <1>0, <1>2, <2>1 DEF Inv, storageVars
<1> QED
  BY <1>1, <1>2

\* An update keeps the charts in order and in step.
LEMMA ChartsUpdated ==
  ASSUME Inv, NEW pending, Update(pending)
  PROVE  /\ Good(gpu)' /\ Good(mem)' /\ Good(rx)' /\ Good(tx)'
         /\ \A s \in {mem', rx', tx'} : Len(s.hist) = Len(gpu'.hist)
         /\ Len(gpu'.hist) >= 1
<1>0. /\ Good(gpu) /\ Good(mem) /\ Good(rx) /\ Good(tx)
      /\ \A s \in {mem, rx, tx} : Len(s.hist) = Len(gpu.hist)
      /\ GpuReadings \subseteq Nat /\ MemReadings \subseteq Nat
      /\ RxReadings \subseteq Nat /\ TxReadings \subseteq Nat
  BY DashboardAssumption DEF Inv
<1>1. PICK vg \in Nat \cup {NoReading} : gpu' = Updated(gpu, vg)
  BY <1>0 DEF Update, UpdateGpu
<1>2. PICK vm \in Nat \cup {NoReading} : mem' = Updated(mem, vm)
  BY <1>0 DEF Update, UpdateMem
<1>3. PICK vr \in Nat \cup {NoReading}, vt \in Nat \cup {NoReading} :
        rx' = Updated(rx, vr) /\ tx' = Updated(tx, vt)
  BY <1>0 DEF Update, UpdateNet
<1>4. Good(gpu') /\ Len(gpu'.hist) = Longer(Len(gpu.hist))
  BY <1>0, <1>1, UpdatedGood
<1>5. Good(mem') /\ Len(mem'.hist) = Longer(Len(mem.hist))
  BY <1>0, <1>2, UpdatedGood
<1>6. Good(rx') /\ Len(rx'.hist) = Longer(Len(rx.hist))
  BY <1>0, <1>3, UpdatedGood
<1>7. Good(tx') /\ Len(tx'.hist) = Longer(Len(tx.hist))
  BY <1>0, <1>3, UpdatedGood
<1>8. Len(gpu.hist) \in Nat
  BY <1>0 DEF Good, Series
<1>9. Longer(Len(gpu.hist)) >= 1
  BY <1>8, DashboardAssumption DEF Longer
<1>10. \A s \in {mem', rx', tx'} : Len(s.hist) = Len(gpu'.hist)
  BY <1>0, <1>4, <1>5, <1>6, <1>7
<1>11. Good(gpu)' /\ Good(mem)' /\ Good(rx)' /\ Good(tx)'
  BY <1>4, <1>5, <1>6, <1>7 DEF Good
<1> QED
  BY <1>4, <1>9, <1>10, <1>11

LEMMA EarlierStill ==
  ASSUME NEW a \in Nat, NEW s \in Nat, NEW p \in Nat, a < s
  PROVE  a < s + p
OBVIOUS

\* So whichever step runs update() keeps the invariant.
LEMMA UpdateInv ==
  ASSUME Inv, NEW pending \in BOOLEAN, Update(pending), dialog' \in BOOLEAN, started' \in BOOLEAN
  PROVE  Inv'
<1>1. UpdateStorage(pending)
  BY DEF Update
<1>2. /\ storageDevs' \in {"nil", "devices"}
      /\ storageAge' \in 0..MaxAge /\ storageAge' < StorageRate
      /\ phase' \in 0..RefreshRate - 1 /\ ticked' \in BOOLEAN
  BY <1>1, StorageUpdated
<1>3. StorageFresh'
  <2>0. StorageRate \in Nat /\ RefreshRate \in Nat /\ MaxAge \in Nat
    BY DashboardAssumption DEF MaxAge
  <2>1. storageAge' \in Nat /\ phase' \in Nat
    BY <1>2, <2>0
  <2>2. storageAge' < StorageRate + phase'
    BY <1>2, <2>0, <2>1, EarlierStill
  <2> QED
    BY <2>2 DEF StorageFresh
<1>4. MaxAge' = MaxAge
  BY DEF MaxAge
<1> QED
  BY <1>2, <1>3, <1>4, ChartsUpdated DEF Inv

\* The initial state satisfies the invariant.
LEMMA InitInv == Init => Inv
<1> SUFFICES ASSUME Init PROVE Inv
  OBVIOUS
<1>1. Good(NoSamples) /\ Len(NoSamples.hist) = 0
  BY DashboardAssumption DEF Good, Series, NoSamples
<1>2. MaxAge \in 0..MaxAge /\ 0 \in 0..RefreshRate - 1
  BY DashboardAssumption DEF MaxAge
<1> QED
  BY <1>1, <1>2 DEF Init, Inv, StorageFresh

\* Every step keeps it.
LEMMA NextInv == Inv /\ [Next]_vars => Inv'
<1> SUFFICES ASSUME Inv, [Next]_vars PROVE Inv'
  OBVIOUS
<1>0. ticked \in BOOLEAN /\ dialog \in BOOLEAN /\ started \in BOOLEAN
  BY DEF Inv
<1>1. CASE Start
  <2>1. FALSE \in BOOLEAN /\ Update(FALSE) /\ dialog' \in BOOLEAN /\ started' \in BOOLEAN
    BY <1>0, <1>1 DEF Start
  <2> QED
    BY <2>1, UpdateInv
<1>2. CASE TimePasses
  <2>0. /\ StorageRate \in Nat /\ RefreshRate \in Nat \ {0} /\ storageAge \in 0..MaxAge
        /\ phase \in 0..RefreshRate - 1 /\ MaxAge \in Nat
    BY DashboardAssumption DEF Inv, MaxAge
  <2>1. storageAge' \in 0..MaxAge /\ storageAge' <= storageAge + 1
    BY <1>2, <2>0 DEF TimePasses
  <2>2. /\ phase' \in 0..RefreshRate - 1 /\ ticked' \in BOOLEAN
        /\ started /\ ~ticked' => phase' = phase + 1
    BY <1>0, <1>2, Elapsed DEF TimePasses
  <2>3. ~ticked' => ~ticked
    BY <1>0, <1>2 DEF TimePasses, Elapse
  <2>4. StorageFresh'
    BY <1>2, <2>0, <2>1, <2>2, <2>3 DEF StorageFresh, TimePasses, Inv
  <2> QED
    BY <1>0, <1>2, <2>1, <2>2, <2>4 DEF Inv, TimePasses, Good, charts, MaxAge
<1>3. CASE Tick
  <2>1. CASE dialog
    BY <1>3, <2>1 DEF Inv, Tick, Good, StorageFresh, charts, storageVars, MaxAge
  <2>2. CASE ~dialog
    <3>1. FALSE \in BOOLEAN /\ Update(FALSE) /\ dialog' \in BOOLEAN /\ started' \in BOOLEAN
      BY <1>0, <1>3, <2>2 DEF Tick
    <3> QED
      BY <3>1, UpdateInv
  <2> QED
    BY <2>1, <2>2
<1>4. CASE OpenDialog
  BY <1>4 DEF Inv, OpenDialog, Good, StorageFresh, charts, storageVars, MaxAge
<1>5. CASE CloseDialog
  <2>1. Update(ticked) /\ dialog' \in BOOLEAN /\ started' \in BOOLEAN
    BY <1>0, <1>5 DEF CloseDialog
  <2> QED
    BY <1>0, <2>1, UpdateInv
<1>6. CASE UNCHANGED vars
  BY <1>6 DEF Inv, vars, charts, storageVars, Good, StorageFresh, MaxAge
<1> QED
  BY <1>1, <1>2, <1>3, <1>4, <1>5, <1>6 DEF Next

\* The invariant holds in every reachable state.
THEOREM Invariance == Spec => []Inv
BY InitInv, NextInv, PTL DEF Spec
-----------------------------------------------------------------------------
\* The dashboard's state keeps its type (main.go:141-147).
THEOREM TypeCorrect == Spec => []TypeOK
<1>1. Inv => TypeOK
  BY DEF Inv, TypeOK, Good
<1> QED
  BY <1>1, Invariance, PTL

\* The histories stay in the window and in step (main.go:88-95, 539-594).
THEOREM InStep == Spec => []HistoriesAligned
<1>1. Inv => HistoriesAligned
  BY DEF Inv, HistoriesAligned, Good
<1> QED
  BY <1>1, Invariance, PTL

\* The peak in a chart's title covers its bars (main.go:498-511).
THEOREM PeakIsHighest == Spec => []PeakCoversHistory
<1>1. Inv => PeakCoversHistory
  <2> SUFFICES ASSUME Inv, NEW s \in {gpu, mem, rx, tx}
               PROVE  s.cur <= s.peak /\ \A k \in DOMAIN s.hist : s.hist[k] <= s.peak
    BY DEF PeakCoversHistory
  <2>1. Good(s)
    BY DEF Inv
  <2>2. DOMAIN s.hist = 1..Len(s.hist)
    BY <2>1 DEF Good, Series
  <2> QED
    BY <2>1, <2>2 DEF Good
<1> QED
  BY <1>1, Invariance, PTL

\* A padded series has two points at least and ends as the series did.
LEMMA PadOf ==
  ASSUME NEW s \in Seq(Nat), Len(s) >= 1
  PROVE  /\ Len(Pad(s)) = IF Len(s) < 2 THEN 2 ELSE Len(s)
         /\ Pad(s)[Len(Pad(s))] = s[Len(s)]
<1>1. CASE Len(s) < 2
  <2> DEFINE z == <<0>>
  <2>0. z \in Seq(Nat) /\ Len(z) = 1
    OBVIOUS
  <2>l. Len(s) \in Nat
    BY LenProperties
  <2>1. Len(s) = 1
    BY <1>1, <2>l, OneOrTwo
  <2> HIDE DEF z
  <2>2. /\ Len(z \o s) = Len(z) + Len(s)
        /\ \A i \in 1 .. Len(z) + Len(s) :
             (z \o s)[i] = IF i <= Len(z) THEN z[i] ELSE s[i - Len(z)]
    BY <2>0, ConcatProperties
  <2>3. Len(z \o s) = 2 /\ (z \o s)[2] = s[1]
    BY <2>0, <2>1, <2>2
  <2> QED
    BY <1>1, <2>1, <2>3 DEF Pad, z
<1>2. CASE ~(Len(s) < 2)
  BY <1>2 DEF Pad
<1> QED
  BY <1>1, <1>2

\* Cutting a series to its own length changes neither its length nor its end.
LEMMA CutOf ==
  ASSUME NEW s \in Seq(Nat), Len(s) >= 1
  PROVE  LET c == SubSeq(s, Len(s) - Len(s) + 1, Len(s))
         IN  c \in Seq(Nat) /\ Len(c) = Len(s) /\ c[Len(c)] = s[Len(s)]
<1>1. Len(s) \in Nat /\ Len(s) - Len(s) + 1 = 1 /\ \A k \in 1..Len(s) : s[k] \in Nat
  OBVIOUS
<1>2. /\ SubSeq(s, 1, Len(s)) \in Seq(Nat)
      /\ Len(SubSeq(s, 1, Len(s))) = Len(s)
      /\ \A i \in 1..Len(s) : SubSeq(s, 1, Len(s))[i] = s[i]
  BY <1>1, SubSeqProperties
<1> QED
  BY <1>1, <1>2

\* Whatever the width, both charts get what their widgets can draw
\* (main.go:596-616).
THEOREM PlotsAreSafe == Spec => []PlotSafe
<1>1. Inv => PlotSafe
  <2> SUFFICES ASSUME Inv, started, NEW w \in Widths
               PROVE  LET d == PlotSeries(w)
                          bars == TailBars(gpu.hist, VisibleBarCount(w))
                      IN  /\ bars # <<>> /\ bars[Len(bars)] = gpu.hist[Len(gpu.hist)]
                          /\ Len(bars) = 1 \/ 2 * Len(bars) <= w
                          /\ Len(d[1]) = Len(d[2]) /\ Len(d[1]) >= 2
                          /\ d[1][Len(d[1])] = rx.hist[Len(rx.hist)]
                          /\ d[2][Len(d[2])] = tx.hist[Len(tx.hist)]
    BY DEF PlotSafe
  <2>0. /\ w \in Int
        /\ gpu.hist \in Seq(Nat) /\ rx.hist \in Seq(Nat) /\ tx.hist \in Seq(Nat)
        /\ Len(gpu.hist) \in Nat /\ Len(gpu.hist) >= 1
        /\ Len(rx.hist) = Len(gpu.hist) /\ Len(tx.hist) = Len(gpu.hist)
    BY DashboardAssumption DEF Inv, Good, Series
  <2>1. LET bars == TailBars(gpu.hist, VisibleBarCount(w))
        IN  /\ bars # <<>> /\ bars[Len(bars)] = gpu.hist[Len(gpu.hist)]
            /\ Len(bars) = 1 \/ 2 * Len(bars) <= w
    <3> DEFINE n == VisibleBarCount(w)
               bars == TailBars(gpu.hist, n)
    <3>1. n \in Nat /\ n >= 1 /\ (n = 1 \/ 2 * n <= w)
      BY <2>0 DEF VisibleBarCount
    <3> HIDE DEF n
    <3>2. /\ bars \in Seq(Nat) /\ bars # <<>>
          /\ Len(bars) >= 1 /\ Len(bars) <= n
          /\ bars[Len(bars)] = gpu.hist[Len(gpu.hist)]
      BY <2>0, <3>1, EndOfTail
    <3> HIDE DEF bars
    <3>3. Len(bars) \in Nat
      BY <3>2
    <3>l. w \in Int /\ Len(bars) >= 1 /\ Len(bars) <= n
      BY <2>0, <3>2
    <3>4. Len(bars) = 1 \/ 2 * Len(bars) <= w
      BY <3>1, <3>3, <3>l, FitsToo
    <3> QED
      BY <3>2, <3>4 DEF bars, n
  <2>2. LET d == PlotSeries(w)
        IN  /\ Len(d[1]) = Len(d[2]) /\ Len(d[1]) >= 2
            /\ d[1][Len(d[1])] = rx.hist[Len(rx.hist)]
            /\ d[2][Len(d[2])] = tx.hist[Len(tx.hist)]
    <3> DEFINE n == PlotWidth(w)
               r == TailBars(rx.hist, n)
               t == TailBars(tx.hist, n)
               Cut(s) == SubSeq(s, Len(s) - Len(s) + 1, Len(s))
    <3>1. n \in Nat /\ n >= 2
      BY <2>0 DEF PlotWidth
    <3> HIDE DEF n
    <3>0. /\ rx.hist \in Seq(Nat) /\ Len(rx.hist) >= 1
          /\ tx.hist \in Seq(Nat) /\ Len(tx.hist) >= 1
      BY <2>0
    <3>2. /\ r \in Seq(Nat) /\ Len(r) = (IF Len(rx.hist) > n THEN n ELSE Len(rx.hist))
          /\ Len(r) >= 1 /\ r[Len(r)] = rx.hist[Len(rx.hist)]
      BY <3>0, <3>1, EndOfTail
    <3>3. /\ t \in Seq(Nat) /\ Len(t) = (IF Len(tx.hist) > n THEN n ELSE Len(tx.hist))
          /\ Len(t) >= 1 /\ t[Len(t)] = tx.hist[Len(tx.hist)]
      BY <3>0, <3>1, EndOfTail
    <3> HIDE DEF r, t
    <3>4. Len(r) = Len(t) /\ Len(r) \in Nat
      BY <2>0, <3>2, <3>3
    <3>6. Cut(r) \in Seq(Nat) /\ Len(Cut(r)) = Len(r) /\ Cut(r)[Len(Cut(r))] = r[Len(r)]
      BY <3>2, CutOf
    <3>7. Cut(t) \in Seq(Nat) /\ Len(Cut(t)) = Len(t) /\ Cut(t)[Len(Cut(t))] = t[Len(t)]
      BY <3>3, CutOf
    <3>8. PlotSeries(w) = <<Pad(Cut(r)), Pad(Cut(t))>>
      BY <3>4 DEF PlotSeries, r, t, n
    <3> HIDE DEF Cut
    <3>9. /\ Len(Pad(Cut(r))) = (IF Len(r) < 2 THEN 2 ELSE Len(r))
          /\ Pad(Cut(r))[Len(Pad(Cut(r)))] = r[Len(r)]
      BY <3>2, <3>6, PadOf
    <3>10. /\ Len(Pad(Cut(t))) = (IF Len(t) < 2 THEN 2 ELSE Len(t))
           /\ Pad(Cut(t))[Len(Pad(Cut(t)))] = t[Len(t)]
      BY <3>3, <3>7, PadOf
    <3>11. PlotSeries(w)[1] = Pad(Cut(r)) /\ PlotSeries(w)[2] = Pad(Cut(t))
      BY <3>8
    <3> DEFINE x == Pad(Cut(r))
               y == Pad(Cut(t))
    <3> HIDE DEF x, y
    <3>12. Len(x) = Len(y) /\ Len(x) >= 2
      BY <3>4, <3>9, <3>10 DEF x, y
    <3>13. x[Len(x)] = rx.hist[Len(rx.hist)] /\ y[Len(y)] = tx.hist[Len(tx.hist)]
      BY <3>2, <3>3, <3>9, <3>10 DEF x, y
    <3>14. PlotSeries(w)[1] = x /\ PlotSeries(w)[2] = y
      BY <3>11 DEF x, y
    <3> QED
      BY <3>12, <3>13, <3>14
  <2> QED
    BY <2>1, <2>2
<1> QED
  BY <1>1, Invariance, PTL

\* A storage list on show whose ticks are handled was not due when the ticker
\* last fired, however long the enumerations took, the dialog stayed or the loop
\* was late (main.go:645-648).
THEOREM StorageIsFresh == Spec => []StorageFresh
<1>1. Inv => StorageFresh
  BY DEF Inv
<1> QED
  BY <1>1, Invariance, PTL
=============================================================================
