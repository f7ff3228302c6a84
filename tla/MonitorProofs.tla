--------------------------- MODULE MonitorProofs ---------------------------
(***************************************************************************)
(* The select loop implements the dialog and the dashboard, for any        *)
(* values of the constants, and so what is proved of each of them alone is *)
(* proved of the program.                                                  *)
(***************************************************************************)
EXTENDS Monitor, TLAPS
-----------------------------------------------------------------------------
\* Each step is one of the dialog's, or leaves the dialog alone.
LEMMA DialogStep == [Next]_vars => [M!Next]_(M!vars)
<1> SUFFICES ASSUME [Next]_vars PROVE M!Next \/ UNCHANGED M!vars
  OBVIOUS
<1>0. UNCHANGED dialogVars => UNCHANGED M!vars
  BY DEF dialogVars, M!vars, M!modalVars, M!listVars, M!asyncVars, M!paintVars, M!loopVars
<1>1. CASE Start
  BY <1>0, <1>1 DEF Start, dialogVars
<1>2. CASE OtherCase
  BY <1>2 DEF OtherCase, M!Next, M!User
<1>3. CASE Tick
  BY <1>3 DEF Tick, M!Next
<1>4. CASE TimePasses \/ Refresher
  BY <1>0, <1>4 DEF TimePasses, Refresher, dialogVars
<1>5. CASE \E e \in M!Keys : ModalKey(e)
  BY <1>5 DEF ModalKey, M!Next, M!User
<1>6. CASE \E g \in Goroutines : Goroutine(g)
  BY <1>6 DEF Goroutine, M!Next
<1>7. CASE Exited \/ UNCHANGED vars
  BY <1>0, <1>7 DEF Exited, vars, dialogVars
<1> QED
  BY <1>1, <1>2, <1>3, <1>4, <1>5, <1>6, <1>7 DEF Next

\* The dialog opens or stays as it is in the steps that leave the panels alone.
LEMMA DialogStays ==
  ASSUME OtherCase
  PROVE  mode' # mode => mode' # "wifiOff"
<1>1. CASE \E e \in M!Keys : M!Quit(e) \/ M!OpenCall(e)
  BY <1>1 DEF M!Quit, M!OpenCall, M!modalVars
<1>2. CASE M!OpenReturn
  BY <1>2 DEF M!OpenReturn, M!EnterAction, M!EnterPickIface, M!SetList, M!modalVars
<1>3. CASE M!Resize
  BY <1>3 DEF M!Resize, M!modalVars
<1>4. CASE M!ReceiveResult
  BY <1>4 DEF M!ReceiveResult, M!HandleResult, M!EnterResult, M!EnterList, M!SetList
<1> QED
  BY <1>1, <1>2, <1>3, <1>4 DEF OtherCase

\* Each step is one of the dashboard's, or leaves it alone: only a key closes
\* the dialog, and then update() runs.
LEMMA DashboardStep == [Next]_vars => [D!Next]_(D!vars)
<1> SUFFICES ASSUME [Next]_vars PROVE D!Next \/ UNCHANGED D!vars
  OBVIOUS
<1> USE DEF panelVars, clock, D!vars, D!charts, D!storageVars
<1>1. CASE Start
  BY <1>1 DEF Start, Update, dialogVars, D!Next, D!Start
<1>2. CASE OtherCase
  BY <1>2, DialogStays DEF OtherCase, D!Next, D!OpenDialog
<1>3. CASE Tick
  BY <1>3 DEF Tick, AfterTick, Update, M!Tick, M!Active, M!modalVars, D!Next, D!Tick
<1>4. CASE TimePasses
  BY <1>4 DEF TimePasses, D!Next
<1>5. CASE Refresher
  BY <1>5 DEF Refresher, dialogVars
<1>6. ASSUME NEW e \in M!Keys, ModalKey(e) PROVE D!Next \/ UNCHANGED D!vars
  BY <1>6 DEF ModalKey, AfterKey, Update, M!ModalKey, M!Active, D!Next, D!CloseDialog
<1>7. ASSUME NEW g \in Goroutines, Goroutine(g) PROVE UNCHANGED D!vars
  BY <1>7 DEF Goroutine, M!WorkerStart, M!WorkerFinish, M!modalVars
<1>8. CASE Exited \/ UNCHANGED vars
  BY <1>8 DEF Exited, vars, dialogVars
<1> QED
  BY <1>1, <1>2, <1>3, <1>4, <1>5, <1>6, <1>7, <1>8 DEF Next

\* In the select loop the dialog and the dashboard behave as their own
\* specifications say (main.go:697-745).
THEOREM LoopImplements == Spec => ViewsImplemented
<1>1. Init => M!Init /\ D!Init
  BY DEF Init
<1> QED
  BY <1>1, DialogStep, DashboardStep, PTL DEF Spec, ViewsImplemented, M!Spec, D!Spec
-----------------------------------------------------------------------------
(* What is proved of the dialog and of the dashboard alone.  MP and DP are   *)
(* their proofs, read with the loop's variables; MP!X and M!X are one        *)
(* formula, and so are DP!X and D!X, as their definitions show.              *)

CONSTANTS NoJob, NoReport
MP == INSTANCE WifiModalProofs
DP == INSTANCE DashboardProofs WITH dialog <- (mode # "wifiOff")

\* The invariants of the dialog, and of the panels.
DialogSafe ==
  /\ M!TypeOK /\ M!OneOperation /\ M!CommandTargetsSelection
  /\ M!SelectionInRange /\ M!ListedOnSelected
  /\ M!PasswordForgotten /\ M!PaintedRight

PanelsSafe ==
  /\ D!TypeOK /\ D!HistoriesAligned /\ D!PlotSafe
  /\ D!PeakCoversHistory /\ D!StorageFresh

\* Two names for the dialog's behaviours ...
LEMMA DialogSpec == M!Spec => MP!Spec
<1>1. M!Init => MP!Init
  BY DEF M!NoMsg, MP!NoMsg, M!Init, MP!Init
<1>2. [M!Next]_(M!vars) => [MP!Next]_(MP!vars)
  BY DEF M!Special, MP!Special, M!Keys, MP!Keys, M!HasBracketPrefix, MP!HasBracketPrefix,
         M!modalVars, MP!modalVars, M!listVars, MP!listVars, M!asyncVars, MP!asyncVars,
         M!paintVars, MP!paintVars, M!loopVars, MP!loopVars, M!vars, MP!vars, M!Injective,
         MP!Injective, M!ListsOf, MP!ListsOf, M!WifiInterfaces, MP!WifiInterfaces, M!WifiScan,
         MP!WifiScan, M!Active, MP!Active, M!SetList, MP!SetList, M!EnterPickIface,
         MP!EnterPickIface, M!EnterAction, MP!EnterAction, M!EnterList, MP!EnterList,
         M!EnterPassword, MP!EnterPassword, M!EnterResult, MP!EnterResult, M!Repaint,
         MP!Repaint, M!Scroll, MP!Scroll, M!Go, MP!Go, M!EnterBusy, MP!EnterBusy, M!BeginScan,
         MP!BeginScan, M!BeginConnect, MP!BeginConnect, M!BeginOp, MP!BeginOp, M!RunAction,
         MP!RunAction, M!WorkerStart, MP!WorkerStart, M!OpResult, MP!OpResult, M!Send, MP!Send,
         M!WorkerFinish, MP!WorkerFinish, M!Close, MP!Close, M!PickIfaceKey, MP!PickIfaceKey,
         M!ActionKey, MP!ActionKey, M!ListKey, MP!ListKey, M!PasswordKey, MP!PasswordKey,
         M!ResultKey, MP!ResultKey, M!HandleEvent, MP!HandleEvent, M!Ignored, MP!Ignored,
         M!DropPassword, MP!DropPassword, M!HandleResult, MP!HandleResult, M!Ready, MP!Ready,
         M!ModalKey, MP!ModalKey, M!Quit, MP!Quit, M!OpenCall, MP!OpenCall, M!OpenReturn,
         MP!OpenReturn, M!Resize, MP!Resize, M!Tick, MP!Tick, M!ReceiveResult, MP!ReceiveResult,
         M!Exited, MP!Exited, M!User, MP!User, M!Next, MP!Next
<1> QED
  BY <1>1, <1>2, PTL DEF M!Spec, MP!Spec

\* ... and for what its constants are assumed to be.
LEMMA DialogConstants == MP!ConstantsAssumption
  BY MonitorAssumption DEF M!ConstantsAssumption, MP!ConstantsAssumption, M!Ops, MP!Ops,
     M!Operation, MP!Operation, M!Runes, MP!Runes, M!Special, MP!Special

\* The same of the dashboard.
LEMMA PanelsSpec == D!Spec => DP!Spec
<1>1. D!Init => DP!Init
  BY DEF D!MaxAge, DP!MaxAge, D!NoSamples, DP!NoSamples, D!Init, DP!Init
<1>2. [D!Next]_(D!vars) => [DP!Next]_(DP!vars)
  BY DEF D!charts, DP!charts, D!storageVars, DP!storageVars, D!vars, DP!vars, D!MaxAge, DP!MaxAge,
         D!TailBars, DP!TailBars, D!Elapse, DP!Elapse,
         D!AppendHistory, DP!AppendHistory, D!Updated, DP!Updated, D!UpdateMem, DP!UpdateMem,
         D!UpdateGpu, DP!UpdateGpu, D!UpdateNet, DP!UpdateNet, D!Enumerate, DP!Enumerate,
         D!UpdateStorage, DP!UpdateStorage, D!Update, DP!Update, D!Start, DP!Start, D!TimePasses,
         DP!TimePasses, D!Tick, DP!Tick, D!OpenDialog, DP!OpenDialog, D!CloseDialog, DP!CloseDialog,
         D!Next, DP!Next
<1> QED
  BY <1>1, <1>2, PTL DEF D!Spec, DP!Spec

\* In the program, with its one loop, blocked calls and dropped ticks, the
\* dialog keeps every invariant that it keeps alone (main.go:688-745).
THEOREM ProgramKeepsDialogSafe == Spec => []DialogSafe /\ M!OnlyUserOpens
<1>1. MP!Spec => /\ []MP!TypeOK /\ []MP!OneOperation /\ []MP!CommandTargetsSelection
                 /\ []MP!SelectionInRange /\ []MP!ListedOnSelected
                 /\ []MP!PasswordForgotten /\ []MP!PaintedRight /\ MP!OnlyUserOpens
  BY DialogConstants, MP!TypeCorrect, MP!SingleFlight, MP!Targets, MP!RowInRange,
     MP!ListsAreCurrent, MP!NoPasswordLeft, MP!ScreenIsCurrent, MP!OpensOnRequest, PTL
<1>2. MP!TypeOK /\ MP!OneOperation /\ MP!CommandTargetsSelection /\ MP!SelectionInRange
      /\ MP!ListedOnSelected /\ MP!PasswordForgotten /\ MP!PaintedRight => DialogSafe
  BY DEF DialogSafe, M!Ops, MP!Ops, M!Runes, MP!Runes, M!Operation, MP!Operation, M!Modes, MP!Modes,
         M!Active, MP!Active, M!TypeOK, MP!TypeOK, M!OneOperation, MP!OneOperation,
         M!CommandTargetsSelection, MP!CommandTargetsSelection, M!SelectionInRange,
         MP!SelectionInRange, M!ListedOnSelected, MP!ListedOnSelected, M!PasswordForgotten,
         MP!PasswordForgotten, M!ScreenMatchesMode, MP!ScreenMatchesMode, M!PromptNotRed,
         MP!PromptNotRed, M!PaintedRight, MP!PaintedRight
<1>3. [mode = "wifiOff" /\ mode' # "wifiOff" => uiCall]_(MP!vars)
        => [mode = "wifiOff" /\ mode' # "wifiOff" => uiCall]_(M!vars)
  BY DEF M!modalVars, MP!modalVars, M!listVars, MP!listVars, M!asyncVars, MP!asyncVars,
         M!paintVars, MP!paintVars, M!loopVars, MP!loopVars, M!vars, MP!vars
<1> QED
  BY <1>1, <1>2, <1>3, DialogSpec, LoopImplements, PTL
  DEF ViewsImplemented, M!OnlyUserOpens, MP!OnlyUserOpens

\* It also implements the abstract session: between the user and nmcli, the
\* program with its panels is no different from the dialog alone.
THEOREM ProgramImplementsSession == Spec => MP!ImplementsSession
  BY DialogConstants, DialogSpec, LoopImplements, MP!SessionImplemented, PTL DEF ViewsImplemented

\* ... and the panels keep theirs (main.go:360-685).
THEOREM ProgramKeepsPanelsSafe == Spec => []PanelsSafe
<1>0. DP!DashboardAssumption
  BY MonitorAssumption DEF D!DashboardAssumption, DP!DashboardAssumption
<1>1. DP!Spec => /\ []DP!TypeOK /\ []DP!HistoriesAligned /\ []DP!PlotSafe
                 /\ []DP!PeakCoversHistory /\ []DP!StorageFresh
  BY <1>0, DP!TypeCorrect, DP!InStep, DP!PlotsAreSafe, DP!PeakIsHighest, DP!StorageIsFresh, PTL
<1>2. DP!TypeOK /\ DP!HistoriesAligned /\ DP!PlotSafe /\ DP!PeakCoversHistory
      /\ DP!StorageFresh => PanelsSafe
  BY DEF PanelsSafe, D!MaxAge, DP!MaxAge, D!TailBars, DP!TailBars, D!VisibleBarCount, DP!VisibleBarCount, D!Pad, DP!Pad,
         D!PlotWidth, DP!PlotWidth, D!PlotSeries, DP!PlotSeries, D!Series, DP!Series, D!TypeOK,
         DP!TypeOK, D!HistoriesAligned, DP!HistoriesAligned, D!PlotSafe, DP!PlotSafe,
         D!PeakCoversHistory, DP!PeakCoversHistory, D!StorageFresh, DP!StorageFresh
<1> QED
  BY <1>1, <1>2, PanelsSpec, LoopImplements, PTL DEF ViewsImplemented
=============================================================================
