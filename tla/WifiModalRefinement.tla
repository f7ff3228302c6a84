------------------------ MODULE WifiModalRefinement ------------------------
(***************************************************************************)
(* The dialog implements WifiSession: its screens are the phases, the one  *)
(* outstanding operation is the job, the result waiting in OpCh is the     *)
(* outcome, and the text of the result panel is the report.                *)
(***************************************************************************)
EXTENDS WifiModal

CONSTANTS NoJob, NoReport

Phase == CASE mode = "wifiOff"    -> "closed"
           [] mode = "wifiBusy"   -> "running"
           [] mode = "wifiResult" -> "report"
           [] OTHER               -> "menu"

\* What is running, by the goroutine or the result it left; on what, by the
\* user's selection.
RunningOp ==
  IF opCh # <<>> THEN opCh[1].op
  ELSE LET g == CHOOSE g \in Goroutines : workers[g] # NoOp IN workers[g].op

JobNow ==
  IF mode # "wifiBusy" THEN NoJob
  ELSE [op    |-> RunningOp,
        iface |-> IF RunningOp \in {"radio_on", "radio_off"} THEN NoIface ELSE iface,
        net   |-> IF RunningOp = "connect" THEN pendingNet ELSE NoNet]

OutcomeNow ==
  IF opCh = <<>> THEN "none"
  ELSE IF opCh[1].err THEN "err"
  ELSE IF opCh[1].op = "scan" /\ opCh[1].networks = <<>> THEN "empty"
  ELSE "ok"

ReportNow ==
  IF mode # "wifiResult" THEN NoReport
  ELSE [op |-> msg.op, ok |-> ~msgErr, iface |-> msg.iface, net |-> msg.net]

Session == INSTANCE WifiSession
  WITH phase <- Phase, job <- JobNow, outcome <- OutcomeNow, report <- ReportNow

\* Each confirmed action is performed once, on the interface and network shown
\* when it was confirmed; the panel tells the truth about it; nothing else
\* starts before (wifi_ui.go:31-33, README "After every action the modal shows
\* a green success or red failure panel").
ImplementsSession == Session!Spec
=============================================================================
