---------------------------- MODULE WifiSession ----------------------------
(***************************************************************************)
(* What the Wi-Fi dialog promises its user, without its screens, widgets,  *)
(* goroutines and channel.  A session is closed, in a menu, running a job  *)
(* or reporting on one.  A job is one nmcli operation; it is performed     *)
(* once, on the target it was started with, and its report says what       *)
(* happened to that very job before another job can be started.            *)
(***************************************************************************)
CONSTANTS
  Ifaces,    \* wireless interfaces
  Networks,  \* networks a scan can list
  NoIface,   \* a job or a report that names no interface
  NoNet,     \* a job or a report that names no network
  NoJob,     \* no job is running
  NoReport   \* no report is on the screen

VARIABLES
  phase,     \* "closed", "menu", "running" or "report"
  job,       \* the job being run
  outcome,   \* what happened to it: "none" until it has been performed
  report     \* what the user is told

vars == <<phase, job, outcome, report>>

Job ==
  [op : {"scan"}, iface : Ifaces, net : {NoNet}]
    \cup [op : {"connect"}, iface : Ifaces, net : Networks]
    \cup [op : {"disconnect", "reconnect"}, iface : Ifaces, net : {NoNet}]
    \cup [op : {"radio_on", "radio_off"}, iface : {NoIface}, net : {NoNet}]

Outcomes(j) == IF j.op = "scan" THEN {"ok", "err", "empty"} ELSE {"ok", "err"}

\* A failure names no target: it shows nmcli's own words.  A scan that found
\* nothing is reported as a failure that names the interface.
ReportOf(j, out) ==
  [op    |-> j.op,
   ok    |-> out = "ok",
   iface |-> IF out = "err" THEN NoIface ELSE j.iface,
   net   |-> IF out = "err" THEN NoNet ELSE j.net]

Init == phase = "closed" /\ job = NoJob /\ outcome = "none" /\ report = NoReport

Open ==
  /\ phase = "closed"
  /\ phase' = "menu"
  /\ UNCHANGED <<job, outcome, report>>

Start(j) ==
  /\ phase = "menu"
  /\ phase' = "running"
  /\ job' = j
  /\ UNCHANGED <<outcome, report>>

\* NetworkManager performs the job, once.
Perform ==
  /\ phase = "running" /\ outcome = "none"
  /\ outcome' \in Outcomes(job)
  /\ UNCHANGED <<phase, job, report>>

\* The result reaches the user.  A scan that listed networks goes back to a
\* menu (the list); everything else is reported.
Report ==
  /\ phase = "running" /\ outcome # "none"
  /\ IF job.op = "scan" /\ outcome = "ok"
     THEN phase' = "menu" /\ report' = NoReport
     ELSE phase' = "report" /\ report' = ReportOf(job, outcome)
  /\ job' = NoJob /\ outcome' = "none"

Dismiss ==
  /\ phase = "report"
  /\ phase' = "menu" /\ report' = NoReport
  /\ UNCHANGED <<job, outcome>>

Close ==
  /\ phase \in {"menu", "report"}
  /\ phase' = "closed" /\ report' = NoReport
  /\ UNCHANGED <<job, outcome>>

Next ==
  \/ Open \/ Perform \/ Report \/ Dismiss \/ Close
  \/ \E j \in Job : Start(j)

Spec == Init /\ [][Next]_vars
=============================================================================
