----------------------------- MODULE WifiModal -----------------------------
(***************************************************************************)
(* The Wi-Fi dialog (wifi_ui.go), the goroutines that run nmcli for it,    *)
(* the channel OpCh their results come back on, and the part of the main   *)
(* select loop (main.go) that feeds it events and repaints the screen.     *)
(*                                                                         *)
(* A definition marked "Slip" is a plausible mistake in the code of the    *)
(* definition that follows it; it takes no part in Next.                   *)
(*                                                                         *)
(* The actors are the UI thread (main's loop, which runs every handler)    *)
(* and one goroutine per nmcli operation.  The user, the terminal and      *)
(* nmcli are the environment.  Rendering is reduced to which screen was    *)
(* painted last and in which colour; messages to the operation, interface  *)
(* and network they name.                                                  *)
(***************************************************************************)
EXTENDS Naturals, Sequences, FiniteSets

CONSTANTS
  Ifaces,      \* wireless interfaces
  Networks,    \* networks (one per SSID)
  OpenNets,    \* those for which WifiNetwork.IsOpen() holds
  Visible,     \* Visible[i]: the networks interface i can see
  Printable,   \* key events whose ID is the typed character
  Goroutines,  \* identities of the operation goroutines
  NoIface, NoNet, NoOp,
  MaxIfaces,   \* bound: interfaces nmcli lists
  MaxNets,     \* bound: networks a scan lists
  MaxPwd,      \* bound: runes of a password
  OpChCap      \* capacity of OpCh (4 in the code)

Ops == {"scan", "connect", "disconnect", "reconnect", "radio_on", "radio_off"}

\* Event IDs.  Special keys are bracketed; "<C-c>" stands for every one of
\* them that no screen names.  A typed '<' looks bracketed too.
Special == {"<Escape>", "<Up>", "<Down>", "<Enter>", "<Backspace>", "<Space>", "<C-c>"}
Keys == Special \cup Printable
\* Slip: the name of a key is taken for text.
AllText(e) == FALSE
HasBracketPrefix(e) == e \in Special \cup {"<"}
Runes == Printable \cup {" "}

\* What a goroutine holds: copied arguments, or nothing yet (NoIface), until
\* it runs ("exec").
Operation ==
  [stage : {"spawned", "exec"}, op : Ops, iface : Ifaces \cup {NoIface},
   net : Networks \cup {NoNet}, pwd : Seq(Runes)]

ASSUME ConstantsAssumption ==
  /\ OpenNets \subseteq Networks
  /\ Visible \in [Ifaces -> SUBSET Networks]
  /\ NoIface \notin Ifaces /\ NoNet \notin Networks
  /\ MaxIfaces \in Nat /\ MaxNets \in Nat /\ MaxPwd \in Nat
  /\ OpChCap \in Nat \ {0}
  /\ NoOp \notin Ops \cup Operation
  /\ Special \cap Printable = {}

VARIABLES
  mode,        \* w.mode: the screen of the dialog
  interfaces,  \* w.interfaces
  iface,       \* w.iface: the interface the user picked
  networks,    \* w.networks: the last scan result
  password,    \* w.password
  pendingNet,  \* w.pendingNet
  msg, msgErr, \* w.msg, w.msgErr
  rows, sel,   \* len(w.list.Rows) and w.list.SelectedRow
  promptErr,   \* is w.prompt styled red?
  workers,     \* goroutine -> NoOp or the operation it runs
  opCh,        \* w.OpCh
  wifiAvailable, running, shown,  \* main: hint flag, loop alive, screen painted
  uiCall       \* the UI thread is inside an nmcli call

modalVars == <<mode, interfaces, iface, networks, password, pendingNet, msg, msgErr>>
listVars  == <<rows, sel>>
asyncVars == <<workers, opCh>>
paintVars == <<promptErr, shown>>
loopVars  == <<wifiAvailable, running, uiCall>>
vars == <<modalVars, listVars, asyncVars, paintVars, loopVars>>

Modes == {"wifiOff", "wifiPickIface", "wifiAction", "wifiList",
          "wifiPassword", "wifiBusy", "wifiResult"}
Injective(s) == \A i, j \in DOMAIN s : s[i] = s[j] => i = j
ListsOf(S, max) == {s \in UNION {[1..n -> S] : n \in 0..max} : Injective(s)}

\* What nmcli's answers come to: the wifi devices, and the deduplicated scan.
WifiInterfaces == ListsOf(Ifaces, MaxIfaces)
WifiScan(i) == ListsOf(Visible[i], MaxNets)

Active == mode # "wifiOff"
-----------------------------------------------------------------------------
(* Screens *)

\* Slip: the selection of the previous screen survives.
SetListKeepsSel(m, n) == mode' = m /\ rows' = n /\ sel' = sel
SetList(m, n) == mode' = m /\ rows' = n /\ sel' = 0

EnterPickIface(ifaces) == SetList("wifiPickIface", Len(ifaces))
EnterAction == SetList("wifiAction", 5)
\* An empty list still shows the row that says so.
EnterList(nets) == SetList("wifiList", IF nets = <<>> THEN 1 ELSE Len(nets))

EnterPassword(n) ==
  /\ mode' = "wifiPassword"
  /\ pendingNet' = n
  /\ password' = <<>>

\* Slip: the colour of the last result survives.
EnterResultKeepsErr(op, i, n, isErr) ==
  mode' = "wifiResult" /\ msg' = [op |-> op, iface |-> i, net |-> n] /\ UNCHANGED msgErr

EnterResult(op, i, n, isErr) ==
  /\ mode' = "wifiResult"
  /\ msg' = [op |-> op, iface |-> i, net |-> n]
  /\ msgErr' = isErr

\* Every handler that changed the dialog ends with ui.Clear and a repaint: of
\* the dialog, or of the dashboard once it is closed.  Only the busy and the
\* result screens set the style of the prompt they share with the password.
Repaint ==
  /\ shown' = IF mode' = "wifiOff" THEN "dashboard" ELSE mode'
  /\ promptErr' = CASE mode' = "wifiBusy" -> FALSE
                    [] mode' = "wifiResult" -> msgErr'
                    [] OTHER -> promptErr

Scroll(e) ==
  sel' = IF e = "<Up>" THEN (IF sel = 0 THEN 0 ELSE sel - 1)
                       ELSE (IF sel + 1 >= rows THEN rows - 1 ELSE sel + 1)
-----------------------------------------------------------------------------
(* Starting an operation: the busy screen and a goroutine.  A scan and a    *)
(* connect copy what they need first; the closures given to beginOp read    *)
(* w.iface when the goroutine gets to run.                                  *)

Go(op, i, n, pwd) ==
  \E g \in Goroutines :
    /\ workers[g] = NoOp
    /\ workers' = [workers EXCEPT ![g] =
         [stage |-> "spawned", op |-> op, iface |-> i, net |-> n, pwd |-> pwd]]

\* Slip: the screen does not turn busy.
EnterBusyNot(op, i, n) == UNCHANGED mode /\ msg' = [op |-> op, iface |-> i, net |-> n]

EnterBusy(op, i, n) ==
  /\ mode' = "wifiBusy"
  /\ msg' = [op |-> op, iface |-> i, net |-> n]

BeginScan == EnterBusy("scan", iface, NoNet) /\ Go("scan", iface, NoNet, <<>>)

\* Slip: w.pendingNet is left as it was.
BeginConnectForgets(n, pwd) ==
  UNCHANGED pendingNet /\ EnterBusy("connect", iface, n) /\ Go("connect", iface, n, pwd)

BeginConnect(n, pwd) ==
  /\ pendingNet' = n
  /\ EnterBusy("connect", iface, n)
  /\ Go("connect", iface, n, pwd)

BeginOp(op) ==
  /\ EnterBusy(op, IF op \in {"radio_on", "radio_off"} THEN NoIface ELSE iface, NoNet)
  /\ Go(op, NoIface, NoNet, <<>>)

RunAction(idx) ==
  IF idx = 0 THEN BeginScan
  ELSE idx < 5 /\ BeginOp(<<"disconnect", "reconnect", "radio_on", "radio_off">>[idx])

\* The goroutine runs and gives nmcli its arguments ...
WorkerStart(g) ==
  /\ workers[g] # NoOp /\ workers[g].stage = "spawned"
  /\ workers' = [workers EXCEPT ![g].stage = "exec",
       ![g].iface = IF workers[g].op \in {"disconnect", "reconnect"} THEN iface ELSE @]
  /\ UNCHANGED <<modalVars, listVars, opCh, paintVars, loopVars>>

\* ... and, when nmcli returns, sends the result: w.OpCh <- wifiOpResult{...},
\* which blocks while the channel is full.
OpResult(w, failed, nets) == [op |-> w.op, err |-> failed, networks |-> nets]

\* Slip: a failed operation returns without sending.
SendSuccess(r) == opCh' = IF r.err THEN opCh ELSE Append(opCh, r)
Send(r) == opCh' = Append(opCh, r)

WorkerFinish(g) ==
  /\ workers[g] # NoOp /\ workers[g].stage = "exec"
  /\ Len(opCh) < OpChCap
  /\ \/ Send(OpResult(workers[g], TRUE, <<>>))
     \/ \E nets \in IF workers[g].op = "scan" THEN WifiScan(workers[g].iface) ELSE {<<>>} :
          Send(OpResult(workers[g], FALSE, nets))
  /\ workers' = [workers EXCEPT ![g] = NoOp]
  /\ UNCHANGED <<modalVars, listVars, paintVars, loopVars>>
-----------------------------------------------------------------------------
(* HandleEvent, one operator per screen *)

Close == mode' = "wifiOff"

PickIfaceKey(e) ==
  /\ \/ e \in {"<Escape>", "q"} /\ Close /\ UNCHANGED <<iface, listVars>>
     \/ e \in {"<Up>", "<Down>"} /\ Scroll(e) /\ UNCHANGED <<mode, iface, rows>>
     \/ /\ e = "<Enter>" /\ sel < Len(interfaces)
        /\ iface' = interfaces[sel + 1]
        /\ EnterAction
  /\ UNCHANGED <<interfaces, networks, password, pendingNet, msg, msgErr, workers>>

ActionKey(e) ==
  /\ \/ /\ e = "<Escape>" /\ Len(interfaces) > 1
        /\ EnterPickIface(interfaces) /\ UNCHANGED <<msg, workers>>
     \/ /\ e = "q" \/ (e = "<Escape>" /\ Len(interfaces) <= 1)
        /\ Close /\ UNCHANGED <<listVars, msg, workers>>
     \/ e \in {"<Up>", "<Down>"} /\ Scroll(e) /\ UNCHANGED <<mode, rows, msg, workers>>
     \/ e = "<Enter>" /\ RunAction(sel) /\ UNCHANGED listVars
  /\ UNCHANGED <<interfaces, iface, networks, password, pendingNet, msgErr>>

ListKey(e) ==
  /\ \/ e = "<Escape>" /\ EnterAction /\ UNCHANGED <<password, pendingNet, msg, workers>>
     \/ /\ e \in {"<Up>", "<Down>"} /\ Scroll(e)
        /\ UNCHANGED <<mode, rows, password, pendingNet, msg, workers>>
     \/ e = "r" /\ BeginScan /\ UNCHANGED <<listVars, password, pendingNet>>
     \/ /\ e = "<Enter>" /\ networks # <<>>
        /\ LET n == networks[sel + 1]
           IN  IF n \in OpenNets
               THEN BeginConnect(n, <<>>) /\ UNCHANGED password
               ELSE EnterPassword(n) /\ UNCHANGED <<msg, workers>>
        /\ UNCHANGED listVars
  /\ UNCHANGED <<interfaces, iface, networks, msgErr>>

PasswordKey(e) ==
  /\ \/ e = "<Escape>" /\ password' = <<>> /\ EnterList(networks)
        /\ UNCHANGED <<pendingNet, msg, workers>>
     \/ e = "<Enter>" /\ BeginConnect(pendingNet, password) /\ UNCHANGED <<password, listVars>>
     \/ /\ \/ e = "<Backspace>" /\ password # <<>>
              /\ password' = SubSeq(password, 1, Len(password) - 1)
           \/ /\ e = "<Space>" \/ ~HasBracketPrefix(e)
              /\ Len(password) < MaxPwd
              /\ password' = Append(password, IF e = "<Space>" THEN " " ELSE e)
        /\ UNCHANGED <<mode, pendingNet, msg, workers, listVars>>
  /\ UNCHANGED <<interfaces, iface, networks, msgErr>>

\* Slip: a result leads back to the list, whichever interface it was for.
ResultKeyToList(e) ==
  /\ IF e \in {"<Escape>", "q"} THEN Close /\ UNCHANGED listVars ELSE EnterList(networks)
  /\ UNCHANGED <<interfaces, iface, networks, password, pendingNet, msg, msgErr, workers>>

ResultKey(e) ==
  /\ IF e \in {"<Escape>", "q"} THEN Close /\ UNCHANGED listVars ELSE EnterAction
  /\ UNCHANGED <<interfaces, iface, networks, password, pendingNet, msg, msgErr, workers>>

\* The busy screen has no case: it ignores every key.
HandleEvent(e) ==
  \/ mode = "wifiPickIface" /\ PickIfaceKey(e)
  \/ mode = "wifiAction"    /\ ActionKey(e)
  \/ mode = "wifiList"      /\ ListKey(e)
  \/ mode = "wifiPassword"  /\ PasswordKey(e)
  \/ mode = "wifiResult"    /\ ResultKey(e)

\* Keys that the screen on show does not react to.
Ignored(e) ==
  \/ mode = "wifiBusy"
  \/ mode = "wifiPickIface" /\ e \notin {"<Escape>", "q", "<Up>", "<Down>", "<Enter>"}
  \/ mode = "wifiAction"    /\ e \notin {"<Escape>", "q", "<Up>", "<Down>", "<Enter>"}
  \/ mode = "wifiList"      /\ \/ e \notin {"<Escape>", "r", "<Up>", "<Down>", "<Enter>"}
                               \/ e = "<Enter>" /\ networks = <<>>
  \/ mode = "wifiPassword"  /\ \/ e = "<Backspace>" /\ password = <<>>
                               \/ e \in {"<Up>", "<Down>", "<C-c>", "<"}
-----------------------------------------------------------------------------
(* HandleResult *)

\* Slip: the password is dropped only when the connection came up.
DropPasswordOnSuccess(r) ==
  password' = IF r.op = "connect" /\ ~r.err THEN <<>> ELSE password
DropPassword(r) == password' = IF r.op = "connect" THEN <<>> ELSE password

HandleResult(r) ==
  /\ IF r.err
     THEN EnterResult(r.op, NoIface, NoNet, TRUE) /\ UNCHANGED <<networks, listVars>>
     ELSE IF r.op = "scan"
     THEN /\ networks' = r.networks
          /\ IF r.networks = <<>>
             THEN EnterResult("scan", iface, NoNet, TRUE) /\ UNCHANGED listVars
             ELSE EnterList(r.networks) /\ UNCHANGED <<msg, msgErr>>
     ELSE /\ EnterResult(r.op,
               IF r.op \in {"radio_on", "radio_off"} THEN NoIface ELSE iface,
               IF r.op = "connect" THEN pendingNet ELSE NoNet, FALSE)
          /\ UNCHANGED <<networks, listVars>>
  /\ DropPassword(r)
  /\ UNCHANGED <<interfaces, iface, pendingNet>>
-----------------------------------------------------------------------------
(* The main select loop *)

Ready == running /\ ~uiCall

ModalKey(e) ==
  /\ Ready /\ Active
  /\ \/ HandleEvent(e) /\ Repaint
     \/ Ignored(e) /\ UNCHANGED <<modalVars, listVars, workers, paintVars>>
  /\ UNCHANGED <<opCh, loopVars>>

Quit(e) ==
  /\ Ready /\ ~Active /\ e \in {"q", "<C-c>"}
  /\ running' = FALSE
  /\ UNCHANGED <<modalVars, listVars, asyncVars, paintVars, wifiAvailable, uiCall>>

\* 'w': Open() asks nmcli for the wireless interfaces on the UI thread ...
OpenCall(e) ==
  /\ Ready /\ ~Active /\ e = "w" /\ wifiAvailable
  /\ uiCall' = TRUE
  /\ UNCHANGED <<modalVars, listVars, asyncVars, paintVars, wifiAvailable, running>>

\* ... and enters the dialog when there is one.
OpenReturn ==
  /\ uiCall /\ uiCall' = FALSE
  /\ \E ifaces \in WifiInterfaces :
       IF ifaces = <<>>
       THEN UNCHANGED <<modalVars, listVars, paintVars>>
       ELSE /\ interfaces' = ifaces
            /\ password' = <<>> /\ msgErr' = FALSE
            /\ msg' = [op |-> NoOp, iface |-> NoIface, net |-> NoNet]
            /\ IF Len(ifaces) = 1
               THEN iface' = ifaces[1] /\ EnterAction
               ELSE iface' = NoIface /\ EnterPickIface(ifaces)
            /\ UNCHANGED <<networks, pendingNet>>
            /\ Repaint
  /\ UNCHANGED <<asyncVars, wifiAvailable, running>>

Resize ==
  /\ Ready
  /\ UNCHANGED <<modalVars, listVars, asyncVars, loopVars>>
  /\ Repaint

\* Slip: the tick repaints the dashboard over the dialog.
TickAlways == Ready /\ shown' = "dashboard"
              /\ UNCHANGED <<modalVars, listVars, asyncVars, promptErr, loopVars>>

\* A tick of the 1 s ticker: update() ends by rendering the dashboard.
Tick ==
  /\ Ready
  /\ shown' = IF Active THEN shown ELSE "dashboard"
  /\ UNCHANGED <<modalVars, listVars, asyncVars, promptErr, loopVars>>

ReceiveResult ==
  /\ Ready /\ opCh # <<>>
  /\ HandleResult(Head(opCh))
  /\ opCh' = Tail(opCh)
  /\ Repaint
  /\ UNCHANGED <<workers, loopVars>>

Exited == ~running /\ UNCHANGED vars
-----------------------------------------------------------------------------
NoMsg == [op |-> NoOp, iface |-> NoIface, net |-> NoNet]

Init ==
  /\ mode = "wifiOff" /\ interfaces = <<>> /\ iface = NoIface /\ networks = <<>>
  /\ password = <<>> /\ pendingNet = NoNet /\ msg = NoMsg /\ msgErr = FALSE
  /\ rows = 0 /\ sel = 0 /\ promptErr = FALSE
  /\ workers = [g \in Goroutines |-> NoOp] /\ opCh = <<>>
  /\ wifiAvailable \in BOOLEAN /\ running = TRUE /\ shown = "dashboard"
  /\ uiCall = FALSE

User(e) == ModalKey(e) \/ Quit(e) \/ OpenCall(e)

Next ==
  \/ \E e \in Keys : User(e)
  \/ OpenReturn \/ Resize \/ Tick \/ ReceiveResult
  \/ \E g \in Goroutines : WorkerStart(g) \/ WorkerFinish(g)
  \/ Exited

\* nmcli returns, and Go's select does not starve a ready case.  The user
\* owes nothing.
Fairness ==
  /\ WF_vars(OpenReturn) /\ WF_vars(ReceiveResult)
  /\ \A g \in Goroutines : WF_vars(WorkerStart(g)) /\ WF_vars(WorkerFinish(g))

Spec == Init /\ [][Next]_vars
FairSpec == Spec /\ Fairness
-----------------------------------------------------------------------------
(* Properties *)

TypeOK ==
  /\ mode \in Modes /\ interfaces \in Seq(Ifaces) /\ iface \in Ifaces \cup {NoIface}
  /\ networks \in Seq(Networks) /\ password \in Seq(Runes)
  /\ pendingNet \in Networks \cup {NoNet}
  /\ msg \in [op : Ops \cup {NoOp}, iface : Ifaces \cup {NoIface}, net : Networks \cup {NoNet}]
  /\ rows \in Nat /\ sel \in Nat
  /\ workers \in [Goroutines -> Operation \cup {NoOp}]
  /\ opCh \in Seq([op : Ops, err : BOOLEAN, networks : Seq(Networks)])
  /\ shown \in Modes \cup {"dashboard"}
  /\ msgErr \in BOOLEAN /\ promptErr \in BOOLEAN /\ wifiAvailable \in BOOLEAN
  /\ running \in BOOLEAN /\ uiCall \in BOOLEAN

\* The busy screen is on exactly while one operation is outstanding - as a
\* goroutine or as a result not yet received - and there is never a second.
\* OpCh therefore never fills, and no result meets a screen that did not ask
\* for it (wifi_ui.go:320-323, "Ignore input while a goroutine is running").
OneOperation ==
  /\ \A g, h \in Goroutines : workers[g] # NoOp /\ workers[h] # NoOp => g = h
  /\ opCh # <<>> => Len(opCh) = 1 /\ \A g \in Goroutines : workers[g] = NoOp
  /\ mode = "wifiBusy" <=> (opCh # <<>> \/ \E g \in Goroutines : workers[g] # NoOp)

\* nmcli acts on the interface the user picked and on the network and with
\* the password chosen for it, although disconnect and reconnect read w.iface
\* from another goroutine than the one that writes it (wifi_ui.go:429-431).
CommandTargetsSelection ==
  \A g \in Goroutines : workers[g] # NoOp =>
    LET w == workers[g]
    IN  /\ w.op \in {"scan", "connect"} \/ (w.op \in {"disconnect", "reconnect"} /\ w.stage = "exec")
             => w.iface = iface /\ iface \in Ifaces
        /\ w.op = "connect" => /\ w.net = pendingNet /\ w.net \in Visible[iface]
                               /\ w.pwd = password
                               /\ w.net \in OpenNets => w.pwd = <<>>

\* w.networks[w.list.SelectedRow] (wifi_ui.go:290) is in range on the list
\* screen, also after a rescan that found fewer networks.
SelectionInRange == mode = "wifiList" => sel < Len(networks)

\* The networks on offer, and the one a password is asked for, were scanned
\* on the selected interface: no list outlives a change of interface.
ListedOnSelected ==
  mode \in {"wifiList", "wifiPassword"} =>
    /\ iface \in Ifaces
    /\ \A k \in DOMAIN networks : networks[k] \in Visible[iface]
    /\ mode = "wifiPassword" => pendingNet \in Visible[iface]

\* A typed password does not outlive its use: whatever way the password
\* screen and the connection it starts are left, it is dropped.
PasswordForgotten == mode \notin {"wifiPassword", "wifiBusy"} => password = <<>>

ScreenMatchesMode == shown = IF Active THEN mode ELSE "dashboard"
PromptNotRed == shown = "wifiPassword" => ~promptErr

\* Between two events the terminal shows the current screen: no transition
\* forgets to repaint, nor does the dashboard cover an open dialog; and the
\* password prompt does not inherit the red style of a failure panel, although
\* Render does not restyle it (main.go:700-743, wifi_ui.go:197-203).
PaintedRight == ScreenMatchesMode /\ PromptNotRed

\* Only the user opens the dialog: a result that comes late does not.
OnlyUserOpens == [][mode = "wifiOff" /\ mode' # "wifiOff" => uiCall]_vars

\* Every operation comes to an end the user sees.
BusyEnds == mode = "wifiBusy" ~> mode \in {"wifiResult", "wifiList"}
=============================================================================
