------------------------------ MODULE Monitor ------------------------------
(***************************************************************************)
(* The whole program: main's select loop (main.go:688-745) over the Wi-Fi  *)
(* dialog (WifiModal), the dashboard (Dashboard), the 1 s ticker with its  *)
(* channel of capacity 1, and the goroutine that keeps the public IP       *)
(* address (net.go:264-306).  The dashboard's "dialog" is the modal's      *)
(* Active(); while the UI thread is inside Open() it waits for nmcli and   *)
(* handles nothing, but time passes and the goroutines run.                *)
(* A definition marked "Slip" is a plausible mistake in the code of the    *)
(* definition that follows it; it takes no part in Next.                   *)
(***************************************************************************)
EXTENDS Integers, Sequences

CONSTANTS
  \* of the dialog
  Ifaces, Networks, OpenNets, Visible, Printable, Goroutines,
  NoIface, NoNet, NoOp, MaxIfaces, MaxNets, MaxPwd, OpChCap,
  \* of the dashboard
  HistoryLen, RefreshRate, StorageRate, MaxStall,
  GpuReadings, MemReadings, RxReadings, TxReadings, Widths, NoReading,
  Addresses,   \* what the address service may answer
  NoAddress,   \* the empty string
  NotAnAddress \* an answer that net.ParseIP refuses

VARIABLES
  mode, interfaces, iface, networks, password, pendingNet, msg, msgErr, rows, sel, promptErr,
  workers, opCh, wifiAvailable, running, shown, uiCall,
  gpu, mem, rx, tx, storageDevs, storageAge, phase, ticked, started,
  publicIPCache,  \* what PublicIP() returns
  public          \* the address in the header panel

M == INSTANCE WifiModal
D == INSTANCE Dashboard WITH dialog <- (mode # "wifiOff")

ASSUME MonitorAssumption ==
  /\ M!ConstantsAssumption /\ D!DashboardAssumption
  /\ {NoAddress, NotAnAddress} \cap Addresses = {}

dialogVars == <<mode, interfaces, iface, networks, password, pendingNet, msg, msgErr, rows, sel,
                promptErr, workers, opCh, wifiAvailable, running, shown, uiCall>>
panelVars == <<gpu, mem, rx, tx, storageDevs, storageAge, public>>
clock == <<phase, ticked>>
vars == <<dialogVars, panelVars, clock, started, publicIPCache>>
-----------------------------------------------------------------------------
\* Slip: the header is filled in once, before the loop.
UpdateKeepsHeader(pending) == D!Update(pending) /\ UNCHANGED public

\* update(): every panel, the header with the public address included.
Update(pending) == D!Update(pending) /\ public' = publicIPCache

Start ==
  /\ ~started /\ started' = TRUE
  /\ Update(FALSE)
  /\ UNCHANGED <<dialogVars, publicIPCache>>

\* Slip: the dialog is wiped off the screen, but the panels wait for a tick.
AfterKeyRenderOnly == UNCHANGED <<panelVars, clock>>

\* A key that closed the dialog is followed by an update.
AfterKey == IF M!Active' THEN UNCHANGED <<panelVars, clock>> ELSE Update(ticked)

ModalKey(e) ==
  /\ started /\ M!ModalKey(e)
  /\ AfterKey
  /\ UNCHANGED <<started, publicIPCache>>

\* The cases of the select that leave the panels alone.
OtherCase ==
  /\ started
  /\ \/ \E e \in M!Keys : M!Quit(e) \/ M!OpenCall(e)
     \/ M!OpenReturn \/ M!Resize \/ M!ReceiveResult
  /\ UNCHANGED <<panelVars, clock, started, publicIPCache>>

Goroutine(g) ==
  /\ M!WorkerStart(g) \/ M!WorkerFinish(g)
  /\ UNCHANGED <<panelVars, clock, started, publicIPCache>>

\* Slip: the grid is rendered as it is.
AfterTickRenderOnly == ticked' = FALSE /\ UNCHANGED <<panelVars, phase>>

\* Repaints are suspended while the modal owns the screen.
AfterTick ==
  IF M!Active THEN ticked' = FALSE /\ UNCHANGED <<panelVars, phase>> ELSE Update(FALSE)

Tick ==
  /\ started /\ ticked
  /\ M!Tick
  /\ AfterTick
  /\ UNCHANGED <<started, publicIPCache>>

TimePasses ==
  /\ running /\ UNCHANGED <<dialogVars, public, publicIPCache>>
  /\ D!TimePasses

\* A refresh: the request fails, or the answer is stored if it is an address.
Refresh == \E answer \in Addresses \cup {NoAddress, NotAnAddress} :
  publicIPCache' = IF answer \in Addresses THEN answer ELSE publicIPCache

Refresher ==
  /\ running /\ Refresh
  /\ UNCHANGED <<dialogVars, panelVars, clock, started>>

Exited == ~running /\ UNCHANGED vars
-----------------------------------------------------------------------------
Init == M!Init /\ D!Init /\ publicIPCache = NoAddress /\ public = NoAddress

Next ==
  \/ Start \/ OtherCase \/ Tick \/ TimePasses \/ Refresher \/ Exited
  \/ \E e \in M!Keys : ModalKey(e)
  \/ \E g \in Goroutines : Goroutine(g)

\* Time passes, nmcli returns, and the select, which picks at random among
\* the cases that are ready, does not pass over the tick for ever.
Fairness ==
  /\ WF_vars(Start) /\ WF_vars(TimePasses)
  /\ WF_vars(started /\ M!OpenReturn /\ OtherCase)
  /\ SF_vars(Tick)

Spec == Init /\ [][Next]_vars
FairSpec == Spec /\ Fairness
-----------------------------------------------------------------------------
(* Properties *)

\* In the loop they share, the dialog and the dashboard each behave as their
\* own modules say - blocked calls, dropped ticks and late results included -
\* so what is shown there about each of them holds of the program.
ViewsImplemented == M!Spec /\ D!Spec

\* A storage list that is due for a refresh gets one, unless the dialog is
\* opened or the program left: neither a blocked Open(), nor lost ticks, nor
\* keys and resizes that keep coming stop the dashboard (main.go:739-743).
RefreshGoesOn ==
  storageAge >= StorageRate ~> (storageAge < StorageRate \/ M!Active \/ ~running)

\* An address that the refresher brings in, at any moment and on a goroutine
\* that tells nobody, gets to the header unless the dialog covers it, the
\* program is left or another address comes in its place.  (Failed refreshes
\* leave it there, net.go:274-276, whatever README.md:79 says of no internet.)
AddressShown ==
  \A a \in Addresses :
    publicIPCache = a ~> (public = a \/ publicIPCache # a \/ M!Active \/ ~running)
=============================================================================
