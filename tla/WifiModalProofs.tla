-------------------------- MODULE WifiModalProofs --------------------------
(***************************************************************************)
(* The safety properties of the Wi-Fi dialog, and that it implements the   *)
(* abstract session, proved for any interfaces, networks, passwords and    *)
(* goroutines.                                                             *)
(***************************************************************************)
EXTENDS WifiModalRefinement, TLAPS

-----------------------------------------------------------------------------
(* Type correctness.  That indexing the lists yields interfaces and         *)
(* networks needs to know which list is on the screen, and that the list    *)
(* is as long as its widget; that a scan lists networks needs an interface  *)
(* to be selected.                                                          *)

ListOnScreen ==
  /\ mode \in {"wifiPickIface", "wifiAction", "wifiList"} => sel < rows
  /\ mode = "wifiList" => rows = Len(networks)
  /\ mode = "wifiPassword" => networks # <<>>

IfaceSelected ==
  /\ mode \notin {"wifiOff", "wifiPickIface"} => iface \in Ifaces
  /\ \A g \in Goroutines :
       workers[g] # NoOp /\ workers[g].op = "scan" => workers[g].iface \in Ifaces

TypeInv == TypeOK /\ ListOnScreen /\ IfaceSelected

\* A list of distinct members of a set is a sequence over the set.
LEMMA ListsOfType ==
  ASSUME NEW S, NEW max \in Nat, NEW s \in ListsOf(S, max)
  PROVE  s \in Seq(S) /\ DOMAIN s = 1..Len(s) /\ \A k \in 1..Len(s) : s[k] \in S
<1>1. PICK n \in 0..max : s \in [1..n -> S]
  BY DEF ListsOf
<1>2. n \in Nat /\ s \in Seq(S)
  BY <1>1
<1> QED
  BY <1>1, <1>2

\* Starting a goroutine gives one idle goroutine the operation, and touches
\* no other.
LEMMA GoType ==
  ASSUME workers \in [Goroutines -> Operation \cup {NoOp}],
         NEW op \in Ops, NEW i \in Ifaces \cup {NoIface},
         NEW n \in Networks \cup {NoNet}, NEW pwd \in Seq(Runes), Go(op, i, n, pwd)
  PROVE  /\ workers' \in [Goroutines -> Operation \cup {NoOp}]
         /\ \E g \in Goroutines :
              /\ workers[g] = NoOp
              /\ workers'[g] = [stage |-> "spawned", op |-> op, iface |-> i, net |-> n, pwd |-> pwd]
              /\ workers'[g] # NoOp
              /\ \A h \in Goroutines \ {g} : workers'[h] = workers[h]
<1> DEFINE w == [stage |-> "spawned", op |-> op, iface |-> i, net |-> n, pwd |-> pwd]
<1>1. PICK g \in Goroutines : workers[g] = NoOp /\ workers' = [workers EXCEPT ![g] = w]
  BY DEF Go
<1>2. w \in Operation
  BY DEF Operation
<1>3. w # NoOp
  BY <1>2, ConstantsAssumption
<1> QED
  BY <1>1, <1>2, <1>3

\* The program starts with every variable of its type.
LEMMA TypeInit == Init => TypeInv
<1> SUFFICES ASSUME Init PROVE TypeInv
  OBVIOUS
<1>1. TypeOK
  <2>1. <<interfaces, networks, password, opCh>> = <<<<>>, <<>>, <<>>, <<>>>>
    BY DEF Init
  <2>2. /\ interfaces \in Seq(Ifaces) /\ networks \in Seq(Networks) /\ password \in Seq(Runes)
        /\ opCh \in Seq([op : Ops, err : BOOLEAN, networks : Seq(Networks)])
    BY <2>1
  <2>3. /\ msgErr \in BOOLEAN /\ promptErr \in BOOLEAN /\ wifiAvailable \in BOOLEAN
        /\ running \in BOOLEAN /\ uiCall \in BOOLEAN
    BY DEF Init
  <2>4. /\ mode \in Modes /\ shown \in Modes \cup {"dashboard"} /\ rows \in Nat /\ sel \in Nat
        /\ msg \in [op : Ops \cup {NoOp}, iface : Ifaces \cup {NoIface}, net : Networks \cup {NoNet}]
    BY DEF Init, NoMsg, Modes
  <2>5. workers \in [Goroutines -> Operation \cup {NoOp}]
    BY DEF Init
  <2> QED
    BY <2>2, <2>3, <2>4, <2>5 DEF Init, TypeOK
<1>2. ListOnScreen /\ IfaceSelected
  BY DEF Init, ListOnScreen, IfaceSelected
<1> QED
  BY <1>1, <1>2 DEF TypeInv

\* A repaint shows a screen of the dialog or the dashboard.
LEMMA RepaintType ==
  ASSUME mode' \in Modes, msgErr' \in BOOLEAN, promptErr \in BOOLEAN, Repaint
  PROVE  shown' \in Modes \cup {"dashboard"} /\ promptErr' \in BOOLEAN
BY DEF Repaint, Modes

\* Scrolling leaves the row inside the list.
LEMMA ScrollRange ==
  ASSUME rows \in Nat, sel \in Nat, sel < rows, NEW e, Scroll(e)
  PROVE  sel' \in Nat /\ sel' < rows
BY DEF Scroll

\* Types are kept by the keys of the interface screen: the row picked is an
\* interface.
LEMMA TypePickIface ==
  ASSUME TypeInv, mode = "wifiPickIface", NEW e \in Keys, PickIfaceKey(e), Repaint,
         UNCHANGED <<opCh, loopVars>>
  PROVE  TypeInv'
<1> USE DEF TypeInv, TypeOK, ListOnScreen, IfaceSelected, PickIfaceKey, listVars, loopVars
<1>1. CASE Close /\ UNCHANGED <<iface, listVars>>
  BY <1>1, RepaintType DEF Close, Modes
<1>2. CASE Scroll(e) /\ UNCHANGED <<mode, iface, rows>>
  BY <1>2, RepaintType, ScrollRange
<1>3. CASE sel < Len(interfaces) /\ iface' = interfaces[sel + 1] /\ EnterAction
  <2>1. interfaces[sel + 1] \in Ifaces
    BY <1>3
  <2> QED
    BY <1>3, <2>1, RepaintType DEF EnterAction, SetList, Modes
<1> QED
  BY <1>1, <1>2, <1>3

\* The busy screen with a new goroutine behind it.
LEMMA TypeBegin ==
  ASSUME TypeInv, iface \in Ifaces, NEW op \in Ops,
         NEW i \in Ifaces \cup {NoIface}, NEW n \in Networks \cup {NoNet}, NEW pwd \in Seq(Runes),
         NEW j \in Ifaces \cup {NoIface}, op = "scan" => i \in Ifaces,
         EnterBusy(op, j, n), Go(op, i, n, pwd), Repaint,
         UNCHANGED <<interfaces, iface, networks, msgErr, listVars, opCh, loopVars>>,
         password' \in Seq(Runes), pendingNet' \in Networks \cup {NoNet}
  PROVE  TypeInv'
<1>0. TypeOK /\ workers \in [Goroutines -> Operation \cup {NoOp}]
  BY DEF TypeInv, TypeOK
<1> DEFINE w == [stage |-> "spawned", op |-> op, iface |-> i, net |-> n, pwd |-> pwd]
<1>1. PICK g \in Goroutines :
        workers[g] = NoOp /\ workers'[g] = w /\ \A h \in Goroutines \ {g} : workers'[h] = workers[h]
  BY <1>0, GoType
<1>2. workers' \in [Goroutines -> Operation \cup {NoOp}]
  BY <1>0, GoType
<1>3. mode' = "wifiBusy" /\ mode' \in Modes /\ msgErr' \in BOOLEAN /\ promptErr \in BOOLEAN
  BY <1>0 DEF EnterBusy, Modes, TypeOK
<1>4. shown' \in Modes \cup {"dashboard"} /\ promptErr' \in BOOLEAN
  BY <1>3, RepaintType
<1>5. TypeOK'
  BY <1>0, <1>2, <1>3, <1>4 DEF EnterBusy, TypeOK, listVars, loopVars
<1>6. IfaceSelected'
  <2>1. w.op = op /\ w.iface = i
    OBVIOUS
  <2> QED
    BY <1>1, <2>1 DEF TypeInv, IfaceSelected
<1>7. ListOnScreen'
  BY <1>3 DEF ListOnScreen
<1> QED
  BY <1>5, <1>6, <1>7 DEF TypeInv

\* Types are kept by the keys of the action screen, given a goroutine's.
LEMMA TypeAction ==
  ASSUME TypeInv, mode = "wifiAction", NEW e \in Keys, ActionKey(e), Repaint,
         UNCHANGED <<opCh, loopVars>>
  PROVE  TypeInv'
<1>0. TypeOK /\ ListOnScreen /\ IfaceSelected /\ iface \in Ifaces
  BY DEF TypeInv, IfaceSelected
<1>1. CASE Len(interfaces) > 1 /\ EnterPickIface(interfaces) /\ UNCHANGED <<msg, workers>>
  <2>1. mode' = "wifiPickIface" /\ rows' = Len(interfaces) /\ sel' = 0
    BY <1>1 DEF EnterPickIface, SetList
  <2>2. mode' \in Modes /\ msgErr' \in BOOLEAN /\ promptErr \in BOOLEAN
    BY <1>0, <2>1 DEF ActionKey, TypeOK, Modes
  <2>3. TypeOK'
    BY <1>0, <1>1, <2>1, <2>2, RepaintType DEF ActionKey, TypeOK, loopVars
  <2> QED
    BY <1>0, <1>1, <2>1, <2>3 DEF ActionKey, TypeInv, TypeOK, ListOnScreen, IfaceSelected
<1>2. CASE Close /\ UNCHANGED <<listVars, msg, workers>>
  <2>1. mode' = "wifiOff" /\ mode' \in Modes /\ msgErr' \in BOOLEAN /\ promptErr \in BOOLEAN
    BY <1>0, <1>2 DEF Close, ActionKey, TypeOK, Modes
  <2>2. TypeOK'
    BY <1>0, <1>2, <2>1, RepaintType DEF ActionKey, TypeOK, loopVars, listVars
  <2> QED
    BY <1>0, <1>2, <2>1, <2>2 DEF ActionKey, TypeInv, ListOnScreen, IfaceSelected
<1>3. CASE Scroll(e) /\ UNCHANGED <<mode, rows, msg, workers>>
  <2>1. rows \in Nat /\ sel \in Nat /\ sel < rows
    BY <1>0 DEF TypeOK, ListOnScreen
  <2>2. sel' \in Nat /\ sel' < rows'
    BY <1>3, <2>1, ScrollRange
  <2>3. mode' \in Modes /\ msgErr' \in BOOLEAN /\ promptErr \in BOOLEAN
    BY <1>0, <1>3 DEF ActionKey, TypeOK
  <2>4. TypeOK'
    BY <1>0, <1>3, <2>2, <2>3, RepaintType DEF ActionKey, TypeOK, loopVars
  <2> QED
    BY <1>0, <1>3, <2>2, <2>4 DEF ActionKey, TypeInv, ListOnScreen, IfaceSelected
<1>4. CASE RunAction(sel) /\ UNCHANGED listVars
  <2>0. /\ UNCHANGED <<interfaces, iface, networks, msgErr, listVars, opCh, loopVars>>
        /\ password' \in Seq(Runes) /\ pendingNet' \in Networks \cup {NoNet} /\ <<>> \in Seq(Runes)
    BY <1>0, <1>4 DEF ActionKey, TypeOK
  <2>1. CASE BeginScan
    <3>1. EnterBusy("scan", iface, NoNet) /\ Go("scan", iface, NoNet, <<>>) /\ "scan" \in Ops
      BY <2>1 DEF BeginScan, Ops
    <3> QED
      BY <1>0, <2>0, <3>1, TypeBegin
  <2>2. ASSUME NEW op \in {"disconnect", "reconnect", "radio_on", "radio_off"}, BeginOp(op)
        PROVE  TypeInv'
    <3>1. PICK j \in Ifaces \cup {NoIface} : EnterBusy(op, j, NoNet)
      BY <1>0, <2>2 DEF BeginOp
    <3>2. Go(op, NoIface, NoNet, <<>>) /\ op \in Ops /\ op # "scan"
      BY <2>2 DEF BeginOp, Ops
    <3> QED
      BY <1>0, <2>0, <3>1, <3>2, TypeBegin
  <2>3. sel \in Nat
    BY <1>0 DEF TypeOK
  <2> QED
    BY <1>4, <2>1, <2>2, <2>3 DEF RunAction
<1> QED
  BY <1>1, <1>2, <1>3, <1>4 DEF ActionKey

\* Types are kept by the keys of the network list: the row picked is a
\* network, and a scan has an interface.
LEMMA TypeList ==
  ASSUME TypeInv, mode = "wifiList", NEW e \in Keys, ListKey(e), Repaint,
         UNCHANGED <<opCh, loopVars>>
  PROVE  TypeInv'
<1>0. /\ TypeOK /\ ListOnScreen /\ IfaceSelected /\ iface \in Ifaces
      /\ rows = Len(networks) /\ sel \in Nat /\ rows \in Nat /\ sel < rows /\ <<>> \in Seq(Runes)
  BY DEF TypeInv, TypeOK, ListOnScreen, IfaceSelected
<1>1. CASE EnterAction /\ UNCHANGED <<password, pendingNet, msg, workers>>
  <2>1. mode' = "wifiAction" /\ rows' = 5 /\ sel' = 0
    BY <1>1 DEF EnterAction, SetList
  <2>2. mode' \in Modes /\ msgErr' \in BOOLEAN /\ promptErr \in BOOLEAN
    BY <1>0, <2>1 DEF ListKey, TypeOK, Modes
  <2>3. TypeOK'
    BY <1>0, <1>1, <2>1, <2>2, RepaintType DEF ListKey, TypeOK, loopVars
  <2> QED
    BY <1>0, <1>1, <2>1, <2>3 DEF ListKey, TypeInv, ListOnScreen, IfaceSelected
<1>2. CASE Scroll(e) /\ UNCHANGED <<mode, rows, password, pendingNet, msg, workers>>
  <2>1. sel' \in Nat /\ sel' < rows'
    BY <1>0, <1>2, ScrollRange
  <2>2. mode' \in Modes /\ msgErr' \in BOOLEAN /\ promptErr \in BOOLEAN
    BY <1>0, <1>2 DEF ListKey, TypeOK
  <2>3. TypeOK'
    BY <1>0, <1>2, <2>1, <2>2, RepaintType DEF ListKey, TypeOK, loopVars
  <2> QED
    BY <1>0, <1>2, <2>1, <2>3 DEF ListKey, TypeInv, ListOnScreen, IfaceSelected
<1>3. CASE BeginScan /\ UNCHANGED <<listVars, password, pendingNet>>
  <2>1. EnterBusy("scan", iface, NoNet) /\ Go("scan", iface, NoNet, <<>>) /\ "scan" \in Ops
    BY <1>3 DEF BeginScan, Ops
  <2>2. /\ UNCHANGED <<interfaces, iface, networks, msgErr, listVars, opCh, loopVars>>
        /\ password' \in Seq(Runes) /\ pendingNet' \in Networks \cup {NoNet}
    BY <1>0, <1>3 DEF ListKey, TypeOK
  <2> QED
    BY <1>0, <2>1, <2>2, TypeBegin
<1>4. ASSUME NEW n, n = networks[sel + 1], networks # <<>>, UNCHANGED <<interfaces, iface, networks, msgErr>>,
             UNCHANGED listVars
      PROVE  /\ BeginConnect(n, <<>>) /\ UNCHANGED password => TypeInv'
             /\ EnterPassword(n) /\ UNCHANGED <<msg, workers>> => TypeInv'
  <2>1. n \in Networks
    BY <1>0, <1>4 DEF TypeOK
  <2>2. ASSUME BeginConnect(n, <<>>), UNCHANGED password PROVE TypeInv'
    <3>1. /\ EnterBusy("connect", iface, n) /\ Go("connect", iface, n, <<>>) /\ "connect" \in Ops
          /\ pendingNet' \in Networks \cup {NoNet} /\ password' \in Seq(Runes)
      BY <1>0, <2>1, <2>2 DEF BeginConnect, Ops, TypeOK
    <3> QED
      BY <1>0, <1>4, <2>1, <3>1, TypeBegin
  <2>3. ASSUME EnterPassword(n), UNCHANGED <<msg, workers>> PROVE TypeInv'
    <3>1. mode' = "wifiPassword" /\ pendingNet' = n /\ password' = <<>>
      BY <2>3 DEF EnterPassword
    <3>2. mode' \in Modes /\ msgErr' \in BOOLEAN /\ promptErr \in BOOLEAN
      BY <1>0, <1>4, <3>1 DEF TypeOK, Modes
    <3>3. TypeOK'
      BY <1>0, <1>4, <2>1, <2>3, <3>1, <3>2, RepaintType DEF TypeOK, loopVars, listVars
    <3> QED
      BY <1>0, <1>4, <2>3, <3>1, <3>3 DEF TypeInv, ListOnScreen, IfaceSelected
  <2> QED
    BY <2>2, <2>3
<1> QED
  BY <1>1, <1>2, <1>3, <1>4 DEF ListKey

\* Types are kept by the keys of the password screen, typing included.
LEMMA TypePassword ==
  ASSUME TypeInv, mode = "wifiPassword", NEW e \in Keys, PasswordKey(e), Repaint,
         UNCHANGED <<opCh, loopVars>>
  PROVE  TypeInv'
<1>0. /\ TypeOK /\ ListOnScreen /\ IfaceSelected /\ iface \in Ifaces
      /\ networks # <<>> /\ networks \in Seq(Networks) /\ password \in Seq(Runes)
  BY DEF TypeInv, TypeOK, ListOnScreen, IfaceSelected
<1>1. CASE password' = <<>> /\ EnterList(networks) /\ UNCHANGED <<pendingNet, msg, workers>>
  <2>1. mode' = "wifiList" /\ rows' = Len(networks) /\ rows' \in Nat /\ sel' = 0 /\ sel' < rows'
    BY <1>0, <1>1 DEF EnterList, SetList
  <2>2. mode' \in Modes /\ msgErr' \in BOOLEAN /\ promptErr \in BOOLEAN
    BY <1>0, <2>1 DEF PasswordKey, TypeOK, Modes
  <2>3. TypeOK'
    BY <1>0, <1>1, <2>1, <2>2, RepaintType DEF PasswordKey, TypeOK, loopVars
  <2> QED
    BY <1>0, <1>1, <2>1, <2>3 DEF PasswordKey, TypeInv, ListOnScreen, IfaceSelected
<1>2. CASE BeginConnect(pendingNet, password) /\ UNCHANGED <<password, listVars>>
  <2>1. /\ EnterBusy("connect", iface, pendingNet) /\ Go("connect", iface, pendingNet, password)
        /\ pendingNet \in Networks \cup {NoNet} /\ "connect" \in Ops
        /\ pendingNet' \in Networks \cup {NoNet} /\ password' \in Seq(Runes)
    BY <1>0, <1>2 DEF BeginConnect, Ops, TypeOK
  <2> QED
    BY <1>0, <1>2, <2>1, TypeBegin DEF PasswordKey
<1>3. ASSUME password' \in Seq(Runes), UNCHANGED <<mode, pendingNet, msg, workers, listVars>>
      PROVE  TypeInv'
  <2>1. mode' \in Modes /\ msgErr' \in BOOLEAN /\ promptErr \in BOOLEAN
    BY <1>0, <1>3 DEF PasswordKey, TypeOK
  <2>2. TypeOK'
    BY <1>0, <1>3, <2>1, RepaintType DEF PasswordKey, TypeOK, loopVars, listVars
  <2> QED
    BY <1>0, <1>3, <2>2 DEF PasswordKey, TypeInv, ListOnScreen, IfaceSelected, listVars
<1>4. ASSUME password # <<>>, password' = SubSeq(password, 1, Len(password) - 1)
      PROVE  password' \in Seq(Runes)
  BY <1>0, <1>4
<1>5. ASSUME e = "<Space>" \/ ~HasBracketPrefix(e),
             password' = Append(password, IF e = "<Space>" THEN " " ELSE e)
      PROVE  password' \in Seq(Runes)
  <2>1. PICK r \in Runes : password' = Append(password, r)
    BY <1>5 DEF HasBracketPrefix, Keys, Runes
  <2> QED
    BY <1>0, <2>1
<1> QED
  BY <1>1, <1>2, <1>3, <1>4, <1>5 DEF PasswordKey

\* Types are kept by the keys of the result screen.
LEMMA TypeResult ==
  ASSUME TypeInv, mode = "wifiResult", NEW e \in Keys, ResultKey(e), Repaint,
         UNCHANGED <<opCh, loopVars>>
  PROVE  TypeInv'
<1>0. TypeOK /\ ListOnScreen /\ IfaceSelected /\ iface \in Ifaces
  BY DEF TypeInv, IfaceSelected
<1>1. \/ mode' = "wifiOff" /\ UNCHANGED listVars
      \/ mode' = "wifiAction" /\ rows' = 5 /\ sel' = 0
  BY DEF ResultKey, Close, EnterAction, SetList
<1>2. mode' \in Modes /\ msgErr' \in BOOLEAN /\ promptErr \in BOOLEAN
  BY <1>0, <1>1 DEF ResultKey, TypeOK, Modes
<1>3. TypeOK'
  BY <1>0, <1>1, <1>2, RepaintType DEF ResultKey, TypeOK, loopVars, listVars
<1> QED
  BY <1>0, <1>1, <1>3 DEF ResultKey, TypeInv, ListOnScreen, IfaceSelected

\* Types are kept by every key handled under the dialog.
LEMMA TypeModalKey ==
  ASSUME TypeInv, NEW e \in Keys, ModalKey(e)
  PROVE  TypeInv'
<1>1. CASE HandleEvent(e) /\ Repaint
  BY <1>1, TypePickIface, TypeAction, TypeList, TypePassword, TypeResult
     DEF ModalKey, HandleEvent
<1>2. CASE Ignored(e) /\ UNCHANGED <<modalVars, listVars, workers, paintVars>>
  BY <1>2 DEF ModalKey, modalVars, listVars, paintVars, loopVars,
              TypeInv, TypeOK, ListOnScreen, IfaceSelected
<1> QED
  BY <1>1, <1>2 DEF ModalKey

\* Types are kept when Open returns, with any list of interfaces.
LEMMA TypeOpenReturn ==
  ASSUME TypeInv, OpenReturn
  PROVE  TypeInv'
<1>0. TypeOK /\ IfaceSelected
  BY DEF TypeInv
<1> USE DEF asyncVars
<1>1. CASE UNCHANGED <<modalVars, listVars, paintVars>>
  <2>1. uiCall' \in BOOLEAN
    BY DEF OpenReturn
  <2>2. TypeOK'
    BY <1>0, <1>1, <2>1 DEF OpenReturn, modalVars, listVars, paintVars, TypeOK
  <2>3. UNCHANGED <<mode, rows, sel, networks, iface, workers>>
    BY <1>1 DEF OpenReturn, modalVars, listVars
  <2> QED
    BY <2>2, <2>3 DEF TypeInv, ListOnScreen, IfaceSelected
<1>2. ASSUME NEW ifaces \in WifiInterfaces, ifaces # <<>>,
             interfaces' = ifaces, password' = <<>>, msgErr' = FALSE,
             msg' = [op |-> NoOp, iface |-> NoIface, net |-> NoNet],
             IF Len(ifaces) = 1
             THEN iface' = ifaces[1] /\ EnterAction
             ELSE iface' = NoIface /\ EnterPickIface(ifaces),
             UNCHANGED <<networks, pendingNet>>, Repaint
      PROVE  TypeInv'
  <2>1. ifaces \in Seq(Ifaces) /\ Len(ifaces) \in Nat \ {0} /\ ifaces[1] \in Ifaces
    <3>1. ifaces \in Seq(Ifaces)
      BY ListsOfType, ConstantsAssumption DEF WifiInterfaces
    <3>2. Len(ifaces) \in Nat \ {0}
      BY <1>2, <3>1
    <3> QED
      BY <3>1, <3>2
  <2>2. \/ iface' \in Ifaces /\ mode' = "wifiAction" /\ rows' = 5 /\ sel' = 0
        \/ iface' = NoIface /\ mode' = "wifiPickIface" /\ rows' = Len(ifaces) /\ sel' = 0
    BY <1>2, <2>1 DEF EnterAction, EnterPickIface, SetList
  <2>3. mode' \in Modes /\ msgErr' \in BOOLEAN /\ promptErr \in BOOLEAN
    BY <1>0, <1>2, <2>2 DEF TypeOK, Modes
  <2>4. shown' \in Modes \cup {"dashboard"} /\ promptErr' \in BOOLEAN
    BY <1>2, <2>3, RepaintType
  <2>5. msg' \in [op : Ops \cup {NoOp}, iface : Ifaces \cup {NoIface}, net : Networks \cup {NoNet}]
    BY <1>2
  <2>6. password' \in Seq(Runes) /\ interfaces' \in Seq(Ifaces)
    BY <1>2, <2>1
  <2>7. uiCall' \in BOOLEAN
    BY DEF OpenReturn
  <2>8. TypeOK'
    BY <1>0, <1>2, <2>1, <2>2, <2>3, <2>4, <2>5, <2>6, <2>7 DEF OpenReturn, TypeOK
  <2>9. IfaceSelected'
    BY <1>0, <2>2 DEF OpenReturn, IfaceSelected
  <2> QED
    BY <2>1, <2>2, <2>8, <2>9 DEF TypeInv, ListOnScreen
<1> QED
  BY <1>1, <1>2 DEF OpenReturn

\* A goroutine that starts goes on with the same operation.
LEMMA StartType ==
  ASSUME TypeInv, NEW g \in Goroutines, WorkerStart(g)
  PROVE  \E w \in Operation :
           /\ workers' = [workers EXCEPT ![g] = w]
           /\ w.op = workers[g].op /\ w.net = workers[g].net /\ w.pwd = workers[g].pwd
           /\ w.stage = "exec"
           /\ w.iface = IF w.op \in {"disconnect", "reconnect"} THEN iface ELSE workers[g].iface
<1>0. /\ TypeOK /\ ListOnScreen /\ IfaceSelected /\ iface \in Ifaces \cup {NoIface}
      /\ workers \in [Goroutines -> Operation \cup {NoOp}]
  BY DEF TypeInv, TypeOK
<1>1. workers[g] \in Operation
  BY <1>0 DEF WorkerStart
<1> DEFINE i == IF workers[g].op \in {"disconnect", "reconnect"} THEN iface ELSE workers[g].iface
           w == [workers[g] EXCEPT !.stage = "exec", !.iface = i]
<1>2. /\ w \in Operation /\ w.op = workers[g].op /\ w.net = workers[g].net
      /\ w.pwd = workers[g].pwd /\ w.stage = "exec" /\ w.iface = i
  BY <1>0, <1>1 DEF Operation
<1>3. workers' = [workers EXCEPT ![g] = w]
  BY <1>0, <1>1 DEF WorkerStart, Operation
<1> QED
  BY <1>2, <1>3

\* Types are kept when a goroutine gives nmcli its arguments.
LEMMA TypeWorkerStart ==
  ASSUME TypeInv, NEW g \in Goroutines, WorkerStart(g)
  PROVE  TypeInv'
<1>0. /\ TypeOK /\ ListOnScreen /\ IfaceSelected
      /\ workers \in [Goroutines -> Operation \cup {NoOp}] /\ workers[g] # NoOp
  BY DEF TypeInv, TypeOK, WorkerStart
<1>1. PICK w \in Operation :
        /\ workers' = [workers EXCEPT ![g] = w]
        /\ w.op = workers[g].op
        /\ w.iface = IF w.op \in {"disconnect", "reconnect"} THEN iface ELSE workers[g].iface
  BY StartType
<1>2. w.op = "scan" => w.iface = workers[g].iface
  BY <1>1
<1>3. workers' \in [Goroutines -> Operation \cup {NoOp}]
  BY <1>0, <1>1
<1>4. TypeOK'
  BY <1>0, <1>3 DEF WorkerStart, TypeOK, modalVars, listVars, paintVars, loopVars
<1>5. IfaceSelected'
  BY <1>0, <1>1, <1>2 DEF WorkerStart, IfaceSelected, modalVars
<1> QED
  BY <1>0, <1>4, <1>5 DEF WorkerStart, TypeInv, ListOnScreen, modalVars, listVars

\* Types are kept when a goroutine sends its result.
LEMMA TypeWorkerFinish ==
  ASSUME TypeInv, NEW g \in Goroutines, WorkerFinish(g)
  PROVE  TypeInv'
<1> DEFINE Result == [op : Ops, err : BOOLEAN, networks : Seq(Networks)]
<1>0. /\ TypeOK /\ ListOnScreen /\ IfaceSelected /\ opCh \in Seq(Result)
      /\ workers \in [Goroutines -> Operation \cup {NoOp}]
      /\ workers[g] \in Operation /\ workers[g].op \in Ops
  BY DEF TypeInv, TypeOK, WorkerFinish, Operation
<1>1. workers' \in [Goroutines -> Operation \cup {NoOp}]
      /\ \A h \in Goroutines : workers'[h] # NoOp => workers'[h] = workers[h]
  BY <1>0 DEF WorkerFinish
<1>2. PICK r \in Result : opCh' = Append(opCh, r)
  <2>1. CASE Send(OpResult(workers[g], TRUE, <<>>))
    <3>1. OpResult(workers[g], TRUE, <<>>) \in Result
      BY <1>0 DEF OpResult
    <3>2. opCh' = Append(opCh, OpResult(workers[g], TRUE, <<>>))
      BY <2>1 DEF Send
    <3> HIDE DEF Result
    <3> QED
      BY <3>1, <3>2
  <2>2. ASSUME NEW nets \in IF workers[g].op = "scan" THEN WifiScan(workers[g].iface) ELSE {<<>>},
               Send(OpResult(workers[g], FALSE, nets))
        PROVE  \E r \in Result : opCh' = Append(opCh, r)
    <3>1. nets \in Seq(Networks)
      <4>1. CASE workers[g].op = "scan"
        <5>1. workers[g].iface \in Ifaces
          BY <1>0, <4>1 DEF IfaceSelected, WorkerFinish
        <5>2. Visible[workers[g].iface] \subseteq Networks
          BY <5>1, ConstantsAssumption
        <5>3. nets \in Seq(Visible[workers[g].iface])
          BY <2>2, <4>1, ListsOfType, ConstantsAssumption DEF WifiScan
        <5> QED
          BY <5>2, <5>3
      <4>2. CASE workers[g].op # "scan"
        BY <2>2, <4>2
      <4> QED
        BY <4>1, <4>2
    <3>2. OpResult(workers[g], FALSE, nets) \in Result
      BY <1>0, <3>1 DEF OpResult
    <3>3. opCh' = Append(opCh, OpResult(workers[g], FALSE, nets))
      BY <2>2 DEF Send
    <3> HIDE DEF Result
    <3> QED
      BY <3>2, <3>3
  <2> QED
    BY <2>1, <2>2 DEF WorkerFinish
<1>3. opCh' \in Seq(Result)
  BY <1>0, <1>2
<1>4. TypeOK'
  BY <1>0, <1>1, <1>3 DEF WorkerFinish, TypeOK, modalVars, listVars, paintVars, loopVars
<1>5. IfaceSelected'
  BY <1>0, <1>1 DEF WorkerFinish, IfaceSelected, modalVars
<1> QED
  BY <1>0, <1>4, <1>5 DEF WorkerFinish, TypeInv, ListOnScreen, modalVars, listVars

\* The result received is an element of the channel, and so is the rest.
LEMMA HeadTailType ==
  ASSUME NEW S, NEW q \in Seq(S), q # <<>>
  PROVE  Head(q) \in S /\ Tail(q) \in Seq(S) /\ Len(Tail(q)) = Len(q) - 1 /\ Head(q) = q[1]
OBVIOUS

\* Types are kept by HandleResult; a scan ends with an interface selected
\* because nothing but the one operation is outstanding.
LEMMA TypeReceiveResult ==
  ASSUME TypeInv, OneOperation, ReceiveResult
  PROVE  TypeInv'
<1> DEFINE Result == [op : Ops, err : BOOLEAN, networks : Seq(Networks)]
<1>0. /\ TypeOK /\ ListOnScreen /\ IfaceSelected /\ opCh # <<>> /\ <<>> \in Seq(Runes)
      /\ promptErr \in BOOLEAN /\ mode = "wifiBusy" /\ iface \in Ifaces
  BY DEF TypeInv, TypeOK, IfaceSelected, OneOperation, ReceiveResult
<1>1. PICK r \in Result : HandleResult(r)
  <2>1. opCh \in Seq(Result)
    BY <1>0 DEF TypeOK
  <2> HIDE DEF Result
  <2> QED
    BY <1>0, <2>1, HeadTailType DEF ReceiveResult
<1>2. opCh' \in Seq(Result)
  <2>1. opCh \in Seq(Result)
    BY <1>0 DEF TypeOK
  <2> HIDE DEF Result
  <2> QED
    BY <1>0, <2>1, HeadTailType DEF ReceiveResult
<1>3. Repaint /\ UNCHANGED <<workers, interfaces, iface, pendingNet, wifiAvailable, running, uiCall>>
  BY <1>1 DEF ReceiveResult, HandleResult, loopVars
<1>4. password' \in Seq(Runes)
  BY <1>0, <1>1 DEF HandleResult, DropPassword, TypeOK
<1>5. networks' \in Seq(Networks)
  BY <1>0, <1>1 DEF HandleResult, TypeOK
<1>6. CASE EnterList(r.networks) /\ r.networks # <<>> /\ networks' = r.networks /\ UNCHANGED <<msg, msgErr>>
  <2>1. mode' = "wifiList" /\ rows' = Len(networks') /\ rows' \in Nat /\ sel' = 0 /\ sel' < rows'
    BY <1>5, <1>6 DEF EnterList, SetList
  <2>2. mode' \in Modes /\ msgErr' \in BOOLEAN
    BY <1>0, <1>6, <2>1 DEF TypeOK, Modes
  <2>3. TypeOK'
    BY <1>0, <1>2, <1>3, <1>4, <1>5, <1>6, <2>1, <2>2, RepaintType DEF TypeOK
  <2> QED
    BY <1>0, <1>3, <2>1, <2>3 DEF TypeInv, ListOnScreen, IfaceSelected
<1>7. ASSUME NEW op \in Ops, NEW i \in Ifaces \cup {NoIface}, NEW n \in Networks \cup {NoNet},
             NEW isErr \in BOOLEAN, EnterResult(op, i, n, isErr), UNCHANGED listVars
      PROVE  TypeInv'
  <2>1. mode' = "wifiResult" /\ mode' \in Modes /\ msgErr' \in BOOLEAN
    BY <1>7 DEF EnterResult, Modes
  <2>2. msg' \in [op : Ops \cup {NoOp}, iface : Ifaces \cup {NoIface}, net : Networks \cup {NoNet}]
    BY <1>7 DEF EnterResult
  <2>3. TypeOK'
    BY <1>0, <1>2, <1>3, <1>4, <1>5, <1>7, <2>1, <2>2, RepaintType DEF TypeOK, listVars
  <2> QED
    BY <1>0, <1>3, <2>1, <2>3 DEF TypeInv, ListOnScreen, IfaceSelected
<1>8. pendingNet \in Networks \cup {NoNet} /\ r.op \in Ops /\ "scan" \in Ops
  BY <1>0 DEF TypeOK, Ops
<1>9. CASE r.err
  BY <1>1, <1>7, <1>8, <1>9 DEF HandleResult
<1>10. CASE ~r.err /\ r.op = "scan"
  BY <1>0, <1>1, <1>6, <1>7, <1>8, <1>10 DEF HandleResult
<1>11. CASE ~r.err /\ r.op # "scan"
  BY <1>0, <1>1, <1>7, <1>8, <1>11 DEF HandleResult
<1> QED
  BY <1>9, <1>10, <1>11

\* Types are kept by every step.
LEMMA TypeNext == TypeInv /\ OneOperation /\ [Next]_vars => TypeInv'
<1> SUFFICES ASSUME TypeInv, OneOperation, [Next]_vars PROVE TypeInv'
  OBVIOUS
<1>0. TypeOK
  BY DEF TypeInv
<1>1. ASSUME NEW e \in Keys, User(e) PROVE TypeInv'
  <2>1. CASE ModalKey(e)
    BY <2>1, TypeModalKey
  <2>2. CASE Quit(e) \/ OpenCall(e)
    <3>1. running' \in BOOLEAN /\ uiCall' \in BOOLEAN /\ wifiAvailable' \in BOOLEAN
      BY <1>0, <2>2 DEF Quit, OpenCall, TypeOK
    <3>2. UNCHANGED <<modalVars, listVars, asyncVars, paintVars>>
      BY <2>2 DEF Quit, OpenCall
    <3>3. TypeOK'
      BY <1>0, <3>1, <3>2 DEF TypeOK, modalVars, listVars, asyncVars, paintVars
    <3> QED
      BY <3>2, <3>3 DEF TypeInv, ListOnScreen, IfaceSelected, modalVars, listVars, asyncVars
  <2> QED
    BY <1>1, <2>1, <2>2 DEF User
<1>2. CASE Resize
  <2>1. mode' \in Modes /\ msgErr' \in BOOLEAN /\ promptErr \in BOOLEAN
    BY <1>0, <1>2 DEF Resize, modalVars, TypeOK
  <2>2. TypeOK'
    BY <1>0, <1>2, <2>1, RepaintType
       DEF Resize, TypeOK, modalVars, listVars, asyncVars, loopVars
  <2> QED
    BY <1>2, <2>2 DEF Resize, TypeInv, ListOnScreen, IfaceSelected, modalVars, listVars, asyncVars
<1>3. CASE Tick
  BY <1>3 DEF Tick, TypeInv, TypeOK, ListOnScreen, IfaceSelected,
              modalVars, listVars, asyncVars, loopVars
<1>4. CASE Exited \/ UNCHANGED vars
  BY <1>4 DEF Exited, vars, TypeInv, TypeOK, ListOnScreen, IfaceSelected,
              modalVars, listVars, asyncVars, paintVars, loopVars
<1> QED
  BY <1>1, <1>2, <1>3, <1>4, TypeOpenReturn, TypeReceiveResult, TypeWorkerStart, TypeWorkerFinish
     DEF Next
-----------------------------------------------------------------------------
(* One operation at a time.  A goroutine is started only from a screen that *)
(* is not busy, and the busy screen has no key.                             *)

\* An operation begun with none outstanding is the only one.
LEMMA OneBegin ==
  ASSUME TypeInv, OneOperation, mode # "wifiBusy",
         NEW op \in Ops, NEW i \in Ifaces \cup {NoIface}, NEW j,
         NEW n \in Networks \cup {NoNet}, NEW pwd \in Seq(Runes),
         EnterBusy(op, j, n), Go(op, i, n, pwd), UNCHANGED opCh
  PROVE  OneOperation'
<1>1. workers \in [Goroutines -> Operation \cup {NoOp}]
  BY DEF TypeInv, TypeOK
<1>2. PICK g \in Goroutines :
        /\ workers'[g] # NoOp
        /\ \A h \in Goroutines \ {g} : workers'[h] = workers[h]
  BY <1>1, GoType
<1>3. opCh = <<>> /\ \A h \in Goroutines : workers[h] = NoOp
  BY DEF OneOperation
<1> QED
  BY <1>2, <1>3 DEF OneOperation, EnterBusy

\* A step that leaves the goroutines and the channel alone may not change
\* whether the screen is busy, and need not do more.
LEMMA OneIdle ==
  ASSUME OneOperation, UNCHANGED <<workers, opCh>>, mode = "wifiBusy" <=> mode' = "wifiBusy"
  PROVE  OneOperation'
BY DEF OneOperation

\* No key under the dialog starts a second operation.
LEMMA OneModalKey ==
  ASSUME TypeInv, OneOperation, NEW e \in Keys, ModalKey(e)
  PROVE  OneOperation'
<1>0. /\ TypeOK /\ ListOnScreen /\ IfaceSelected /\ iface \in Ifaces \cup {NoIface}
      /\ sel \in Nat /\ networks \in Seq(Networks) /\ password \in Seq(Runes)
      /\ pendingNet \in Networks \cup {NoNet} /\ <<>> \in Seq(Runes) /\ UNCHANGED opCh
  BY DEF TypeInv, TypeOK, ModalKey
<1>1. CASE Ignored(e) /\ UNCHANGED <<modalVars, listVars, workers, paintVars>>
  BY <1>0, <1>1, OneIdle DEF modalVars
<1>2. CASE mode = "wifiPickIface" /\ PickIfaceKey(e)
  BY <1>0, <1>2, OneIdle DEF PickIfaceKey, Close, EnterAction, SetList
<1>3. CASE mode = "wifiResult" /\ ResultKey(e)
  BY <1>0, <1>3, OneIdle DEF ResultKey, Close, EnterAction, SetList
<1>4. ASSUME mode \in {"wifiAction", "wifiList"}, BeginScan PROVE OneOperation'
  BY <1>0, <1>4, OneBegin DEF BeginScan, Ops
<1>5. CASE mode = "wifiAction" /\ ActionKey(e)
  <2>1. ASSUME NEW op \in {"disconnect", "reconnect", "radio_on", "radio_off"}, BeginOp(op)
        PROVE  OneOperation'
    BY <1>0, <1>5, <2>1, OneBegin DEF BeginOp, Ops
  <2>2. ASSUME RunAction(sel) PROVE OneOperation'
    BY <1>0, <1>4, <1>5, <2>1, <2>2 DEF RunAction
  <2>3. ASSUME ~RunAction(sel) PROVE OneOperation'
    BY <1>0, <1>5, <2>3, OneIdle DEF ActionKey, Close, EnterPickIface, SetList
  <2> QED
    BY <2>2, <2>3
<1>6. ASSUME mode \in {"wifiList", "wifiPassword"}, NEW n \in Networks \cup {NoNet},
             NEW pwd \in Seq(Runes), BeginConnect(n, pwd)
      PROVE  OneOperation'
  BY <1>0, <1>6, OneBegin DEF BeginConnect, Ops
<1>7. CASE mode = "wifiList" /\ ListKey(e)
  <2>1. networks # <<>> => networks[sel + 1] \in Networks
    BY <1>0, <1>7 DEF ListOnScreen
  <2>2. ASSUME networks # <<>>, BeginConnect(networks[sel + 1], <<>>) PROVE OneOperation'
    BY <1>0, <1>6, <1>7, <2>1, <2>2
  <2> QED
    BY <1>0, <1>4, <1>7, <2>2, OneIdle DEF ListKey, EnterAction, EnterPassword, SetList
<1>8. CASE mode = "wifiPassword" /\ PasswordKey(e)
  BY <1>0, <1>6, <1>8, OneIdle DEF PasswordKey, EnterList, SetList
<1> QED
  BY <1>1, <1>2, <1>3, <1>5, <1>7, <1>8 DEF ModalKey, HandleEvent

\* nmcli is asked for the interfaces only from the dashboard.
CallFromDashboard == uiCall => mode = "wifiOff"

\* Open is called, and returns, with the dialog closed.
LEMMA CallNext == CallFromDashboard /\ [Next]_vars => CallFromDashboard'
<1> SUFFICES ASSUME CallFromDashboard, [Next]_vars PROVE CallFromDashboard'
  OBVIOUS
<1> USE DEF CallFromDashboard, modalVars, loopVars
<1>1. ASSUME NEW e \in Keys, User(e) PROVE CallFromDashboard'
  BY <1>1 DEF User, ModalKey, Quit, OpenCall, Ready, Active
<1>2. CASE OpenReturn
  BY <1>2 DEF OpenReturn
<1>3. CASE Resize \/ Tick \/ ReceiveResult
  BY <1>3 DEF Resize, Tick, ReceiveResult, Ready
<1>4. ASSUME NEW g \in Goroutines, WorkerStart(g) \/ WorkerFinish(g) PROVE CallFromDashboard'
  BY <1>4 DEF WorkerStart, WorkerFinish
<1>5. CASE Exited \/ UNCHANGED vars
  BY <1>5 DEF Exited, vars
<1> QED
  BY <1>1, <1>2, <1>3, <1>4, <1>5 DEF Next

\* No step starts a second operation or leaves the busy screen without the
\* result.
LEMMA OneNext == TypeInv /\ OneOperation /\ CallFromDashboard /\ [Next]_vars => OneOperation'
<1> SUFFICES ASSUME TypeInv, OneOperation, CallFromDashboard, [Next]_vars PROVE OneOperation'
  OBVIOUS
<1> DEFINE Result == [op : Ops, err : BOOLEAN, networks : Seq(Networks)]
<1>0. workers \in [Goroutines -> Operation \cup {NoOp}] /\ opCh \in Seq(Result)
  BY DEF TypeInv, TypeOK
<1> HIDE DEF Result
<1>1. ASSUME NEW e \in Keys, User(e) PROVE OneOperation'
  BY <1>1, OneModalKey, OneIdle DEF User, Quit, OpenCall, modalVars, asyncVars
<1>2. CASE OpenReturn
  <2>1. mode = "wifiOff" /\ mode' # "wifiBusy" /\ UNCHANGED <<workers, opCh>>
    BY <1>2 DEF CallFromDashboard, OpenReturn, asyncVars, modalVars,
                EnterAction, EnterPickIface, SetList
  <2> QED
    BY <2>1, OneIdle
<1>3. CASE Resize \/ Tick \/ Exited \/ UNCHANGED vars
  BY <1>3, OneIdle DEF Resize, Tick, Exited, vars, modalVars, asyncVars
<1>4. CASE ReceiveResult
  <2>1. Len(opCh) = 1 /\ \A g \in Goroutines : workers[g] = NoOp
    BY <1>4 DEF ReceiveResult, OneOperation
  <2>2. opCh' = <<>>
    <3>1. opCh' \in Seq(Result) /\ Len(opCh') = 0
      BY <1>0, <1>4, <2>1, HeadTailType DEF ReceiveResult
    <3> QED
      BY <3>1
  <2>3. mode' # "wifiBusy" /\ UNCHANGED workers
    BY <1>4 DEF ReceiveResult, HandleResult, EnterResult, EnterList, SetList
  <2> QED
    BY <2>1, <2>2, <2>3 DEF OneOperation
<1>5. ASSUME NEW g \in Goroutines, WorkerStart(g) PROVE OneOperation'
  <2>1. workers[g] # NoOp /\ UNCHANGED <<mode, opCh>>
    BY <1>5 DEF WorkerStart, modalVars
  <2>2. PICK w \in Operation : workers' = [workers EXCEPT ![g] = w]
    BY <1>5, StartType
  <2>3. workers'[g] # NoOp /\ \A h \in Goroutines \ {g} : workers'[h] = workers[h]
    BY <1>0, <2>2, ConstantsAssumption
  <2> QED
    BY <2>1, <2>3 DEF OneOperation
<1>6. ASSUME NEW g \in Goroutines, WorkerFinish(g) PROVE OneOperation'
  <2>1. /\ workers[g] # NoOp /\ workers'[g] = NoOp /\ UNCHANGED mode
        /\ \A h \in Goroutines \ {g} : workers'[h] = workers[h]
    BY <1>0, <1>6 DEF WorkerFinish, modalVars
  <2>2. opCh = <<>> /\ mode = "wifiBusy" /\ \A h \in Goroutines \ {g} : workers[h] = NoOp
    BY <2>1 DEF OneOperation
  <2>3. PICK r : opCh' = Append(opCh, r)
    BY <1>6 DEF WorkerFinish, Send
  <2>4. opCh' # <<>> /\ Len(opCh') = 1
    BY <2>2, <2>3
  <2> QED
    BY <2>1, <2>2, <2>4 DEF OneOperation
<1> QED
  BY <1>1, <1>2, <1>3, <1>4, <1>5, <1>6 DEF Next
-----------------------------------------------------------------------------
(* The screen.  The red style goes away with the busy screen, and the list  *)
(* and the password screen are reached through it only.                     *)

ScreenInv ==
  /\ ScreenMatchesMode
  /\ mode \in {"wifiList", "wifiPassword", "wifiBusy"} => ~promptErr

\* No key leads to the list or the password screen from elsewhere.
LEMMA KeyScreens ==
  ASSUME NEW e \in Keys, HandleEvent(e)
  PROVE  /\ mode' \in {"wifiList", "wifiPassword"} => mode \in {"wifiList", "wifiPassword"}
         /\ mode \notin {"wifiOff", "wifiBusy"}
<1>1. CASE mode = "wifiPickIface" /\ PickIfaceKey(e)
  BY <1>1 DEF PickIfaceKey, Close, EnterAction, SetList
<1>2. CASE mode = "wifiAction" /\ ActionKey(e)
  BY <1>2 DEF ActionKey, Close, EnterPickIface, SetList, RunAction, BeginScan, BeginOp, EnterBusy
<1>3. CASE mode = "wifiList" /\ ListKey(e)
  BY <1>3
<1>4. CASE mode = "wifiPassword" /\ PasswordKey(e)
  BY <1>4
<1>5. CASE mode = "wifiResult" /\ ResultKey(e)
  BY <1>5 DEF ResultKey, Close, EnterAction, SetList
<1> QED
  BY <1>1, <1>2, <1>3, <1>4, <1>5 DEF HandleEvent

\* After a repaint the screen is the current one, in its colour.
LEMMA ScreenRepaint ==
  ASSUME ScreenInv, Repaint,
         mode' \in {"wifiList", "wifiPassword"} => mode \in {"wifiList", "wifiPassword", "wifiBusy"}
  PROVE  ScreenInv'
BY DEF ScreenInv, ScreenMatchesMode, Active, Repaint

\* Every step keeps the current screen on show.
LEMMA ScreenNext ==
  OneOperation /\ CallFromDashboard /\ ScreenInv /\ [Next]_vars => ScreenInv'
<1> SUFFICES ASSUME OneOperation, CallFromDashboard, ScreenInv, [Next]_vars PROVE ScreenInv'
  OBVIOUS
<1> USE DEF modalVars, paintVars
<1>0. ASSUME UNCHANGED <<mode, shown, promptErr>> PROVE ScreenInv'
  BY <1>0 DEF ScreenInv, ScreenMatchesMode, Active
<1>1. ASSUME NEW e \in Keys, User(e) PROVE ScreenInv'
  <2>1. CASE HandleEvent(e) /\ Repaint
    BY <2>1, KeyScreens, ScreenRepaint
  <2> QED
    BY <1>0, <1>1, <2>1 DEF User, ModalKey, Quit, OpenCall
<1>2. CASE OpenReturn
  <2>1. CASE UNCHANGED <<modalVars, listVars, paintVars>>
    BY <1>0, <2>1
  <2>2. CASE Repaint /\ mode' \in {"wifiAction", "wifiPickIface"}
    BY <2>2, ScreenRepaint
  <2> QED
    BY <1>2, <2>1, <2>2 DEF OpenReturn, EnterAction, EnterPickIface, SetList
<1>3. CASE ReceiveResult
  BY <1>3, ScreenRepaint DEF ReceiveResult, OneOperation
<1>4. CASE Resize
  BY <1>4, ScreenRepaint DEF Resize
<1>5. CASE Tick
  BY <1>5 DEF Tick, ScreenInv, ScreenMatchesMode, Active
<1>6. ASSUME NEW g \in Goroutines, WorkerStart(g) \/ WorkerFinish(g) PROVE ScreenInv'
  BY <1>0, <1>6 DEF WorkerStart, WorkerFinish
<1>7. CASE Exited \/ UNCHANGED vars
  BY <1>0, <1>7 DEF Exited, vars
<1> QED
  BY <1>1, <1>2, <1>3, <1>4, <1>5, <1>6, <1>7 DEF Next
-----------------------------------------------------------------------------
(* What an operation is given.  Targets are read from the selection, which  *)
(* does not move while the screen is busy; the password buffer holds what   *)
(* the operation was given, until its result drops it.                      *)

SelectionInv ==
  /\ CommandTargetsSelection /\ ListedOnSelected /\ PasswordForgotten
  /\ mode = "wifiPassword" => pendingNet \notin OpenNets
  /\ opCh # <<>> => \A k \in DOMAIN opCh[1].networks : opCh[1].networks[k] \in Visible[iface]
  /\ opCh # <<>> /\ opCh[1].op # "connect" => password = <<>>
  /\ \A g \in Goroutines : workers[g] # NoOp /\ workers[g].op # "connect" => password = <<>>

\* An operation is begun on what is selected at that moment.
LEMMA SelectionBegin ==
  ASSUME TypeInv, OneOperation, mode # "wifiBusy", iface \in Ifaces,
         NEW op \in Ops, NEW i \in Ifaces \cup {NoIface}, NEW j,
         NEW n \in Networks \cup {NoNet}, NEW pwd \in Seq(Runes),
         EnterBusy(op, j, n), Go(op, i, n, pwd), UNCHANGED <<iface, opCh>>,
         op \in {"scan", "connect"} => i = iface,
         op = "connect" => /\ n = pendingNet' /\ n \in Visible[iface] /\ pwd = password'
                           /\ n \in OpenNets => pwd = <<>>,
         op # "connect" => password' = <<>>
  PROVE  SelectionInv'
<1> DEFINE w == [stage |-> "spawned", op |-> op, iface |-> i, net |-> n, pwd |-> pwd]
<1>1. workers \in [Goroutines -> Operation \cup {NoOp}]
  BY DEF TypeInv, TypeOK
<1>2. PICK g \in Goroutines :
        workers'[g] = w /\ \A h \in Goroutines \ {g} : workers'[h] = workers[h]
  BY <1>1, GoType
<1>3. opCh' = <<>> /\ (\A h \in Goroutines \ {g} : workers'[h] = NoOp) /\ mode' = "wifiBusy"
  BY <1>2 DEF OneOperation, EnterBusy
<1>4. w.stage # "exec" /\ w.op = op /\ w.iface = i /\ w.net = n /\ w.pwd = pwd
  OBVIOUS
<1> HIDE DEF w
<1>5. CommandTargetsSelection'
  BY <1>2, <1>3, <1>4 DEF CommandTargetsSelection
<1>6. \A h \in Goroutines : workers'[h] # NoOp /\ workers'[h].op # "connect" => password' = <<>>
  BY <1>2, <1>3, <1>4
<1> QED
  BY <1>3, <1>5, <1>6 DEF SelectionInv, ListedOnSelected, PasswordForgotten

\* Between two screens that are not busy no goroutine runs: only the list and
\* the password have to be looked at.
LEMMA SelectionIdle ==
  ASSUME OneOperation, mode # "wifiBusy", mode' # "wifiBusy", UNCHANGED <<workers, opCh>>,
         ListedOnSelected', PasswordForgotten', (mode = "wifiPassword" => pendingNet \notin OpenNets)'
  PROVE  SelectionInv'
BY DEF SelectionInv, OneOperation, CommandTargetsSelection

\* Keys keep the selection, the lists and the password together.
LEMMA SelectionModalKey ==
  ASSUME TypeInv, OneOperation, SelectionInv, NEW e \in Keys, ModalKey(e)
  PROVE  SelectionInv'
<1>0. /\ TypeOK /\ ListOnScreen /\ ListedOnSelected /\ PasswordForgotten
      /\ sel \in Nat /\ networks \in Seq(Networks) /\ password \in Seq(Runes)
      /\ pendingNet \in Networks \cup {NoNet} /\ <<>> \in Seq(Runes) /\ UNCHANGED opCh
      /\ (mode \notin {"wifiOff", "wifiPickIface"} => iface \in Ifaces)
      /\ iface \in Ifaces \cup {NoIface}
  BY DEF TypeInv, TypeOK, IfaceSelected, ModalKey, SelectionInv
<1>1. CASE Ignored(e) /\ UNCHANGED <<modalVars, listVars, workers, paintVars>>
  BY <1>0, <1>1 DEF modalVars, SelectionInv, CommandTargetsSelection, ListedOnSelected, PasswordForgotten
<1>2. ASSUME mode \notin {"wifiOff", "wifiBusy", "wifiPassword"},
             mode' \in {"wifiOff", "wifiPickIface", "wifiAction"},
             UNCHANGED <<workers, password>>
      PROVE  SelectionInv'
  BY <1>0, <1>2, SelectionIdle DEF ListedOnSelected, PasswordForgotten
<1>3. ASSUME mode \notin {"wifiOff", "wifiBusy", "wifiPickIface"},
             UNCHANGED <<mode, iface, networks, pendingNet, workers>>,
             mode # "wifiPassword" => UNCHANGED password
      PROVE  SelectionInv'
  BY <1>0, <1>3, SelectionIdle DEF SelectionInv, ListedOnSelected, PasswordForgotten
<1>4. CASE mode = "wifiPickIface" /\ PickIfaceKey(e)
  BY <1>2, <1>4 DEF PickIfaceKey, Close, EnterAction, SetList
<1>5. CASE mode = "wifiResult" /\ ResultKey(e)
  BY <1>2, <1>5 DEF ResultKey, Close, EnterAction, SetList
<1>6. ASSUME mode \in {"wifiAction", "wifiList"}, BeginScan, UNCHANGED <<iface, password>>
      PROVE  SelectionInv'
  BY <1>0, <1>6, SelectionBegin DEF BeginScan, Ops, PasswordForgotten
<1>7. CASE mode = "wifiAction" /\ ActionKey(e)
  <2>1. ASSUME NEW op \in {"disconnect", "reconnect", "radio_on", "radio_off"}, BeginOp(op)
        PROVE  SelectionInv'
    BY <1>0, <1>7, <2>1, SelectionBegin DEF ActionKey, BeginOp, Ops, PasswordForgotten
  <2>2. ASSUME RunAction(sel) PROVE SelectionInv'
    BY <1>0, <1>6, <1>7, <2>1, <2>2 DEF ActionKey, RunAction
  <2>3. ASSUME ~RunAction(sel) PROVE SelectionInv'
    BY <1>2, <1>3, <1>7, <2>3 DEF ActionKey, Close, EnterPickIface, SetList
  <2> QED
    BY <2>2, <2>3
<1>8. CASE mode = "wifiList" /\ ListKey(e)
  <2>1. ASSUME networks # <<>>, UNCHANGED <<interfaces, iface, networks, msgErr>>,
               NEW n, n = networks[sel + 1]
        PROVE  /\ n \in OpenNets /\ BeginConnect(n, <<>>) /\ UNCHANGED password => SelectionInv'
               /\ n \notin OpenNets /\ EnterPassword(n) /\ UNCHANGED <<msg, workers>> => SelectionInv'
    <3>1. n \in Networks /\ n \in Visible[iface]
      BY <1>0, <1>8, <2>1 DEF ListOnScreen, ListedOnSelected
    <3>2. ASSUME n \in OpenNets, BeginConnect(n, <<>>), UNCHANGED password PROVE SelectionInv'
      BY <1>0, <1>8, <2>1, <3>1, <3>2, SelectionBegin DEF BeginConnect, Ops, PasswordForgotten
    <3>3. ASSUME n \notin OpenNets, EnterPassword(n), UNCHANGED <<msg, workers>> PROVE SelectionInv'
      BY <1>0, <1>8, <2>1, <3>1, <3>3, SelectionIdle
         DEF EnterPassword, ListedOnSelected, PasswordForgotten
    <3> QED
      BY <3>2, <3>3
  <2> QED
    BY <1>2, <1>3, <1>6, <1>8, <2>1 DEF ListKey, EnterAction, SetList
<1>9. CASE mode = "wifiPassword" /\ PasswordKey(e)
  <2>1. CASE password' = <<>> /\ EnterList(networks) /\ UNCHANGED <<pendingNet, msg, workers>>
    BY <1>0, <1>9, <2>1, SelectionIdle
       DEF PasswordKey, EnterList, SetList, ListedOnSelected, PasswordForgotten
  <2>2. CASE BeginConnect(pendingNet, password) /\ UNCHANGED <<password, listVars>>
    <3>1. pendingNet \in Visible[iface] /\ pendingNet \notin OpenNets
      BY <1>9 DEF SelectionInv, ListedOnSelected
    <3> QED
      BY <1>0, <1>9, <2>2, <3>1, SelectionBegin DEF PasswordKey, BeginConnect, Ops
  <2> QED
    BY <1>3, <1>9, <2>1, <2>2 DEF PasswordKey
<1> QED
  BY <1>1, <1>4, <1>5, <1>7, <1>8, <1>9 DEF ModalKey, HandleEvent

\* The interface a closure reads is the one that was selected.
LEMMA SelectionWorkerStart ==
  ASSUME TypeInv, SelectionInv, OneOperation, NEW g \in Goroutines, WorkerStart(g)
  PROVE  SelectionInv'
<1>0. /\ workers \in [Goroutines -> Operation \cup {NoOp}] /\ workers[g] # NoOp
      /\ UNCHANGED <<mode, iface, networks, password, pendingNet, opCh>>
      /\ opCh = <<>> /\ mode = "wifiBusy" /\ iface \in Ifaces
  BY DEF TypeInv, TypeOK, IfaceSelected, OneOperation, WorkerStart, modalVars
<1>1. PICK w \in Operation :
        /\ workers' = [workers EXCEPT ![g] = w]
        /\ w.op = workers[g].op /\ w.net = workers[g].net /\ w.pwd = workers[g].pwd
        /\ w.stage = "exec"
        /\ w.iface = IF w.op \in {"disconnect", "reconnect"} THEN iface ELSE workers[g].iface
  BY StartType
<1>2. workers'[g] = w /\ \A h \in Goroutines \ {g} : workers'[h] = workers[h]
  BY <1>0, <1>1
<1>3. CommandTargetsSelection'
  BY <1>0, <1>1, <1>2 DEF SelectionInv, CommandTargetsSelection
<1>4. \A h \in Goroutines : workers'[h] # NoOp /\ workers'[h].op # "connect" => password' = <<>>
  BY <1>0, <1>1, <1>2 DEF SelectionInv
<1> QED
  BY <1>0, <1>3, <1>4 DEF SelectionInv, ListedOnSelected, PasswordForgotten

\* A result is about the selected interface.
LEMMA SelectionWorkerFinish ==
  ASSUME TypeInv, SelectionInv, OneOperation, NEW g \in Goroutines, WorkerFinish(g)
  PROVE  SelectionInv'
<1>0. /\ workers \in [Goroutines -> Operation \cup {NoOp}] /\ workers[g] # NoOp
      /\ UNCHANGED <<mode, iface, networks, password, pendingNet>>
      /\ opCh = <<>> /\ mode = "wifiBusy"
      /\ (workers[g].op = "scan" => workers[g].iface = iface /\ iface \in Ifaces)
      /\ (workers[g].op # "connect" => password = <<>>)
  BY DEF TypeInv, TypeOK, OneOperation, WorkerFinish, modalVars, SelectionInv, CommandTargetsSelection
<1>1. workers' = [workers EXCEPT ![g] = NoOp]
  BY DEF WorkerFinish
<1>2. PICK r : /\ opCh' = Append(opCh, r) /\ r.op = workers[g].op
               /\ \A k \in DOMAIN r.networks : r.networks[k] \in Visible[iface]
  <2>1. CASE Send(OpResult(workers[g], TRUE, <<>>))
    BY <2>1 DEF Send, OpResult
  <2>2. ASSUME NEW nets \in IF workers[g].op = "scan" THEN WifiScan(workers[g].iface) ELSE {<<>>},
               Send(OpResult(workers[g], FALSE, nets))
        PROVE  \E r : /\ opCh' = Append(opCh, r) /\ r.op = workers[g].op
                      /\ \A k \in DOMAIN r.networks : r.networks[k] \in Visible[iface]
    <3>1. \A k \in DOMAIN nets : nets[k] \in Visible[iface]
      <4>1. CASE workers[g].op = "scan"
        BY <1>0, <2>2, <4>1, ListsOfType, ConstantsAssumption DEF WifiScan
      <4>2. CASE workers[g].op # "scan"
        BY <2>2, <4>2
      <4> QED
        BY <4>1, <4>2
    <3> QED
      BY <2>2, <3>1 DEF Send, OpResult
  <2> QED
    BY <2>1, <2>2 DEF WorkerFinish
<1>3. opCh' # <<>> /\ opCh'[1] = r
  BY <1>0, <1>2
<1>4. CommandTargetsSelection'
  BY <1>0, <1>1 DEF SelectionInv, CommandTargetsSelection
<1>5. \A h \in Goroutines : workers'[h] # NoOp /\ workers'[h].op # "connect" => password' = <<>>
  BY <1>0, <1>1 DEF SelectionInv
<1> QED
  BY <1>0, <1>2, <1>3, <1>4, <1>5 DEF SelectionInv, ListedOnSelected, PasswordForgotten

\* The list a scan brings is that of the selected interface.
LEMMA SelectionReceiveResult ==
  ASSUME TypeInv, SelectionInv, OneOperation, ReceiveResult
  PROVE  SelectionInv'
<1> DEFINE Result == [op : Ops, err : BOOLEAN, networks : Seq(Networks)]
<1>0. opCh \in Seq(Result) /\ opCh # <<>> /\ Len(opCh) = 1
  BY DEF TypeInv, TypeOK, OneOperation, ReceiveResult
<1> HIDE DEF Result
<1>1. opCh[1] = Head(opCh) /\ opCh' = <<>>
  <2>1. opCh' \in Seq(Result) /\ Len(opCh') = 0 /\ opCh[1] = Head(opCh)
    BY <1>0, HeadTailType DEF ReceiveResult
  <2> QED
    BY <2>1
<1>2. /\ mode = "wifiBusy" /\ UNCHANGED <<workers, iface, pendingNet>>
      /\ iface \in Ifaces /\ \A g \in Goroutines : workers[g] = NoOp
  BY <1>0 DEF ReceiveResult, HandleResult, OneOperation, TypeInv, IfaceSelected
<1>3. PICK r : r = opCh[1] /\ HandleResult(r)
  BY <1>1 DEF ReceiveResult
<1>4. password' = <<>>
  BY <1>0, <1>3 DEF HandleResult, DropPassword, SelectionInv
<1>5. mode' = "wifiResult" \/ (mode' = "wifiList" /\ networks' = r.networks)
  BY <1>3 DEF HandleResult, EnterResult, EnterList, SetList
<1>6. ListedOnSelected'
  BY <1>0, <1>2, <1>3, <1>5 DEF SelectionInv, ListedOnSelected
<1> QED
  BY <1>1, <1>2, <1>4, <1>5, <1>6 DEF SelectionInv, CommandTargetsSelection, PasswordForgotten

\* A dialog that opens has no list and no password yet.
LEMMA SelectionOpenReturn ==
  ASSUME TypeInv, SelectionInv, OneOperation, CallFromDashboard, OpenReturn
  PROVE  SelectionInv'
<1>0. mode = "wifiOff" /\ UNCHANGED <<workers, opCh>> /\ password = <<>>
  BY DEF CallFromDashboard, OpenReturn, asyncVars, SelectionInv, PasswordForgotten
<1>1. mode' \in {"wifiOff", "wifiPickIface", "wifiAction"} /\ password' = <<>>
  BY <1>0 DEF OpenReturn, modalVars, EnterAction, EnterPickIface, SetList
<1> QED
  BY <1>0, <1>1, SelectionIdle DEF ListedOnSelected, PasswordForgotten

\* Every step keeps the selection, the lists and the password together.
LEMMA SelectionNext ==
  TypeInv /\ OneOperation /\ CallFromDashboard /\ SelectionInv /\ [Next]_vars => SelectionInv'
<1> SUFFICES ASSUME TypeInv, OneOperation, CallFromDashboard, SelectionInv, [Next]_vars
             PROVE  SelectionInv'
  OBVIOUS
<1>0. ASSUME UNCHANGED <<modalVars, workers, opCh>> PROVE SelectionInv'
  BY <1>0 DEF modalVars, SelectionInv, CommandTargetsSelection, ListedOnSelected, PasswordForgotten
<1>1. ASSUME NEW e \in Keys, User(e) PROVE SelectionInv'
  BY <1>0, <1>1, SelectionModalKey DEF User, Quit, OpenCall, asyncVars
<1>2. CASE Resize \/ Tick \/ Exited \/ UNCHANGED vars
  BY <1>0, <1>2 DEF Resize, Tick, Exited, vars, asyncVars
<1> QED
  BY <1>1, <1>2, SelectionOpenReturn, SelectionReceiveResult,
     SelectionWorkerStart, SelectionWorkerFinish DEF Next
-----------------------------------------------------------------------------
(* The theorems *)

Inv == TypeInv /\ OneOperation /\ CallFromDashboard /\ ScreenInv /\ SelectionInv

\* The inductive invariant: what the lists, the busy screen, the goroutines,
\* the channel, the password buffer and the terminal have to do with each
\* other, always.
THEOREM Invariance == Spec => []Inv
<1>1. Init => Inv
  <2> SUFFICES ASSUME Init PROVE Inv
    OBVIOUS
  <2>1. TypeInv
    BY TypeInit
  <2>2. OneOperation /\ CallFromDashboard /\ ScreenInv
    BY DEF Init, OneOperation, CallFromDashboard, ScreenInv, ScreenMatchesMode, Active
  <2>3. SelectionInv
    BY DEF Init, SelectionInv, CommandTargetsSelection, ListedOnSelected, PasswordForgotten
  <2> QED
    BY <2>1, <2>2, <2>3 DEF Inv
<1>2. Inv /\ [Next]_vars => Inv'
  BY TypeNext, OneNext, CallNext, ScreenNext, SelectionNext DEF Inv
<1> QED
  BY <1>1, <1>2, PTL DEF Spec

\* Every variable keeps its type: in particular no list is indexed out of its
\* bounds, and no scan runs without an interface.
THEOREM TypeCorrect == Spec => []TypeOK
<1>1. Inv => TypeOK
  BY DEF Inv, TypeInv
<1> QED
  BY <1>1, Invariance, PTL

\* There is one nmcli operation at most, and the screen is busy as long
\* (wifi_ui.go:320-323), for any number of goroutines and any channel.
THEOREM SingleFlight == Spec => []OneOperation
<1>1. Inv => OneOperation
  BY DEF Inv
<1> QED
  BY <1>1, Invariance, PTL

\* nmcli gets the interface, network and password the user chose
\* (wifi_ui.go:429-457).
THEOREM Targets == Spec => []CommandTargetsSelection
<1>1. Inv => CommandTargetsSelection
  BY DEF Inv, SelectionInv
<1> QED
  BY <1>1, Invariance, PTL

\* The networks on offer, and the one a password is asked for, are those of the
\* selected interface (wifi_ui.go:347, 276-296).
THEOREM ListsAreCurrent == Spec => []ListedOnSelected
<1>1. Inv => ListedOnSelected
  BY DEF Inv, SelectionInv
<1> QED
  BY <1>1, Invariance, PTL

\* The row picked on the list screen is a network (wifi_ui.go:290).
THEOREM RowInRange == Spec => []SelectionInRange
<1>1. Inv => SelectionInRange
  BY DEF Inv, TypeInv, ListOnScreen, SelectionInRange
<1> QED
  BY <1>1, Invariance, PTL

\* No password stays behind (wifi_ui.go:301, 360).
THEOREM NoPasswordLeft == Spec => []PasswordForgotten
<1>1. Inv => PasswordForgotten
  BY DEF Inv, SelectionInv
<1> QED
  BY <1>1, Invariance, PTL

\* The terminal shows the current screen, in its colour (main.go:700-742).
THEOREM ScreenIsCurrent == Spec => []PaintedRight
<1>1. Inv => PaintedRight
  BY DEF Inv, ScreenInv, PaintedRight, ScreenMatchesMode, PromptNotRed, Active
<1> QED
  BY <1>1, Invariance, PTL

\* The dialog opens on the user's request only: no late result opens it.
THEOREM OpensOnRequest == Spec => OnlyUserOpens
<1>1. Inv /\ [Next]_vars => [mode = "wifiOff" /\ mode' # "wifiOff" => uiCall]_vars
  <2> SUFFICES ASSUME Inv, [Next]_vars, mode = "wifiOff", mode' # "wifiOff" PROVE uiCall
    OBVIOUS
  <2>1. opCh = <<>>
    BY DEF Inv, OneOperation
  <2> QED
    BY <2>1 DEF Next, User, ModalKey, Quit, OpenCall, OpenReturn, Resize, Tick, ReceiveResult,
                WorkerStart, WorkerFinish, Exited, Active, vars, modalVars
<1> QED
  BY <1>1, Invariance, PTL DEF Spec, OnlyUserOpens
-----------------------------------------------------------------------------
(* The dialog implements WifiSession: every step is a step of the session   *)
(* under the mapping of WifiModalRefinement, or leaves it alone.            *)

\* With one goroutine at work, it is the one that runs the job.
LEMMA TheWorker ==
  ASSUME NEW ws, NEW g \in Goroutines, ws[g] # NoOp,
         \A h \in Goroutines : ws[h] # NoOp => h = g
  PROVE  (CHOOSE h \in Goroutines : ws[h] # NoOp) = g
OBVIOUS

\* Away from the busy screen there is no job.
LEMMA IdleMapped ==
  ASSUME OneOperation, mode # "wifiBusy"
  PROVE  JobNow = NoJob /\ OutcomeNow = "none"
BY DEF OneOperation, JobNow, OutcomeNow

\* The first state is a closed session.
LEMMA SessionInit == Init => Session!Init
BY DEF Init, Session!Init, Phase, JobNow, OutcomeNow, ReportNow

\* A step that changes nothing of what the session sees.
LEMMA SessionUnchanged ==
  ASSUME UNCHANGED <<mode, iface, pendingNet, msg, msgErr, workers, opCh>>
  PROVE  UNCHANGED Session!vars
BY DEF Session!vars, Phase, JobNow, RunningOp, OutcomeNow, ReportNow

\* From a menu to a menu, or out of the dialog.
LEMMA SessionFromMenu ==
  ASSUME OneOperation, UNCHANGED <<workers, opCh>>,
         mode \in {"wifiPickIface", "wifiAction", "wifiList", "wifiPassword"},
         mode' \in {"wifiOff", "wifiPickIface", "wifiAction", "wifiList", "wifiPassword"}
  PROVE  [Session!Next]_(Session!vars)
<1>1. opCh = <<>>
  BY DEF OneOperation
<1>2. CASE mode' = "wifiOff"
  BY <1>1, <1>2 DEF Session!Next, Session!Close, Phase, JobNow, OutcomeNow, ReportNow
<1>3. CASE mode' # "wifiOff"
  BY <1>1, <1>3 DEF Session!vars, Phase, JobNow, OutcomeNow, ReportNow
<1> QED
  BY <1>2, <1>3

\* An operation begun from a menu is a job started on what is selected.
LEMMA SessionStart ==
  ASSUME TypeInv, OneOperation, iface \in Ifaces, UNCHANGED <<iface, opCh>>,
         mode \in {"wifiPickIface", "wifiAction", "wifiList", "wifiPassword"},
         NEW op \in Ops, NEW i \in Ifaces \cup {NoIface}, NEW j,
         NEW n \in Networks \cup {NoNet}, NEW pwd \in Seq(Runes),
         EnterBusy(op, j, n), Go(op, i, n, pwd),
         op = "connect" => pendingNet' \in Networks
  PROVE  Session!Next
<1>1. workers \in [Goroutines -> Operation \cup {NoOp}]
  BY DEF TypeInv, TypeOK
<1>2. PICK g \in Goroutines :
        /\ workers'[g] = [stage |-> "spawned", op |-> op, iface |-> i, net |-> n, pwd |-> pwd]
        /\ workers'[g] # NoOp
        /\ \A h \in Goroutines \ {g} : workers'[h] = workers[h]
  BY <1>1, GoType
<1>3. opCh = <<>> /\ \A h \in Goroutines : workers[h] = NoOp
  BY DEF OneOperation
<1>4. RunningOp' = op
  <2>1. (CHOOSE h \in Goroutines : workers'[h] # NoOp) = g
    BY <1>2, <1>3, TheWorker
  <2> QED
    BY <1>2, <1>3, <2>1 DEF RunningOp
<1> DEFINE job == [op    |-> op,
                   iface |-> IF op \in {"radio_on", "radio_off"} THEN NoIface ELSE iface,
                   net   |-> IF op = "connect" THEN pendingNet' ELSE NoNet]
<1>5. job \in Session!Job
  BY DEF Session!Job, Ops
<1>6. JobNow' = job /\ mode' = "wifiBusy"
  BY <1>4 DEF JobNow, EnterBusy
<1>7. Session!Start(job)
  BY <1>3, <1>6 DEF Session!Start, Phase, OutcomeNow, ReportNow
<1> QED
  BY <1>5, <1>7 DEF Session!Next
-----------------------------------------------------------------------------
(* The steps *)

\* Keys move between menus, start jobs, dismiss reports and close the session.
LEMMA SessionModalKey ==
  ASSUME TypeInv, OneOperation, SelectionInv, NEW e \in Keys, ModalKey(e)
  PROVE  [Session!Next]_(Session!vars)
<1>0. /\ TypeOK /\ ListOnScreen /\ IfaceSelected /\ iface \in Ifaces \cup {NoIface}
      /\ sel \in Nat /\ networks \in Seq(Networks) /\ password \in Seq(Runes)
      /\ pendingNet \in Networks \cup {NoNet} /\ <<>> \in Seq(Runes) /\ UNCHANGED opCh
  BY DEF TypeInv, TypeOK, ModalKey
<1>1. CASE Ignored(e) /\ UNCHANGED <<modalVars, listVars, workers, paintVars>>
  BY <1>0, <1>1, SessionUnchanged DEF modalVars
<1>2. CASE mode = "wifiPickIface" /\ PickIfaceKey(e)
  BY <1>0, <1>2, SessionFromMenu DEF PickIfaceKey, Close, EnterAction, SetList
<1>3. CASE mode = "wifiResult" /\ ResultKey(e)
  <2>1. opCh = <<>> /\ mode' \in {"wifiOff", "wifiAction"}
    BY <1>3 DEF ResultKey, Close, EnterAction, SetList, OneOperation
  <2> QED
    BY <1>0, <1>3, <2>1
       DEF Session!Next, Session!Close, Session!Dismiss, Phase, JobNow, OutcomeNow, ReportNow
<1>4. ASSUME mode \in {"wifiAction", "wifiList"}, UNCHANGED iface, BeginScan PROVE Session!Next
  BY <1>0, <1>4, SessionStart DEF BeginScan, Ops, IfaceSelected
<1>5. CASE mode = "wifiAction" /\ ActionKey(e)
  <2>1. iface \in Ifaces /\ UNCHANGED iface
    BY <1>0, <1>5 DEF IfaceSelected, ActionKey
  <2>2. ASSUME NEW op \in {"disconnect", "reconnect", "radio_on", "radio_off"}, BeginOp(op)
        PROVE  Session!Next
    BY <1>0, <1>5, <2>1, <2>2, SessionStart DEF BeginOp, Ops
  <2>3. ASSUME RunAction(sel) PROVE Session!Next
    BY <1>0, <1>4, <1>5, <2>1, <2>2, <2>3 DEF RunAction
  <2>4. ASSUME ~RunAction(sel) PROVE [Session!Next]_(Session!vars)
    BY <1>0, <1>5, <2>4, SessionFromMenu DEF ActionKey, Close, EnterPickIface, SetList
  <2> QED
    BY <2>3, <2>4
<1>6. ASSUME mode \in {"wifiList", "wifiPassword"}, UNCHANGED iface, NEW n \in Networks,
             NEW pwd \in Seq(Runes), BeginConnect(n, pwd)
      PROVE  Session!Next
  BY <1>0, <1>6, SessionStart DEF BeginConnect, Ops, IfaceSelected
<1>7. CASE mode = "wifiList" /\ ListKey(e)
  <2>1. networks # <<>> => networks[sel + 1] \in Networks
    BY <1>0, <1>7 DEF ListOnScreen
  <2>2. UNCHANGED iface
    BY <1>7 DEF ListKey
  <2>3. ASSUME networks # <<>>, BeginConnect(networks[sel + 1], <<>>) PROVE Session!Next
    BY <1>0, <1>6, <1>7, <2>1, <2>2, <2>3
  <2>4. CASE BeginScan
    BY <1>4, <1>7, <2>2, <2>4
  <2> QED
    BY <1>0, <1>7, <2>3, <2>4, SessionFromMenu DEF ListKey, EnterAction, EnterPassword, SetList
<1>8. CASE mode = "wifiPassword" /\ PasswordKey(e)
  <2>0. pendingNet \in Networks
    BY <1>0, <1>8, ConstantsAssumption DEF SelectionInv, ListedOnSelected
  <2>1. CASE BeginConnect(pendingNet, password)
    BY <1>0, <1>6, <1>8, <2>0, <2>1 DEF PasswordKey
  <2> QED
    BY <1>0, <1>8, <2>1, SessionFromMenu DEF PasswordKey, EnterList, SetList
<1> QED
  BY <1>1, <1>2, <1>3, <1>5, <1>7, <1>8 DEF ModalKey, HandleEvent

\* Open() opens the session, or finds no interface.
LEMMA SessionOpenReturn ==
  ASSUME OneOperation, CallFromDashboard, OpenReturn
  PROVE  [Session!Next]_(Session!vars)
<1>1. mode = "wifiOff" /\ opCh = <<>> /\ UNCHANGED <<workers, opCh>>
  BY DEF CallFromDashboard, OpenReturn, asyncVars, OneOperation
<1>2. CASE UNCHANGED modalVars
  BY <1>1, <1>2, SessionUnchanged DEF modalVars
<1>3. CASE mode' \in {"wifiAction", "wifiPickIface"}
  BY <1>1, <1>3 DEF Session!Next, Session!Open, Phase, JobNow, OutcomeNow, ReportNow
<1> QED
  BY <1>2, <1>3 DEF OpenReturn, EnterAction, EnterPickIface, SetList

\* A goroutine that gets to run does not show.
LEMMA SessionWorkerStart ==
  ASSUME TypeInv, OneOperation, NEW g \in Goroutines, WorkerStart(g)
  PROVE  UNCHANGED Session!vars
<1>1. /\ workers \in [Goroutines -> Operation \cup {NoOp}] /\ workers[g] # NoOp /\ opCh = <<>>
      /\ UNCHANGED <<mode, iface, pendingNet, msg, msgErr, opCh>>
  BY DEF TypeInv, TypeOK, OneOperation, WorkerStart, modalVars
<1>2. PICK w \in Operation : workers' = [workers EXCEPT ![g] = w] /\ w.op = workers[g].op
  BY StartType
<1>3. /\ workers'[g] # NoOp /\ workers'[g].op = workers[g].op
      /\ \A h \in Goroutines \ {g} : workers'[h] = NoOp /\ workers[h] = NoOp
  BY <1>1, <1>2, ConstantsAssumption DEF OneOperation
<1>4. (CHOOSE h \in Goroutines : workers[h] # NoOp) = g
  BY <1>1, <1>3, TheWorker
<1>5. (CHOOSE h \in Goroutines : workers'[h] # NoOp) = g
  BY <1>3, TheWorker
<1>6. RunningOp' = RunningOp
  BY <1>1, <1>3, <1>4, <1>5 DEF RunningOp
<1> QED
  BY <1>1, <1>6 DEF Session!vars, Phase, JobNow, OutcomeNow, ReportNow

\* nmcli returns: the job has been performed.
LEMMA SessionWorkerFinish ==
  ASSUME TypeInv, OneOperation, NEW g \in Goroutines, WorkerFinish(g)
  PROVE  Session!Next
<1>1. /\ workers \in [Goroutines -> Operation \cup {NoOp}] /\ workers[g] # NoOp
      /\ opCh = <<>> /\ mode = "wifiBusy" /\ \A h \in Goroutines : workers[h] # NoOp => h = g
      /\ UNCHANGED <<mode, iface, pendingNet, msg, msgErr>>
  BY DEF TypeInv, TypeOK, OneOperation, WorkerFinish, modalVars
<1>2. RunningOp = workers[g].op
  <2>1. (CHOOSE h \in Goroutines : workers[h] # NoOp) = g
    BY <1>1, TheWorker
  <2> QED
    BY <1>1, <2>1 DEF RunningOp
<1>3. PICK r : opCh' = Append(opCh, r) /\ r.op = workers[g].op
  <2>1. CASE Send(OpResult(workers[g], TRUE, <<>>))
    BY <2>1 DEF Send, OpResult
  <2>2. ASSUME NEW nets, Send(OpResult(workers[g], FALSE, nets))
        PROVE  \E r : opCh' = Append(opCh, r) /\ r.op = workers[g].op
    BY <2>2 DEF Send, OpResult
  <2> QED
    BY <2>1, <2>2 DEF WorkerFinish
<1>4. opCh' # <<>> /\ opCh'[1] = r
  BY <1>1, <1>3
<1>5. RunningOp' = RunningOp
  BY <1>2, <1>3, <1>4 DEF RunningOp
<1>6. JobNow' = JobNow /\ JobNow.op = RunningOp
  BY <1>1, <1>5 DEF JobNow
<1>7. OutcomeNow = "none" /\ OutcomeNow' \in Session!Outcomes(JobNow)
  BY <1>1, <1>2, <1>3, <1>4, <1>6 DEF OutcomeNow, Session!Outcomes
<1>8. Session!Perform
  BY <1>1, <1>6, <1>7 DEF Session!Perform, Phase, ReportNow
<1> QED
  BY <1>8 DEF Session!Next

\* The result that is received is reported as what happened to the job.
LEMMA SessionReceiveResult ==
  ASSUME TypeInv, OneOperation, ReceiveResult
  PROVE  Session!Next
<1> DEFINE Result == [op : Ops, err : BOOLEAN, networks : Seq(Networks)]
<1>0. opCh \in Seq(Result) /\ opCh # <<>> /\ Len(opCh) = 1
  BY DEF TypeInv, TypeOK, OneOperation, ReceiveResult
<1> HIDE DEF Result
<1>1. opCh[1] = Head(opCh) /\ opCh' = <<>> /\ opCh[1] \in Result
  <2>1. opCh' \in Seq(Result) /\ Len(opCh') = 0
    BY <1>0, HeadTailType DEF ReceiveResult
  <2>2. Head(opCh) \in Result /\ opCh[1] = Head(opCh)
    BY <1>0, HeadTailType
  <2> QED
    BY <2>1, <2>2
<1>2. mode = "wifiBusy" /\ UNCHANGED <<iface, pendingNet>>
  BY <1>0 DEF ReceiveResult, HandleResult, OneOperation
<1>3. PICK r \in Result : r = opCh[1] /\ HandleResult(r)
  BY <1>1 DEF ReceiveResult
<1>4. /\ JobNow = [op    |-> r.op,
                   iface |-> IF r.op \in {"radio_on", "radio_off"} THEN NoIface ELSE iface,
                   net   |-> IF r.op = "connect" THEN pendingNet ELSE NoNet]
      /\ OutcomeNow = IF r.err THEN "err"
                      ELSE IF r.op = "scan" /\ r.networks = <<>> THEN "empty" ELSE "ok"
      /\ Phase = "running"
  BY <1>0, <1>2, <1>3 DEF JobNow, RunningOp, OutcomeNow, Phase
<1>5. mode' \in {"wifiResult", "wifiList"} /\ JobNow' = NoJob /\ OutcomeNow' = "none"
  BY <1>1, <1>3 DEF HandleResult, EnterResult, EnterList, SetList, JobNow, OutcomeNow
<1>6. CASE r.op = "scan" /\ ~r.err /\ r.networks # <<>>
  <2>1. mode' = "wifiList"
    BY <1>3, <1>6 DEF HandleResult, EnterList, SetList
  <2>2. Phase' = "menu" /\ ReportNow' = NoReport
    BY <2>1 DEF Phase, ReportNow
  <2> QED
    BY <1>4, <1>5, <1>6, <2>2 DEF Session!Next, Session!Report
<1>7. CASE ~(r.op = "scan" /\ ~r.err /\ r.networks # <<>>)
  <2>1. Phase' = "report" /\ ReportNow' = [op |-> msg'.op, ok |-> ~msgErr', iface |-> msg'.iface, net |-> msg'.net]
    BY <1>3, <1>7 DEF HandleResult, EnterResult, Phase, ReportNow
  <2>2. ReportNow' = Session!ReportOf(JobNow, OutcomeNow)
    BY <1>3, <1>4, <1>7, <2>1 DEF HandleResult, EnterResult, Session!ReportOf
  <2> QED
    BY <1>4, <1>5, <1>7, <2>1, <2>2 DEF Session!Next, Session!Report
<1> QED
  BY <1>6, <1>7

\* Every step of the dialog is a step of the session, or none.
LEMMA SessionNext == Inv /\ [Next]_vars => [Session!Next]_(Session!vars)
<1> SUFFICES ASSUME Inv, [Next]_vars PROVE [Session!Next]_(Session!vars)
  OBVIOUS
<1>0. TypeInv /\ OneOperation /\ CallFromDashboard /\ SelectionInv
  BY DEF Inv
<1>1. ASSUME NEW e \in Keys, User(e) PROVE [Session!Next]_(Session!vars)
  BY <1>0, <1>1, SessionModalKey, SessionUnchanged DEF User, Quit, OpenCall, modalVars, asyncVars
<1>2. CASE Resize \/ Tick \/ Exited \/ UNCHANGED vars
  BY <1>2, SessionUnchanged DEF Resize, Tick, Exited, vars, modalVars, asyncVars
<1>3. ASSUME NEW g \in Goroutines, WorkerStart(g) \/ WorkerFinish(g)
      PROVE  [Session!Next]_(Session!vars)
  BY <1>0, <1>3, SessionWorkerStart, SessionWorkerFinish
<1> QED
  BY <1>0, <1>1, <1>2, <1>3, SessionOpenReturn, SessionReceiveResult DEF Next

\* The dialog implements the abstract session: each confirmed action is
\* performed once, on the interface and network shown when it was confirmed,
\* and the panel tells the truth about it (wifi_ui.go:31-33, 339-390).
THEOREM SessionImplemented == Spec => ImplementsSession
<1> QED
  BY SessionInit, SessionNext, Invariance, PTL DEF Spec, ImplementsSession, Session!Spec
=============================================================================
