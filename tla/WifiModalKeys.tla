--------------------------- MODULE WifiModalKeys ---------------------------
(***************************************************************************)
(* The dialog with the key of the last step made visible, to state what    *)
(* the README's key table says of typing.  The program does not keep it:   *)
(* the run is expected to refute it.                                       *)
(***************************************************************************)
EXTENDS WifiModal

VARIABLE key  \* the key this step handled, "" when it handled none

keyVars == <<vars, key>>

KeyInit == Init /\ key = ""

KeyNext ==
  \/ \E e \in Keys : User(e) /\ key' = e
  \/ /\ \/ OpenReturn \/ Resize \/ Tick \/ ReceiveResult \/ Exited
        \/ \E g \in Goroutines : WorkerStart(g) \/ WorkerFinish(g)
     /\ key' = ""

KeySpec == KeyInit /\ [][KeyNext]_keyVars

\* README.md:205: "(typing) (in password screen) | Append to password".  A
\* typed '<' is taken for a bracketed event name and dropped.
TypingAppends ==
  [][mode = "wifiPassword" /\ key' \in Printable
       => password' = Append(password, key')]_keyVars
=============================================================================
