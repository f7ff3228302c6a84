------------------------------ MODULE ScanList ------------------------------
(***************************************************************************)
(* WifiScan (wifi.go:53-89): from the lines of nmcli's terse output to the *)
(* list of networks, one row per SSID.  Lines are split rune by rune, as   *)
(* splitNmcliLine does (wifi.go:136-161).  Which access points nmcli lists *)
(* and in which order is the environment's choice; a line may be something *)
(* else, such as a warning, because the output includes stderr.            *)
(* A definition marked "Slip" is a plausible mistake in the code of the    *)
(* definition that follows it; it takes no part in Next.                   *)
(***************************************************************************)
EXTENDS Integers, Sequences, FiniteSets, Listing

CONSTANTS
  Runes,         \* characters
  AccessPoints,  \* access points in range
  Noise,         \* lines that are not about an access point
  MaxListed      \* bound: access points in a list

\* A field is a sequence of runes; a signal has one digit.
Text   == Seq(Runes)
Digits == <<"0", "1", "2">>
AccessPoint == [inUse : BOOLEAN, ssid : Text, signal : DOMAIN Digits, security : Text]

\* A line that is not about an access point has two colons at most.
ASSUME ScanListAssumption ==
  /\ {":", "\\", "*", " ", "0", "1", "2"} \subseteq Runes
  /\ MaxListed \in Nat /\ AccessPoints \subseteq AccessPoint /\ Noise \subseteq Text
  /\ \A l \in Noise : \A i, j, k \in DOMAIN l :
       l[i] = ":" /\ l[j] = ":" /\ l[k] = ":" => ~(i < j /\ j < k)

VARIABLES
  listed,           \* the access points listed, in nmcli's order
  lines,            \* its output, from the line to be read next
  stage,            \* where WifiScan stands
  line,             \* the rest of the line being split
  parts, cur, esc,  \* of splitNmcliLine
  seen, nets        \* of WifiScan

splitVars == <<line, parts, cur, esc>>
listVars  == <<seen, nets>>
vars == <<listed, lines, stage, splitVars, listVars>>
-----------------------------------------------------------------------------
(* nmcli *)

\* A backslash goes before each colon and backslash of a field; Rests(field)[k]
\* is what becomes of it from its k-th rune on.
Quote(r) == IF r \in {":", "\\"} THEN <<"\\", r>> ELSE <<r>>
Rests(field) ==
  LET from[k \in 1..(Len(field) + 1)] ==
        IF k > Len(field) THEN <<>> ELSE Quote(field[k]) \o from[k + 1]
  IN  from
Escaped(field) == Rests(field)[1]

Fields(ap) == <<IF ap.inUse THEN <<"*">> ELSE <<" ">>, ap.ssid, <<Digits[ap.signal]>>, ap.security>>

Line(ap) == LET f == Fields(ap)
            IN  Escaped(f[1]) \o (<<":">> \o (Escaped(f[2]) \o (<<":">>
                \o (Escaped(f[3]) \o (<<":">> \o Escaped(f[4]))))))
-----------------------------------------------------------------------------
(* WifiScan *)

\* The command failed: no list.
ScanFails ==
  /\ stage = "exec" /\ stage' = "failed"
  /\ UNCHANGED <<listed, lines, splitVars, listVars>>

ScanReturns ==
  /\ stage = "exec" /\ stage' = "next"
  /\ UNCHANGED <<listed, lines, splitVars, listVars>>

ReadLine ==
  /\ stage = "next" /\ lines # <<>>
  /\ stage' = "split" /\ line' = Head(lines) /\ lines' = Tail(lines)
  /\ parts' = <<>> /\ cur' = <<>> /\ esc' = FALSE
  /\ UNCHANGED <<listed, listVars>>

\* Slip: an escape stays on.
RuneStaysEscaped(r) ==
  IF esc THEN cur' = Append(cur, r) /\ UNCHANGED <<parts, esc>>
  ELSE IF r = "\\" THEN esc' = TRUE /\ UNCHANGED <<parts, cur>>
  ELSE /\ IF r = ":" THEN parts' = Append(parts, cur) /\ cur' = <<>>
                     ELSE cur' = Append(cur, r) /\ UNCHANGED parts
       /\ UNCHANGED esc

Rune(r) ==
  IF esc THEN cur' = Append(cur, r) /\ esc' = FALSE /\ UNCHANGED parts
  ELSE IF r = "\\" THEN esc' = TRUE /\ UNCHANGED <<parts, cur>>
  ELSE /\ IF r = ":" THEN parts' = Append(parts, cur) /\ cur' = <<>>
                     ELSE cur' = Append(cur, r) /\ UNCHANGED parts
       /\ UNCHANGED esc

splitNmcliLine ==
  /\ stage = "split" /\ line # <<>>
  /\ Rune(Head(line)) /\ line' = Tail(line)
  /\ UNCHANGED <<listed, lines, stage, listVars>>

Split == Append(parts, cur)

\* strconv.Atoi of a one-digit field.
Atoi(f) == CHOOSE d \in DOMAIN Digits : f = <<Digits[d]>>

\* Slip: a later line of the same network replaces the row.
KeepLast(row) ==
  /\ seen' = seen \cup {row.ssid}
  /\ nets' = Append(SelectSeq(nets, LAMBDA r : r.ssid # row.ssid), row)

Keep(row) ==
  IF row.ssid \in seen
  THEN UNCHANGED listVars
  ELSE seen' = seen \cup {row.ssid} /\ nets' = Append(nets, row)

\* The line is split: lines with fewer than four fields, hidden networks and
\* networks that have a row already are skipped.
AddNetwork ==
  /\ stage = "split" /\ line = <<>> /\ stage' = "next"
  /\ IF Len(Split) < 4 \/ (Len(Split) >= 4 /\ Split[2] = <<>>)
     THEN UNCHANGED listVars
     ELSE Keep([inUse |-> Split[1] = <<"*">>, ssid |-> Split[2],
                signal |-> Atoi(Split[3]), security |-> Split[4]])
  /\ UNCHANGED <<listed, lines, splitVars>>

Stronger(a, b) == a.signal > b.signal

Sort ==
  /\ stage = "next" /\ lines = <<>> /\ stage' = "done"
  /\ nets' = StableSort(nets, [j \in DOMAIN nets |->
                               [k \in DOMAIN nets |-> Stronger(nets[j], nets[k])]])
  /\ UNCHANGED <<listed, lines, splitVars, seen>>

Returned == stage \in {"failed", "done"} /\ UNCHANGED vars
-----------------------------------------------------------------------------
Lists == UNION {[1..n -> AccessPoints] : n \in 0..MaxListed}

Init ==
  /\ listed \in Lists
  /\ \E before \in Noise \cup {<<>>} :
       lines = (IF before = <<>> THEN <<>> ELSE <<before>>)
               \o [k \in DOMAIN listed |-> Line(listed[k])]
  /\ stage = "exec" /\ line = <<>> /\ parts = <<>> /\ cur = <<>> /\ esc = FALSE
  /\ seen = {} /\ nets = <<>>

Next ==
  \/ ScanFails \/ ScanReturns \/ ReadLine \/ splitNmcliLine \/ AddNetwork \/ Sort \/ Returned

Spec == Init /\ [][Next]_vars
-----------------------------------------------------------------------------
(* Properties *)

\* splitNmcliLine undoes nmcli's escaping, whatever colons and backslashes an
\* SSID has: the fields of an access point's line come out as they were.
SplitInverts ==
  stage = "split" /\ line = <<>> =>
    LET k == Len(listed) - Len(lines)
    IN  \/ k >= 1 /\ Split = Fields(listed[k])
        \/ k = 0 /\ Len(Split) < 4

\* Each network with a name has one row, strongest first, and the row is that
\* of one of its access points - signal, security and mark belong together.
\* It is the strongest one, and the mark of the network in use is not lost
\* (README.md:214-215), if nmcli lists that access point before the others of
\* its network.
NetworksListed ==
  stage = "done" =>
    /\ {nets[k].ssid : k \in DOMAIN nets} = {listed[j].ssid : j \in DOMAIN listed} \ {<<>>}
    /\ \A j, k \in DOMAIN nets : j < k =>
         nets[j].ssid # nets[k].ssid /\ nets[j].signal >= nets[k].signal
    /\ \A k \in DOMAIN nets :
         LET own == {j \in DOMAIN listed : listed[j].ssid = nets[k].ssid}
             first == CHOOSE j \in own : \A i \in own : j <= i
         IN  /\ \E j \in own : nets[k] = listed[j]
             /\ listed[first].inUse => nets[k].inUse
             /\ (\A j \in own : listed[j].signal <= listed[first].signal) =>
                  \A j \in own : listed[j].signal <= nets[k].signal
=============================================================================
