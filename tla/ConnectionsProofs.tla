------------------------- MODULE ConnectionsProofs -------------------------
(***************************************************************************)
(* CollectConnections, proved for any sockets, listed in any order and     *)
(* number: the loop that filters a slice in place                          *)
(* (net_connections.go:47-61), and the rows that come of it.  The second   *)
(* part proves the safety of the resolver that gives the rows their names. *)
(***************************************************************************)
EXTENDS Connections, DnsResolver, ListingProofs

Parsed == {parseLine(s) : s \in {t \in Sockets : Named(t)}}

\* Nothing is filtered before both files are read.
NotBegun == i = 0 /\ n = 0 /\ seen = {} /\ conns = lines

\* FilterInPlace is not inductive: to skip an element is right only if the
\* remote that was seen is one that was kept.
Inv ==
  /\ open \subseteq Sockets /\ lines \in Seq(Parsed) /\ conns \in Seq(Parsed)
  /\ i \in Nat /\ n \in Nat
  /\ stage \in {"tcp", "tcp6"} => NotBegun
  /\ FilterInPlace
  /\ \A r \in seen : \E j \in 1..n : conns[j].remote = r

filterVars == <<lines, conns, i, n, seen>>
-----------------------------------------------------------------------------
\* The initial state satisfies the invariant.
LEMMA InitInv == Init => Inv
<1> SUFFICES ASSUME Init PROVE Inv
  OBVIOUS
<1>1. lines = <<>> /\ lines \in Seq(Parsed) /\ Len(lines) = 0
  BY EmptySeq DEF Init
<1> QED
  BY <1>1 DEF Init, Inv, FilterInPlace, NotBegun

Lists(file, order) == order \in Orders({s \in open : s.file = file /\ Named(s)})
Listed(order, p) == p = [k \in DOMAIN order |-> parseLine(order[k])]

\* What the kernel lists of a file is parsed line by line, and nothing is left out.
LEMMA OrderParsed ==
  ASSUME open \subseteq Sockets, NEW file, NEW order, Lists(file, order), NEW p, Listed(order, p)
  PROVE  /\ p \in Seq(Parsed)
         /\ \A s \in open : s.file = file /\ Named(s) =>
              \E k \in DOMAIN p : p[k] = parseLine(s)
<1> DEFINE T == {s \in open : s.file = file /\ Named(s)}
<1>1. IsFiniteSet(T) /\ T \subseteq Sockets /\ \A s \in T : Named(s)
  BY FS_Subset, ConnectionsAssumption
<1>2. /\ order \in [1..Cardinality(T) -> T]
      /\ \A a, b \in DOMAIN order : order[a] = order[b] => a = b
  BY DEF Lists, Orders
<1> HIDE DEF T
<1>3. order \in Seq(T) /\ \A s \in T : \E k \in DOMAIN order : order[k] = s
  BY <1>1, <1>2, Enumerates
<1>4. DOMAIN p = DOMAIN order /\ \A k \in DOMAIN p : p[k] = parseLine(order[k])
  BY DEF Listed
<1>5. p \in Seq(Parsed)
  <2>1. /\ Len(order) \in Nat /\ DOMAIN order = 1..Len(order)
        /\ \A k \in 1..Len(order) : order[k] \in T
    BY <1>3, LenProperties, ElementOfSeq
  <2>2. \A k \in 1..Len(order) : p[k] \in Parsed
    BY <1>1, <1>4, <2>1 DEF Parsed
  <2>3. p = [k \in 1..Len(order) |-> p[k]]
    BY <2>1 DEF Listed
  <2> QED
    BY <2>1, <2>2, <2>3
<1>6. \A s \in T : \E k \in DOMAIN p : p[k] = parseLine(s)
  BY <1>3, <1>4
<1> QED
  BY <1>5, <1>6 DEF T

\* A file adds parsed lines to the end.
LEMMA LinesRead ==
  ASSUME Inv, NEW file, NEW next, parseProcNet(file, next)
  PROVE  lines' \in Seq(Parsed)
<1>1. CASE UNCHANGED lines
  BY <1>1 DEF Inv
<1>2. ASSUME NEW order \in Orders({s \in open : s.file = file /\ Named(s)}),
             lines' = lines \o [k \in DOMAIN order |-> parseLine(order[k])]
      PROVE  lines' \in Seq(Parsed)
  <2>0. open \subseteq Sockets /\ Lists(file, order)
    BY <1>2 DEF Inv, Lists
  <2>1. PICK p : Listed(order, p)
    BY DEF Listed
  <2>2. p \in Seq(Parsed)
    BY <2>0, <2>1, OrderParsed
  <2> QED
    BY <1>2, <2>1, <2>2, ConcatProperties DEF Inv, Listed
<1> QED
  BY <1>1, <1>2 DEF parseProcNet

\* Reading a file leaves nothing filtered.
LEMMA ReadInv ==
  ASSUME Inv, NEW file \in {"tcp", "tcp6"}, NEW next, parseProcNet(file, next)
  PROVE  Inv'
<1>1. NotBegun
  BY DEF Inv, parseProcNet
<1>2. lines' \in Seq(Parsed) /\ conns' = lines' /\ Len(lines') \in Nat
  BY LinesRead, LenProperties DEF parseProcNet
<1>3. i' = 0 /\ n' = 0 /\ seen' = {} /\ open' = open
  BY <1>1 DEF parseProcNet, NotBegun
<1>4. FilterInPlace'
  BY <1>2, <1>3 DEF FilterInPlace
<1> QED
  BY <1>2, <1>3, <1>4 DEF Inv, NotBegun

\* A step that leaves the loop's variables alone keeps the invariant.
LEMMA FilterIdle ==
  ASSUME Inv, UNCHANGED filterVars, open' \subseteq Sockets,
         stage' \in {"tcp", "tcp6"} => stage \in {"tcp", "tcp6"}
  PROVE  Inv'
BY DEF Inv, filterVars, FilterInPlace, NotBegun, Shown

\* A round of the loop that keeps its element writes it at or before the place
\* where it was read.
LEMMA KeepInv ==
  ASSUME Inv, Visit, Shown(conns[i + 1]), conns[i + 1].remote \notin seen
  PROVE  FilterInPlace' /\ conns' \in Seq(Parsed)
         /\ \A r \in seen' : \E j \in 1..n' : conns'[j].remote = r
<1> DEFINE c == conns[i + 1]
<1>0. /\ i \in Nat /\ n \in Nat /\ lines \in Seq(Parsed) /\ conns \in Seq(Parsed)
      /\ Len(lines) \in Nat /\ Len(conns) = Len(lines)
      /\ n <= i /\ i < Len(lines)
      /\ i' = i + 1 /\ n' = n + 1 /\ lines' = lines
      /\ seen' = seen \cup {c.remote} /\ conns' = [conns EXCEPT ![n + 1] = c]
  BY LenProperties DEF Inv, FilterInPlace, Visit, AppendOut
<1>1. /\ \A k \in i + 1 .. Len(lines) : conns[k] = lines[k]
      /\ \A k \in 1..n : Shown(conns[k]) /\ conns[k].remote \in seen
      /\ \A j, k \in 1..n : conns[j].remote = conns[k].remote => j = k
      /\ \A k \in 1..i : Shown(lines[k]) => \E j \in 1..n : conns[j].remote = lines[k].remote
      /\ \A r \in seen : \E j \in 1..n : conns[j].remote = r
  BY DEF Inv, FilterInPlace
<1>2. i + 1 \in 1..Len(conns) /\ n + 1 \in 1..Len(conns) /\ c \in Parsed /\ c = lines[i + 1]
  BY <1>0, <1>1, ElementOfSeq
<1> HIDE DEF c
<1>3. /\ conns' \in Seq(Parsed) /\ Len(conns') = Len(lines)
      /\ \A j \in 1..Len(conns) : conns'[j] = IF j = n + 1 THEN c ELSE conns[j]
  BY <1>0, <1>2, ExceptSeq
<1>4. \A j \in 1..n : conns'[j] = conns[j]
  BY <1>0, <1>3
<1>5. conns'[n + 1] = c
  BY <1>2, <1>3
<1>6. \A k \in i + 2 .. Len(lines) : conns'[k] = lines[k]
  BY <1>0, <1>1, <1>3
<1>7. n' \in Nat /\ 1..n' = 1..n \cup {n + 1} /\ 1..i' = 1..i \cup {i + 1}
  BY <1>0
<1>8. Shown(c) /\ c.remote \notin seen
  BY DEF c
<1>9. \A k \in 1..n' : Shown(conns'[k]) /\ conns'[k].remote \in seen'
  BY <1>0, <1>1, <1>4, <1>5, <1>7, <1>8
<1>10. \A j, k \in 1..n' : conns'[j].remote = conns'[k].remote => j = k
  BY <1>1, <1>4, <1>5, <1>7, <1>8
<1>11. \A k \in 1..i' : Shown(lines[k]) => \E j \in 1..n' : conns'[j].remote = lines[k].remote
  BY <1>1, <1>2, <1>4, <1>5, <1>7
<1>12. \A r \in seen' : \E j \in 1..n' : conns'[j].remote = r
  <2> SUFFICES ASSUME NEW r \in seen' PROVE \E j \in 1..n' : conns'[j].remote = r
    OBVIOUS
  <2>1. CASE r = c.remote
    BY <1>5, <1>7, <2>1
  <2>2. CASE r \in seen
    <3>1. PICK j \in 1..n : conns[j].remote = r
      BY <1>1, <2>2
    <3> QED
      BY <1>4, <1>7, <3>1
  <2> QED
    BY <1>0, <2>1, <2>2
<1>13. n' <= i' /\ i' <= Len(lines') /\ Len(conns') = Len(lines')
       /\ \A k \in i' + 1 .. Len(lines') : conns'[k] = lines'[k]
  BY <1>0, <1>3, <1>6
<1>14. \A k \in 1..i' : Shown(lines'[k]) => \E j \in 1..n' : conns'[j].remote = lines'[k].remote
  BY <1>0, <1>11
<1>15. FilterInPlace'
  BY <1>9, <1>10, <1>13, <1>14 DEF FilterInPlace
<1> QED
  BY <1>3, <1>12, <1>15

\* A round that skips its element loses nothing.
LEMMA SkipInv ==
  ASSUME Inv, Visit, ~(Shown(conns[i + 1]) /\ conns[i + 1].remote \notin seen)
  PROVE  FilterInPlace' /\ conns' \in Seq(Parsed)
         /\ \A r \in seen' : \E j \in 1..n' : conns'[j].remote = r
<1>0. /\ i \in Nat /\ n \in Nat /\ Len(lines) \in Nat /\ Len(conns) = Len(lines)
      /\ n <= i /\ i < Len(lines) /\ i' = i + 1
      /\ lines' = lines /\ seen' = seen /\ conns' = conns /\ n' = n
  BY LenProperties DEF Inv, FilterInPlace, Visit
<1>1. /\ \A k \in i + 1 .. Len(lines) : conns[k] = lines[k]
      /\ \A k \in 1..i : Shown(lines[k]) => \E j \in 1..n : conns[j].remote = lines[k].remote
      /\ \A r \in seen : \E j \in 1..n : conns[j].remote = r
  BY DEF Inv, FilterInPlace
<1>2. conns[i + 1] = lines[i + 1]
  BY <1>0, <1>1
<1>3. Shown(lines[i + 1]) => \E j \in 1..n : conns[j].remote = lines[i + 1].remote
  BY <1>1, <1>2
<1>4. \A k \in 1..i' : Shown(lines[k]) => \E j \in 1..n : conns[j].remote = lines[k].remote
  BY <1>0, <1>1, <1>3
<1>5. \A k \in i' + 1 .. Len(lines) : conns[k] = lines[k]
  BY <1>0, <1>1
<1>6. n' <= i' /\ i' <= Len(lines')
  BY <1>0
<1>7. FilterInPlace'
  BY <1>0, <1>4, <1>5, <1>6 DEF Inv, FilterInPlace, Shown
<1> QED
  BY <1>0, <1>1, <1>7 DEF Inv

\* A round of the loop keeps the invariant.
LEMMA VisitInv ==
  ASSUME Inv, Visit
  PROVE  Inv'
<1>1. /\ open' \subseteq Sockets /\ lines' \in Seq(Parsed) /\ i' \in Nat /\ n' \in Nat
      /\ stage' \notin {"tcp", "tcp6"}
  BY DEF Inv, Visit, kernelVars
<1>2. FilterInPlace' /\ conns' \in Seq(Parsed)
      /\ \A r \in seen' : \E j \in 1..n' : conns'[j].remote = r
  BY KeepInv, SkipInv
<1> QED
  BY <1>1, <1>2 DEF Inv

\* Every step keeps the invariant.
LEMMA NextInv == Inv /\ [Next]_vars => Inv'
<1> SUFFICES ASSUME Inv, [Next]_vars PROVE Inv'
  OBVIOUS
<1>1. CASE OpenSocket
  BY <1>1, FilterIdle DEF OpenSocket, Changed, filterVars, Inv
<1>2. CASE CloseSocket
  BY <1>2, FilterIdle DEF CloseSocket, Changed, filterVars, Inv
<1>3. CASE parseProcNet("tcp", "tcp6")
  BY <1>3, ReadInv
<1>4. CASE parseProcNet("tcp6", "loop")
  BY <1>4, ReadInv
<1>5. CASE Visit
  BY <1>5, VisitInv
<1>6. CASE Sort
  BY <1>6, FilterIdle DEF Sort, filterVars, kernelVars, Inv
<1>7. CASE Returned \/ UNCHANGED vars
  BY <1>7, FilterIdle DEF Returned, vars, filterVars, kernelVars, Inv
<1> QED
  BY <1>1, <1>2, <1>3, <1>4, <1>5, <1>6, <1>7 DEF Next
-----------------------------------------------------------------------------
(* Addresses *)

\* Reversing the bytes of each word undoes what the kernel's print does to them.
LEMMA Bytes4 ==
  ASSUME NEW ip \in IP4
  PROVE  parseHexIPv4(KernelHex(ip)) = ip
<1>1. DOMAIN ip = 1..4
  BY DEF IP4
<1>2. \A k \in 1..4 : /\ 5 - k \in 1..4 /\ ((5 - k) - 1) \div 4 = 0
                      /\ 8 * 0 + 5 - (5 - k) = k
  OBVIOUS
<1>3. \A k \in 1..4 : KernelHex(ip)[5 - k] = ip[k]
  BY <1>1, <1>2 DEF KernelHex
<1> QED
  BY <1>3 DEF parseHexIPv4, IP4

LEMMA Bytes16 ==
  ASSUME NEW ip \in IP16
  PROVE  parseHexIPv6(KernelHex(ip)) = ip
<1> DEFINE at(k) == 4 * ((k - 1) \div 4) + 4 - ((k - 1) % 4)
<1>1. DOMAIN ip = 1..16
  BY DEF IP16
<1>2. \A k \in 1..16 : at(k) \in 1..16 /\ 8 * ((at(k) - 1) \div 4) + 5 - at(k) = k
  OBVIOUS
<1> HIDE DEF at
<1>3. \A k \in 1..16 : KernelHex(ip)[at(k)] = ip[k]
  BY <1>1, <1>2 DEF KernelHex
<1>4. parseHexIPv6(KernelHex(ip)) = [k \in 1..16 |-> KernelHex(ip)[at(k)]]
  BY DEF parseHexIPv6, at
<1> QED
  BY <1>3, <1>4 DEF IP16

LEMMA AddressLength ==
  /\ \A ip \in IP4 : ip \in Seq(Byte) /\ Len(ip) = 4 /\ DOMAIN ip = 1..4 /\ ~IsMapped(ip)
  /\ \A ip \in IP16 : ip \in Seq(Byte) /\ Len(ip) = 16 /\ DOMAIN ip = 1..16
<1>1. ASSUME NEW m \in Nat, NEW ip \in [1..m -> Byte] PROVE ip \in Seq(Byte) /\ Len(ip) = m
  OBVIOUS
<1>2. 16 \in 1..16 /\ 16 \notin 1..4
  OBVIOUS
<1> QED
  BY <1>1, <1>2 DEF IP4, IP16, IsMapped

LEMMA To4IsPlain ==
  ASSUME NEW ip \in IP4 \cup IP16
  PROVE  /\ To4(ip) = Plain(ip) /\ To4(ip) \in IP4 \cup IP16
         /\ Len(To4(ip)) \in {4, 16} /\ DOMAIN To4(ip) = 1..Len(To4(ip))
<1>0. ASSUME NEW a \in IP4, NEW b \in IP4, \A k \in 1..4 : a[k] = b[k]
      PROVE  a = b
  BY <1>0 DEF IP4
<1>1. CASE IsMapped(ip)
  <2>1. ip \in Seq(Byte) /\ Len(ip) = 16 /\ \A k \in 1..16 : ip[k] \in Byte
    BY <1>1, AddressLength DEF IP16
  <2>2. 13 \in 1..17 /\ 16 \in 12..16 /\ 16 - 13 + 1 = 4
    OBVIOUS
  <2> PICK s, t : s = SubSeq(ip, 13, 16) /\ t = <<ip[13], ip[14], ip[15], ip[16]>>
    OBVIOUS
  <2>3. /\ s \in Seq(Byte) /\ Len(s) = 4 /\ \A k \in 1..4 : s[k] = ip[13 + k - 1]
    BY <2>1, <2>2, SubSeqProperties
  <2>4. DOMAIN s = 1..4 /\ s[1] = ip[13] /\ s[2] = ip[14] /\ s[3] = ip[15] /\ s[4] = ip[16]
    BY <2>3, LenProperties
  <2>5. t \in IP4 /\ t[1] = ip[13] /\ t[2] = ip[14] /\ t[3] = ip[15] /\ t[4] = ip[16]
    BY <2>1 DEF IP4
  <2>6. s \in IP4
    BY <2>1, <2>4, <2>3, LenProperties DEF IP4
  <2>7. s = t
    <3>1. \A k \in 1..4 : k = 1 \/ k = 2 \/ k = 3 \/ k = 4
      OBVIOUS
    <3>2. \A k \in 1..4 : s[k] = t[k]
      BY <2>4, <2>5, <3>1
    <3> QED
      BY <1>0, <2>5, <2>6, <3>2
  <2> QED
    BY <1>1, <2>5, <2>7, AddressLength DEF To4, Plain
<1>2. CASE ~IsMapped(ip)
  BY <1>2, AddressLength DEF To4, Plain
<1> QED
  BY <1>1, <1>2

\* What the loop asks of an address is whether it is of another host, and on
\* which side of a router.
LEMMA ClassOf ==
  ASSUME NEW ip \in IP4 \cup IP16
  PROVE  /\ IsLoopback(ip) \/ IsUnspecified(ip) <=> NoRemote(ip)
         /\ IsLinkLocalUnicast(ip) <=> OnLink(ip)
<1> PICK a : a = To4(ip)
  OBVIOUS
<1>1. /\ a = Plain(ip) /\ a \in IP4 \cup IP16 /\ Len(a) \in {4, 16} /\ DOMAIN a = 1..Len(a)
  BY To4IsPlain
<1>2. CASE Len(a) = 4
  BY <1>1, <1>2 DEF IsLoopback, IsUnspecified, IsLinkLocalUnicast, NoRemote, OnLink, Zeros
<1>3. CASE Len(a) = 16
  <2>1. a[2] \in Byte
    BY <1>1, <1>3 DEF IP4, IP16
  <2>2. a[2] \div 64 = 2 <=> a[2] \in 128..191
    BY <2>1 DEF Byte
  <2> QED
    BY <1>1, <1>3, <2>2 DEF IsLoopback, IsUnspecified, IsLinkLocalUnicast, NoRemote, OnLink, Zeros
<1> QED
  BY <1>1, <1>2, <1>3

\* A line, parsed, tells the truth about its socket.
LEMMA ParsedLine ==
  ASSUME NEW s \in Sockets
  PROVE  parseLine(s) = [state |-> s.state, ip |-> s.ip, sock |-> s,
                         remote |-> [ip |-> Plain(s.ip), port |-> s.port]]
<1>1. s \in Socket
  BY ConnectionsAssumption
<1>2. \/ s.file = "tcp" /\ s.ip \in IP4
      \/ s.file = "tcp6" /\ s.ip \in IP16
  BY <1>1 DEF Socket
<1>3. (IF s.file = "tcp" THEN parseHexIPv4(KernelHex(s.ip)) ELSE parseHexIPv6(KernelHex(s.ip))) = s.ip
  BY <1>2, Bytes4, Bytes16
<1>4. To4(s.ip) = Plain(s.ip)
  BY <1>2, To4IsPlain
<1> QED
  BY <1>3, <1>4 DEF parseLine, formatEndpoint

LEMMA ParsedType ==
  ASSUME NEW c \in Parsed
  PROVE  /\ c \in Conn /\ c.sock \in Sockets /\ c = parseLine(c.sock)
         /\ c.remote = [ip |-> Plain(c.sock.ip), port |-> c.sock.port]
         /\ Shown(c) <=> Routed(c.sock)
<1> PICK s \in Sockets : Named(s) /\ c = parseLine(s)
  BY DEF Parsed
<1>1. s \in Socket /\ s.ip \in IP4 \cup IP16 /\ s.port \in Nat /\ s.state \in States
  BY ConnectionsAssumption DEF Socket, Named
<1>2. Plain(s.ip) \in IP4 \cup IP16
  BY <1>1, To4IsPlain
<1>3. /\ c.sock = s /\ c.ip = s.ip /\ c.state = s.state
      /\ c.remote = [ip |-> Plain(s.ip), port |-> s.port]
  BY ParsedLine
<1>4. c \in Conn
  BY <1>1, <1>2, ParsedLine DEF Conn
<1>5. Shown(c) <=> s.state = "ESTAB" /\ ~NoRemote(s.ip) /\ ~OnLink(s.ip)
  BY <1>1, <1>3, ClassOf DEF Shown
<1> QED
  BY <1>2, <1>3, <1>4, <1>5, ConnectionsAssumption DEF Routed
-----------------------------------------------------------------------------
(* The rows *)

\* A socket that stays is in the lines once its file was read.
StayedInv ==
  /\ stayed \subseteq open
  /\ \A s \in stayed : /\ Named(s)
                       /\ \/ s.file = "tcp" /\ stage # "tcp"
                          \/ s.file = "tcp6" /\ stage \in {"loop", "done"}
                       => \E k \in DOMAIN lines : lines[k] = parseLine(s)

\* The rows are what the loop has kept, in order.
RowsInv ==
  /\ stage # "done" => rows = <<>>
  /\ stage = "done" =>
       /\ i = Len(lines)
       /\ \A k \in DOMAIN rows : \E j \in 1..n : rows[k] = conns[j]
       /\ \A j \in 1..n : \E k \in DOMAIN rows : rows[k] = conns[j]
       /\ \A j, k \in DOMAIN rows : j < k => RemoteBefore(rows[j], rows[k]) /\ rows[j].remote # rows[k].remote

CallInv ==
  /\ Inv /\ StayedInv /\ RowsInv
  /\ changes \in 0..MaxChanges /\ stage \in {"tcp", "tcp6", "loop", "done"}
  /\ rows \in Seq(Parsed)

\* The kept remotes have an order.
LEMMA RemotesOrdered ==
  /\ \A c, d \in Parsed : Shown(c) /\ Shown(d) /\ c.remote # d.remote =>
       RemoteBefore(c, d) \/ RemoteBefore(d, c)
  /\ \A c, d, e : RemoteBefore(c, d) /\ RemoteBefore(d, e) => RemoteBefore(c, e)
  /\ \A c, d : RemoteBefore(c, d) => c.remote # d.remote
<1> DEFINE D == DOMAIN RemoteOrder
<1>1. D \subseteq Nat /\ \A j, k \in D : RemoteOrder[j] = RemoteOrder[k] => j = k
  BY ConnectionsAssumption
<1>2. ASSUME NEW c \in Parsed, Shown(c) PROVE \E k \in D : RemoteOrder[k] = c.remote
  <2>1. /\ c.sock \in Sockets /\ c.sock.peer # ""
        /\ c.remote = [ip |-> Plain(c.sock.ip), port |-> c.sock.port]
    BY <1>2, ParsedType DEF Routed
  <2>2. \A s \in Sockets : s.peer # "" =>
          \E k \in DOMAIN RemoteOrder : RemoteOrder[k] = [ip |-> Plain(s.ip), port |-> s.port]
    BY ConnectionsAssumption
  <2> QED
    BY <2>1, <2>2
<1> HIDE DEF D
<1>3. ASSUME NEW c \in Parsed, NEW d \in Parsed, Shown(c), Shown(d), c.remote # d.remote
      PROVE  RemoteBefore(c, d) \/ RemoteBefore(d, c)
  <2>1. PICK a \in D, b \in D : RemoteOrder[a] = c.remote /\ RemoteOrder[b] = d.remote
    BY <1>2, <1>3
  <2>2. a \in Nat /\ b \in Nat /\ a # b
    BY <1>1, <1>3, <2>1
  <2>3. a < b \/ b < a
    BY <2>2
  <2> QED
    BY <2>1, <2>3 DEF RemoteBefore, D
<1>4. ASSUME NEW c, NEW d, NEW e, RemoteBefore(c, d), RemoteBefore(d, e)
      PROVE  RemoteBefore(c, e)
  <2>1. PICK a \in D, b \in D : a < b /\ RemoteOrder[a] = c.remote /\ RemoteOrder[b] = d.remote
    BY <1>4 DEF RemoteBefore, D
  <2>2. PICK b2 \in D, f \in D : b2 < f /\ RemoteOrder[b2] = d.remote /\ RemoteOrder[f] = e.remote
    BY <1>4 DEF RemoteBefore, D
  <2>3. b = b2 /\ a \in Nat /\ b \in Nat /\ f \in Nat
    BY <1>1, <2>1, <2>2
  <2>4. a < f
    BY <2>1, <2>2, <2>3
  <2> QED
    BY <2>1, <2>2, <2>4 DEF RemoteBefore, D
<1>5. ASSUME NEW c, NEW d, RemoteBefore(c, d) PROVE c.remote # d.remote
  <2>1. PICK a \in D, b \in D : a < b /\ RemoteOrder[a] = c.remote /\ RemoteOrder[b] = d.remote
    BY <1>5 DEF RemoteBefore, D
  <2>2. a \in Nat /\ b \in Nat /\ a # b
    BY <1>1, <2>1
  <2> QED
    BY <1>1, <2>1, <2>2
<1> QED
  BY <1>3, <1>4, <1>5

LEMMA CallInit == Init => CallInv
<1> SUFFICES ASSUME Init PROVE CallInv
  OBVIOUS
<1>1. Inv
  BY InitInv
<1>2. StayedInv /\ RowsInv
  BY DEF Init, StayedInv, RowsInv
<1>3. rows \in Seq(Parsed) /\ changes \in 0..MaxChanges
  <2>1. MaxChanges \in Nat /\ rows = <<>> /\ changes = 0
    BY ConnectionsAssumption DEF Init
  <2> QED
    BY <2>1, EmptySeq
<1> QED
  BY <1>1, <1>2, <1>3 DEF CallInv, Init

\* All that the kernel listed of a file is in the lines.
LEMMA ReadCall ==
  ASSUME CallInv, NEW file \in {"tcp", "tcp6"}, NEW next, parseProcNet(file, next),
         <<file, next>> \in {<<"tcp", "tcp6">>, <<"tcp6", "loop">>}
  PROVE  CallInv'
<1>0. open \subseteq Sockets
  BY DEF CallInv, Inv
<1>1. Inv' /\ stage = file /\ stage' = next
  BY ReadInv DEF CallInv, parseProcNet
<1>2. rows' = rows /\ open' = open /\ changes' = changes /\ stayed' \subseteq stayed
  BY DEF parseProcNet
<1>3. ASSUME NEW k \in DOMAIN lines
      PROVE  k \in DOMAIN lines' /\ lines'[k] = lines[k]
  <2>1. CASE UNCHANGED lines
    BY <2>1
  <2>2. ASSUME NEW order, lines' = lines \o order, order \in Seq(Parsed)
        PROVE  k \in DOMAIN lines' /\ lines'[k] = lines[k]
    BY <2>2, ConcatProperties, LenProperties DEF CallInv, Inv
  <2>3. ASSUME NEW order \in Orders({s \in open : s.file = file /\ Named(s)}),
               lines' = lines \o [k2 \in DOMAIN order |-> parseLine(order[k2])]
        PROVE  k \in DOMAIN lines' /\ lines'[k] = lines[k]
    <3>1. PICK p : Listed(order, p)
      BY DEF Listed
    <3>2. Lists(file, order)
      BY <2>3 DEF Lists
    <3>3. p \in Seq(Parsed)
      BY <1>0, <3>1, <3>2, OrderParsed
    <3>4. lines' = lines \o p
      BY <2>3, <3>1 DEF Listed
    <3> QED
      BY <2>2, <3>3, <3>4
  <2> QED
    BY <2>1, <2>3 DEF parseProcNet
<1>4. ASSUME NEW x \in stayed', Named(x), x.file = file
      PROVE  \E k \in DOMAIN lines' : lines'[k] = parseLine(x)
  <2>1. PICK order : /\ Lists(file, order)
                     /\ lines' = lines \o [k \in DOMAIN order |-> parseLine(order[k])]
    BY <1>4 DEF parseProcNet, Lists
  <2>0. PICK p : Listed(order, p)
    BY DEF Listed
  <2>2. x \in open /\ x.file = file /\ Named(x)
    BY <1>2, <1>4 DEF CallInv, StayedInv
  <2>3. p \in Seq(Parsed) /\ \E k \in DOMAIN p : p[k] = parseLine(x)
    BY <1>0, <2>0, <2>1, <2>2, OrderParsed
  <2>4. PICK k \in DOMAIN p : p[k] = parseLine(x)
    BY <2>3
  <2>5. /\ lines \in Seq(Parsed) /\ Len(lines) \in Nat /\ lines' = lines \o p
        /\ Len(p) \in Nat /\ k \in 1..Len(p)
    BY <2>0, <2>1, <2>3, <2>4, LenProperties DEF CallInv, Inv, Listed
  <2>6. /\ Len(lines') = Len(lines) + Len(p) /\ lines' \in Seq(Parsed)
        /\ lines'[Len(lines) + k] = p[(Len(lines) + k) - Len(lines)]
    BY <2>3, <2>5, ConcatProperties
  <2>7. Len(lines) + k \in DOMAIN lines' /\ (Len(lines) + k) - Len(lines) = k
    BY <2>5, <2>6, LenProperties
  <2> QED
    BY <2>4, <2>6, <2>7
<1>5. StayedInv'
  <2> SUFFICES ASSUME NEW s \in stayed', Named(s),
                      \/ s.file = "tcp" /\ next # "tcp"
                      \/ s.file = "tcp6" /\ next \in {"loop", "done"}
               PROVE  \E k \in DOMAIN lines' : lines'[k] = parseLine(s)
    BY <1>1, <1>2 DEF CallInv, StayedInv, parseLine, Named
  <2>1. CASE s.file = file
    BY <1>4, <2>1
  <2>2. CASE s.file # file
    <3>1. s.file = "tcp" /\ stage # "tcp" /\ s \in stayed
      BY <1>1, <1>2, <2>2
    <3> QED
      BY <1>3, <3>1 DEF CallInv, StayedInv
  <2> QED
    BY <2>1, <2>2
<1> QED
  BY <1>1, <1>2, <1>5 DEF CallInv, RowsInv

\* What was kept, sorted: each remote that was kept has a row, in order.
LEMMA SortCall ==
  ASSUME CallInv, Sort
  PROVE  CallInv'
<1> DEFINE less == [j \in 1..n |-> [k \in 1..n |-> RemoteBefore(conns[j], conns[k])]]
<1>1. /\ Inv' /\ i = Len(lines) /\ n \in Nat /\ n <= Len(conns)
      /\ stage = "loop" /\ stage' = "done"
      /\ UNCHANGED <<kernelVars, lines, conns, i, n, seen>>
  <2>1. Inv /\ Len(conns) = Len(lines) /\ n <= i /\ i = Len(conns)
    BY DEF CallInv, Inv, FilterInPlace, Sort
  <2>2. Inv'
    BY <2>1, FilterIdle DEF Sort, filterVars, kernelVars, Inv
  <2> QED
    BY <2>1, <2>2 DEF Sort, Inv
<1>2. /\ conns \in Seq(Parsed) /\ Len(conns) \in Nat
      /\ \A k \in 1..n : conns[k] \in Parsed /\ Shown(conns[k])
      /\ \A j, k \in 1..n : conns[j].remote = conns[k].remote => j = k
  BY <1>1, LenProperties, ElementOfSeq DEF CallInv, Inv, FilterInPlace
<1>0. PICK out : out = SubSeq(conns, 1, n)
  OBVIOUS
<1>3. out \in Seq(Parsed) /\ DOMAIN out = 1..n /\ \A k \in 1..n : out[k] = conns[k]
  <2>1. out \in Seq(Parsed) /\ Len(out) = n /\ \A k \in 1..n : out[k] = conns[k]
    <3>1. 1 \in 1..(Len(conns) + 1) /\ n \in 0..Len(conns)
          /\ (IF 1 <= n THEN n - 1 + 1 ELSE 0) = n /\ \A k \in 1..n : 1 + k - 1 = k
      BY <1>1, <1>2
    <3> QED
      BY <1>0, <1>1, <1>2, <3>1, SubSeqProperties
  <2> QED
    BY <2>1, LenProperties
<1>4. rows' = StableSort(out, less)
  <2>1. [j \in 1..n |-> [k \in 1..n |-> RemoteBefore(out[j], out[k])]] = less
    BY <1>3
  <2> QED
    BY <1>0, <2>1 DEF Sort
<1>5. \A j, k \in 1..n : less[j][k] <=> RemoteBefore(conns[j], conns[k])
  OBVIOUS
<1> HIDE DEF less
<1>6. \A j, k \in 1..n : j # k => RemoteBefore(conns[j], conns[k]) \/ RemoteBefore(conns[k], conns[j])
  BY <1>2, RemotesOrdered
<1>7. StrictWeakOrder(less, 1..n)
  <2>1. \A j \in 1..n : ~less[j][j]
    BY <1>5, RemotesOrdered
  <2>2. \A j, k, l \in 1..n : less[j][k] /\ less[k][l] => less[j][l]
    BY <1>5, RemotesOrdered
  <2>3. \A j, k, l \in 1..n : less[j][l] => less[j][k] \/ less[k][l]
    BY <1>5, <1>6, RemotesOrdered
  <2> QED
    BY <2>1, <2>2, <2>3 DEF StrictWeakOrder
<1>8. rows' \in Seq(Parsed) /\ DOMAIN rows' = 1..n
  BY <1>3, <1>4, <1>7, StableSorts
<1>9. PICK p : SortedBy(less, 1..n, p) /\ \A k \in 1..n : rows'[k] = conns[p[k]]
  <2>0. \E p : /\ SortedBy(less, DOMAIN out, p)
               /\ \A k \in DOMAIN out : StableSort(out, less)[k] = out[p[k]]
    <3>1. out \in Seq(Parsed) /\ StrictWeakOrder(less, DOMAIN out)
      BY <1>3, <1>7
    <3> QED
      BY <3>1, StableSorts
  <2>1. \E p : SortedBy(less, 1..n, p) /\ \A k \in 1..n : StableSort(out, less)[k] = out[p[k]]
    BY <1>3, <2>0
  <2>2. PICK p : SortedBy(less, 1..n, p) /\ \A k \in 1..n : StableSort(out, less)[k] = out[p[k]]
    BY <2>1
  <2>3. \A k \in 1..n : p[k] \in 1..n
    BY <2>2 DEF SortedBy
  <2> QED
    BY <1>3, <1>4, <2>2, <2>3
<1>10. /\ \A k \in 1..n : p[k] \in 1..n
       /\ \A j, k \in 1..n : j # k => p[j] # p[k]
       /\ \A j \in 1..n : \E k \in 1..n : p[k] = j
       /\ \A j, k \in 1..n : j < k => Earlier(less, p[j], p[k])
  BY <1>9 DEF SortedBy
<1>11. ASSUME NEW j \in 1..n, NEW k \in 1..n, j < k
       PROVE  RemoteBefore(rows'[j], rows'[k]) /\ rows'[j].remote # rows'[k].remote
  <2>1. j # k
    BY <1>1, <1>11
  <2>2. p[j] \in 1..n /\ p[k] \in 1..n /\ p[j] # p[k] /\ Earlier(less, p[j], p[k])
    BY <1>10, <1>11, <2>1
  <2>3. RemoteBefore(conns[p[j]], conns[p[k]])
    BY <1>5, <1>6, <2>2 DEF Earlier
  <2> QED
    BY <1>2, <1>9, <2>2, <2>3
<1>12. \A k \in 1..n : \E j \in 1..n : rows'[k] = conns[j]
  BY <1>9, <1>10
<1>13. ASSUME NEW j \in 1..n PROVE \E k \in 1..n : rows'[k] = conns[j]
  <2>1. PICK k \in 1..n : p[k] = j
    BY <1>10
  <2> QED
    BY <1>9, <2>1
<1>14. RowsInv'
  <2>1. \A j, k \in DOMAIN rows' : j < k =>
          RemoteBefore(rows'[j], rows'[k]) /\ rows'[j].remote # rows'[k].remote
    BY <1>8, <1>11
  <2>2. UNCHANGED <<conns, i, n, lines>> /\ stage' = "done"
    BY <1>1
  <2>3. \A k \in DOMAIN rows' : \E j \in 1..n' : rows'[k] = conns'[j]
    BY <1>8, <1>12, <2>2
  <2>4. \A j \in 1..n' : \E k \in DOMAIN rows' : rows'[k] = conns'[j]
    BY <1>8, <1>13, <2>2
  <2> QED
    BY <1>1, <2>1, <2>2, <2>3, <2>4 DEF RowsInv, RemoteBefore
<1>15. StayedInv'
  BY <1>1 DEF CallInv, StayedInv, kernelVars, Named, parseLine
<1> QED
  BY <1>1, <1>8, <1>14, <1>15 DEF CallInv, kernelVars

LEMMA CallNext == CallInv /\ [Next]_vars => CallInv'
<1> SUFFICES ASSUME CallInv, [Next]_vars PROVE CallInv'
  OBVIOUS
<1>0. Inv'
  BY NextInv DEF CallInv
<1>1. ASSUME \/ OpenSocket
             \/ CloseSocket
             \/ Visit
             \/ Returned \/ UNCHANGED vars
      PROVE  CallInv'
  <2>1. /\ stage' = stage /\ lines' = lines /\ rows' = rows
        /\ stayed' \subseteq stayed /\ stayed' \subseteq open'
        /\ changes' \in 0..MaxChanges
    <3>1. changes \in 0..MaxChanges /\ stayed \subseteq open /\ MaxChanges \in Nat
      BY ConnectionsAssumption DEF CallInv, StayedInv
    <3>2. CASE OpenSocket \/ CloseSocket
      BY <3>1, <3>2 DEF OpenSocket, CloseSocket, Changed
    <3>3. CASE Visit \/ Returned \/ UNCHANGED vars
      BY <3>1, <3>3 DEF Visit, Returned, vars, kernelVars
    <3> QED
      BY <1>1, <3>2, <3>3
  <2>2. StayedInv'
    BY <2>1 DEF CallInv, StayedInv, Named, parseLine
  <2>3. RowsInv'
    <3>1. CASE stage # "done"
      BY <2>1, <3>1 DEF CallInv, RowsInv
    <3>2. CASE stage = "done"
      <4>1. UNCHANGED <<i, n, conns>>
        BY <1>1, <3>2 DEF OpenSocket, CloseSocket, Changed, Visit, Returned, vars
      <4> QED
        BY <2>1, <4>1 DEF CallInv, RowsInv, RemoteBefore
    <3> QED
      BY <3>1, <3>2
  <2> QED
    BY <1>0, <2>1, <2>2, <2>3 DEF CallInv
<1>2. CASE parseProcNet("tcp", "tcp6")
  BY <1>2, ReadCall
<1>3. CASE parseProcNet("tcp6", "loop")
  BY <1>3, ReadCall
<1>4. CASE Sort
  BY <1>4, SortCall
<1> QED
  BY <1>1, <1>2, <1>3, <1>4 DEF Next


-----------------------------------------------------------------------------
\* The filter loses no connection and keeps none twice, although it writes
\* over the slice it reads (net_connections.go:47-61).
THEOREM FiltersInPlace == Spec => []FilterInPlace
<1>1. Inv => FilterInPlace
  BY DEF Inv
<1> QED
  BY <1>1, InitInv, NextInv, PTL DEF Spec

\* net_connections.go:14-20, 36-64: everything that is read is a connection
\* with a known state and an address of 4 or 16 bytes.
THEOREM TypeCorrect == Spec => []TypeOK
<1>1. CallInv => TypeOK
  <2> SUFFICES ASSUME CallInv PROVE TypeOK
    OBVIOUS
  <2>1. \A s \in Seq(Parsed) : s \in Seq(Conn)
    <3> SUFFICES ASSUME NEW s \in Seq(Parsed) PROVE s \in Seq(Conn)
      OBVIOUS
    <3>1. Parsed \subseteq Conn
      BY ParsedType
    <3>2. Len(s) \in Nat /\ s \in [1..Len(s) -> Parsed]
      BY LenProperties
    <3> QED
      BY <3>1, <3>2
  <2>2. ASSUME NEW r \in seen PROVE r \in [ip : IP4 \cup IP16, port : Nat]
    <3>1. PICK j \in 1..n : conns[j].remote = r
      BY DEF CallInv, Inv
    <3>2. conns[j] \in Conn
      <4>1. conns \in Seq(Parsed) /\ n \in Nat /\ n <= Len(conns) /\ Len(conns) \in Nat
        BY LenProperties DEF CallInv, Inv, FilterInPlace
      <4> QED
        BY <2>1, <4>1, ElementOfSeq
    <3> QED
      BY <3>1, <3>2 DEF Conn
  <2> QED
    BY <2>1, <2>2 DEF CallInv, Inv, StayedInv, TypeOK
<1> QED
  BY <1>1, CallInit, CallNext, PTL DEF Spec

\* net_connections.go:36-64: the rows are the other hosts that this one is
\* connected to beyond its links, each once and in one order, and none that
\* stays is missing.
THEOREM RowsTellRemotes == Spec => []RowsAreRemotes
<1>1. CallInv => RowsAreRemotes
  <2> SUFFICES ASSUME CallInv, stage = "done" PROVE RowsAreRemotes
    BY DEF RowsAreRemotes
  <2>1. /\ n \in Nat /\ n <= Len(conns) /\ conns \in Seq(Parsed) /\ Len(conns) \in Nat
        /\ lines \in Seq(Parsed) /\ i = Len(lines) /\ DOMAIN lines = 1..Len(lines)
        /\ \A k \in 1..n : Shown(conns[k])
        /\ \A k \in 1..i : Shown(lines[k]) => \E j \in 1..n : conns[j].remote = lines[k].remote
    BY LenProperties DEF CallInv, Inv, FilterInPlace, RowsInv
  <2>2. \A k \in 1..n : conns[k] \in Parsed
    BY <2>1, ElementOfSeq
  <2>3. /\ \A k \in DOMAIN rows : \E j \in 1..n : rows[k] = conns[j]
        /\ \A j \in 1..n : \E k \in DOMAIN rows : rows[k] = conns[j]
        /\ \A j, k \in DOMAIN rows : j < k =>
             RemoteBefore(rows[j], rows[k]) /\ rows[j].remote # rows[k].remote
    BY DEF CallInv, RowsInv
  <2>4. \A k \in DOMAIN rows : rows[k] \in Parsed /\ Shown(rows[k])
    BY <2>1, <2>2, <2>3
  <2>5. ASSUME NEW s \in stayed, Routed(s)
        PROVE  \E k \in DOMAIN rows : rows[k].sock.peer = s.peer /\ rows[k].sock.port = s.port
    <3>1. s \in Sockets /\ Named(s)
      BY <2>5, ConnectionsAssumption DEF CallInv, Inv, StayedInv, Routed, Named, States
    <3>2. s.file = "tcp" \/ s.file = "tcp6"
      BY <3>1, ConnectionsAssumption DEF Socket
    <3>3. PICK k \in DOMAIN lines : lines[k] = parseLine(s)
      BY <3>1, <3>2 DEF CallInv, StayedInv
    <3>4. parseLine(s) \in Parsed /\ parseLine(s).sock = s
      BY <3>1, ParsedLine DEF Parsed
    <3>5. Shown(lines[k]) /\ lines[k].remote = [ip |-> Plain(s.ip), port |-> s.port]
      BY <2>5, <3>3, <3>4, ParsedType
    <3>6. PICK j \in 1..n : conns[j].remote = [ip |-> Plain(s.ip), port |-> s.port]
      BY <2>1, <3>5
    <3>7. PICK l \in DOMAIN rows : rows[l] = conns[j]
      BY <2>3
    <3>8. PICK t : t = rows[l].sock
      OBVIOUS
    <3>9. /\ t \in Sockets /\ Routed(t)
          /\ [ip |-> Plain(t.ip), port |-> t.port] = [ip |-> Plain(s.ip), port |-> s.port]
      BY <2>4, <3>6, <3>7, <3>8, ParsedType
    <3>10. t.port = s.port /\ Plain(t.ip) = Plain(s.ip)
      BY <3>9
    <3>11. t.peer = s.peer
      BY <2>5, <3>1, <3>9, <3>10, ConnectionsAssumption
    <3> QED
      BY <3>8, <3>10, <3>11
  <2>6. \A k \in DOMAIN rows : Routed(rows[k].sock)
    BY <2>4, ParsedType
  <2>7. ASSUME NEW j \in DOMAIN rows, NEW k \in DOMAIN rows, j < k
        PROVE  rows[j].sock.peer # rows[k].sock.peer \/ rows[j].sock.port # rows[k].sock.port
    <3>1. PICK s, t : s = rows[j].sock /\ t = rows[k].sock
      OBVIOUS
    <3>0. /\ rows[j] \in Parsed /\ Shown(rows[j]) /\ rows[k] \in Parsed /\ Shown(rows[k])
          /\ rows[j].remote # rows[k].remote
      BY <2>3, <2>4, <2>7
    <3>2. /\ s \in Sockets /\ t \in Sockets /\ Routed(s) /\ Routed(t)
          /\ [ip |-> Plain(s.ip), port |-> s.port] # [ip |-> Plain(t.ip), port |-> t.port]
      BY <3>0, <3>1, ParsedType
    <3>3. s.port = t.port => Plain(s.ip) # Plain(t.ip)
      BY <3>2
    <3>4. s.peer = t.peer <=> Plain(s.ip) = Plain(t.ip)
      BY <3>2, ConnectionsAssumption
    <3> QED
      BY <3>1, <3>3, <3>4
  <2> QED
    BY <2>3, <2>5, <2>6, <2>7 DEF RowsAreRemotes
<1> QED
  BY <1>1, CallInit, CallNext, PTL DEF Spec
-----------------------------------------------------------------------------
(* ResolveAsync and its lookups (net_connections.go:168-208), for any        *)
(* addresses, names, TTL and number of goroutines.                           *)

\* A goroutine that is about to delete its entry has stored its answer.
StoredBeforeDelete ==
  \A g \in Goroutines : At(g, "delete") => dnsCache[lookups[g].addr] # None

DnsInv == DnsTypeOK /\ SingleLookup /\ StoredBeforeDelete

\* The initial state satisfies the invariant.
LEMMA DnsInitInv == DnsInit => DnsInv
BY DEF DnsInit, DnsInv, DnsTypeOK, SingleLookup, StoredBeforeDelete, At

\* A cache hit changes nothing but the answer.
LEMMA CacheHitInv ==
  ASSUME DnsInv, NEW a \in Addrs, CacheHit(a)
  PROVE  DnsInv'
<1>1. dnsCache[a] \in Entry
  BY DEF DnsInv, DnsTypeOK, CacheHit, Fresh
<1>2. answer' \in [addr : Addrs, name : Names \cup {NoName}]
  BY <1>1 DEF CacheHit, Entry
<1>3. DnsTypeOK'
  BY <1>2 DEF DnsInv, DnsTypeOK, CacheHit
<1> QED
  BY <1>3 DEF DnsInv, CacheHit, SingleLookup, StoredBeforeDelete, At

\* A miss is remembered, and nothing else changes.
LEMMA CacheMissInv ==
  ASSUME DnsInv, NEW a \in Addrs, CacheMiss(a)
  PROVE  DnsInv'
BY DEF DnsInv, CacheMiss, DnsTypeOK, SingleLookup, StoredBeforeDelete, At

\* A call that finds the address taken returns.
LEMMA AlreadyBusyInv ==
  ASSUME DnsInv, AlreadyBusy
  PROVE  DnsInv'
<1>1. missed \in Addrs
  BY DEF DnsInv, DnsTypeOK, AlreadyBusy
<1>2. DnsTypeOK'
  BY <1>1 DEF DnsInv, DnsTypeOK, AlreadyBusy, Return
<1> QED
  BY <1>2 DEF DnsInv, AlreadyBusy, SingleLookup, StoredBeforeDelete, At

\* A lookup is started for an address that nobody looks up.
LEMMA StartLookupInv ==
  ASSUME DnsInv, StartLookup
  PROVE  DnsInv'
<1>0. /\ missed \in Addrs /\ missed \notin dnsInProgress /\ DnsTypeOK /\ SingleLookup
      /\ lookups \in [Goroutines -> Lookup \cup {None}]
  BY DEF DnsInv, DnsTypeOK, StartLookup, Loaded
<1> DEFINE l == [addr |-> missed, stage |-> "lookup", name |-> NoName]
<1>1. PICK g \in Goroutines : lookups[g] = None /\ lookups' = [lookups EXCEPT ![g] = l]
  BY DEF StartLookup
<1>2. l \in Lookup /\ l.addr = missed /\ l.stage # "delete"
  BY <1>0 DEF Lookup
<1> HIDE DEF l
<1>3. l # None
  BY <1>2, ResolverAssumption
<1>4. lookups'[g] = l /\ \A h \in Goroutines \ {g} : lookups'[h] = lookups[h]
  BY <1>0, <1>1
<1>5. DnsTypeOK'
  BY <1>0, <1>1, <1>2 DEF DnsTypeOK, StartLookup, Return
<1>6. SingleLookup'
  <2>1. \A h \in Goroutines : lookups[h] # None => lookups[h].addr # missed
    BY <1>0 DEF SingleLookup
  <2>2. dnsInProgress' = dnsInProgress \cup {missed}
    BY DEF StartLookup
  <2>3. ASSUME NEW h \in Goroutines, NEW k \in Goroutines,
               lookups'[h] # None, lookups'[k] # None, lookups'[h].addr = lookups'[k].addr
        PROVE  h = k
    BY <1>0, <1>2, <1>4, <2>1, <2>3 DEF SingleLookup
  <2>4. ASSUME NEW a \in Addrs
        PROVE  a \in dnsInProgress' <=> \E h \in Goroutines : lookups'[h] # None /\ lookups'[h].addr = a
    <3>1. CASE a = missed
      BY <1>2, <1>3, <1>4, <2>2, <3>1
    <3>2. CASE a # missed
      <4>1. a \in dnsInProgress' <=> a \in dnsInProgress
        BY <2>2, <3>2
      <4>2. \A h \in Goroutines :
              lookups'[h] # None /\ lookups'[h].addr = a <=> lookups[h] # None /\ lookups[h].addr = a
        BY <1>1, <1>2, <1>4, <3>2
      <4> QED
        BY <1>0, <4>1, <4>2 DEF SingleLookup
    <3> QED
      BY <3>1, <3>2
  <2> QED
    BY <2>3, <2>4 DEF SingleLookup
<1>7. StoredBeforeDelete'
  BY <1>2, <1>4 DEF DnsInv, StoredBeforeDelete, At, StartLookup
<1> QED
  BY <1>5, <1>6, <1>7 DEF DnsInv

\* Lookups that go on with the same addresses stay single.
LEMMA SameAddresses ==
  ASSUME SingleLookup, UNCHANGED dnsInProgress,
         \A h \in Goroutines : lookups'[h] # None <=> lookups[h] # None,
         \A h \in Goroutines : lookups[h] # None => lookups'[h].addr = lookups[h].addr
  PROVE  SingleLookup'
<1>1. \A a \in Addrs : (\E h \in Goroutines : lookups'[h] # None /\ lookups'[h].addr = a)
                   <=> (\E h \in Goroutines : lookups[h] # None /\ lookups[h].addr = a)
  OBVIOUS
<1> QED
  BY <1>1 DEF SingleLookup

\* A lookup returns, for the address it was started for.
LEMMA LookupReturnsInv ==
  ASSUME DnsInv, NEW g \in Goroutines, LookupReturns(g)
  PROVE  DnsInv'
<1>0. /\ DnsTypeOK /\ lookups \in [Goroutines -> Lookup \cup {None}]
      /\ lookups[g] # None /\ lookups[g] \in Lookup
  BY DEF DnsInv, DnsTypeOK, LookupReturns, At
<1>1. PICK p \in Names \cup {NoName} :
        lookups' = [lookups EXCEPT ![g].stage = "store", ![g].name = p]
  <2>1. PICK f \in Names \cup {None} :
          lookups' = [lookups EXCEPT ![g].stage = "store", ![g].name = FirstName(f)]
    BY DEF LookupReturns
  <2>2. FirstName(f) \in Names \cup {NoName}
    BY DEF FirstName
  <2> QED
    BY <2>1, <2>2
<1> DEFINE l == [lookups[g] EXCEPT !.stage = "store", !.name = p]
<1>2. l \in Lookup /\ l.addr = lookups[g].addr /\ l.stage = "store"
  BY <1>0 DEF Lookup
<1>3. lookups' = [lookups EXCEPT ![g] = l]
  BY <1>0, <1>1 DEF Lookup
<1> HIDE DEF l
<1>4. l # None
  BY <1>2, ResolverAssumption
<1>5. DnsTypeOK'
  BY <1>0, <1>2, <1>3 DEF DnsTypeOK, LookupReturns
<1>6. \A h \in Goroutines : /\ lookups'[h] # None <=> lookups[h] # None
                            /\ lookups[h] # None => lookups'[h].addr = lookups[h].addr
                            /\ lookups'[h] # lookups[h] => lookups'[h].stage = "store"
  BY <1>0, <1>2, <1>3, <1>4
<1>7. SingleLookup'
  BY <1>6, SameAddresses DEF DnsInv, LookupReturns
<1>8. StoredBeforeDelete'
  <2> SUFFICES ASSUME NEW h \in Goroutines, At(h, "delete")'
               PROVE  dnsCache'[lookups'[h].addr] # None
    BY DEF StoredBeforeDelete
  <2>1. lookups'[h] = lookups[h] /\ dnsCache' = dnsCache
    BY <1>6 DEF At, LookupReturns
  <2> QED
    BY <2>1 DEF DnsInv, StoredBeforeDelete, At
<1> QED
  BY <1>5, <1>7, <1>8 DEF DnsInv

\* The answer goes into the cache, of whatever age the entry there was.
LEMMA StoreNameInv ==
  ASSUME DnsInv, NEW g \in Goroutines, StoreName(g)
  PROVE  DnsInv'
<1>0. /\ DnsTypeOK /\ lookups \in [Goroutines -> Lookup \cup {None}]
      /\ dnsCache \in [Addrs -> Entry \cup {None}]
      /\ lookups[g] # None /\ lookups[g] \in Lookup /\ lookups[g].addr \in Addrs
  BY DEF DnsInv, DnsTypeOK, StoreName, At, Lookup
<1> DEFINE l == [lookups[g] EXCEPT !.stage = "delete"]
           e == [name |-> lookups[g].name, age |-> 0]
<1>1. l \in Lookup /\ l.addr = lookups[g].addr /\ lookups' = [lookups EXCEPT ![g] = l]
  BY <1>0 DEF Lookup, StoreName
<1>2. e \in Entry /\ dnsCache' = [dnsCache EXCEPT ![lookups[g].addr] = e]
  BY <1>0, ResolverAssumption DEF Lookup, Entry, StoreName
<1> HIDE DEF l, e
<1>3. l # None /\ e # None
  BY <1>1, <1>2, ResolverAssumption
<1>4. DnsTypeOK'
  BY <1>0, <1>1, <1>2 DEF DnsTypeOK, StoreName
<1>5. \A h \in Goroutines : /\ lookups'[h] # None <=> lookups[h] # None
                            /\ lookups[h] # None => lookups'[h].addr = lookups[h].addr
  BY <1>0, <1>1, <1>3
<1>6. SingleLookup'
  BY <1>5, SameAddresses DEF DnsInv, StoreName
<1>7. StoredBeforeDelete'
  <2> SUFFICES ASSUME NEW h \in Goroutines, At(h, "delete")'
               PROVE  dnsCache'[lookups'[h].addr] # None
    BY DEF StoredBeforeDelete
  <2>1. lookups[h] # None /\ lookups'[h].addr = lookups[h].addr /\ lookups[h].addr \in Addrs
    BY <1>0, <1>5 DEF At, Lookup
  <2>2. CASE h = g
    BY <1>0, <1>2, <1>3, <2>1, <2>2
  <2>3. CASE h # g
    BY <1>0, <1>1, <1>2, <1>3, <2>1, <2>3 DEF DnsInv, StoredBeforeDelete, At
  <2> QED
    BY <2>2, <2>3
<1> QED
  BY <1>4, <1>6, <1>7 DEF DnsInv

\* The address is free again, for exactly as long as nobody looks it up.
LEMMA DeleteInProgressInv ==
  ASSUME DnsInv, NEW g \in Goroutines, DeleteInProgress(g)
  PROVE  DnsInv'
<1>0. /\ DnsTypeOK /\ lookups \in [Goroutines -> Lookup \cup {None}]
      /\ lookups[g] # None /\ lookups[g] \in Lookup
      /\ lookups' = [lookups EXCEPT ![g] = None]
      /\ dnsInProgress' = dnsInProgress \ {lookups[g].addr}
  BY DEF DnsInv, DnsTypeOK, DeleteInProgress, At
<1>1. DnsTypeOK'
  BY <1>0 DEF DnsTypeOK, DeleteInProgress
<1>2. lookups'[g] = None /\ \A h \in Goroutines \ {g} : lookups'[h] = lookups[h]
  BY <1>0
<1>3. SingleLookup'
  <2>1. ASSUME NEW a \in Addrs
        PROVE  a \in dnsInProgress' <=> \E h \in Goroutines : lookups'[h] # None /\ lookups'[h].addr = a
    BY <1>0, <1>2 DEF DnsInv, SingleLookup
  <2> QED
    BY <1>2, <2>1 DEF DnsInv, SingleLookup
<1>4. StoredBeforeDelete'
  BY <1>2 DEF DnsInv, StoredBeforeDelete, At, DeleteInProgress
<1> QED
  BY <1>1, <1>3, <1>4 DEF DnsInv

\* Entries age, and stay.
LEMMA TimePassesInv ==
  ASSUME DnsInv, TimePasses
  PROVE  DnsInv'
<1>0. DnsTypeOK /\ dnsCache \in [Addrs -> Entry \cup {None}] /\ TTL \in Nat
  BY ResolverAssumption DEF DnsInv, DnsTypeOK
<1>1. ASSUME NEW e \in Entry \cup {None}
      PROVE  Older(e) \in Entry \cup {None} /\ (Older(e) = None <=> e = None)
  <2>1. CASE e # None /\ e.age < TTL
    <3>1. e.age \in 0..TTL /\ Older(e) = [e EXCEPT !.age = e.age + 1]
      BY <1>1, <2>1 DEF Entry, Older
    <3>2. Older(e) \in Entry
      BY <1>0, <1>1, <2>1, <3>1 DEF Entry
    <3> QED
      BY <2>1, <3>2, ResolverAssumption
  <2>2. CASE ~(e # None /\ e.age < TTL)
    BY <2>2 DEF Older
  <2> QED
    BY <2>1, <2>2
<1>2. /\ dnsCache' \in [Addrs -> Entry \cup {None}]
      /\ \A a \in Addrs : dnsCache'[a] = None <=> dnsCache[a] = None
  BY <1>0, <1>1 DEF TimePasses
<1>3. DnsTypeOK'
  BY <1>0, <1>2 DEF DnsTypeOK, TimePasses
<1>4. \A g \in Goroutines : lookups[g] # None => lookups[g].addr \in Addrs
  BY DEF DnsInv, DnsTypeOK, Lookup
<1> QED
  BY <1>2, <1>3, <1>4 DEF DnsInv, TimePasses, SingleLookup, StoredBeforeDelete, At
-----------------------------------------------------------------------------
\* The two maps and the goroutines agree, always: an address is in
\* dnsInProgress while one goroutine looks it up, and leaves it answered.
THEOREM DnsInvariance == DnsSpec => []DnsInv
<1>1. DnsInv /\ [DnsNext]_dnsVars => DnsInv'
  <2> SUFFICES ASSUME DnsInv, [DnsNext]_dnsVars PROVE DnsInv'
    OBVIOUS
  <2>1. CASE UNCHANGED dnsVars
    BY <2>1 DEF dnsVars, DnsInv, DnsTypeOK, SingleLookup, StoredBeforeDelete, At
  <2> QED
    BY <2>1, CacheHitInv, CacheMissInv, AlreadyBusyInv, StartLookupInv, LookupReturnsInv,
       StoreNameInv, DeleteInProgressInv, TimePassesInv DEF DnsNext
<1> QED
  BY <1>1, DnsInitInv, PTL DEF DnsSpec

\* The cache, the goroutines and the answers keep their types.
THEOREM CacheTyped == DnsSpec => []DnsTypeOK
<1>1. DnsInv => DnsTypeOK
  BY DEF DnsInv
<1> QED
  BY <1>1, DnsInvariance, PTL

\* At most one lookup per address, and none is locked out
\* (net_connections.go:194-206).
THEOREM OneLookup == DnsSpec => []SingleLookup
<1>1. DnsInv => SingleLookup
  BY DEF DnsInv
<1> QED
  BY <1>1, DnsInvariance, PTL

\* The cache has the answer before the address is released
\* (net_connections.go:198, 205).
THEOREM StoreThenDelete == DnsSpec => AnsweredWhenReleased
<1>1. DnsInv /\ [DnsNext]_dnsVars =>
        [\A a \in Addrs : a \in dnsInProgress /\ a \notin dnsInProgress' => dnsCache[a] # None]_dnsVars
  <2> SUFFICES ASSUME DnsInv, DnsNext, NEW a \in Addrs, a \in dnsInProgress, a \notin dnsInProgress'
               PROVE  dnsCache[a] # None
    OBVIOUS
  <2>1. PICK g \in Goroutines : DeleteInProgress(g)
    BY DEF DnsNext, CacheHit, CacheMiss, AlreadyBusy, StartLookup, TimePasses, LookupReturns, StoreName
  <2> QED
    BY <2>1 DEF DnsInv, StoredBeforeDelete, DeleteInProgress
<1> QED
  BY <1>1, DnsInvariance, PTL DEF DnsSpec, AnsweredWhenReleased

\* A settled answer holds until it expires: the question that would look it up
\* again, or the goroutine that would replace it, would have had to be under way
\* before (net_connections.go:187-208).
THEOREM AnswersStay == DnsSpec => AnswersHold
<1>1. DnsInv /\ [DnsNext]_dnsVars =>
        [\A a \in Addrs : Settled(a) /\ Fresh(a)' =>
           Settled(a)' /\ dnsCache'[a].name = dnsCache[a].name]_dnsVars
  <2> SUFFICES ASSUME DnsInv, DnsNext, NEW a \in Addrs, Settled(a), Fresh(a)'
               PROVE  Settled(a)' /\ dnsCache'[a].name = dnsCache[a].name
    OBVIOUS
  <2>0. /\ Fresh(a) /\ a \notin dnsInProgress /\ missed # a /\ a # None
        /\ dnsCache \in [Addrs -> Entry \cup {None}] /\ dnsCache[a] \in Entry
        /\ \A g \in Goroutines : lookups[g] # None => lookups[g].addr # a
    BY ResolverAssumption DEF DnsInv, DnsTypeOK, SingleLookup, Settled, Fresh
  <2>1. CASE \E b \in Addrs : CacheHit(b)
    BY <2>0, <2>1 DEF CacheHit, Settled
  <2>2. CASE \E b \in Addrs : CacheMiss(b)
    BY <2>0, <2>2 DEF CacheMiss, Settled
  <2>3. CASE AlreadyBusy
    BY <2>0, <2>3 DEF AlreadyBusy, Return, Settled
  <2>4. CASE StartLookup
    BY <2>0, <2>4 DEF StartLookup, Return, Settled
  <2>5. CASE TimePasses
    <3>1. dnsCache'[a] = Older(dnsCache[a])
      BY <2>5 DEF TimePasses
    <3>2. Older(dnsCache[a]).name = dnsCache[a].name
      BY <2>0 DEF Older, Entry
    <3> QED
      BY <2>0, <2>5, <3>1, <3>2 DEF TimePasses, Settled
  <2>6. ASSUME NEW g \in Goroutines, LookupReturns(g)
        PROVE  Settled(a)' /\ dnsCache'[a].name = dnsCache[a].name
    BY <2>0, <2>6 DEF LookupReturns, Settled
  <2>7. ASSUME NEW g \in Goroutines, StoreName(g)
        PROVE  Settled(a)' /\ dnsCache'[a].name = dnsCache[a].name
    <3>1. lookups[g].addr # a
      BY <2>0, <2>7 DEF StoreName, At
    <3>2. dnsCache'[a] = dnsCache[a]
      BY <2>0, <2>7, <3>1 DEF StoreName
    <3> QED
      BY <2>0, <2>7, <3>2 DEF StoreName, Settled
  <2>8. ASSUME NEW g \in Goroutines, DeleteInProgress(g)
        PROVE  Settled(a)' /\ dnsCache'[a].name = dnsCache[a].name
    BY <2>0, <2>8 DEF DeleteInProgress, Settled
  <2> QED
    BY <2>1, <2>2, <2>3, <2>4, <2>5, <2>6, <2>7, <2>8 DEF DnsNext
<1> QED
  BY <1>1, DnsInvariance, PTL DEF DnsSpec, AnswersHold
=============================================================================
