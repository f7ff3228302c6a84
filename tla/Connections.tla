---------------------------- MODULE Connections ----------------------------
(***************************************************************************)
(* One call of CollectConnections (net_connections.go:36-64).              *)
(* /proc/net/tcp is read, then /proc/net/tcp6; a loop keeps the            *)
(* established, routable and not yet seen connections, writing them over   *)
(* the slice it reads (out := conns[:0]); what it kept is sorted.  The     *)
(* kernel may open and close sockets between the two reads, and lists      *)
(* them in any order.                                                      *)
(* A definition marked "Slip" is a plausible mistake in the code of the    *)
(* definition that follows it; it takes no part in Next.                   *)
(***************************************************************************)
EXTENDS Integers, Sequences, FiniteSets, Listing

CONSTANTS
  Sockets,      \* sockets there may be, see Socket
  RemoteOrder,  \* the sequence of their formatted remote ends, in string order
  MaxSockets,   \* bound: sockets at a time
  MaxChanges    \* bound: sockets opened or closed during a call

Byte == 0..255
IP4  == [1..4 -> Byte]
IP16 == [1..16 -> Byte]
\* The states procNetTCPState names; the kernel has others ("other" below).
States == {"ESTAB", "LISTEN", "TIME_WAIT"}
\* A socket as it is, before the kernel prints it: ip and port are the remote
\* end's; peer names the host at that end, or is "" when there is no other host.
Socket == [file : {"tcp"}, ip : IP4, port : Nat, state : States \cup {"other"}, peer : STRING]
          \cup [file : {"tcp6"}, ip : IP16, port : Nat, state : States \cup {"other"}, peer : STRING]

\* net.IP: an IPv4 address in an IPv6 disguise.
IsMapped(ip) == DOMAIN ip = 1..16 /\ (\A k \in 1..10 : ip[k] = 0) /\ ip[11] = 255 /\ ip[12] = 255

\* What an address stands for; those of no host but this one, 127/8 and ::1,
\* 0.0.0.0 and ::; and those of hosts on the same link, 169.254/16 and fe80::/10.
Plain(ip) == IF IsMapped(ip) THEN <<ip[13], ip[14], ip[15], ip[16]>> ELSE ip
NoRemote(ip) ==
  LET a == Plain(ip)
  IN  \/ \A k \in DOMAIN a : a[k] = 0
      \/ DOMAIN a = 1..4 /\ a[1] = 127
      \/ DOMAIN a = 1..16 /\ a[16] = 1 /\ \A k \in 1..15 : a[k] = 0
OnLink(ip) ==
  LET a == Plain(ip)
  IN  \/ DOMAIN a = 1..4 /\ a[1] = 169 /\ a[2] = 254
      \/ DOMAIN a = 1..16 /\ a[1] = 254 /\ a[2] \in 128..191

\* A connection to another host that is not on the same link.
Routed(s) == s.peer # "" /\ ~OnLink(s.ip)

ASSUME ConnectionsAssumption ==
  /\ Sockets \subseteq Socket /\ IsFiniteSet(Sockets) /\ MaxChanges \in Nat
  /\ \A s \in Sockets : s.peer # "" <=> s.state = "ESTAB" /\ ~NoRemote(s.ip)
  /\ \A s, t \in Sockets : Routed(s) /\ Routed(t) =>
       (s.peer = t.peer <=> Plain(s.ip) = Plain(t.ip))
  /\ \A s \in Sockets : s.peer # "" =>
       \E k \in DOMAIN RemoteOrder : RemoteOrder[k] = [ip |-> Plain(s.ip), port |-> s.port]
  /\ \A j, k \in DOMAIN RemoteOrder : RemoteOrder[j] = RemoteOrder[k] => j = k
  /\ DOMAIN RemoteOrder \subseteq Nat

VARIABLES
  open,    \* the kernel's sockets
  stayed,  \* those open since the call began
  changes, \* sockets opened or closed since
  stage,   \* where the call stands
  lines,   \* the connections read, in the order of the files
  conns,   \* the slice that holds them, and then out = conns[:0] as well
  i, n,    \* connections visited; len(out)
  seen,    \* remotes kept
  rows     \* the result

kernelVars == <<open, stayed, changes>>
vars == <<kernelVars, stage, lines, conns, i, n, seen, rows>>
-----------------------------------------------------------------------------
(* Addresses *)

\* The kernel prints the 32-bit words of an address as little-endian numbers.
KernelHex(ip) == [k \in DOMAIN ip |-> LET g == (k - 1) \div 4 IN ip[8 * g + 5 - k]]

parseHexIPv4(s) == [k \in 1..4 |-> s[5 - k]]
parseHexIPv6(s) == [k \in 1..16 |-> s[4 * ((k - 1) \div 4) + 4 - ((k - 1) % 4)]]

\* net.IP.To4: an IPv4 address, also one in an IPv6 disguise.
\* Slip: the disguise is not looked through.
To4Plain(ip) == ip
To4(ip) == IF IsMapped(ip) THEN SubSeq(ip, 13, 16) ELSE ip

Zeros(ip, m) == \A k \in 1..m : ip[k] = 0
IsLoopback(ip) == LET a == To4(ip) IN IF Len(a) = 4 THEN a[1] = 127 ELSE Zeros(a, 15) /\ a[16] = 1
IsUnspecified(ip) == LET a == To4(ip) IN Zeros(a, Len(a))
IsLinkLocalUnicast(ip) ==
  LET a == To4(ip) IN IF Len(a) = 4 THEN a[1] = 169 /\ a[2] = 254
                                    ELSE a[1] = 254 /\ a[2] \div 64 = 2

formatEndpoint(ip, port) == [ip |-> To4(ip), port |-> port]

\* A line of the file, parsed; sock is kept for the properties.
parseLine(s) ==
  LET ip == IF s.file = "tcp" THEN parseHexIPv4(KernelHex(s.ip)) ELSE parseHexIPv6(KernelHex(s.ip))
  IN  [state |-> s.state, ip |-> ip, remote |-> formatEndpoint(ip, s.port), sock |-> s]
-----------------------------------------------------------------------------
(* The kernel *)

Orders(S) == {f \in [1..Cardinality(S) -> S] : \A a, b \in DOMAIN f : f[a] = f[b] => a = b}

Changed == /\ stage = "tcp6" /\ changes < MaxChanges /\ changes' = changes + 1
           /\ UNCHANGED <<stage, lines, conns, i, n, seen, rows>>

OpenSocket == \E s \in Sockets \ open : /\ Cardinality(open) < MaxSockets
                                        /\ open' = open \cup {s} /\ Changed /\ UNCHANGED stayed
CloseSocket == \E s \in open : open' = open \ {s} /\ stayed' = stayed \ {s} /\ Changed
-----------------------------------------------------------------------------
(* CollectConnections *)

\* Slip: a state that is not in the table is not skipped.
NamedOrNot(s) == TRUE
Named(s) == s.state \in States

\* parseProcNet of one file; a file that cannot be opened has no lines.
parseProcNet(file, next) ==
  /\ stage = file /\ stage' = next
  /\ \/ /\ \E order \in Orders({s \in open : s.file = file /\ Named(s)}) :
             lines' = lines \o [k \in DOMAIN order |-> parseLine(order[k])]
        /\ UNCHANGED stayed
     \/ /\ UNCHANGED lines
        /\ stayed' = {s \in stayed : s.file # file}
  /\ conns' = lines'
  /\ UNCHANGED <<open, changes, i, n, seen, rows>>

Shown(c) == /\ c.state = "ESTAB"
            /\ ~IsLoopback(c.ip) /\ ~IsUnspecified(c.ip) /\ ~IsLinkLocalUnicast(c.ip)

\* Slip: out starts behind an element, not before the first.
OutAfterFirst(c) == [conns EXCEPT ![IF n + 2 <= Len(conns) THEN n + 2 ELSE n + 1] = c]
\* append(out, c): out shares conns' array, and has room there.
AppendOut(c) == [conns EXCEPT ![n + 1] = c]

\* One round of the loop.
Visit ==
  /\ stage = "loop" /\ i < Len(conns)
  /\ i' = i + 1
  /\ LET c == conns[i + 1]
     IN  IF Shown(c) /\ c.remote \notin seen
         THEN seen' = seen \cup {c.remote} /\ conns' = AppendOut(c) /\ n' = n + 1
         ELSE UNCHANGED <<seen, conns, n>>
  /\ UNCHANGED <<kernelVars, stage, lines, rows>>

RemoteBefore(c, d) == \E a, b \in DOMAIN RemoteOrder :
  a < b /\ RemoteOrder[a] = c.remote /\ RemoteOrder[b] = d.remote

Sort ==
  /\ stage = "loop" /\ i = Len(conns)
  /\ LET out == SubSeq(conns, 1, n)
     IN  rows' = StableSort(out, [j \in 1..n |-> [k \in 1..n |-> RemoteBefore(out[j], out[k])]])
  /\ stage' = "done"
  /\ UNCHANGED <<kernelVars, lines, conns, i, n, seen>>

Returned == stage = "done" /\ UNCHANGED vars
-----------------------------------------------------------------------------
Init ==
  /\ open \in {S \in SUBSET Sockets : Cardinality(S) <= MaxSockets}
  /\ stayed = open /\ changes = 0 /\ stage = "tcp"
  /\ lines = <<>> /\ conns = <<>> /\ i = 0 /\ n = 0 /\ seen = {} /\ rows = <<>>

Next ==
  \/ OpenSocket \/ CloseSocket
  \/ parseProcNet("tcp", "tcp6") \/ parseProcNet("tcp6", "loop")
  \/ Visit \/ Sort \/ Returned

Spec == Init /\ [][Next]_vars
-----------------------------------------------------------------------------
(* Properties *)

Conn == [state : States, ip : IP4 \cup IP16, remote : [ip : IP4 \cup IP16, port : Nat], sock : Socket]

TypeOK ==
  /\ stayed \subseteq open /\ open \subseteq Sockets /\ changes \in 0..MaxChanges
  /\ stage \in {"tcp", "tcp6", "loop", "done"}
  /\ lines \in Seq(Conn) /\ conns \in Seq(Conn) /\ rows \in Seq(Conn)
  /\ i \in Nat /\ n \in Nat /\ seen \subseteq [ip : IP4 \cup IP16, port : Nat]

\* The loop filters in place: whatever it has written, the elements it has yet
\* to visit are as they were read; and what it kept is, of the elements
\* visited, each remote to be shown, once (net_connections.go:47-61).
FilterInPlace ==
  /\ n <= i /\ i <= Len(lines) /\ Len(conns) = Len(lines)
  /\ \A k \in i + 1 .. Len(lines) : conns[k] = lines[k]
  /\ \A k \in 1..n : Shown(conns[k]) /\ conns[k].remote \in seen
  /\ \A j, k \in 1..n : conns[j].remote = conns[k].remote => j = k
  /\ \A k \in 1..i : Shown(lines[k]) =>
       \E j \in 1..n : conns[j].remote = lines[k].remote

\* The rows are the remote ends of established connections to other hosts,
\* each once - whether IPv4 or IPv4 in IPv6, whatever order the kernel lists
\* them in - and none that lasts through the call is missing.  They have one
\* order, so that rows do not swap between two repaints.  Hosts on the same link
\* are the exception: the comment on CollectConnections promises them too
\* ("non-loopback, non-unspecified", net_connections.go:38-39), the code drops
\* them (line 53), and so not a single row is theirs.
RowsAreRemotes ==
  stage = "done" =>
    /\ \A s \in stayed : Routed(s) =>
         \E k \in DOMAIN rows : rows[k].sock.peer = s.peer /\ rows[k].sock.port = s.port
    /\ \A k \in DOMAIN rows : Routed(rows[k].sock)
    /\ \A j, k \in DOMAIN rows : j < k =>
         /\ RemoteBefore(rows[j], rows[k])
         /\ rows[j].sock.peer # rows[k].sock.peer \/ rows[j].sock.port # rows[k].sock.port
=============================================================================
