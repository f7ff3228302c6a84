--------------------------- MODULE MCConnections ---------------------------
(***************************************************************************)
(* Remote ends of every class: IPv4, the same host as IPv4 in IPv6, IPv6,  *)
(* loopback plain and disguised, link-local, none; two sockets with one    *)
(* remote end, and one host on two ports.                                  *)
(***************************************************************************)
EXTENDS Connections

V6(a, b, rest) == [k \in 1..16 |-> IF k = 1 THEN a ELSE IF k = 2 THEN b
                                   ELSE IF k > 16 - Len(rest) THEN rest[k - 16 + Len(rest)] ELSE 0]
Mapped4(ip) == V6(0, 0, <<255, 255>> \o ip)

Host == <<10, 0, 0, 5>>
Glob == V6(32, 1, <<9>>)
Sock(file, ip, port, state, peer) ==
  [file |-> file, ip |-> ip, port |-> port, state |-> state, peer |-> peer]

MCSockets == {
  Sock("tcp",  Host, 443, "ESTAB", "host"),
  Sock("tcp6", Mapped4(Host), 443, "ESTAB", "host"),
  Sock("tcp",  Host, 22, "ESTAB", "host"),
  Sock("tcp6", Glob, 443, "ESTAB", "glob"),
  Sock("tcp",  <<10, 0, 0, 7>>, 443, "TIME_WAIT", ""),
  Sock("tcp",  <<0, 0, 0, 0>>, 0, "LISTEN", ""),
  Sock("tcp6", Glob, 22, "other", ""),
  Sock("tcp",  <<127, 0, 0, 1>>, 80, "ESTAB", ""),
  Sock("tcp6", Mapped4(<<127, 0, 0, 1>>), 80, "ESTAB", ""),
  Sock("tcp6", V6(0, 0, <<1>>), 80, "ESTAB", ""),
  Sock("tcp6", V6(254, 128, <<7>>), 80, "ESTAB", "near6"),
  Sock("tcp",  <<169, 254, 1, 1>>, 80, "ESTAB", "near4")}

MCRemoteOrder == <<
  [ip |-> Host, port |-> 22], [ip |-> Host, port |-> 443],
  [ip |-> <<169, 254, 1, 1>>, port |-> 80],
  [ip |-> Glob, port |-> 443], [ip |-> V6(254, 128, <<7>>), port |-> 80]>>
=============================================================================
