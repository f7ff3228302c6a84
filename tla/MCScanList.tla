----------------------------- MODULE MCScanList -----------------------------
(***************************************************************************)
(* Networks with a colon, a backslash and both in their names, a hidden    *)
(* one, one with two access points of different strength, security and     *)
(* use; a warning line with colons.                                        *)
(***************************************************************************)
EXTENDS ScanList

MCRunes == {":", "\\", "*", " ", "0", "1", "2", "W", "a", "b", "w"}

AP(inUse, ssid, signal, security) ==
  [inUse |-> inUse, ssid |-> ssid, signal |-> signal, security |-> security]

MCAccessPoints == {
  AP(FALSE, <<"a">>, 3, <<"w">>),
  AP(TRUE,  <<"a">>, 2, <<"w">>),
  AP(FALSE, <<"a">>, 1, <<>>),
  AP(FALSE, <<"a", ":">>, 2, <<>>),
  AP(FALSE, <<"\\">>, 3, <<"w">>),
  AP(FALSE, <<"\\", ":", "a">>, 1, <<"w">>),
  AP(FALSE, <<>>, 3, <<>>)}

MCNoise == {<<"W", ":", " ", "a", ":", "b">>}
=============================================================================
