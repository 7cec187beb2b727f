------------------------------ MODULE MCServer ------------------------------
(***************************************************************************)
(* Small instances of Server: two listening sockets, two clients.          *)
(***************************************************************************)
EXTENDS Server, TLC

CONSTANTS c1, c2

MCClients == {c1, c2}
MCNobody == {}
MCSockets == {0, 1}
MCOneSocket == {0}
MCKinds == AllKinds
MCFewKinds == {"stream", "load", "self"}
=============================================================================
