--------------------------- MODULE MCTcpTransport ---------------------------
(* TcpTransport with short headers and bodies, one of them empty, for TLC. *)
EXTENDS TcpTransport

Lengths == <<3, 0, 4>>

Length(i) == Lengths[i]
=============================================================================
