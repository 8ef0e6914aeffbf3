------------------------------- MODULE MCServer -------------------------------
(* Server with two requests, one of them a stream, for TLC. *)
EXTENDS Server

TwoRequests == {0, 1}
===============================================================================
