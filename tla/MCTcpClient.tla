----------------------------- MODULE MCTcpClient -----------------------------
(* A small instance of TcpClient for TLC: two descriptors, so that an       *)
(* attempt can begin while a connection is still to be destroyed, and       *)
(* socket() can fail.                                                       *)
EXTENDS TcpClient

MCFds == 1 .. 2
=============================================================================
