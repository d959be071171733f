-------------------------- MODULE MCTcpConnection --------------------------
(***************************************************************************)
(* TcpConnection with one thread besides the io loop.  Two messages of two *)
(* bytes are enough for one to be written in part, to wait in the output   *)
(* buffer and to be followed by another; HighWaterMark = 3 is crossed by   *)
(* the second.                                                             *)
(***************************************************************************)
EXTENDS TcpConnection

=============================================================================
