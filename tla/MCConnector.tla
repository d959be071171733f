---------------------------- MODULE MCConnector ----------------------------
(***************************************************************************)
(* Connector and TcpClient with two accepted connections, so that the      *)
(* client reconnects once, and delays 1, 2, 3: doubled, capped, at the     *)
(* cap.                                                                    *)
(***************************************************************************)
EXTENDS Connector

=============================================================================
