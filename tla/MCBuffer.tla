------------------------------ MODULE MCBuffer ------------------------------
(***************************************************************************)
(* A buffer of 2 + 3 bytes that holds up to 4 unread bytes, calls of up to *)
(* 2 bytes and a stack buffer of 2 bytes: every method meets both branches *)
(* of makeSpace, with readerIndex_ below, at and above kCheapPrepend.      *)
(***************************************************************************)
EXTENDS Buffer
=============================================================================
