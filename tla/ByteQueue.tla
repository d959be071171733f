----------------------------- MODULE ByteQueue -----------------------------
(***************************************************************************)
(* What a net::Buffer promises: a finite sequence of bytes, extended at    *)
(* the back, consumed at the front, with a prepend at the front and an     *)
(* unwrite at the back.  There are no indices and no capacity.             *)
(***************************************************************************)
EXTENDS Sequences, Integers

CONSTANT Data   \* the byte sequences that may be added

VARIABLE bytes   \* the unread bytes, oldest first

Init == bytes = <<>>

AppendBytes(d) == bytes' = bytes \o d

RetrieveBytes(n) ==
  /\ n <= Len(bytes)
  /\ bytes' = SubSeq(bytes, n + 1, Len(bytes))

PrependBytes(d) == bytes' = d \o bytes

UnwriteBytes(n) ==
  /\ n <= Len(bytes)
  /\ bytes' = SubSeq(bytes, 1, Len(bytes) - n)

Next ==
  \/ \E d \in Data : AppendBytes(d) \/ PrependBytes(d)
  \/ \E n \in 0..Len(bytes) : RetrieveBytes(n) \/ UnwriteBytes(n)

Spec == Init /\ [][Next]_bytes
=============================================================================
