------------------------ MODULE TcpConnectionProofs -------------------------
(***************************************************************************)
(* What one TcpConnection guarantees for any number of other threads,      *)
(* messages and closes:                                                    *)
(*   - whatever is called, and wherever, the bytes leave in the order in   *)
(*     which they were given, none lost before a write fails, and a FIN    *)
(*     never overtakes them while the connection is up;                    *)
(*   - if other threads only send, bytes that wait are asked about with    *)
(*     EPOLLOUT and nothing else is;                                       *)
(*   - if, besides, reading is never stopped and the server outlives its   *)
(*     connections, no assert fails, no freed object is used, and the      *)
(*     connection lives the life that its server takes it to live.         *)
(***************************************************************************)
EXTENDS TcpConnection, SequenceTheorems, TLAPS

-----------------------------------------------------------------------------
(***************************************************************************)
(* Queues of functors.                                                     *)
(***************************************************************************)

Functor == FunctorNames \X (0..MaxMsgs)
Byte == (1..MaxMsgs) \X {1, 2}

(* A functor of this name is in the queue, and at most once.               *)
Has(q, n) == \E i \in 1..Len(q) : q[i][1] = n
Once(q, n) == \A i, j \in 1..Len(q) : q[i][1] = n /\ q[j][1] = n => i = j

(* The functors that send carry a message. *)
SendsFit(q) == \A i \in 1..Len(q) : q[i][1] = "send" => q[i][2] >= 1

(* Nothing is in an empty queue. *)
LEMMA EmptyQueue ==
  IsQueue(<<>>) /\ SendsFit(<<>>) /\ \A n : ~Has(<<>>, n) /\ Once(<<>>, n)
BY DEF IsQueue, SendsFit, Has, Once

(* What is in a queue after Append. *)
LEMMA AppendedQueue ==
  ASSUME NEW q, IsQueue(q), NEW f \in Functor
  PROVE  /\ IsQueue(Append(q, f))
         /\ SendsFit(q) /\ (f[1] = "send" => f[2] >= 1) => SendsFit(Append(q, f))
         /\ \A n : Has(Append(q, f), n) <=> Has(q, n) \/ f[1] = n
         /\ \A n : Once(q, n) /\ (f[1] = n => ~Has(q, n)) => Once(Append(q, f), n)
<1>1. /\ q \in Seq(Functor) /\ Append(q, f) \in Seq(Functor)
      /\ Len(Append(q, f)) = Len(q) + 1 /\ Len(q) \in Nat
      /\ Append(q, f)[Len(q) + 1] = f
      /\ \A i \in 1..Len(q) : Append(q, f)[i] = q[i]
  BY DEF IsQueue, Functor
<1>2. 1..(Len(q) + 1) = (1..Len(q)) \cup {Len(q) + 1}
  BY <1>1
<1>3. \A n : Has(Append(q, f), n) <=> Has(q, n) \/ f[1] = n
  BY <1>1, <1>2 DEF Has
<1>4. \A n : Once(q, n) /\ (f[1] = n => ~Has(q, n)) => Once(Append(q, f), n)
  BY <1>1, <1>2 DEF Once, Has
<1>5. SendsFit(q) /\ (f[1] = "send" => f[2] >= 1) => SendsFit(Append(q, f))
  BY <1>1, <1>2 DEF SendsFit
<1>6. IsQueue(Append(q, f))
  BY <1>1 DEF IsQueue, Functor
<1> QED
  BY <1>3, <1>4, <1>5, <1>6

(* What is in a queue whose head is taken. *)
LEMMA TakenQueue ==
  ASSUME NEW q, IsQueue(q), q # <<>>
  PROVE  /\ IsQueue(Tail(q)) /\ Head(q) \in Functor
         /\ SendsFit(q) => SendsFit(Tail(q)) /\ (Head(q)[1] = "send" => Head(q)[2] >= 1)
         /\ \A n : Has(q, n) <=> Has(Tail(q), n) \/ Head(q)[1] = n
         /\ \A n : Once(q, n) => /\ Once(Tail(q), n)
                                 /\ Head(q)[1] = n => ~Has(Tail(q), n)
<1>1. /\ Tail(q) \in Seq(Functor) /\ Head(q) \in Functor /\ Head(q) = q[1]
      /\ Len(Tail(q)) = Len(q) - 1 /\ Len(q) \in Nat /\ Len(q) >= 1
  BY DEF IsQueue, Functor
<1>2. \A i \in 1..Len(Tail(q)) : Tail(q)[i] = q[i + 1] /\ i + 1 \in 1..Len(q)
  <2>1. q \in Seq(Functor)
    BY DEF IsQueue, Functor
  <2> QED
    BY <1>1, <2>1
<1>3. \A i \in 1..Len(q) : i = 1 \/ (i - 1 \in 1..Len(Tail(q)) /\ q[i] = Tail(q)[i - 1])
  BY <1>1, <1>2
<1>4. 1 \in 1..Len(q)
  BY <1>1
<1>5. \A n : Has(q, n) <=> Has(Tail(q), n) \/ Head(q)[1] = n
  BY <1>1, <1>2, <1>3, <1>4 DEF Has
<1>6. ASSUME NEW n, Once(q, n)
      PROVE  Once(Tail(q), n) /\ (Head(q)[1] = n => ~Has(Tail(q), n))
  <2>1. ASSUME NEW i \in 1..Len(Tail(q)), NEW j \in 1..Len(Tail(q)),
               Tail(q)[i][1] = n, Tail(q)[j][1] = n
        PROVE  i = j
    <3>1. i + 1 = j + 1
      BY <1>2, <1>6, <2>1 DEF Once
    <3> QED
      BY <3>1, <1>1
  <2>2. ASSUME Head(q)[1] = n, NEW i \in 1..Len(Tail(q)), Tail(q)[i][1] = n
        PROVE  FALSE
    <3>1. i + 1 = 1
      BY <1>1, <1>2, <1>4, <1>6, <2>2 DEF Once
    <3> QED
      BY <3>1, <1>1
  <2> QED
    BY <2>1, <2>2 DEF Once, Has
<1>7. SendsFit(q) => SendsFit(Tail(q)) /\ (Head(q)[1] = "send" => Head(q)[2] >= 1)
  BY <1>1, <1>2, <1>4 DEF SendsFit
<1>8. IsQueue(Tail(q))
  BY <1>1 DEF IsQueue, Functor
<1> QED
  BY <1>1, <1>5, <1>6, <1>7, <1>8

-----------------------------------------------------------------------------
(***************************************************************************)
(* Sequences of bytes.                                                     *)
(***************************************************************************)

(* A message is two bytes. *)
LEMMA MessageIsBytes ==
  ASSUME NEW m \in 1..MaxMsgs
  PROVE  Bytes(m) \in Seq(Byte) /\ Len(Bytes(m)) = 2
<1>1. <<m, 1>> \in Byte /\ <<m, 2>> \in Byte
  BY DEF Byte
<1> QED
  BY <1>1 DEF Bytes

(* The first n bytes and the rest make up the whole. *)
LEMMA TakeAndDrop ==
  ASSUME NEW s \in Seq(Byte), NEW n \in 0..Len(s)
  PROVE  /\ Take(s, n) \in Seq(Byte) /\ Drop(s, n) \in Seq(Byte)
         /\ Len(Drop(s, n)) = Len(s) - n
         /\ Take(s, n) \o Drop(s, n) = s
         /\ n = 0 => Take(s, n) = <<>> /\ Drop(s, n) = s
         /\ n = Len(s) => Drop(s, n) = <<>>
<1>1. Len(s) \in Nat /\ n \in Nat /\ n <= Len(s)
  OBVIOUS
<1>2. Take(s, n) \in Seq(Byte) /\ Drop(s, n) \in Seq(Byte) /\ Len(Drop(s, n)) = Len(s) - n
  <2>1. \A i \in 1..n : s[i] \in Byte
    BY <1>1
  <2>2. \A i \in (n + 1)..Len(s) : s[i] \in Byte
    BY <1>1
  <2>3. /\ SubSeq(s, n + 1, Len(s)) \in Seq(Byte)
        /\ Len(SubSeq(s, n + 1, Len(s))) = IF n + 1 <= Len(s) THEN Len(s) - (n + 1) + 1 ELSE 0
    BY <1>1, <2>2, SubSeqProperties
  <2>4. SubSeq(s, 1, n) \in Seq(Byte)
    BY <1>1, <2>1, SubSeqProperties
  <2> QED
    BY <1>1, <2>3, <2>4 DEF Take, Drop
<1>3. Take(s, n) \o Drop(s, n) = s
  <2>1. n \in (1 - 1)..Len(s) /\ Len(s) \in n..Len(s) /\ 1 \in 1..(Len(s) + 1)
    BY <1>1
  <2>2. SubSeq(s, 1, n) \o SubSeq(s, n + 1, Len(s)) = SubSeq(s, 1, Len(s))
    BY <2>1, ConcatAdjacentSubSeq
  <2> QED
    BY <2>2, SubSeqFull DEF Take, Drop
<1>4. n = 0 => Take(s, n) = <<>> /\ Drop(s, n) = s
  BY <1>1, SubSeqEmpty, SubSeqFull DEF Take, Drop
<1>5. n = Len(s) => Drop(s, n) = <<>>
  BY <1>1, SubSeqEmpty DEF Drop
<1> QED
  BY <1>2, <1>3, <1>4, <1>5

(* The concatenation of streams. *)
LEMMA Concatenated ==
  ASSUME NEW s \in Seq(Byte), NEW t \in Seq(Byte)
  PROVE  s \o t \in Seq(Byte) /\ Len(s \o t) = Len(s) + Len(t)
BY ConcatProperties

(* Concatenation is associative. *)
LEMMA ThreeStreams ==
  \A s, t, u \in Seq(Byte) : (s \o t) \o u = s \o (t \o u)
BY ConcatAssociative

(* A prefix is what another stream can be appended to. *)
LEMMA PrefixOfConcat ==
  ASSUME NEW s \in Seq(Byte), NEW t \in Seq(Byte)
  PROVE  IsPrefix(s, s) /\ IsPrefix(s, s \o t)
<1>1. Len(s) \in Nat /\ Len(t) \in Nat /\ Len(s \o t) = Len(s) + Len(t)
  BY Concatenated
<1>2. SubSeq(s \o t, 1, Len(s)) = SubSeq(s, 1, Len(s))
  <2>1. CASE Len(s) = 0
    BY <2>1, SubSeqEmpty
  <2>2. CASE Len(s) > 0
    <3>1. 1 \in 1..Len(s) /\ Len(s) \in 1..Len(s)
      BY <1>1, <2>2
    <3> QED
      BY <3>1, SubSeqOfConcat1
  <2> QED
    BY <1>1, <2>1, <2>2
<1> QED
  BY <1>1, <1>2 DEF IsPrefix

(* A prefix stays one when more is appended behind. *)
LEMMA PrefixStays ==
  ASSUME NEW s \in Seq(Byte), NEW t \in Seq(Byte), NEW u \in Seq(Byte), IsPrefix(s, t)
  PROVE  IsPrefix(s, t \o u)
<1>1. /\ Len(s) \in Nat /\ Len(t) \in Nat /\ Len(s) <= Len(t)
      /\ Len(t \o u) = Len(t) + Len(u) /\ Len(u) \in Nat
  BY Concatenated DEF IsPrefix
<1>2. SubSeq(t \o u, 1, Len(s)) = SubSeq(t, 1, Len(s))
  <2>1. CASE Len(s) = 0
    BY <2>1, SubSeqEmpty
  <2>2. CASE Len(s) > 0
    <3>1. 1 \in 1..Len(t) /\ Len(s) \in 1..Len(t)
      BY <1>1, <2>2
    <3> QED
      BY <3>1, SubSeqOfConcat1
  <2> QED
    BY <1>1, <2>1, <2>2
<1> QED
  BY <1>1, <1>2 DEF IsPrefix

-----------------------------------------------------------------------------
(***************************************************************************)
(* The steps.                                                              *)
(***************************************************************************)

(* The steps of a connection, one case for each operation, for proofs that *)
(* go through them.                                                        *)
LEMMA StepCases ==
  ASSUME Next, NEW G,
         Send => G, Shutdown => G, ForceClose => G, ForceCloseWithDelay => G,
         StartRead => G, StopRead => G, DelayedForceClose => G,
         CallbackReturns => G, CloseCallback => G, DestroyedCallback => G,
         \A c \in Callers, op \in CallerOps : CallerChecks(c, op) => G,
         \A c \in Callers, op \in CallerOps : CallerReads(c, op) => G,
         \A c \in Callers : CallerSends(c) => G,
         \A c \in Callers : CallerCloses(c) => G,
         \A c \in Callers : CallerReleases(c) => G,
         Poll => G, HandleHup => G, HandleReadData => G, HandleReadEnd => G,
         HandleReadError => G, HandleWrite => G, SwapPendingFunctors => G,
         ConnectEstablished => G, SendInLoop => G, ShutdownInLoop => G,
         ForceCloseInLoop => G, ReadInLoop => G, CallUserFunctor => G,
         ConnectDestroyed => G,
         OwnerRemoves => G, OwnerDestructs => G, Destruct => G, PeerStep => G
  PROVE  G
<1>1. LoopStep => G
  BY DEF LoopStep
<1>2. UserStep => G
  BY DEF UserStep
<1>3. CallerStep => G
  BY DEF CallerStep
<1> QED
  BY <1>1, <1>2, <1>3 DEF Next

(* The types, and that a functor that sends has a message. *)
TypeInv == TypeOK /\ SendsFit(functors) /\ SendsFit(pending)

Notice == {<<"writeComplete", 0>>, <<"highWaterMark", 0>>}

(* sendInLoop while the connection is not closed, n bytes being written at *)
(* once: it is given up if the write fails, and otherwise what was not     *)
(* written waits and is asked about.                                       *)
SentNow(m, n) ==
  /\ state_ # "kDisconnected" /\ n \in 0..2
  /\ n # 0 => CanWriteDirectly
  /\ sent' = sent \o Take(Bytes(m), n)
  /\ accepted' = accepted \o Bytes(m)
  /\ finSent' = finSent
  /\ \/ /\ CanWriteDirectly /\ Broken /\ n = 0
        /\ outputBuffer_' = outputBuffer_ /\ UNCHANGED channelVars
     \/ /\ CanWriteDirectly => ~Broken
        /\ outputBuffer_' = outputBuffer_ \o Drop(Bytes(m), n)
        /\ IF n < 2 /\ "out" \notin events_ THEN updateChannel(events_ \cup {"out"})
                                             ELSE UNCHANGED channelVars
  /\ pending' = pending \/ \E f \in Notice : pending' = Append(pending, f)

(* sendInLoop is one of these, or does nothing on a closed connection.     *)
LEMMA SendOutcome ==
  ASSUME NEW m \in 1..MaxMsgs, sendInLoop(m)
  PROVE  \/ UNCHANGED <<channelVars, streamVars, pending>> /\ state_ = "kDisconnected"
         \/ \E n \in 0..2 : SentNow(m, n)
<1>1. CASE state_ = "kDisconnected"
  BY <1>1 DEF sendInLoop
<1>2. CASE state_ # "kDisconnected"
  <2> DEFINE fault == CanWriteDirectly /\ Broken
             remaining(n) == IF fault THEN 0 ELSE 2 - n
             oldLen == Len(outputBuffer_)
             crosses(n) == /\ remaining(n) > 0
                           /\ oldLen + remaining(n) >= HighWaterMark
                           /\ oldLen < HighWaterMark
  <2>1. PICK n \in (IF CanWriteDirectly THEN writable(2) ELSE {0}) :
          /\ sent' = sent \o Take(Bytes(m), n)
          /\ accepted' = accepted \o Bytes(m)
          /\ outputBuffer_' = IF fault THEN outputBuffer_
                              ELSE outputBuffer_ \o Drop(Bytes(m), n)
          /\ pending' = CASE n = 2 -> Append(pending, <<"writeComplete", 0>>)
                          [] crosses(n) -> Append(pending, <<"highWaterMark", 0>>)
                          [] OTHER -> pending
          /\ IF remaining(n) > 0 /\ "out" \notin events_
             THEN updateChannel(events_ \cup {"out"})
             ELSE UNCHANGED channelVars
          /\ UNCHANGED finSent
    BY <1>2 DEF sendInLoop
  <2>2. n \in 0..2 /\ (n # 0 => CanWriteDirectly) /\ (fault => n = 0)
    BY DEF writable
  <2> HIDE DEF crosses
  <2>3. pending' = pending \/ \E f \in Notice : pending' = Append(pending, f)
    BY <2>1 DEF Notice
  <2>4. CASE fault
    <3>1. outputBuffer_' = outputBuffer_ /\ UNCHANGED channelVars
      BY <2>1, <2>4
    <3> QED
      BY <1>2, <2>1, <2>2, <2>3, <2>4, <3>1 DEF SentNow
  <2>5. CASE ~fault
    <3>1. /\ outputBuffer_' = outputBuffer_ \o Drop(Bytes(m), n)
          /\ IF n < 2 /\ "out" \notin events_ THEN updateChannel(events_ \cup {"out"})
                                               ELSE UNCHANGED channelVars
      BY <2>1, <2>2, <2>5
    <3> QED
      BY <1>2, <2>1, <2>2, <2>3, <2>5, <3>1 DEF SentNow
  <2> QED
    BY <2>4, <2>5
<1> QED
  BY <1>1, <1>2

-----------------------------------------------------------------------------
(***************************************************************************)
(* The types.  What a step does to each part of the state.                 *)
(***************************************************************************)

PhaseTyped ==
  /\ pc \in {"events", "functors"}
  /\ running \in {"none", "callback", "closing", "destroying"}
  /\ running = "destroying" => pc = "functors"
  /\ revents_ \subseteq {"in", "out", "hup"}
  /\ revents_ # {} => pc = "events" /\ functors = <<>>

QueuesTyped ==
  IsQueue(functors) /\ IsQueue(pending) /\ SendsFit(functors) /\ SendsFit(pending)

ChannelTyped ==
  /\ events_ \subseteq {"in", "out"}
  /\ index_ \in {"kNew", "kAdded", "kDeleted"} /\ addedToLoop_ \in BOOLEAN
  /\ addedToLoop_ = (index_ # "kNew")

StreamTyped ==
  /\ IsStream(outputBuffer_) /\ IsStream(sent) /\ IsStream(accepted)
  /\ finSent \in BOOLEAN

StateTyped ==
  /\ state_ \in {"kConnecting", "kConnected", "kDisconnecting", "kDisconnected"}
  /\ reading_ \in BOOLEAN
  /\ numMsgs \in 0..MaxMsgs
  /\ ups \in Nat /\ downs \in Nat /\ delayed \in Nat

OutsideTyped ==
  /\ callerPc \in [Callers -> {"out", "gone", "send", "shutdown", "forceClose"}]
  /\ owner \in {"has", "removed", "destroyed"} /\ removing \in Nat
  /\ alive \in BOOLEAN /\ peer \in {"open", "fin", "reset"}
  /\ failed \in {"none", "remove", "handleClose", "connectEstablished",
                 "ownerGone", "removeConnection", "useAfterFree",
                 "destructor", "channelDtor"}

(* The types, part by part. *)
LEMMA TypeParts ==
  TypeInv <=> /\ PhaseTyped /\ QueuesTyped /\ ChannelTyped
              /\ StreamTyped /\ StateTyped /\ OutsideTyped
BY DEF TypeInv, TypeOK, PhaseTyped, QueuesTyped, ChannelTyped, StreamTyped,
       StateTyped, OutsideTyped

(* The channel's interest changes, or the channel leaves epoll for good. *)
ChannelMoves ==
  \/ UNCHANGED channelVars
  \/ \E ev \in SUBSET {"in", "out"} : updateChannel(ev)
  \/ index_' = "kNew" /\ addedToLoop_' = FALSE /\ UNCHANGED events_

(* Every method that handles the channel moves it so. *)
LEMMA ChannelMethods ==
  ASSUME ChannelTyped
  PROVE  /\ \A m, n : SentNow(m, n) => ChannelMoves
         /\ handleClose => ChannelMoves
         /\ startReadInLoop => ChannelMoves
         /\ stopReadInLoop => ChannelMoves
         /\ removeChannel => ChannelMoves
         /\ \A n : wrote(n) => ChannelMoves
<1>1. /\ {} \in SUBSET {"in", "out"}
      /\ events_ \cup {"in"} \in SUBSET {"in", "out"}
      /\ events_ \ {"in"} \in SUBSET {"in", "out"}
      /\ events_ \cup {"out"} \in SUBSET {"in", "out"}
      /\ events_ \ {"out"} \in SUBSET {"in", "out"}
  BY DEF ChannelTyped
<1>2. \A m, n : SentNow(m, n) => ChannelMoves
  BY <1>1 DEF SentNow, ChannelMoves
<1>3. handleClose => ChannelMoves
  BY <1>1 DEF handleClose, ChannelMoves
<1>4. startReadInLoop => ChannelMoves
  BY <1>1 DEF startReadInLoop, ChannelMoves
<1>5. stopReadInLoop => ChannelMoves
  BY <1>1 DEF stopReadInLoop, ChannelMoves
<1>6. removeChannel => ChannelMoves
  BY DEF removeChannel, ChannelMoves, channelVars
<1>7. \A n : wrote(n) => ChannelMoves
  BY <1>1 DEF wrote, ChannelMoves, channelVars
<1> QED
  BY <1>2, <1>3, <1>4, <1>5, <1>6, <1>7

(* The message that a functor or a call sends is one of the messages. *)
LEMMA MessageSent ==
  ASSUME TypeInv
  PROVE  /\ numMsgs < MaxMsgs => numMsgs + 1 \in 1..MaxMsgs
         /\ functors # <<>> /\ Head(functors)[1] = "send"
              => Head(functors)[2] \in 1..MaxMsgs
<1>1. numMsgs < MaxMsgs => numMsgs + 1 \in 1..MaxMsgs
  BY TypeParts, TcpAssumption DEF StateTyped
<1>2. ASSUME functors # <<>>, Head(functors)[1] = "send"
      PROVE  Head(functors)[2] \in 1..MaxMsgs
  <2>1. IsQueue(functors) /\ SendsFit(functors)
    BY TypeParts DEF QueuesTyped
  <2>2. Head(functors) \in Functor /\ Head(functors)[2] >= 1
    BY <1>2, <2>1, TakenQueue
  <2> QED
    BY <2>2, TcpAssumption DEF Functor
<1> QED
  BY <1>1, <1>2

(* Every step moves the channel so, or leaves it.                          *)
LEMMA ChannelStep ==
  ASSUME TypeInv, Next
  PROVE  ChannelMoves
<1> USE DEF channelVars
<1>0. ChannelTyped
  BY TypeParts
<1>1. Shutdown \/ ForceClose \/ ForceCloseWithDelay \/ DelayedForceClose
        \/ CallbackReturns \/ CloseCallback => ChannelMoves
  BY DEF Shutdown, ForceClose, ForceCloseWithDelay, DelayedForceClose,
         CallbackReturns, CloseCallback, ChannelMoves
<1>2. Send => ChannelMoves
  BY <1>0, ChannelMethods, MessageSent, SendOutcome DEF Send, ChannelMoves
<1>3. StartRead \/ StopRead \/ DestroyedCallback => ChannelMoves
  BY <1>0, ChannelMethods DEF StartRead, StopRead, DestroyedCallback
<1>4. \A c \in Callers, op \in CallerOps :
        CallerChecks(c, op) \/ CallerReads(c, op) => ChannelMoves
  BY DEF CallerChecks, CallerReads, ChannelMoves
<1>5. \A c \in Callers :
        CallerSends(c) \/ CallerCloses(c) \/ CallerReleases(c) => ChannelMoves
  BY DEF CallerSends, CallerCloses, CallerReleases, ChannelMoves
<1>6. Poll \/ HandleReadData \/ HandleReadError \/ SwapPendingFunctors
        \/ ShutdownInLoop \/ CallUserFunctor => ChannelMoves
  BY DEF Poll, HandleReadData, HandleReadError, SwapPendingFunctors,
         ShutdownInLoop, CallUserFunctor, ChannelMoves
<1>7. OwnerRemoves \/ OwnerDestructs \/ Destruct \/ PeerStep => ChannelMoves
  BY DEF OwnerRemoves, OwnerDestructs, Destruct, PeerStep, ChannelMoves
<1>8. HandleHup \/ HandleReadEnd => ChannelMoves
  BY <1>0, ChannelMethods DEF HandleHup, HandleReadEnd
<1>9. HandleWrite => ChannelMoves
  BY <1>0, ChannelMethods DEF HandleWrite, ChannelMoves
<1>10. SendInLoop => ChannelMoves
  BY <1>0, ChannelMethods, MessageSent, SendOutcome
     DEF SendInLoop, Runs, ChannelMoves
<1>11. ForceCloseInLoop => ChannelMoves
  BY <1>0, ChannelMethods DEF ForceCloseInLoop, ChannelMoves
<1>12. ReadInLoop => ChannelMoves
  BY <1>0, ChannelMethods DEF ReadInLoop, ChannelMoves
<1>13. ConnectEstablished => ChannelMoves
  <2>1. events_ \cup {"in"} \in SUBSET {"in", "out"}
    BY <1>0 DEF ChannelTyped
  <2> QED
    BY <2>1 DEF ConnectEstablished, ChannelMoves
<1>14. ConnectDestroyed => ChannelMoves
  <2>1. {} \in SUBSET {"in", "out"}
    OBVIOUS
  <2> QED
    BY <1>0, <2>1, ChannelMethods DEF ConnectDestroyed, ChannelMoves
<1> HIDE DEF channelVars
<1> QED
  BY <1>1, <1>2, <1>3, <1>4, <1>5, <1>6, <1>7, <1>8, <1>9, <1>10, <1>11, <1>12,
     <1>13, <1>14, StepCases

(* Functors with these names are queued or run; in between, a batch is     *)
(* swapped out.                                                            *)
Takes(names) ==
  \/ functors' = functors
  \/ functors # <<>> /\ Head(functors)[1] \in names /\ functors' = Tail(functors)
Adds(names) ==
  \/ pending' = pending
  \/ \E f \in Functor : /\ f[1] \in names /\ (f[1] = "send" => f[2] >= 1)
                        /\ pending' = Append(pending, f)
Swaps == functors = <<>> /\ functors' = pending /\ pending' = <<>>
QueueMoves == Swaps \/ (Takes(FunctorNames) /\ Adds(FunctorNames))

(* Functors other than the sending one carry no message. *)
LEMMA NamedFunctors ==
  ASSUME NEW name \in FunctorNames
  PROVE  <<name, 0>> \in Functor
BY TcpAssumption DEF Functor

(* What the methods queue. *)
LEMMA QueueMethods ==
  /\ \A m, n : SentNow(m, n) => Adds({"writeComplete", "highWaterMark"})
  /\ \A n : wrote(n) => Adds({"writeComplete", "highWaterMark"})
  /\ \A name \in FunctorNames \ {"send"} : Queue(<<name, 0>>) => Adds({name})
  /\ Queue(<<"send", numMsgs + 1>>) /\ numMsgs + 1 \in 1..MaxMsgs => Adds({"send"})
  /\ \A names \in SUBSET FunctorNames : Adds(names) => Adds(FunctorNames)
<1>1. \A name \in FunctorNames \ {"send"} : Queue(<<name, 0>>) => Adds({name})
  BY NamedFunctors DEF Queue, Adds
<1>2. <<"writeComplete", 0>> \in Functor /\ <<"highWaterMark", 0>> \in Functor
  BY NamedFunctors DEF FunctorNames
<1>3. \A m, n : SentNow(m, n) => Adds({"writeComplete", "highWaterMark"})
  BY <1>2 DEF SentNow, Notice, Adds
<1>4. \A n : wrote(n) => Adds({"writeComplete", "highWaterMark"})
  BY <1>2 DEF wrote, Queue, Adds
<1>5. Queue(<<"send", numMsgs + 1>>) /\ numMsgs + 1 \in 1..MaxMsgs => Adds({"send"})
  <2>1. ASSUME numMsgs + 1 \in 1..MaxMsgs
        PROVE  /\ <<"send", numMsgs + 1>> \in Functor
               /\ <<"send", numMsgs + 1>>[1] = "send" /\ <<"send", numMsgs + 1>>[2] >= 1
    <3>1. \A k \in 1..MaxMsgs : k \in 0..MaxMsgs /\ k >= 1
      BY TcpAssumption
    <3> QED
      BY <2>1, <3>1 DEF Functor, FunctorNames
  <2> QED
    BY <2>1 DEF Queue, Adds
<1>6. \A names \in SUBSET FunctorNames : Adds(names) => Adds(FunctorNames)
  BY DEF Adds
<1> QED
  BY <1>1, <1>3, <1>4, <1>5, <1>6

(* The functors that run are taken from the batch. *)
LEMMA RunsTakes ==
  \A names \in SUBSET FunctorNames : Runs(names) => Takes(names) /\ Takes(FunctorNames)
BY DEF Runs, Takes

(* Every step does this to the queues.                                     *)
LEMMA QueueStep ==
  ASSUME TypeInv, Next
  PROVE  QueueMoves
<1> DEFINE Fn == FunctorNames
           Same == Takes(Fn) /\ Adds(Fn)
<1>a. functors' = functors => Takes(Fn)
  BY DEF Takes
<1>b. pending' = pending => Adds(Fn)
  BY DEF Adds
<1>c. /\ Adds({"writeComplete", "highWaterMark"}) => Adds(Fn)
      /\ \A name \in Fn \ {"send"} : Queue(<<name, 0>>) => Adds(Fn)
      /\ Queue(<<"send", numMsgs + 1>>) /\ numMsgs + 1 \in 1..MaxMsgs => Adds(Fn)
  <2>1. {"writeComplete", "highWaterMark"} \in SUBSET Fn /\ {"send"} \in SUBSET Fn
          /\ \A name \in Fn : {name} \in SUBSET Fn
    BY DEF FunctorNames
  <2> QED
    BY <2>1, QueueMethods
<1>d. {"forceClose", "shutdown", "startRead", "stopRead", "connectDestroyed",
       "connectEstablished", "writeComplete", "highWaterMark"} \subseteq Fn \ {"send"}
        /\ "send" \in Fn
  BY DEF FunctorNames
<1>e. \A names : names \subseteq Fn /\ Runs(names) => Takes(Fn)
  BY RunsTakes
<1> HIDE DEF Fn
<1>1. Shutdown \/ ForceCloseWithDelay \/ CallbackReturns \/ CloseCallback
        \/ StartRead \/ StopRead \/ DestroyedCallback => Same
  BY <1>a, <1>b
     DEF Shutdown, ForceCloseWithDelay, CallbackReturns, CloseCallback, StartRead,
         StopRead, DestroyedCallback, loopVars
<1>2. ForceClose => Same
  BY <1>a, <1>c, <1>d DEF ForceClose, loopVars
<1>3. DelayedForceClose => Same
  BY <1>a, <1>b, <1>c, <1>d DEF DelayedForceClose, loopVars
<1>4. Send => Same
  BY <1>a, <1>b, <1>c, QueueMethods, MessageSent, SendOutcome DEF Send, loopVars
<1>5. \A c \in Callers, op \in CallerOps :
        CallerChecks(c, op) \/ CallerReads(c, op) => Same
  BY <1>a, <1>b, <1>c, <1>d DEF CallerChecks, CallerReads, loopVars
<1>6. \A c \in Callers :
        CallerSends(c) \/ CallerCloses(c) \/ CallerReleases(c) => Same
  BY <1>a, <1>b, <1>c, <1>d, MessageSent
     DEF CallerSends, CallerCloses, CallerReleases, loopVars
<1>7. Poll \/ HandleReadData \/ HandleReadError \/ HandleHup \/ HandleReadEnd => Same
  BY <1>a, <1>b DEF Poll, HandleReadData, HandleReadError, HandleHup, HandleReadEnd
<1>8. HandleWrite => Same
  BY <1>a, <1>b, <1>c, QueueMethods DEF HandleWrite
<1>9. SwapPendingFunctors => Swaps
  BY DEF SwapPendingFunctors, InTask, Swaps
<1>10. ConnectEstablished \/ ShutdownInLoop \/ ForceCloseInLoop \/ ReadInLoop
         \/ CallUserFunctor \/ ConnectDestroyed => Same
  BY <1>b, <1>d, <1>e
     DEF ConnectEstablished, ShutdownInLoop, ForceCloseInLoop, ReadInLoop,
         CallUserFunctor, ConnectDestroyed
<1>11. SendInLoop => Same
  <2>1. ASSUME SendInLoop PROVE Same
    <3>1. Takes(Fn)
      BY <1>d, <1>e, <2>1 DEF SendInLoop
    <3>2. Head(functors)[2] \in 1..MaxMsgs /\ sendInLoop(Head(functors)[2])
      BY <2>1, MessageSent DEF SendInLoop, Runs
    <3>3. Adds(Fn)
      BY <1>b, <1>c, <3>2, QueueMethods, SendOutcome
    <3> QED
      BY <3>1, <3>3
  <2> QED
    BY <2>1
<1>12. OwnerRemoves \/ OwnerDestructs \/ Destruct \/ PeerStep => Same
  BY <1>a, <1>b, <1>c, <1>d
     DEF OwnerRemoves, eraseAndDestroy, OwnerDestructs, Destruct, PeerStep, loopVars
<1> QED
  <2>1. Same => QueueMoves
    BY DEF QueueMoves, Fn
  <2>2. Swaps => QueueMoves
    BY DEF QueueMoves
  <2> QED
    BY <1>1, <1>2, <1>3, <1>4, <1>5, <1>6, <1>7, <1>8, <1>9, <1>10, <1>11, <1>12,
       <2>1, <2>2, StepCases

(* The bytes stay where they are; as long as the connection is not closed  *)
(* EPOLLOUT stays asked for or not, and closing can only end it.           *)
StreamRests ==
  /\ UNCHANGED streamVars
  /\ peer = "reset" => peer' = "reset"
  /\ downs' \in Nat /\ downs' >= downs
  /\ "out" \in events_' => "out" \in events_
  /\ downs' = 0 /\ "out" \in events_ => "out" \in events_'

(* What is not about the stream but can change with it. *)
ConnectionRests == UNCHANGED <<downs, peer>>

Sends == ConnectionRests /\ \E m \in 1..MaxMsgs : \E n \in 0..2 : SentNow(m, n)
Writes ==
  /\ "out" \in events_ /\ ~Broken /\ ConnectionRests
  /\ \E n \in 1..Len(outputBuffer_) : wrote(n)
Shuts ==
  /\ finSent' = (finSent \/ "out" \notin events_)
  /\ UNCHANGED <<events_, outputBuffer_, sent, accepted>> /\ ConnectionRests
StreamMoves == StreamRests \/ Sends \/ Writes \/ Shuts

(* The methods that are not about the stream. *)
LEMMA RestingMethods ==
  ASSUME TypeInv, UNCHANGED streamVars, UNCHANGED peer
  PROVE  /\ UNCHANGED <<channelVars, historyVars>> => StreamRests
         /\ handleClose => StreamRests
         /\ UNCHANGED historyVars /\ (startReadInLoop \/ stopReadInLoop) => StreamRests
         /\ UNCHANGED historyVars /\ updateChannel(events_ \cup {"in"}) => StreamRests
         /\ updateChannel({}) /\ downs' = downs + 1 => StreamRests
         /\ UNCHANGED historyVars /\ removeChannel => StreamRests
<1>1. downs \in Nat /\ events_ \subseteq {"in", "out"}
  BY TypeParts DEF StateTyped, ChannelTyped
<1>2. downs' = downs => downs' \in Nat /\ downs' >= downs
  BY <1>1
<1>3. downs' = downs + 1 => downs' \in Nat /\ downs' >= downs /\ downs' # 0
  BY <1>1
<1>4. UNCHANGED <<channelVars, historyVars>> => StreamRests
  BY <1>2 DEF StreamRests, channelVars, historyVars
<1>5. updateChannel({}) /\ downs' = downs + 1 => StreamRests
  BY <1>3 DEF StreamRests, updateChannel
<1>6. handleClose => StreamRests
  BY <1>4, <1>5 DEF handleClose
<1>7. UNCHANGED historyVars /\ updateChannel(events_ \cup {"in"}) => StreamRests
  BY <1>2 DEF StreamRests, updateChannel, historyVars
<1>8. UNCHANGED historyVars /\ updateChannel(events_ \ {"in"}) => StreamRests
  BY <1>2 DEF StreamRests, updateChannel, historyVars
<1>9. UNCHANGED historyVars /\ (startReadInLoop \/ stopReadInLoop) => StreamRests
  BY <1>4, <1>7, <1>8 DEF startReadInLoop, stopReadInLoop
<1>10. UNCHANGED historyVars /\ removeChannel => StreamRests
  BY <1>2, <1>4 DEF removeChannel, StreamRests, historyVars
<1> QED
  BY <1>4, <1>5, <1>6, <1>7, <1>9, <1>10

(* Every step does this to the stream.                                     *)
LEMMA StreamStep ==
  ASSUME TypeInv, Next
  PROVE  StreamMoves
<1> DEFINE Rest == UNCHANGED streamVars /\ UNCHANGED peer
<1>a. Rest /\ UNCHANGED <<channelVars, historyVars>> => StreamMoves
  BY RestingMethods DEF StreamMoves
<1>b. Rest /\ handleClose => StreamMoves
  BY RestingMethods DEF StreamMoves
<1>c. Rest /\ UNCHANGED historyVars /\ (startReadInLoop \/ stopReadInLoop) => StreamMoves
  BY RestingMethods DEF StreamMoves
<1>d. Rest /\ UNCHANGED historyVars /\ removeChannel => StreamMoves
  BY RestingMethods DEF StreamMoves
<1>1. ForceClose \/ ForceCloseWithDelay \/ DelayedForceClose \/ CallbackReturns
        \/ CloseCallback => StreamMoves
  BY <1>a DEF ForceClose, ForceCloseWithDelay, DelayedForceClose, CallbackReturns,
              CloseCallback, outsideVars
<1>2. StartRead \/ StopRead => StreamMoves
  BY <1>c DEF StartRead, StopRead, outsideVars
<1>3. DestroyedCallback => StreamMoves
  BY <1>d DEF DestroyedCallback, outsideVars
<1>4. \A c \in Callers, op \in CallerOps :
        CallerChecks(c, op) \/ CallerReads(c, op) => StreamMoves
  BY <1>a DEF CallerChecks, CallerReads, outsideVars
<1>5. \A c \in Callers :
        CallerSends(c) \/ CallerCloses(c) \/ CallerReleases(c) => StreamMoves
  BY <1>a DEF CallerSends, CallerCloses, CallerReleases
<1>6. Poll \/ HandleReadData \/ HandleReadError \/ SwapPendingFunctors
        \/ CallUserFunctor \/ OwnerRemoves \/ OwnerDestructs \/ Destruct => StreamMoves
  BY <1>a DEF Poll, HandleReadData, HandleReadError, SwapPendingFunctors,
              CallUserFunctor, OwnerRemoves, OwnerDestructs, Destruct, outsideVars
<1>7. HandleHup \/ HandleReadEnd => StreamMoves
  BY <1>b DEF HandleHup, HandleReadEnd, outsideVars
<1>8. ForceCloseInLoop => StreamMoves
  BY <1>a, <1>b DEF ForceCloseInLoop, outsideVars
<1>9. ReadInLoop => StreamMoves
  <2>1. ReadInLoop => UNCHANGED events_ \/ startReadInLoop \/ stopReadInLoop
    BY DEF ReadInLoop, channelVars
  <2>2. UNCHANGED events_ /\ UNCHANGED historyVars /\ Rest => StreamRests
    <3>1. downs \in Nat
      BY TypeParts DEF StateTyped
    <3> QED
      BY <3>1 DEF StreamRests, historyVars
  <2> QED
    BY <1>c, <2>1, <2>2 DEF ReadInLoop, outsideVars, StreamMoves
<1>10. ConnectEstablished => StreamMoves
  <2>1. ASSUME ConnectEstablished PROVE StreamRests
    <3>1. /\ UNCHANGED streamVars /\ UNCHANGED peer /\ UNCHANGED downs
          /\ updateChannel(events_ \cup {"in"}) /\ downs \in Nat
      BY <2>1, TypeParts DEF ConnectEstablished, outsideVars, StateTyped
    <3> QED
      BY <3>1 DEF StreamRests, updateChannel
  <2> QED
    BY <2>1 DEF StreamMoves
<1>11. ConnectDestroyed => StreamMoves
  <2>1. ConnectDestroyed /\ state_ = "kConnected"
          => Rest /\ updateChannel({}) /\ downs' = downs + 1
    BY DEF ConnectDestroyed, outsideVars
  <2>2. ConnectDestroyed /\ state_ # "kConnected"
          => Rest /\ UNCHANGED historyVars /\ removeChannel
    BY DEF ConnectDestroyed, outsideVars
  <2> QED
    BY <1>d, <2>1, <2>2, RestingMethods DEF StreamMoves
<1>12. Send => StreamMoves
  <2>1. ASSUME Send PROVE StreamMoves
    <3>1. /\ numMsgs + 1 \in 1..MaxMsgs /\ sendInLoop(numMsgs + 1) /\ ConnectionRests
          /\ UNCHANGED historyVars /\ UNCHANGED peer
      BY <2>1, MessageSent DEF Send, ConnectionRests, historyVars, outsideVars
    <3> QED
      BY <1>a, <3>1, SendOutcome DEF StreamMoves, Sends
  <2> QED
    BY <2>1
<1>13. SendInLoop => StreamMoves
  <2>1. ASSUME SendInLoop PROVE StreamMoves
    <3>1. /\ Head(functors)[2] \in 1..MaxMsgs /\ sendInLoop(Head(functors)[2])
          /\ ConnectionRests /\ UNCHANGED historyVars /\ UNCHANGED peer
      BY <2>1, MessageSent DEF SendInLoop, Runs, ConnectionRests, historyVars, outsideVars
    <3> QED
      BY <1>a, <3>1, SendOutcome DEF StreamMoves, Sends
  <2> QED
    BY <2>1
<1>14. Shutdown \/ ShutdownInLoop => StreamMoves
  BY DEF Shutdown, ShutdownInLoop, shutdownInLoop, Shuts, ConnectionRests, StreamMoves,
         channelVars, historyVars, outsideVars
<1>15. HandleWrite => StreamMoves
  <2>1. ASSUME HandleWrite PROVE StreamMoves
    <3>1. ConnectionRests /\ UNCHANGED historyVars /\ UNCHANGED peer
      BY <2>1 DEF HandleWrite, ConnectionRests, historyVars, outsideVars
    <3>2. CASE "out" \in events_ /\ ~Broken
      BY <2>1, <3>1, <3>2 DEF HandleWrite, StreamMoves, Writes
    <3>3. CASE ~("out" \in events_ /\ ~Broken)
      BY <1>a, <2>1, <3>1, <3>3 DEF HandleWrite
    <3> QED
      BY <3>2, <3>3
  <2> QED
    BY <2>1
<1>16. PeerStep => StreamMoves
  <2>1. ASSUME PeerStep PROVE StreamRests
    <3>1. downs \in Nat
      BY TypeParts DEF StateTyped
    <3> QED
      BY <2>1, <3>1 DEF PeerStep, StreamRests, channelVars, historyVars
  <2> QED
    BY <2>1 DEF StreamMoves
<1> QED
  BY <1>1, <1>2, <1>3, <1>4, <1>5, <1>6, <1>7, <1>8, <1>9, <1>10, <1>11, <1>12,
     <1>13, <1>14, <1>15, <1>16, StepCases

(* Each part keeps its types. *)
LEMMA ChannelTypedStep ==
  ASSUME TypeInv, ChannelMoves
  PROVE  ChannelTyped'
<1>0. ChannelTyped
  BY TypeParts
<1>1. CASE UNCHANGED channelVars
  BY <1>0, <1>1 DEF ChannelTyped, channelVars
<1>2. CASE \E ev \in SUBSET {"in", "out"} : updateChannel(ev)
  BY <1>0, <1>2 DEF ChannelTyped, updateChannel, indexAfterUpdate
<1>3. CASE index_' = "kNew" /\ addedToLoop_' = FALSE /\ UNCHANGED events_
  BY <1>0, <1>3 DEF ChannelTyped
<1> QED
  BY <1>1, <1>2, <1>3 DEF ChannelMoves

(* The queues hold functors of known names.                                *)
LEMMA QueuesTypedStep ==
  ASSUME TypeInv, QueueMoves
  PROVE  QueuesTyped'
<1>0. QueuesTyped
  BY TypeParts
<1>1. CASE Swaps
  BY <1>0, <1>1, EmptyQueue DEF Swaps, QueuesTyped
<1>2. CASE Takes(FunctorNames) /\ Adds(FunctorNames)
  <2>1. IsQueue(functors') /\ SendsFit(functors')
    BY <1>0, <1>2, TakenQueue DEF Takes, QueuesTyped
  <2>2. IsQueue(pending') /\ SendsFit(pending')
    BY <1>0, <1>2, AppendedQueue DEF Adds, QueuesTyped
  <2> QED
    BY <2>1, <2>2 DEF QueuesTyped
<1> QED
  BY <1>1, <1>2 DEF QueueMoves

(* A stream is a sequence of bytes. *)
LEMMA StreamIsSeq == \A s : IsStream(s) <=> s \in Seq(Byte)
BY DEF IsStream, Byte

(* The streams are sequences of bytes.                                     *)
LEMMA StreamTypedStep ==
  ASSUME TypeInv, StreamMoves
  PROVE  StreamTyped'
<1>0. /\ outputBuffer_ \in Seq(Byte) /\ sent \in Seq(Byte) /\ accepted \in Seq(Byte)
      /\ finSent \in BOOLEAN
  BY TypeParts, StreamIsSeq DEF StreamTyped
<1> SUFFICES /\ outputBuffer_' \in Seq(Byte) /\ sent' \in Seq(Byte)
             /\ accepted' \in Seq(Byte) /\ finSent' \in BOOLEAN
  BY StreamIsSeq DEF StreamTyped
<1>1. CASE StreamRests
  BY <1>0, <1>1 DEF StreamRests, streamVars
<1>2. ASSUME NEW m \in 1..MaxMsgs, NEW n \in 0..2, SentNow(m, n)
      PROVE  /\ outputBuffer_' \in Seq(Byte) /\ sent' \in Seq(Byte)
             /\ accepted' \in Seq(Byte) /\ finSent' \in BOOLEAN
  <2>1. Bytes(m) \in Seq(Byte) /\ Len(Bytes(m)) = 2
    BY MessageIsBytes
  <2>2. Take(Bytes(m), n) \in Seq(Byte) /\ Drop(Bytes(m), n) \in Seq(Byte)
    BY <2>1, TakeAndDrop
  <2> QED
    BY <1>0, <1>2, <2>1, <2>2, Concatenated DEF SentNow
<1>3. ASSUME NEW n \in 1..Len(outputBuffer_), wrote(n)
      PROVE  /\ outputBuffer_' \in Seq(Byte) /\ sent' \in Seq(Byte)
             /\ accepted' \in Seq(Byte) /\ finSent' \in BOOLEAN
  <2>1. n \in 0..Len(outputBuffer_)
    BY <1>0
  <2>2. Take(outputBuffer_, n) \in Seq(Byte) /\ Drop(outputBuffer_, n) \in Seq(Byte)
    BY <1>0, <2>1, TakeAndDrop
  <2>3. finSent' \in BOOLEAN
    BY <1>0, <1>3 DEF wrote, shutdownInLoop
  <2> QED
    BY <1>0, <1>3, <2>2, <2>3, Concatenated DEF wrote
<1>4. CASE Shuts
  BY <1>0, <1>4 DEF Shuts
<1> QED
  BY <1>1, <1>2, <1>3, <1>4 DEF StreamMoves, Sends, Writes

(* handleClose, for what is not the channel's. *)
LEMMA CloseOutcome ==
  ASSUME TypeInv, handleClose
  PROVE  /\ state_' \in {state_, "kDisconnected"} /\ running' \in {running, "closing"}
         /\ ups' = ups /\ downs' \in Nat
         /\ failed' \in {failed, "handleClose"}
BY TypeParts DEF handleClose, historyVars, StateTyped

(* The loop is in one phase at a time.                                     *)
LEMMA PhaseTypedStep ==
  ASSUME TypeInv, Next
  PROVE  PhaseTyped'
<1>0. PhaseTyped /\ ChannelTyped
  BY TypeParts
<1> USE <1>0 DEF PhaseTyped, loopVars
<1>1. Send \/ Shutdown \/ ForceClose \/ ForceCloseWithDelay \/ StartRead \/ StopRead
        \/ DelayedForceClose => PhaseTyped'
  BY DEF Send, Shutdown, ForceClose, ForceCloseWithDelay, StartRead, StopRead,
         DelayedForceClose
<1>2. CallbackReturns \/ CloseCallback \/ DestroyedCallback => PhaseTyped'
  BY DEF CallbackReturns, CloseCallback, DestroyedCallback
<1>3. \A c \in Callers, op \in CallerOps :
        CallerChecks(c, op) \/ CallerReads(c, op) => PhaseTyped'
  BY DEF CallerChecks, CallerReads
<1>4. \A c \in Callers :
        CallerSends(c) \/ CallerCloses(c) \/ CallerReleases(c) => PhaseTyped'
  BY DEF CallerSends, CallerCloses, CallerReleases
<1>5. Poll => PhaseTyped'
  <2>1. mayReport \subseteq {"in", "out", "hup"}
    BY DEF mayReport, ChannelTyped
  <2> QED
    BY <2>1 DEF Poll, InTask
<1>6. HandleReadData \/ HandleReadError => PhaseTyped'
  BY DEF HandleReadData, HandleReadError, InEvents
<1>7. HandleHup \/ HandleReadEnd => PhaseTyped'
  BY CloseOutcome DEF HandleHup, HandleReadEnd, InEvents
<1>8. HandleWrite \/ SwapPendingFunctors => PhaseTyped'
  BY DEF HandleWrite, SwapPendingFunctors, InTask
<1>9. ConnectEstablished \/ SendInLoop \/ ShutdownInLoop \/ ReadInLoop
        \/ CallUserFunctor \/ ConnectDestroyed => PhaseTyped'
  BY DEF ConnectEstablished, SendInLoop, ShutdownInLoop, ReadInLoop, CallUserFunctor,
         ConnectDestroyed, Runs
<1>10. ForceCloseInLoop => PhaseTyped'
  BY CloseOutcome DEF ForceCloseInLoop, Runs
<1>11. OwnerRemoves \/ OwnerDestructs \/ Destruct \/ PeerStep => PhaseTyped'
  BY DEF OwnerRemoves, OwnerDestructs, Destruct, PeerStep
<1> HIDE <1>0 DEF PhaseTyped, loopVars
<1> DEFINE Good == PhaseTyped'
<1> HIDE DEF Good
<1> QED
  BY <1>1, <1>2, <1>3, <1>4, <1>5, <1>6, <1>7, <1>8, <1>9, <1>10, <1>11, StepCases
     DEF Good

(* The state of the connection keeps its types.                            *)
LEMMA StateTypedStep ==
  ASSUME TypeInv, Next
  PROVE  StateTyped'
<1>0. StateTyped
  BY TypeParts
<1> USE <1>0 DEF StateTyped, historyVars
<1>1. Shutdown \/ ForceClose \/ ForceCloseWithDelay \/ DelayedForceClose => StateTyped'
  BY DEF Shutdown, ForceClose, ForceCloseWithDelay, DelayedForceClose
<1>2. Send => StateTyped'
  BY MessageSent, TcpAssumption DEF Send
<1>3. StartRead \/ StopRead => StateTyped'
  BY DEF StartRead, StopRead, startReadInLoop, stopReadInLoop
<1>4. CallbackReturns \/ CloseCallback \/ DestroyedCallback => StateTyped'
  BY DEF CallbackReturns, CloseCallback, DestroyedCallback
<1>5. \A c \in Callers, op \in CallerOps :
        CallerChecks(c, op) \/ CallerReads(c, op) => StateTyped'
  BY DEF CallerChecks, CallerReads
<1>6. \A c \in Callers :
        CallerSends(c) \/ CallerCloses(c) \/ CallerReleases(c) => StateTyped'
  BY MessageSent, TcpAssumption DEF CallerSends, CallerCloses, CallerReleases
<1>7. Poll \/ HandleReadData \/ HandleReadError \/ HandleWrite \/ SwapPendingFunctors
        => StateTyped'
  BY DEF Poll, HandleReadData, HandleReadError, HandleWrite, SwapPendingFunctors
<1>8. HandleHup \/ HandleReadEnd => StateTyped'
  BY CloseOutcome DEF HandleHup, HandleReadEnd
<1>9. ForceCloseInLoop => StateTyped'
  BY CloseOutcome DEF ForceCloseInLoop
<1>10. ConnectEstablished \/ SendInLoop \/ ShutdownInLoop \/ CallUserFunctor
         \/ ConnectDestroyed => StateTyped'
  BY DEF ConnectEstablished, SendInLoop, ShutdownInLoop, CallUserFunctor, ConnectDestroyed
<1>11. ReadInLoop => StateTyped'
  BY DEF ReadInLoop, startReadInLoop, stopReadInLoop
<1>12. OwnerRemoves \/ OwnerDestructs \/ Destruct \/ PeerStep => StateTyped'
  BY DEF OwnerRemoves, OwnerDestructs, Destruct, PeerStep
<1> HIDE <1>0 DEF StateTyped, historyVars
<1> DEFINE Good == StateTyped'
<1> HIDE DEF Good
<1> QED
  BY <1>1, <1>2, <1>3, <1>4, <1>5, <1>6, <1>7, <1>8, <1>9, <1>10, <1>11, <1>12,
     StepCases DEF Good

(* So does what the other threads, the server and the peer do.             *)
LEMMA OutsideTypedStep ==
  ASSUME TypeInv, Next
  PROVE  OutsideTyped'
<1>0. OutsideTyped
  BY TypeParts
<1> USE <1>0 DEF OutsideTyped, outsideVars
<1>1. Send \/ Shutdown \/ ForceClose \/ ForceCloseWithDelay \/ StartRead \/ StopRead
        \/ DelayedForceClose => OutsideTyped'
  BY DEF Send, Shutdown, ForceClose, ForceCloseWithDelay, StartRead, StopRead,
         DelayedForceClose
<1>2. CallbackReturns \/ CloseCallback => OutsideTyped'
  BY DEF CallbackReturns, CloseCallback
<1>3. DestroyedCallback => OutsideTyped'
  BY DEF DestroyedCallback, removeChannel
<1>4. \A c \in Callers, op \in CallerOps :
        CallerChecks(c, op) \/ CallerReads(c, op) => OutsideTyped'
  BY DEF CallerChecks, CallerReads
<1>5. \A c \in Callers :
        CallerSends(c) \/ CallerCloses(c) \/ CallerReleases(c) => OutsideTyped'
  BY DEF CallerSends, CallerCloses, CallerReleases
<1>6. Poll \/ HandleReadData \/ HandleReadError \/ HandleWrite \/ SwapPendingFunctors
        => OutsideTyped'
  BY DEF Poll, HandleReadData, HandleReadError, HandleWrite, SwapPendingFunctors
<1>7. HandleHup \/ HandleReadEnd => OutsideTyped'
  BY CloseOutcome DEF HandleHup, HandleReadEnd
<1>8. ForceCloseInLoop => OutsideTyped'
  BY CloseOutcome DEF ForceCloseInLoop
<1>9. SendInLoop \/ ShutdownInLoop \/ ReadInLoop \/ CallUserFunctor => OutsideTyped'
  BY DEF SendInLoop, ShutdownInLoop, ReadInLoop, CallUserFunctor
<1>10. ConnectEstablished => OutsideTyped'
  BY DEF ConnectEstablished
<1>11. ConnectDestroyed => OutsideTyped'
  BY DEF ConnectDestroyed, removeChannel
<1>12. OwnerRemoves => OutsideTyped'
  BY DEF OwnerRemoves, eraseAndDestroy
<1>13. OwnerDestructs \/ Destruct \/ PeerStep => OutsideTyped'
  BY DEF OwnerDestructs, Destruct, PeerStep
<1> HIDE <1>0 DEF OutsideTyped, outsideVars
<1> DEFINE Good == OutsideTyped'
<1> HIDE DEF Good
<1> QED
  BY <1>1, <1>2, <1>3, <1>4, <1>5, <1>6, <1>7, <1>8, <1>9, <1>10, <1>11, <1>12,
     <1>13, StepCases DEF Good

(* The types hold at first and at every step. *)
LEMMA TypeInvInit ==
  ASSUME Init
  PROVE  TypeInv
<1>1. PhaseTyped /\ OutsideTyped /\ ChannelTyped
  <2>1. PhaseTyped
    BY DEF Init, PhaseTyped
  <2>2. ChannelTyped
    BY DEF Init, ChannelTyped
  <2>3. OutsideTyped
    BY DEF Init, OutsideTyped
  <2> QED
    BY <2>1, <2>2, <2>3
<1>2. StateTyped
  <2>1. 0 \in 0..MaxMsgs
    BY TcpAssumption
  <2> QED
    BY <2>1 DEF Init, StateTyped
<1>3. QueuesTyped
  <2>1. <<"connectEstablished", 0>> \in Functor
    BY NamedFunctors DEF FunctorNames
  <2>2. /\ pending = Append(<<>>, <<"connectEstablished", 0>>)
        /\ <<"connectEstablished", 0>>[1] # "send"
    BY DEF Init
  <2>3. IsQueue(pending) /\ SendsFit(pending)
    BY <2>1, <2>2, EmptyQueue, AppendedQueue
  <2> QED
    BY <2>3, EmptyQueue DEF Init, QueuesTyped
<1>4. StreamTyped
  BY StreamIsSeq, EmptySeq DEF Init, StreamTyped
<1> QED
  BY <1>1, <1>2, <1>3, <1>4, TypeParts

(* Every step keeps the types.                                             *)
LEMMA TypeInvStep ==
  ASSUME TypeInv, [Next]_vars
  PROVE  TypeInv'
<1>1. CASE Next
  <2>1. /\ PhaseTyped' /\ QueuesTyped' /\ ChannelTyped'
        /\ StreamTyped' /\ StateTyped' /\ OutsideTyped'
    BY <1>1, ChannelStep, QueueStep, StreamStep, ChannelTypedStep, QueuesTypedStep,
       StreamTypedStep, PhaseTypedStep, StateTypedStep, OutsideTypedStep
  <2>2. TypeInv' <=> /\ PhaseTyped' /\ QueuesTyped' /\ ChannelTyped'
                     /\ StreamTyped' /\ StateTyped' /\ OutsideTyped'
    BY TypeParts, PTL
  <2> QED
    BY <2>1, <2>2
<1>2. CASE UNCHANGED vars
  BY <1>2 DEF vars, loopVars, channelVars, streamVars, historyVars, outsideVars,
              TypeInv, TypeOK, IsQueue, IsStream, SendsFit
<1> QED
  BY <1>1, <1>2

(* Every reachable state is well typed, whatever is called in whichever    *)
(* thread: a queue holds only functors that the methods queue, events are  *)
(* left over only in the loop's event phase, and the channel knows whether *)
(* epoll does (Channel::update, Channel::remove).                          *)
THEOREM TypesInvariant == Spec => []TypeInv
<1>1. Init => TypeInv
  BY TypeInvInit
<1>2. TypeInv /\ [Next]_vars => TypeInv'
  BY TypeInvStep
<1> QED
  BY <1>1, <1>2, PTL DEF Spec

(* The same, as the run states it. *)
THEOREM TypesHold == Spec => []TypeOK
<1>1. TypeInv => TypeOK
  BY DEF TypeInv
<1> QED
  BY <1>1, TypesInvariant, PTL

-----------------------------------------------------------------------------
(***************************************************************************)
(* The stream of bytes.                                                    *)
(***************************************************************************)

(* The peer or an earlier FIN makes writes fail, and nothing waits for     *)
(* EPOLLOUT: what is sent from now on is given up at once.                 *)
Lost == Broken /\ outputBuffer_ = <<>> /\ "out" \notin events_

(* EPOLLOUT is asked for only while bytes wait, and until the connection   *)
(* is closed whenever they do.                                             *)
InterestFits ==
  /\ "out" \in events_ => outputBuffer_ # <<>>
  /\ downs = 0 /\ "out" \notin events_ => outputBuffer_ = <<>>

(* What was written and what waits is what was accepted, until a write     *)
(* fails; then it stays a prefix.  While the connection is up a FIN comes  *)
(* after everything.                                                       *)
BytesFit ==
  /\ sent \o outputBuffer_ = accepted \/ Lost
  /\ IsPrefix(sent \o outputBuffer_, accepted)
  /\ finSent /\ downs = 0 => outputBuffer_ = <<>>

StreamInv == InterestFits /\ BytesFit

(* The types of the bytes alone. *)
LEMMA Streams ==
  ASSUME TypeInv
  PROVE  outputBuffer_ \in Seq(Byte) /\ sent \in Seq(Byte) /\ accepted \in Seq(Byte)
BY TypeParts, StreamIsSeq DEF StreamTyped

(* A step that is not about the stream keeps its invariant.                *)
LEMMA StreamRestsStep ==
  ASSUME TypeInv, StreamInv, StreamRests
  PROVE  StreamInv'
<1>1. downs \in Nat
  BY TypeParts DEF StateTyped
<1>2. downs' = 0 => downs = 0
  BY <1>1 DEF StreamRests
<1>3. InterestFits'
  BY <1>2 DEF StreamRests, streamVars, StreamInv, InterestFits
<1>4. Lost => Lost'
  BY DEF StreamRests, streamVars, Lost, Broken
<1>5. BytesFit'
  BY <1>2, <1>4 DEF StreamRests, streamVars, StreamInv, BytesFit
<1> QED
  BY <1>3, <1>5 DEF StreamInv

(* shutdownInLoop keeps it: the FIN waits for the bytes.                   *)
LEMMA ShutsStep ==
  ASSUME TypeInv, StreamInv, Shuts
  PROVE  StreamInv'
<1>1. InterestFits'
  BY DEF Shuts, ConnectionRests, StreamInv, InterestFits
<1>2. Lost => Lost'
  BY DEF Shuts, ConnectionRests, Lost, Broken
<1>3. BytesFit'
  BY <1>2 DEF Shuts, ConnectionRests, StreamInv, BytesFit, InterestFits
<1> QED
  BY <1>1, <1>3 DEF StreamInv

(* handleWrite keeps it: the bytes move from the buffer to the kernel.     *)
LEMMA WritesStep ==
  ASSUME TypeInv, StreamInv, Writes
  PROVE  StreamInv'
<1>1. PICK n \in 1..Len(outputBuffer_) : wrote(n)
  BY DEF Writes
<1> DEFINE T == Take(outputBuffer_, n)
           D == Drop(outputBuffer_, n)
<1>2. /\ n \in 0..Len(outputBuffer_) /\ Len(outputBuffer_) \in Nat
      /\ n <= Len(outputBuffer_)
  BY Streams
<1>3. /\ T \in Seq(Byte) /\ D \in Seq(Byte) /\ Len(D) = Len(outputBuffer_) - n
      /\ T \o D = outputBuffer_
      /\ n = Len(outputBuffer_) => D = <<>>
  BY <1>2, Streams, TakeAndDrop
<1>4. n # Len(outputBuffer_) => D # <<>>
  BY <1>2, <1>3
<1>5. /\ sent' = sent \o T /\ outputBuffer_' = D /\ accepted' = accepted
      /\ downs' = downs /\ "out" \in events_ /\ ~Broken
  BY <1>1 DEF Writes, wrote, ConnectionRests
<1> HIDE DEF T, D
<1>6. InterestFits'
  <2>1. CASE n = Len(outputBuffer_)
    BY <1>1, <1>3, <1>5, <2>1 DEF wrote, updateChannel, InterestFits
  <2>2. CASE n # Len(outputBuffer_)
    BY <1>1, <1>4, <1>5, <2>2 DEF wrote, channelVars, InterestFits
  <2> QED
    BY <2>1, <2>2
<1>7. (sent \o T) \o D = sent \o (T \o D)
  BY <1>3, Streams, ThreeStreams
<1>8. sent' \o outputBuffer_' = sent \o outputBuffer_
  BY <1>3, <1>5, <1>7
<1>9. sent \o outputBuffer_ = accepted
  BY <1>5 DEF StreamInv, BytesFit, Lost
<1>10. finSent' /\ downs' = 0 => outputBuffer_' = <<>>
  <2>1. n # Len(outputBuffer_) => finSent' = finSent
    BY <1>1 DEF wrote
  <2> QED
    BY <1>3, <1>5, <2>1 DEF Broken
<1>11. IsPrefix(accepted, accepted)
  BY Streams, PrefixOfConcat
<1>12. sent' \o outputBuffer_' = accepted' /\ IsPrefix(sent' \o outputBuffer_', accepted')
  BY <1>5, <1>8, <1>9, <1>11
<1>13. BytesFit'
  BY <1>10, <1>12 DEF BytesFit
<1> QED
  BY <1>6, <1>13 DEF StreamInv

(* sendInLoop keeps it: bytes go directly only if none wait.               *)
LEMMA SendsStep ==
  ASSUME TypeInv, StreamInv, Sends
  PROVE  StreamInv'
<1>1. PICK m \in 1..MaxMsgs, n \in 0..2 : SentNow(m, n)
  BY DEF Sends
<1> DEFINE B == Bytes(m)
           T == Take(B, n)
           D == Drop(B, n)
<1>2. B \in Seq(Byte) /\ Len(B) = 2
  BY MessageIsBytes
<1>3. /\ T \in Seq(Byte) /\ D \in Seq(Byte) /\ Len(D) = 2 - n
      /\ T \o D = B
      /\ n = 0 => T = <<>> /\ D = B
      /\ n = 2 => D = <<>>
  BY <1>2, TakeAndDrop
<1>4. n < 2 => D # <<>>
  BY <1>3
<1>5. n < 2 \/ n = 2
  OBVIOUS
<1>6. /\ n # 0 => CanWriteDirectly
      /\ sent' = sent \o T /\ accepted' = accepted \o B
      /\ finSent' = finSent /\ downs' = downs /\ peer' = peer
  BY <1>1 DEF Sends, SentNow, ConnectionRests
<1>7. CASE /\ CanWriteDirectly /\ Broken /\ n = 0
           /\ outputBuffer_' = outputBuffer_ /\ UNCHANGED channelVars
  <2>1. sent' = sent /\ outputBuffer_' = <<>> /\ outputBuffer_ = <<>>
    BY <1>3, <1>6, <1>7, Streams, ConcatEmptySeq DEF CanWriteDirectly
  <2>2. Lost'
    BY <1>6, <1>7 DEF Lost, Broken, CanWriteDirectly, channelVars
  <2>3. sent \o outputBuffer_ \in Seq(Byte) /\ IsPrefix(sent \o outputBuffer_, accepted)
    BY Streams, Concatenated DEF StreamInv, BytesFit
  <2>4. IsPrefix(sent \o outputBuffer_, accepted \o B)
    BY <1>2, <2>3, Streams, PrefixStays
  <2>5. BytesFit'
    BY <1>6, <2>1, <2>2, <2>4 DEF BytesFit
  <2>6. InterestFits'
    BY <1>6, <1>7, <2>1 DEF StreamInv, InterestFits, channelVars
  <2> QED
    BY <2>5, <2>6 DEF StreamInv
<1>8. CASE /\ CanWriteDirectly => ~Broken
           /\ outputBuffer_' = outputBuffer_ \o D
           /\ IF n < 2 /\ "out" \notin events_ THEN updateChannel(events_ \cup {"out"})
                                               ELSE UNCHANGED channelVars
  <2>1. ~Lost
    BY <1>8 DEF Lost, CanWriteDirectly
  <2>2. sent \o outputBuffer_ = accepted
    BY <2>1 DEF StreamInv, BytesFit
  <2>3. sent' \o outputBuffer_' = accepted \o B
    <3>1. CASE n = 0
      <4>1. sent' = sent /\ outputBuffer_' = outputBuffer_ \o B
        BY <1>3, <1>6, <1>8, <3>1, Streams, ConcatEmptySeq
      <4>2. (sent \o outputBuffer_) \o B = sent \o (outputBuffer_ \o B)
        BY <1>2, Streams, ThreeStreams
      <4> QED
        BY <2>2, <4>1, <4>2
    <3>2. CASE n # 0
      <4>1. outputBuffer_ = <<>>
        BY <1>6, <3>2 DEF CanWriteDirectly
      <4>2. outputBuffer_' = D /\ sent = accepted
        BY <1>3, <1>8, <2>2, <4>1, Streams, ConcatEmptySeq
      <4>3. (sent \o T) \o D = sent \o (T \o D)
        BY <1>3, Streams, ThreeStreams
      <4> QED
        BY <1>3, <1>6, <4>2, <4>3
    <3> QED
      BY <3>1, <3>2
  <2>4. accepted \o B \in Seq(Byte)
    BY <1>2, Streams, Concatenated
  <2>5. IsPrefix(accepted \o B, accepted \o B)
    BY <2>4, PrefixOfConcat
  <2>6. finSent' /\ downs' = 0 => outputBuffer_' = <<>>
    <3>1. ~(finSent /\ downs = 0)
      BY <1>8 DEF StreamInv, BytesFit, InterestFits, CanWriteDirectly, Broken
    <3> QED
      BY <1>6, <3>1
  <2>7. BytesFit'
    BY <1>6, <2>3, <2>5, <2>6 DEF BytesFit
  <2>8. /\ outputBuffer_' = <<>> <=> outputBuffer_ = <<>> /\ D = <<>>
    BY <1>3, <1>8, Streams, ConcatEqualIffEmpty
  <2>9. InterestFits'
    <3>1. CASE n < 2 /\ "out" \notin events_
      BY <1>4, <1>8, <2>8, <3>1 DEF InterestFits, updateChannel
    <3>2. CASE n < 2 /\ "out" \in events_
      BY <1>4, <1>8, <2>8, <3>2 DEF InterestFits, channelVars
    <3>3. CASE n = 2
      BY <1>3, <1>6, <1>8, <2>8, <3>3 DEF StreamInv, InterestFits, channelVars
    <3> QED
      BY <1>5, <3>1, <3>2, <3>3
  <2> QED
    BY <2>7, <2>9 DEF StreamInv
<1> QED
  BY <1>1, <1>7, <1>8 DEF SentNow

(* The invariant of the stream is inductive together with the types: the   *)
(* prefix and the FIN depend on EPOLLOUT being asked for exactly while     *)
(* bytes wait, whichever of sendInLoop, handleWrite, shutdownInLoop and    *)
(* handleClose comes next.                                                 *)
THEOREM StreamInvariant == Spec => [](TypeInv /\ StreamInv)
<1>1. Init => TypeInv /\ StreamInv
  <2>1. ASSUME Init PROVE StreamInv
    <3>1. sent \o outputBuffer_ = <<>> /\ accepted = <<>> /\ <<>> \in Seq(Byte)
      BY <2>1, EmptySeq, ConcatEmptySeq DEF Init
    <3>2. IsPrefix(sent \o outputBuffer_, accepted)
      BY <3>1, PrefixOfConcat
    <3> QED
      BY <2>1, <3>1, <3>2 DEF Init, StreamInv, InterestFits, BytesFit
  <2> QED
    BY <2>1, TypeInvInit
<1>2. TypeInv /\ StreamInv /\ [Next]_vars => (TypeInv /\ StreamInv)'
  <2> SUFFICES ASSUME TypeInv, StreamInv, [Next]_vars
               PROVE  TypeInv' /\ StreamInv'
    OBVIOUS
  <2>1. CASE Next
    BY <2>1, StreamStep, StreamRestsStep, ShutsStep, WritesStep, SendsStep, TypeInvStep
       DEF StreamMoves
  <2>2. CASE UNCHANGED vars
    <3>1. UNCHANGED <<streamVars, downs, events_, peer>>
      BY <2>2 DEF vars, channelVars, historyVars, outsideVars
    <3>2. StreamInv'
      BY <3>1 DEF streamVars, StreamInv, InterestFits, BytesFit, Lost, Broken
    <3> QED
      BY <3>2, TypeInvStep
  <2> QED
    BY <2>1, <2>2
<1> QED
  BY <1>1, <1>2, PTL DEF Spec

(* For any callers and calls, in any order: what the kernel took, followed *)
(* by what waits, is what sendInLoop was given, in that order, complete    *)
(* until a write fails and a prefix after that; and a FIN never overtakes  *)
(* bytes that wait while the connection is up (sendInLoop, handleWrite,    *)
(* shutdownInLoop).                                                        *)
THEOREM BytesStayInOrder == Spec => []BytesInOrder
<1>1. StreamInv => BytesInOrder
  BY DEF StreamInv, BytesFit, BytesInOrder, Lost
<1> QED
  BY <1>1, StreamInvariant, PTL

-----------------------------------------------------------------------------
(***************************************************************************)
(* EPOLLOUT.  shutdown and forceClose in another thread set state_ after   *)
(* they have tested it, and may so turn a closed connection back into one  *)
(* that is being closed; without them it stays closed.                     *)
(***************************************************************************)

(* No other thread is about to set state_. *)
CallersOnlySend == \A c \in Callers : callerPc[c] \in {"out", "gone", "send"}

(* A connection that is not in kDisconnected has not been reported down. *)
OpenFits == failed = "none" /\ state_ # "kDisconnected" => downs = 0

OpenInv == TypeInv /\ CallersOnlySend /\ OpenFits

(* No other thread comes to set state_.                                    *)
LEMMA CallersOnlySendStep ==
  ASSUME CallerOps \cap {"shutdown", "forceClose"} = {}, OpenInv, Next
  PROVE  CallersOnlySend'
<1>1. callerPc' = callerPc => CallersOnlySend'
  BY DEF OpenInv, CallersOnlySend
<1>2. ASSUME NEW c \in Callers, NEW place \in {"out", "gone", "send"},
             callerPc' = [callerPc EXCEPT ![c] = place]
      PROVE  CallersOnlySend'
  BY <1>2, TypeParts DEF OpenInv, CallersOnlySend, OutsideTyped
<1> USE DEF outsideVars
<1>3. Send \/ Shutdown \/ ForceClose \/ ForceCloseWithDelay \/ StartRead \/ StopRead
        \/ DelayedForceClose \/ CallbackReturns \/ CloseCallback \/ DestroyedCallback
        => callerPc' = callerPc
  BY DEF Send, Shutdown, ForceClose, ForceCloseWithDelay, StartRead, StopRead,
         DelayedForceClose, CallbackReturns, CloseCallback, DestroyedCallback
<1>4. Poll \/ HandleReadData \/ HandleReadError \/ HandleWrite \/ SwapPendingFunctors
        \/ HandleHup \/ HandleReadEnd => callerPc' = callerPc
  BY DEF Poll, HandleReadData, HandleReadError, HandleWrite, SwapPendingFunctors,
         HandleHup, HandleReadEnd
<1>5. ConnectEstablished \/ SendInLoop \/ ShutdownInLoop \/ ForceCloseInLoop
        \/ ReadInLoop \/ CallUserFunctor \/ ConnectDestroyed => callerPc' = callerPc
  BY DEF ConnectEstablished, SendInLoop, ShutdownInLoop, ForceCloseInLoop, ReadInLoop,
         CallUserFunctor, ConnectDestroyed
<1>6. OwnerRemoves \/ OwnerDestructs \/ Destruct \/ PeerStep => callerPc' = callerPc
  BY DEF OwnerRemoves, OwnerDestructs, Destruct, PeerStep
<1>7. \A c \in Callers, op \in CallerOps : CallerChecks(c, op) => CallersOnlySend'
  <2>1. \A op \in CallerOps \cap {"send", "shutdown", "forceClose"} : op = "send"
    OBVIOUS
  <2> QED
    BY <1>2, <2>1 DEF CallerChecks
<1>8. \A c \in Callers, op \in CallerOps : CallerReads(c, op) => CallersOnlySend'
  BY <1>1 DEF CallerReads
<1>9. \A c \in Callers :
        CallerSends(c) \/ CallerCloses(c) \/ CallerReleases(c) => CallersOnlySend'
  BY <1>2 DEF CallerSends, CallerCloses, CallerReleases
<1> DEFINE Good == CallersOnlySend'
<1> HIDE DEF Good
<1> QED
  BY <1>1, <1>3, <1>4, <1>5, <1>6, <1>7, <1>8, <1>9, StepCases DEF Good

(* Being reported down and leaving the open states go together.            *)
LEMMA OpenFitsStep ==
  ASSUME OpenInv, Next
  PROVE  OpenFits'
<1>0. OpenFits /\ (NotFailed /\ state_ \in Open => downs = 0)
  BY DEF OpenInv, OpenFits, NotFailed, Open
<1> USE <1>0 DEF OpenFits, NotFailed
<1>1. UNCHANGED <<state_, downs>> /\ NotFailed => OpenFits'
  OBVIOUS
<1>2. NotFailed /\ state_ \in Open /\ UNCHANGED downs => OpenFits'
  OBVIOUS
<1>3. NotFailed /\ handleClose => OpenFits'
  BY DEF handleClose, historyVars
<1> HIDE <1>0 DEF OpenFits, NotFailed
<1> USE DEF historyVars
<1>4. Send \/ StartRead \/ StopRead => OpenFits'
  BY <1>1 DEF Send, StartRead, StopRead, InUserCode
<1>5. Shutdown \/ ForceClose \/ ForceCloseWithDelay => OpenFits'
  BY <1>2 DEF Shutdown, ForceClose, ForceCloseWithDelay, InUserCode, Open
<1>6. DelayedForceClose => OpenFits'
  BY <1>1, <1>2 DEF DelayedForceClose, InEvents
<1>7. CallbackReturns \/ CloseCallback \/ DestroyedCallback => OpenFits'
  BY <1>1 DEF CallbackReturns, CloseCallback, DestroyedCallback
<1>8. \A c \in Callers, op \in CallerOps :
        CallerChecks(c, op) \/ CallerReads(c, op) => OpenFits'
  BY <1>1 DEF CallerChecks, CallerReads
<1>9. \A c \in Callers :
        CallerSends(c) \/ CallerCloses(c) \/ CallerReleases(c) => OpenFits'
  <2>1. \A c \in Callers : ~CallerCloses(c)
    BY DEF CallerCloses, OpenInv, CallersOnlySend
  <2> QED
    BY <1>1, <2>1 DEF CallerSends, CallerReleases
<1>10. Poll \/ HandleReadData \/ HandleReadError \/ HandleWrite \/ SwapPendingFunctors
         => OpenFits'
  BY <1>1 DEF Poll, HandleReadData, HandleReadError, HandleWrite, SwapPendingFunctors,
              InEvents
<1>11. HandleHup \/ HandleReadEnd => OpenFits'
  BY <1>3 DEF HandleHup, HandleReadEnd, InEvents
<1>12. ConnectEstablished => OpenFits'
  BY <1>0 DEF ConnectEstablished, Runs, OpenFits, NotFailed
<1>13. SendInLoop \/ ShutdownInLoop \/ ReadInLoop \/ CallUserFunctor => OpenFits'
  BY <1>1 DEF SendInLoop, ShutdownInLoop, ReadInLoop, CallUserFunctor, Runs
<1>14. ForceCloseInLoop => OpenFits'
  BY <1>1, <1>3 DEF ForceCloseInLoop, Runs
<1>15. ConnectDestroyed => OpenFits'
  <2>1. ConnectDestroyed /\ state_ = "kConnected" => OpenFits'
    BY DEF ConnectDestroyed, OpenFits
  <2>2. ConnectDestroyed /\ state_ # "kConnected" => OpenFits'
    BY <1>1 DEF ConnectDestroyed, Runs
  <2> QED
    BY <2>1, <2>2
<1>16. OwnerRemoves \/ OwnerDestructs \/ Destruct \/ PeerStep => OpenFits'
  BY <1>1 DEF OwnerRemoves, OwnerDestructs, Destruct, PeerStep
<1> DEFINE Good == OpenFits'
<1> HIDE DEF Good
<1> QED
  BY <1>4, <1>5, <1>6, <1>7, <1>8, <1>9, <1>10, <1>11, <1>12, <1>13, <1>14, <1>15,
     <1>16, StepCases DEF Good

(* A connection that no other thread shuts down or closes is reported down *)
(* only in kDisconnected, which it then does not leave (handleClose,       *)
(* setState).                                                              *)
THEOREM OpenInvariant ==
  CallerOps \cap {"shutdown", "forceClose"} = {} => (Spec => []OpenInv)
<1> SUFFICES ASSUME CallerOps \cap {"shutdown", "forceClose"} = {}
             PROVE  Spec => []OpenInv
  OBVIOUS
<1>1. Init => OpenInv
  BY TypeInvInit DEF Init, OpenInv, CallersOnlySend, OpenFits
<1>2. OpenInv /\ [Next]_vars => OpenInv'
  <2> SUFFICES ASSUME OpenInv, [Next]_vars
               PROVE  OpenInv'
    OBVIOUS
  <2>1. TypeInv'
    BY TypeInvStep DEF OpenInv
  <2>2. CallersOnlySend' /\ OpenFits'
    <3>1. CASE Next
      BY <3>1, CallersOnlySendStep, OpenFitsStep
    <3>2. CASE UNCHANGED vars
      <4>1. UNCHANGED <<callerPc, state_, downs, failed>>
        BY <3>2 DEF vars, historyVars, outsideVars
      <4> QED
        BY <4>1 DEF OpenInv, CallersOnlySend, OpenFits
    <3> QED
      BY <3>1, <3>2
  <2> QED
    BY <2>1, <2>2 DEF OpenInv
<1> QED
  BY <1>1, <1>2, PTL DEF Spec

(* As long as no other thread shuts the connection down or closes it,      *)
(* bytes wait in the output buffer of an open connection exactly when the  *)
(* channel asks for EPOLLOUT (sendInLoop, handleWrite, disableAll).        *)
THEOREM InterestFollowsBuffer ==
  CallerOps \cap {"shutdown", "forceClose"} = {} => (Spec => []WriteInterest)
<1> SUFFICES ASSUME CallerOps \cap {"shutdown", "forceClose"} = {}
             PROVE  Spec => []WriteInterest
  OBVIOUS
<1>1. OpenInv /\ StreamInv => WriteInterest
  BY DEF OpenInv, OpenFits, StreamInv, InterestFits, WriteInterest, Open
<1>2. Spec => []OpenInv
  BY OpenInvariant
<1> QED
  BY <1>1, <1>2, StreamInvariant, PTL

-----------------------------------------------------------------------------
(***************************************************************************)
(* The life of the connection, under the hypothesis that other threads     *)
(* only send, that nobody stops reading and that the server outlives it.   *)
(***************************************************************************)

Orderly ==
  /\ CallerOps \subseteq {"send"}
  /\ LoopOps \cap {"startRead", "stopRead"} = {}
  /\ ~OwnerDestroys

(* A functor of this name is to run in the io loop, and only once.         *)
Queued(n) == Has(functors, n) \/ Has(pending, n)
Single(n) ==
  /\ Once(functors, n) /\ Once(pending, n)
  /\ ~(Has(functors, n) /\ Has(pending, n))

(* Each state_ with what the channel, epoll and the user know of it.       *)
StateFits ==
  /\ state_ = "kConnecting" => events_ = {} /\ index_ = "kNew" /\ ups = 0 /\ downs = 0
  /\ state_ \in Open => "in" \in events_ /\ index_ = "kAdded" /\ ups = 1 /\ downs = 0
  /\ state_ = "kDisconnected" =>
       events_ = {} /\ index_ \in {"kNew", "kDeleted"} /\ ups = 1 /\ downs = 1
  /\ state_ \notin Open => revents_ \subseteq {"out"}

(* A message can only be sent once the connection is established. *)
NothingSentYet ==
  state_ = "kConnecting" =>
    ~Queued("send") /\ \A c \in Callers : callerPc[c] # "send"

(* connectEstablished is to run until it has, connectDestroyed from the    *)
(* moment the server has let go until it has.                              *)
QueueFits ==
  /\ Single("connectEstablished") /\ Single("connectDestroyed")
  /\ Queued("connectEstablished") <=> state_ = "kConnecting"
  /\ Queued("connectDestroyed") <=> owner = "removed" /\ index_ # "kNew"
  /\ ~Queued("startRead") /\ ~Queued("stopRead")

(* The server lets go once, of a connection that is down; closeCallback_   *)
(* in handleClose and then removeConnectionInLoop are on their way to it   *)
(* until it has.                                                           *)
OwnerFits ==
  /\ owner \in {"has", "removed"} /\ running # "destroying"
  /\ running = "closing" =>
       removing = 0 /\ owner = "has" /\ state_ = "kDisconnected"
  /\ removing > 0 =>
       removing = 1 /\ owner = "has" /\ state_ = "kDisconnected" /\ running # "closing"
  /\ owner = "removed" => state_ = "kDisconnected"
  /\ owner = "has" /\ state_ = "kDisconnected" => index_ # "kNew"
  /\ ~alive => owner = "removed" /\ index_ = "kNew"

LifeInv ==
  /\ TypeInv /\ CallersOnlySend /\ NoAssertFails
  /\ StateFits /\ NothingSentYet /\ QueueFits /\ OwnerFits

(* The functors that neither begin nor end the life of the connection.     *)
Plain == {"send", "shutdown", "forceClose", "writeComplete", "highWaterMark"}

(* What most steps leave alone. *)
lifeParts == <<index_, ups, downs, owner, removing, alive, failed>>

(* Steps that change nothing of the life but perhaps begin to close it.    *)
Lives ==
  /\ state_' = state_ \/ (state_ \in Open /\ state_' = "kDisconnecting")
  /\ UNCHANGED lifeParts
  /\ "in" \in events_' <=> "in" \in events_
  /\ events_ = {} => events_' = {}
  /\ \/ running' = running
     \/ running # "closing" /\ running' \in {"none", "callback"}
  /\ revents_' \subseteq revents_
  /\ Takes(Plain)
  /\ Adds(Plain \ {"send"}) \/ (state_ # "kConnecting" /\ Adds({"send"}))

(* The loop polls, or begins with the functors. *)
Turns ==
  /\ UNCHANGED <<lifeParts, state_, events_, running>>
  /\ \/ /\ index_ # "kAdded" => revents_' = {}
        /\ UNCHANGED <<functors, pending>>
     \/ UNCHANGED revents_ /\ Swaps

Establishes ==
  /\ Runs({"connectEstablished"}) /\ UNCHANGED pending
  /\ failed' = IF state_ = "kConnecting" THEN failed ELSE "connectEstablished"
  /\ state_' = "kConnected" /\ updateChannel(events_ \cup {"in"}) /\ ups' = ups + 1
  /\ running' = "callback"
  /\ UNCHANGED <<revents_, downs, owner, removing, alive>>

Closes ==
  /\ handleClose /\ running = "none"
  /\ \/ UNCHANGED functors /\ ~(revents_ \subseteq {"out"})
     \/ Takes({"forceClose"}) /\ revents_ = {} /\ state_ \in Open
  /\ revents_' \subseteq {"out"}
  /\ UNCHANGED <<pending, owner, removing, alive>>

ReportsClosed ==
  /\ running = "closing" /\ running' = "none"
  /\ IF owner = "destroyed" THEN failed' = "ownerGone" /\ UNCHANGED removing
                            ELSE removing' = removing + 1 /\ UNCHANGED failed
  /\ UNCHANGED <<state_, index_, events_, ups, downs, owner, alive>>
  /\ UNCHANGED <<revents_, functors, pending>>

LetsGo ==
  /\ removing > 0 /\ removing' = removing - 1
  /\ CASE owner = "has" -> eraseAndDestroy /\ UNCHANGED failed
       [] owner = "removed" -> failed' = "removeConnection"
                               /\ UNCHANGED <<owner, pending>>
       [] OTHER -> failed' = "ownerGone" /\ UNCHANGED <<owner, pending>>
  /\ UNCHANGED <<state_, index_, events_, ups, downs, alive>>
  /\ UNCHANGED <<running, revents_, functors>>

Destroys ==
  /\ Runs({"connectDestroyed"}) /\ UNCHANGED pending
  /\ IF state_ = "kConnected"
     THEN state_' = "kDisconnected"
     ELSE removeChannel /\ UNCHANGED <<state_, ups, downs, running>>
  /\ UNCHANGED <<revents_, owner, removing, alive>>

Frees ==
  /\ alive /\ alive' = FALSE
  /\ owner # "has" /\ removing = 0 /\ running = "none" /\ revents_ = {}
  /\ functors = <<>> /\ ~Strong(pending)
  /\ failed' = CASE state_ # "kDisconnected" -> "destructor"
                 [] addedToLoop_ -> "channelDtor"
                 [] OTHER -> failed
  /\ UNCHANGED <<state_, index_, events_, ups, downs, owner, removing>>
  /\ UNCHANGED <<running, revents_, functors, pending>>

Moves ==
  Lives \/ Turns \/ Establishes \/ Closes \/ ReportsClosed \/ LetsGo \/ Destroys \/ Frees

(* Nothing is added, whatever may be.                                      *)
LEMMA AddsNothing == \A names : pending' = pending => Adds(names)
BY DEF Adds

(* Nothing is taken, whatever may be.                                      *)
LEMMA TakesNothing == \A names : functors' = functors => Takes(names)
BY DEF Takes

(* sendInLoop, once the connection is established, leaves the life alone.  *)
LEMMA SendLives ==
  ASSUME LifeInv, state_ # "kConnecting", NEW m \in 1..MaxMsgs, sendInLoop(m)
  PROVE  /\ index_' = index_ /\ ("in" \in events_' <=> "in" \in events_)
         /\ events_ = {} => events_' = {}
         /\ Adds(Plain \ {"send"})
<1>1. CASE UNCHANGED <<channelVars, streamVars, pending>> /\ state_ = "kDisconnected"
  BY <1>1, AddsNothing DEF channelVars
<1>2. ASSUME NEW n \in 0..2, SentNow(m, n)
      PROVE  /\ index_' = index_ /\ ("in" \in events_' <=> "in" \in events_)
             /\ events_ = {} => events_' = {}
             /\ Adds(Plain \ {"send"})
  <2>1. state_ \in Open
    BY <1>2, TypeParts DEF SentNow, LifeInv, Open, StateTyped
  <2>2. "in" \in events_ /\ index_ = "kAdded"
    BY <2>1 DEF LifeInv, StateFits
  <2>3. UNCHANGED channelVars \/ updateChannel(events_ \cup {"out"})
    BY <1>2 DEF SentNow
  <2>4. index_' = index_ /\ "in" \in events_'
    BY <2>2, <2>3 DEF channelVars, updateChannel, indexAfterUpdate
  <2>5. Adds({"writeComplete", "highWaterMark"})
    BY <1>2, QueueMethods
  <2>6. Adds(Plain \ {"send"})
    BY <2>5 DEF Adds, Plain
  <2> QED
    BY <2>2, <2>4, <2>6
<1> QED
  BY <1>1, <1>2, SendOutcome

(* So does handleWrite. *)
LEMMA WriteLives ==
  ASSUME LifeInv, "out" \in events_, NEW n, wrote(n)
  PROVE  /\ index_' = index_ /\ ("in" \in events_' <=> "in" \in events_)
         /\ Adds(Plain \ {"send"})
<1>1. "in" \in events_ /\ index_ = "kAdded"
  <2>1. events_ # {}
    OBVIOUS
  <2>2. state_ \in Open
    BY <2>1, TypeParts DEF LifeInv, StateFits, Open, StateTyped
  <2> QED
    BY <2>2 DEF LifeInv, StateFits
<1>2. UNCHANGED channelVars \/ updateChannel(events_ \ {"out"})
  BY DEF wrote, channelVars
<1>3. index_' = index_ /\ "in" \in events_'
  BY <1>1, <1>2 DEF channelVars, updateChannel, indexAfterUpdate
<1>4. Adds({"writeComplete", "highWaterMark"})
  BY QueueMethods
<1>5. Adds(Plain \ {"send"})
  BY <1>4 DEF Adds, Plain
<1> QED
  BY <1>1, <1>3, <1>5

(* A functor that runs was queued. *)
LEMMA RunsQueued ==
  ASSUME TypeInv, NEW name, Runs({name})
  PROVE  Queued(name) /\ revents_ = {} /\ running = "none" /\ failed = "none"
<1>1. IsQueue(functors) /\ functors # <<>> /\ Head(functors)[1] = name
  BY TypeParts DEF Runs, QueuesTyped
<1>2. Has(functors, name)
  BY <1>1, TakenQueue
<1> QED
  BY <1>1, <1>2, TypeParts DEF Queued, PhaseTyped, Runs, NotFailed

(* Every step of an orderly connection is one of these moves. *)
LEMMA EveryStepMoves ==
  ASSUME Orderly, LifeInv, Next
  PROVE  Moves
<1>a. \A name \in Plain \ {"send"} : Queue(<<name, 0>>) => Adds(Plain \ {"send"})
  <2>1. \A name \in Plain \ {"send"} : name \in FunctorNames \ {"send"}
    BY DEF Plain, FunctorNames
  <2> QED
    BY <2>1, QueueMethods DEF Adds
<1>b. "forceClose" \in Plain \ {"send"}
  BY DEF Plain
<1>c. \A names \in SUBSET Plain : Runs(names) => Takes(Plain)
  BY DEF Runs, Takes
<1>d. Lives => Moves
  BY DEF Moves
<1>e. \A names : functors' = functors => Takes(names)
  BY TakesNothing
<1>f. \A names : pending' = pending => Adds(names)
  BY AddsNothing
<1>g. TypeInv
  BY DEF LifeInv
<1> USE DEF loopVars, historyVars, outsideVars, lifeParts
<1>1. Send => Moves
  <2>1. ASSUME Send PROVE Lives
    <3>1. numMsgs + 1 \in 1..MaxMsgs /\ sendInLoop(numMsgs + 1) /\ state_ # "kConnecting"
      BY <1>g, <2>1, MessageSent DEF Send
    <3> QED
      BY <1>e, <2>1, <3>1, SendLives DEF Send, Lives
  <2> QED
    BY <1>d, <2>1
<1>2. Shutdown \/ ForceCloseWithDelay => Moves
  BY <1>d, <1>e, <1>f DEF Shutdown, ForceCloseWithDelay, Lives, Open, channelVars
<1>3. ForceClose => Moves
  BY <1>a, <1>b, <1>d, <1>e DEF ForceClose, Lives, channelVars
<1>4. DelayedForceClose => Moves
  BY <1>a, <1>b, <1>d, <1>e, <1>f DEF DelayedForceClose, Lives, channelVars
<1>5. ~StartRead /\ ~StopRead
  BY DEF StartRead, StopRead, InUserCode, Orderly
<1>6. CallbackReturns => Moves
  BY <1>d, <1>e, <1>f DEF CallbackReturns, Lives, channelVars
<1>7. CloseCallback => Moves
  BY DEF CloseCallback, ReportsClosed, Moves, channelVars
<1>8. ~DestroyedCallback
  BY DEF DestroyedCallback, LifeInv, OwnerFits
<1>9. \A c \in Callers, op \in CallerOps : CallerChecks(c, op) => Moves
  BY <1>d, <1>e, <1>f DEF CallerChecks, Lives, channelVars
<1>10. \A c \in Callers, op \in CallerOps : ~CallerReads(c, op)
  BY DEF CallerReads, Orderly
<1>11. \A c \in Callers : CallerSends(c) => Moves
  <2>1. ASSUME NEW c \in Callers, CallerSends(c) PROVE Lives
    <3>1. state_ # "kConnecting"
      BY <2>1 DEF CallerSends, LifeInv, NothingSentYet
    <3>2. Adds({"send"})
      BY <1>g, <2>1, MessageSent, QueueMethods DEF CallerSends
    <3> QED
      BY <1>e, <2>1, <3>1, <3>2 DEF CallerSends, Lives, channelVars
  <2> QED
    BY <1>d, <2>1
<1>12. \A c \in Callers : ~CallerCloses(c)
  BY DEF CallerCloses, LifeInv, CallersOnlySend
<1>13. \A c \in Callers : CallerReleases(c) => Moves
  BY <1>d, <1>e, <1>f DEF CallerReleases, Lives, channelVars
<1>14. Poll => Moves
  <2>1. ASSUME Poll PROVE Turns
    BY <2>1 DEF Poll, Turns, channelVars
  <2> QED
    BY <2>1 DEF Moves
<1>15. SwapPendingFunctors => Moves
  <2>1. ASSUME SwapPendingFunctors PROVE Turns
    BY <2>1 DEF SwapPendingFunctors, InTask, Turns, Swaps, channelVars
  <2> QED
    BY <2>1 DEF Moves
<1>16. HandleHup => Moves
  <2>1. ASSUME HandleHup PROVE Closes
    <3>1. revents_ \subseteq {"in", "out", "hup"}
      BY <1>g, TypeParts DEF PhaseTyped
    <3> QED
      BY <2>1, <3>1 DEF HandleHup, InEvents, Closes
  <2> QED
    BY <2>1 DEF Moves
<1>17. HandleReadEnd => Moves
  <2>1. ASSUME HandleReadEnd PROVE Closes
    <3>1. revents_ \subseteq {"in", "out", "hup"}
      BY <1>g, TypeParts DEF PhaseTyped
    <3> QED
      BY <2>1, <3>1 DEF HandleReadEnd, InEvents, Closes
  <2> QED
    BY <2>1 DEF Moves
<1>18. HandleReadData \/ HandleReadError => Moves
  BY <1>d, <1>e, <1>f DEF HandleReadData, HandleReadError, InEvents, Lives, channelVars
<1>19. HandleWrite => Moves
  <2>1. ASSUME HandleWrite PROVE Lives
    <3>1. CASE "out" \in events_ /\ ~Broken
      <4>1. PICK n \in 1..Len(outputBuffer_) : wrote(n)
        BY <2>1, <3>1 DEF HandleWrite
      <4> QED
        BY <1>e, <2>1, <3>1, <4>1, WriteLives DEF HandleWrite, Lives
    <3>2. CASE ~("out" \in events_ /\ ~Broken)
      BY <1>e, <1>f, <2>1, <3>2 DEF HandleWrite, Lives, channelVars
    <3> QED
      BY <3>1, <3>2
  <2> QED
    BY <1>d, <2>1
<1>20. ConnectEstablished => Moves
  BY DEF ConnectEstablished, Establishes, Moves
<1>21. SendInLoop => Moves
  <2>1. ASSUME SendInLoop PROVE Lives
    <3>1. Queued("send")
      BY <1>g, <2>1, RunsQueued DEF SendInLoop
    <3>2. state_ # "kConnecting"
      BY <3>1 DEF LifeInv, NothingSentYet
    <3>3. Head(functors)[2] \in 1..MaxMsgs /\ sendInLoop(Head(functors)[2])
      BY <1>g, <2>1, MessageSent DEF SendInLoop, Runs
    <3>4. Takes(Plain)
      BY <1>c, <2>1 DEF SendInLoop, Plain
    <3> QED
      BY <2>1, <3>2, <3>3, <3>4, SendLives DEF SendInLoop, Lives
  <2> QED
    BY <1>d, <2>1
<1>22. ShutdownInLoop => Moves
  <2>1. ASSUME ShutdownInLoop PROVE Lives
    <3>1. Takes(Plain)
      BY <1>c, <2>1 DEF ShutdownInLoop, Plain
    <3> QED
      BY <1>f, <2>1, <3>1 DEF ShutdownInLoop, Lives, channelVars
  <2> QED
    BY <1>d, <2>1
<1>23. ForceCloseInLoop => Moves
  <2>1. ASSUME ForceCloseInLoop, state_ \in Open PROVE Closes
    <3>1. running = "none" /\ revents_ = {}
      BY <1>g, <2>1, RunsQueued DEF ForceCloseInLoop
    <3>2. Takes({"forceClose"})
      BY <2>1 DEF ForceCloseInLoop, Runs, Takes
    <3> QED
      BY <2>1, <3>1, <3>2 DEF ForceCloseInLoop, Closes
  <2>2. ASSUME ForceCloseInLoop, state_ \notin Open PROVE Lives
    <3>1. Takes(Plain)
      BY <1>c, <2>2 DEF ForceCloseInLoop, Plain
    <3> QED
      BY <1>f, <2>2, <3>1 DEF ForceCloseInLoop, Lives, channelVars
  <2> QED
    BY <1>d, <2>1, <2>2 DEF Moves
<1>24. ~ReadInLoop
  <2>1. ASSUME ReadInLoop PROVE Queued("startRead") \/ Queued("stopRead")
    <3>1. Runs({"startRead"}) \/ Runs({"stopRead"})
      BY <2>1 DEF ReadInLoop, Runs
    <3> QED
      BY <1>g, <3>1, RunsQueued
  <2> QED
    BY <2>1 DEF LifeInv, QueueFits
<1>25. CallUserFunctor => Moves
  <2>1. ASSUME CallUserFunctor PROVE Lives
    <3>1. Takes(Plain)
      BY <1>c, <2>1 DEF CallUserFunctor, Plain
    <3> QED
      BY <1>f, <2>1, <3>1 DEF CallUserFunctor, Runs, Lives, channelVars
  <2> QED
    BY <1>d, <2>1
<1>26. ConnectDestroyed => Moves
  BY DEF ConnectDestroyed, Destroys, Moves
<1>27. OwnerRemoves => Moves
  BY DEF OwnerRemoves, LetsGo, Moves, channelVars
<1>28. ~OwnerDestructs
  BY DEF OwnerDestructs, Orderly
<1>29. Destruct => Moves
  <2>1. ASSUME Destruct PROVE Frees
    <3>1. removing = 0
      BY <1>g, <2>1, TypeParts DEF Destruct, Held, OutsideTyped
    <3> QED
      BY <2>1, <3>1 DEF Destruct, Held, InTask, Frees, channelVars
  <2> QED
    BY <2>1 DEF Moves
<1>30. PeerStep => Moves
  BY <1>d, <1>e, <1>f DEF PeerStep, Lives, channelVars
<1> HIDE DEF loopVars, historyVars, outsideVars, lifeParts
<1> QED
  BY <1>1, <1>2, <1>3, <1>4, <1>5, <1>6, <1>7, <1>8, <1>9, <1>10, <1>11, <1>12,
     <1>13, <1>14, <1>15, <1>16, <1>17, <1>18, <1>19, <1>20, <1>21, <1>22, <1>23,
     <1>24, <1>25, <1>26, <1>27, <1>28, <1>29, <1>30, StepCases

-----------------------------------------------------------------------------
(***************************************************************************)
(* What the moves do to the queues.                                        *)
(***************************************************************************)

(* Plain functors do not disturb the others. *)
LEMMA PlainQueues ==
  ASSUME TypeInv, Takes(Plain), Adds(Plain)
  PROVE  \A n : n \notin Plain => /\ Queued(n)' <=> Queued(n)
                                  /\ Single(n) => Single(n)'
<1>1. IsQueue(functors) /\ IsQueue(pending)
  BY TypeParts DEF QueuesTyped
<1>2. \A n : n \notin Plain => /\ Has(functors', n) <=> Has(functors, n)
                               /\ Once(functors, n) => Once(functors', n)
  <2>1. CASE functors' = functors
    BY <2>1
  <2>2. CASE functors # <<>> /\ Head(functors)[1] \in Plain /\ functors' = Tail(functors)
    BY <1>1, <2>2, TakenQueue
  <2> QED
    BY <2>1, <2>2 DEF Takes
<1>3. \A n : n \notin Plain => /\ Has(pending', n) <=> Has(pending, n)
                               /\ Once(pending, n) => Once(pending', n)
  <2>1. CASE pending' = pending
    BY <2>1
  <2>2. ASSUME NEW f \in Functor, f[1] \in Plain, pending' = Append(pending, f)
        PROVE  \A n : n \notin Plain => /\ Has(pending', n) <=> Has(pending, n)
                                        /\ Once(pending, n) => Once(pending', n)
    BY <1>1, <2>2, AppendedQueue
  <2> QED
    BY <2>1, <2>2 DEF Adds
<1> QED
  BY <1>2, <1>3 DEF Queued, Single

(* Without a send there are no more sends. *)
LEMMA SendsQueued ==
  ASSUME TypeInv, Takes(FunctorNames), Adds(Plain \ {"send"}), Queued("send")'
  PROVE  Queued("send")
<1>1. IsQueue(functors) /\ IsQueue(pending)
  BY TypeParts DEF QueuesTyped
<1>2. Has(functors', "send") => Has(functors, "send")
  BY <1>1, TakenQueue DEF Takes
<1>3. Has(pending', "send") => Has(pending, "send")
  BY <1>1, AppendedQueue DEF Adds
<1> QED
  BY <1>2, <1>3 DEF Queued

(* Swapping the queues leaves everything queued. *)
LEMMA SwappedQueues ==
  ASSUME Swaps
  PROVE  \A n : (Queued(n)' <=> Queued(n)) /\ (Single(n) => Single(n)')
BY EmptyQueue DEF Swaps, Queued, Single

(* Running a functor that is queued once takes it out. *)
LEMMA RunQueues ==
  ASSUME TypeInv, NEW name, Runs({name}), UNCHANGED pending
  PROVE  /\ Single(name) => ~Queued(name)'
         /\ \A n : n # name => (Queued(n)' <=> Queued(n))
         /\ \A n : Single(n) => Single(n)'
<1>1. /\ IsQueue(functors) /\ functors # <<>> /\ Head(functors)[1] = name
      /\ functors' = Tail(functors)
  BY TypeParts DEF QueuesTyped, Runs
<1>2. /\ \A n : Has(functors, n) <=> Has(functors', n) \/ n = name
      /\ \A n : Once(functors, n) => /\ Once(functors', n)
                                     /\ n = name => ~Has(functors', n)
  BY <1>1, TakenQueue
<1> QED
  BY <1>2 DEF Queued, Single

(* Queueing a functor puts it there, once if it was not there before. *)
LEMMA QueueQueues ==
  ASSUME TypeInv, NEW name \in FunctorNames, Queue(<<name, 0>>), UNCHANGED functors
  PROVE  /\ Queued(name)'
         /\ ~Queued(name) => Single(name)'
         /\ \A n : n # name => (Queued(n)' <=> Queued(n)) /\ (Single(n) => Single(n)')
<1>1. IsQueue(pending) /\ <<name, 0>> \in Functor /\ <<name, 0>>[1] = name
  BY TypeParts, NamedFunctors DEF QueuesTyped
<1>2. pending' = Append(pending, <<name, 0>>)
  BY DEF Queue
<1>3. /\ \A n : Has(pending', n) <=> Has(pending, n) \/ n = name
      /\ \A n : Once(pending, n) /\ (n = name => ~Has(pending, n)) => Once(pending', n)
  BY <1>1, <1>2, AppendedQueue
<1>4. ~Has(pending, name) => Once(pending, name)
  BY DEF Has, Once
<1>5. ~Has(functors, name) => Once(functors, name)
  BY DEF Has, Once
<1> QED
  BY <1>3, <1>4, <1>5 DEF Queued, Single

(* A functor that is queued but not among the batch is pending.            *)
LEMMA StrongQueue ==
  ASSUME TypeInv, functors = <<>>, ~Strong(pending)
  PROVE  ~Queued("connectDestroyed") /\ ~Queued("connectEstablished")
<1>1. IsQueue(pending)
  BY TypeParts DEF QueuesTyped
<1>2. ASSUME NEW i \in 1..Len(pending), pending[i][1] \in {"connectDestroyed", "connectEstablished"}
      PROVE  FALSE
  <2>1. pending[i] \in ToSet(pending)
    BY <1>1 DEF ToSet, IsQueue
  <2> QED
    BY <1>2, <2>1 DEF Strong
<1> QED
  BY <1>2, EmptyQueue DEF Queued, Has

-----------------------------------------------------------------------------
(***************************************************************************)
(* The moves keep the invariant.                                           *)
(***************************************************************************)

(* The invariant without the types and the callers, which no move mentions. *)
Unsent == state_ = "kConnecting" => ~Queued("send")
Settled == NoAssertFails /\ StateFits /\ QueueFits /\ OwnerFits /\ Unsent

(* Reading, writing and beginning to close keep the invariant.             *)
LEMMA LivesKeeps ==
  ASSUME LifeInv, Lives
  PROVE  Settled'
<1>1. TypeInv /\ Takes(Plain) /\ Adds(Plain)
  <2>1. Adds(Plain \ {"send"}) \/ Adds({"send"})
    BY DEF Lives
  <2>2. "send" \in Plain
    BY DEF Plain
  <2>3. Adds(Plain)
    BY <2>1, <2>2 DEF Adds
  <2> QED
    BY <2>3 DEF LifeInv, Lives
<1>2. /\ StateFits /\ QueueFits /\ OwnerFits /\ NothingSentYet /\ failed = "none"
      /\ UNCHANGED <<index_, ups, downs, owner, removing, alive, failed>>
  BY DEF LifeInv, NoAssertFails, Lives, lifeParts
<1>3. state_' = state_ \/ (state_ \in Open /\ state_' = "kDisconnecting")
  BY DEF Lives
<1>4. state_ \in Open <=> state_' \in Open
  BY <1>3 DEF Open
<1>5. /\ state_ = "kConnecting" <=> state_' = "kConnecting"
      /\ state_ = "kDisconnected" <=> state_' = "kDisconnected"
  BY <1>3 DEF Open
<1>6. StateFits'
  <2>1. /\ "in" \in events_' <=> "in" \in events_
        /\ events_ = {} => events_' = {}
        /\ revents_' \subseteq revents_
    BY DEF Lives
  <2>2. state_' \in Open => "in" \in events_' /\ index_' = "kAdded" /\ ups' = 1 /\ downs' = 0
    BY <1>2, <1>4, <2>1 DEF StateFits
  <2>3. state_' = "kConnecting" => events_' = {} /\ index_' = "kNew" /\ ups' = 0 /\ downs' = 0
    BY <1>2, <1>5, <2>1 DEF StateFits
  <2>4. state_' = "kDisconnected" =>
          events_' = {} /\ index_' \in {"kNew", "kDeleted"} /\ ups' = 1 /\ downs' = 1
    BY <1>2, <1>5, <2>1 DEF StateFits
  <2>5. state_' \notin Open => revents_' \subseteq {"out"}
    BY <1>2, <1>4, <2>1 DEF StateFits
  <2> QED
    BY <2>2, <2>3, <2>4, <2>5 DEF StateFits
<1>7. QueueFits'
  <2>1. /\ "connectEstablished" \notin Plain /\ "connectDestroyed" \notin Plain
        /\ "startRead" \notin Plain /\ "stopRead" \notin Plain
    BY DEF Plain
  <2>2. \A n \in {"connectEstablished", "connectDestroyed", "startRead", "stopRead"} :
          (Queued(n)' <=> Queued(n)) /\ (Single(n) => Single(n)')
    BY <1>1, <2>1, PlainQueues
  <2> QED
    BY <1>2, <1>5, <2>2 DEF QueueFits
<1>8. OwnerFits'
  <2>1. running' = running \/ (running # "closing" /\ running' \in {"none", "callback"})
    BY DEF Lives
  <2>2. /\ running' = "closing" <=> running = "closing"
        /\ running' # "destroying"
    BY <1>2, <2>1 DEF OwnerFits
  <2> QED
    BY <1>2, <1>5, <2>2 DEF OwnerFits
<1>9. Unsent'
  <2>1. ASSUME state_' = "kConnecting" PROVE ~Queued("send")'
    <3>1. Adds(Plain \ {"send"}) /\ ~Queued("send")
      BY <1>2, <1>5, <2>1 DEF Lives, NothingSentYet
    <3>2. Takes(FunctorNames)
      BY <1>1 DEF Takes, Plain, FunctorNames
    <3> QED
      BY <1>1, <3>1, <3>2, SendsQueued
  <2> QED
    BY <2>1 DEF Unsent
<1> QED
  BY <1>2, <1>6, <1>7, <1>8, <1>9 DEF Settled, NoAssertFails

(* The turns of the loop keep it: epoll reports nothing for a channel that *)
(* is not added.                                                           *)
LEMMA TurnsKeeps ==
  ASSUME LifeInv, Turns
  PROVE  Settled'
<1>1. /\ TypeInv /\ StateFits /\ QueueFits /\ OwnerFits /\ NothingSentYet
      /\ failed = "none"
      /\ UNCHANGED <<index_, ups, downs, owner, removing, alive, failed, state_,
                     events_, running>>
  BY DEF LifeInv, NoAssertFails, Turns, lifeParts
<1>2. \A n : (Queued(n)' <=> Queued(n)) /\ (Single(n) => Single(n)')
  <2>1. CASE UNCHANGED <<functors, pending>>
    BY <2>1 DEF Queued, Single
  <2>2. CASE Swaps
    BY <2>2, SwappedQueues
  <2> QED
    BY <2>1, <2>2 DEF Turns
<1>3. StateFits'
  <2>1. state_ \notin Open => index_ # "kAdded"
    BY <1>1, TypeParts DEF StateFits, Open, StateTyped
  <2>2. revents_' = revents_ \/ (index_ # "kAdded" => revents_' = {})
    BY DEF Turns
  <2> QED
    BY <1>1, <2>1, <2>2 DEF StateFits, Open
<1>4. QueueFits'
  BY <1>1, <1>2 DEF QueueFits
<1>5. OwnerFits'
  BY <1>1 DEF OwnerFits
<1>6. Unsent'
  BY <1>1, <1>2 DEF Unsent, NothingSentYet
<1> QED
  BY <1>1, <1>3, <1>4, <1>5, <1>6 DEF Settled, NoAssertFails

(* connectEstablished keeps it, and finds the connection in kConnecting.   *)
LEMMA EstablishesKeeps ==
  ASSUME LifeInv, Establishes
  PROVE  Settled' /\ state_ = "kConnecting"
<1>1. /\ TypeInv /\ StateFits /\ QueueFits /\ OwnerFits /\ failed = "none"
  BY DEF LifeInv, NoAssertFails
<1>2. Queued("connectEstablished") /\ revents_ = {} /\ running = "none"
  BY <1>1, RunsQueued DEF Establishes
<1>3. state_ = "kConnecting" /\ events_ = {} /\ index_ = "kNew" /\ ups = 0 /\ downs = 0
  BY <1>1, <1>2 DEF QueueFits, StateFits
<1>4. /\ state_' = "kConnected" /\ failed' = "none" /\ ups' = 1 /\ downs' = 0
      /\ revents_' = {} /\ running' = "callback"
      /\ UNCHANGED <<owner, removing, alive, pending>>
  BY <1>1, <1>2, <1>3 DEF Establishes
<1>5. events_' = {"in"} /\ index_' = "kAdded"
  BY <1>3 DEF Establishes, updateChannel, indexAfterUpdate
<1>6. /\ ~Queued("connectEstablished")'
      /\ \A n : n # "connectEstablished" => (Queued(n)' <=> Queued(n))
      /\ \A n : Single(n) => Single(n)'
  BY <1>1, RunQueues DEF Establishes, QueueFits
<1>7. StateFits'
  BY <1>4, <1>5 DEF StateFits, Open
<1>8. owner = "has" /\ removing = 0 /\ alive
  <2>1. owner = "has" /\ alive /\ ~(removing > 0)
    BY <1>1, <1>3, TypeParts DEF OwnerFits, OutsideTyped
  <2>2. removing \in Nat
    BY <1>1, TypeParts DEF OutsideTyped
  <2> QED
    BY <2>1, <2>2
<1>9. QueueFits'
  <2>1. /\ ~Queued("connectDestroyed")' /\ ~Queued("startRead")' /\ ~Queued("stopRead")'
    BY <1>1, <1>6, <1>8 DEF QueueFits
  <2>2. Single("connectEstablished")' /\ Single("connectDestroyed")'
    BY <1>1, <1>6 DEF QueueFits
  <2> QED
    BY <1>4, <1>6, <1>8, <2>1, <2>2 DEF QueueFits
<1>10. OwnerFits'
  BY <1>4, <1>8 DEF OwnerFits
<1>11. Unsent'
  BY <1>4 DEF Unsent
<1> QED
  BY <1>3, <1>4, <1>7, <1>9, <1>10, <1>11 DEF Settled, NoAssertFails

(* handleClose keeps it, and finds the connection open.                    *)
LEMMA ClosesKeeps ==
  ASSUME LifeInv, Closes
  PROVE  Settled' /\ state_ \in Open
<1>1. /\ TypeInv /\ StateFits /\ QueueFits /\ OwnerFits /\ failed = "none"
  BY DEF LifeInv, NoAssertFails
<1>2. state_ \in Open
  BY <1>1 DEF Closes, StateFits
<1>3. "in" \in events_ /\ index_ = "kAdded" /\ ups = 1 /\ downs = 0
  BY <1>1, <1>2 DEF StateFits
<1>4. /\ state_' = "kDisconnected" /\ failed' = "none" /\ ups' = 1 /\ downs' = 1
      /\ running' = "closing" /\ events_' = {} /\ index_' = "kDeleted"
  BY <1>1, <1>2, <1>3 DEF Closes, handleClose, updateChannel, indexAfterUpdate
<1>5. revents_' \subseteq {"out"} /\ UNCHANGED <<pending, owner, removing, alive>>
  BY DEF Closes
<1>6. owner = "has" /\ removing = 0 /\ alive
  <2>1. state_ # "kDisconnected"
    BY <1>2 DEF Open
  <2>2. owner = "has" /\ alive /\ ~(removing > 0)
    BY <1>1, <2>1, TypeParts DEF OwnerFits, OutsideTyped
  <2>3. removing \in Nat
    BY <1>1, TypeParts DEF OutsideTyped
  <2> QED
    BY <2>2, <2>3
<1>7. \A n \in {"connectEstablished", "connectDestroyed", "startRead", "stopRead"} :
        (Queued(n)' <=> Queued(n)) /\ (Single(n) => Single(n)')
  <2>1. Takes(Plain) /\ Adds(Plain)
    BY DEF Closes, Takes, Adds, Plain
  <2>2. \A n \in {"connectEstablished", "connectDestroyed", "startRead", "stopRead"} :
          n \notin Plain
    BY DEF Plain
  <2> QED
    BY <1>1, <2>1, <2>2, PlainQueues
<1>8. StateFits'
  BY <1>4, <1>5 DEF StateFits, Open
<1>9. QueueFits'
  <2>1. ~Queued("connectEstablished") /\ ~Queued("connectDestroyed")
    BY <1>1, <1>2, <1>6 DEF QueueFits, Open
  <2> QED
    BY <1>1, <1>4, <1>5, <1>6, <1>7, <2>1 DEF QueueFits
<1>10. OwnerFits'
  BY <1>4, <1>5, <1>6 DEF OwnerFits
<1>11. Unsent'
  BY <1>4 DEF Unsent
<1> QED
  BY <1>2, <1>4, <1>8, <1>9, <1>10, <1>11 DEF Settled, NoAssertFails

(* closeCallback_ keeps it: the server is told once.                       *)
LEMMA ReportsClosedKeeps ==
  ASSUME LifeInv, ReportsClosed
  PROVE  Settled'
<1>1. /\ TypeInv /\ StateFits /\ QueueFits /\ OwnerFits /\ NothingSentYet
      /\ failed = "none"
  BY DEF LifeInv, NoAssertFails
<1>2. removing = 0 /\ owner = "has" /\ state_ = "kDisconnected"
  BY <1>1 DEF OwnerFits, ReportsClosed
<1>3. /\ UNCHANGED <<state_, index_, events_, ups, downs, owner, alive, failed>>
      /\ UNCHANGED <<revents_, functors, pending>>
      /\ running' = "none" /\ removing' = 1
  BY <1>2 DEF ReportsClosed
<1>4. \A n : (Queued(n)' <=> Queued(n)) /\ (Single(n) <=> Single(n)')
  BY <1>3 DEF Queued, Single
<1>5. StateFits'
  BY <1>1, <1>3 DEF StateFits
<1>6. QueueFits'
  BY <1>1, <1>3, <1>4 DEF QueueFits
<1>7. OwnerFits'
  BY <1>1, <1>2, <1>3 DEF OwnerFits
<1>8. Unsent'
  BY <1>2, <1>3 DEF Unsent
<1> QED
  BY <1>1, <1>3, <1>5, <1>6, <1>7, <1>8 DEF Settled, NoAssertFails

(* removeConnectionInLoop keeps it, and finds the connection in the map.   *)
LEMMA LetsGoKeeps ==
  ASSUME LifeInv, LetsGo
  PROVE  /\ Settled' /\ owner = "has" /\ owner' = "removed"
         /\ state_ = "kDisconnected" /\ alive /\ index_ # "kNew"
<1>1. /\ TypeInv /\ StateFits /\ QueueFits /\ OwnerFits /\ failed = "none"
  BY DEF LifeInv, NoAssertFails
<1>2. /\ removing = 1 /\ owner = "has" /\ state_ = "kDisconnected"
      /\ running # "closing" /\ alive /\ index_ # "kNew"
  BY <1>1, TypeParts DEF OwnerFits, LetsGo, OutsideTyped
<1>3. /\ UNCHANGED <<state_, index_, events_, ups, downs, alive, failed>>
      /\ UNCHANGED <<running, revents_, functors>>
      /\ removing' = 0 /\ owner' = "removed" /\ Queue(<<"connectDestroyed", 0>>)
  BY <1>2 DEF LetsGo, eraseAndDestroy
<1>4. "connectDestroyed" \in FunctorNames
  BY DEF FunctorNames
<1>5. /\ Queued("connectDestroyed")'
      /\ ~Queued("connectDestroyed") => Single("connectDestroyed")'
      /\ \A n : n # "connectDestroyed" =>
                  (Queued(n)' <=> Queued(n)) /\ (Single(n) => Single(n)')
  BY <1>1, <1>3, <1>4, QueueQueues
<1>6. StateFits'
  BY <1>1, <1>3 DEF StateFits
<1>7. QueueFits'
  <2>1. ~Queued("connectDestroyed")
    BY <1>1, <1>2 DEF QueueFits
  <2>2. Single("connectDestroyed")' /\ Single("connectEstablished")'
    BY <1>1, <1>5, <2>1 DEF QueueFits
  <2>3. ~Queued("connectEstablished")' /\ ~Queued("startRead")' /\ ~Queued("stopRead")'
    BY <1>1, <1>2, <1>5 DEF QueueFits
  <2> QED
    BY <1>2, <1>3, <1>5, <2>2, <2>3 DEF QueueFits
<1>8. OwnerFits'
  BY <1>1, <1>2, <1>3 DEF OwnerFits
<1>9. Unsent'
  BY <1>2, <1>3 DEF Unsent
<1> QED
  BY <1>1, <1>2, <1>3, <1>6, <1>7, <1>8, <1>9 DEF Settled, NoAssertFails

(* connectDestroyed keeps it, and finds a channel without interest that is *)
(* still registered.                                                       *)
LEMMA DestroysKeeps ==
  ASSUME LifeInv, Destroys
  PROVE  /\ Settled' /\ owner = "removed" /\ state_ = "kDisconnected" /\ alive
         /\ index_ # "kNew" /\ index_' = "kNew"
         /\ UNCHANGED <<state_, ups, downs, owner, alive>>
<1>1. /\ TypeInv /\ StateFits /\ QueueFits /\ OwnerFits /\ failed = "none"
  BY DEF LifeInv, NoAssertFails
<1>2. Queued("connectDestroyed") /\ revents_ = {} /\ running = "none"
  BY <1>1, RunsQueued DEF Destroys
<1>3. /\ owner = "removed" /\ index_ # "kNew" /\ state_ = "kDisconnected" /\ alive
      /\ events_ = {} /\ removing = 0
  <2>1. owner = "removed" /\ index_ # "kNew"
    BY <1>1, <1>2 DEF QueueFits
  <2>2. state_ = "kDisconnected" /\ alive /\ ~(removing > 0)
    BY <1>1, <2>1, TypeParts DEF OwnerFits, OutsideTyped
  <2>3. removing \in Nat
    BY <1>1, TypeParts DEF OutsideTyped
  <2> QED
    BY <1>1, <2>1, <2>2, <2>3 DEF StateFits
<1>4. /\ index_' = "kNew" /\ UNCHANGED <<events_, failed>>
      /\ UNCHANGED <<state_, ups, downs, running, revents_, owner, removing, alive>>
  BY <1>3 DEF Destroys, removeChannel
<1>5. /\ ~Queued("connectDestroyed")'
      /\ \A n : n # "connectDestroyed" => (Queued(n)' <=> Queued(n))
      /\ \A n : Single(n) => Single(n)'
  BY <1>1, RunQueues DEF Destroys, QueueFits
<1>6. StateFits'
  BY <1>1, <1>3, <1>4 DEF StateFits, Open
<1>7. QueueFits'
  BY <1>1, <1>3, <1>4, <1>5 DEF QueueFits
<1>8. OwnerFits'
  BY <1>1, <1>2, <1>3, <1>4 DEF OwnerFits
<1>9. Unsent'
  BY <1>3, <1>4 DEF Unsent
<1> QED
  BY <1>1, <1>3, <1>4, <1>6, <1>7, <1>8, <1>9 DEF Settled, NoAssertFails

(* ~TcpConnection keeps it, and finds the channel removed.                 *)
LEMMA FreesKeeps ==
  ASSUME LifeInv, Frees
  PROVE  /\ Settled' /\ alive /\ ~alive' /\ index_ = "kNew" /\ downs = 1 /\ ups = 1
         /\ owner' = owner
<1>1. /\ TypeInv /\ StateFits /\ QueueFits /\ OwnerFits /\ failed = "none"
  BY DEF LifeInv, NoAssertFails
<1>2. owner = "removed" /\ state_ = "kDisconnected"
  BY <1>1 DEF Frees, OwnerFits
<1>3. ~Queued("connectDestroyed")
  BY <1>1, StrongQueue DEF Frees
<1>4. index_ = "kNew" /\ ups = 1 /\ downs = 1
  BY <1>1, <1>2, <1>3 DEF QueueFits, StateFits
<1>5. ~addedToLoop_
  BY <1>1, <1>4, TypeParts DEF ChannelTyped
<1>6. /\ UNCHANGED <<state_, index_, events_, ups, downs, owner, removing, failed>>
      /\ UNCHANGED <<running, revents_, functors, pending>>
      /\ alive /\ alive' = FALSE
  BY <1>1, <1>2, <1>5 DEF Frees
<1>7. \A n : (Queued(n)' <=> Queued(n)) /\ (Single(n) <=> Single(n)')
  BY <1>6 DEF Queued, Single
<1>8. StateFits'
  BY <1>1, <1>6 DEF StateFits
<1>9. QueueFits'
  BY <1>1, <1>6, <1>7 DEF QueueFits
<1>10. OwnerFits'
  BY <1>1, <1>2, <1>4, <1>6 DEF OwnerFits
<1>11. Unsent'
  BY <1>2, <1>6 DEF Unsent
<1> QED
  BY <1>1, <1>4, <1>6, <1>8, <1>9, <1>10, <1>11 DEF Settled, NoAssertFails

(* Every move keeps the invariant, the callers apart. *)
LEMMA MovesKeep ==
  ASSUME LifeInv, Moves
  PROVE  Settled'
BY LivesKeeps, TurnsKeeps, EstablishesKeeps, ClosesKeeps, ReportsClosedKeeps,
   LetsGoKeeps, DestroysKeeps, FreesKeeps DEF Moves

(* Another thread finds the connection established before it sends. *)
LEMMA CallersFindEstablished ==
  ASSUME TypeInv, Next, NEW c \in Callers
  PROVE  callerPc'[c] = "send" =>
           callerPc[c] = "send" \/ (state_ # "kConnecting" /\ UNCHANGED state_)
<1> DEFINE Good == callerPc'[c] = "send" =>
             callerPc[c] = "send" \/ (state_ # "kConnecting" /\ UNCHANGED state_)
<1>1. callerPc' = callerPc => Good
  OBVIOUS
<1>2. \A d \in Callers, place \in {"out", "gone"} :
        callerPc' = [callerPc EXCEPT ![d] = place] => Good
  BY TypeParts DEF OutsideTyped
<1> HIDE DEF Good
<1> USE DEF outsideVars
<1>3. Send \/ Shutdown \/ ForceClose \/ ForceCloseWithDelay \/ StartRead \/ StopRead
        \/ DelayedForceClose \/ CallbackReturns \/ CloseCallback \/ DestroyedCallback
        => callerPc' = callerPc
  BY DEF Send, Shutdown, ForceClose, ForceCloseWithDelay, StartRead, StopRead,
         DelayedForceClose, CallbackReturns, CloseCallback, DestroyedCallback
<1>4. Poll \/ HandleReadData \/ HandleReadError \/ HandleWrite \/ SwapPendingFunctors
        \/ HandleHup \/ HandleReadEnd => callerPc' = callerPc
  BY DEF Poll, HandleReadData, HandleReadError, HandleWrite, SwapPendingFunctors,
         HandleHup, HandleReadEnd
<1>5. ConnectEstablished \/ SendInLoop \/ ShutdownInLoop \/ ForceCloseInLoop
        \/ ReadInLoop \/ CallUserFunctor \/ ConnectDestroyed => callerPc' = callerPc
  BY DEF ConnectEstablished, SendInLoop, ShutdownInLoop, ForceCloseInLoop, ReadInLoop,
         CallUserFunctor, ConnectDestroyed
<1>6. OwnerRemoves \/ OwnerDestructs \/ Destruct \/ PeerStep => callerPc' = callerPc
  BY DEF OwnerRemoves, OwnerDestructs, Destruct, PeerStep
<1>7. \A d \in Callers, op \in CallerOps : CallerChecks(d, op) => Good
  BY DEF CallerChecks, Good
<1>8. \A d \in Callers, op \in CallerOps : CallerReads(d, op) => callerPc' = callerPc
  BY DEF CallerReads
<1>9. \A d \in Callers :
        CallerSends(d) \/ CallerCloses(d) \/ CallerReleases(d) => Good
  BY <1>2 DEF CallerSends, CallerCloses, CallerReleases
<1>10. Good
  BY <1>1, <1>3, <1>4, <1>5, <1>6, <1>7, <1>8, <1>9, StepCases
<1> QED
  BY <1>10 DEF Good

(* A connection does not become new again. *)
LEMMA NeverNewAgain ==
  ASSUME LifeInv, Moves, state_' = "kConnecting"
  PROVE  state_ = "kConnecting"
<1>1. Lives => state_ = "kConnecting"
  BY DEF Lives
<1>2. Turns \/ ReportsClosed \/ LetsGo \/ Frees => state_ = "kConnecting"
  BY DEF Turns, ReportsClosed, LetsGo, Frees
<1>3. ~Establishes
  BY DEF Establishes
<1>4. ~Closes
  BY ClosesKeeps DEF Closes, handleClose
<1>5. Destroys => state_ = "kConnecting"
  BY DestroysKeeps
<1> QED
  BY <1>1, <1>2, <1>3, <1>4, <1>5 DEF Moves

(* The invariant holds at first: connectEstablished is queued.             *)
LEMMA LifeInvInit ==
  ASSUME Init
  PROVE  LifeInv
<1>1. /\ pending = Append(<<>>, <<"connectEstablished", 0>>) /\ functors = <<>>
      /\ <<"connectEstablished", 0>> \in Functor
      /\ <<"connectEstablished", 0>>[1] = "connectEstablished"
  BY NamedFunctors DEF Init, FunctorNames
<1>2. /\ \A n : Has(pending, n) <=> n = "connectEstablished"
      /\ \A n : Once(pending, n)
  BY <1>1, EmptyQueue, AppendedQueue
<1>3. /\ \A n : Queued(n) <=> n = "connectEstablished"
      /\ \A n : Single(n)
  BY <1>1, <1>2, EmptyQueue DEF Queued, Single
<1>4. QueueFits
  BY <1>3 DEF Init, QueueFits
<1>5. StateFits /\ OwnerFits /\ NoAssertFails
  BY DEF Init, StateFits, OwnerFits, NoAssertFails, Open
<1>6. NothingSentYet /\ CallersOnlySend
  BY <1>3 DEF Init, NothingSentYet, CallersOnlySend
<1> QED
  BY <1>4, <1>5, <1>6, TypeInvInit DEF LifeInv

(* Every step keeps the invariant.                                         *)
LEMMA LifeInvStep ==
  ASSUME Orderly, LifeInv, [Next]_vars
  PROVE  LifeInv'
<1>1. CASE Next
  <2>1. Moves
    BY <1>1, EveryStepMoves
  <2>2. Settled' /\ TypeInv'
    BY <1>1, <2>1, MovesKeep, TypeInvStep DEF LifeInv
  <2>3. CallersOnlySend'
    <3>1. CallerOps \cap {"shutdown", "forceClose"} = {}
      BY DEF Orderly
    <3>2. OpenInv
      <4>1. state_ # "kDisconnected" => downs = 0
        BY TypeParts DEF LifeInv, StateFits, Open, StateTyped
      <4> QED
        BY <4>1 DEF LifeInv, OpenInv, OpenFits
    <3> QED
      BY <1>1, <3>1, <3>2, CallersOnlySendStep
  <2>4. NothingSentYet'
    <3>1. ASSUME state_' = "kConnecting" PROVE \A c \in Callers : callerPc'[c] # "send"
      <4>1. state_ = "kConnecting"
        BY <2>1, <3>1, NeverNewAgain
      <4>2. TypeInv /\ \A c \in Callers : callerPc[c] # "send"
        BY <4>1 DEF LifeInv, NothingSentYet
      <4> QED
        BY <1>1, <4>1, <4>2, CallersFindEstablished
    <3> QED
      BY <2>2, <3>1 DEF Settled, Unsent, NothingSentYet
  <2> QED
    BY <2>2, <2>3, <2>4 DEF Settled, LifeInv
<1>2. CASE UNCHANGED vars
  <2>1. /\ UNCHANGED <<state_, events_, index_, ups, downs, revents_, functors, pending>>
        /\ UNCHANGED <<callerPc, owner, removing, alive, running, failed>>
    BY <1>2 DEF vars, loopVars, channelVars, historyVars, outsideVars
  <2>2. TypeInv'
    BY TypeInvStep DEF LifeInv
  <2>3. StateFits' /\ OwnerFits' /\ NoAssertFails' /\ CallersOnlySend'
    BY <2>1 DEF LifeInv, StateFits, OwnerFits, NoAssertFails, CallersOnlySend
  <2>4. QueueFits' /\ NothingSentYet'
    BY <2>1 DEF LifeInv, QueueFits, NothingSentYet, Queued, Single
  <2> QED
    BY <2>2, <2>3, <2>4 DEF LifeInv
<1> QED
  BY <1>1, <1>2

(* If other threads only send, nobody stops reading and the server         *)
(* outlives the connection: each step of the connection's end, through     *)
(* handleClose, closeCallback_, removeConnectionInLoop, connectDestroyed   *)
(* and ~TcpConnection, finds the state that the one before it leaves.      *)
THEOREM LifeInvariant == Orderly => (Spec => []LifeInv)
<1> SUFFICES ASSUME Orderly
             PROVE  Spec => []LifeInv
  OBVIOUS
<1>1. Init => LifeInv
  BY LifeInvInit
<1>2. LifeInv /\ [Next]_vars => LifeInv'
  BY LifeInvStep
<1> QED
  BY <1>1, <1>2, PTL DEF Spec

(* Under these hypotheses no assert of TcpConnection, Channel, EPollPoller *)
(* or TcpServer::removeConnectionInLoop fails and no freed object is used. *)
THEOREM AssertsNeverFail == Orderly => (Spec => []NoAssertFails)
<1> SUFFICES ASSUME Orderly
             PROVE  Spec => []NoAssertFails
  OBVIOUS
<1>1. LifeInv => NoAssertFails
  BY DEF LifeInv
<1>2. Spec => []LifeInv
  BY LifeInvariant
<1> QED
  BY <1>1, <1>2, PTL

(* Every move is a step of the life, or none.                              *)
LEMMA MovesLive ==
  ASSUME LifeInv, LifeInv', Moves
  PROVE  [Life!Next]_Life!lifeVars
<1> DEFINE held == owner = "has"
           Stays == lifeOf' = lifeOf /\ held' = held
<1>0. Stays => [Life!Next]_Life!lifeVars
  BY DEF Life!lifeVars
<1>1. CASE Lives
  <2>1. UNCHANGED <<index_, ups, downs, alive, owner>>
    BY <1>1 DEF Lives, lifeParts
  <2> QED
    BY <1>0, <2>1 DEF lifeOf
<1>2. CASE Turns
  <2>1. UNCHANGED <<index_, ups, downs, alive, owner>>
    BY <1>2 DEF Turns, lifeParts
  <2> QED
    BY <1>0, <2>1 DEF lifeOf
<1>3. CASE ReportsClosed
  <2>1. UNCHANGED <<index_, ups, downs, alive, owner>>
    BY <1>3 DEF ReportsClosed
  <2> QED
    BY <1>0, <2>1 DEF lifeOf
<1>4. CASE Establishes
  <2>1. state_ = "kConnecting" /\ state_' = "kConnected" /\ owner' = owner /\ alive' = alive
    BY <1>4, EstablishesKeeps DEF Establishes
  <2>2. ups = 0 /\ downs = 0 /\ ups' = 1 /\ downs' = 0 /\ alive
    BY <2>1 DEF LifeInv, StateFits, OwnerFits, Open
  <2>3. lifeOf = "connecting" /\ lifeOf' = "up"
    BY <2>1, <2>2 DEF lifeOf
  <2> QED
    BY <2>1, <2>3 DEF Life!Next, Life!Establish, Life!lifeVars
<1>5. CASE Closes
  <2>1. state_ \in Open /\ state_' = "kDisconnected" /\ owner' = owner /\ alive' = alive
    BY <1>5, ClosesKeeps DEF Closes, handleClose
  <2>2. ups = 1 /\ downs = 0 /\ ups' = 1 /\ downs' = 1 /\ alive /\ index_' # "kNew"
    BY <2>1 DEF LifeInv, StateFits, OwnerFits, Open
  <2>3. lifeOf = "up" /\ lifeOf' = "down"
    BY <2>1, <2>2 DEF lifeOf
  <2> QED
    BY <2>1, <2>3 DEF Life!Next, Life!Close, Life!lifeVars
<1>6. CASE LetsGo
  <2>1. /\ owner = "has" /\ owner' = "removed" /\ state_ = "kDisconnected" /\ alive
        /\ index_ # "kNew"
    BY <1>6, LetsGoKeeps
  <2>2. UNCHANGED <<index_, ups, downs, alive>> /\ ups = 1 /\ downs = 1
    BY <1>6, <2>1 DEF LetsGo, LifeInv, StateFits
  <2>3. lifeOf = "down" /\ lifeOf' = "down"
    BY <2>1, <2>2 DEF lifeOf
  <2> QED
    BY <2>1, <2>3 DEF Life!Next, Life!LetGo, Life!lifeVars
<1>7. CASE Destroys
  <2>1. /\ owner = "removed" /\ state_ = "kDisconnected" /\ alive /\ index_ # "kNew"
        /\ index_' = "kNew" /\ UNCHANGED <<ups, downs, owner, alive>>
    BY <1>7, DestroysKeeps
  <2>2. ups = 1 /\ downs = 1
    BY <2>1 DEF LifeInv, StateFits
  <2>3. lifeOf = "down" /\ lifeOf' = "destroyed"
    BY <2>1, <2>2 DEF lifeOf
  <2> QED
    BY <2>1, <2>3 DEF Life!Next, Life!Destroy, Life!lifeVars
<1>8. CASE Frees
  <2>1. /\ alive /\ ~alive' /\ index_ = "kNew" /\ downs = 1 /\ ups = 1 /\ owner' = owner
    BY <1>8, FreesKeeps
  <2>2. lifeOf = "destroyed" /\ lifeOf' = "freed"
    BY <2>1 DEF lifeOf
  <2> QED
    BY <2>1, <2>2 DEF Life!Next, Life!Free, Life!lifeVars
<1> QED
  BY <1>1, <1>2, <1>3, <1>4, <1>5, <1>6, <1>7, <1>8 DEF Moves

(* Under these hypotheses the connection lives the life that TcpServer     *)
(* takes it to live: reported up once and down once, held by the server    *)
(* from before the one until after the other, taken out of its loop only   *)
(* when the server has let go, and freed after that.                       *)
THEOREM ConnectionLivesItsLife == Orderly => (Spec => ImplementsLifecycle)
<1> SUFFICES ASSUME Orderly
             PROVE  Spec => ImplementsLifecycle
  OBVIOUS
<1>1. Init => Life!Init
  BY DEF Init, Life!Init, lifeOf
<1>2. LifeInv /\ LifeInv' /\ [Next]_vars => [Life!Next]_Life!lifeVars
  <2> SUFFICES ASSUME LifeInv, LifeInv', [Next]_vars
               PROVE  [Life!Next]_Life!lifeVars
    OBVIOUS
  <2>1. CASE Next
    BY <2>1, EveryStepMoves, MovesLive
  <2>2. CASE UNCHANGED vars
    <3>1. UNCHANGED <<index_, ups, downs, alive, owner>>
      BY <2>2 DEF vars, channelVars, historyVars, outsideVars
    <3> QED
      BY <3>1 DEF Life!lifeVars, lifeOf
  <2> QED
    BY <2>1, <2>2
<1>3. Spec => []LifeInv
  BY LifeInvariant
<1> QED
  BY <1>1, <1>2, <1>3, PTL DEF Spec, ImplementsLifecycle, Life!Spec

=============================================================================
