--------------------------- MODULE TcpConnection ---------------------------
(***************************************************************************)
(* ouge::net::TcpConnection (net/TcpConnection.cc) with its Channel and    *)
(* the channel's entry in EPollPoller: one connection of a TcpServer that  *)
(* has a thread pool.  The actors are the io loop that the connection      *)
(* belongs to, other threads that hold a TcpConnectionPtr, the server in   *)
(* its own loop, and the peer.                                             *)
(*                                                                         *)
(* The io loop alternates between the events that epoll reported (pc =     *)
(* "events") and the batch of functors it swapped out (pc = "functors").   *)
(* A task that ends in a user callback is followed by the calls that user  *)
(* code makes (running # "none").  state_ is a plain variable: shutdown    *)
(* and forceClose in another thread test it and set it in two steps.       *)
(*                                                                         *)
(* The output buffer is the byte queue that Buffer implements.  Message m  *)
(* is the two bytes <<m, 1>>, <<m, 2>>, unchanged until it is sent.  A     *)
(* failed assert, or a use of a destroyed object, stops the program;       *)
(* failed names it.                                                        *)
(***************************************************************************)
EXTENDS SequencesExt, Naturals

CONSTANTS
  Callers,        \* threads other than the io loop's
  LoopOps,        \* what user code calls in the io loop
  CallerOps,      \* what other threads call
  OwnerDestroys,  \* the server may be destroyed before the connection
  MaxMsgs,        \* bound: the number of messages
  MaxPending,     \* bound: functors pending when user code queues one
  MaxCloses,      \* bound: handleClose calls after which callers stop closing
  MaxDelayed,     \* bound: forceCloseWithDelay's timers at one time
  HighWaterMark

Ops == {"send", "shutdown", "forceClose", "forceCloseWithDelay", "startRead",
        "stopRead"}

ASSUME TcpAssumption ==
  /\ LoopOps \subseteq Ops
  /\ CallerOps \subseteq Ops \ {"forceCloseWithDelay"}
  /\ OwnerDestroys \in BOOLEAN
  /\ MaxMsgs \in Nat /\ MaxPending \in Nat /\ MaxCloses \in Nat
  /\ MaxDelayed \in Nat
  /\ HighWaterMark \in Nat

VARIABLES
  pc,               \* phase of the io loop: "events" or "functors"
  running,          \* the user callback that runs: "none", "callback",
                    \* "closing" (in handleClose) or "destroying"
                    \* (in connectDestroyed)
  revents_,         \* events reported and not handled yet
  functors,         \* the batch doPendingFunctors is running
  pending,          \* pendingFunctors_: pairs <<name, message>>
  state_, reading_,
  events_,          \* channel_'s interest: a subset of {"in", "out"}
  index_,           \* channel_'s index: kNew, kAdded (in epoll) or kDeleted
  addedToLoop_,
  outputBuffer_,
  sent,             \* bytes the kernel took, in order
  finSent,          \* shutdownWrite was called
  accepted,         \* history: bytes given to sendInLoop
  numMsgs,          \* messages made so far
  ups, downs,       \* history: connectionCallback_ calls, up and down
  delayed,          \* forceCloseWithDelay's timers that are set
  callerPc,         \* place of each other thread: an operation, "out", "gone"
  owner,            \* the server: "has" the connection, "removed" it, or is
                    \* "destroyed"
  removing,         \* removeConnectionInLoop calls queued in the server's loop
  alive,            \* the TcpConnection exists
  peer,             \* "open", "fin" (its data is read) or "reset"
  failed            \* what stopped the program, or "none"

loopVars == <<pc, running, revents_, functors>>
channelVars == <<events_, index_, addedToLoop_>>
streamVars == <<outputBuffer_, sent, finSent, accepted>>
historyVars == <<ups, downs>>
outsideVars == <<callerPc, owner, removing, alive, peer>>
vars == <<loopVars, pending, state_, reading_, channelVars, streamVars,
          numMsgs, historyVars, delayed, outsideVars, failed>>

Init ==
  /\ pc = "functors" /\ running = "none" /\ revents_ = {} /\ functors = <<>>
  /\ pending = <<<<"connectEstablished", 0>>>>
  /\ state_ = "kConnecting" /\ reading_ = TRUE
  /\ events_ = {} /\ index_ = "kNew" /\ addedToLoop_ = FALSE
  /\ outputBuffer_ = <<>> /\ sent = <<>> /\ finSent = FALSE /\ accepted = <<>>
  /\ numMsgs = 0 /\ ups = 0 /\ downs = 0
  /\ delayed = 0
  /\ callerPc = [c \in Callers |-> "out"]
  /\ owner = "has" /\ removing = 0 /\ alive = TRUE
  /\ peer = "open"
  /\ failed = "none"

Bytes(m) == <<<<m, 1>>, <<m, 2>>>>
Take(s, n) == SubSeq(s, 1, n)
Drop(s, n) == SubSeq(s, n + 1, Len(s))
Queue(f) == pending' = Append(pending, f)
Open == {"kConnected", "kDisconnecting"}
NotFailed == failed = "none"
InEvents == NotFailed /\ pc = "events" /\ running = "none"

-----------------------------------------------------------------------------
(***************************************************************************)
(* Channel::update with EPollPoller::updateChannel, and Channel::remove.   *)
(* A kDeleted channel is added to epoll again whatever its interest.       *)
(***************************************************************************)

indexAfterUpdate(ev) ==
  IF index_ = "kAdded" /\ ev = {} THEN "kDeleted" ELSE "kAdded"

updateChannel(ev) ==
  /\ events_' = ev
  /\ index_' = indexAfterUpdate(ev)
  /\ addedToLoop_' = TRUE

removeLeavesFlag ==
  IF events_ = {} /\ index_ # "kNew"
  THEN index_' = "kNew" /\ UNCHANGED <<events_, addedToLoop_, failed>>
  ELSE failed' = "remove" /\ UNCHANGED channelVars

removeChannel ==
  IF events_ = {} /\ index_ # "kNew"
  THEN index_' = "kNew" /\ addedToLoop_' = FALSE /\ UNCHANGED <<events_, failed>>
  ELSE failed' = "remove" /\ UNCHANGED channelVars

-----------------------------------------------------------------------------
(***************************************************************************)
(* Methods that run in the io loop, each saying what becomes of the        *)
(* variables it may change.                                                *)
(***************************************************************************)

(* What the kernel tells of the socket: writes fail with EPIPE or          *)
(* ECONNRESET when Broken; otherwise write(2) may take less than it is     *)
(* given, and 0 stands for EWOULDBLOCK.                                    *)
Broken == finSent \/ peer = "reset"
HungUp == peer = "reset" \/ (peer = "fin" /\ finSent)
writable(len) == IF Broken THEN {0} ELSE 0..len

AlwaysWritesDirectly == TRUE

(* Nothing waits to be written: the message need not go through the buffer. *)
CanWriteDirectly == "out" \notin events_ /\ outputBuffer_ = <<>>

(* sendInLoop of message m: channelVars, streamVars, pending. *)
sendInLoop(m) ==
  IF state_ = "kDisconnected"
  THEN UNCHANGED <<channelVars, streamVars, pending>>
  ELSE \E n \in (IF CanWriteDirectly THEN writable(2) ELSE {0}) :
    LET faultError == CanWriteDirectly /\ Broken
        remaining == IF faultError THEN 0 ELSE 2 - n
        oldLen == Len(outputBuffer_)
        crossesMark == /\ remaining > 0
                       /\ oldLen + remaining >= HighWaterMark
                       /\ oldLen < HighWaterMark
    IN
    /\ sent' = sent \o Take(Bytes(m), n)
    /\ accepted' = accepted \o Bytes(m)
    /\ outputBuffer_' = IF faultError THEN outputBuffer_
                        ELSE outputBuffer_ \o Drop(Bytes(m), n)
    /\ pending' = CASE n = 2 -> Append(pending, <<"writeComplete", 0>>)
                    [] crossesMark -> Append(pending, <<"highWaterMark", 0>>)
                    [] OTHER -> pending
    /\ IF remaining > 0 /\ "out" \notin events_
       THEN updateChannel(events_ \cup {"out"})
       ELSE UNCHANGED channelVars
    /\ UNCHANGED finSent

shutdownAtOnce(ev) == finSent' = TRUE

(* shutdownInLoop: finSent, given the interest the channel has by then. *)
shutdownInLoop(ev) == finSent' = (finSent \/ "out" \notin ev)

handleCloseKeepsState ==
  IF state_ \in Open
  THEN /\ updateChannel({})
       /\ downs' = downs + 1
       /\ running' = "closing"
       /\ UNCHANGED <<state_, failed, ups>>
  ELSE /\ failed' = "handleClose"
       /\ UNCHANGED <<state_, channelVars, historyVars, running>>

(* handleClose up to the connectionCallback_ in it: state_, channelVars,   *)
(* historyVars, running, failed.                                           *)
handleClose ==
  IF state_ \in Open
  THEN /\ state_' = "kDisconnected"
       /\ updateChannel({})
       /\ downs' = downs + 1
       /\ running' = "closing"
       /\ UNCHANGED <<failed, ups>>
  ELSE /\ failed' = "handleClose"
       /\ UNCHANGED <<state_, channelVars, historyVars, running>>

startReadInLoop ==
  IF ~reading_ \/ "in" \notin events_
  THEN updateChannel(events_ \cup {"in"}) /\ reading_' = TRUE
  ELSE UNCHANGED <<channelVars, reading_>>

stopReadInLoop ==
  IF reading_ \/ "in" \in events_
  THEN updateChannel(events_ \ {"in"}) /\ reading_' = FALSE
  ELSE UNCHANGED <<channelVars, reading_>>

-----------------------------------------------------------------------------
(***************************************************************************)
(* Calls that user code makes in the io loop, during a callback.           *)
(***************************************************************************)

InUserCode(op) ==
  /\ NotFailed /\ running # "none"
  /\ op \in LoopOps
  /\ Len(pending) < MaxPending

Send ==
  /\ InUserCode("send")
  /\ state_ = "kConnected"
  /\ numMsgs < MaxMsgs
  /\ numMsgs' = numMsgs + 1
  /\ sendInLoop(numMsgs + 1)
  /\ UNCHANGED <<loopVars, state_, reading_, historyVars, delayed,
                 outsideVars, failed>>

Shutdown ==
  /\ InUserCode("shutdown")
  /\ state_ = "kConnected"
  /\ state_' = "kDisconnecting"
  /\ shutdownInLoop(events_)
  /\ UNCHANGED <<loopVars, pending, reading_, channelVars, outputBuffer_, sent,
                 accepted, numMsgs, historyVars, delayed, outsideVars, failed>>

ForceClose ==
  /\ InUserCode("forceClose")
  /\ state_ \in Open
  /\ state_' = "kDisconnecting"
  /\ Queue(<<"forceClose", 0>>)
  /\ UNCHANGED <<loopVars, reading_, channelVars, streamVars, numMsgs,
                 historyVars, delayed, outsideVars, failed>>

ForceCloseWithDelay ==
  /\ InUserCode("forceCloseWithDelay")
  /\ state_ \in Open
  /\ delayed < MaxDelayed
  /\ state_' = "kDisconnecting"
  /\ delayed' = delayed + 1
  /\ UNCHANGED <<loopVars, pending, reading_, channelVars, streamVars, numMsgs,
                 historyVars, outsideVars, failed>>

StartRead ==
  /\ InUserCode("startRead")
  /\ startReadInLoop
  /\ UNCHANGED <<loopVars, pending, state_, streamVars, numMsgs, historyVars,
                 delayed, outsideVars, failed>>

StopRead ==
  /\ InUserCode("stopRead")
  /\ stopReadInLoop
  /\ UNCHANGED <<loopVars, pending, state_, streamVars, numMsgs, historyVars,
                 delayed, outsideVars, failed>>

UserStep ==
  \/ Send \/ Shutdown \/ ForceClose \/ ForceCloseWithDelay
  \/ StartRead \/ StopRead

(* The callback returns and with it the task that called it. *)
CallbackReturns ==
  /\ NotFailed /\ running = "callback"
  /\ running' = "none"
  /\ UNCHANGED <<pc, revents_, functors, pending, state_, reading_,
                 channelVars, streamVars, numMsgs, historyVars, delayed,
                 outsideVars, failed>>

(* The last line of handleClose: closeCallback_, which is the server's     *)
(* removeConnection bound to its address.                                  *)
CloseCallback ==
  /\ NotFailed /\ running = "closing"
  /\ running' = "none"
  /\ IF owner = "destroyed"
     THEN failed' = "ownerGone" /\ UNCHANGED removing
     ELSE removing' = removing + 1 /\ UNCHANGED failed
  /\ UNCHANGED <<pc, revents_, functors, pending, state_, reading_,
                 channelVars, streamVars, numMsgs, historyVars, delayed,
                 callerPc, owner, alive, peer>>

(* The last line of connectDestroyed after its connectionCallback_. *)
DestroyedCallback ==
  /\ NotFailed /\ running = "destroying"
  /\ running' = "none"
  /\ removeChannel
  /\ UNCHANGED <<pc, revents_, functors, pending, state_, reading_,
                 streamVars, numMsgs, historyVars, delayed, outsideVars>>

-----------------------------------------------------------------------------
(***************************************************************************)
(* Another thread.  send, shutdown and forceClose read state_ and then     *)
(* act; startRead and stopRead queue a functor that holds no reference.    *)
(***************************************************************************)

CallerChecks(c, op) ==
  /\ NotFailed /\ op \in CallerOps \cap {"send", "shutdown", "forceClose"}
  /\ callerPc[c] = "out"
  /\ downs < MaxCloses
  /\ \/ state_ = "kConnected"
     \/ op = "forceClose" /\ state_ = "kDisconnecting"
  /\ callerPc' = [callerPc EXCEPT ![c] = op]
  /\ UNCHANGED <<loopVars, pending, state_, reading_, channelVars, streamVars,
                 numMsgs, historyVars, delayed, owner, removing, alive, peer,
                 failed>>

CallerSends(c) ==
  /\ NotFailed /\ callerPc[c] = "send"
  /\ numMsgs < MaxMsgs
  /\ numMsgs' = numMsgs + 1
  /\ Queue(<<"send", numMsgs + 1>>)
  /\ callerPc' = [callerPc EXCEPT ![c] = "out"]
  /\ UNCHANGED <<loopVars, state_, reading_, channelVars, streamVars,
                 historyVars, delayed, owner, removing, alive, peer, failed>>

(* shutdown and forceClose: setState, then the functor. *)
CallerCloses(c) ==
  /\ NotFailed /\ callerPc[c] \in {"shutdown", "forceClose"}
  /\ Len(pending) < MaxPending
  /\ state_' = "kDisconnecting"
  /\ Queue(<<callerPc[c], 0>>)
  /\ callerPc' = [callerPc EXCEPT ![c] = "out"]
  /\ UNCHANGED <<loopVars, reading_, channelVars, streamVars, numMsgs,
                 historyVars, delayed, owner, removing, alive, peer, failed>>

CallerReads(c, op) ==
  /\ NotFailed /\ op \in CallerOps \cap {"startRead", "stopRead"}
  /\ callerPc[c] = "out"
  /\ Len(pending) < MaxPending
  /\ Queue(<<op, 0>>)
  /\ UNCHANGED <<loopVars, state_, reading_, channelVars, streamVars, numMsgs,
                 historyVars, delayed, outsideVars, failed>>

(* The thread lets its TcpConnectionPtr go. *)
CallerReleases(c) ==
  /\ NotFailed /\ callerPc[c] = "out"
  /\ callerPc' = [callerPc EXCEPT ![c] = "gone"]
  /\ UNCHANGED <<loopVars, pending, state_, reading_, channelVars, streamVars,
                 numMsgs, historyVars, delayed, owner, removing, alive, peer,
                 failed>>

CallerStep ==
  \E c \in Callers :
    \/ \E op \in CallerOps : CallerChecks(c, op) \/ CallerReads(c, op)
    \/ CallerSends(c) \/ CallerCloses(c) \/ CallerReleases(c)

-----------------------------------------------------------------------------
(***************************************************************************)
(* The TcpConnectionPtrs: one in the server's map, one in each             *)
(* removeConnectionInLoop call, one with each caller, and one in every     *)
(* functor but startRead and stopRead.  A batch of functors is freed when  *)
(* the last of it has run.                                                 *)
(***************************************************************************)

Strong(queue) == \E f \in ToSet(queue) : f[1] \notin {"startRead", "stopRead"}
InTask == running # "none" \/ revents_ # {} \/ functors # <<>>
Held ==
  \/ owner = "has" \/ removing > 0
  \/ \E c \in Callers : callerPc[c] # "gone"
  \/ Strong(pending) \/ InTask

(* ~TcpConnection and the ~Channel that follows, with their asserts. *)
Destruct ==
  /\ NotFailed /\ alive /\ ~Held
  /\ alive' = FALSE
  /\ failed' = CASE state_ # "kDisconnected" -> "destructor"
                 [] addedToLoop_ -> "channelDtor"
                 [] OTHER -> failed
  /\ UNCHANGED <<loopVars, pending, state_, reading_, channelVars, streamVars,
                 numMsgs, historyVars, delayed, callerPc, owner, removing, peer>>

-----------------------------------------------------------------------------
(***************************************************************************)
(* The io loop: poll, handle what was reported, run one batch of functors. *)
(***************************************************************************)

(* Events epoll reports: level-triggered, what is of interest and ready,   *)
(* and EPOLLHUP whether of interest or not.  While the peer is open, data  *)
(* to read and room to write come and go.                                  *)
mayReport == events_ \cup (IF HungUp THEN {"hup"} ELSE {})
mustReport ==
  {e \in mayReport : \/ e = "hup"
                     \/ e = "in" /\ peer # "open"
                     \/ e = "out" /\ Broken}

Poll ==
  /\ NotFailed /\ pc = "functors" /\ ~InTask
  /\ alive => Held
  /\ pc' = "events"
  /\ revents_' \in IF index_ = "kAdded"
                   THEN {r \in SUBSET mayReport : mustReport \subseteq r}
                   ELSE {{}}
  /\ UNCHANGED <<running, functors, pending, state_, reading_, channelVars,
                 streamVars, numMsgs, historyVars, delayed, outsideVars, failed>>

(* Channel::handleEventWithGuard.  EPOLLHUP without EPOLLIN: handleClose.  *)
HandleHup ==
  /\ InEvents
  /\ "hup" \in revents_ /\ "in" \notin revents_
  /\ revents_' = revents_ \ {"hup"}
  /\ handleClose
  /\ UNCHANGED <<pc, functors, pending, reading_, streamVars, numMsgs, delayed,
                 outsideVars>>

(* EPOLLIN: handleRead gets data and calls messageCallback_, ... *)
HandleReadData ==
  /\ InEvents
  /\ "in" \in revents_ /\ peer = "open"
  /\ revents_' = revents_ \ {"in"}
  /\ running' = "callback"
  /\ UNCHANGED <<pc, functors, pending, state_, reading_, channelVars,
                 streamVars, numMsgs, historyVars, delayed, outsideVars, failed>>

(* ... or it reads 0 and closes (after a reset too, once handleError has   *)
(* cleared SO_ERROR), ...                                                  *)
HandleReadEnd ==
  /\ InEvents
  /\ "in" \in revents_ /\ (peer = "fin" \/ (peer = "reset" /\ "hup" \in revents_))
  /\ revents_' = revents_ \ {"in", "hup"}
  /\ handleClose
  /\ UNCHANGED <<pc, functors, pending, reading_, streamVars, numMsgs, delayed,
                 outsideVars>>

(* ... or the reset came after the report, and handleError only logs. *)
HandleReadError ==
  /\ InEvents
  /\ "in" \in revents_ /\ peer = "reset" /\ "hup" \notin revents_
  /\ revents_' = revents_ \ {"in"}
  /\ UNCHANGED <<pc, running, functors, pending, state_, reading_, channelVars,
                 streamVars, numMsgs, historyVars, delayed, outsideVars, failed>>

wroteKeepsInterest(n) ==
  /\ sent' = sent \o Take(outputBuffer_, n)
  /\ outputBuffer_' = Drop(outputBuffer_, n)
  /\ UNCHANGED <<channelVars, pending, finSent, accepted>>

wroteForgetsShutdown(n) ==
  /\ sent' = sent \o Take(outputBuffer_, n)
  /\ outputBuffer_' = Drop(outputBuffer_, n)
  /\ IF n = Len(outputBuffer_)
     THEN updateChannel(events_ \ {"out"}) /\ Queue(<<"writeComplete", 0>>)
     ELSE UNCHANGED <<channelVars, pending>>
  /\ UNCHANGED <<finSent, accepted>>

(* handleWrite's write took n bytes: streamVars, channelVars, pending. *)
wrote(n) ==
  /\ sent' = sent \o Take(outputBuffer_, n)
  /\ outputBuffer_' = Drop(outputBuffer_, n)
  /\ IF n = Len(outputBuffer_)
     THEN /\ updateChannel(events_ \ {"out"})
          /\ Queue(<<"writeComplete", 0>>)
          /\ IF state_ = "kDisconnecting"
             THEN shutdownInLoop(events_ \ {"out"})
             ELSE UNCHANGED finSent
     ELSE UNCHANGED <<channelVars, pending, finSent>>
  /\ UNCHANGED accepted

(* EPOLLOUT, the last callback: handleWrite. *)
HandleWrite ==
  /\ InEvents
  /\ revents_ = {"out"}
  /\ revents_' = {}
  /\ IF "out" \in events_ /\ ~Broken
     THEN \E n \in 1..Len(outputBuffer_) : wrote(n)
     ELSE UNCHANGED <<channelVars, streamVars, pending>>
  /\ UNCHANGED <<pc, running, functors, state_, reading_, numMsgs, historyVars,
                 delayed, outsideVars, failed>>

(* A timer of forceCloseWithDelay: forceClose through a weak pointer. *)
DelayedForceClose ==
  /\ InEvents
  /\ delayed > 0
  /\ delayed' = delayed - 1
  /\ IF alive /\ state_ \in Open
     THEN state_' = "kDisconnecting" /\ Queue(<<"forceClose", 0>>)
     ELSE UNCHANGED <<state_, pending>>
  /\ UNCHANGED <<loopVars, reading_, channelVars, streamVars, numMsgs,
                 historyVars, outsideVars, failed>>

SwapPendingFunctors ==
  /\ NotFailed /\ pc = "events" /\ ~InTask
  /\ pc' = "functors"
  /\ functors' = pending
  /\ pending' = <<>>
  /\ UNCHANGED <<running, revents_, state_, reading_, channelVars, streamVars,
                 numMsgs, historyVars, delayed, outsideVars, failed>>

Runs(names) ==
  /\ NotFailed /\ pc = "functors" /\ running = "none"
  /\ functors # <<>> /\ Head(functors)[1] \in names
  /\ functors' = Tail(functors)

ConnectEstablished ==
  /\ Runs({"connectEstablished"})
  /\ failed' = IF state_ = "kConnecting" THEN failed ELSE "connectEstablished"
  /\ state_' = "kConnected"
  /\ updateChannel(events_ \cup {"in"})
  /\ ups' = ups + 1
  /\ running' = "callback"
  /\ UNCHANGED <<pc, revents_, pending, reading_, streamVars, numMsgs, downs,
                 delayed, outsideVars>>

SendInLoop ==
  /\ Runs({"send"})
  /\ sendInLoop(Head(functors)[2])
  /\ UNCHANGED <<pc, running, revents_, state_, reading_, numMsgs, historyVars,
                 delayed, outsideVars, failed>>

ShutdownInLoop ==
  /\ Runs({"shutdown"})
  /\ shutdownInLoop(events_)
  /\ UNCHANGED <<pc, running, revents_, pending, state_, reading_, channelVars,
                 outputBuffer_, sent, accepted, numMsgs, historyVars, delayed,
                 outsideVars, failed>>

ForceCloseInLoop ==
  /\ Runs({"forceClose"})
  /\ IF state_ \in Open
     THEN handleClose
     ELSE UNCHANGED <<state_, channelVars, historyVars, running, failed>>
  /\ UNCHANGED <<pc, revents_, pending, reading_, streamVars, numMsgs, delayed,
                 outsideVars>>

(* startRead and stopRead are bound to this, not to a TcpConnectionPtr. *)
ReadInLoop ==
  /\ Runs({"startRead", "stopRead"})
  /\ IF ~alive
     THEN failed' = "useAfterFree" /\ UNCHANGED <<channelVars, reading_>>
     ELSE /\ IF Head(functors)[1] = "startRead" THEN startReadInLoop
                                                ELSE stopReadInLoop
          /\ UNCHANGED failed
  /\ UNCHANGED <<pc, running, revents_, pending, state_, streamVars, numMsgs,
                 historyVars, delayed, outsideVars>>

(* writeCompleteCallback_ and highWaterMarkCallback_. *)
CallUserFunctor ==
  /\ Runs({"writeComplete", "highWaterMark"})
  /\ running' = "callback"
  /\ UNCHANGED <<pc, revents_, pending, state_, reading_, channelVars,
                 streamVars, numMsgs, historyVars, delayed, outsideVars, failed>>

ConnectDestroyed ==
  /\ Runs({"connectDestroyed"})
  /\ IF state_ = "kConnected"
     THEN /\ state_' = "kDisconnected"
          /\ updateChannel({})
          /\ downs' = downs + 1
          /\ running' = "destroying"
          /\ UNCHANGED <<ups, failed>>
     ELSE removeChannel /\ UNCHANGED <<state_, historyVars, running>>
  /\ UNCHANGED <<pc, revents_, pending, reading_, streamVars, numMsgs, delayed,
                 outsideVars>>

LoopStep ==
  \/ Poll
  \/ HandleHup \/ HandleReadData \/ HandleReadEnd \/ HandleReadError
  \/ HandleWrite
  \/ SwapPendingFunctors
  \/ ConnectEstablished \/ SendInLoop \/ ShutdownInLoop \/ ForceCloseInLoop
  \/ ReadInLoop \/ CallUserFunctor \/ ConnectDestroyed
  \/ CallbackReturns \/ CloseCallback \/ DestroyedCallback

-----------------------------------------------------------------------------
(***************************************************************************)
(* The server, in its own loop, and the peer.                              *)
(***************************************************************************)

removeWithoutErase == owner' = owner /\ Queue(<<"connectDestroyed", 0>>)
eraseAndDestroy == owner' = "removed" /\ Queue(<<"connectDestroyed", 0>>)

(* removeConnectionInLoop with its assert(n == 1); the call is bound to    *)
(* the server's address.                                                   *)
OwnerRemoves ==
  /\ NotFailed /\ removing > 0
  /\ removing' = removing - 1
  /\ CASE owner = "has" -> eraseAndDestroy /\ UNCHANGED failed
       [] owner = "removed" -> failed' = "removeConnection"
                               /\ UNCHANGED <<owner, pending>>
       [] OTHER -> failed' = "ownerGone" /\ UNCHANGED <<owner, pending>>
  /\ UNCHANGED <<loopVars, state_, reading_, channelVars, streamVars, numMsgs,
                 historyVars, delayed, callerPc, alive, peer>>

(* ~TcpServer. *)
OwnerDestructs ==
  /\ NotFailed /\ OwnerDestroys /\ owner # "destroyed"
  /\ IF owner = "has" THEN Queue(<<"connectDestroyed", 0>>)
                      ELSE UNCHANGED pending
  /\ owner' = "destroyed"
  /\ UNCHANGED <<loopVars, state_, reading_, channelVars, streamVars, numMsgs,
                 historyVars, delayed, callerPc, removing, alive, peer, failed>>

PeerStep ==
  /\ NotFailed
  /\ \/ peer = "open" /\ peer' = "fin"
     \/ peer # "reset" /\ peer' = "reset"
  /\ UNCHANGED <<loopVars, pending, state_, reading_, channelVars, streamVars,
                 numMsgs, historyVars, delayed, callerPc, owner, removing,
                 alive, failed>>

Next ==
  \/ LoopStep \/ UserStep \/ DelayedForceClose
  \/ CallerStep \/ OwnerRemoves \/ OwnerDestructs \/ Destruct \/ PeerStep

Spec == Init /\ [][Next]_vars

(* The io loop and the server's loop keep running; an object without       *)
(* references is destroyed at once; a peer that does not reset keeps       *)
(* reading, so that a socket polled for EPOLLOUT again and again becomes   *)
(* writable.                                                               *)
FairSpec ==
  /\ Spec
  /\ WF_vars(LoopStep)
  /\ WF_vars(OwnerRemoves)
  /\ WF_vars(Destruct)
  /\ SF_vars(Poll /\ "out" \in revents_')

-----------------------------------------------------------------------------
(***************************************************************************)
(* Properties.                                                             *)
(***************************************************************************)

FunctorNames ==
  {"connectEstablished", "connectDestroyed", "send", "shutdown", "forceClose",
   "startRead", "stopRead", "writeComplete", "highWaterMark"}
IsQueue(q) == q \in Seq(FunctorNames \X (0..MaxMsgs))
IsStream(s) == s \in Seq((1..MaxMsgs) \X {1, 2})

(* Every variable has its type; events are only ever unhandled in the      *)
(* loop's event phase, and a callback's caller is the phase it belongs to. *)
TypeOK ==
  /\ pc \in {"events", "functors"}
  /\ running \in {"none", "callback", "closing", "destroying"}
  /\ running = "destroying" => pc = "functors"
  /\ revents_ \subseteq {"in", "out", "hup"}
  /\ revents_ # {} => pc = "events" /\ functors = <<>>
  /\ IsQueue(functors) /\ IsQueue(pending)
  /\ state_ \in {"kConnecting", "kConnected", "kDisconnecting", "kDisconnected"}
  /\ reading_ \in BOOLEAN
  /\ events_ \subseteq {"in", "out"}
  /\ index_ \in {"kNew", "kAdded", "kDeleted"} /\ addedToLoop_ \in BOOLEAN
  /\ addedToLoop_ = (index_ # "kNew")
  /\ IsStream(outputBuffer_) /\ IsStream(sent) /\ IsStream(accepted)
  /\ finSent \in BOOLEAN /\ numMsgs \in 0..MaxMsgs
  /\ ups \in Nat /\ downs \in Nat /\ delayed \in Nat
  /\ callerPc \in [Callers -> {"out", "gone", "send", "shutdown", "forceClose"}]
  /\ owner \in {"has", "removed", "destroyed"} /\ removing \in Nat
  /\ alive \in BOOLEAN /\ peer \in {"open", "fin", "reset"}
  /\ failed \in {"none", "remove", "handleClose", "connectEstablished",
                 "ownerGone", "removeConnection", "useAfterFree",
                 "destructor", "channelDtor"}

(* The stream of bytes: what the kernel took, followed by the output       *)
(* buffer, is what sendInLoop was given, in that order, with nothing lost, *)
(* repeated or out of place until a write fails; then a suffix is lost     *)
(* (sendInLoop's direct write and handleWrite's write together).  The FIN  *)
(* of shutdown never overtakes bytes that wait in the output buffer, as    *)
(* long as the connection is up: after handleClose the buffer is given up, *)
(* and a shutdown of another thread may still end the socket               *)
(* (shutdownInLoop and the end of handleWrite).                            *)
BytesInOrder ==
  /\ IsPrefix(sent \o outputBuffer_, accepted)
  /\ finSent /\ downs = 0 => outputBuffer_ = <<>>
  /\ ~Broken => sent \o outputBuffer_ = accepted

(* Bytes wait in the output buffer of an open connection exactly when the  *)
(* channel asks for EPOLLOUT: otherwise they would never leave, or the     *)
(* loop would spin (sendInLoop, handleWrite, disableAll).                  *)
WriteInterest ==
  failed = "none" /\ state_ \in Open =>
    ("out" \in events_ <=> outputBuffer_ # <<>>)

(* No assert of TcpConnection, Channel, EPollPoller or TcpServer fails and *)
(* no destroyed object is used.                                            *)
NoAssertFails == failed = "none"

(* The connection lives as TcpServer.tla takes it to: held by the server   *)
(* until it has been reported down, taken out of its loop only after the   *)
(* server has let go, freed only after that.                               *)
lifeOf ==
  CASE ~alive -> "freed"
    [] alive /\ ups = 0 -> "connecting"
    [] alive /\ ups > 0 /\ downs = 0 -> "up"
    [] alive /\ downs > 0 /\ index_ # "kNew" -> "down"
    [] OTHER -> "destroyed"
Life == INSTANCE ConnectionLifecycle WITH life <- lifeOf, held <- owner = "has"
ImplementsLifecycle == Life!Spec

(* A shutdown gets its FIN out once the output buffer has drained, unless  *)
(* the connection is closed first (shutdownInLoop, handleWrite).           *)
ShutdownSendsFin ==
  state_ = "kDisconnecting" ~>
    finSent \/ delayed > 0 \/ state_ = "kDisconnected" \/ peer = "reset"

(* When the peer closes or resets, the connection goes through             *)
(* handleClose, removeConnection and connectDestroyed, and its memory is   *)
(* freed once no other thread holds it: no reference cycle, no lost step.  *)
ClosedIsDestroyed ==
  peer # "open" ~> ~alive \/ \E c \in Callers : callerPc[c] # "gone"

(* The destructor's assert: a connection is destroyed in kDisconnected     *)
(* (TcpConnection.cc:54).                                                  *)
DestroyedDisconnected == failed # "destructor"

=============================================================================
