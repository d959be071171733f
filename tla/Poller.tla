------------------------------- MODULE Poller -------------------------------
(***************************************************************************)
(* Channel, EPollPoller and the part of EventLoop that connects them       *)
(* (net/Channel.h, net/Channel.cc, net/EPollPoller.cc, EventLoop::loop and *)
(* removeChannel), with several channels and descriptors.                  *)
(*                                                                         *)
(* User code runs in the loop thread, in the handler of the current        *)
(* channel (pc = "handling") or in a functor (pc = "functors"), and may    *)
(* create, update, remove and destroy any channel in any order: which of   *)
(* these calls are safe is what the asserts decide, and a failed assert    *)
(* stops the program.  A channel is made for any descriptor, also at an    *)
(* address that another one had, and a descriptor may be handed from a     *)
(* channel that was removed, and still exists, to another one, as          *)
(* Connector does.  It is not closed while a channel is registered for it. *)
(***************************************************************************)
EXTENDS FiniteSets, Naturals

CONSTANTS
  Channels,             \* Channel objects, by their addresses
  Fds,                  \* descriptors
  kInitEventListSize,
  Events                \* "in", "out": what a channel may be interested in

ASSUME PollerAssumption ==
  /\ kInitEventListSize \in Nat \ {0}
  /\ IsFiniteSet(Fds)                  \* a process has at most RLIMIT_NOFILE

VARIABLES
  pc,                   \* "poll", "handle", "handling" or "functors"
  exists,               \* channels that exist
  doomed,               \* the owner of the channel being handled was released
  fd_,                  \* the descriptor the channel at each address has, or
                        \* that the last one there had
  events_, index_, addedToLoop_, tied_,
  channels_,            \* the poller's map: set of <<descriptor, channel>>
  epoll,                \* the kernel's interest list:
                        \* set of [fd, ptr, events]
  ready,                \* what each descriptor has to report
  listSize,             \* events_.size() of the poller
  activeChannels_,
  toHandle,             \* those of them that loop() has still to go to
  currentActiveChannel_,
  failed

objectVars == <<exists, doomed, fd_, tied_>>
channelVars == <<events_, index_, addedToLoop_>>
pollerVars == <<channels_, epoll>>
loopVars == <<pc, activeChannels_, toHandle, currentActiveChannel_>>
vars == <<loopVars, objectVars, channelVars, pollerVars, ready, listSize, failed>>

NoChannel == "none"
Readiness == {"quiet", "ready", "hup"}
NotFailed == failed = "none"

Init ==
  /\ pc = "functors"
  /\ exists = {} /\ doomed = FALSE
  /\ fd_ \in [Channels -> Fds]
  /\ tied_ = [c \in Channels |-> FALSE]
  /\ events_ = [c \in Channels |-> {}]
  /\ index_ = [c \in Channels |-> "new"]
  /\ addedToLoop_ = [c \in Channels |-> FALSE]
  /\ channels_ = {} /\ epoll = {}
  /\ ready = [d \in Fds |-> "quiet"]
  /\ listSize = kInitEventListSize
  /\ activeChannels_ = {} /\ toHandle = {} /\ currentActiveChannel_ = NoChannel
  /\ failed = "none"

-----------------------------------------------------------------------------
(***************************************************************************)
(* EPollPoller::update: what epoll_ctl makes of the interest list.  An     *)
(* error of epoll_ctl is only logged.                                      *)
(***************************************************************************)

entry(c, ev) == [fd |-> fd_[c], ptr |-> c, events |-> ev]
epollAdd(c, ev) == IF \E e \in epoll : e.fd = fd_[c] THEN epoll ELSE epoll \cup {entry(c, ev)}
epollMod(c, ev) == {IF e.fd = fd_[c] THEN entry(c, ev) ELSE e : e \in epoll}
epollDel(c) == {e \in epoll : e.fd # fd_[c]}

(* The channel that the map has for the descriptor of c. *)
registered(c) == <<fd_[c], c>> \in channels_
occupied(c) == \E p \in channels_ : p[1] = fd_[c]

Fail(why) == failed' = why /\ UNCHANGED <<channelVars, pollerVars>>

UserCode == NotFailed /\ pc \in {"handling", "functors"}

-----------------------------------------------------------------------------
(***************************************************************************)
(* Calls of user code.                                                     *)
(***************************************************************************)

(* A new Channel for a descriptor, tied to a shared owner or not. *)
NewChannel(c, fd, tied) ==
  /\ UserCode /\ c \notin exists
  /\ exists' = exists \cup {c}
  /\ fd_' = [fd_ EXCEPT ![c] = fd]
  /\ tied_' = [tied_ EXCEPT ![c] = tied]
  /\ UNCHANGED <<loopVars, doomed, channelVars, pollerVars, ready,
                 listSize, failed>>

(* updateChannel of a channel that is in epoll. *)
modifies(c, ev) ==
  IF ev = {}
  THEN epoll' = epollDel(c) /\ index_' = [index_ EXCEPT ![c] = "deleted"]
  ELSE epoll' = epollMod(c, ev) /\ UNCHANGED index_

(* enableReading, enableWriting, disableReading, disableWriting and        *)
(* disableAll: Channel::update with EPollPoller::updateChannel.  A deleted *)
(* channel is added again whatever its interest.                           *)
Update(c, ev) ==
  /\ UserCode /\ c \in exists
  /\ IF IF index_[c] = "new" THEN occupied(c) ELSE ~registered(c)
     THEN Fail("update")
     ELSE /\ events_' = [events_ EXCEPT ![c] = ev]
          /\ addedToLoop_' = [addedToLoop_ EXCEPT ![c] = TRUE]
          /\ channels_' = channels_ \cup {<<fd_[c], c>>}
          /\ IF index_[c] = "added"
             THEN modifies(c, ev)
             ELSE epoll' = epollAdd(c, ev) /\ index_' = [index_ EXCEPT ![c] = "added"]
          /\ UNCHANGED failed
  /\ UNCHANGED <<loopVars, objectVars, ready, listSize>>

removableAlways(c) == TRUE

(* EventLoop::removeChannel's assert: during event handling, the current   *)
(* channel or one that was not reported.                                   *)
removable(c) ==
  pc = "handling" => c = currentActiveChannel_ \/ c \notin activeChannels_

deletesNothing(c) == epoll
deletesAdded(c) == IF index_[c] = "added" THEN epollDel(c) ELSE epoll

(* Channel::remove, EventLoop::removeChannel, EPollPoller::removeChannel. *)
Remove(c) ==
  /\ UserCode /\ c \in exists
  /\ IF events_[c] # {} \/ ~removable(c) \/ ~registered(c)
     THEN Fail("remove")
     ELSE /\ addedToLoop_' = [addedToLoop_ EXCEPT ![c] = FALSE]
          /\ channels_' = channels_ \ {<<fd_[c], c>>}
          /\ epoll' = deletesAdded(c)
          /\ index_' = [index_ EXCEPT ![c] = "new"]
          /\ UNCHANGED <<events_, failed>>
  /\ UNCHANGED <<loopVars, objectVars, ready, listSize>>

(* ~Channel, with the asserts on addedToLoop_ and hasChannel. *)
destroyed(c) ==
  IF addedToLoop_[c] \/ registered(c)
  THEN failed' = "destructor" /\ UNCHANGED exists
  ELSE exists' = exists \ {c} /\ UNCHANGED failed

(* handleEvent holds tie_ while the handler of c runs. *)
guarded(c) == c = currentActiveChannel_ /\ tied_[c]

(* The owner lets go of its channel. *)
Release(c) ==
  /\ UserCode /\ c \in exists
  /\ ~(doomed /\ c = currentActiveChannel_)
  /\ IF pc = "handling" /\ guarded(c)
     THEN doomed' = TRUE /\ UNCHANGED <<exists, failed>>
     ELSE IF pc = "handling" /\ c = currentActiveChannel_
     THEN failed' = "destroyedInHandler" /\ UNCHANGED <<exists, doomed>>
     ELSE destroyed(c) /\ UNCHANGED doomed
  /\ UNCHANGED <<loopVars, fd_, tied_, channelVars, pollerVars, ready, listSize>>

UserStep ==
  \E c \in Channels :
    \/ \E fd \in Fds, tied \in BOOLEAN : NewChannel(c, fd, tied)
    \/ \E ev \in SUBSET Events : Update(c, ev)
    \/ Remove(c) \/ Release(c)

-----------------------------------------------------------------------------
(***************************************************************************)
(* The loop: poll, handle the active channels one after the other, run     *)
(* functors.                                                               *)
(***************************************************************************)

(* epoll is level-triggered, and reports a hang-up whatever the interest. *)
Reportable(e) == \/ ready[e.fd] = "hup"
                 \/ ready[e.fd] = "ready" /\ e.events # {}
pendingEntries == {e \in epoll : Reportable(e)}

Lesser(a, b) == IF a < b THEN a ELSE b

sizeKept(n) == listSize
(* events_ doubles when it was filled. *)
sizeAfter(n) == IF n = listSize THEN 2 * listSize ELSE listSize

(* epoll_wait fills the list with what is pending, as far as it goes, and  *)
(* fillActiveChannels asserts that the map has each reported channel.      *)
PollReports(reported) ==
  /\ NotFailed /\ pc = "poll" /\ reported # {}
  /\ Cardinality(reported) = Lesser(listSize, Cardinality(pendingEntries))
  /\ IF \E e \in reported : e.ptr \notin exists \/ ~registered(e.ptr)
     THEN failed' = "fillActiveChannels" /\ UNCHANGED <<pc, activeChannels_, toHandle>>
     ELSE /\ pc' = "handle"
          /\ activeChannels_' = {e.ptr : e \in reported}
          /\ toHandle' = activeChannels_'
          /\ UNCHANGED failed
  /\ listSize' = sizeAfter(Cardinality(reported))
  /\ UNCHANGED <<currentActiveChannel_, objectVars, channelVars, pollerVars, ready>>

(* A timeout or a signal. *)
PollReportsNothing ==
  /\ NotFailed /\ pc = "poll" /\ pendingEntries = {}
  /\ pc' = "functors" /\ activeChannels_' = {}
  /\ UNCHANGED <<toHandle, currentActiveChannel_, objectVars, channelVars,
                 pollerVars, ready, listSize, failed>>

HandleEvent(c) ==
  /\ NotFailed /\ pc = "handle" /\ c \in toHandle
  /\ toHandle' = toHandle \ {c}
  /\ currentActiveChannel_' = c
  /\ IF c \in exists
     THEN pc' = "handling" /\ UNCHANGED failed
     ELSE failed' = "dangling" /\ UNCHANGED pc
  /\ UNCHANGED <<activeChannels_, objectVars, channelVars, pollerVars, ready, listSize>>

(* The handler returns, and the guard of a tied channel with it. *)
HandlerReturns ==
  /\ NotFailed /\ pc = "handling"
  /\ pc' = "handle" /\ doomed' = FALSE
  /\ IF doomed THEN destroyed(currentActiveChannel_) ELSE UNCHANGED <<exists, failed>>
  /\ UNCHANGED <<activeChannels_, toHandle, currentActiveChannel_, fd_, tied_,
                 channelVars, pollerVars, ready, listSize>>

AllHandled ==
  /\ NotFailed /\ pc = "handle" /\ toHandle = {}
  /\ pc' = "functors" /\ currentActiveChannel_' = NoChannel
  /\ UNCHANGED <<activeChannels_, toHandle, objectVars, channelVars, pollerVars,
                 ready, listSize, failed>>

FunctorsDone ==
  /\ NotFailed /\ pc = "functors" /\ pc' = "poll"
  /\ UNCHANGED <<activeChannels_, toHandle, currentActiveChannel_, objectVars,
                 channelVars, pollerVars, ready, listSize, failed>>

LoopStep ==
  \/ \E reported \in SUBSET pendingEntries : PollReports(reported)
  \/ \E c \in Channels : HandleEvent(c)
  \/ HandlerReturns \/ AllHandled \/ FunctorsDone

(* The outside world. *)
ReadinessChanges(d, r) ==
  /\ NotFailed /\ ready[d] # r
  /\ ready' = [ready EXCEPT ![d] = r]
  /\ UNCHANGED <<loopVars, objectVars, channelVars, pollerVars, listSize, failed>>

Next ==
  \/ LoopStep \/ PollReportsNothing \/ UserStep
  \/ \E d \in Fds, r \in Readiness : ReadinessChanges(d, r)

Spec == Init /\ [][Next]_vars

(* The loop runs and callbacks return; epoll_wait comes back when there is *)
(* something to report, in an order and choice that is the kernel's.       *)
FairSpec == Spec /\ WF_vars(LoopStep)

-----------------------------------------------------------------------------
TypeOK ==
  /\ pc \in {"poll", "handle", "handling", "functors"}
  /\ exists \subseteq Channels /\ doomed \in BOOLEAN
  /\ fd_ \in [Channels -> Fds] /\ tied_ \in [Channels -> BOOLEAN]
  /\ events_ \in [Channels -> SUBSET Events]
  /\ index_ \in [Channels -> {"new", "added", "deleted"}]
  /\ addedToLoop_ \in [Channels -> BOOLEAN]
  /\ channels_ \subseteq Fds \X Channels
  /\ \A e \in epoll : e.fd \in Fds /\ e.ptr \in Channels /\ e.events \subseteq Events
  /\ ready \in [Fds -> Readiness]
  /\ listSize \in 1..(2 * Cardinality(Fds) + kInitEventListSize)
  /\ toHandle \subseteq activeChannels_ /\ activeChannels_ \subseteq Channels
  /\ currentActiveChannel_ \in Channels \cup {NoChannel}
  /\ pc = "handling" /\ NotFailed => currentActiveChannel_ \in exists

(* What EventLoop.cc:195-200 and Channel.cc:28-32 assert is enough: as     *)
(* long as they hold, whatever user code does in handlers and functors,    *)
(* loop() never calls handleEvent of a destroyed channel, and what         *)
(* EPollPoller.cc:58-59 asserts of the pointers in epoll always holds.     *)
NoDanglingChannel == failed \notin {"dangling", "fillActiveChannels"}

(* The map, the index that each channel carries and the kernel's list say  *)
(* the same: a channel is in epoll, with exactly its interest, iff its     *)
(* index is kAdded, and it is in the map iff it is not kNew.               *)
EpollAgrees ==
  /\ epoll = {entry(c, events_[c]) : c \in {c \in exists : index_[c] = "added"}}
  /\ channels_ = {<<fd_[c], c>> : c \in {c \in exists : index_[c] # "new"}}
  /\ \A c \in exists : index_[c] = "deleted" => events_[c] = {}

(* With the types, what the poller relies on from call to call.            *)
PollerConsistent == TypeOK /\ EpollAgrees

(* A channel that stays ready is handled again and again, also when more   *)
(* channels are ready than events_ has room for and epoll_wait prefers     *)
(* others: the list doubles until it holds them all.                       *)
ReadyChannelsHandled ==
  \A c \in Channels :
    <>[](NotFailed /\ \E e \in pendingEntries : e.ptr = c)
      => []<>(pc = "handling" /\ currentActiveChannel_ = c)

=============================================================================
