---------------------------- MODULE PollerProofs ----------------------------
(***************************************************************************)
(* Theorems about Poller, for any set of channels, any finite set of       *)
(* descriptors and any first size of the event list: what the map, the     *)
(* index of each channel and the kernel's interest list say always agrees, *)
(* and, as long as the asserts hold, loop() never calls a channel that was *)
(* destroyed.                                                              *)
(***************************************************************************)
EXTENDS Poller, FiniteSetTheorems, TLAPS

Registered(c) == index_[c] # "new"

(* What a channel carries: kNew as long as it does not exist, nothing of   *)
(* interest unless it is kAdded, and addedToLoop_ with the index.          *)
ChannelStates ==
  \A c \in Channels :
    /\ c \notin exists => ~Registered(c)
    /\ index_[c] # "added" => events_[c] = {}
    /\ addedToLoop_[c] <=> Registered(c)

(* One registered channel per descriptor, without which epoll_ctl for one  *)
(* channel would hit the entry of another.                                 *)
FdsUnique ==
  \A c, d \in exists :
    Registered(c) /\ Registered(d) /\ fd_[c] = fd_[d] => c = d

EpollSound ==
  \A e \in epoll :
    /\ e.ptr \in exists /\ index_[e.ptr] = "added"
    /\ e = entry(e.ptr, events_[e.ptr])
EpollComplete ==
  \A c \in exists : index_[c] = "added" => entry(c, events_[c]) \in epoll
MapSound ==
  \A p \in channels_ :
    p[2] \in exists /\ Registered(p[2]) /\ p = <<fd_[p[2]], p[2]>>
MapComplete ==
  \A c \in exists : Registered(c) => registered(c)

Books == ChannelStates /\ FdsUnique /\ EpollSound /\ EpollComplete
         /\ MapSound /\ MapComplete

(* The channels loop() has still to go to exist, and are registered: that  *)
(* is why the assert of removeChannel protects them from ~Channel.         *)
ActiveAlive ==
  /\ pc \in {"poll", "functors"} => toHandle = {}
  /\ \A c \in toHandle : c \in exists /\ Registered(c)
  /\ pc = "handling" => currentActiveChannel_ \notin toHandle

PollerInv == TypeOK /\ Books /\ ActiveAlive /\ NoDanglingChannel

(* The descriptor tells the entries of epoll apart.                        *)
LEMMA EntriesDiffer ==
  ASSUME TypeOK, Books, NEW d \in epoll, NEW e \in epoll, d.fd = e.fd
  PROVE  d = e
<1>1. d.fd = fd_[d.ptr] /\ e.fd = fd_[e.ptr]
  BY DEF Books, EpollSound, entry
<1>2. d.ptr = e.ptr
  BY <1>1 DEF Books, EpollSound, FdsUnique, Registered
<1> QED
  BY <1>2 DEF Books, EpollSound

(* epoll_wait reports at most one entry per descriptor.                    *)
LEMMA ReportedBounded ==
  ASSUME TypeOK, Books, NEW reported \in SUBSET epoll
  PROVE  /\ IsFiniteSet(reported)
         /\ Cardinality(reported) \in Nat
         /\ Cardinality(Fds) \in Nat
         /\ Cardinality(reported) <= Cardinality(Fds)
<1> DEFINE f == [e \in reported |-> e.fd]
<1>1. f \in [reported -> Fds]
  BY DEF TypeOK
<1>2. \A d, e \in reported : f[d] = f[e] => d = e
  BY EntriesDiffer
<1>3. f \in Injection(reported, Fds)
  BY <1>1, <1>2 DEF Injection, IsInjective
<1>4. IsFiniteSet(reported) /\ Cardinality(reported) <= Cardinality(Fds)
  BY <1>3, FS_Injection, PollerAssumption
<1> QED
  BY <1>4, FS_CardinalityType, PollerAssumption

(* What leaves the registrations alone keeps the books.                    *)
LEMMA BooksKept ==
  ASSUME Books, UNCHANGED <<exists, fd_, channelVars, pollerVars>>
  PROVE  Books'
BY DEF Books, ChannelStates, FdsUnique, EpollSound, EpollComplete, MapSound,
       MapComplete, Registered, registered, entry, channelVars, pollerVars

(* ~Channel passes its asserts only for a channel the poller does not know. *)
LEMMA DestroyedUnregistered ==
  ASSUME TypeOK, Books, NEW c \in exists, destroyed(c)
  PROVE  \/ UNCHANGED exists /\ failed' = "destructor"
         \/ /\ ~Registered(c)
            /\ exists' = exists \ {c} /\ UNCHANGED failed
BY DEF TypeOK, Books, ChannelStates, destroyed

(* The books stay right when a channel that is not registered is           *)
(* destroyed.                                                              *)
LEMMA BooksAfterDestruction ==
  ASSUME TypeOK, Books, NEW c \in exists, ~Registered(c),
         exists' = exists \ {c}, UNCHANGED <<fd_, channelVars, pollerVars>>
  PROVE  Books'
BY DEF TypeOK, Books, ChannelStates, FdsUnique, EpollSound, EpollComplete, MapSound,
       MapComplete, Registered, registered, entry, channelVars, pollerVars

(* The books stay right when a channel is made.                            *)
LEMMA BooksAfterNew ==
  ASSUME TypeOK, Books, NEW c \in Channels, NEW d \in Fds, NEW tied,
         NewChannel(c, d, tied)
  PROVE  Books'
BY DEF TypeOK, Books, ChannelStates, FdsUnique, EpollSound, EpollComplete, MapSound,
       MapComplete, Registered, registered, entry, channelVars, pollerVars, NewChannel

(* A registered channel is the one the map has for its descriptor.         *)
LEMMA MapIsTrue ==
  ASSUME TypeOK, Books, NEW c \in exists
  PROVE  /\ registered(c) <=> Registered(c)
         /\ Registered(c) => occupied(c)
BY DEF TypeOK, Books, MapSound, MapComplete, registered, occupied

(* epoll_ctl(ADD) of a channel that is not in epoll never finds its        *)
(* descriptor there: EPOLL_CTL_ADD does not fail with EEXIST.              *)
LEMMA AddSucceeds ==
  ASSUME TypeOK, Books, NEW c \in exists, NEW ev,
         IF index_[c] = "new" THEN ~occupied(c) ELSE index_[c] = "deleted"
  PROVE  epollAdd(c, ev) = epoll \cup {entry(c, ev)}
<1> SUFFICES ASSUME NEW e \in epoll, e.fd = fd_[c] PROVE FALSE
  BY DEF epollAdd
<1>1. e.ptr \in exists /\ index_[e.ptr] = "added" /\ fd_[e.ptr] = fd_[c]
  BY DEF Books, EpollSound, entry
<1>2. registered(e.ptr)
  BY <1>1 DEF Books, MapComplete, Registered
<1>3. CASE index_[c] = "new"
  BY <1>1, <1>2, <1>3 DEF registered, occupied
<1>4. CASE index_[c] = "deleted"
  BY <1>1, <1>4 DEF Books, FdsUnique, Registered
<1> QED
  BY <1>3, <1>4

(* The books stay right after updateChannel.                               *)
LEMMA BooksAfterUpdate ==
  ASSUME TypeOK, Books, NEW c \in Channels, NEW ev \in SUBSET Events, Update(c, ev)
  PROVE  Books'
<1> DEFINE refused == IF index_[c] = "new" THEN occupied(c) ELSE ~registered(c)
<1>0. c \in exists /\ UNCHANGED objectVars
  BY DEF Update
<1>1. CASE refused
  BY <1>1, BooksKept DEF Update, Fail, objectVars
<1>2. CASE ~refused
  <2>1. /\ events_' = [events_ EXCEPT ![c] = ev]
        /\ addedToLoop_' = [addedToLoop_ EXCEPT ![c] = TRUE]
        /\ channels_' = channels_ \cup {<<fd_[c], c>>}
        /\ IF index_[c] = "added"
           THEN modifies(c, ev)
           ELSE epoll' = epollAdd(c, ev) /\ index_' = [index_ EXCEPT ![c] = "added"]
    BY <1>2 DEF Update
  <2>2. exists' = exists /\ fd_' = fd_
    BY <1>0 DEF objectVars
  <2>3. /\ Registered(c)'
        /\ \A d \in Channels \ {c} : events_'[d] = events_[d]
                                     /\ addedToLoop_'[d] = addedToLoop_[d]
                                     /\ index_'[d] = index_[d]
        /\ events_'[c] = ev /\ addedToLoop_'[c] /\ index_'[c] \in {"added", "deleted"}
        /\ index_'[c] = "deleted" => ev = {}
    BY <2>1 DEF TypeOK, modifies, Registered
  <2>4. ChannelStates'
    BY <1>0, <2>2, <2>3 DEF ChannelStates, Books, Registered
  <2>5. FdsUnique'
    <3> SUFFICES ASSUME NEW d \in exists, Registered(d), d # c, fd_[d] = fd_[c]
                 PROVE  FALSE
      BY <2>2, <2>3 DEF FdsUnique, Books, Registered, TypeOK
    <3>1. occupied(c)
      BY DEF Books, MapComplete, registered, occupied
    <3>2. index_[c] # "new"
      BY <1>2, <3>1
    <3> QED
      BY <1>0, <3>2 DEF Books, FdsUnique, Registered
  <2>6. MapSound' /\ MapComplete'
    BY <1>0, <2>1, <2>2, <2>3
    DEF MapSound, MapComplete, Books, registered, Registered, TypeOK
  <2>7. EpollSound' /\ EpollComplete'
    <3> USE DEF EpollSound, EpollComplete, entry
    <3>1. CASE index_[c] # "added"
      <4>1. IF index_[c] = "new" THEN ~occupied(c) ELSE index_[c] = "deleted"
        BY <1>2, <3>1 DEF TypeOK
      <4>2. epoll' = epoll \cup {entry(c, ev)} /\ index_'[c] = "added"
        BY <1>0, <2>1, <3>1, <4>1, AddSucceeds DEF TypeOK
      <4>3. \A e \in epoll : e.ptr # c
        BY <3>1 DEF Books
      <4> QED
        BY <1>0, <2>2, <2>3, <4>2, <4>3 DEF Books, TypeOK
    <3>2. CASE index_[c] = "added"
      <4>1. \A e \in epoll : e.fd = fd_[c] <=> e.ptr = c
        BY <1>0, <3>2 DEF Books, FdsUnique, Registered
      <4>2. CASE ev = {}
        <5>1. epoll' = {e \in epoll : e.fd # fd_[c]} /\ index_'[c] = "deleted"
          BY <2>1, <3>2, <4>2 DEF modifies, epollDel, TypeOK
        <5> QED
          BY <1>0, <2>2, <2>3, <4>1, <5>1 DEF Books, TypeOK
      <4>3. CASE ev # {}
        <5>1. epoll' = epollMod(c, ev) /\ index_' = index_
          BY <2>1, <3>2, <4>3 DEF modifies
        <5>2. entry(c, ev) \in epoll' /\ \A e \in epoll : e.ptr # c => e \in epoll'
          BY <1>0, <3>2, <4>1, <5>1 DEF epollMod, Books
        <5>3. \A e \in epoll' : e = entry(c, ev) \/ (e \in epoll /\ e.ptr # c)
          BY <4>1, <5>1 DEF epollMod
        <5>4. EpollSound'
          BY <1>0, <2>2, <2>3, <3>2, <5>1, <5>3 DEF Books, TypeOK
        <5>5. EpollComplete'
          <6> SUFFICES ASSUME NEW d \in exists, index_[d] = "added", d # c
                       PROVE  entry(d, events_[d]) \in epoll'
            BY <2>2, <2>3, <5>1, <5>2 DEF TypeOK
          <6> QED
            BY <5>2 DEF Books
        <5> QED
          BY <5>4, <5>5
      <4> QED
        BY <4>2, <4>3
    <3> QED
      BY <3>1, <3>2
  <2> QED
    BY <2>4, <2>5, <2>6, <2>7 DEF Books
<1> QED
  BY <1>1, <1>2

(* The books stay right after removeChannel.                               *)
LEMMA BooksAfterRemove ==
  ASSUME TypeOK, Books, NEW c \in Channels, Remove(c)
  PROVE  Books'
<1> DEFINE refused == events_[c] # {} \/ ~removable(c) \/ ~registered(c)
<1>0. c \in exists /\ UNCHANGED objectVars
  BY DEF Remove
<1>1. CASE refused
  BY <1>1, BooksKept DEF Remove, Fail, objectVars
<1>2. CASE ~refused
  <2>1. /\ addedToLoop_' = [addedToLoop_ EXCEPT ![c] = FALSE]
        /\ channels_' = channels_ \ {<<fd_[c], c>>}
        /\ epoll' = IF index_[c] = "added" THEN epollDel(c) ELSE epoll
        /\ index_' = [index_ EXCEPT ![c] = "new"]
        /\ events_[c] = {} /\ events_' = events_ /\ registered(c)
    BY <1>2 DEF Remove, deletesAdded
  <2>2. exists' = exists /\ fd_' = fd_ /\ Registered(c)
    BY <1>0, <2>1, MapIsTrue DEF objectVars
  <2>3. /\ ~Registered(c)'
        /\ \A d \in Channels \ {c} : addedToLoop_'[d] = addedToLoop_[d]
                                     /\ index_'[d] = index_[d]
        /\ ~addedToLoop_'[c] /\ index_'[c] = "new"
    BY <2>1 DEF TypeOK, Registered
  <2>4. ChannelStates' /\ FdsUnique'
    BY <1>0, <2>1, <2>2, <2>3 DEF ChannelStates, FdsUnique, Books, Registered, TypeOK
  <2>5. MapSound' /\ MapComplete'
    BY <1>0, <2>1, <2>2, <2>3
    DEF MapSound, MapComplete, Books, registered, Registered, TypeOK
  <2>6. \A e \in epoll : e.fd = fd_[c] <=> e.ptr = c
    BY <1>0, <2>2 DEF Books, FdsUnique, EpollSound, entry, Registered
  <2>7. epoll' = {e \in epoll : e.ptr # c}
    BY <2>1, <2>6 DEF Books, EpollSound, epollDel
  <2>8. EpollSound' /\ EpollComplete'
    BY <1>0, <2>1, <2>2, <2>3, <2>7 DEF EpollSound, EpollComplete, entry, Books, TypeOK
  <2> QED
    BY <2>4, <2>5, <2>8 DEF Books
<1> QED
  BY <1>1, <1>2

(* The list doubles only when it was filled, with at most one entry per    *)
(* descriptor.                                                             *)
LEMMA ListSizeBounded ==
  ASSUME TypeOK, Books, NEW reported \in SUBSET pendingEntries, PollReports(reported)
  PROVE  listSize' \in 1..(2 * Cardinality(Fds) + kInitEventListSize)
<1>1. reported \in SUBSET epoll
  BY DEF pendingEntries
<1>2. /\ Cardinality(reported) \in Nat /\ Cardinality(Fds) \in Nat
      /\ Cardinality(reported) <= Cardinality(Fds)
  BY <1>1, ReportedBounded
<1>3. listSize' = IF Cardinality(reported) = listSize THEN 2 * listSize ELSE listSize
  BY DEF PollReports, sizeAfter
<1>4. listSize \in 1..(2 * Cardinality(Fds) + kInitEventListSize)
  BY DEF TypeOK
<1> QED
  BY <1>2, <1>3, <1>4, PollerAssumption

(* What epoll reports is registered and exists.                            *)
LEMMA ReportedAlive ==
  ASSUME TypeOK, Books, NEW e \in pendingEntries
  PROVE  e.ptr \in exists /\ registered(e.ptr) /\ Registered(e.ptr)
<1>1. e.ptr \in exists /\ index_[e.ptr] = "added"
  BY DEF pendingEntries, Books, EpollSound
<1> QED
  BY <1>1, MapIsTrue DEF Registered

(* The books, one step of the system later.                                *)
LEMMA BooksStep ==
  ASSUME TypeOK, Books, [Next]_vars
  PROVE  Books'
<1>1. CASE LoopStep
  <2>1. ASSUME NEW reported \in SUBSET pendingEntries, PollReports(reported)
        PROVE  Books'
    BY <2>1, BooksKept DEF PollReports, objectVars
  <2>2. ASSUME NEW c \in Channels, HandleEvent(c)
        PROVE  Books'
    BY <2>2, BooksKept DEF HandleEvent, objectVars
  <2>3. CASE HandlerReturns
    <3>1. UNCHANGED <<fd_, channelVars, pollerVars>>
      BY <2>3 DEF HandlerReturns
    <3>2. UNCHANGED exists \/ /\ destroyed(currentActiveChannel_)
                              /\ currentActiveChannel_ \in exists
      BY <2>3 DEF HandlerReturns, TypeOK
    <3> QED
      BY <3>1, <3>2, BooksKept, BooksAfterDestruction, DestroyedUnregistered
  <2>4. CASE AllHandled
    BY <2>4, BooksKept DEF AllHandled, objectVars
  <2>5. CASE FunctorsDone
    BY <2>5, BooksKept DEF FunctorsDone, objectVars
  <2> QED
    BY <1>1, <2>1, <2>2, <2>3, <2>4, <2>5 DEF LoopStep
<1>2. CASE PollReportsNothing
  BY <1>2, BooksKept DEF PollReportsNothing, objectVars
<1>3. CASE UserStep
  <2>1. ASSUME NEW c \in Channels, NEW d \in Fds, NEW tied \in BOOLEAN, NewChannel(c, d, tied)
        PROVE  Books'
    BY <2>1, BooksAfterNew
  <2>2. ASSUME NEW c \in Channels, NEW ev \in SUBSET Events, Update(c, ev)
        PROVE  Books'
    BY <2>2, BooksAfterUpdate
  <2>3. ASSUME NEW c \in Channels, Remove(c)
        PROVE  Books'
    BY <2>3, BooksAfterRemove
  <2>4. ASSUME NEW c \in Channels, Release(c)
        PROVE  Books'
    <3>1. c \in exists /\ UNCHANGED <<fd_, channelVars, pollerVars>>
      BY <2>4 DEF Release
    <3>2. UNCHANGED exists \/ destroyed(c)
      BY <2>4 DEF Release
    <3> QED
      BY <3>1, <3>2, BooksKept, BooksAfterDestruction, DestroyedUnregistered
  <2> QED
    BY <1>3, <2>1, <2>2, <2>3, <2>4 DEF UserStep
<1>4. ASSUME NEW d \in Fds, NEW r \in Readiness, ReadinessChanges(d, r)
      PROVE  Books'
  BY <1>4, BooksKept DEF ReadinessChanges, objectVars
<1>5. CASE UNCHANGED vars
  BY <1>5, BooksKept DEF vars, objectVars
<1> QED
  BY <1>1, <1>2, <1>3, <1>4, <1>5 DEF Next

(* The types, one step later.  Only the list size needs the books.         *)
LEMMA TypesStep ==
  ASSUME TypeOK, Books, ActiveAlive, [Next]_vars
  PROVE  TypeOK'
<1> USE DEF TypeOK, objectVars, channelVars, pollerVars, loopVars
<1>1. ASSUME NEW reported \in SUBSET pendingEntries, PollReports(reported)
      PROVE  TypeOK'
  <2>1. listSize' \in 1..(2 * Cardinality(Fds) + kInitEventListSize)
    BY <1>1, ListSizeBounded
  <2>2. \A e \in reported : e.ptr \in exists
    BY ReportedAlive
  <2>3. toHandle' \subseteq activeChannels_' /\ activeChannels_' \subseteq Channels
    BY <1>1, <2>2 DEF PollReports
  <2>4. pc' \in {"poll", "handle"}
    BY <1>1 DEF PollReports
  <2> QED
    BY <1>1, <2>1, <2>3, <2>4 DEF PollReports
<1>2. ASSUME NEW c \in Channels, HandleEvent(c)
      PROVE  TypeOK'
  BY <1>2 DEF HandleEvent, NotFailed
<1>3. CASE HandlerReturns
  <2>1. exists' \subseteq Channels
    BY <1>3 DEF HandlerReturns, destroyed
  <2> QED
    BY <1>3, <2>1 DEF HandlerReturns
<1>4. CASE AllHandled \/ FunctorsDone \/ PollReportsNothing
  <2>1. CASE AllHandled
    BY <2>1 DEF AllHandled, NotFailed
  <2>2. CASE FunctorsDone
    BY <2>2 DEF FunctorsDone, NotFailed
  <2>3. CASE PollReportsNothing
    BY <2>3 DEF PollReportsNothing, NotFailed, ActiveAlive
  <2> QED
    BY <1>4, <2>1, <2>2, <2>3
<1>5. ASSUME NEW c \in Channels, NEW d \in Fds, NEW tied \in BOOLEAN, NewChannel(c, d, tied)
      PROVE  TypeOK'
  BY <1>5 DEF NewChannel, NotFailed
<1>6. ASSUME NEW c \in Channels, NEW ev \in SUBSET Events, Update(c, ev)
      PROVE  TypeOK'
  <2>1. channels_' \subseteq Fds \X Channels
    BY <1>6 DEF Update, Fail
  <2>2. /\ events_' \in [Channels -> SUBSET Events]
        /\ index_' \in [Channels -> {"new", "added", "deleted"}]
        /\ addedToLoop_' \in [Channels -> BOOLEAN]
    BY <1>6 DEF Update, Fail, modifies
  <2>3. \A e \in epoll' : e \in epoll \/ e = entry(c, ev)
    <3>1. epoll' \in {epoll, epollAdd(c, ev), epollMod(c, ev), epollDel(c)}
      BY <1>6 DEF Update, Fail, modifies
    <3> QED
      BY <3>1 DEF epollAdd, epollMod, epollDel
  <2>4. \A e \in epoll' : e.fd \in Fds /\ e.ptr \in Channels /\ e.events \subseteq Events
    BY <2>3 DEF entry
  <2> QED
    BY <1>6, <2>1, <2>2, <2>4 DEF Update, Fail, NotFailed
<1>7. ASSUME NEW c \in Channels, Remove(c)
      PROVE  TypeOK'
  <2>1. channels_' \subseteq Fds \X Channels /\ epoll' \subseteq epoll
    BY <1>7 DEF Remove, Fail, deletesAdded, epollDel
  <2>2. /\ events_' \in [Channels -> SUBSET Events]
        /\ index_' \in [Channels -> {"new", "added", "deleted"}]
        /\ addedToLoop_' \in [Channels -> BOOLEAN]
    BY <1>7 DEF Remove, Fail
  <2> QED
    BY <1>7, <2>1, <2>2 DEF Remove, Fail, NotFailed
<1>8. ASSUME NEW c \in Channels, Release(c)
      PROVE  TypeOK'
  <2>1. /\ exists' \subseteq Channels /\ doomed' \in BOOLEAN
        /\ pc = "handling" /\ failed' = "none" => currentActiveChannel_ \in exists'
    BY <1>8 DEF Release, destroyed, guarded, UserCode, NotFailed
  <2> QED
    BY <1>8, <2>1 DEF Release, NotFailed
<1>9. ASSUME NEW d \in Fds, NEW r \in Readiness, ReadinessChanges(d, r)
      PROVE  TypeOK'
  BY <1>9 DEF ReadinessChanges, NotFailed
<1>10. CASE UNCHANGED vars
  BY <1>10 DEF vars, NotFailed
<1> QED
  BY <1>1, <1>2, <1>3, <1>4, <1>5, <1>6, <1>7, <1>8, <1>9, <1>10
  DEF Next, LoopStep, UserStep

(* A channel that loop() has still to go to is neither removed, for        *)
(* removeChannel asserts that it was not reported, nor, being registered,  *)
(* destroyed.                                                              *)
LEMMA ActiveStep ==
  ASSUME TypeOK, Books, ActiveAlive, [Next]_vars
  PROVE  ActiveAlive'
<1> USE DEF TypeOK, ActiveAlive, Registered, objectVars, channelVars, loopVars
<1>1. ASSUME NEW reported \in SUBSET pendingEntries, PollReports(reported)
      PROVE  ActiveAlive'
  <2>1. \A e \in reported : e.ptr \in exists /\ registered(e.ptr) /\ Registered(e.ptr)
    BY ReportedAlive
  <2>2. /\ pc' = "handle" /\ toHandle' = {e.ptr : e \in reported}
        /\ UNCHANGED <<exists, index_>>
    BY <1>1, <2>1 DEF PollReports
  <2> QED
    BY <2>1, <2>2
<1>2. ASSUME NEW c \in Channels, HandleEvent(c)
      PROVE  ActiveAlive'
  BY <1>2 DEF HandleEvent
<1>3. CASE HandlerReturns
  <2>1. \A c \in toHandle : c \in exists'
    BY <1>3, DestroyedUnregistered DEF HandlerReturns, NotFailed
  <2> QED
    BY <1>3, <2>1 DEF HandlerReturns
<1>4. CASE AllHandled
  BY <1>4 DEF AllHandled
<1>5. CASE FunctorsDone
  BY <1>5 DEF FunctorsDone
<1>6. CASE PollReportsNothing
  BY <1>6 DEF PollReportsNothing
<1>7. ASSUME NEW c \in Channels, NEW d \in Fds, NEW tied \in BOOLEAN, NewChannel(c, d, tied)
      PROVE  ActiveAlive'
  BY <1>7 DEF NewChannel
<1>8. ASSUME NEW c \in Channels, NEW ev \in SUBSET Events, Update(c, ev)
      PROVE  ActiveAlive'
  <2>1. \A d \in Channels : index_'[d] = index_[d] \/ index_'[d] # "new"
    BY <1>8 DEF Update, Fail, modifies
  <2> QED
    BY <1>8, <2>1 DEF Update
<1>9. ASSUME NEW c \in Channels, Remove(c)
      PROVE  ActiveAlive'
  <2>1. \A d \in Channels \ {c} : index_'[d] = index_[d]
    BY <1>9 DEF Remove, Fail
  <2>2. c \in toHandle => index_' = index_
    BY <1>9 DEF Remove, Fail, removable, UserCode
  <2> QED
    BY <1>9, <2>1, <2>2 DEF Remove
<1>10. ASSUME NEW c \in Channels, Release(c)
       PROVE  ActiveAlive'
  <2>1. \A d \in toHandle : d \in exists'
    BY <1>10, DestroyedUnregistered DEF Release
  <2> QED
    BY <1>10, <2>1 DEF Release
<1>11. ASSUME NEW d \in Fds, NEW r \in Readiness, ReadinessChanges(d, r)
       PROVE  ActiveAlive'
  BY <1>11 DEF ReadinessChanges
<1>12. CASE UNCHANGED vars
  BY <1>12 DEF vars
<1> QED
  BY <1>1, <1>2, <1>3, <1>4, <1>5, <1>6, <1>7, <1>8, <1>9, <1>10, <1>11, <1>12
  DEF Next, LoopStep, UserStep

(* With every channel that is called alive, and every pointer in epoll     *)
(* too, no assert about them fails.                                        *)
LEMMA DanglingStep ==
  ASSUME TypeOK, Books, ActiveAlive, NoDanglingChannel, [Next]_vars
  PROVE  NoDanglingChannel'
<1> USE DEF NoDanglingChannel, objectVars, loopVars, NotFailed, UserCode
<1>0. CASE ~NotFailed
  <2>1. UNCHANGED <<failed, tied_, currentActiveChannel_>>
    BY <1>0 DEF Next, LoopStep, PollReports, HandleEvent, HandlerReturns, AllHandled,
       FunctorsDone, PollReportsNothing, UserStep, NewChannel, Update, Remove, Release,
       ReadinessChanges, vars
  <2> QED
    BY <2>1
<1>1. ASSUME NEW reported \in SUBSET pendingEntries, PollReports(reported)
      PROVE  NoDanglingChannel'
  <2>1. \A e \in reported : e.ptr \in exists /\ registered(e.ptr)
    BY ReportedAlive
  <2> QED
    BY <1>1, <2>1 DEF PollReports
<1>2. ASSUME NEW c \in Channels, HandleEvent(c)
      PROVE  NoDanglingChannel'
  BY <1>2 DEF HandleEvent, ActiveAlive
<1>3. CASE HandlerReturns
  BY <1>3 DEF HandlerReturns, destroyed
<1>4. CASE AllHandled \/ FunctorsDone \/ PollReportsNothing
  BY <1>4 DEF AllHandled, FunctorsDone, PollReportsNothing
<1>5. ASSUME NEW c \in Channels, NEW d \in Fds, NEW tied \in BOOLEAN, NewChannel(c, d, tied)
      PROVE  NoDanglingChannel'
  BY <1>5 DEF NewChannel
<1>6. ASSUME NEW c \in Channels, NEW ev \in SUBSET Events, Update(c, ev)
      PROVE  NoDanglingChannel'
  BY <1>6 DEF Update, Fail
<1>7. ASSUME NEW c \in Channels, Remove(c)
      PROVE  NoDanglingChannel'
  BY <1>7 DEF Remove, Fail
<1>8. ASSUME NEW c \in Channels, Release(c)
      PROVE  NoDanglingChannel'
  BY <1>8 DEF Release, destroyed, guarded
<1>9. ASSUME NEW d \in Fds, NEW r \in Readiness, ReadinessChanges(d, r)
      PROVE  NoDanglingChannel'
  BY <1>9 DEF ReadinessChanges
<1>10. CASE UNCHANGED vars
  BY <1>10 DEF vars
<1> QED
  BY <1>0, <1>1, <1>2, <1>3, <1>4, <1>5, <1>6, <1>7, <1>8, <1>9, <1>10
  DEF Next, LoopStep, UserStep

(* The inductive invariant.                                                *)
THEOREM PollerInvariant == Spec => []PollerInv
<1>1. Init => PollerInv
  <2> SUFFICES ASSUME Init PROVE PollerInv
    OBVIOUS
  <2>1. listSize \in 1..(2 * Cardinality(Fds) + kInitEventListSize)
    BY PollerAssumption, FS_CardinalityType DEF Init
  <2>2. TypeOK
    BY <2>1 DEF Init, TypeOK, Readiness, NotFailed
  <2>3. Books
    BY DEF Init, Books, ChannelStates, FdsUnique, EpollSound, EpollComplete, MapSound,
       MapComplete, Registered
  <2> QED
    BY <2>2, <2>3 DEF Init, PollerInv, ActiveAlive, NoDanglingChannel
<1>2. PollerInv /\ [Next]_vars => PollerInv'
  BY BooksStep, TypesStep, ActiveStep, DanglingStep DEF PollerInv
<1> QED
  BY <1>1, <1>2, PTL DEF Spec

(* As long as what EventLoop::removeChannel and ~Channel assert holds,     *)
(* loop() never calls handleEvent of a destroyed channel, and fillActive-  *)
(* Channels finds every pointer of epoll in the map: whatever user code    *)
(* does, for any number of channels.                                       *)
THEOREM ChannelsNeverDangle == Spec => []NoDanglingChannel
BY PollerInvariant, PTL DEF PollerInv

(* The map of the poller, the index that each channel carries and the      *)
(* kernel's interest list always say the same.                             *)
THEOREM PollerAgrees == Spec => []PollerConsistent
<1>1. PollerInv => PollerConsistent
  <2> SUFFICES ASSUME PollerInv PROVE EpollAgrees
    BY DEF PollerInv, PollerConsistent
  <2> USE DEF PollerInv, Books
  <2>1. epoll = {entry(c, events_[c]) : c \in {c \in exists : index_[c] = "added"}}
    BY DEF EpollSound, EpollComplete
  <2>2. channels_ = {<<fd_[c], c>> : c \in {c \in exists : index_[c] # "new"}}
    BY DEF MapSound, MapComplete, Registered, registered
  <2>3. \A c \in exists : index_[c] = "deleted" => events_[c] = {}
    BY DEF ChannelStates, TypeOK
  <2> QED
    BY <2>1, <2>2, <2>3 DEF EpollAgrees
<1> QED
  BY <1>1, PollerInvariant, PTL

=============================================================================
