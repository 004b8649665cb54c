---------------------------- MODULE Gpoll_proofs ----------------------------
(***************************************************************************)
(* Theorems about Gpoll, for any number of descriptors, sources and timers *)
(* and whatever descriptors libusb watches.                                *)
(***************************************************************************)
EXTENDS Gpoll, FiniteSetTheorems, WellFoundedInduction, TLAPS

-----------------------------------------------------------------------------
(* Lowest, by the well-founded order of the finite sets: the lowest number *)
(* of S is the one whose interval 0..x includes none of the others.        *)

LEMMA LowestIn ==
    ASSUME NEW S, S \subseteq Nat, S # {}
    PROVE  Lowest(S) \in S /\ \A y \in S : Lowest(S) <= y
<1> DEFINE T == {0..x : x \in S}
<1>1. T \subseteq FiniteSubsetsOf(Nat) /\ T # {}
  <2>1. \A x \in S : 0..x \in FiniteSubsetsOf(Nat)
    <3>1. TAKE x \in S
    <3>2. IsFiniteSet(0..x)
      BY FS_Interval
    <3>3. QED
      BY <3>2 DEF FiniteSubsetsOf
  <2>2. QED
    BY <2>1
<1>2. PICK A \in T : \A B \in T : ~ (<<B, A>> \in StrictSubsetOrdering(Nat))
  <2> HIDE DEF T
  <2>1. QED
    BY <1>1, WFMin, FS_StrictSubsetOrderingWellFounded
<1>3. PICK x \in S : A = 0..x
  BY <1>2
<1>4. ASSUME NEW y \in S, ~ (x <= y)
      PROVE  FALSE
  <2>1. 0..y \subseteq 0..x /\ x \in 0..x /\ x \notin 0..y
    BY <1>4
  <2>2. 0..y # 0..x /\ 0..y \in T /\ 0..y \in SUBSET Nat /\ 0..x \in SUBSET Nat
    BY <2>1
  <2>3. <<0..y, A>> \in StrictSubsetOrdering(Nat)
    BY <1>3, <2>1, <2>2, Zenon DEF StrictSubsetOrdering
  <2>4. QED
    BY <1>2, <2>2, <2>3
<1>5. \A y \in S : x <= y
  BY <1>4
<1>6. QED
  BY <1>5 DEF Lowest

LEMMA FdsFacts ==
    /\ Fds \subseteq Nat /\ Slots \subseteq Nat
    /\ 0 \in Fds /\ MaxSources - 1 \in Fds /\ \A fd \in Fds : fd <= MaxSources - 1
    /\ Stdio \subseteq Fds /\ UsbFds \subseteq Fds \ Stdio /\ DeviceFd \in UsbFds
BY GpollAssumption DEF Fds, Slots, Stdio

\* What gpoll_register_fd makes of max_source.
LEMMA MaxSourceGrows ==
    ASSUME maxSource \in Fds, NEW fds, fds \subseteq Fds, NEW source,
           gpoll_register_fd(fds, source)
    PROVE  maxSource' \in Fds /\ maxSource <= maxSource' /\ \A fd \in fds : fd <= maxSource'
<1> DEFINE M == {m \in Fds : m >= maxSource /\ \A fd \in fds : fd <= m}
<1>1. M \subseteq Nat /\ MaxSources - 1 \in M
  BY FdsFacts
<1>2. Lowest(M) \in M
  <2> HIDE DEF M
  <2>1. QED
    BY <1>1, LowestIn
<1>3. maxSource' = Lowest(M)
  BY DEF gpoll_register_fd
<1>4. QED
  BY <1>2, <1>3, FdsFacts

LEMMA NextFdNew ==
    ASSUME Fds \ open # {}
    PROVE  NextFd \in Fds /\ NextFd \notin open
BY LowestIn, FdsFacts DEF NextFd

LEMMA SlotFree ==
    ASSUME FreeSlots # {}
    PROVE  get_slot \in Slots /\ timers[get_slot].fd = -1
<1>1. FreeSlots \subseteq Nat
  BY FdsFacts DEF FreeSlots
<1>2. get_slot \in FreeSlots
  BY <1>1, LowestIn DEF get_slot
<1>3. QED
  BY <1>2 DEF FreeSlots

-----------------------------------------------------------------------------
(* Types. *)

LEMMA TurnType ==
    ASSUME TypeOK, Unhandled # {}
    PROVE  Turn \in Fds
<1>1. Unhandled \subseteq Fds
  BY DEF Unhandled
<1>2. QED
  BY <1>1, LowestIn, FdsFacts DEF Turn

LEMMA RecordTypes ==
    /\ NoSource \in SourceRecords
    /\ \A h \in Handlers, u \in {0} \union Slots : Source(h, u) \in SourceRecords
    /\ FreeTimer \in TimerRecords /\ ClosedTimer \in TimerRecords
    /\ \A fd \in Fds : Timer(fd, "timer_close") \in TimerRecords
    /\ \A fd \in Fds : Timer(fd, "timer_read") \in TimerRecords
BY FdsFacts DEF SourceRecords, TimerRecords, FreeTimer, ClosedTimer, Timer

LEMMA RegisterTypes ==
    ASSUME TypeOK, NEW fds, fds \subseteq Fds, NEW h \in Handlers, NEW u \in {0} \union Slots,
           gpoll_register_fd(fds, Source(h, u))
    PROVE  sources' \in [Fds -> SourceRecords] /\ maxSource' \in Fds
<1>1. maxSource' \in Fds
  BY MaxSourceGrows DEF TypeOK
<1>2. QED
  BY <1>1, RecordTypes DEF gpoll_register_fd, TypeOK

\* A timer that is started.
LEMMA StartTypes ==
    ASSUME TypeOK, NEW read \in {"timer_close", "timer_read"},
           Fds \ open # {}, FreeSlots # {},
           gpoll_register_fd({NextFd}, Source("timer", get_slot)),
           timers' = [timers EXCEPT ![get_slot] = Timer(NextFd, read)],
           open' = open \union {NextFd}
    PROVE  /\ sources' \in [Fds -> SourceRecords] /\ maxSource' \in Fds
           /\ timers' \in [Slots -> TimerRecords]
           /\ open' \subseteq Fds
<1>1. NextFd \in Fds /\ get_slot \in Slots
  BY NextFdNew, SlotFree
<1>2. sources' \in [Fds -> SourceRecords] /\ maxSource' \in Fds
  BY <1>1, RegisterTypes DEF Handlers
<1>3. Timer(NextFd, read) \in TimerRecords
  BY <1>1, RecordTypes
<1>4. QED
  BY <1>1, <1>2, <1>3 DEF TypeOK

LEMMA CloseTypes ==
    ASSUME TypeOK, NEW timer \in Slots \union {-1}, gtimer_close(timer)
    PROVE  /\ open' \subseteq Fds
           /\ sources' \in [Fds -> SourceRecords]
           /\ timers' \in [Slots -> TimerRecords]
BY RecordTypes DEF gtimer_close, TypeOK

LEMMA ReturnsTypes ==
    ASSUME TypeOK, NEW result, Returns(result)
    PROVE  pc' \in {"pass", "loop"} /\ revents' \in [Fds -> SUBSET Events]
BY DEF Returns, TypeOK, NoEvents

LEMMA GpollTypeInit == Init => TypeOK
BY FdsFacts, RecordTypes DEF Init, TypeOK, Stages, NoEvents

LEMMA GpollTypeStep ==
    ASSUME TypeOK, [Next]_vars
    PROVE  TypeOK'
<1>1. CASE OpenAdapter
  <2>1. gpoll_register_fd({NextFd}, Source("adapter", 0)) /\ NextFd \in Fds
    BY <1>1, NextFdNew DEF OpenAdapter
  <2>2. sources' \in [Fds -> SourceRecords] /\ maxSource' \in Fds
    BY <2>1, RegisterTypes DEF Handlers
  <2>3. QED
    BY <1>1, <2>1, <2>2 DEF OpenAdapter, TypeOK, Stages
<1>2. CASE StartInitTimer
  <2>1. /\ open' \subseteq Fds /\ maxSource' \in Fds
        /\ sources' \in [Fds -> SourceRecords] /\ timers' \in [Slots -> TimerRecords]
    BY <1>2, StartTypes DEF StartInitTimer, gtimer_start
  <2>2. initTimer' \in Slots
    BY <1>2, SlotFree DEF StartInitTimer, gtimer_start
  <2>3. QED
    BY <1>2, <2>1, <2>2 DEF StartInitTimer, TypeOK, Stages
<1>3. CASE RegisterUsb
  <2>1. sources' \in [Fds -> SourceRecords] /\ maxSource' \in Fds
    BY <1>3, RegisterTypes, FdsFacts DEF RegisterUsb, Handlers
  <2>2. QED
    BY <1>3, <2>1 DEF RegisterUsb, TypeOK, Stages
<1>4. CASE StartPollTimer
  <2>1. /\ open' \subseteq Fds /\ maxSource' \in Fds
        /\ sources' \in [Fds -> SourceRecords] /\ timers' \in [Slots -> TimerRecords]
    BY <1>4, StartTypes DEF StartPollTimer, gtimer_start
  <2>2. pollTimer' \in Slots
    BY <1>4, SlotFree DEF StartPollTimer, gtimer_start
  <2>3. QED
    BY <1>4, <2>1, <2>2 DEF StartPollTimer, TypeOK, Stages
<1>5. CASE StartFails \/ LoopTest
  BY <1>5 DEF StartFails, LoopTest, tables, TypeOK, Stages
<1>6. CASE Stop
  BY <1>6, CloseTypes DEF Stop, TypeOK, Stages
<1>7. CASE CloseUsb
  BY <1>7 DEF CloseUsb, tables, TypeOK, Stages
<1>8. CASE StopInit
  BY <1>8, CloseTypes DEF StopInit, TypeOK, Stages
<1>9. CASE Poll
  <2>1. PICK found \in [UsbFds -> (SUBSET Requested) \ {{}}] :
          revents' = [fd \in Fds |->
              IF fd \notin Watched THEN {}
              ELSE (IF fd \in hung THEN {"error"} ELSE {})
                   \union (IF fd \notin ready THEN {}
                           ELSE IF fd \in UsbFds THEN found[fd] ELSE {"in"})]
    BY <1>9 DEF Poll
  <2>2. \A fd \in UsbFds : found[fd] \subseteq Events
    BY DEF Requested, Events
  <2>3. revents' \in [Fds -> SUBSET Events]
    BY <2>1, <2>2 DEF Events
  <2>4. QED
    BY <1>9, <2>3 DEF Poll, tables, TypeOK, Stages
<1>10. CASE PassEnds \/ CallNull \/ UsbWaits
  BY <1>10 DEF PassEnds, CallNull, UsbWaits, tables, TypeOK, Stages
<1>11. CASE Closed
  <2>1. pc' \in Stages /\ revents' \in [Fds -> SUBSET Events]
    BY <1>11, ReturnsTypes DEF Closed, Stages
  <2>2. QED
    BY <1>11, <2>1, RecordTypes DEF Closed, TypeOK
<1>12. CASE AdapterRead
  <2>1. pc' \in Stages /\ revents' \in [Fds -> SUBSET Events]
    BY <1>12, ReturnsTypes DEF AdapterRead, Stages
  <2>2. ready' \subseteq Fds /\ done' \in BOOLEAN
    BY <1>12 DEF AdapterRead, TypeOK
  <2>3. QED
    BY <1>12, <2>1, <2>2 DEF AdapterRead, tables, TypeOK
<1>13. CASE EndpointsRead
  <2>1. initTimer \in Slots \union {-1} /\ gtimer_close(initTimer)
    BY <1>13 DEF EndpointsRead, TypeOK
  <2>2. pc' \in Stages /\ revents' \in [Fds -> SUBSET Events]
    BY <1>13, ReturnsTypes DEF EndpointsRead, Stages
  <2>3. ready' \subseteq Fds /\ done' \in BOOLEAN
    BY <1>13 DEF EndpointsRead, TypeOK
  <2>4. /\ open' \subseteq Fds
        /\ sources' \in [Fds -> SourceRecords] /\ timers' \in [Slots -> TimerRecords]
    BY <2>1, CloseTypes
  <2>5. QED
    BY <1>13, <2>2, <2>3, <2>4 DEF EndpointsRead, TypeOK
<1>14. CASE UsbRead \/ UsbWaited
  <2>1. UsbHandled
    BY <1>14 DEF UsbRead, UsbWaited
  <2>2. pc' \in Stages /\ revents' \in [Fds -> SUBSET Events]
    BY <2>1, ReturnsTypes DEF UsbHandled, Stages
  <2>3. ready' \subseteq Fds
    BY <2>1 DEF UsbHandled, TypeOK
  <2>4. done' \in BOOLEAN
    BY <2>1, Zenon DEF UsbHandled, TypeOK
  <2>5. QED
    BY <2>1, <2>2, <2>3, <2>4 DEF UsbHandled, tables, TypeOK
<1>15. CASE TimerRead
  <2>1. pc' \in Stages /\ revents' \in [Fds -> SUBSET Events]
    BY <1>15, ReturnsTypes DEF TimerRead, Stages
  <2>2. ready' \subseteq Fds /\ done' \in BOOLEAN
    BY <1>15 DEF TimerRead, TypeOK
  <2>3. QED
    BY <1>15, <2>1, <2>2 DEF TimerRead, tables, TypeOK
<1>16. CASE Arrives \/ Unplugged \/ Signal
  <2>1. UsbFds \union Registered("adapter") \union Registered("usb") \subseteq Fds
    BY FdsFacts DEF Registered
  <2>2. CASE Arrives
    BY <2>1, <2>2 DEF Arrives, loopVars, tables, TypeOK
  <2>3. CASE Unplugged
    BY <2>1, <2>3 DEF Unplugged, loopVars, tables, TypeOK
  <2>4. CASE Signal
    BY <2>4 DEF Signal, loopVars, tables, TypeOK
  <2>5. QED
    BY <1>16, <2>2, <2>3, <2>4
<1>17. ASSUME NEW t \in Slots, Expires(t)
       PROVE  TypeOK'
  <2>1. timers[t].fd \in Fds
    BY <1>17, FdsFacts DEF Expires, TypeOK, TimerRecords
  <2>2. QED
    BY <1>17, <2>1 DEF Expires, loopVars, tables, TypeOK
<1>18. CASE UNCHANGED vars
  BY <1>18 DEF vars, loopVars, tables, TypeOK
<1>19. QED
  BY <1>1, <1>2, <1>3, <1>4, <1>5, <1>6, <1>7, <1>8, <1>9, <1>10, <1>11, <1>12,
     <1>13, <1>14, <1>15, <1>16, <1>17, <1>18
     DEF Next, ProxyStart, ProxyEnd, Pass, Environment

\* gpoll and gtimer keep their tables within their bounds: every descriptor that
\* is registered and every slot that is given away is one of the arrays'.
THEOREM GpollTypeCorrect == Spec => []TypeOK
BY GpollTypeInit, GpollTypeStep, PTL DEF Spec

-----------------------------------------------------------------------------
(* What gpoll watches exists. *)

Starting == pc \in {"adapter", "initTimer", "usb"}

\* SourcesLive is inductive once libusb is known to have opened its
\* descriptors before proxy_start registers them.
SourcesInv ==
    /\ TypeOK
    /\ SourcesLive
    /\ Starting => UsbFds \subseteq open

LEMMA UserIsSlot ==
    ASSUME TypeOK, NEW fd \in Fds, Slots # {}
    PROVE  sources[fd].user \in Slots
<1>1. 0 \in Slots
  BY GpollAssumption DEF Slots
<1>2. \A r \in SourceRecords : r.user \in {0} \union Slots
  BY DEF SourceRecords, Source, NoSource
<1>3. sources[fd] \in SourceRecords
  BY DEF TypeOK
<1>4. QED
  BY <1>1, <1>2, <1>3

\* A source registered on an open descriptor leaves the others alone.
LEMMA RegisterLive ==
    ASSUME TypeOK, NEW fds, fds \subseteq Fds, NEW source,
           gpoll_register_fd(fds, source)
    PROVE  \A fd \in Fds :
               /\ sources'[fd] = IF fd \in fds THEN source ELSE sources[fd]
               /\ fd \in fds \/ fd <= maxSource => fd <= maxSource'
<1>1. maxSource' \in Fds /\ maxSource <= maxSource' /\ \A fd \in fds : fd <= maxSource'
  BY MaxSourceGrows DEF TypeOK
<1>2. maxSource \in Fds /\ Fds \subseteq Int
  BY FdsFacts DEF TypeOK
<1>3. QED
  BY <1>1, <1>2 DEF gpoll_register_fd

\* The slot of a timer that starts was the one of no source.
LEMMA StartLive ==
    ASSUME SourcesInv, pc \notin {"stopInit", "exited"}, NEW read,
           Fds \ open # {}, FreeSlots # {},
           gpoll_register_fd({NextFd}, Source("timer", get_slot)),
           timers' = [timers EXCEPT ![get_slot] = Timer(NextFd, read)],
           open' = open \union {NextFd}
    PROVE  SourcesLive' /\ open \subseteq open'
<1> SUFFICES ASSUME NEW fd \in Fds, sources'[fd] # NoSource
             PROVE  /\ fd \in open' /\ fd <= maxSource'
                    /\ sources'[fd].handler = "timer" => timers'[sources'[fd].user].fd = fd
  BY DEF SourcesLive
<1>1. /\ NextFd \in Fds /\ NextFd \notin open
      /\ get_slot \in Slots /\ timers[get_slot].fd = -1
  BY NextFdNew, SlotFree
<1>2. /\ sources'[fd] = IF fd = NextFd THEN Source("timer", get_slot) ELSE sources[fd]
      /\ fd = NextFd \/ fd <= maxSource => fd <= maxSource'
  BY <1>1, RegisterLive DEF SourcesInv
<1>3. CASE fd = NextFd
  BY <1>1, <1>2, <1>3 DEF SourcesInv, TypeOK, Source, Timer
<1>4. CASE fd # NextFd
  <2>1. /\ fd \in open /\ fd <= maxSource
        /\ sources[fd].handler = "timer" => timers[sources[fd].user].fd = fd
    BY <1>2, <1>4 DEF SourcesInv, SourcesLive
  <2>2. ASSUME sources[fd].handler = "timer"
        PROVE  timers'[sources[fd].user] = timers[sources[fd].user]
    <3>1. sources[fd].user # get_slot
      BY <1>1, <2>1, <2>2, FdsFacts
    <3>2. sources[fd].user \in Slots
      BY <1>1, UserIsSlot DEF SourcesInv
    <3>3. QED
      BY <3>1, <3>2 DEF SourcesInv, TypeOK
  <2>3. QED
    BY <1>2, <1>4, <2>1, <2>2
<1>5. QED
  BY <1>3, <1>4

\* gtimer_close takes the source away with the descriptor and the slot.
LEMMA CloseLive ==
    ASSUME SourcesInv, pc \notin {"stopInit", "exited"},
           NEW timer \in Slots \union {-1}, gtimer_close(timer), maxSource' = maxSource
    PROVE  SourcesLive'
<1>1. CASE timer \in Slots /\ timers[timer].fd >= 0
  <2> DEFINE closed == timers[timer].fd
  <2>1. /\ sources' = [sources EXCEPT ![closed] = NoSource]
        /\ open' = open \ {closed}
        /\ timers' = [timers EXCEPT ![timer] = ClosedTimer]
    BY <1>1 DEF gtimer_close
  <2>2. SUFFICES ASSUME NEW fd \in Fds, sources'[fd] # NoSource
                 PROVE  /\ fd \in open' /\ fd <= maxSource'
                        /\ sources'[fd].handler = "timer" => timers'[sources'[fd].user].fd = fd
    BY DEF SourcesLive
  <2>3. fd # closed /\ sources'[fd] = sources[fd]
    BY <2>1, <2>2 DEF SourcesInv, TypeOK
  <2>4. /\ fd \in open /\ fd <= maxSource
        /\ sources[fd].handler = "timer" => timers[sources[fd].user].fd = fd
    BY <2>2, <2>3 DEF SourcesInv, SourcesLive
  <2>5. ASSUME sources[fd].handler = "timer"
        PROVE  timers'[sources[fd].user] = timers[sources[fd].user]
    <3>1. sources[fd].user # timer
      BY <2>3, <2>4, <2>5
    <3>2. sources[fd].user \in Slots
      BY <1>1, UserIsSlot DEF SourcesInv
    <3>3. QED
      BY <2>1, <3>1, <3>2 DEF SourcesInv, TypeOK
  <2>6. QED
    BY <2>1, <2>3, <2>4, <2>5
<1>2. CASE ~ (timer \in Slots /\ timers[timer].fd >= 0)
  BY <1>2 DEF gtimer_close, SourcesInv, SourcesLive
<1>3. QED
  BY <1>1, <1>2

\* A step that opens and starts nothing: the tables are as they were, or a
\* source is gone.
LEMMA SameLive ==
    ASSUME SourcesInv, pc \notin {"stopInit", "exited"},
           UNCHANGED <<open, maxSource, timers>>,
           \A fd \in Fds : sources'[fd] \in {sources[fd], NoSource},
           Starting' => Starting
    PROVE  SourcesLive' /\ (Starting' => UsbFds \subseteq open')
BY DEF SourcesInv, SourcesLive

\* Every descriptor that gpoll watches is open, within the part of the table
\* that fill_fds looks at, and that of a timer is the one of its slot: a timer
\* that the endpoint table closes in the middle of a pass takes its source with
\* it, and a slot is never given to two sources.
THEOREM GpollWatchesWhatExists == Spec => []SourcesLive
<1>1. Init => SourcesInv
  <2>1. SUFFICES ASSUME Init PROVE SourcesLive /\ (Starting => UsbFds \subseteq open)
    BY GpollTypeInit DEF SourcesInv
  <2>2. QED
    BY <2>1 DEF Init, SourcesLive
<1>2. SourcesInv /\ [Next]_vars => SourcesInv'
  <2> SUFFICES ASSUME SourcesInv, [Next]_vars
               PROVE  SourcesLive' /\ (Starting' => UsbFds \subseteq open')
    BY GpollTypeStep DEF SourcesInv
  <2> USE DEF Starting
  <2>1. CASE OpenAdapter
    <3>1. /\ gpoll_register_fd({NextFd}, Source("adapter", 0))
          /\ NextFd \in Fds /\ NextFd \notin open
          /\ open' = open \union {NextFd} /\ UNCHANGED timers
          /\ pc = "adapter" /\ pc' = "initTimer"
      BY <2>1, NextFdNew DEF OpenAdapter
    <3>2. \A fd \in Fds :
              /\ sources'[fd] = IF fd = NextFd THEN Source("adapter", 0) ELSE sources[fd]
              /\ fd = NextFd \/ fd <= maxSource => fd <= maxSource'
      BY <3>1, RegisterLive DEF SourcesInv
    <3>3. QED
      BY <3>1, <3>2 DEF SourcesInv, SourcesLive, Source
  <2>2. CASE StartInitTimer
    <3>1. SourcesLive' /\ open \subseteq open'
      BY <2>2, StartLive DEF StartInitTimer, gtimer_start
    <3>2. QED
      BY <2>2, <3>1 DEF StartInitTimer, SourcesInv
  <2>3. CASE RegisterUsb
    <3>1. \A fd \in Fds :
              /\ sources'[fd] = IF fd \in UsbFds THEN Source("usb", 0) ELSE sources[fd]
              /\ fd \in UsbFds \/ fd <= maxSource => fd <= maxSource'
      BY <2>3, RegisterLive, FdsFacts DEF RegisterUsb, SourcesInv
    <3>2. QED
      BY <2>3, <3>1 DEF RegisterUsb, SourcesInv, SourcesLive, Source
  <2>4. CASE StartPollTimer
    <3>1. SourcesLive'
      BY <2>4, StartLive DEF StartPollTimer, gtimer_start
    <3>2. QED
      BY <2>4, <3>1 DEF StartPollTimer
  <2>5. CASE StartFails
    BY <2>5 DEF StartFails, SourcesLive
  <2>6. CASE LoopTest
    BY <2>6, SameLive DEF LoopTest, tables
  <2>7. CASE Stop
    <3>1. SourcesLive'
      BY <2>7, CloseLive DEF Stop, SourcesInv, TypeOK
    <3>2. QED
      BY <2>7, <3>1 DEF Stop
  <2>8. CASE CloseUsb \/ StopInit
    BY <2>8 DEF CloseUsb, StopInit, SourcesLive
  <2>9. CASE Poll \/ PassEnds \/ CallNull \/ UsbWaits
    BY <2>9, SameLive DEF Poll, PassEnds, CallNull, UsbWaits, Handling, Called, tables
  <2>10. CASE Closed
    <3>1. \A fd \in Fds : sources'[fd] \in {sources[fd], NoSource}
      BY <2>10 DEF Closed, SourcesInv, TypeOK
    <3>2. pc = "pass" /\ pc' \in {"pass", "loop"} /\ UNCHANGED <<open, maxSource, timers>>
      BY <2>10, ReturnsTypes DEF Closed, Handling, SourcesInv
    <3>3. QED
      BY <3>1, <3>2, SameLive
  <2>11. CASE AdapterRead \/ TimerRead
    <3>1. pc = "pass" /\ pc' \in {"pass", "loop"} /\ UNCHANGED <<open, tables>>
      BY <2>11, ReturnsTypes DEF AdapterRead, TimerRead, Called, Handling, SourcesInv
    <3>2. QED
      BY <3>1, SameLive DEF tables
  <2>12. CASE EndpointsRead
    <3>1. /\ pc = "pass" /\ pc' \in {"pass", "loop"}
          /\ gtimer_close(initTimer) /\ UNCHANGED maxSource
          /\ initTimer \in Slots \union {-1}
      BY <2>12, ReturnsTypes
         DEF EndpointsRead, Called, Handling, SourcesInv, TypeOK
    <3>2. SourcesLive'
      BY <3>1, CloseLive
    <3>3. QED
      BY <3>1, <3>2
  <2>13. CASE UsbRead \/ UsbWaited
    <3>1. UsbHandled /\ pc \in {"pass", "waits"}
      BY <2>13 DEF UsbRead, UsbWaited, Called, Handling
    <3>2. pc' \in {"pass", "loop"} /\ UNCHANGED <<open, tables>>
      BY <3>1, ReturnsTypes DEF UsbHandled, SourcesInv
    <3>3. QED
      BY <3>1, <3>2, SameLive DEF tables
  <2>14. CASE Environment \/ UNCHANGED vars
    <3>1. UNCHANGED <<pc, open, tables>>
      BY <2>14 DEF Environment, Arrives, Expires, Unplugged, Signal, vars, loopVars
    <3>2. QED
      BY <3>1 DEF tables, SourcesInv, SourcesLive
  <2>15. QED
    BY <2>1, <2>2, <2>3, <2>4, <2>5, <2>6, <2>7, <2>8, <2>9, <2>10, <2>11, <2>12,
       <2>13, <2>14
       DEF Next, ProxyStart, ProxyEnd, Pass
<1>3. SourcesInv => SourcesLive
  BY DEF SourcesInv
<1>4. QED
  BY <1>1, <1>2, <1>3, PTL DEF Spec

-----------------------------------------------------------------------------
(* The standard input. *)

Opening == pc \in {"adapter", "initTimer", "usb", "pollTimer"}
Above(timer) == timer \in Slots => timers[timer].fd \in Fds \ Stdio

\* No timer that is going to be closed has been closed before, and no closed
\* slot is given away again, so that gtimer_close never meets the descriptor 0
\* of a closed slot.
StdioInv ==
    /\ TypeOK
    /\ StdioKept
    /\ pc # "exited" => Above(initTimer)
    /\ pc \notin {"closeUsb", "stopInit", "exited"} => Above(pollTimer)
    /\ Opening => pollTimer = -1
    /\ initTimer \in Slots => initTimer # pollTimer

LEMMA StartAbove ==
    ASSUME StdioInv, NEW read, Fds \ open # {}, FreeSlots # {},
           timers' = [timers EXCEPT ![get_slot] = Timer(NextFd, read)]
    PROVE  /\ get_slot \in Slots
           /\ timers'[get_slot].fd \in Fds \ Stdio
           /\ \A t \in Slots : timers[t].fd \in Fds \ Stdio =>
                  t # get_slot /\ timers'[t] = timers[t]
<1>1. /\ NextFd \in Fds \ Stdio
      /\ get_slot \in Slots /\ timers[get_slot].fd = -1
  BY NextFdNew, SlotFree DEF StdioInv, StdioKept
<1>2. timers'[get_slot] = Timer(NextFd, read)
  BY <1>1 DEF StdioInv, TypeOK
<1>3. \A t \in Slots : timers[t].fd \in Fds \ Stdio => t # get_slot
  BY <1>1, FdsFacts
<1>4. QED
  BY <1>1, <1>2, <1>3 DEF StdioInv, TypeOK, Timer

LEMMA CloseAbove ==
    ASSUME StdioInv, NEW timer \in Slots \union {-1}, Above(timer), gtimer_close(timer)
    PROVE  /\ StdioKept'
           /\ \A t \in Slots \ {timer} : timers'[t] = timers[t]
BY FdsFacts DEF gtimer_close, Above, StdioInv, StdioKept, TypeOK

\* The proxy closes a timer twice in none of its paths: the standard input,
\* whose descriptor is what a closed slot holds, stays open.
THEOREM GpollKeepsStdio == Spec => []StdioKept
<1>1. Init => StdioInv
  BY GpollTypeInit, FdsFacts DEF Init, StdioInv, StdioKept, Above
<1>2. StdioInv /\ [Next]_vars => StdioInv'
  <2> SUFFICES ASSUME StdioInv, [Next]_vars, TypeOK'
               PROVE  StdioInv'
    BY GpollTypeStep DEF StdioInv
  <2> USE DEF Above, Opening
  <2>1. CASE OpenAdapter
    BY <2>1 DEF OpenAdapter, StdioInv, StdioKept
  <2>2. CASE StartInitTimer
    <3>1. /\ get_slot \in Slots
          /\ timers'[get_slot].fd \in Fds \ Stdio
          /\ initTimer' = get_slot /\ open \subseteq open'
          /\ pc = "initTimer" /\ pc' = "usb" /\ UNCHANGED pollTimer
      BY <2>2, StartAbove DEF StartInitTimer, gtimer_start
    <3>2. QED
      BY <3>1, FdsFacts DEF StdioInv, StdioKept
  <2>3. CASE RegisterUsb \/ StartFails \/ LoopTest
    BY <2>3 DEF RegisterUsb, StartFails, LoopTest, tables, StdioInv, StdioKept
  <2>4. CASE StartPollTimer
    <3>1. /\ get_slot \in Slots
          /\ timers'[get_slot].fd \in Fds \ Stdio
          /\ \A t \in Slots : timers[t].fd \in Fds \ Stdio =>
                 t # get_slot /\ timers'[t] = timers[t]
          /\ pollTimer' = get_slot /\ open \subseteq open'
          /\ pc = "pollTimer" /\ pc' = "loop" /\ UNCHANGED initTimer
      BY <2>4, StartAbove DEF StartPollTimer, gtimer_start
    <3>2. QED
      BY <3>1 DEF StdioInv, StdioKept
  <2>5. CASE Stop
    <3>1. /\ pc = "stop" /\ pc' = "closeUsb" /\ gtimer_close(pollTimer)
          /\ pollTimer \in Slots \union {-1} /\ UNCHANGED <<initTimer, pollTimer>>
      BY <2>5 DEF Stop, StdioInv, TypeOK
    <3>2. StdioKept' /\ \A t \in Slots \ {pollTimer} : timers'[t] = timers[t]
      BY <3>1, CloseAbove DEF StdioInv
    <3>3. QED
      BY <3>1, <3>2 DEF StdioInv
  <2>6. CASE CloseUsb
    BY <2>6, FdsFacts DEF CloseUsb, tables, StdioInv, StdioKept
  <2>7. CASE StopInit
    <3>1. /\ pc = "stopInit" /\ pc' = "exited" /\ gtimer_close(initTimer)
          /\ initTimer \in Slots \union {-1} /\ UNCHANGED <<initTimer, pollTimer>>
      BY <2>7 DEF StopInit, StdioInv, TypeOK
    <3>2. StdioKept'
      BY <3>1, CloseAbove DEF StdioInv
    <3>3. QED
      BY <3>1, <3>2 DEF StdioInv
  <2>8. CASE Poll \/ PassEnds \/ CallNull \/ UsbWaits
    BY <2>8
       DEF Poll, PassEnds, CallNull, UsbWaits, Called, Handling, tables, StdioInv, StdioKept
  <2>9. CASE Closed \/ AdapterRead \/ TimerRead \/ UsbRead \/ UsbWaited
    <3>1. pc \in {"pass", "waits"} /\ UNCHANGED <<open, timers, initTimer, pollTimer>>
      BY <2>9
         DEF Closed, AdapterRead, TimerRead, UsbRead, UsbWaited, UsbHandled, Called,
             Handling, tables
    <3>2. pc' \in {"pass", "loop"}
      BY <2>9, ReturnsTypes
         DEF Closed, AdapterRead, TimerRead, UsbRead, UsbWaited, UsbHandled, StdioInv
    <3>3. QED
      BY <3>1, <3>2 DEF StdioInv, StdioKept
  <2>10. CASE EndpointsRead
    <3>1. /\ pc = "pass" /\ pc' \in {"pass", "loop"} /\ gtimer_close(initTimer)
          /\ initTimer \in Slots \union {-1} /\ initTimer' = -1 /\ UNCHANGED pollTimer
      BY <2>10, ReturnsTypes DEF EndpointsRead, Called, Handling, StdioInv, TypeOK
    <3>2. StdioKept' /\ \A t \in Slots \ {initTimer} : timers'[t] = timers[t]
      BY <3>1, CloseAbove DEF StdioInv
    <3>3. -1 \notin Slots
      BY FdsFacts
    <3>4. QED
      BY <3>1, <3>2, <3>3 DEF StdioInv
  <2>11. CASE Environment \/ UNCHANGED vars
    <3>1. UNCHANGED <<pc, open, timers, initTimer, pollTimer>>
      BY <2>11 DEF Environment, Arrives, Expires, Unplugged, Signal, vars, loopVars, tables
    <3>2. QED
      BY <3>1 DEF StdioInv, StdioKept
  <2>12. QED
    BY <2>1, <2>2, <2>3, <2>4, <2>5, <2>6, <2>7, <2>8, <2>9, <2>10, <2>11
       DEF Next, ProxyStart, ProxyEnd, Pass
<1>3. StdioInv => StdioKept
  BY DEF StdioInv
<1>4. QED
  BY <1>1, <1>2, <1>3, PTL DEF Spec
=============================================================================
