------------------------------- MODULE Gpoll -------------------------------
(***************************************************************************)
(* The event loop below the proxy: gpoll with its table of descriptors,    *)
(* gtimer with its table of timers, and what proxy_start and its handlers  *)
(* do with them.  In Proxy a handler runs whenever its event is there;     *)
(* here poll reports several events at once, and gpoll calls the handlers  *)
(* of all of them, lowest descriptor first, whatever the first ones do.    *)
(***************************************************************************)
EXTENDS Integers, FiniteSets

CONSTANTS
    UsbFds,         \* descriptors that libusb watches, opened before the others
    DeviceFd,       \* that of them which is the target device
    MaxSources,     \* MAX_SOURCES
    MaxTimers       \* MAX_TIMERS

Fds == 0..(MaxSources - 1)
Slots == 0..(MaxTimers - 1)
Stdio == 0..2       \* open when the process starts

ASSUME GpollAssumption ==
    /\ MaxSources \in Nat /\ MaxTimers \in Nat
    /\ IsFiniteSet(UsbFds)
    /\ UsbFds \subseteq Fds \ Stdio
    /\ DeviceFd \in UsbFds

VARIABLES
    pc,             \* where proxy_start is
    open,           \* descriptors that are open
    sources,        \* sources[]: event # 0, callbacks, user
    maxSource,      \* max_source
    timers,         \* timers[]
    initTimer, pollTimer,   \* init_timer, and timer of proxy_start
    done,           \* done of proxy.c
    ready, hung,    \* descriptors with something to read, and that failed
    revents,        \* events of this pass that are still to be handled
    acked           \* history: the firmware has acknowledged the endpoint table

tables == <<sources, maxSource, timers>>
loopVars == <<pc, revents>>
vars == <<loopVars, open, tables, initTimer, pollTimer, done, ready, hung, acked>>

\* The stages of proxy_start, gpoll waiting or in its loop, the call of
\* libusb_handle_events that waits, and a call through a null pointer.
Stages == {"adapter", "initTimer", "usb", "pollTimer", "loop", "poll", "pass",
           "waits", "stop", "closeUsb", "stopInit", "exited", "crashed"}

Events == {"in", "out", "error"}
Requested == {"in", "out"}      \* of libusb; of the others {"in"}
Handlers == {"adapter", "usb", "timer"}
Source(handler, user) == [handler |-> handler, user |-> user]
NoSource == Source("none", 0)
SourceRecords == {NoSource} \union {Source(h, u) : h \in Handlers, u \in {0} \union Slots}

\* Slots: never used, closed (memset leaves the descriptor 0), or running
\* with the read callback given to gtimer_start.
Timer(fd, read) == [fd |-> fd, read |-> read]
FreeTimer == Timer(-1, "none")
ClosedTimer == Timer(0, "none")
TimerRecords == [fd : Fds \union {-1}, read : {"none", "timer_close", "timer_read"}]

NoEvents == [fd \in Fds |-> {}]

Lowest(S) == CHOOSE x \in S : \A y \in S : x <= y
NextFd == Lowest(Fds \ open)        \* what the kernel gives to open

Init ==
    /\ pc = "adapter"
    /\ open = Stdio \union UsbFds
    /\ sources = [fd \in Fds |-> NoSource]
    /\ maxSource = 0
    /\ timers = [t \in Slots |-> FreeTimer]
    /\ initTimer = -1
    /\ pollTimer = -1
    /\ done = FALSE
    /\ ready = {}
    /\ hung = {}
    /\ revents = NoEvents
    /\ acked = FALSE

Registered(handler) == {fd \in Fds : sources[fd].handler = handler}

-----------------------------------------------------------------------------
(* gpoll_register_fd, gtimer_start and gtimer_close.                       *)

\* Mutants: the descriptor stays registered; slots are counted from 1.
gtimer_close_Registered(timer) ==
    IF timer \in Slots /\ timers[timer].fd >= 0
    THEN /\ open' = open \ {timers[timer].fd}
         /\ timers' = [timers EXCEPT ![timer] = ClosedTimer]
         /\ UNCHANGED sources
    ELSE UNCHANGED <<sources, open, timers>>
get_slot_FromOne == 1 + Cardinality({t \in Slots : timers[t].fd # -1})

gpoll_register_fd(fds, source) ==
    /\ sources' = [fd \in Fds |-> IF fd \in fds THEN source ELSE sources[fd]]
    /\ maxSource' = Lowest({m \in Fds : m >= maxSource /\ \A fd \in fds : fd <= m})

FreeSlots == {t \in Slots : timers[t].fd = -1}
get_slot == Lowest(FreeSlots)

\* gtimer_start succeeds: the timer is given to the proxy in timerVar.
gtimer_start(read, timerVar) ==
    /\ Fds \ open # {}
    /\ FreeSlots # {}
    /\ gpoll_register_fd({NextFd}, Source("timer", get_slot))
    /\ timers' = [timers EXCEPT ![get_slot] = Timer(NextFd, read)]
    /\ timerVar' = get_slot
    /\ open' = open \union {NextFd}

gtimer_close(timer) ==
    IF timer \in Slots /\ timers[timer].fd >= 0     \* CHECK_TIMER
    THEN LET fd == timers[timer].fd
         IN  /\ sources' = [sources EXCEPT ![fd] = NoSource]
             /\ open' = open \ {fd}
             /\ timers' = [timers EXCEPT ![timer] = ClosedTimer]
    ELSE UNCHANGED <<sources, open, timers>>

-----------------------------------------------------------------------------
(* proxy_start.                                                            *)

OpenAdapter ==
    /\ pc = "adapter"
    /\ Fds \ open # {}
    /\ gpoll_register_fd({NextFd}, Source("adapter", 0))
    /\ open' = open \union {NextFd}
    /\ pc' = "initTimer"
    /\ UNCHANGED <<timers, initTimer, pollTimer, done, ready, hung, revents, acked>>

StartInitTimer ==
    /\ pc = "initTimer"
    /\ gtimer_start("timer_close", initTimer)
    /\ pc' = "usb"
    /\ UNCHANGED <<pollTimer, done, ready, hung, revents, acked>>

RegisterUsb ==
    /\ pc = "usb"
    /\ gpoll_register_fd(UsbFds, Source("usb", 0))
    /\ pc' = "pollTimer"
    /\ UNCHANGED <<open, timers, initTimer, pollTimer, done, ready, hung, revents, acked>>

StartPollTimer ==
    /\ pc = "pollTimer"
    /\ gtimer_start("timer_read", pollTimer)
    /\ pc' = "loop"
    /\ UNCHANGED <<initTimer, done, ready, hung, revents, acked>>

\* A call of proxy_start fails: what was opened before stays so.
StartFails ==
    /\ pc \in {"adapter", "initTimer", "usb", "pollTimer"}
    /\ pc' = "exited"
    /\ UNCHANGED <<open, tables, initTimer, pollTimer, done, ready, hung, revents, acked>>

LoopTest ==
    /\ pc = "loop"
    /\ pc' = IF done THEN "stop" ELSE "poll"
    /\ UNCHANGED <<open, tables, initTimer, pollTimer, done, ready, hung, revents, acked>>

Stop ==
    /\ pc = "stop"
    /\ gtimer_close(pollTimer)
    /\ pc' = "closeUsb"
    /\ UNCHANGED <<maxSource, initTimer, pollTimer, done, ready, hung, revents, acked>>

\* gusb_close closes the device, and leaves its source registered.
CloseUsb ==
    /\ pc = "closeUsb"
    /\ open' = open \ {DeviceFd}
    /\ pc' = IF initTimer >= 0 THEN "stopInit" ELSE "exited"
    /\ UNCHANGED <<tables, initTimer, pollTimer, done, ready, hung, revents, acked>>

StopInit ==
    /\ pc = "stopInit"
    /\ gtimer_close(initTimer)
    /\ pc' = "exited"
    /\ UNCHANGED <<maxSource, initTimer, pollTimer, done, ready, hung, revents, acked>>

-----------------------------------------------------------------------------
(* gpoll.                                                                  *)

Watched == {fd \in 0..maxSource : sources[fd] # NoSource}

\* fill_fds and poll: everything that is ready now is reported.  A descriptor of
\* libusb is watched for both directions, and may be ready for one or both.
Poll ==
    /\ pc = "poll"
    /\ Watched \intersect (ready \union hung) # {}
    /\ \E found \in [UsbFds -> (SUBSET Requested) \ {{}}] :
          revents' = [fd \in Fds |->
              IF fd \notin Watched THEN {}
              ELSE (IF fd \in hung THEN {"error"} ELSE {})
                   \union (IF fd \notin ready THEN {}
                           ELSE IF fd \in UsbFds THEN found[fd] ELSE {"in"})]
    /\ pc' = "pass"
    /\ UNCHANGED <<open, tables, initTimer, pollTimer, done, ready, hung, acked>>

Unhandled == {fd \in Fds : revents[fd] # {}}
Turn == Lowest(Unhandled)                   \* fds[i].fd
Handling(handler) ==
    pc = "pass" /\ Unhandled # {} /\ sources[Turn].handler = handler

\* The handler's result: not zero makes gpoll return.  Otherwise the descriptor
\* is done with after an error, and asked for POLLOUT after POLLIN.
Returns(result) ==
    IF result = 0
    THEN /\ pc' = "pass"
         /\ revents' = [revents EXCEPT ![Turn] =
                IF "in" \in @ /\ "error" \notin @ THEN @ \ {"in"} ELSE {}]
    ELSE pc' = "loop" /\ revents' = NoEvents

PassEnds ==
    /\ pc = "pass"
    /\ Unhandled = {}
    /\ pc' = "poll"
    /\ UNCHANGED <<open, tables, initTimer, pollTimer, done, ready, hung, revents, acked>>

\* sources[fd] was zeroed by a handler of this pass.
CallNull ==
    /\ Handling("none")
    /\ pc' = "crashed"
    /\ UNCHANGED <<open, tables, initTimer, pollTimer, done, ready, hung, revents, acked>>

\* Mutant: the proxy is not told.
Closed_Silent ==
    /\ Handling("adapter") \/ Handling("usb")
    /\ "error" \in revents[Turn]
    /\ sources' = [sources EXCEPT ![Turn] = NoSource]
    /\ Returns(0)
    /\ UNCHANGED <<open, maxSource, timers, initTimer, pollTimer, done, ready, hung, acked>>

\* fp_close and gpoll_remove_fd: usb_close_callback, adapter_close_callback.
Closed ==
    /\ Handling("adapter") \/ Handling("usb")
    /\ "error" \in revents[Turn]
    /\ done' = TRUE
    /\ sources' = [sources EXCEPT ![Turn] = NoSource]
    /\ Returns(1)
    /\ UNCHANGED <<open, maxSource, timers, initTimer, pollTimer, ready, hung, acked>>

\* fp_read, or fp_write, which for libusb is the same function.
Called(handler) == Handling(handler) /\ "error" \notin revents[Turn]

\* adapter_recv: no packet complete yet, or one that leaves the timers alone.
\* process_packet sets done when it fails; a read that fails and a packet that
\* does not fit make gpoll return without it (adapter.c:53-55, 82-87).
AdapterRead ==
    /\ Called("adapter")
    /\ ready' = ready \ {Turn}
    /\ \/ Returns(0) /\ UNCHANGED done
       \/ Returns(-1) /\ done' \in {done, TRUE}
    /\ UNCHANGED <<open, tables, initTimer, pollTimer, hung, acked>>

\* Mutant: init_timer keeps the number of the closed timer.
EndpointsRead_TimerKept ==
    /\ Called("adapter")
    /\ ~acked
    /\ acked' = TRUE
    /\ ready' = ready \ {Turn}
    /\ gtimer_close(initTimer)
    /\ Returns(0)
    /\ UNCHANGED <<maxSource, initTimer, pollTimer, done, hung>>

\* process_packet, E_TYPE_ENDPOINTS.
EndpointsRead ==
    /\ Called("adapter")
    /\ ~acked
    /\ acked' = TRUE
    /\ ready' = ready \ {Turn}
    /\ gtimer_close(initTimer)
    /\ initTimer' = -1
    /\ \/ Returns(0) /\ UNCHANGED done
       \/ Returns(-1) /\ done' = TRUE       \* poll_all_endpoints fails
    /\ UNCHANGED <<maxSource, pollTimer, hung>>

\* gusb_handle_events: libusb looks at all of its descriptors itself.  The
\* callbacks of the proxy may set done, without effect on the result; the
\* call fails only when a signal, which sets done, interrupts it.
UsbHandled ==
    /\ ready' = ready \ UsbFds
    /\ done' \in {done, TRUE}
    /\ Returns(0) \/ (done /\ Returns(-1))
    /\ UNCHANGED <<open, tables, initTimer, pollTimer, hung, acked>>

UsbRead ==
    /\ Called("usb")
    /\ ready \intersect UsbFds # {}
    /\ UsbHandled

\* Another call has handled the event already, that for the other direction of
\* the same descriptor perhaps: libusb waits for the next one.
UsbWaits ==
    /\ Called("usb")
    /\ ready \intersect UsbFds = {}
    /\ pc' = "waits"
    /\ UNCHANGED <<open, tables, initTimer, pollTimer, done, ready, hung, revents, acked>>

\* An event comes, or the 60 seconds of libusb_handle_events are over.
UsbWaited ==
    /\ pc = "waits"
    /\ UsbHandled

\* read_callback of gtimer.c, with timer_close or timer_read of proxy.c; a
\* result of -1 (CHECK_TIMER) makes gpoll return as well.
TimerRead ==
    /\ Called("timer")
    /\ LET timer == timers[sources[Turn].user]
       IN  /\ ready' = ready \ {timer.fd}
           /\ done' = (done \/ timer.read = "timer_close")
    /\ Returns(1)
    /\ UNCHANGED <<open, tables, initTimer, pollTimer, hung, acked>>

-----------------------------------------------------------------------------
(* The environment.                                                        *)

Running == pc \notin {"exited", "crashed"}

Arrives ==
    /\ Running
    /\ \E fd \in (UsbFds \union Registered("adapter")) \ ready : ready' = ready \union {fd}
    /\ UNCHANGED <<loopVars, open, tables, initTimer, pollTimer, done, hung, acked>>

Expires(timer) ==
    /\ Running
    /\ timer \in Slots
    /\ timers[timer].fd > 0
    /\ timers[timer].fd \notin ready
    /\ ready' = ready \union {timers[timer].fd}
    /\ UNCHANGED <<loopVars, open, tables, initTimer, pollTimer, done, hung, acked>>

\* The device or the USB to UART adapter is unplugged.
Unplugged ==
    /\ Running
    /\ \E fd \in Registered("usb") \union Registered("adapter") : hung' = hung \union {fd}
    /\ UNCHANGED <<loopVars, open, tables, initTimer, pollTimer, done, ready, acked>>

\* SIGINT or SIGTERM: proxy_stop.
Signal ==
    /\ Running
    /\ done' = TRUE
    /\ UNCHANGED <<loopVars, open, tables, initTimer, pollTimer, ready, hung, acked>>

ProxyStart == OpenAdapter \/ StartInitTimer \/ RegisterUsb \/ StartPollTimer \/ StartFails
ProxyEnd == LoopTest \/ Stop \/ CloseUsb \/ StopInit
Pass == PassEnds \/ CallNull \/ Closed \/ AdapterRead \/ EndpointsRead
            \/ UsbRead \/ UsbWaits \/ UsbWaited \/ TimerRead
Environment == Arrives \/ (\E t \in Slots : Expires(t)) \/ Unplugged \/ Signal

Next == ProxyStart \/ ProxyEnd \/ Poll \/ Pass \/ Environment

Spec == Init /\ [][Next]_vars

\* The process runs, libusb does not wait for ever, and the 10 ms timer of
\* proxy_start expires again and again.
Fairness ==
    /\ WF_vars(ProxyStart \/ ProxyEnd \/ Poll \/ Pass)
    /\ \A t \in Slots : WF_vars(t = pollTimer /\ Expires(t))

FairSpec == Spec /\ Fairness

-----------------------------------------------------------------------------
TypeOK ==
    /\ pc \in Stages
    /\ open \subseteq Fds
    /\ sources \in [Fds -> SourceRecords]
    /\ maxSource \in Fds
    /\ timers \in [Slots -> TimerRecords]
    /\ initTimer \in Slots \union {-1}
    /\ pollTimer \in Slots \union {-1}
    /\ done \in BOOLEAN
    /\ ready \subseteq Fds
    /\ hung \subseteq Fds
    /\ revents \in [Fds -> SUBSET Events]
    /\ acked \in BOOLEAN

\* What gpoll watches exists: every registered descriptor is open, within the
\* part of the table that fill_fds looks at, and that of a timer is the one of
\* its slot, so that a callback of gtimer.c reads the timer that has expired.
\* (After gusb_close gpoll does not run again.)
SourcesLive ==
    pc \notin {"stopInit", "exited"} => \A fd \in Fds : sources[fd] # NoSource =>
        /\ fd \in open
        /\ fd <= maxSource
        /\ sources[fd].handler = "timer" => timers[sources[fd].user].fd = fd

\* A closed slot keeps the descriptor 0 and passes CHECK_TIMER (gtimer.c:26,
\* 123): nothing ever closes the standard input by closing a timer twice.
StdioKept == Stdio \subseteq open

\* A descriptor that fails ends the session, whatever else is going on.
FailureEnds ==
    (hung # {} /\ pc \in {"loop", "poll"}) ~> (pc \in {"exited", "crashed"})

\* gpoll_register_fd refuses a source without callbacks (gpoll.c:29-35): every
\* event that gpoll handles has a callback.
CallbackPresent == pc # "crashed"
=============================================================================
