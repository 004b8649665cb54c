------------------------------- MODULE Proxy -------------------------------
(***************************************************************************)
(* The proxy on the PC (proxy.c): one thread, whose gpoll loop calls the   *)
(* handlers below one at a time.  Each action is one call of a handler or  *)
(* one stage of proxy_start.                                               *)
(***************************************************************************)
EXTENDS Serial, Gusb

CONSTANTS
    NDescriptors,       \* packets that the descriptors take, at least one
    NIndex,             \* packets that the descriptor index takes
    QualifierRequests,  \* forwarded requests for the device qualifier
    ControlIn,          \* forwarded requests whose data goes to the host
    ControlOutcomes,    \* outcomes of control transfers: subset of Outcomes
    ReadOutcomes,       \* outcomes of interrupt IN transfers
    WriteOutcomes       \* outcomes of interrupt OUT transfers

Outcomes == {"done", "stall", "timeout", "error"}

ASSUME ProxyAssumption ==
    /\ NDescriptors \in Nat \ {0}
    /\ NIndex \in Nat \ {0}
    /\ ControlIn \subseteq Nat \ {0}
    /\ ControlOutcomes \subseteq Outcomes
    /\ ReadOutcomes \subseteq Outcomes
    /\ WriteOutcomes \subseteq Outcomes

VARIABLES
    phase,          \* where proxy_start is
    done,           \* the flag that ends its loop
    initTimer,      \* init_timer runs (its fd is not -1)
    descIndexSent, endpointsSent,
    inPending,      \* endpoint whose IN packet awaits an acknowledgement, or 0
    inEpFifo,       \* endpoints whose report waits for its turn, oldest first
    inPackets,      \* last report read from each endpoint
    exitCode        \* result of proxy_start

proxyVars == <<phase, done, initTimer, descIndexSent, endpointsSent,
               inPending, inEpFifo, inPackets, exitCode>>
startupVars == <<initTimer, descIndexSent, endpointsSent>>
inVars == <<inPending, inEpFifo, inPackets>>

\* "leaving": gpoll has returned with done set; "closing": in gusb_close.
Phases == {"idle", "polling", "leaving", "closing", "exited"}

ProxyTypeOK ==
    /\ phase \in Phases
    /\ done \in BOOLEAN
    /\ initTimer \in BOOLEAN
    /\ descIndexSent \in BOOLEAN
    /\ endpointsSent \in BOOLEAN
    /\ inPending \in InEps \union {0}
    /\ inEpFifo \in Seq(InEps)
    /\ inPackets \in [InEps -> Packet]
    /\ exitCode \in {"none", "ok", "failed"}

ProxyInit ==
    /\ phase = "idle"
    /\ done = FALSE
    /\ initTimer = FALSE
    /\ descIndexSent = FALSE
    /\ endpointsSent = FALSE
    /\ inPending = 0
    /\ inEpFifo = <<>>
    /\ inPackets = [e \in InEps |-> Pkt("IN", U2S[e], 0)]
    /\ exitCode = "none"

-----------------------------------------------------------------------------
(* Sending. *)

\* adapter_send of a value that fits in one packet.
adapter_send(p, ok) == toEmu' = IF ok THEN Append(toEmu, p) ELSE toEmu

\* Mutant: only the first packet is sent.
adapter_send_chunks_First(ps, ok) == toEmu' = Append(toEmu, Head(ps))

\* adapter_send of a value cut into several packets: a failure leaves the
\* packets written before it on the line.
adapter_send_chunks(ps, ok) ==
    IF ok THEN toEmu' = toEmu \o ps
          ELSE \E k \in 0..Len(ps) - 1 : toEmu' = toEmu \o SubSeq(ps, 1, k)

\* Mutant: an acknowledgement is not waited for.
CanSend_Unpaced(pending, fifo) == fifo # <<>>

\* Does send_next_in_packet send anything?
CanSend(pending, fifo) == pending = 0 /\ fifo # <<>>

\* Mutant: inPending is set before the packet is known to be sent.
send_next_in_packet_Early(pending, fifo, packets, ok) ==
    IF CanSend(pending, fifo)
    THEN /\ adapter_send(packets[Head(fifo)], ok)
         /\ inPending' = Head(fifo)
         /\ inEpFifo' = Tail(fifo)
    ELSE UNCHANGED toEmu /\ inPending' = pending /\ inEpFifo' = fifo

\* send_next_in_packet, called when inPending is pending and inEpFifo is fifo.
send_next_in_packet(pending, fifo, packets, ok) ==
    IF CanSend(pending, fifo) /\ ok
    THEN /\ adapter_send(packets[Head(fifo)], TRUE)
         /\ inPending' = Head(fifo)
         /\ inEpFifo' = Tail(fifo)
    ELSE /\ UNCHANGED toEmu
         /\ inPending' = pending
         /\ inEpFifo' = fifo

-----------------------------------------------------------------------------
(* proxy_start, up to its loop. *)

ProxyStart ==
    /\ phase = "idle"
    /\ adapter_send_chunks(Chunks("DESCRIPTORS", NDescriptors), TRUE)
    /\ initTimer' = TRUE
    /\ phase' = IF done THEN "leaving" ELSE "polling"
    /\ UNCHANGED <<toProxy, gusbVars, done, descIndexSent, endpointsSent, inVars, exitCode>>

\* set_prio, adapter_open or send_descriptors fails, or, once the descriptors
\* are sent, one of the timers or gusb_register: proxy_start returns at once.
ProxyStartFails ==
    /\ phase = "idle"
    /\ "start" \in Faults
    /\ \E ok \in BOOLEAN :
          /\ adapter_send_chunks(Chunks("DESCRIPTORS", NDescriptors), ok)
          /\ initTimer' \in {FALSE, ok}
    /\ phase' = "exited"
    /\ exitCode' = "failed"
    /\ UNCHANGED <<toProxy, gusbVars, done, descIndexSent, endpointsSent, inVars>>

-----------------------------------------------------------------------------
(* process_packet: a complete packet has arrived. *)

Receive(type) ==
    /\ phase = "polling"
    /\ toProxy # <<>>
    /\ Head(toProxy).type = type
    /\ toProxy' = Tail(toProxy)

\* The end of process_packet: a failure sets done, and its result makes gpoll
\* return at once.
Return(failed) ==
    /\ done' = (done \/ failed)
    /\ phase' = IF failed THEN "leaving" ELSE phase
    /\ UNCHANGED exitCode

\* Mutant: every acknowledgement makes the proxy send what comes next.
ProcessIndex_Repeated ==
    /\ Receive("INDEX")
    /\ adapter_send(Ack("ENDPOINTS"), TRUE)
    /\ Return(FALSE)
    /\ UNCHANGED <<gusbVars, startupVars, inVars>>

\* Acknowledged descriptors: send_index, once.
ProcessDescriptors ==
    /\ Receive("DESCRIPTORS")
    /\ \E ok \in SendResults :
          IF descIndexSent
          THEN UNCHANGED toEmu /\ Return(FALSE)
          ELSE adapter_send_chunks(Chunks("INDEX", NIndex), ok) /\ Return(~ok)
    /\ descIndexSent' = TRUE
    /\ UNCHANGED <<gusbVars, initTimer, endpointsSent, inVars>>

\* Acknowledged index: send_endpoints, once.
ProcessIndex ==
    /\ Receive("INDEX")
    /\ \E ok \in SendResults :
          IF endpointsSent
          THEN UNCHANGED toEmu /\ Return(FALSE)
          ELSE adapter_send(Ack("ENDPOINTS"), ok) /\ Return(~ok)
    /\ endpointsSent' = TRUE
    /\ UNCHANGED <<gusbVars, initTimer, descIndexSent, inVars>>

\* Acknowledged endpoints: poll_all_endpoints, which stops at the first
\* endpoint that it cannot poll, in the order of the emulated addresses.  (Its
\* loop runs over the indices 0 to 14 of a table in which the addresses 1 to 15
\* are at 0 to 14: it reads the entry of OUT address 15 too, and never that of
\* IN address 15.  The chip has neither endpoint.)
ProcessEndpoints ==
    /\ Receive("ENDPOINTS")
    /\ initTimer' = FALSE
    /\ \E bad \in {0} \union (IF "submit" \in Faults THEN InEps ELSE {}) :
          /\ polls' = [e \in InEps |-> IF bad = 0 \/ U2S[e] < U2S[bad]
                                       THEN polls[e] + 1 ELSE polls[e]]
          /\ Return(bad # 0)
    /\ UNCHANGED <<toEmu, ctrlXfers, outXfers, reports, outDone, descIndexSent, endpointsSent, inVars>>

\* Mutants: inPending is not cleared; the next report is not sent.
ProcessIn_Pending ==
    /\ Receive("IN")
    /\ IF inPending = 0 THEN UNCHANGED polls ELSE gusb_poll(inPending, TRUE)
    /\ Return(FALSE)
    /\ UNCHANGED <<toEmu, ctrlXfers, outXfers, reports, outDone, startupVars, inVars>>

ProcessIn_NextNotSent ==
    /\ Receive("IN")
    /\ IF inPending = 0 THEN UNCHANGED polls ELSE gusb_poll(inPending, TRUE)
    /\ inPending' = 0
    /\ Return(FALSE)
    /\ UNCHANGED <<toEmu, ctrlXfers, outXfers, reports, outDone, startupVars, inEpFifo, inPackets>>

\* Acknowledged report: the endpoint is polled again, and the next report in
\* the queue is sent.  An acknowledgement nobody waits for is ignored.
ProcessIn ==
    /\ Receive("IN")
    /\ IF inPending = 0
       THEN UNCHANGED <<toEmu, polls, inPending, inEpFifo>> /\ Return(FALSE)
       ELSE \E polled \in SubmitResults, sent \in SendResults :
               /\ gusb_poll(inPending, polled)
               /\ IF polled
                  THEN send_next_in_packet(0, inEpFifo, inPackets, sent)
                  ELSE inPending' = 0 /\ UNCHANGED <<toEmu, inEpFifo>>
               /\ Return(~polled \/ (CanSend(0, inEpFifo) /\ ~sent))
    /\ UNCHANGED <<ctrlXfers, outXfers, reports, outDone, startupVars, inPackets>>

\* send_out_packet.
ProcessOut ==
    /\ Receive("OUT")
    /\ \E ok \in SubmitResults :
          /\ gusb_write_out(S2U[Head(toProxy).ep], Head(toProxy).data, ok)
          /\ Return(~ok)
    /\ UNCHANGED <<toEmu, polls, ctrlXfers, reports, outDone, startupVars, inVars>>

\* send_control_packet: the request goes to the device, except a request for
\* the device qualifier, which is stalled here.  (In a request to an endpoint
\* wIndex is translated as well: the content of requests is not modelled.)
ProcessControl ==
    /\ Receive("CONTROL")
    /\ LET r == Head(toProxy).data
       IN  IF r \in QualifierRequests
           THEN /\ UNCHANGED ctrlXfers
                /\ \E ok \in SendResults :
                      adapter_send(Pkt("CONTROL_STALL", 0, r), ok) /\ Return(~ok)
           ELSE /\ UNCHANGED toEmu
                /\ \E ok \in SubmitResults : gusb_write_control(r, ok) /\ Return(~ok)
    /\ UNCHANGED <<polls, outXfers, reports, outDone, startupVars, inVars>>

\* A debug packet is printed, and so is a packet of an unknown type.
ProcessDebug ==
    /\ Receive("DEBUG")
    /\ Return(FALSE)
    /\ UNCHANGED <<toEmu, gusbVars, startupVars, inVars>>

\* A reset packet ends the session.  The firmware sends none: only a stream that
\* is read from the middle of a packet can hold one.
ProcessReset ==
    /\ Receive("RESET")
    /\ Return(TRUE)
    /\ UNCHANGED <<toEmu, gusbVars, startupVars, inVars>>

-----------------------------------------------------------------------------
(* usb_callback: libusb has completed a transfer.  It runs in the gpoll    *)
(* loop and also inside gusb_close.  gusb ignores what the callbacks of    *)
(* proxy.c return, so a failure counts only where they set done.           *)

UsbEvents == phase \in {"polling", "closing"}

\* usb_read_callback, endpoint # 0, with a report: queue_in_packet, then
\* send_next_in_packet.
ReadDone(e) ==
    /\ UsbEvents
    /\ "done" \in ReadOutcomes
    /\ RemovePoll(e)
    /\ reports[e] < MaxReports
    /\ reports' = [reports EXCEPT ![e] = @ + 1]
    /\ IF Len(inEpFifo) = MaxEndpoints
       THEN done' = TRUE /\ UNCHANGED <<toEmu, inVars>>
       ELSE \E ok \in SendResults :
               LET packets == [inPackets EXCEPT ![e] = Pkt("IN", U2S[e], reports[e] + 1)]
                   fifo == Append(inEpFifo, e)
               IN  /\ inPackets' = packets
                   /\ send_next_in_packet(inPending, fifo, packets, ok)
                   /\ done' = (done \/ (CanSend(inPending, fifo) /\ ~ok))
    /\ UNCHANGED <<toProxy, ctrlXfers, outXfers, outDone, phase, startupVars, exitCode>>

\* usb_read_callback, endpoint # 0, with a stall or an error: the endpoint is
\* not polled again.
ReadFailed(e) ==
    /\ UsbEvents
    /\ ReadOutcomes \ {"done"} # {}
    /\ RemovePoll(e)
    /\ UNCHANGED <<toEmu, toProxy, ctrlXfers, outXfers, reports, outDone, proxyVars>>

\* Mutant: a stall is not passed on.
ControlReadDone_StallDropped ==
    /\ UsbEvents
    /\ RemoveControl
    /\ Head(ctrlXfers) \in ControlIn
    /\ \E outcome \in ControlOutcomes :
          toEmu' = IF outcome = "done" THEN Append(toEmu, Pkt("CONTROL", 0, Head(ctrlXfers))) ELSE toEmu
    /\ UNCHANGED <<toProxy, polls, outXfers, reports, outDone, proxyVars>>

\* usb_read_callback, endpoint 0: the data goes back, a stall and a timeout
\* become a stall, an error goes unanswered.  A failure to send is ignored.
ControlReadDone ==
    /\ UsbEvents
    /\ RemoveControl
    /\ LET r == Head(ctrlXfers)
       IN  /\ r \in ControlIn
           /\ \E outcome \in ControlOutcomes, ok \in SendResults :
                 toEmu' = CASE outcome = "error" \/ ~ok -> toEmu
                            [] outcome = "done" -> Append(toEmu, Pkt("CONTROL", 0, r))
                            [] OTHER -> Append(toEmu, Pkt("CONTROL_STALL", 0, r))
    /\ UNCHANGED <<toProxy, polls, outXfers, reports, outDone, proxyVars>>

\* usb_write_callback, endpoint 0: success is an empty reply, a stall is
\* passed on, a timeout and an error go unanswered.
ControlWriteDone ==
    /\ UsbEvents
    /\ RemoveControl
    /\ LET r == Head(ctrlXfers)
       IN  /\ r \notin ControlIn
           /\ \E outcome \in ControlOutcomes, ok \in SendResults :
                 IF outcome \in {"timeout", "error"}
                 THEN UNCHANGED <<toEmu, done>>
                 ELSE /\ adapter_send(Pkt(IF outcome = "done" THEN "CONTROL" ELSE "CONTROL_STALL", 0, r), ok)
                      /\ done' = (done \/ ~ok)
    /\ UNCHANGED <<toProxy, polls, outXfers, reports, outDone, phase, startupVars, inVars, exitCode>>

\* usb_write_callback, endpoint # 0: nothing to do but to report an error.
WriteDone(e) ==
    /\ UsbEvents
    /\ RemoveOut(e)
    /\ \E outcome \in WriteOutcomes :
          outDone' = [outDone EXCEPT ![e] =
                         Append(@, IF outcome = "done" THEN Head(outXfers[e]) ELSE 0)]
    /\ UNCHANGED <<toEmu, toProxy, polls, ctrlXfers, reports, proxyVars>>

-----------------------------------------------------------------------------
(* The end of the session. *)

\* proxy_stop, in a signal handler.
ProxyStop ==
    /\ phase \in {"idle", "polling"}
    /\ done' = TRUE
    /\ UNCHANGED <<serialVars, gusbVars, phase, startupVars, inVars, exitCode>>

\* The initialization timer expires (timer_close), or the adapter or the
\* device goes away (the close callbacks): gpoll returns.
InitTimeout ==
    /\ phase = "polling"
    /\ initTimer
    /\ done' = TRUE
    /\ phase' = "leaving"
    /\ UNCHANGED <<serialVars, gusbVars, startupVars, inVars, exitCode>>

Closed ==
    /\ phase = "polling"
    /\ "unplug" \in Faults
    /\ done' = TRUE
    /\ phase' = "leaving"
    /\ UNCHANGED <<serialVars, gusbVars, startupVars, inVars, exitCode>>

\* Mutant: without the 10 ms timer, gpoll does not return for a signal.
TimerTick_Missing == FALSE

\* The 10 ms timer (timer_read) makes gpoll return, so that done is seen.
TimerTick ==
    /\ phase = "polling"
    /\ done
    /\ phase' = "leaving"
    /\ UNCHANGED <<serialVars, gusbVars, done, startupVars, inVars, exitCode>>

\* Mutant: the firmware is not told.
SendReset_Silent ==
    /\ phase = "leaving"
    /\ phase' = "closing"
    /\ UNCHANGED <<serialVars, gusbVars, done, startupVars, inVars, exitCode>>

\* After the loop: the firmware is told to reset, then gusb_close cancels the
\* transfers and handles events until none is left.
SendReset ==
    /\ phase = "leaving"
    /\ \E ok \in SendResults : adapter_send(Ack("RESET"), ok)
    /\ phase' = "closing"
    /\ UNCHANGED <<toProxy, gusbVars, done, startupVars, inVars, exitCode>>

\* A cancelled transfer ends without a callback.
Cancelled ==
    /\ phase = "closing"
    /\ \/ \E e \in InEps : RemovePoll(e) /\ UNCHANGED <<ctrlXfers, outXfers>>
       \/ RemoveControl /\ UNCHANGED <<polls, outXfers>>
       \/ \E e \in OutEps : RemoveOut(e) /\ UNCHANGED <<polls, ctrlXfers>>
    /\ UNCHANGED <<serialVars, reports, outDone, proxyVars>>

ProxyExit ==
    /\ phase = "closing"
    /\ NoTransfers
    /\ phase' = "exited"
    /\ exitCode' = IF initTimer THEN "failed" ELSE "ok"
    /\ UNCHANGED <<serialVars, gusbVars, done, startupVars, inVars>>

-----------------------------------------------------------------------------

ProcessPacket ==
    \/ ProcessDescriptors
    \/ ProcessIndex
    \/ ProcessEndpoints
    \/ ProcessIn
    \/ ProcessOut
    \/ ProcessControl
    \/ ProcessDebug
    \/ ProcessReset

UsbCallback ==
    \/ \E e \in InEps : ReadDone(e)
    \/ \E e \in InEps : ReadFailed(e)
    \/ ControlReadDone
    \/ ControlWriteDone
    \/ \E e \in OutEps : WriteDone(e)

ProxyLeave == TimerTick \/ SendReset \/ Cancelled \/ ProxyExit

ProxyNext ==
    \/ ProxyStart
    \/ ProxyStartFails
    \/ ProcessPacket
    \/ UsbCallback
    \/ ProxyStop
    \/ InitTimeout
    \/ Closed
    \/ ProxyLeave
=============================================================================
