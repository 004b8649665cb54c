----------------------------- MODULE SerialUsb -----------------------------
(***************************************************************************)
(* The whole system for one session of the proxy: the proxy, the firmware, *)
(* the serial line between them, the target device behind the proxy and    *)
(* the target host behind the firmware.  Every step is a step of one of    *)
(* them; the properties relate their states.                               *)
(***************************************************************************)
EXTENDS Proxy, Emu

vars == <<serialVars, gusbVars, proxyVars, usbVars, emuVars>>

\* The device answers a forwarded request with data exactly when the firmware
\* expects data: both read the direction bit of the same SETUP packet.
ASSUME DirectionAssumption ==
    /\ ControlIn = InRequests
    /\ QualifierRequests \subseteq InRequests

TypeOK ==
    /\ SerialTypeOK
    /\ GusbTypeOK
    /\ ProxyTypeOK
    /\ UsbTypeOK
    /\ EmuTypeOK

Init ==
    /\ SerialInit
    /\ GusbInit
    /\ ProxyInit
    /\ UsbInit
    /\ EmuInit

ProxyStep == ProxyNext /\ UNCHANGED <<usbVars, emuVars>>
EmuStep == EmuNext /\ UNCHANGED <<gusbVars, proxyVars>>
HostStep == UsbNext /\ UNCHANGED <<serialVars, gusbVars, proxyVars, emuVars>>

Next == ProxyStep \/ EmuStep \/ HostStep

Spec == Init /\ [][Next]_vars

-----------------------------------------------------------------------------
(* Fairness: the main loop and the interrupt of the firmware run; gpoll    *)
(* serves the serial line, its timers and libusb; libusb ends control and  *)
(* OUT transfers, which have timeouts, and cancelled transfers; the target *)
(* host enumerates the device, wakes it up and polls its IN endpoints.     *)
(* Nothing is assumed of the target device: it may never have a report.    *)

ProxyFairness ==
    /\ WF_vars(ProxyStart /\ UNCHANGED <<usbVars, emuVars>>)
    /\ WF_vars(ProcessPacket /\ UNCHANGED <<usbVars, emuVars>>)
    /\ WF_vars(ProxyLeave /\ UNCHANGED <<usbVars, emuVars>>)
    /\ WF_vars((ControlReadDone \/ ControlWriteDone) /\ UNCHANGED <<usbVars, emuVars>>)
    /\ \A e \in OutEps : WF_vars(WriteDone(e) /\ UNCHANGED <<usbVars, emuVars>>)

EmuFairness ==
    /\ WF_vars(EmuInterrupt /\ UNCHANGED <<gusbVars, proxyVars>>)
    /\ WF_vars(EmuMain /\ UNCHANGED <<gusbVars, proxyVars>>)
    /\ WF_vars(Reboot /\ UNCHANGED <<gusbVars, proxyVars>>)

HostConfigures == usbState = "Default" /\ \E r \in ConfigRequests : HostSetup(r)

HostFairness ==
    /\ WF_vars(HostConfigures /\ UNCHANGED <<serialVars, gusbVars, proxyVars, emuVars>>)
    /\ WF_vars(BusWakeUp /\ UNCHANGED <<serialVars, gusbVars, proxyVars, emuVars>>)
    /\ \A n \in EmuIn :
          WF_vars(HostReads(n) /\ UNCHANGED <<serialVars, gusbVars, proxyVars, emuVars>>)

FairSpec == Spec /\ ProxyFairness /\ EmuFairness /\ HostFairness

-----------------------------------------------------------------------------
(* Start-up. *)

\* The acknowledgements that the interrupt sends never fall inside a packet
\* that the main loop is sending on the same UART: as long as a packet that
\* the interrupt acknowledges can arrive, the main loop waits in SetupHardware.
\* (send_index and send_endpoints send once however many acknowledgements the
\* chunks of the tables draw.)
AcksOnlyWhileBooting ==
    \A i \in DOMAIN toEmu :
        toEmu[i].type \in StartupTypes => pc = "boot" /\ ~started

\* The device is shown to the host with complete tables only.
StartedWithTables ==
    started => nDesc = NDescriptors /\ nIndex = NIndex /\ tableSet

-----------------------------------------------------------------------------
(* Reports: from the device to the host. *)

\* The firmware has one slot for an IN packet, and the interrupt fills it
\* without looking.  An IN packet is under way only when the slot is free and
\* the main loop is done with it, so that a report is neither overwritten nor
\* torn, and the main loop never empties the slot of a packet it has not read.
SlotFreeForPacket ==
    \A i \in DOMAIN toEmu :
        toEmu[i].type = "IN" =>
            /\ input.ep = 0
            /\ pc \notin {"in_write", "in_release", "in_ack"}
            /\ \A j \in DOMAIN toEmu : toEmu[j].type = "IN" => i = j

\* An endpoint is polled, or its report is queued, or its report awaits an
\* acknowledgement: never two of these at once, never twice.
Homes(e) ==
    polls[e] + Cardinality({i \in DOMAIN inEpFifo : inEpFifo[i] = e})
             + (IF inPending = e THEN 1 ELSE 0)

OneHome == \A e \in InEps : Homes(e) <= 1

\* A report that arrives always finds room in inEpFifo.
RoomForReport == \A e \in InEps : polls[e] > 0 => Len(inEpFifo) < MaxEndpoints

\* The acknowledgement that the proxy takes for the pending packet is the one
\* the firmware sent for it: while a packet is pending it is in exactly one
\* place, and an acknowledgement never arrives unexpected.
InPackets(s) == {i \in DOMAIN s : s[i].type = "IN"}
PendingPlaces ==
    Cardinality(InPackets(toEmu)) + Cardinality(InPackets(toProxy))
      + (IF input.ep # 0 \/ pc = "in_ack" THEN 1 ELSE 0)

AckIsExpected ==
    /\ PendingPlaces <= (IF inPending = 0 THEN 0 ELSE 1)
    /\ phase = "polling" /\ pc # "hardreset" /\ inPending # 0 => PendingPlaces = 1

\* The reports of e that the host has not read: the one in the bank, and
\* behind it the one that waits in inEpFifo, on the line or in the firmware's
\* slot.  From "in_release" on the slot's report is in the bank.
InBank(e) == IF inBank[U2S[e]] = 0 THEN <<>> ELSE <<inBank[U2S[e]]>>

PacketUnread ==
    \/ InPackets(toEmu) # {}
    \/ input.ep # 0 /\ pc \notin {"in_release", "hardreset"}

BehindBank(e) ==
    IF \/ \E i \in DOMAIN inEpFifo : inEpFifo[i] = e
       \/ inPending = e /\ PacketUnread
    THEN <<inPackets[e].data>> ELSE <<>>

\* A bus reset and a second SET_CONFIGURATION disable the endpoints and empty
\* their banks, CLEAR_FEATURE(ENDPOINT_HALT) empties the bank of its endpoint;
\* the end of a session resets the firmware.
Calm ==
    /\ resets = 0
    /\ Cardinality(issued \intersect ConfigRequests) <= 1
    /\ issued \intersect ClearRequests = {}
    /\ phase \in {"idle", "polling"}

Pipe == INSTANCE ReportPipe WITH
            Eps <- InEps, Capacity <- 2,
            produced <- reports,
            pipe <- [e \in InEps |-> InBank(e) \o BehindBank(e)],
            delivered <- [e \in InEps |-> got[U2S[e]]],
            calm <- Calm

\* The path of the reports through the proxy, the serial line and the firmware
\* implements the pipe: until the first event that may lose one, each report
\* that the device hands over reaches the host once, in its turn, and never
\* are there more than two between them.
ImplementsPipe == Pipe!Spec

-----------------------------------------------------------------------------
(* Control transfers. *)

\* Until the firmware has given up waiting for a reply, or the bus was reset,
\* or the host abandoned a transfer, the host gets for each request the answer
\* of the device to that request, whole.
AnswersMatch ==
    timeouts = 0 /\ resets = 0 /\ aborts = 0 =>
        /\ answer.from # 0 => answer.from = answer.req
        /\ answer.status = "data" => /\ answer.part1 = answer.req
                                     /\ answer.part2 = answer.req

\* Until the firmware has given up waiting for a reply, no more than one
\* request or reply is under way between the firmware and the device, and only
\* while the firmware waits for it: no reply is left over for a later request.
ControlUnderWay ==
    Len(ctrlXfers) + Cardinality({i \in DOMAIN toProxy : toProxy[i].type = "CONTROL"})
      + Cardinality({i \in DOMAIN toEmu : toEmu[i].type \in {"CONTROL", "CONTROL_STALL"}})

OneControlUnderWay ==
    timeouts = 0 /\ phase = "polling" =>
        ControlUnderWay <= (IF pc \in {"ctl_wait", "ctl_decide"} /\ ~controlReply THEN 1 ELSE 0)

-----------------------------------------------------------------------------
(* OUT packets: from the host to the device. *)

\* The device gets the OUT packets of an endpoint in the order in which the
\* host sent them, none twice, whatever their sizes, whichever of them it fails
\* to take and however often the host configures the emulated device.
OutputsInOrder ==
    \A e \in OutEps : \A i, j \in DOMAIN outDone[e] :
        i < j /\ outDone[e][j] # 0 => outDone[e][i] < outDone[e][j]

\* Until the bus is reset, the host configures the device again or it clears a
\* halt of an endpoint, no full packet is lost between the host and the device
\* while the session lasts, whatever sizes the other endpoints see: each packet
\* that the firmware has acknowledged on an endpoint that gets full packets only
\* is in the bank, on the way to the proxy, in a transfer, or has been written to
\* the device, and in one of them only.
OutPlaces(e) ==
    LET n == U2S[e]
    IN  (IF outBank[n] # NoPacket THEN 1 ELSE 0)
        + (IF pc = "out_send" /\ outPkt.ep = n THEN 1 ELSE 0)
        + Cardinality({i \in DOMAIN toProxy : toProxy[i].type = "OUT" /\ toProxy[i].ep = n})
        + Len(outXfers[e]) + Len(outDone[e])

OutputsArrive ==
    phase = "polling" /\ Calm =>
        \A e \in OutEps :
            OutSizes[U2S[e]] = {"full"} => OutPlaces(e) = sentOut[U2S[e]]

-----------------------------------------------------------------------------
(* Liveness, under FairSpec. *)

\* The start-up handshake comes to its end unless the session does.
HandshakeCompletes == initTimer ~> ~initTimer \/ done

\* No endpoint is forgotten: one whose report waits for its turn or for its
\* acknowledgement is polled again, whatever resets and configurations the bus
\* sees, and whichever of the device's other endpoints have stalled and are never
\* polled again themselves, unless the host halts an endpoint: the report for a
\* halted endpoint stays in the firmware's slot, and holds up those of all others.
EndpointPolledAgain ==
    \A e \in InEps :
        (phase = "polling" /\ polls[e] = 0 /\ Homes(e) > 0) ~>
            (polls[e] > 0 \/ done \/ halted # {})

\* Each report reaches the host, if nothing that may lose it happens and the host
\* halts no endpoint.
ReportDelivered ==
    \A e \in InEps : \A k \in 1..MaxReports :
        reports[e] = k ~> (Len(got[U2S[e]]) >= k \/ ~Calm \/ halted # {})

\* Once done is set the proxy exits, however many transfers are in flight.
SessionEnds == done ~> phase = "exited"

-----------------------------------------------------------------------------
(* What the repository says and the code does not do. *)

\* emu.c says that the access to control is synchronized: the data stage of a
\* reply is the data of one reply.
ReplyNotTorn == answer.status = "data" => answer.part1 = answer.part2

\* emu.c says that it waits for a reply up to 50 ms: the main loop goes on.
ReplyWaitEnds == pc = "ctl_wait" ~> pc \in {"usbtask", "output", "input", "hardreset"}

\* protocol.h says that there are up to MAX_ENDPOINTS endpoints, which is the
\* size of outEndpoints.
OutEndpointsFit == Len(outEndpoints) <= MaxEndpoints
=============================================================================
