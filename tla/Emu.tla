-------------------------------- MODULE Emu --------------------------------
(***************************************************************************)
(* The firmware of the atmega32u4 (emu.c): the interrupt that receives     *)
(* serial packets, which preempts the main loop between any two of its     *)
(* steps, and the main loop, which follows pc.  A step of the main loop    *)
(* reads or writes what it shares with the interrupt at most once.         *)
(***************************************************************************)
EXTENDS Serial, UsbDevice

CONSTANTS
    MaxTimeouts     \* bound: replies that the firmware stops waiting for

ASSUME EmuAssumption == MaxTimeouts \in Nat

VARIABLES
    started,            \* set once the endpoint table is received
    nDesc, nIndex,      \* packets stored through pdesc and pindex
    tableSet,           \* endpoints[] holds the table
    input,              \* the IN packet to give to the host: [ep, data]
    controlReply, controlStall, controlReplyLen,
    control,            \* request whose data the control buffer holds, or 0
    replyTo,            \* history: request that the last reply answered
    outEndpoints,       \* OUT endpoints to poll, in order
    selectedOut,        \* index in outEndpoints of the next one
    pc,                 \* where the main loop is
    returnTo,           \* where USB_USBTask returns to
    request,            \* USB_ControlRequest
    outPkt,             \* packet of ReceiveNextOutput: its endpoint and data
    timeouts            \* counter for the bound, and history

isrVars == <<started, nDesc, nIndex, tableSet>>
ctlVars == <<controlReply, controlStall, controlReplyLen, control, replyTo>>
outVars == <<outEndpoints, selectedOut, outPkt>>
mainVars == <<pc, returnTo, request, timeouts>>
emuVars == <<isrVars, input, ctlVars, outVars, mainVars>>

\* The steps of the main loop: "boot" is SetupHardware, "input" and the in_
\* steps SendNextInput, "output" and the out_ steps ReceiveNextOutput,
\* "usbtask" USB_USBTask, the ctl_ steps UnhandledControlRequest.
Steps == {"boot", "input", "in_write", "in_release", "in_ack",
          "output", "out_clear", "out_send", "usbtask",
          "ctl_reply", "ctl_stall", "ctl_send", "ctl_read", "ctl_wait",
          "ctl_decide", "ctl_finish", "ctl_write", "ctl_write2", "ctl_status", "hardreset"}

Slot == [ep : Nat, data : Nat]
EmptySlot == [ep |-> 0, data |-> 0]

EmuTypeOK ==
    /\ started \in BOOLEAN /\ tableSet \in BOOLEAN
    /\ nDesc \in Nat /\ nIndex \in Nat
    /\ input \in Slot
    /\ controlReply \in BOOLEAN /\ controlStall \in BOOLEAN
    /\ controlReplyLen \in {0, 1}
    /\ control \in Nat /\ replyTo \in Nat
    /\ outEndpoints \in Seq(EmuOut)
    /\ selectedOut \in Nat
    /\ pc \in Steps
    /\ returnTo \in {"input", "out_clear"}
    /\ request \in Nat
    /\ outPkt \in Slot
    /\ timeouts \in Nat

\* The RAM after a reset.
EmuInit ==
    /\ started = FALSE /\ tableSet = FALSE
    /\ nDesc = 0 /\ nIndex = 0
    /\ input = EmptySlot
    /\ controlReply = FALSE /\ controlStall = FALSE
    /\ controlReplyLen = 0
    /\ control = 0 /\ replyTo = 0
    /\ outEndpoints = <<>>
    /\ selectedOut = 0
    /\ pc = "boot"
    /\ returnTo = "input"
    /\ request = 0
    /\ outPkt = EmptySlot
    /\ timeouts = 0

-----------------------------------------------------------------------------
(* ISR(USART1_RX_vect): the whole of one packet. *)

\* forceHardReset disables interrupts.
Interrupt(type) ==
    /\ pc # "hardreset"
    /\ toEmu # <<>>
    /\ Head(toEmu).type = type
    /\ toEmu' = Tail(toEmu)

RxDescriptors ==
    /\ Interrupt("DESCRIPTORS")
    /\ nDesc' = nDesc + 1
    /\ toProxy' = Append(toProxy, Ack("DESCRIPTORS"))
    /\ UNCHANGED <<started, nIndex, tableSet, input, ctlVars, outVars, mainVars, usbVars>>

\* Mutant: the index is not acknowledged.
RxIndex_NoAck ==
    /\ Interrupt("INDEX")
    /\ nIndex' = nIndex + 1
    /\ UNCHANGED <<toProxy, started, nDesc, tableSet, input, ctlVars, outVars, mainVars, usbVars>>

RxIndex ==
    /\ Interrupt("INDEX")
    /\ nIndex' = nIndex + 1
    /\ toProxy' = Append(toProxy, Ack("INDEX"))
    /\ UNCHANGED <<started, nDesc, tableSet, input, ctlVars, outVars, mainVars, usbVars>>

RxEndpoints ==
    /\ Interrupt("ENDPOINTS")
    /\ tableSet' = TRUE
    /\ toProxy' = Append(toProxy, Ack("ENDPOINTS"))
    /\ started' = TRUE
    /\ UNCHANGED <<nDesc, nIndex, input, ctlVars, outVars, mainVars, usbVars>>

\* Mutant: back to SetupHardware, without a reset of the processor.
RxReset_Soft ==
    /\ Interrupt("RESET")
    /\ pc' = "boot"
    /\ started' = FALSE
    /\ UNCHANGED <<toProxy, nDesc, nIndex, tableSet, input, ctlVars, outVars, returnTo, request, timeouts, usbVars>>

RxReset ==
    /\ Interrupt("RESET")
    /\ pc' = "hardreset"
    /\ UNCHANGED <<toProxy, isrVars, input, ctlVars, outVars, returnTo, request, timeouts, usbVars>>

\* The reply to an OUT request has no data: the buffer keeps its content.
RxControl ==
    /\ Interrupt("CONTROL")
    /\ LET r == Head(toEmu).data
       IN  /\ controlReplyLen' = IF r \in InRequests THEN 1 ELSE 0
           /\ control' = IF r \in InRequests THEN r ELSE control
           /\ replyTo' = r
    /\ controlReply' = TRUE
    /\ UNCHANGED <<toProxy, isrVars, input, controlStall, outVars, mainVars, usbVars>>

RxControlStall ==
    /\ Interrupt("CONTROL_STALL")
    /\ controlReply' = TRUE
    /\ controlStall' = TRUE
    /\ replyTo' = Head(toEmu).data
    /\ UNCHANGED <<toProxy, isrVars, input, controlReplyLen, control, outVars, mainVars, usbVars>>

RxIn ==
    /\ Interrupt("IN")
    /\ input' = [ep |-> Head(toEmu).ep, data |-> Head(toEmu).data]
    /\ UNCHANGED <<toProxy, isrVars, ctlVars, outVars, mainVars, usbVars>>

EmuInterrupt ==
    \/ RxDescriptors \/ RxIndex \/ RxEndpoints \/ RxReset
    \/ RxControl \/ RxControlStall \/ RxIn

-----------------------------------------------------------------------------
(* SetupHardware and reset. *)

Goto(from, to) == pc = from /\ pc' = to

\* while(!started), then USB_Init: the host sees the device.
Boot ==
    /\ started
    /\ Goto("boot", "input")
    /\ usbState' = "Default"
    /\ UNCHANGED <<serialVars, isrVars, input, ctlVars, outVars, returnTo, request, timeouts,
                   inBank, outBank, halted, setup, hostReq, got, answer, hostVars>>

\* The watchdog resets the processor: the device disappears from the host,
\* and what the serial line carried in the meantime is lost.  (In whole packets:
\* the rest of one that the reset cuts in two, whose bytes the firmware would
\* take for a header, is left out.)
Reboot ==
    /\ pc = "hardreset"
    /\ \E k \in 0..Len(toEmu) : toEmu' = SubSeq(toEmu, k + 1, Len(toEmu))
    /\ started' = FALSE /\ tableSet' = FALSE
    /\ nDesc' = 0 /\ nIndex' = 0
    /\ input' = EmptySlot
    /\ controlReply' = FALSE /\ controlStall' = FALSE
    /\ controlReplyLen' = 0
    /\ control' = 0 /\ replyTo' = 0
    /\ outEndpoints' = <<>>
    /\ selectedOut' = 0
    /\ pc' = "boot"
    /\ returnTo' = "input"
    /\ request' = 0
    /\ outPkt' = EmptySlot
    /\ usbState' = "Off"
    /\ inBank' = EmptyInBanks
    /\ outBank' = EmptyOutBanks
    /\ halted' = {}
    /\ setup' = 0
    /\ hostReq' = 0
    /\ UNCHANGED <<toProxy, timeouts, got, answer, hostVars>>

-----------------------------------------------------------------------------
(* ENDPOINT_Task: SendNextInput. *)

MainUnchanged == UNCHANGED <<returnTo, request, timeouts>>

InputReady == input.ep # 0 /\ inBank[input.ep] = 0

TaskSkipped ==
    /\ usbState # "Configured"
    /\ Goto("input", "usbtask")
    /\ MainUnchanged
    /\ UNCHANGED <<serialVars, isrVars, input, ctlVars, outVars, usbVars>>

InputNothing ==
    /\ usbState = "Configured"
    /\ ~InputReady
    /\ Goto("input", "output")
    /\ MainUnchanged
    /\ UNCHANGED <<serialVars, isrVars, input, ctlVars, outVars, usbVars>>

InputFound ==
    /\ usbState = "Configured"
    /\ InputReady
    /\ Goto("input", "in_write")
    /\ MainUnchanged
    /\ UNCHANGED <<serialVars, isrVars, input, ctlVars, outVars, usbVars>>

\* Endpoint_Write_Stream_LE and Endpoint_ClearIN: the packet is the host's to
\* read, unless a bus reset has disabled the endpoint.
InputWrite ==
    /\ Goto("in_write", "in_release")
    /\ inBank' = IF usbState = "Default" THEN inBank
                 ELSE [inBank EXCEPT ![input.ep] = input.data]
    /\ MainUnchanged
    /\ UNCHANGED <<serialVars, isrVars, input, ctlVars, outVars,
                   usbState, outBank, halted, setup, hostReq, got, answer, hostVars>>

\* Mutant: the slot is not released.
InputRelease_Kept ==
    /\ Goto("in_release", "in_ack")
    /\ MainUnchanged
    /\ UNCHANGED <<serialVars, isrVars, input, ctlVars, outVars, usbVars>>

InputRelease ==
    /\ Goto("in_release", "in_ack")
    /\ input' = [input EXCEPT !.ep = 0]
    /\ MainUnchanged
    /\ UNCHANGED <<serialVars, isrVars, ctlVars, outVars, usbVars>>

InputAck ==
    /\ Goto("in_ack", "output")
    /\ toProxy' = Append(toProxy, Ack("IN"))
    /\ MainUnchanged
    /\ UNCHANGED <<toEmu, isrVars, input, ctlVars, outVars, usbVars>>

-----------------------------------------------------------------------------
(* ENDPOINT_Task: ReceiveNextOutput. *)

OutputNothing ==
    /\ outEndpoints = <<>>
    /\ Goto("output", "usbtask")
    /\ MainUnchanged
    /\ UNCHANGED <<serialVars, isrVars, input, ctlVars, outVars, usbVars>>

\* Mutant: the bank is freed before it is read to the end.
OutputPoll_Freed ==
    /\ outEndpoints # <<>>
    /\ pc = "output"
    /\ selectedOut' = IF selectedOut + 1 = Len(outEndpoints) THEN 0 ELSE selectedOut + 1
    /\ LET n == outEndpoints[selectedOut + 1]
       IN  /\ outPkt' = [ep |-> n, data |-> outBank[n].data]
           /\ outBank' = [outBank EXCEPT ![n] = NoPacket]
           /\ pc' = IF outBank[n] = NoPacket THEN "usbtask" ELSE "out_clear"
    /\ UNCHANGED <<serialVars, isrVars, input, ctlVars, outEndpoints, returnTo, request, timeouts,
                   usbState, inBank, halted, setup, hostReq, got, answer, hostVars>>

\* The next OUT endpoint in turn.  Endpoint_Read_Stream_LE of a packet that is
\* shorter than the endpoint frees the bank and calls USB_USBTask before it
\* returns; a packet of the full size stays in the bank.
OutputPoll ==
    /\ outEndpoints # <<>>
    /\ pc = "output"
    /\ selectedOut' = IF selectedOut + 1 = Len(outEndpoints) THEN 0 ELSE selectedOut + 1
    /\ LET n == outEndpoints[selectedOut + 1]
           short == outBank[n].size = "short"
       IN  /\ outPkt' = [ep |-> n, data |-> IF outBank[n].size = "zero" THEN 0 ELSE outBank[n].data]
           /\ outBank' = IF short THEN [outBank EXCEPT ![n] = NoPacket] ELSE outBank
           /\ pc' = IF short \/ outBank[n] = NoPacket THEN "usbtask" ELSE "out_clear"
           /\ returnTo' = IF short THEN "out_clear" ELSE "input"
    /\ UNCHANGED <<serialVars, isrVars, input, ctlVars, outEndpoints, request, timeouts,
                   usbState, inBank, halted, setup, hostReq, got, answer, hostVars>>

\* Mutant: the bank is not freed.
OutputClear_Kept ==
    /\ Goto("out_clear", IF outPkt.data = 0 THEN "usbtask" ELSE "out_send")
    /\ MainUnchanged
    /\ UNCHANGED <<serialVars, isrVars, input, ctlVars, outVars, usbVars>>

\* Endpoint_ClearOUT, whatever the bank holds now.
OutputClear ==
    /\ Goto("out_clear", IF outPkt.data = 0 THEN "usbtask" ELSE "out_send")
    /\ outBank' = [outBank EXCEPT ![outPkt.ep] = NoPacket]
    /\ MainUnchanged
    /\ UNCHANGED <<serialVars, isrVars, input, ctlVars, outVars,
                   usbState, inBank, halted, setup, hostReq, got, answer, hostVars>>

OutputSend ==
    /\ Goto("out_send", "usbtask")
    /\ toProxy' = Append(toProxy, Pkt("OUT", outPkt.ep, outPkt.data))
    /\ MainUnchanged
    /\ UNCHANGED <<toEmu, isrVars, input, ctlVars, outVars, usbVars>>

-----------------------------------------------------------------------------
(* USB_USBTask. *)

TaskReturns == pc' = returnTo /\ returnTo' = "input"

\* The control transfer of the host ends.
Answered(status, part1, part2, from) ==
    /\ hostReq' = 0
    /\ answer' = IF hostReq = 0 THEN answer
                 ELSE [req |-> hostReq, status |-> status,
                       part1 |-> part1, part2 |-> part2, from |-> from]

UsbTaskNothing ==
    /\ pc = "usbtask"
    /\ setup = 0
    /\ TaskReturns
    /\ UNCHANGED <<serialVars, isrVars, input, ctlVars, outVars, request, timeouts, usbVars>>

\* USB_Device_SetConfiguration, and EVENT_USB_Device_ConfigurationChanged,
\* which configures the endpoints and adds those of direction OUT to the table.
\* Whether this ends a halt is left open: the code does not touch STALLRQ.
\* (One step, though the host sees the end of the transfer before the endpoints
\* are configured; the main loop does nothing else in between.)
SetConfiguration ==
    /\ pc = "usbtask"
    /\ setup \in ConfigRequests
    /\ TaskReturns
    /\ request' = setup
    /\ setup' = 0
    /\ usbState' = "Configured"
    /\ inBank' = EmptyInBanks
    /\ outBank' = EmptyOutBanks
    /\ halted' \in {halted, {}}
    /\ outEndpoints' = outEndpoints \o OutTable
    /\ Answered("ok", 0, 0, 0)
    /\ UNCHANGED <<serialVars, isrVars, input, ctlVars, selectedOut, outPkt, timeouts, got, hostVars>>

\* USB_Device_ClearSetFeature, for endpoint n: the event of emu.c leaves the
\* request to LUFA, which does not pass it on to the device behind the proxy.
\* A halt leaves the bank alone.
SetHalt(n) ==
    /\ pc = "usbtask"
    /\ setup \in HaltRequests
    /\ TaskReturns
    /\ request' = setup
    /\ setup' = 0
    /\ halted' = halted \union {n}
    /\ Answered("ok", 0, 0, 0)
    /\ UNCHANGED <<serialVars, isrVars, input, ctlVars, outVars, timeouts,
                   usbState, inBank, outBank, got, hostVars>>

\* The end of a halt: Endpoint_ResetEndpoint, which empties the bank.
ClearHalt(n) ==
    /\ pc = "usbtask"
    /\ setup \in ClearRequests
    /\ TaskReturns
    /\ request' = setup
    /\ setup' = 0
    /\ halted' = halted \ {n}
    /\ inBank' = [m \in EmuIn |-> IF m = n THEN 0 ELSE inBank[m]]
    /\ outBank' = [m \in EmuOut |-> IF m = n THEN NoPacket ELSE outBank[m]]
    /\ Answered("ok", 0, 0, 0)
    /\ UNCHANGED <<serialVars, isrVars, input, ctlVars, outVars, timeouts,
                   usbState, got, hostVars>>

ClearSetFeature == \E n \in EmuIn \union EmuOut : SetHalt(n) \/ ClearHalt(n)

\* USB_Device_GetStatus and USB_Device_GetConfiguration.  Endpoint_ClearStatusStage
\* waits for the OUT packet that ends the transfer, which does not come when the
\* host has abandoned it: see ControlTimeout.
RequestStatus ==
    /\ pc = "usbtask"
    /\ setup \in StatusRequests
    /\ request' = setup
    /\ setup' = 0
    /\ IF hostReq = 0
       THEN pc' = "ctl_status" /\ UNCHANGED <<returnTo, hostReq, answer>>
       ELSE TaskReturns /\ Answered("ok", 0, 0, 0)
    /\ UNCHANGED <<serialVars, isrVars, input, ctlVars, outVars, timeouts,
                   usbState, inBank, outBank, halted, got, hostVars>>

\* wLength above MAX_CONTROL_TRANSFER_SIZE: a debug packet, and a stall.
RequestTooBig ==
    /\ pc = "usbtask"
    /\ setup \in BigRequests
    /\ TaskReturns
    /\ request' = setup
    /\ setup' = 0
    /\ toProxy' = Append(toProxy, Pkt("DEBUG", 0, setup))
    /\ Answered("stall", 0, 0, 0)
    /\ UNCHANGED <<toEmu, isrVars, input, ctlVars, outVars, timeouts,
                   usbState, inBank, outBank, halted, got, hostVars>>

RequestForwarded ==
    /\ setup \in InRequests \union OutRequests
    /\ Goto("usbtask", "ctl_reply")
    /\ request' = setup
    /\ UNCHANGED <<serialVars, isrVars, input, ctlVars, outVars, returnTo, timeouts, usbVars>>

-----------------------------------------------------------------------------
(* EVENT_USB_Device_UnhandledControlRequest, for a request that fits. *)

\* Mutant: controlReply keeps the value that the last reply gave it.
ControlClearReply_Kept ==
    /\ Goto("ctl_reply", "ctl_stall")
    /\ MainUnchanged
    /\ UNCHANGED <<serialVars, isrVars, input, ctlVars, outVars, usbVars>>

ControlClearReply ==
    /\ Goto("ctl_reply", "ctl_stall")
    /\ controlReply' = FALSE
    /\ MainUnchanged
    /\ UNCHANGED <<serialVars, isrVars, input, controlStall, controlReplyLen, control, replyTo,
                   outVars, usbVars>>

ControlClearStall ==
    /\ Goto("ctl_stall", "ctl_send")
    /\ controlStall' = FALSE
    /\ MainUnchanged
    /\ UNCHANGED <<serialVars, isrVars, input, controlReply, controlReplyLen, control, replyTo,
                   outVars, usbVars>>

SendControl == toProxy' = Append(toProxy, Pkt("CONTROL", 0, request))

ControlSendIn ==
    /\ request \in InRequests
    /\ Goto("ctl_send", "ctl_wait")
    /\ SendControl
    /\ MainUnchanged
    /\ UNCHANGED <<toEmu, isrVars, input, ctlVars, outVars, usbVars>>

\* Endpoint_ClearSETUP, then Endpoint_Read_Control_Stream_LE.
ControlReadSetup ==
    /\ request \in OutRequests
    /\ Goto("ctl_send", "ctl_read")
    /\ setup' = 0
    /\ MainUnchanged
    /\ UNCHANGED <<serialVars, isrVars, input, ctlVars, outVars,
                   usbState, inBank, outBank, halted, hostReq, got, answer, hostVars>>

ControlSendOut ==
    /\ hostReq # 0
    /\ setup = 0
    /\ Goto("ctl_read", "ctl_wait")
    /\ SendControl
    /\ MainUnchanged
    /\ UNCHANGED <<toEmu, isrVars, input, ctlVars, outVars, usbVars>>

\* The host has abandoned the transfer, as a new SETUP packet shows.
StreamAborted == setup # 0 \/ usbState = "Suspended"

ControlReadAborted ==
    /\ pc = "ctl_read"
    /\ StreamAborted
    /\ TaskReturns
    /\ Answered("stall", 0, 0, 0)
    /\ UNCHANGED <<serialVars, isrVars, input, ctlVars, outVars, request, timeouts,
                   usbState, inBank, outBank, halted, setup, got, hostVars>>

\* Mutant: without the limit of 50 ms.
ControlWait_Forever ==
    /\ controlReply
    /\ Goto("ctl_wait", "ctl_decide")
    /\ MainUnchanged
    /\ UNCHANGED <<serialVars, isrVars, input, ctlVars, outVars, usbVars>>

\* while (!controlReply && TCNT1 < 3125): a reply, or 50 ms.
ControlWait ==
    /\ controlReply \/ timeouts < MaxTimeouts
    /\ Goto("ctl_wait", "ctl_decide")
    /\ MainUnchanged
    /\ UNCHANGED <<serialVars, isrVars, input, ctlVars, outVars, usbVars>>

\* controlReply is read again after the loop.
ControlReplied ==
    /\ controlReply
    /\ Goto("ctl_decide", "ctl_finish")
    /\ MainUnchanged
    /\ UNCHANGED <<serialVars, isrVars, input, ctlVars, outVars, usbVars>>

\* No reply: Endpoint_ClearSETUP and Endpoint_ClearStatusStage.  A request
\* with data for the device completes as if the device had accepted it.  For
\* the others ClearStatusStage waits for an OUT packet, which the host does
\* not send before it has read the data that will never come: only the loss
\* of VBUS, which is not modelled, or a reset ends step "ctl_status".
ControlTimeout ==
    /\ pc = "ctl_decide"
    /\ ~controlReply
    /\ timeouts' = timeouts + 1
    /\ setup' = 0
    /\ IF request \in InRequests
       THEN pc' = "ctl_status" /\ UNCHANGED <<returnTo, hostReq, answer>>
       ELSE TaskReturns /\ Answered("ok", 0, 0, 0)
    /\ UNCHANGED <<serialVars, isrVars, input, ctlVars, outVars, request,
                   usbState, inBank, outBank, halted, got, hostVars>>

ControlStalled ==
    /\ pc = "ctl_finish"
    /\ controlStall
    /\ TaskReturns
    /\ setup' = 0
    /\ Answered("stall", 0, 0, replyTo)
    /\ UNCHANGED <<serialVars, isrVars, input, ctlVars, outVars, request, timeouts,
                   usbState, inBank, outBank, halted, got, hostVars>>

\* Endpoint_ClearIN: the status stage of a request with data for the device.
ControlAccepted ==
    /\ pc = "ctl_finish"
    /\ ~controlStall
    /\ request \in OutRequests
    /\ TaskReturns
    /\ Answered("ok", 0, 0, replyTo)
    /\ UNCHANGED <<serialVars, isrVars, input, ctlVars, outVars, request, timeouts,
                   usbState, inBank, outBank, halted, setup, got, hostVars>>

ControlReturnData ==
    /\ ~controlStall
    /\ request \in InRequests
    /\ Goto("ctl_finish", "ctl_write")
    /\ setup' = 0
    /\ MainUnchanged
    /\ UNCHANGED <<serialVars, isrVars, input, ctlVars, outVars,
                   usbState, inBank, outBank, halted, hostReq, got, answer, hostVars>>

\* Endpoint_Write_Control_Stream_LE(control, controlReplyLen) fills the data
\* stage from the buffer as the host reads it, here in two halves.
ControlWriteFirst ==
    /\ Goto("ctl_write", "ctl_write2")
    /\ hostReq # 0 /\ ~StreamAborted
    /\ answer' = [req |-> hostReq, status |-> "none", part2 |-> 0, from |-> replyTo,
                  part1 |-> IF controlReplyLen = 0 THEN 0 ELSE control]
    /\ MainUnchanged
    /\ UNCHANGED <<serialVars, isrVars, input, ctlVars, outVars,
                   usbState, inBank, outBank, halted, setup, hostReq, got, hostVars>>

ControlWriteSecond ==
    /\ pc = "ctl_write2"
    /\ hostReq # 0 /\ ~StreamAborted
    /\ TaskReturns
    /\ Answered("data", answer.part1, IF answer.part1 = 0 THEN 0 ELSE control, answer.from)
    /\ UNCHANGED <<serialVars, isrVars, input, ctlVars, outVars, request, timeouts,
                   usbState, inBank, outBank, halted, setup, got, hostVars>>

ControlWriteAborted ==
    /\ pc \in {"ctl_write", "ctl_write2"}
    /\ StreamAborted
    /\ TaskReturns
    /\ UNCHANGED <<serialVars, isrVars, input, ctlVars, outVars, request, timeouts, usbVars>>

-----------------------------------------------------------------------------

\* Mutant: the acknowledgement leaves before the slot is released.
SendNextInput_AckFirst ==
    \/ InputNothing \/ InputFound \/ InputWrite
    \/ /\ Goto("in_release", "in_ack")
       /\ toProxy' = Append(toProxy, Ack("IN"))
       /\ MainUnchanged
       /\ UNCHANGED <<toEmu, isrVars, input, ctlVars, outVars, usbVars>>
    \/ /\ Goto("in_ack", "output")
       /\ input' = [input EXCEPT !.ep = 0]
       /\ MainUnchanged
       /\ UNCHANGED <<serialVars, isrVars, ctlVars, outVars, usbVars>>

SendNextInput == InputNothing \/ InputFound \/ InputWrite \/ InputRelease \/ InputAck

ReceiveNextOutput == OutputNothing \/ OutputPoll \/ OutputClear \/ OutputSend

USBTask ==
    \/ UsbTaskNothing
    \/ SetConfiguration
    \/ ClearSetFeature
    \/ RequestStatus
    \/ RequestTooBig
    \/ RequestForwarded

UnhandledControlRequest ==
    \/ ControlClearReply \/ ControlClearStall
    \/ ControlSendIn \/ ControlReadSetup \/ ControlSendOut \/ ControlReadAborted
    \/ ControlWait \/ ControlReplied \/ ControlTimeout
    \/ ControlStalled \/ ControlAccepted \/ ControlReturnData
    \/ ControlWriteFirst \/ ControlWriteSecond \/ ControlWriteAborted

EmuMain ==
    \/ Boot
    \/ TaskSkipped
    \/ SendNextInput
    \/ ReceiveNextOutput
    \/ USBTask
    \/ UnhandledControlRequest

EmuNext == EmuInterrupt \/ EmuMain \/ Reboot
=============================================================================
