---------------------------- MODULE Sessions_proofs ----------------------------
(***************************************************************************)
(* Theorems about Sessions: any number of processes that follow each other *)
(* on the same firmware, however they end.                                 *)
(*                                                                         *)
(* Some facts hold whatever a process finds: the types, what lies on the   *)
(* line to the firmware (all that a process writes in its session lies in  *)
(* front of its RESET), and what a process that ends in order leaves       *)
(* behind.  They are proved without anything that a firmware at work could *)
(* spoil.  The invariants of SerialUsb carry over to a process that finds  *)
(* a firmware without tables, once the handshake is counted from what the  *)
(* firmware holds by then.  The invariant of the reports needs, besides,   *)
(* that the slot of the firmware is empty.                                 *)
(***************************************************************************)
EXTENDS Sessions, SerialUsb_transfers

-----------------------------------------------------------------------------
(* The inductive invariant. *)

\* The firmware after a reset, until it gets the tables of a process.
Rebooted ==
    /\ pc = "boot" /\ ~started
    /\ nDesc = 0 /\ nIndex = 0
    /\ Free(StartupTypes, toEmu)

ResetComing == pc = "hardreset" \/ ~NoneOf("RESET", toEmu)

\* The tables of a process lie in front of its RESET.
ResetLast ==
    /\ pc = "hardreset" => Free(StartupTypes, toEmu)
    /\ \A i, j \in DOMAIN toEmu :
          toEmu[i].type = "RESET" /\ toEmu[j].type \in StartupTypes => j < i

\* A firmware in SetupHardware shows nothing to the host.
BootInv ==
    /\ pc \notin {"boot", "hardreset"} => started
    /\ pc = "boot" => /\ usbState = "Off" /\ setup = 0 /\ hostReq = 0
                      /\ returnTo = "input" /\ outBank = EmptyOutBanks

\* A process starts without transfers and leaves none behind.
ExitInv == phase \in {"idle", "exited"} => NoTransfers

\* Processes that end in order, as long as nothing else has happened since the
\* last reset.
EndInv ==
    ~unclean => /\ phase = "idle" => Rebooted /\ "work" \notin found
                /\ phase \in {"closing", "exited"} => Rebooted \/ ResetComing

\* A firmware at work got there in a session that was not in order, and it stays
\* at work until its reset, after which nobody starts it again.
WorkInv ==
    "work" \in found =>
        \/ started /\ unclean /\ nDesc >= NDescriptors /\ nIndex >= NIndex
        \/ ~started /\ ~Running /\ Free(StartupTypes, toEmu)

TornInv == torn => "work" \in found

LineSessions == LineInv /\ ResetLast
PastSessions == EndInv /\ WorkInv

\* What holds whatever the process has found.
AnySession ==
    /\ SessionsTypeOK /\ TypeInv
    /\ LineSessions /\ BootInv /\ ExitInv /\ PastSessions /\ TornInv

\* What the firmware held when the process started: nothing, unless a process
\* ended without a reset since the last one.
CountInv ==
    \E d, x \in Nat : HandshakeFrom(d, x) /\ (~unclean => d = 0 /\ x = 0)

\* What holds if it found a firmware without tables.
BootSession == CountInv /\ HomesInv /\ ControlInv /\ HostInv /\ OutInv

SessionsInv ==
    /\ AnySession
    /\ "work" \notin found => BootSession
    /\ found = {} => TokenInv

-----------------------------------------------------------------------------
(* The start. *)

LEMMA SessionsStart == SessionsInit => SessionsInv
<1> SUFFICES ASSUME SessionsInit PROVE SessionsInv
  OBVIOUS
<1>1. Init /\ session = 1 /\ unclean = FALSE /\ found = {} /\ torn = FALSE
  BY DEF SessionsInit
<1>2. TypeInv /\ TokenInv /\ HomesInv /\ HandshakeInv /\ ControlInv /\ HostInv /\ OutInv
  BY <1>1, InitTypes, InitToken, InitHomes, InitHandshake, InitControl, InitHost, InitOut
<1>3. SessionsTypeOK
  <2>1. 1 \in 1..MaxSessions
    BY SessionsAssumption
  <2>2. session \in 1..MaxSessions /\ unclean \in BOOLEAN /\ torn \in BOOLEAN
        /\ found \subseteq {"work", "report"}
    BY <1>1, <2>1
  <2>3. QED
    BY <1>2, <2>2 DEF SessionsTypeOK, TypeInv
<1>4. BootSession
  BY <1>2 DEF BootSession, CountInv, HandshakeInv
<1>5. /\ toEmu = <<>> /\ pc = "boot" /\ ~started /\ nDesc = 0 /\ nIndex = 0
      /\ phase = "idle" /\ NoTransfers
      /\ usbState = "Off" /\ setup = 0 /\ hostReq = 0 /\ returnTo = "input"
      /\ outBank = EmptyOutBanks
  BY <1>1 DEF Init, SerialInit, GusbInit, ProxyInit, UsbInit, EmuInit, NoTransfers
<1>6. DOMAIN toEmu = {}
  BY <1>5
<1>7. Rebooted /\ ResetLast
  BY <1>5, <1>6 DEF Rebooted, ResetLast, Free
<1>8. BootInv /\ ExitInv /\ PastSessions /\ TornInv
  BY <1>1, <1>5, <1>7 DEF BootInv, ExitInv, PastSessions, EndInv, WorkInv, TornInv
<1>9. LineSessions
  BY <1>2, <1>7 DEF LineSessions, LineInv, TokenInv
<1>10. QED
  BY <1>2, <1>3, <1>4, <1>8, <1>9 DEF SessionsInv, AnySession

-----------------------------------------------------------------------------
(* What a process writes. *)

\* The packets that a step of the process may write.
MaySend(p) ==
    /\ p.type = "IN" => p.ep # 0
    /\ p.type = "RESET" => phase = "leaving" /\ phase' = "closing"
    /\ p.type \in StartupTypes => phase \in {"idle", "polling"}

\* They come behind what is on the line.
Extended ==
    /\ \A i \in DOMAIN toEmu : i \in DOMAIN toEmu' /\ toEmu'[i] = toEmu[i]
    /\ \A i \in DOMAIN toEmu' \ DOMAIN toEmu :
          MaySend(toEmu'[i]) /\ \A j \in DOMAIN toEmu : j < i

LEMMA ExtendedSame ==
    ASSUME toEmu' = toEmu
    PROVE  Extended
BY DEF Extended

LEMMA ExtendedOne ==
    ASSUME toEmu \in Seq(Packet), NEW p \in Packet, MaySend(p), NEW ok, adapter_send(p, ok)
    PROVE  Extended
<1>1. CASE toEmu' = toEmu
  BY <1>1, ExtendedSame
<1>2. CASE toEmu' = Append(toEmu, p)
  <2>1. /\ DOMAIN toEmu = 1..Len(toEmu) /\ DOMAIN toEmu' = 1..Len(toEmu) + 1
        /\ Len(toEmu) \in Nat
        /\ \A i \in 1..Len(toEmu) : toEmu'[i] = toEmu[i]
        /\ toEmu'[Len(toEmu) + 1] = p
    BY <1>2, AppendProperties, LenProperties
  <2>2. \A i \in DOMAIN toEmu' \ DOMAIN toEmu : i = Len(toEmu) + 1
    BY <2>1
  <2>3. QED
    BY <2>1, <2>2 DEF Extended
<1>3. QED
  BY <1>1, <1>2 DEF adapter_send

LEMMA ExtendedMore ==
    ASSUME toEmu \in Seq(Packet), NEW type, NEW ps, Sent(ps, type),
           type \in StartupTypes, phase \in {"idle", "polling"}
    PROVE  Extended
<1>1. ps \in Seq(Packet) /\ toEmu' = toEmu \o ps /\ \A i \in DOMAIN ps : ps[i].type = type
  BY DEF Sent
<1>2. /\ DOMAIN toEmu = 1..Len(toEmu) /\ Len(toEmu) \in Nat
      /\ DOMAIN ps = 1..Len(ps) /\ Len(ps) \in Nat
      /\ DOMAIN toEmu' = 1..Len(toEmu) + Len(ps)
      /\ \A i \in 1..Len(toEmu) + Len(ps) :
            toEmu'[i] = IF i <= Len(toEmu) THEN toEmu[i] ELSE ps[i - Len(toEmu)]
  BY <1>1, ConcatProperties, LenProperties
<1>3. \A i \in DOMAIN toEmu : i \in DOMAIN toEmu' /\ toEmu'[i] = toEmu[i]
  BY <1>2
<1>4. ASSUME NEW i \in DOMAIN toEmu' \ DOMAIN toEmu
      PROVE  MaySend(toEmu'[i]) /\ \A j \in DOMAIN toEmu : j < i
  <2>1. i \in Nat /\ i > Len(toEmu) /\ i - Len(toEmu) \in 1..Len(ps)
    BY <1>2
  <2>2. toEmu'[i] = ps[i - Len(toEmu)]
    BY <1>2, <2>1
  <2>3. toEmu'[i].type = type
    BY <1>1, <1>2, <2>1, <2>2
  <2>4. MaySend(toEmu'[i])
    BY <2>3 DEF MaySend, StartupTypes
  <2>5. QED
    BY <1>2, <2>1, <2>4
<1>5. QED
  BY <1>3, <1>4 DEF Extended

LEMMA ExtendedChunks ==
    ASSUME toEmu \in Seq(Packet), NEW type \in StartupTypes, NEW n \in Nat, NEW ok \in BOOLEAN,
           adapter_send_chunks(Chunks(type, n), ok), phase \in {"idle", "polling"}
    PROVE  Extended
<1>0. type \in PacketTypes
  BY DEF StartupTypes, PacketTypes
<1>1. CASE ok
  <2>1. Sent(Chunks(type, n), type)
    BY <1>0, <1>1, AllSent DEF adapter_send_chunks
  <2>2. QED
    BY <2>1, ExtendedMore
<1>2. CASE ~ok
  <2>1. PICK k \in 0..Len(Chunks(type, n)) - 1 :
           toEmu' = toEmu \o SubSeq(Chunks(type, n), 1, k)
    BY <1>2 DEF adapter_send_chunks
  <2>2. Sent(SubSeq(Chunks(type, n), 1, k), type)
    BY <1>0, <2>1, SomeSent
  <2>3. QED
    BY <2>2, ExtendedMore
<1>3. QED
  BY <1>1, <1>2

LEMMA ExtendedNext ==
    ASSUME toEmu \in Seq(Packet), NEW pending, NEW fifo \in Seq(InEps),
           NEW packets \in [InEps -> Packet],
           \A e \in InEps : packets[e].type = "IN" /\ packets[e].ep # 0,
           NEW ok, send_next_in_packet(pending, fifo, packets, ok)
    PROVE  Extended
<1>1. CASE CanSend(pending, fifo) /\ ok
  <2>1. Head(fifo) \in InEps
    BY <1>1, HeadTailProperties DEF CanSend
  <2>2. adapter_send(packets[Head(fifo)], TRUE)
    BY <1>1 DEF send_next_in_packet
  <2>3. MaySend(packets[Head(fifo)])
    BY <2>1 DEF MaySend, StartupTypes
  <2>4. QED
    BY <2>1, <2>2, <2>3, ExtendedOne
<1>2. CASE ~(CanSend(pending, fifo) /\ ok)
  BY <1>2, ExtendedSame DEF send_next_in_packet
<1>3. QED
  BY <1>1, <1>2

\* The packets of the reports have an endpoint.
PacketsOfReports == \A e \in InEps : inPackets[e].type = "IN" /\ inPackets[e].ep # 0

LEMMA ReportPacket ==
    ASSUME TypeInv, PacketsOfReports, NEW e \in InEps
    PROVE  LET packets == [inPackets EXCEPT ![e] = Pkt("IN", U2S[e], reports[e] + 1)]
           IN  /\ packets \in [InEps -> Packet] /\ Append(inEpFifo, e) \in Seq(InEps)
               /\ \A f \in InEps : packets[f].type = "IN" /\ packets[f].ep # 0
<1>1. /\ inEpFifo \in Seq(InEps) /\ inPackets \in [InEps -> Packet]
      /\ reports[e] + 1 \in Nat /\ U2S[e] \in Nat \ {0}
  BY RenumberingAssumption DEF RenumberingOK, TypeInv, TypeOK, ProxyTypeOK, GusbTypeOK, UsbEps
<1>2. Pkt("IN", U2S[e], reports[e] + 1) \in Packet
  BY <1>1, PktType DEF PacketTypes
<1>3. Append(inEpFifo, e) \in Seq(InEps)
  BY <1>1, AppendProperties
<1>4. QED
  BY <1>1, <1>2, <1>3 DEF PacketsOfReports, Pkt

LEMMA ReadDoneSends ==
    ASSUME TypeInv, PacketsOfReports, NEW e \in InEps, ReadDone(e)
    PROVE  Extended /\ PacketsOfReports'
<1> DEFINE packets == [inPackets EXCEPT ![e] = Pkt("IN", U2S[e], reports[e] + 1)]
           fifo == Append(inEpFifo, e)
<1>1. /\ toEmu \in Seq(Packet) /\ packets \in [InEps -> Packet] /\ fifo \in Seq(InEps)
      /\ \A f \in InEps : packets[f].type = "IN" /\ packets[f].ep # 0
  BY ReportPacket DEF TypeInv, TypeOK, SerialTypeOK
<1>2. \/ toEmu' = toEmu /\ inPackets' = inPackets
      \/ inPackets' = packets
         /\ \E ok \in SendResults : send_next_in_packet(inPending, fifo, packets, ok)
  BY DEF ReadDone, inVars
<1> HIDE DEF packets, fifo
<1>3. Extended
  BY <1>1, <1>2, ExtendedSame, ExtendedNext
<1>4. PacketsOfReports'
  BY <1>1, <1>2 DEF PacketsOfReports
<1>5. QED
  BY <1>3, <1>4

LEMMA ProcessPacketSends ==
    ASSUME TypeInv, PacketsOfReports, ProcessPacket
    PROVE  Extended /\ inPackets' = inPackets
<1>0. /\ toEmu \in Seq(Packet) /\ toProxy \in Seq(Packet)
      /\ inEpFifo \in Seq(InEps) /\ inPackets \in [InEps -> Packet]
      /\ SendResults \subseteq BOOLEAN
  BY DEF TypeInv, TypeOK, SerialTypeOK, ProxyTypeOK, SendResults, Results
<1>1. CASE ProcessDescriptors
  <2>1. /\ phase = "polling" /\ inPackets' = inPackets
        /\ toEmu' = toEmu \/ \E ok \in SendResults :
                                adapter_send_chunks(Chunks("INDEX", NIndex), ok)
    BY <1>1 DEF ProcessDescriptors, Receive, inVars
  <2>2. "INDEX" \in StartupTypes /\ NIndex \in Nat
    BY ProxyAssumption DEF StartupTypes
  <2>3. QED
    BY <1>0, <2>1, <2>2, ExtendedSame, ExtendedChunks
<1>2. CASE ProcessIndex
  <2>1. /\ phase = "polling" /\ inPackets' = inPackets
        /\ toEmu' = toEmu \/ \E ok \in SendResults : adapter_send(Ack("ENDPOINTS"), ok)
    BY <1>2 DEF ProcessIndex, Receive, inVars
  <2>2. Ack("ENDPOINTS") \in Packet /\ MaySend(Ack("ENDPOINTS"))
    BY <2>1, AckType DEF PacketTypes, MaySend, Ack, Pkt
  <2>3. QED
    BY <1>0, <2>1, <2>2, ExtendedSame, ExtendedOne
<1>3. CASE ProcessIn
  <2>1. /\ inPackets' = inPackets
        /\ \/ toEmu' = toEmu
           \/ \E sent \in SendResults : send_next_in_packet(0, inEpFifo, inPackets, sent)
    BY <1>3 DEF ProcessIn
  <2>2. QED
    BY <1>0, <2>1, ExtendedSame, ExtendedNext DEF PacketsOfReports
<1>4. CASE ProcessControl
  <2>1. /\ inPackets' = inPackets
        /\ \/ toEmu' = toEmu
           \/ \E ok \in SendResults :
                 adapter_send(Pkt("CONTROL_STALL", 0, Head(toProxy).data), ok)
    BY <1>4 DEF ProcessControl, inVars
  <2>2. Head(toProxy) \in Packet
    BY <1>0, <1>4, HeadTailProperties DEF ProcessControl, Receive
  <2>3. LET p == Pkt("CONTROL_STALL", 0, Head(toProxy).data)
        IN  p \in Packet /\ MaySend(p)
    <3>1. Head(toProxy).data \in Nat
      BY <2>2 DEF Packet
    <3>2. QED
      BY <3>1, PktType DEF PacketTypes, MaySend, Pkt, StartupTypes
  <2>4. QED
    BY <1>0, <2>1, <2>3, ExtendedSame, ExtendedOne
<1>5. CASE ProcessEndpoints \/ ProcessOut \/ ProcessDebug \/ ProcessReset
  <2>1. toEmu' = toEmu /\ inPackets' = inPackets
    BY <1>5 DEF ProcessEndpoints, ProcessOut, ProcessDebug, ProcessReset, inVars
  <2>2. QED
    BY <2>1, ExtendedSame
<1>6. QED
  BY <1>1, <1>2, <1>3, <1>4, <1>5 DEF ProcessPacket

LEMMA RepliesSend ==
    ASSUME TypeInv, ControlReadDone \/ ControlWriteDone
    PROVE  Extended /\ inPackets' = inPackets
<1>1. /\ inPackets' = inPackets
      /\ \/ toEmu' = toEmu
         \/ \E type \in {"CONTROL", "CONTROL_STALL"} :
               adapter_send(Pkt(type, 0, Head(ctrlXfers)), TRUE)
  BY DEF ControlReadDone, ControlWriteDone, adapter_send, proxyVars, inVars
<1>2. toEmu \in Seq(Packet) /\ ctrlXfers \in Seq(Nat) /\ ctrlXfers # <<>>
  BY DEF TypeInv, TypeOK, SerialTypeOK, GusbTypeOK, ControlReadDone, ControlWriteDone, RemoveControl
<1>3. Head(ctrlXfers) \in Nat
  BY <1>2, HeadTailProperties
<1>4. \A type \in {"CONTROL", "CONTROL_STALL"} :
         Pkt(type, 0, Head(ctrlXfers)) \in Packet /\ MaySend(Pkt(type, 0, Head(ctrlXfers)))
  BY <1>3, PktType DEF PacketTypes, MaySend, Pkt, StartupTypes
<1>5. QED
  BY <1>1, <1>2, <1>4, ExtendedSame, ExtendedOne

LEMMA ProxySends ==
    ASSUME TypeInv, PacketsOfReports, ProxyStep
    PROVE  Extended /\ PacketsOfReports'
<1>0. toEmu \in Seq(Packet) /\ SendResults \subseteq BOOLEAN
  BY DEF TypeInv, TypeOK, SerialTypeOK, SendResults, Results
<1>1. CASE ProxyStart \/ ProxyStartFails
  <2>1. /\ phase = "idle" /\ inPackets' = inPackets
        /\ \E ok \in BOOLEAN : adapter_send_chunks(Chunks("DESCRIPTORS", NDescriptors), ok)
    BY <1>1 DEF ProxyStart, ProxyStartFails, inVars
  <2>2. "DESCRIPTORS" \in StartupTypes /\ NDescriptors \in Nat
    BY ProxyAssumption DEF StartupTypes
  <2>3. QED
    BY <1>0, <2>1, <2>2, ExtendedChunks DEF PacketsOfReports
<1>2. CASE ProcessPacket
  BY <1>2, ProcessPacketSends DEF PacketsOfReports
<1>3. CASE \E e \in InEps : ReadDone(e)
  BY <1>3, ReadDoneSends
<1>4. CASE ControlReadDone \/ ControlWriteDone
  BY <1>4, RepliesSend DEF PacketsOfReports
<1>5. CASE SendReset
  <2>1. /\ phase = "leaving" /\ phase' = "closing" /\ inPackets' = inPackets
        /\ \E ok \in SendResults : adapter_send(Ack("RESET"), ok)
    BY <1>5 DEF SendReset, inVars
  <2>2. Ack("RESET") \in Packet /\ MaySend(Ack("RESET"))
    BY <2>1, AckType DEF PacketTypes, MaySend, Ack, Pkt, StartupTypes
  <2>3. QED
    BY <1>0, <2>1, <2>2, ExtendedOne DEF PacketsOfReports
<1>6. CASE \/ ProxyStop \/ InitTimeout \/ Closed \/ TimerTick \/ Cancelled \/ ProxyExit
           \/ \E e \in InEps : ReadFailed(e)
           \/ \E e \in OutEps : WriteDone(e)
  <2>1. toEmu' = toEmu /\ inPackets' = inPackets
    BY <1>6 DEF ProxyStop, InitTimeout, Closed, TimerTick, Cancelled, ProxyExit, ReadFailed,
                WriteDone, serialVars, proxyVars, inVars
  <2>2. QED
    BY <2>1, ExtendedSame DEF PacketsOfReports
<1>7. QED
  BY <1>1, <1>2, <1>3, <1>4, <1>5, <1>6 DEF ProxyStep, ProxyNext, ProxyLeave, UsbCallback

-----------------------------------------------------------------------------
(* What a firmware takes. *)

\* Only the watchdog takes the firmware out of forceHardReset, and nothing
\* takes it back to SetupHardware.
LEMMA MainRuns ==
    ASSUME TypeInv, EmuMain
    PROVE  pc # "hardreset" /\ pc' \notin {"boot", "hardreset"}
<1>0. returnTo \in {"input", "out_clear"}
  BY DEF TypeInv, TypeOK, EmuTypeOK
<1> USE DEF Goto, TaskReturns
<1>1. CASE Boot \/ TaskSkipped
  BY <1>1 DEF Boot, TaskSkipped
<1>2. CASE SendNextInput
  BY <1>2, SendNextInputFrame
<1>3. CASE ReceiveNextOutput
  BY <1>3 DEF ReceiveNextOutput, OutputNothing, OutputPoll, OutputClear, OutputSend
<1>4. CASE USBTask
  BY <1>0, <1>4
     DEF USBTask, UsbTaskNothing, ClearSetFeature, SetHalt, ClearHalt, RequestStatus,
         SetConfiguration, RequestTooBig, RequestForwarded
<1>5. CASE UnhandledControlRequest
  BY <1>0, <1>5
     DEF UnhandledControlRequest, ControlClearReply, ControlClearStall, ControlSendIn,
         ControlReadSetup, ControlSendOut, ControlReadAborted, ControlWait, ControlReplied,
         ControlTimeout, ControlStalled, ControlAccepted, ControlReturnData, ControlWriteFirst,
         ControlWriteSecond, ControlWriteAborted
<1>6. QED
  BY <1>1, <1>2, <1>3, <1>4, <1>5 DEF EmuMain

\* The interrupt takes one packet, and no state of the main loop changes but
\* for RESET.
LEMMA InterruptTakes ==
    ASSUME EmuInterrupt
    PROVE  \E type \in PacketTypes :
              /\ Interrupt(type)
              /\ type = "RESET" => pc' = "hardreset" /\ returnTo' = returnTo /\ isrVars' = isrVars
              /\ type # "RESET" => UNCHANGED mainVars
              /\ type \notin StartupTypes => UNCHANGED isrVars
              /\ type \in StartupTypes =>
                    /\ started => started'
                    /\ nDesc' = nDesc \/ nDesc' = nDesc + 1
                    /\ nIndex' = nIndex \/ nIndex' = nIndex + 1
              /\ UNCHANGED usbVars
BY DEF EmuInterrupt, RxDescriptors, RxIndex, RxEndpoints, RxReset, RxControl, RxControlStall,
       RxIn, isrVars, mainVars, PacketTypes, StartupTypes

\* toEmu loses packets from its front only.
Shortened ==
    \E k \in Nat : \A i \in DOMAIN toEmu' : i + k \in DOMAIN toEmu /\ toEmu'[i] = toEmu[i + k]

LEMMA EmuTakes ==
    ASSUME TypeInv, TypeInv', EmuNext
    PROVE  Shortened
<1>1. /\ toEmu \in Seq(Packet) /\ toEmu' \in Seq(Packet)
      /\ \A i \in DOMAIN toEmu' : toEmu'[i].type \in PacketTypes
  <2>1. toEmu \in Seq(Packet) /\ toEmu' \in Seq(Packet)
    BY DEF TypeInv, TypeOK, SerialTypeOK
  <2>2. \A i \in DOMAIN toEmu' : toEmu'[i] \in Packet
    BY <2>1, ElementOfSeq, LenProperties
  <2>3. QED
    BY <2>1, <2>2 DEF Packet
<1>2. Within(PacketTypes, toEmu, toEmu')
  <2>1. CASE EmuInterrupt
    BY <1>1, <2>1, InterruptTakes, WithinTail DEF Interrupt
  <2>2. CASE EmuMain
    BY <1>1, <2>2, MainFrame, WithinSame
  <2>3. CASE Reboot
    BY <1>1, <2>3, WithinSuffix DEF Reboot
  <2>4. QED
    BY <2>1, <2>2, <2>3 DEF EmuNext
<1>3. QED
  BY <1>1, <1>2 DEF Within, Shifted, Shortened

-----------------------------------------------------------------------------
(* The line from the process to the firmware. *)

\* Where a process starts and ends.
LEMMA ProxyPhases ==
    ASSUME ProxyStep
    PROVE  /\ phase # "exited"
           /\ Running' => Running
           /\ phase' = "idle" => phase = "idle" /\ UNCHANGED <<toEmu, gusbVars>>
           /\ phase' = "closing" /\ phase # "closing" =>
                 phase = "leaving" /\ \E ok : adapter_send(Ack("RESET"), ok)
           /\ phase' = "exited" => \/ phase = "idle" /\ UNCHANGED gusbVars
                                   \/ phase = "closing" /\ UNCHANGED <<toEmu, gusbVars>> /\ NoTransfers
<1> USE DEF Running
<1>1. CASE ProxyStart \/ ProxyStartFails \/ ProxyStop
  BY <1>1 DEF ProxyStart, ProxyStartFails, ProxyStop, serialVars
<1>2. CASE ProcessPacket
  <2>1. phase = "polling" /\ phase' \in {"polling", "leaving"}
    BY <1>2 DEF ProcessPacket, ProcessDescriptors, ProcessIndex, ProcessEndpoints, ProcessIn,
                ProcessOut, ProcessControl, ProcessDebug, ProcessReset, Receive, Return
  <2>2. QED
    BY <2>1
<1>3. CASE UsbCallback
  <2>1. phase \in {"polling", "closing"} /\ phase' = phase
    BY <1>3 DEF UsbCallback, ReadDone, ReadFailed, ControlReadDone, ControlWriteDone, WriteDone,
                UsbEvents, proxyVars
  <2>2. QED
    BY <2>1
<1>4. CASE InitTimeout \/ Closed \/ TimerTick \/ SendReset
  BY <1>4 DEF InitTimeout, Closed, TimerTick, SendReset
<1>5. CASE Cancelled \/ ProxyExit
  BY <1>5 DEF Cancelled, ProxyExit, proxyVars, serialVars
<1>6. QED
  BY <1>1, <1>2, <1>3, <1>4, <1>5 DEF ProxyStep, ProxyNext, ProxyLeave

LEMMA ProxyLine ==
    ASSUME TypeInv, LineSessions, ProxyStep
    PROVE  LineSessions'
<1> USE DEF LineSessions, LineInv
<1>1. Extended /\ PacketsOfReports'
  BY ProxySends DEF PacketsAddressed, PacketsOfReports
<1>2. pc' = pc /\ DOMAIN toEmu = 1..Len(toEmu)
  BY LenProperties DEF ProxyStep, emuVars, mainVars, TypeInv, TypeOK, SerialTypeOK
<1>3. \A i \in DOMAIN toEmu' \ DOMAIN toEmu : MaySend(toEmu'[i])
  BY <1>1 DEF Extended
<1>4. \A i \in DOMAIN toEmu : toEmu'[i] = toEmu[i]
  BY <1>1 DEF Extended
<1>5. PacketsAddressed'
  BY <1>1, <1>3, <1>4 DEF PacketsAddressed, PacketsOfReports, Addressed, MaySend
<1>6. NoReset'
  <2> SUFFICES ASSUME Running'
               PROVE  NoneOf("RESET", toEmu') /\ pc' # "hardreset"
    BY DEF NoReset
  <2>1. NoneOf("RESET", toEmu) /\ pc # "hardreset" /\ phase' # "closing"
    BY ProxyPhases DEF NoReset, Running
  <2>2. QED
    BY <1>2, <1>3, <1>4, <2>1 DEF NoneOf, MaySend
<1>7. pc' = "hardreset" => Free(StartupTypes, toEmu')
  <2> SUFFICES ASSUME pc = "hardreset" PROVE Free(StartupTypes, toEmu')
    BY <1>2
  <2>1. Free(StartupTypes, toEmu) /\ phase \notin {"idle", "polling"}
    BY DEF ResetLast, NoReset, Running
  <2>2. QED
    BY <1>3, <1>4, <2>1 DEF Free, MaySend
<1>8. ASSUME NEW i \in DOMAIN toEmu', NEW j \in DOMAIN toEmu',
             toEmu'[i].type = "RESET", toEmu'[j].type \in StartupTypes
      PROVE  j < i
  <2>1. CASE i \in DOMAIN toEmu /\ j \in DOMAIN toEmu
    BY <1>4, <1>8, <2>1 DEF ResetLast
  <2>2. CASE i \in DOMAIN toEmu /\ j \notin DOMAIN toEmu
    <3>1. phase \in {"idle", "polling"}
      BY <1>3, <1>8, <2>2 DEF MaySend
    <3>2. NoneOf("RESET", toEmu)
      BY <3>1 DEF NoReset, Running
    <3>3. QED
      BY <1>4, <1>8, <2>2, <3>2 DEF NoneOf
  <2>3. CASE i \notin DOMAIN toEmu /\ j \in DOMAIN toEmu
    BY <1>1, <2>3 DEF Extended
  <2>4. CASE i \notin DOMAIN toEmu /\ j \notin DOMAIN toEmu
    BY <1>3, <1>8, <2>4 DEF MaySend
  <2>5. QED
    BY <2>1, <2>2, <2>3, <2>4
<1>9. ResetLast'
  BY <1>7, <1>8 DEF ResetLast
<1>10. QED
  BY <1>5, <1>6, <1>9

LEMMA EmuLine ==
    ASSUME TypeInv, TypeInv', LineSessions, EmuStep
    PROVE  LineSessions'
<1> USE DEF LineSessions, LineInv
<1>1. EmuNext /\ phase' = phase /\ inPackets' = inPackets
  BY DEF EmuStep, proxyVars
<1>2. PICK k \in Nat :
         \A i \in DOMAIN toEmu' : i + k \in DOMAIN toEmu /\ toEmu'[i] = toEmu[i + k]
  BY <1>1, EmuTakes DEF Shortened
<1>3. PacketsAddressed'
  BY <1>1, <1>2 DEF PacketsAddressed, Addressed
<1>4. /\ DOMAIN toEmu = 1..Len(toEmu) /\ DOMAIN toEmu' = 1..Len(toEmu') /\ Len(toEmu') \in Nat
      /\ toEmu \in Seq(Packet)
  BY LenProperties DEF TypeInv, TypeOK, SerialTypeOK
<1>5. \A i, j \in DOMAIN toEmu' :
         toEmu'[i].type = "RESET" /\ toEmu'[j].type \in StartupTypes => j < i
  <2> SUFFICES ASSUME NEW i \in DOMAIN toEmu', NEW j \in DOMAIN toEmu',
                      toEmu'[i].type = "RESET", toEmu'[j].type \in StartupTypes
               PROVE  j < i
    OBVIOUS
  <2>1. j + k < i + k
    BY <1>2 DEF ResetLast
  <2>2. QED
    BY <1>4, <2>1
<1>6. /\ pc' = "hardreset" => pc = "hardreset" \/ ~NoneOf("RESET", toEmu)
      /\ pc' = "hardreset" => Free(StartupTypes, toEmu')
  <2>1. CASE EmuInterrupt
    <3>1. PICK type \in PacketTypes : /\ Interrupt(type)
                                      /\ type # "RESET" => UNCHANGED mainVars
      BY <2>1, InterruptTakes
    <3>2. /\ toEmu # <<>> /\ toEmu' = Tail(toEmu) /\ Head(toEmu).type = type
          /\ pc # "hardreset"
      BY <3>1 DEF Interrupt
    <3>3. 1 \in DOMAIN toEmu /\ toEmu[1].type = type
      BY <1>4, <3>2, HeadTailProperties, EmptySeq
    <3>4. ASSUME pc' = "hardreset"
          PROVE  ~NoneOf("RESET", toEmu) /\ Free(StartupTypes, toEmu')
      <4>1. type = "RESET"
        BY <3>1, <3>2, <3>4 DEF mainVars
      <4>2. \A j \in DOMAIN toEmu : toEmu[j].type \notin StartupTypes
        BY <1>4, <3>3, <4>1 DEF ResetLast
      <4>3. QED
        BY <1>2, <3>3, <4>1, <4>2 DEF NoneOf, Free
    <3>5. QED
      BY <3>4
  <2>2. CASE EmuMain
    BY <2>2, MainRuns
  <2>3. CASE Reboot
    BY <2>3 DEF Reboot
  <2>4. QED
    BY <1>1, <2>1, <2>2, <2>3 DEF EmuNext
<1>7. NoReset'
  BY <1>1, <1>2, <1>6 DEF NoReset, NoneOf, Running
<1>8. QED
  BY <1>3, <1>5, <1>6, <1>7 DEF ResetLast

LEMMA StepLine ==
    ASSUME TypeInv, LineSessions, [Next]_vars
    PROVE  LineSessions'
<1>1. CASE ProxyStep
  BY <1>1, ProxyLine
<1>2. CASE EmuStep
  BY <1>2, EmuLine, StepTypes
<1>3. CASE HostStep \/ UNCHANGED vars
  BY <1>3 DEF HostStep, vars, serialVars, proxyVars, emuVars, mainVars, LineSessions, LineInv,
              ResetLast, PacketsAddressed, Addressed, NoReset, NoneOf, Running, Free
<1>4. QED
  BY <1>1, <1>2, <1>3 DEF Next

-----------------------------------------------------------------------------
(* The firmware in SetupHardware, and the ends of a process. *)

LEMMA StepBoot ==
    ASSUME TypeInv, BootInv, [Next]_vars
    PROVE  BootInv'
<1>1. CASE ProxyStep \/ UNCHANGED vars
  BY <1>1 DEF ProxyStep, vars, emuVars, mainVars, isrVars, usbVars, busVars, BootInv
<1>2. CASE HostStep
  <2>1. UNCHANGED <<pc, started, returnTo>>
    BY <1>2 DEF HostStep, emuVars, mainVars, isrVars
  <2>2. pc # "boot"
           \/ UNCHANGED <<usbState, setup, hostReq, outBank>>
    BY <1>2 DEF BootInv, HostStep, UsbNext, HostReads, HostWrites, HostSetup,
                ConfigurationAllowed, HostAbort, BusReset, BusSuspend, BusWakeUp
  <2>3. QED
    BY <2>1, <2>2 DEF BootInv
<1>3. CASE EmuInterrupt
  <2>1. /\ pc' \in {pc, "hardreset"} /\ returnTo' = returnTo /\ (started => started')
        /\ UNCHANGED usbVars
    BY <1>3, InterruptTakes DEF mainVars, isrVars
  <2>2. QED
    BY <2>1 DEF BootInv, usbVars, busVars
<1>4. CASE EmuMain
  BY <1>4, MainRuns, MainFrame DEF BootInv, isrVars
<1>5. CASE Reboot
  BY <1>5 DEF Reboot, BootInv
<1>6. QED
  BY <1>1, <1>2, <1>3, <1>4, <1>5 DEF Next, EmuStep, EmuNext

LEMMA StepExit ==
    ASSUME ExitInv, [Next]_vars
    PROVE  ExitInv'
<1>1. CASE ProxyStep
  BY <1>1, ProxyPhases DEF ExitInv, NoTransfers, gusbVars
<1>2. CASE EmuStep \/ HostStep \/ UNCHANGED vars
  BY <1>2 DEF EmuStep, HostStep, vars, gusbVars, proxyVars, ExitInv, NoTransfers
<1>3. QED
  BY <1>1, <1>2 DEF Next

-----------------------------------------------------------------------------
(* What the ends of the processes leave behind. *)

\* The packets of some types that the firmware does not get again.
LEMMA StillFree ==
    ASSUME NEW types, Shortened, Free(types, toEmu)
    PROVE  Free(types, toEmu')
BY DEF Shortened, Free

\* A process that is past its loop sends no tables.
LEMMA NoTables ==
    ASSUME TypeInv, LineSessions, ProxyStep, Free(StartupTypes, toEmu),
           phase \notin {"idle", "polling"}
    PROVE  Free(StartupTypes, toEmu')
<1>1. Extended
  BY ProxySends DEF LineSessions, LineInv, PacketsAddressed, PacketsOfReports
<1>2. QED
  BY <1>1 DEF Extended, MaySend, Free

\* A reset comes after the process.
LEMMA ResetStep ==
    ASSUME TypeInv, LineSessions, Next, FirmwareReset
    PROVE  ~Running /\ Rebooted' /\ UNCHANGED <<gusbVars, proxyVars>>
<1>1. pc = "hardreset" /\ pc' = "boot" /\ Next
  BY DEF FirmwareReset
<1>2. EmuStep
  BY <1>1 DEF Next, ProxyStep, HostStep, emuVars, mainVars
<1>3. Reboot /\ UNCHANGED <<gusbVars, proxyVars>>
  BY <1>1, <1>2, MainRuns, InterruptTakes DEF EmuStep, EmuNext, Interrupt
<1>4. Free(StartupTypes, toEmu')
  BY <1>1, <1>2, EmuTakes, StepTypes, StillFree DEF EmuStep, LineSessions, ResetLast
<1>5. ~Running
  BY <1>1 DEF LineSessions, LineInv, NoReset
<1>6. QED
  BY <1>3, <1>4, <1>5 DEF Reboot, Rebooted

LEMMA ResetBehind ==
    ASSUME Extended, ~NoneOf("RESET", toEmu)
    PROVE  ~NoneOf("RESET", toEmu')
BY DEF Extended, NoneOf

LEMMA ResetTail ==
    ASSUME NEW s \in Seq(Packet), s # <<>>, ~NoneOf("RESET", s), Head(s).type # "RESET"
    PROVE  ~NoneOf("RESET", Tail(s))
<1>1. /\ DOMAIN s = 1..Len(s) /\ Len(s) \in Nat \ {0}
      /\ DOMAIN Tail(s) = 1..Len(s) - 1
      /\ \A i \in 1..Len(s) - 1 : Tail(s)[i] = s[i + 1]
      /\ Head(s) = s[1]
  BY HeadTailProperties, LenProperties, EmptySeq
<1>2. PICK j \in DOMAIN s : s[j].type = "RESET"
  BY DEF NoneOf
<1>3. j - 1 \in 1..Len(s) - 1 /\ Tail(s)[j - 1] = s[j]
  BY <1>1, <1>2
<1>4. QED
  BY <1>1, <1>2, <1>3 DEF NoneOf

LEMMA ResetTaken ==
    ASSUME TypeInv, ResetComing, EmuStep \/ HostStep \/ UNCHANGED vars, ~FirmwareReset
    PROVE  ResetComing'
<1>1. CASE HostStep \/ UNCHANGED vars
  BY <1>1 DEF HostStep, ResetComing, NoneOf, vars, serialVars, emuVars, mainVars
<1>2. CASE EmuMain
  <2>1. toEmu' = toEmu /\ pc # "hardreset"
    BY <1>2, MainFrame, MainRuns
  <2>2. QED
    BY <2>1 DEF ResetComing, NoneOf
<1>3. CASE EmuInterrupt
  <2>1. PICK type : Interrupt(type) /\ (type = "RESET" => pc' = "hardreset")
    BY <1>3, InterruptTakes
  <2>2. /\ toEmu \in Seq(Packet) /\ toEmu # <<>> /\ toEmu' = Tail(toEmu)
        /\ Head(toEmu).type = type /\ pc # "hardreset"
    BY <2>1, Interrupted
  <2>3. ~NoneOf("RESET", toEmu)
    BY <2>2 DEF ResetComing
  <2>4. type # "RESET" => ~NoneOf("RESET", Tail(toEmu))
    BY <2>2, <2>3, ResetTail
  <2>5. QED
    BY <2>1, <2>2, <2>4 DEF ResetComing
<1>4. CASE Reboot
  BY <1>4 DEF Reboot, FirmwareReset
<1>5. QED
  BY <1>1, <1>2, <1>3, <1>4 DEF EmuStep, EmuNext

\* A firmware without tables stays so, or takes RESET.
LEMMA RebootKept ==
    ASSUME TypeInv, Rebooted, EmuStep \/ HostStep \/ UNCHANGED vars
    PROVE  Rebooted' \/ pc' = "hardreset"
<1>1. CASE HostStep \/ UNCHANGED vars
  BY <1>1 DEF HostStep, Rebooted, vars, serialVars, emuVars, mainVars, isrVars, Free
<1>2. CASE EmuInterrupt
  <2>1. PICK type \in PacketTypes :
           /\ Interrupt(type)
           /\ type = "RESET" => pc' = "hardreset"
           /\ type # "RESET" => UNCHANGED mainVars
           /\ type \notin StartupTypes => UNCHANGED isrVars
    BY <1>2, InterruptTakes
  <2>2. Shortened
    BY <1>2, EmuTakes, StepTypes DEF EmuNext, Next, EmuStep, Rebooted
  <2>3. type \notin StartupTypes
    <3>1. toEmu \in Seq(Packet) /\ toEmu # <<>> /\ Head(toEmu).type = type
      BY <2>1, Interrupted
    <3>2. 1 \in DOMAIN toEmu /\ toEmu[1].type = type
      BY <3>1, HeadTailProperties, LenProperties, EmptySeq
    <3>3. QED
      BY <3>2 DEF Rebooted, Free
  <2>4. QED
    BY <2>1, <2>2, <2>3, StillFree DEF Rebooted, isrVars, mainVars
<1>3. CASE EmuMain \/ Reboot
  BY <1>3, MainFrame DEF Rebooted, Reboot
<1>4. QED
  BY <1>1, <1>2, <1>3 DEF EmuStep, EmuNext

LEMMA EndByProxy ==
    ASSUME TypeInv, LineSessions, EndInv, ~unclean, ~EndsUnclean, ProxyStep, found' = found
    PROVE  EndInv'
<1>1. UNCHANGED <<pc, started, nDesc, nIndex>> /\ toEmu \in Seq(Packet)
  BY DEF ProxyStep, emuVars, mainVars, isrVars, TypeInv, TypeOK, SerialTypeOK
<1>2. Extended
  BY ProxySends DEF LineSessions, LineInv, PacketsAddressed, PacketsOfReports
<1>3. phase' = "idle" => Rebooted' /\ "work" \notin found'
  BY <1>1, ProxyPhases DEF EndInv, Rebooted, Free
<1>4. phase' = "closing" => Rebooted' \/ ResetComing'
  <2>1. CASE phase = "closing"
    BY <1>1, <1>2, <2>1, NoTables, ResetBehind DEF EndInv, Rebooted, ResetComing
  <2>2. CASE phase # "closing" /\ phase' = "closing"
    <3>1. Ack("RESET") \in Packet /\ Ack("RESET").type = "RESET"
      BY AckType DEF PacketTypes, Ack, Pkt
    <3>2. toEmu' = Append(toEmu, Ack("RESET"))
      BY <2>2, ProxyPhases DEF EndsUnclean, adapter_send
    <3>3. /\ Len(toEmu) + 1 \in DOMAIN toEmu' /\ toEmu'[Len(toEmu) + 1].type = "RESET"
      BY <1>1, <3>1, <3>2, AppendProperties, LenProperties
    <3>4. QED
      BY <3>3 DEF ResetComing, NoneOf
  <2>3. QED
    BY <2>1, <2>2
<1>5. phase' = "exited" => Rebooted' \/ ResetComing'
  <2> SUFFICES ASSUME phase' = "exited" PROVE Rebooted' \/ ResetComing'
    OBVIOUS
  <2>1. phase = "closing" /\ toEmu' = toEmu
    BY ProxyPhases DEF EndsUnclean
  <2>2. QED
    BY <1>1, <2>1 DEF EndInv, Rebooted, ResetComing, NoneOf, Free
<1>6. QED
  BY <1>3, <1>4, <1>5 DEF EndInv

LEMMA EndKept ==
    ASSUME TypeInv, LineSessions, BootInv, EndInv, SessionStep
    PROVE  EndInv'
<1> SUFFICES ASSUME ~unclean' PROVE EndInv'
  BY DEF EndInv
<1>1. Next /\ found' = found
  BY DEF SessionStep
<1>2. CASE FirmwareReset
  BY <1>1, <1>2, ResetStep DEF EndInv, Running, proxyVars
<1>3. CASE ~FirmwareReset /\ ProxyStep
  BY <1>1, <1>3, EndByProxy DEF SessionStep
<1>4. CASE ~FirmwareReset /\ (EmuStep \/ HostStep)
  <2>1. phase' = phase /\ ~unclean
    BY <1>4 DEF EmuStep, HostStep, proxyVars, SessionStep
  <2>2. Rebooted => Rebooted' \/ pc' = "hardreset"
    BY <1>4, RebootKept
  <2>3. ResetComing => ResetComing'
    BY <1>4, ResetTaken
  <2>4. phase = "idle" => pc' # "hardreset"
    BY <1>1, <2>1, StepLine DEF LineSessions, LineInv, NoReset, Running
  <2>5. QED
    BY <1>1, <2>1, <2>2, <2>3, <2>4 DEF EndInv, ResetComing
<1>5. QED
  BY <1>1, <1>2, <1>3, <1>4 DEF Next

\* The tables of a firmware at work only grow.
LEMMA TablesGrow ==
    ASSUME TypeInv, Next, ~FirmwareReset, started, BootInv
    PROVE  /\ started'
           /\ nDesc' = nDesc \/ nDesc' = nDesc + 1
           /\ nIndex' = nIndex \/ nIndex' = nIndex + 1
<1>1. CASE ProxyStep \/ HostStep
  BY <1>1 DEF ProxyStep, HostStep, emuVars, isrVars
<1>2. CASE EmuInterrupt
  BY <1>2, InterruptTakes DEF isrVars
<1>3. CASE EmuMain
  BY <1>3, MainFrame DEF isrVars
<1>4. CASE Reboot
  BY <1>4 DEF Reboot, FirmwareReset
<1>5. QED
  BY <1>1, <1>2, <1>3, <1>4 DEF Next, EmuStep, EmuNext

\* One that has been reset gets no tables any more.
LEMMA NotStarted ==
    ASSUME TypeInv, LineSessions, BootInv, Next, ~started, ~Running, Free(StartupTypes, toEmu)
    PROVE  ~started' /\ ~Running' /\ Free(StartupTypes, toEmu')
<1>1. CASE ProxyStep
  BY <1>1, ProxyPhases, NoTables DEF ProxyStep, emuVars, isrVars, Running
<1>2. CASE HostStep
  BY <1>2 DEF HostStep, serialVars, proxyVars, emuVars, isrVars, Running
<1>3. CASE EmuStep
  <2>1. Shortened /\ phase' = phase
    BY <1>3, EmuTakes, StepTypes DEF EmuStep, Next, proxyVars
  <2>2. ~started'
    <3>1. CASE EmuInterrupt
      <4>1. PICK type \in PacketTypes : /\ Interrupt(type)
                                        /\ type \notin StartupTypes => UNCHANGED isrVars
        BY <3>1, InterruptTakes
      <4>2. toEmu \in Seq(Packet) /\ toEmu # <<>> /\ Head(toEmu).type = type
        BY <4>1, Interrupted
      <4>3. 1 \in DOMAIN toEmu /\ toEmu[1].type = type
        BY <4>2, HeadTailProperties, LenProperties, EmptySeq
      <4>4. QED
        BY <4>1, <4>3 DEF Free, isrVars
    <3>2. CASE EmuMain
      BY <3>2, MainFrame DEF isrVars
    <3>3. CASE Reboot
      BY <3>3 DEF Reboot
    <3>4. QED
      BY <1>3, <3>1, <3>2, <3>3 DEF EmuStep, EmuNext
  <2>3. QED
    BY <2>1, <2>2, StillFree DEF Running
<1>4. QED
  BY <1>1, <1>2, <1>3 DEF Next

LEMMA WorkKept ==
    ASSUME TypeInv, LineSessions, BootInv, WorkInv, SessionStep
    PROVE  WorkInv'
<1> SUFFICES ASSUME "work" \in found PROVE WorkInv'
  BY DEF WorkInv, SessionStep
<1>1. Next /\ found' = found
  BY DEF SessionStep
<1>2. CASE FirmwareReset
  BY <1>1, <1>2, ResetStep DEF WorkInv, Running, Rebooted, proxyVars
<1>3. CASE ~FirmwareReset /\ started
  <2>1. unclean' /\ nDesc >= NDescriptors /\ nIndex >= NIndex
    BY <1>3 DEF WorkInv, SessionStep
  <2>2. nDesc \in Nat /\ nIndex \in Nat /\ NDescriptors \in Nat /\ NIndex \in Nat
    BY ProxyAssumption DEF TypeInv, TypeOK, EmuTypeOK
  <2>3. QED
    BY <1>1, <1>3, <2>1, <2>2, TablesGrow DEF WorkInv
<1>4. CASE ~FirmwareReset /\ ~started
  BY <1>1, <1>4, NotStarted DEF WorkInv
<1>5. QED
  BY <1>2, <1>3, <1>4

-----------------------------------------------------------------------------
(* The steps of a session. *)

\* No acknowledgement falls inside a packet of a firmware that got its tables
\* from this process.
LEMMA TornKept ==
    ASSUME SessionsInv, SessionStep
    PROVE  TornInv'
<1> SUFFICES ASSUME "work" \notin found PROVE ~torn'
  BY DEF TornInv, SessionStep
<1>1. ~torn /\ TypeInv /\ CountInv
  BY DEF SessionsInv, AnySession, BootSession, TornInv
<1>2. AcksOnlyWhileBooting
  BY <1>1, HandshakeBoots DEF CountInv
<1>3. AckInside => pc = "boot"
  <2>1. toEmu \in Seq(Packet)
    BY <1>1 DEF TypeInv, TypeOK, SerialTypeOK
  <2>2. toEmu # <<>> => 1 \in DOMAIN toEmu /\ toEmu[1] = Head(toEmu)
    BY <2>1, HeadTailProperties, LenProperties, EmptySeq
  <2>3. QED
    BY <1>2, <2>2 DEF AckInside, AcksOnlyWhileBooting
<1>4. ~AckInside
  BY <1>3 DEF AckInside, Sending
<1>5. QED
  BY <1>1, <1>4 DEF SessionStep

LEMMA StepAny ==
    ASSUME SessionsInv, SessionStep
    PROVE  AnySession'
<1> USE DEF SessionsInv, AnySession
<1>1. Next /\ session' = session /\ found' = found
      /\ unclean' = IF FirmwareReset THEN FALSE ELSE unclean \/ EndsUnclean
  BY DEF SessionStep
<1>2. TypeInv' /\ LineSessions' /\ BootInv' /\ ExitInv'
  BY <1>1, StepTypes, StepLine, StepBoot, StepExit
<1>3. PastSessions' /\ TornInv'
  BY EndKept, WorkKept, TornKept DEF PastSessions
<1>4. SessionsTypeOK'
  <2>1. unclean' \in BOOLEAN /\ torn' \in BOOLEAN
    BY <1>1 DEF SessionsTypeOK, SessionStep
  <2>2. QED
    BY <1>1, <1>2, <2>1 DEF SessionsTypeOK, TypeInv
<1>5. QED
  BY <1>2, <1>3, <1>4

LEMMA StepCount ==
    ASSUME SessionsInv, CountInv, SessionStep
    PROVE  CountInv'
<1>0. TypeInv /\ LineSessions /\ LineInv
  BY DEF SessionsInv, AnySession, LineSessions
<1>1. Next
  BY DEF SessionStep
<1>2. CASE ~FirmwareReset
  <2>1. PICK d \in Nat, x \in Nat : HandshakeFrom(d, x) /\ (~unclean => d = 0 /\ x = 0)
    BY DEF CountInv
  <2>2. HandshakeFrom(d, x)' /\ (~unclean' => d = 0 /\ x = 0)
    BY <1>0, <1>1, <1>2, <2>1, StepHandshakeFrom DEF SessionStep
  <2>3. QED
    BY <2>2 DEF CountInv
<1>3. CASE FirmwareReset
  <2>1. Rebooted' /\ ~Running /\ phase' = phase /\ toEmu' \in Seq(Packet)
    BY <1>0, <1>1, <1>3, ResetStep, StepTypes DEF proxyVars, TypeInv, TypeOK, SerialTypeOK
  <2>2. Startup(toEmu', 0, 0, 0)
    BY <2>1, StartupNone DEF Rebooted, Free
  <2>3. Handshake(0, 0, 0, 0, 0)'
    BY <2>1, <2>2 DEF Rebooted, Running, Handshake, FirmwareWaits, NothingLost, OnlyHandshake,
                      Beginning
  <2>4. HandshakeFrom(0, 0)'
    BY <2>3 DEF HandshakeFrom
  <2>5. QED
    BY <2>4 DEF CountInv
<1>4. QED
  BY <1>2, <1>3

LEMMA StepKeeps ==
    ASSUME SessionsInv, SessionStep
    PROVE  SessionsInv'
<1>0. TypeInv /\ LineInv /\ Next /\ found' = found
  BY DEF SessionsInv, AnySession, LineSessions, SessionStep
<1>1. AnySession'
  BY StepAny
<1>2. ASSUME "work" \notin found'
      PROVE  BootSession'
  <2>1. CountInv /\ HomesInv /\ ControlInv /\ HostInv /\ OutInv
    BY <1>0, <1>2 DEF SessionsInv, BootSession
  <2>2. PICK d \in Nat, x \in Nat : HandshakeFrom(d, x)
    BY <2>1 DEF CountInv
  <2>3. HomesInv' /\ ControlInv'
    BY <1>0, <2>1, <2>2, StepHomesFrom, StepControl
  <2>4. HostInv' /\ OutInv'
    BY <1>0, <2>1, StepHost, StepOut
  <2>5. CountInv'
    BY <2>1, StepCount
  <2>6. QED
    BY <2>3, <2>4, <2>5 DEF BootSession
<1>3. found' = {} => TokenInv'
  BY <1>0, StepToken DEF SessionsInv
<1>4. QED
  BY <1>1, <1>2, <1>3 DEF SessionsInv

LEMMA StutterKeeps ==
    ASSUME SessionsInv, UNCHANGED allVars
    PROVE  SessionsInv'
<1>0. TypeInv /\ LineInv /\ UNCHANGED <<vars, session, unclean, found, torn>>
  BY DEF SessionsInv, AnySession, LineSessions, allVars, sessionVars
<1>1. AnySession'
  <2>1. TypeInv' /\ LineSessions' /\ BootInv' /\ ExitInv'
    BY <1>0, StepTypes, StepLine, StepBoot, StepExit DEF SessionsInv, AnySession
  <2>2. PastSessions'
    BY <1>0 DEF SessionsInv, AnySession, vars, serialVars, proxyVars, emuVars, isrVars, mainVars,
                PastSessions, EndInv, WorkInv, Rebooted, ResetComing, NoneOf, Free, Running
  <2>3. TornInv' /\ SessionsTypeOK'
    BY <1>0, <2>1 DEF SessionsInv, AnySession, TornInv, SessionsTypeOK, TypeInv
  <2>4. QED
    BY <2>1, <2>2, <2>3 DEF AnySession
<1>2. ASSUME "work" \notin found'
      PROVE  BootSession'
  <2>1. CountInv /\ HomesInv /\ ControlInv /\ HostInv /\ OutInv
    BY <1>0, <1>2 DEF SessionsInv, BootSession
  <2>2. PICK d \in Nat, x \in Nat : HandshakeFrom(d, x) /\ (~unclean => d = 0 /\ x = 0)
    BY <2>1 DEF CountInv
  <2>3. HomesInv' /\ ControlInv' /\ HandshakeFrom(d, x)'
    BY <1>0, <2>1, <2>2, StepHomesFrom, StepControl, StepHandshakeFrom
  <2>4. HostInv' /\ OutInv'
    BY <1>0, <2>1, StepHost, StepOut
  <2>5. CountInv'
    BY <1>0, <2>2, <2>3 DEF CountInv
  <2>6. QED
    BY <2>3, <2>4, <2>5 DEF BootSession
<1>3. found' = {} => TokenInv'
  BY <1>0, StepToken DEF SessionsInv
<1>4. QED
  BY <1>1, <1>2, <1>3 DEF SessionsInv

\* A torn stream is one of a firmware at work, of which only what holds in any
\* session is claimed; that says nothing of what the process is about to read.
LEMMA MisreadKeeps ==
    ASSUME SessionsInv, Misread
    PROVE  SessionsInv'
<1> USE DEF SessionsInv, AnySession
<1>1. /\ torn /\ toProxy # <<>> /\ toEmu' = toEmu
      /\ UNCHANGED <<gusbVars, proxyVars, usbVars, emuVars, session, unclean, found, torn>>
      /\ toProxy' = Tail(toProxy) \/ \E p \in Misreadings : toProxy' = <<p>> \o Tail(toProxy)
  BY DEF Misread, sessionVars
<1>2. "work" \in found'
  BY <1>1 DEF TornInv
<1>3. toProxy' \in Seq(Packet)
  <2>1. toProxy \in Seq(Packet) /\ Tail(toProxy) \in Seq(Packet)
    BY <1>1, HeadTailProperties DEF TypeInv, TypeOK, SerialTypeOK
  <2>2. \A p \in Misreadings : <<p>> \in Seq(Packet)
    BY SessionsAssumption
  <2>3. \A p \in Misreadings : <<p>> \o Tail(toProxy) \in Seq(Packet)
    BY <2>1, <2>2, ConcatProperties
  <2>4. QED
    BY <1>1, <2>1, <2>3
<1>4. TypeInv'
  <2>1. SerialTypeOK'
    BY <1>1, <1>3 DEF TypeInv, TypeOK, SerialTypeOK
  <2>2. UsbTypeOK' /\ EmuTypeOK' /\ GusbTypeOK' /\ ProxyTypeOK' /\ SelectedInRange'
    BY <1>1 DEF TypeInv, TypeOK, UsbTypeOK, EmuTypeOK, GusbTypeOK, ProxyTypeOK, SelectedInRange,
                usbVars, busVars, hostVars, emuVars, isrVars, ctlVars, outVars, mainVars,
                gusbVars, proxyVars
  <2>3. QED
    BY <2>1, <2>2 DEF TypeInv, TypeOK
<1>5. LineSessions' /\ BootInv' /\ ExitInv'
  BY <1>1 DEF LineSessions, LineInv, ResetLast, PacketsAddressed, Addressed, NoReset, NoneOf,
              Running, Free, BootInv, ExitInv, NoTransfers,
              proxyVars, emuVars, mainVars, isrVars, usbVars, busVars, gusbVars
<1>6. PastSessions' /\ TornInv'
  BY <1>1 DEF PastSessions, EndInv, WorkInv, TornInv, Rebooted, ResetComing, NoneOf, Free, Running,
              proxyVars, emuVars, mainVars, isrVars
<1>7. SessionsTypeOK'
  BY <1>1, <1>4 DEF SessionsTypeOK, TypeInv
<1>8. QED
  BY <1>2, <1>4, <1>5, <1>6, <1>7

-----------------------------------------------------------------------------
(* The death of a process. *)

LEMMA KillAny ==
    ASSUME SessionsInv, Kill
    PROVE  AnySession'
<1> USE DEF SessionsInv, AnySession
<1>1. /\ phase # "exited" /\ phase' = "exited"
      /\ polls' = [e \in InEps |-> 0] /\ ctrlXfers' = <<>>
      /\ outXfers' = [e \in OutEps |-> <<>>]
      /\ unclean' = (unclean \/ phase # "closing")
      /\ UNCHANGED <<toEmu, toProxy, reports, outDone, done, initTimer, descIndexSent,
                     endpointsSent, inPending, inEpFifo, inPackets, exitCode,
                     usbVars, emuVars, session, found, torn>>
  BY DEF Kill, serialVars, startupVars, inVars
<1>2. TypeInv'
  <2>1. SerialTypeOK' /\ UsbTypeOK' /\ EmuTypeOK'
    BY <1>1 DEF TypeInv, TypeOK, SerialTypeOK, UsbTypeOK, EmuTypeOK, usbVars, busVars, hostVars,
                emuVars, isrVars, ctlVars, outVars, mainVars
  <2>2. polls' \in [InEps -> Nat] /\ ctrlXfers' \in Seq(Nat) /\ outXfers' \in [OutEps -> Seq(Nat)]
    BY <1>1
  <2>3. GusbTypeOK' /\ ProxyTypeOK'
    BY <1>1, <2>2 DEF TypeInv, TypeOK, GusbTypeOK, ProxyTypeOK, Phases
  <2>4. SelectedInRange'
    BY <1>1 DEF TypeInv, SelectedInRange, emuVars, outVars, mainVars
  <2>5. QED
    BY <2>1, <2>3, <2>4 DEF TypeInv, TypeOK
<1>3. LineSessions'
  BY <1>1 DEF LineSessions, LineInv, ResetLast, PacketsAddressed, Addressed, NoReset, Running,
              Free, emuVars, mainVars
<1>4. BootInv' /\ ExitInv' /\ TornInv'
  BY <1>1 DEF BootInv, ExitInv, NoTransfers, TornInv, emuVars, mainVars, isrVars, usbVars, busVars
<1>5. EndInv'
  <2> SUFFICES ASSUME ~unclean' PROVE EndInv'
    BY DEF EndInv
  <2>1. ~unclean /\ phase = "closing"
    BY <1>1
  <2>2. Rebooted \/ ResetComing
    BY <2>1 DEF PastSessions, EndInv
  <2>3. Rebooted' \/ ResetComing'
    BY <1>1, <2>2 DEF Rebooted, ResetComing, NoneOf, Free, emuVars, mainVars, isrVars
  <2>4. QED
    BY <1>1, <2>3 DEF EndInv
<1>6. WorkInv'
  BY <1>1 DEF PastSessions, WorkInv, Running, Free, emuVars, isrVars
<1>7. SessionsTypeOK'
  BY <1>1, <1>2 DEF SessionsTypeOK, TypeInv
<1>8. QED
  BY <1>2, <1>3, <1>4, <1>5, <1>6, <1>7 DEF PastSessions

\* The transfers that end with a process are answered by nobody.
LEMMA KillTransfers ==
    ASSUME ControlInv, HostInv, OutInv, Kill
    PROVE  ControlInv' /\ HostInv' /\ OutInv'
<1>1. /\ phase # "exited" /\ phase' = "exited"
      /\ ctrlXfers' = <<>> /\ outXfers' = [e \in OutEps |-> <<>>]
      /\ UNCHANGED <<toEmu, toProxy, outDone, usbVars, emuVars>>
  BY DEF Kill, serialVars
<1>2. /\ UNCHANGED <<pc, started, request, controlReply, controlStall, control, controlReplyLen>>
      /\ UNCHANGED <<replyTo, timeouts, returnTo, outPkt>>
      /\ UNCHANGED <<setup, hostReq, answer, resets, aborts, outBank, sentOut>>
  BY <1>1 DEF emuVars, isrVars, ctlVars, outVars, mainVars, usbVars, busVars, hostVars
<1>3. ControlInv'
  <2>1. OneRequest => OneRequest'
    BY <1>1, <1>2 DEF OneRequest, Waits
  <2>2. Forwarding => Forwarding'
    BY <1>2 DEF Forwarding, ReplyFits
  <2>3. Over => Over'
    BY <1>1, <1>2 DEF Over, Running
  <2>4. QED
    BY <1>2, <2>1, <2>2, <2>3 DEF ControlInv
<1>4. HostInv'
  BY <1>2 DEF HostInv, SameRequest, Matches
<1>5. OutInv'
  <2>1. \A e \in OutEps : outXfers'[e] = <<>>
    BY <1>1
  <2>2. \A e \in OutEps : \A d : Reached(e, d) => Reached(e, d)'
    BY <1>1, <2>1 DEF Reached, AllBelow
  <2>3. \A e \in OutEps : \A d : Before(e, d) => Before(e, d)'
    BY <1>1, <2>2 DEF Before
  <2>4. DeviceOrder'
    BY <1>1, <2>1 DEF OutInv, DeviceOrder, Increasing
  <2>5. LineOrder'
    BY <1>1, <2>2 DEF OutInv, LineOrder
  <2>6. FirmwareOrder'
    BY <1>2 DEF OutInv, FirmwareOrder, Held, Reading
  <2>7. BeforeAll'
    BY <1>2, <2>3 DEF OutInv, BeforeAll, Held, Reading
  <2>8. QED
    BY <2>4, <2>5, <2>6, <2>7 DEF OutInv
<1>6. QED
  BY <1>3, <1>4, <1>5

LEMMA KillCount ==
    ASSUME TypeInv, CountInv, HomesInv, Kill
    PROVE  CountInv' /\ HomesInv'
<1>1. /\ phase' = "exited" /\ polls' = [e \in InEps |-> 0]
      /\ unclean' = (unclean \/ phase # "closing")
      /\ UNCHANGED <<toEmu, descIndexSent, endpointsSent, inPending, inEpFifo, emuVars>>
  BY DEF Kill, serialVars, startupVars, inVars
<1>2. CountInv'
  <2>1. PICK d \in Nat, x \in Nat : HandshakeFrom(d, x) /\ (~unclean => d = 0 /\ x = 0)
    BY DEF CountInv
  <2>2. PICK a \in Nat, b \in Nat, c \in {0, 1} : Handshake(d, x, a, b, c)
    BY <2>1 DEF HandshakeFrom
  <2>3. Handshake(d, x, a, b, c)'
    BY <1>1, <2>2, QuietProxy DEF TypeInv, TypeOK, SerialTypeOK, SentBehind, Beginning
  <2>4. HandshakeFrom(d, x)'
    BY <2>3 DEF HandshakeFrom
  <2>5. QED
    BY <1>1, <2>1, <2>4 DEF CountInv
<1>3. HomesInv'
  <2>1. Distinct(polls', inPending, inEpFifo)
    BY <1>1 DEF HomesInv, Distinct
  <2>2. Distinct(polls, inPending, inEpFifo)'
    BY <1>1, <2>1 DEF Distinct
  <2>3. QED
    BY <1>1, <2>2 DEF HomesInv, PolledOnce
<1>4. QED
  BY <1>2, <1>3

LEMMA KillKeeps ==
    ASSUME SessionsInv, Kill
    PROVE  SessionsInv'
<1>1. AnySession' /\ TypeInv /\ UNCHANGED <<toEmu, toProxy, inPending, inPackets, emuVars, found>>
      /\ phase' = "exited"
  BY KillAny DEF SessionsInv, AnySession, Kill, serialVars, inVars
<1>2. "work" \notin found' => BootSession'
  BY <1>1, KillTransfers, KillCount DEF SessionsInv, BootSession
<1>3. found' = {} => TokenInv'
  BY <1>1 DEF SessionsInv, TokenInv, OneToken, TokenKept, PacketsAddressed, NoReset, Running,
              SlotBusy, AtMostOneIn, NoneOf, Addressed, emuVars, mainVars
<1>4. QED
  BY <1>1, <1>2, <1>3 DEF SessionsInv

-----------------------------------------------------------------------------
(* The next process. *)

\* A firmware that has started has all the tables, and those of one session
\* only if nothing has ended without a reset.
LEMMA StartedTables ==
    ASSUME SessionsInv, started
    PROVE  /\ nDesc >= NDescriptors /\ nIndex >= NIndex
           /\ ~unclean => nDesc = NDescriptors /\ nIndex = NIndex
<1>1. CASE "work" \in found
  BY <1>1 DEF SessionsInv, AnySession, PastSessions, WorkInv
<1>2. CASE "work" \notin found
  <2>1. PICK d \in Nat, x \in Nat : HandshakeFrom(d, x) /\ (~unclean => d = 0 /\ x = 0)
    BY <1>2 DEF SessionsInv, BootSession, CountInv
  <2>2. nDesc = d + NDescriptors /\ nIndex = x + NIndex
    BY <2>1 DEF HandshakeFrom, Handshake, FirmwareWaits
  <2>3. QED
    BY <2>1, <2>2, ProxyAssumption
<1>3. QED
  BY <1>1, <1>2

\* What a process finds when it starts.
LEMMA FirmwareFound ==
    ASSUME AnySession, phase = "exited", LineQuiet
    PROVE  /\ toEmu = <<>> /\ pc # "hardreset" /\ NoTransfers
           /\ ~started => pc = "boot"
           /\ ~unclean => Rebooted
<1>1. toEmu = <<>> /\ pc # "hardreset"
  BY DEF LineQuiet
<1>2. ~ResetComing
  BY <1>1 DEF ResetComing, NoneOf
<1>3. QED
  BY <1>1, <1>2 DEF AnySession, BootInv, ExitInv, PastSessions, EndInv

LEMMA NewProcess ==
    ASSUME NewSession
    PROVE  /\ phase = "exited" /\ LineQuiet /\ phase' = "idle"
           /\ session < MaxSessions /\ session' = session + 1
           /\ inPending' = 0 /\ inEpFifo' = <<>>
           /\ inPackets' = [e \in InEps |-> Pkt("IN", U2S[e], 0)]
           /\ done' = FALSE /\ initTimer' = FALSE /\ descIndexSent' = FALSE
           /\ endpointsSent' = FALSE /\ exitCode' = "none"
           /\ toProxy' = <<>> /\ outDone' = [e \in OutEps |-> <<>>]
           /\ answer' = (IF started THEN answer ELSE NoAnswer)
           /\ UNCHANGED <<toEmu, polls, ctrlXfers, outXfers, reports, emuVars, unclean, hostVars>>
           /\ UNCHANGED <<usbState, inBank, outBank, halted, setup, hostReq, got>>
           /\ "work" \in found' <=> started
           /\ "report" \in found' <=> input.ep # 0
           /\ found' \subseteq {"work", "report"}
           /\ torn' \in {FALSE, Sending}
BY DEF NewSession, FreshProxy, FindsFirmware, FreshHistory

LEMMA FreshPackets ==
    \A e \in InEps : Pkt("IN", U2S[e], 0) \in Packet /\ Pkt("IN", U2S[e], 0).type = "IN"
                     /\ Pkt("IN", U2S[e], 0).ep # 0
BY PktType, RenumberingAssumption DEF RenumberingOK, PacketTypes, UsbEps, Pkt

LEMMA NewTypes ==
    ASSUME TypeInv, NewSession
    PROVE  TypeInv'
<1>1. SerialTypeOK'
  BY NewProcess DEF TypeInv, TypeOK, SerialTypeOK
<1>2. EmuTypeOK' /\ SelectedInRange'
  BY NewProcess DEF TypeInv, TypeOK, EmuTypeOK, SelectedInRange, emuVars, isrVars, ctlVars,
                    outVars, mainVars
<1>3. UsbTypeOK'
  <2>1. answer' \in Answer
    BY NewProcess DEF TypeInv, TypeOK, UsbTypeOK, Answer, NoAnswer
  <2>2. QED
    BY NewProcess, <2>1 DEF TypeInv, TypeOK, UsbTypeOK, hostVars
<1>4. GusbTypeOK'
  <2>1. outDone' = [e \in OutEps |-> <<>>] /\ <<>> \in Seq(Nat)
    BY DEF NewSession, FreshHistory
  <2>2. QED
    BY NewProcess, <2>1 DEF TypeInv, TypeOK, GusbTypeOK
<1>5. ProxyTypeOK'
  <2>1. inPackets' \in [InEps -> Packet]
    BY NewProcess, FreshPackets
  <2>2. done' \in BOOLEAN /\ initTimer' \in BOOLEAN
    BY NewProcess
  <2>3. descIndexSent' \in BOOLEAN /\ endpointsSent' \in BOOLEAN
    BY NewProcess
  <2>4. inEpFifo' \in Seq(InEps) /\ inPending' \in InEps \union {0}
    BY NewProcess
  <2>5. phase' \in Phases /\ exitCode' \in {"none", "ok", "failed"}
    BY NewProcess DEF Phases
  <2>6. QED
    BY <2>1, <2>2, <2>3, <2>4, <2>5 DEF ProxyTypeOK
<1>6. QED
  BY <1>1, <1>2, <1>3, <1>4, <1>5 DEF TypeInv, TypeOK

LEMMA NewAny ==
    ASSUME SessionsInv, NewSession
    PROVE  AnySession'
<1> USE DEF SessionsInv, AnySession
<1>1. TypeInv'
  BY NewTypes
<1>2. /\ toEmu = <<>> /\ toEmu' = <<>> /\ pc # "hardreset" /\ NoTransfers
      /\ ~unclean => Rebooted
      /\ UNCHANGED <<pc, started, nDesc, nIndex, returnTo>>
  BY FirmwareFound, NewProcess DEF emuVars, mainVars, isrVars
<1>3. DOMAIN toEmu' = {}
  BY <1>2
<1>4. LineSessions'
  BY <1>2, <1>3, FreshPackets, NewProcess
     DEF LineSessions, LineInv, ResetLast, PacketsAddressed, Addressed, NoReset, NoneOf
<1>5. BootInv' /\ ExitInv'
  BY <1>2, NewProcess DEF BootInv, ExitInv, NoTransfers
<1>6. started => unclean /\ nDesc >= NDescriptors /\ nIndex >= NIndex
  BY <1>2, StartedTables DEF Rebooted
<1>7. PastSessions'
  BY <1>2, <1>3, <1>6, NewProcess DEF PastSessions, EndInv, WorkInv, Rebooted, Free
<1>8. TornInv'
  BY NewProcess DEF TornInv, BootInv, Sending
<1>9. SessionsTypeOK'
  <2>1. torn' \in BOOLEAN
    BY NewProcess DEF Sending
  <2>2. session' \in 1..MaxSessions
    BY NewProcess, SessionsAssumption DEF SessionsTypeOK
  <2>3. QED
    BY <1>1, <2>1, <2>2, NewProcess DEF SessionsTypeOK, TypeInv
<1>10. QED
  BY <1>1, <1>4, <1>5, <1>7, <1>8, <1>9

\* A firmware without tables has nothing of the last process but the packets of
\* tables that it had begun to get, and perhaps a report.
LEMMA NewCount ==
    ASSUME AnySession, NewSession, ~started
    PROVE  CountInv' /\ HomesInv'
<1>1. /\ toEmu' = <<>> /\ toProxy' = <<>> /\ NoTransfers /\ phase' = "idle"
      /\ pc' = "boot" /\ ~started' /\ nDesc' = nDesc /\ nIndex' = nIndex
      /\ ~unclean' => nDesc = 0 /\ nIndex = 0
  BY FirmwareFound, NewProcess DEF emuVars, mainVars, isrVars, Rebooted
<1>2. Idle' /\ ctrlXfers' = <<>>
  BY <1>1, NewProcess DEF Idle, NoTransfers
<1>3. nDesc \in Nat /\ nIndex \in Nat
  BY DEF AnySession, TypeInv, TypeOK, EmuTypeOK
<1>4. Startup(<<>>, 0, 0, 0) /\ Len(<<>>) = 0
  <2>1. \A i \in DOMAIN <<>> : FALSE
    OBVIOUS
  <2>2. QED
    BY <2>1, EmptySeq DEF Startup
<1>5. Startup(toEmu', 0, 0, 0) /\ Len(toEmu') = 0
  BY <1>1, <1>4
<1>6. FirmwareWaits(nDesc, nIndex, 0, 0, 0)' /\ NothingLost(nDesc, nIndex, 0, 0, 0)'
  BY <1>1, NewProcess DEF FirmwareWaits, NothingLost
<1>7. OnlyHandshake(0, 0, 0)'
  BY <1>1, <1>2, <1>5 DEF OnlyHandshake, StartupAcks
<1>8. HandshakeFrom(nDesc, nIndex)'
  BY <1>5, <1>6, <1>7 DEF Handshake, HandshakeFrom
<1>9. CountInv'
  BY <1>1, <1>3, <1>8 DEF CountInv
<1>10. HomesInv'
  BY <1>1, <1>2 DEF HomesInv, PolledOnce, Distinct, Idle
<1>11. QED
  BY <1>9, <1>10

LEMMA NewTransfers ==
    ASSUME AnySession, NewSession, ~started
    PROVE  ControlInv' /\ HostInv' /\ OutInv'
<1>1. /\ toEmu' = <<>> /\ toProxy' = <<>> /\ pc' = "boot" /\ returnTo' = "input"
      /\ ctrlXfers' = <<>> /\ setup' = 0 /\ answer' = NoAnswer
      /\ outBank' = EmptyOutBanks /\ sentOut' = sentOut
  BY FirmwareFound, NewProcess
     DEF emuVars, mainVars, hostVars, NoTransfers, AnySession, BootInv
<1>2. \A e \in OutEps : outXfers'[e] = <<>> /\ outDone'[e] = <<>>
  BY FirmwareFound, NewProcess DEF NoTransfers
<1>3. ControlInv'
  <2>1. Free(ControlTypes, toEmu') /\ Free(ControlTypes, toProxy')
    BY <1>1 DEF Free
  <2>2. Single(toProxy', request') /\ Single(toEmu', request')
    BY <2>1, FreeSingle
  <2>3. OneRequest' /\ Forwarding'
    BY <1>1, <2>1, <2>2 DEF OneRequest, Forwarding, ControlSteps
  <2>4. QED
    BY <2>3 DEF ControlInv
<1>4. HostInv'
  BY <1>1 DEF HostInv, SameRequest, Matches, NoAnswer, ControlSteps
<1>5. OutInv'
  <2>1. DOMAIN toProxy' = {}
    BY <1>1
  <2>2. DeviceOrder' /\ LineOrder' /\ \A e \in OutEps, d \in Nat : Before(e, d)'
    BY <1>2, <2>1 DEF DeviceOrder, LineOrder, Before, Reached, AllBelow, Increasing
  <2>3. /\ \A n \in EmuOut : outBank'[n].data = 0 /\ sentOut'[n] \in Nat
        /\ ~Reading' /\ ~Held'
    BY <1>1 DEF AnySession, TypeInv, TypeOK, UsbTypeOK, EmptyOutBanks, NoPacket, Reading, Held
  <2>4. FirmwareOrder'
    BY <1>1, <2>3 DEF FirmwareOrder
  <2>5. BeforeAll'
    <3> SUFFICES ASSUME NEW e \in OutEps
                 PROVE  Before(e, sentOut[U2S[e]] + 1)' /\ outBank'[U2S[e]].data = 0
      BY <2>3 DEF BeforeAll
    <3>1. U2S[e] \in EmuOut
      BY DEF EmuOut
    <3>2. outBank'[U2S[e]].data = 0 /\ sentOut'[U2S[e]] + 1 \in Nat
      BY <2>3, <3>1
    <3>3. \A d : Before(e, d)'
      BY <1>2, <2>1 DEF Before, Reached, AllBelow
    <3>4. QED
      BY <1>2, <2>1, <3>2 DEF Before, Reached, AllBelow
  <2>6. QED
    BY <2>2, <2>4, <2>5 DEF OutInv
<1>6. QED
  BY <1>3, <1>4, <1>5

\* Nor a token, if its slot is empty.
LEMMA NewToken ==
    ASSUME AnySession, AnySession', NewSession, ~started, input.ep = 0
    PROVE  TokenInv'
<1>1. /\ toEmu' = <<>> /\ toProxy' = <<>> /\ pc' = "boot" /\ inPending' = 0
      /\ input' = input
  BY FirmwareFound, NewProcess DEF emuVars, mainVars
<1>2. \A type : NoneOf(type, toEmu') /\ NoneOf(type, toProxy')
  BY <1>1 DEF NoneOf
<1>3. AtMostOneIn(toEmu') /\ AtMostOneIn(toProxy')
  BY <1>1 DEF AtMostOneIn
<1>4. OneToken' /\ TokenKept'
  BY <1>1, <1>2, <1>3 DEF OneToken, TokenKept, SlotBusy
<1>5. PacketsAddressed' /\ NoReset'
  BY DEF AnySession, LineSessions, LineInv
<1>6. QED
  BY <1>4, <1>5 DEF TokenInv

LEMMA NewSessionKeeps ==
    ASSUME SessionsInv, NewSession
    PROVE  SessionsInv'
<1>1. AnySession /\ AnySession'
  BY NewAny DEF SessionsInv
<1>2. "work" \notin found' => BootSession'
  BY <1>1, NewProcess, NewCount, NewTransfers DEF BootSession
<1>3. found' = {} => TokenInv'
  BY <1>1, NewProcess, NewToken
<1>4. QED
  BY <1>1, <1>2, <1>3 DEF SessionsInv

LEMMA SessionsKeep == SessionsInv /\ [SessionsNext]_allVars => SessionsInv'
BY StepKeeps, MisreadKeeps, KillKeeps, NewSessionKeeps, StutterKeeps DEF SessionsNext

LEMMA AlwaysSessions == SessionsSpec => []SessionsInv
BY SessionsStart, SessionsKeep, PTL DEF SessionsSpec

-----------------------------------------------------------------------------
(* What holds of all sessions. *)

\* Every variable keeps its type, whatever number of processes a firmware meets
\* and whatever one of them reads from a torn stream.
THEOREM SessionsTypeCorrect == SessionsSpec => []SessionsTypeOK
<1>1. SessionsInv => SessionsTypeOK
  BY DEF SessionsInv, AnySession
<1>2. QED
  BY <1>1, AlwaysSessions, PTL

\* FreshTables: the tables that the firmware (emu.c) shows to the host are
\* complete in every session, even that of a process that meets a firmware at
\* work; and they hold nothing of an earlier session unless a process ended
\* without RESET since the last reset.
THEOREM TablesOfTheSession == SessionsSpec => []FreshTables
<1>1. SessionsInv => FreshTables
  BY StartedTables DEF FreshTables
<1>2. QED
  BY <1>1, AlwaysSessions, PTL

\* SessionsApart: a process that starts after others which ended in order finds
\* the emulated device gone, and nothing of their requests (forceHardReset in
\* emu.c, the end of proxy_start in proxy.c).
THEOREM NothingCarriedOver == SessionsSpec => []SessionsApart
<1>1. SessionsInv => SessionsApart
  BY DEF SessionsInv, AnySession, PastSessions, EndInv, Rebooted, BootInv, SessionsTypeOK,
         SessionsApart
<1>2. QED
  BY <1>1, AlwaysSessions, PTL

\* AckExpectedUnlessFound: a process that finds neither tables nor a report in
\* the firmware takes each acknowledgement for the report that it was sent for,
\* whatever number of processes have started, failed, ended or died before it.
\* Of one that finds a report, or a firmware at work, nothing is said: the
\* acknowledgement of that report reaches it.
THEOREM AckExpectedInAll == SessionsSpec => []AckExpectedUnlessFound
<1>1. SessionsInv => AckExpectedUnlessFound
  BY TokenExpected DEF SessionsInv, AckExpectedUnlessFound
<1>2. QED
  BY <1>1, AlwaysSessions, PTL

\* SlotFreeForPacket in these same sessions: no IN packet overwrites the slot of
\* a firmware (emu.c, the interrupt) that the process has found empty.
THEOREM SlotFreeInAll == SessionsSpec => [](found = {} => SlotFreeForPacket)
<1>1. SessionsInv => (found = {} => SlotFreeForPacket)
  BY TokenFree DEF SessionsInv
<1>2. QED
  BY <1>1, AlwaysSessions, PTL

\* AcksOnlyWhileBooting in the session of each process that finds a firmware
\* without tables, although packets of the tables of several processes may have
\* piled up in it: the interrupt (emu.c) acknowledges only while the main loop
\* waits in SetupHardware.  (A firmware at work acknowledges the tables of the
\* next process in the midst of what its main loop sends: see torn.)
THEOREM AcksWhileBootingInAll ==
    SessionsSpec => []("work" \notin found => AcksOnlyWhileBooting)
<1>1. SessionsInv => ("work" \notin found => AcksOnlyWhileBooting)
  BY HandshakeBoots DEF SessionsInv, AnySession, BootSession, CountInv
<1>2. QED
  BY <1>1, AlwaysSessions, PTL

\* The stream that the proxy reads is torn in no other session than that of a
\* process that finds a firmware at work (gserial_open discards what was sent
\* before, emu.c sends acknowledgements from the interrupt).
THEOREM TornAtWorkOnly == SessionsSpec => [](torn => "work" \in found)
<1>1. SessionsInv => (torn => "work" \in found)
  BY DEF SessionsInv, AnySession, TornInv
<1>2. QED
  BY <1>1, AlwaysSessions, PTL

\* OneHome in each such session: an endpoint is polled, queued or pending, never
\* twice (proxy.c, the callbacks and the acknowledgements), although the firmware
\* may acknowledge a report that this process has not sent.
THEOREM OneHomeInAll == SessionsSpec => []("work" \notin found => OneHome)
<1>1. SessionsInv => ("work" \notin found => OneHome)
  BY HomesOne DEF SessionsInv, AnySession, BootSession
<1>2. QED
  BY <1>1, AlwaysSessions, PTL

\* RoomForReport in each such session: inEpFifo (proxy.c) has room for the report
\* of a transfer under way.
THEOREM RoomInAll == SessionsSpec => []("work" \notin found => RoomForReport)
<1>1. SessionsInv => ("work" \notin found => RoomForReport)
  BY HomesRoom DEF SessionsInv, AnySession, BootSession
<1>2. QED
  BY <1>1, AlwaysSessions, PTL

\* OneControlUnderWay in each such session: at most one request or reply is under
\* way between emu.c and the callbacks of proxy.c, as long as the firmware has
\* not given up waiting.  What processes that died in their start-up, or behind
\* their RESET, have left of their requests never joins those of a later one.
THEOREM OneControlInAll == SessionsSpec => []("work" \notin found => OneControlUnderWay)
<1>1. SessionsInv => ("work" \notin found => OneControlUnderWay)
  BY ControlCounted DEF SessionsInv, AnySession, BootSession
<1>2. QED
  BY <1>1, AlwaysSessions, PTL

\* AnswersMatch in each such session: no process answers the request that another
\* one has forwarded (proxy.c, process_packet and the callbacks of control
\* transfers).
THEOREM AnswersFitInAll == SessionsSpec => []("work" \notin found => AnswersMatch)
<1>1. SessionsInv => ("work" \notin found => AnswersMatch)
  BY DEF SessionsInv, BootSession, HostInv, Matches, AnswersMatch
<1>2. QED
  BY <1>1, AlwaysSessions, PTL

\* OutputsInOrder in each such session: what the device gets from one process is
\* in the order in which the host sent it, and nothing twice.
THEOREM OutputsOrderedInAll == SessionsSpec => []("work" \notin found => OutputsInOrder)
<1>1. SessionsInv => ("work" \notin found => OutputsInOrder)
  BY DEF SessionsInv, BootSession, OutInv, DeviceOrder, Increasing, OutputsInOrder
<1>2. QED
  BY <1>1, AlwaysSessions, PTL
=============================================================================
