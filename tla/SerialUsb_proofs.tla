-------------------------- MODULE SerialUsb_proofs --------------------------
(***************************************************************************)
(* Theorems about SerialUsb, for every value of the constants that the     *)
(* named assumptions allow.  First the types; then the reports between the *)
(* proxy and the firmware, for any number of endpoints, reports, resets    *)
(* and failures: the slot of the firmware is free when an IN packet        *)
(* arrives, and acknowledgements are expected.                             *)
(*                                                                         *)
(* The argument for these is a token: inPending # 0 is the proxy's half of *)
(* it, and the other half is an IN packet on the line to the firmware, a   *)
(* report in the firmware's slot, or an IN acknowledgement on the line     *)
(* back.                                                                   *)
(***************************************************************************)
EXTENDS SerialUsb, SequenceTheorems, FiniteSetTheorems, TLAPS

-----------------------------------------------------------------------------
(* Packets. *)

LEMMA PktType ==
    ASSUME NEW type \in PacketTypes, NEW ep \in Nat, NEW data \in Nat
    PROVE  Pkt(type, ep, data) \in Packet
BY DEF Pkt, Packet

LEMMA AckType ==
    ASSUME NEW type \in PacketTypes
    PROVE  Ack(type) \in Packet
BY PktType DEF Ack

LEMMA ChunksType ==
    ASSUME NEW type \in PacketTypes, NEW n \in Nat
    PROVE  Chunks(type, n) \in Seq(Packet)
<1>1. [i \in 1..n |-> Pkt(type, 0, 0)] \in [1..n -> Packet]
  BY PktType
<1>2. QED
  BY <1>1, SeqDef DEF Chunks

-----------------------------------------------------------------------------
(* Type correctness. *)

LEMMA UsbStepTypes ==
    ASSUME UsbTypeOK, UsbNext
    PROVE  UsbTypeOK'
<1> USE DEF UsbTypeOK, busVars, hostVars, usbVars, Answer
<1>1. ASSUME NEW n \in EmuIn, HostReads(n)
      PROVE  UsbTypeOK'
  <2>1. Append(got[n], inBank[n]) \in Seq(Nat)
    BY AppendProperties
  <2>2. got' \in [EmuIn -> Seq(Nat)]
    BY <1>1, <2>1 DEF HostReads
  <2>3. inBank' \in [EmuIn -> Nat]
    BY <1>1 DEF HostReads
  <2>4. QED
    BY <1>1, <2>2, <2>3 DEF HostReads
<1>2. ASSUME NEW n \in EmuOut, HostWrites(n)
      PROVE  UsbTypeOK'
  <2>1. PICK size \in OutSizes[n] :
           outBank' = [outBank EXCEPT ![n] = [size |-> size, data |-> sentOut[n] + 1]]
    BY <1>2 DEF HostWrites
  <2>2. [size |-> size, data |-> sentOut[n] + 1] \in OutPacket
    <3>1. size \in {"full", "short", "zero"}
      BY RequestsAssumption
    <3>2. sentOut[n] + 1 \in Nat
      OBVIOUS
    <3>3. QED
      BY <3>1, <3>2 DEF OutPacket
  <2>3. outBank' \in [EmuOut -> OutPacket]
    BY <2>1, <2>2
  <2>4. sentOut' \in [EmuOut -> Nat]
    BY <1>2 DEF HostWrites
  <2>5. QED
    BY <1>2, <2>3, <2>4 DEF HostWrites
<1>3. ASSUME NEW r \in Requests, HostSetup(r)
      PROVE  UsbTypeOK'
  BY <1>3 DEF HostSetup
<1>4. CASE HostAbort
  BY <1>4 DEF HostAbort
<1>5. EmptyInBanks \in [EmuIn -> Nat] /\ EmptyOutBanks \in [EmuOut -> OutPacket]
  BY DEF EmptyInBanks, EmptyOutBanks, NoPacket, OutPacket
<1>6. CASE BusReset
  BY <1>5, <1>6 DEF BusReset, UsbStates
<1>7. CASE BusSuspend
  BY <1>7 DEF BusSuspend, UsbStates
<1>8. CASE BusWakeUp
  BY <1>8 DEF BusWakeUp, UsbStates
<1>9. QED
  BY <1>1, <1>2, <1>3, <1>4, <1>6, <1>7, <1>8 DEF UsbNext

PcTypeOK == SerialTypeOK /\ GusbTypeOK /\ ProxyTypeOK

\* What send_next_in_packet leaves behind has the right types.
LEMMA SendNextTypes ==
    ASSUME toEmu \in Seq(Packet),
           NEW pending \in InEps \union {0}, NEW fifo \in Seq(InEps),
           NEW packets \in [InEps -> Packet], NEW ok \in BOOLEAN,
           send_next_in_packet(pending, fifo, packets, ok)
    PROVE  toEmu' \in Seq(Packet) /\ inPending' \in InEps \union {0} /\ inEpFifo' \in Seq(InEps)
<1>1. CASE CanSend(pending, fifo) /\ ok
  <2>1. Head(fifo) \in InEps /\ Tail(fifo) \in Seq(InEps)
    BY <1>1, HeadTailProperties DEF CanSend
  <2>2. Append(toEmu, packets[Head(fifo)]) \in Seq(Packet)
    BY <2>1, AppendProperties
  <2>3. QED
    BY <1>1, <2>1, <2>2 DEF send_next_in_packet, adapter_send
<1>2. CASE ~(CanSend(pending, fifo) /\ ok)
  BY <1>2 DEF send_next_in_packet
<1>3. QED
  BY <1>1, <1>2

LEMMA ChunksSentTypes ==
    ASSUME toEmu \in Seq(Packet),
           NEW type \in PacketTypes, NEW n \in Nat, NEW ok \in BOOLEAN,
           adapter_send_chunks(Chunks(type, n), ok)
    PROVE  toEmu' \in Seq(Packet)
<1>1. Chunks(type, n) \in Seq(Packet)
  BY ChunksType
<1>2. ASSUME NEW k \in 0..Len(Chunks(type, n)) - 1
      PROVE  SubSeq(Chunks(type, n), 1, k) \in Seq(Packet)
  <2>1. \A i \in 1..k : Chunks(type, n)[i] \in Packet
    BY <1>1, LenProperties, ElementOfSeq
  <2>2. k \in Int
    BY <1>1, LenProperties
  <2>3. QED
    BY <2>1, <2>2, SubSeqProperties
<1>3. QED
  BY <1>1, <1>2, ConcatProperties DEF adapter_send_chunks

LEMMA PacketSentTypes ==
    ASSUME toEmu \in Seq(Packet), NEW p \in Packet, NEW ok \in BOOLEAN, adapter_send(p, ok)
    PROVE  toEmu' \in Seq(Packet)
BY AppendProperties DEF adapter_send

LEMMA ReceiveTypes ==
    ASSUME toProxy \in Seq(Packet), NEW type, Receive(type)
    PROVE  Head(toProxy) \in Packet /\ toProxy' \in Seq(Packet)
BY HeadTailProperties DEF Receive

LEMMA ReturnTypes ==
    ASSUME ProxyTypeOK, NEW failed \in BOOLEAN, Return(failed)
    PROVE  done' \in BOOLEAN /\ phase' \in Phases /\ exitCode' = exitCode
BY DEF ProxyTypeOK, Return, Phases

LEMMA ProcessPacketTypes ==
    ASSUME PcTypeOK, ProcessPacket
    PROVE  PcTypeOK'
<1> USE DEF PcTypeOK, SerialTypeOK, GusbTypeOK, ProxyTypeOK,
            gusbVars, startupVars, inVars
<1>0. SendResults \subseteq BOOLEAN /\ SubmitResults \subseteq BOOLEAN
  BY DEF SendResults, SubmitResults, Results
<1>1. CASE ProcessDescriptors
  <2>1. PICK ok \in SendResults :
           IF descIndexSent
           THEN UNCHANGED toEmu /\ Return(FALSE)
           ELSE adapter_send_chunks(Chunks("INDEX", NIndex), ok) /\ Return(~ok)
    BY <1>1 DEF ProcessDescriptors
  <2>2. toEmu' \in Seq(Packet)
    BY <2>1, <1>0, ChunksSentTypes, ProxyAssumption DEF PacketTypes
  <2>3. done' \in BOOLEAN /\ phase' \in Phases /\ exitCode' = exitCode
    BY <2>1, <1>0, ReturnTypes
  <2>4. QED
    BY <1>1, <2>2, <2>3, ReceiveTypes DEF ProcessDescriptors
<1>2. CASE ProcessIndex
  <2>1. PICK ok \in SendResults :
           IF endpointsSent
           THEN UNCHANGED toEmu /\ Return(FALSE)
           ELSE adapter_send(Ack("ENDPOINTS"), ok) /\ Return(~ok)
    BY <1>2 DEF ProcessIndex
  <2>2. toEmu' \in Seq(Packet)
    BY <2>1, <1>0, PacketSentTypes, AckType DEF PacketTypes
  <2>3. done' \in BOOLEAN /\ phase' \in Phases /\ exitCode' = exitCode
    BY <2>1, <1>0, ReturnTypes
  <2>4. QED
    BY <1>2, <2>2, <2>3, ReceiveTypes DEF ProcessIndex
<1>3. CASE ProcessEndpoints
  <2>1. PICK bad \in {0} \union (IF "submit" \in Faults THEN InEps ELSE {}) :
          /\ polls' = [e \in InEps |-> IF bad = 0 \/ U2S[e] < U2S[bad]
                                       THEN polls[e] + 1 ELSE polls[e]]
          /\ Return(bad # 0)
    BY <1>3 DEF ProcessEndpoints
  <2>2. polls' \in [InEps -> Nat]
    BY <2>1
  <2>3. done' \in BOOLEAN /\ phase' \in Phases /\ exitCode' = exitCode
    BY <2>1, ReturnTypes
  <2>4. QED
    BY <1>3, <2>2, <2>3, ReceiveTypes DEF ProcessEndpoints
<1>4. CASE ProcessIn
  <2>1. CASE inPending = 0
    BY <1>4, <2>1, ReceiveTypes, ReturnTypes DEF ProcessIn
  <2>2. CASE inPending # 0
    <3>1. PICK polled \in SubmitResults, sent \in SendResults :
             /\ gusb_poll(inPending, polled)
             /\ IF polled
                THEN send_next_in_packet(0, inEpFifo, inPackets, sent)
                ELSE inPending' = 0 /\ UNCHANGED <<toEmu, inEpFifo>>
             /\ Return(~polled \/ (CanSend(0, inEpFifo) /\ ~sent))
      BY <1>4, <2>2 DEF ProcessIn
    <3>2. polls' \in [InEps -> Nat]
      BY <3>1, <2>2 DEF gusb_poll
    <3>3. /\ toEmu' \in Seq(Packet)
          /\ inPending' \in InEps \union {0}
          /\ inEpFifo' \in Seq(InEps)
      <4>1. CASE polled
        <5>1. send_next_in_packet(0, inEpFifo, inPackets, sent)
          BY <3>1, <4>1, Zenon
        <5>2. sent \in BOOLEAN /\ 0 \in InEps \union {0}
          BY <1>0
        <5>3. QED
          BY <5>1, <5>2, SendNextTypes DEF send_next_in_packet, adapter_send
      <4>2. CASE ~polled
        BY <3>1, <4>2
      <4>3. QED
        BY <4>1, <4>2
    <3>4. done' \in BOOLEAN /\ phase' \in Phases /\ exitCode' = exitCode
      BY <3>1, <1>0, ReturnTypes DEF CanSend
    <3>5. QED
      BY <1>4, <3>2, <3>3, <3>4, ReceiveTypes DEF ProcessIn
  <2>3. QED
    BY <2>1, <2>2
<1>5. CASE ProcessOut
  <2>1. Head(toProxy).data \in Nat
    BY <1>5, ReceiveTypes DEF ProcessOut, Packet
  <2>2. PICK ok \in SubmitResults :
          /\ gusb_write_out(S2U[Head(toProxy).ep], Head(toProxy).data, ok)
          /\ Return(~ok)
    BY <1>5 DEF ProcessOut
  <2>3. \A e \in OutEps : Append(outXfers[e], Head(toProxy).data) \in Seq(Nat)
    BY <2>1, AppendProperties
  <2>4. outXfers' \in [OutEps -> Seq(Nat)]
    BY <2>2, <2>3 DEF gusb_write_out
  <2>5. done' \in BOOLEAN /\ phase' \in Phases /\ exitCode' = exitCode
    BY <2>2, <1>0, ReturnTypes
  <2>6. QED
    BY <1>5, <2>4, <2>5, ReceiveTypes DEF ProcessOut
<1>6. CASE ProcessControl
  <2>1. Head(toProxy).data \in Nat
    BY <1>6, ReceiveTypes DEF ProcessControl, Packet
  <2>2. PICK ok \in BOOLEAN :
          /\ \/ UNCHANGED ctrlXfers /\ adapter_send(Pkt("CONTROL_STALL", 0, Head(toProxy).data), ok)
             \/ UNCHANGED toEmu /\ gusb_write_control(Head(toProxy).data, ok)
          /\ Return(~ok)
    BY <1>6, <1>0 DEF ProcessControl
  <2>3. toEmu' \in Seq(Packet)
    BY <2>1, <2>2, PktType, PacketSentTypes DEF PacketTypes
  <2>4. ctrlXfers' \in Seq(Nat)
    <3>1. ctrlXfers' = ctrlXfers \/ ctrlXfers' = Append(ctrlXfers, Head(toProxy).data)
      BY <2>2 DEF gusb_write_control, adapter_send
    <3>2. Append(ctrlXfers, Head(toProxy).data) \in Seq(Nat)
      BY <2>1, AppendProperties
    <3>3. QED
      BY <3>1, <3>2
  <2>5. done' \in BOOLEAN /\ phase' \in Phases /\ exitCode' = exitCode
    BY <2>2, ReturnTypes
  <2>6. QED
    BY <1>6, <2>3, <2>4, <2>5, ReceiveTypes DEF ProcessControl
<1>7. CASE ProcessDebug \/ ProcessReset
  BY <1>7, ReceiveTypes, ReturnTypes DEF ProcessDebug, ProcessReset
<1>8. QED
  BY <1>1, <1>2, <1>3, <1>4, <1>5, <1>6, <1>7 DEF ProcessPacket

LEMMA RemoveTypes ==
    ASSUME GusbTypeOK
    PROVE  /\ \A e \in InEps : RemovePoll(e) => polls' \in [InEps -> Nat]
           /\ RemoveControl => Head(ctrlXfers) \in Nat /\ ctrlXfers' \in Seq(Nat)
           /\ \A e \in OutEps :
                 RemoveOut(e) => Head(outXfers[e]) \in Nat /\ outXfers' \in [OutEps -> Seq(Nat)]
<1> USE DEF GusbTypeOK
<1>1. ASSUME NEW e \in InEps, RemovePoll(e)
      PROVE  polls' \in [InEps -> Nat]
  BY <1>1 DEF RemovePoll
<1>2. ASSUME RemoveControl
      PROVE  Head(ctrlXfers) \in Nat /\ ctrlXfers' \in Seq(Nat)
  BY <1>2, HeadTailProperties DEF RemoveControl
<1>3. ASSUME NEW e \in OutEps, RemoveOut(e)
      PROVE  Head(outXfers[e]) \in Nat /\ outXfers' \in [OutEps -> Seq(Nat)]
  <2>1. Head(outXfers[e]) \in Nat /\ Tail(outXfers[e]) \in Seq(Nat)
    BY <1>3, HeadTailProperties DEF RemoveOut
  <2>2. QED
    BY <1>3, <2>1 DEF RemoveOut
<1>4. QED
  BY <1>1, <1>2, <1>3

LEMMA UsbCallbackTypes ==
    ASSUME PcTypeOK, UsbCallback
    PROVE  PcTypeOK'
<1> USE DEF PcTypeOK, SerialTypeOK, GusbTypeOK, ProxyTypeOK,
            gusbVars, startupVars, inVars, proxyVars
<1>0. SendResults \subseteq BOOLEAN
  BY DEF SendResults, Results
<1>1. ASSUME NEW e \in InEps, ReadDone(e)
      PROVE  PcTypeOK'
  <2>1. polls' \in [InEps -> Nat]
    BY <1>1, RemoveTypes DEF ReadDone
  <2>2. reports' \in [InEps -> Nat]
    BY <1>1 DEF ReadDone
  <2>3. CASE Len(inEpFifo) = MaxEndpoints
    BY <1>1, <2>1, <2>2, <2>3 DEF ReadDone
  <2>4. CASE Len(inEpFifo) # MaxEndpoints
    <3> DEFINE packets == [inPackets EXCEPT ![e] = Pkt("IN", U2S[e], reports[e] + 1)]
               fifo == Append(inEpFifo, e)
    <3>1. PICK ok \in SendResults :
             /\ inPackets' = packets
             /\ send_next_in_packet(inPending, fifo, packets, ok)
             /\ done' = (done \/ (CanSend(inPending, fifo) /\ ~ok))
      BY <1>1, <2>4 DEF ReadDone
    <3>2. Pkt("IN", U2S[e], reports[e] + 1) \in Packet
      BY PktType, RenumberingAssumption DEF RenumberingOK, PacketTypes, UsbEps
    <3>3. packets \in [InEps -> Packet]
      BY <3>2
    <3>4. fifo \in Seq(InEps)
      BY AppendProperties
    <3> HIDE DEF packets, fifo
    <3>5. toEmu' \in Seq(Packet) /\ inPending' \in InEps \union {0} /\ inEpFifo' \in Seq(InEps)
      <4>1. ok \in BOOLEAN
        BY <1>0
      <4>2. QED
        BY <3>1, <3>3, <3>4, <4>1, SendNextTypes DEF send_next_in_packet, adapter_send
    <3>6. inPackets' \in [InEps -> Packet] /\ done' \in BOOLEAN
      BY <3>1, <3>3
    <3>7. QED
      BY <1>1, <2>1, <2>2, <3>5, <3>6 DEF ReadDone
  <2>5. QED
    BY <2>3, <2>4
<1>2. ASSUME NEW e \in InEps, ReadFailed(e)
      PROVE  PcTypeOK'
  BY <1>2, RemoveTypes DEF ReadFailed
<1>3. CASE ControlReadDone
  <2>1. Head(ctrlXfers) \in Nat /\ ctrlXfers' \in Seq(Nat)
    BY <1>3, RemoveTypes DEF ControlReadDone
  <2>2. /\ Append(toEmu, Pkt("CONTROL", 0, Head(ctrlXfers))) \in Seq(Packet)
        /\ Append(toEmu, Pkt("CONTROL_STALL", 0, Head(ctrlXfers))) \in Seq(Packet)
    BY <2>1, PktType, AppendProperties DEF PacketTypes
  <2>3. toEmu' \in Seq(Packet)
    BY <1>3, <2>2 DEF ControlReadDone
  <2>4. QED
    BY <1>3, <2>1, <2>3 DEF ControlReadDone
<1>4. CASE ControlWriteDone
  <2>1. Head(ctrlXfers) \in Nat /\ ctrlXfers' \in Seq(Nat)
    BY <1>4, RemoveTypes DEF ControlWriteDone
  <2>2. /\ Append(toEmu, Pkt("CONTROL", 0, Head(ctrlXfers))) \in Seq(Packet)
        /\ Append(toEmu, Pkt("CONTROL_STALL", 0, Head(ctrlXfers))) \in Seq(Packet)
    BY <2>1, PktType, AppendProperties DEF PacketTypes
  <2>3. toEmu' \in Seq(Packet)
    BY <1>4, <2>2 DEF ControlWriteDone, adapter_send
  <2>4. done' \in BOOLEAN
    BY <1>4, <1>0 DEF ControlWriteDone
  <2>5. QED
    BY <1>4, <2>1, <2>3, <2>4 DEF ControlWriteDone
<1>5. ASSUME NEW e \in OutEps, WriteDone(e)
      PROVE  PcTypeOK'
  <2>1. Head(outXfers[e]) \in Nat /\ outXfers' \in [OutEps -> Seq(Nat)]
    BY <1>5, RemoveTypes DEF WriteDone
  <2>2. \A d \in Nat : Append(outDone[e], d) \in Seq(Nat)
    BY AppendProperties
  <2>3. outDone' \in [OutEps -> Seq(Nat)]
    <3>1. PICK outcome \in WriteOutcomes :
             outDone' = [outDone EXCEPT ![e] =
                            Append(@, IF outcome = "done" THEN Head(outXfers[e]) ELSE 0)]
      BY <1>5 DEF WriteDone
    <3>2. (IF outcome = "done" THEN Head(outXfers[e]) ELSE 0) \in Nat
      BY <2>1
    <3>3. QED
      BY <2>2, <3>1, <3>2
  <2>4. QED
    BY <1>5, <2>1, <2>3 DEF WriteDone
<1>6. QED
  BY <1>1, <1>2, <1>3, <1>4, <1>5 DEF UsbCallback

LEMMA ProxyStepTypes ==
    ASSUME PcTypeOK, ProxyNext
    PROVE  PcTypeOK'
<1> USE DEF PcTypeOK, SerialTypeOK, GusbTypeOK, ProxyTypeOK, Phases,
            serialVars, gusbVars, startupVars, inVars, proxyVars
<1>1. CASE ProxyStart
  <2>1. toEmu' \in Seq(Packet)
    BY <1>1, ChunksSentTypes, ProxyAssumption DEF ProxyStart, PacketTypes
  <2>2. QED
    BY <1>1, <2>1 DEF ProxyStart
<1>2. CASE ProxyStartFails
  <2>1. PICK ok \in BOOLEAN :
           /\ adapter_send_chunks(Chunks("DESCRIPTORS", NDescriptors), ok)
           /\ initTimer' \in {FALSE, ok}
    BY <1>2 DEF ProxyStartFails
  <2>2. toEmu' \in Seq(Packet)
    BY <2>1, ChunksSentTypes, ProxyAssumption DEF PacketTypes
  <2>3. QED
    BY <1>2, <2>1, <2>2 DEF ProxyStartFails
<1>3. CASE ProcessPacket
  BY <1>3, ProcessPacketTypes
<1>4. CASE UsbCallback
  BY <1>4, UsbCallbackTypes
<1>5. CASE ProxyStop \/ InitTimeout \/ Closed \/ TimerTick \/ ProxyExit
  BY <1>5 DEF ProxyStop, InitTimeout, Closed, TimerTick, ProxyExit
<1>6. CASE SendReset
  <2>1. toEmu' \in Seq(Packet)
    <3>1. SendResults \subseteq BOOLEAN
      BY DEF SendResults, Results
    <3>2. QED
      BY <1>6, <3>1, AckType, PacketSentTypes DEF SendReset, PacketTypes
  <2>2. QED
    BY <1>6, <2>1 DEF SendReset
<1>7. CASE Cancelled
  BY <1>7, RemoveTypes DEF Cancelled
<1>8. QED
  BY <1>1, <1>2, <1>3, <1>4, <1>5, <1>6, <1>7 DEF ProxyNext, ProxyLeave

\* OutputPoll reads the entry of outEndpoints that selectedOut designates.
SelectedInRange == selectedOut = 0 \/ selectedOut < Len(outEndpoints)

FwTypeOK == SerialTypeOK /\ UsbTypeOK /\ EmuTypeOK /\ SelectedInRange

LEMMA InterruptTypes ==
    ASSUME SerialTypeOK, NEW type, Interrupt(type)
    PROVE  Head(toEmu) \in Packet /\ toEmu' \in Seq(Packet)
BY HeadTailProperties DEF SerialTypeOK, Interrupt

LEMMA EmuInterruptTypes ==
    ASSUME FwTypeOK, EmuInterrupt
    PROVE  FwTypeOK'
<1> USE DEF FwTypeOK, SerialTypeOK, UsbTypeOK, EmuTypeOK, SelectedInRange,
            isrVars, ctlVars, outVars, mainVars, usbVars, busVars, hostVars
<1>1. \A type \in PacketTypes : Append(toProxy, Ack(type)) \in Seq(Packet)
  BY AckType, AppendProperties
<1>2. CASE RxDescriptors
  BY <1>1, <1>2, InterruptTypes DEF RxDescriptors, PacketTypes
<1>3. CASE RxIndex
  BY <1>1, <1>3, InterruptTypes DEF RxIndex, PacketTypes
<1>4. CASE RxEndpoints
  BY <1>1, <1>4, InterruptTypes DEF RxEndpoints, PacketTypes
<1>5. CASE RxReset
  BY <1>5, InterruptTypes DEF RxReset, Steps
<1>6. CASE RxControl
  BY <1>6, InterruptTypes DEF RxControl, Packet
<1>7. CASE RxControlStall
  BY <1>7, InterruptTypes DEF RxControlStall, Packet
<1>8. CASE RxIn
  BY <1>8, InterruptTypes DEF RxIn, Packet, Slot
<1>9. QED
  BY <1>2, <1>3, <1>4, <1>5, <1>6, <1>7, <1>8 DEF EmuInterrupt

LEMMA RebootTypes ==
    ASSUME FwTypeOK, Reboot
    PROVE  FwTypeOK'
<1> USE DEF FwTypeOK, SerialTypeOK, UsbTypeOK, EmuTypeOK, SelectedInRange, hostVars
<1>1. toEmu' \in Seq(Packet)
  <2>1. PICK k \in 0..Len(toEmu) : toEmu' = SubSeq(toEmu, k + 1, Len(toEmu))
    BY DEF Reboot
  <2>2. \A i \in k + 1..Len(toEmu) : toEmu[i] \in Packet
    BY ElementOfSeq, LenProperties
  <2>3. k + 1 \in Int /\ Len(toEmu) \in Int
    BY LenProperties
  <2>4. QED
    BY <2>1, <2>2, <2>3, SubSeqProperties
<1>2. EmptyInBanks \in [EmuIn -> Nat] /\ EmptyOutBanks \in [EmuOut -> OutPacket]
  BY DEF EmptyInBanks, EmptyOutBanks, NoPacket, OutPacket
<1>3. EmptySlot \in Slot
  BY DEF EmptySlot, Slot
<1>4. outEndpoints' \in Seq(EmuOut) /\ SelectedInRange'
  BY EmptySeq DEF Reboot
<1>5. QED
  BY <1>1, <1>2, <1>3, <1>4 DEF Reboot, Steps, UsbStates

LEMMA ReportAndPacketTypes ==
    ASSUME FwTypeOK, Boot \/ TaskSkipped \/ SendNextInput \/ ReceiveNextOutput
    PROVE  FwTypeOK'
<1> USE DEF FwTypeOK, SerialTypeOK, UsbTypeOK, EmuTypeOK, SelectedInRange,
            serialVars, isrVars, ctlVars, outVars, mainVars, usbVars, busVars, hostVars,
            Goto, MainUnchanged
<1>1. CASE Boot
  BY <1>1 DEF Boot, Steps, UsbStates
<1>2. CASE TaskSkipped \/ InputNothing \/ InputFound
  <2>1. pc' \in Steps
    BY <1>2 DEF TaskSkipped, InputNothing, InputFound, Steps
  <2>2. UNCHANGED <<serialVars, usbVars, isrVars, input, ctlVars, outVars, returnTo, request, timeouts>>
    BY <1>2 DEF TaskSkipped, InputNothing, InputFound
  <2>3. QED
    BY <2>1, <2>2
<1>3. CASE InputWrite
  <2>1. inBank' \in [EmuIn -> Nat]
    BY <1>3 DEF InputWrite, Slot
  <2>2. QED
    BY <1>3, <2>1 DEF InputWrite, Steps
<1>4. CASE InputRelease
  BY <1>4 DEF InputRelease, Steps, Slot
<1>5. CASE InputAck
  BY <1>5, AckType, AppendProperties DEF InputAck, PacketTypes, Steps
<1>6. CASE OutputNothing
  BY <1>6 DEF OutputNothing, Steps
<1>7. CASE OutputPoll
  <2> DEFINE n == outEndpoints[selectedOut + 1]
  <2>1. Len(outEndpoints) \in Nat \ {0} /\ selectedOut < Len(outEndpoints)
    BY <1>7, EmptySeq DEF OutputPoll
  <2>2. n \in EmuOut
    BY <2>1, ElementOfSeq
  <2>3. outBank[n] \in OutPacket /\ NoPacket \in OutPacket
    BY <2>2 DEF NoPacket, OutPacket
  <2>4. EmuOut \subseteq Nat
    BY RenumberingAssumption DEF RenumberingOK, EmuOut, UsbEps
  <2> HIDE DEF n
  <2>5. outPkt' \in Slot
    BY <1>7, <2>2, <2>3, <2>4 DEF OutputPoll, OutPacket, Slot, n
  <2>6. outBank' \in [EmuOut -> OutPacket]
    BY <1>7, <2>3 DEF OutputPoll, n
  <2>7. selectedOut' \in Nat /\ (selectedOut' = 0 \/ selectedOut' < Len(outEndpoints))
    BY <1>7, <2>1 DEF OutputPoll
  <2>8. pc' \in Steps /\ returnTo' \in {"input", "out_clear"}
    BY <1>7 DEF OutputPoll, Steps
  <2>9. QED
    BY <1>7, <2>5, <2>6, <2>7, <2>8 DEF OutputPoll
<1>8. CASE OutputClear
  BY <1>8 DEF OutputClear, NoPacket, OutPacket, Steps
<1>9. CASE OutputSend
  <2>1. Pkt("OUT", outPkt.ep, outPkt.data) \in Packet
    BY PktType DEF PacketTypes, Slot
  <2>2. toProxy' \in Seq(Packet)
    BY <1>9, <2>1, AppendProperties DEF OutputSend
  <2>3. QED
    BY <1>9, <2>2 DEF OutputSend, Steps
<1>10. QED
  BY <1>1, <1>2, <1>3, <1>4, <1>5, <1>6, <1>7, <1>8, <1>9
     DEF SendNextInput, ReceiveNextOutput

\* The steps of USB_USBTask and of the control request handler change these
\* variables only, and they give them values of the right types.
LEMMA TaskReturnsTypes ==
    ASSUME EmuTypeOK, TaskReturns
    PROVE  pc' \in Steps /\ returnTo' \in {"input", "out_clear"}
BY DEF EmuTypeOK, TaskReturns, Steps

LEMMA AnsweredTypes ==
    ASSUME UsbTypeOK, NEW status \in {"none", "data", "ok", "stall"},
           NEW part1 \in Nat, NEW part2 \in Nat, NEW from \in Nat,
           Answered(status, part1, part2, from)
    PROVE  hostReq' \in Requests \union {0} /\ answer' \in Answer
<1>1. hostReq \in Nat
  BY RequestsAssumption DEF UsbTypeOK
<1>2. [req |-> hostReq, status |-> status, part1 |-> part1, part2 |-> part2, from |-> from] \in Answer
  BY <1>1 DEF Answer
<1>3. QED
  BY <1>2 DEF UsbTypeOK, Answered

LEMMA USBTaskTypes ==
    ASSUME FwTypeOK, USBTask
    PROVE  FwTypeOK'
<1> USE DEF FwTypeOK, SerialTypeOK, UsbTypeOK, EmuTypeOK, SelectedInRange,
            serialVars, isrVars, ctlVars, outVars, mainVars, usbVars, busVars, hostVars
<1>1. setup \in Nat
  BY RequestsAssumption
<1>2. CASE UsbTaskNothing
  BY <1>2, TaskReturnsTypes DEF UsbTaskNothing
<1>3. CASE SetConfiguration
  <2>1. EmptyInBanks \in [EmuIn -> Nat] /\ EmptyOutBanks \in [EmuOut -> OutPacket]
    BY DEF EmptyInBanks, EmptyOutBanks, NoPacket, OutPacket
  <2>2. /\ outEndpoints' \in Seq(EmuOut)
        /\ Len(outEndpoints') = Len(outEndpoints) + Len(OutTable)
        /\ Len(OutTable) \in Nat
    BY <1>3, ConcatProperties, LenProperties, OutTableAssumption DEF OutTableOK, SetConfiguration
  <2>3. SelectedInRange'
    BY <1>3, <2>2, LenProperties DEF SetConfiguration
  <2>4. hostReq' \in Requests \union {0} /\ answer' \in Answer
    BY <1>3, AnsweredTypes DEF SetConfiguration
  <2>5. pc' \in Steps /\ returnTo' \in {"input", "out_clear"}
    BY <1>3, TaskReturnsTypes DEF SetConfiguration
  <2>6. usbState' \in UsbStates /\ setup' \in Requests \union {0}
    BY <1>3 DEF SetConfiguration, UsbStates
  <2>7. QED
    BY <1>1, <1>3, <2>1, <2>2, <2>3, <2>4, <2>5, <2>6 DEF SetConfiguration
<1>4. CASE RequestTooBig
  <2>1. Pkt("DEBUG", 0, setup) \in Packet
    BY <1>1, PktType DEF PacketTypes
  <2>2. toProxy' \in Seq(Packet)
    BY <1>4, <2>1, AppendProperties DEF RequestTooBig
  <2>3. hostReq' \in Requests \union {0} /\ answer' \in Answer
    BY <1>4, AnsweredTypes DEF RequestTooBig
  <2>4. pc' \in Steps /\ returnTo' \in {"input", "out_clear"}
    BY <1>4, TaskReturnsTypes DEF RequestTooBig
  <2>5. QED
    BY <1>1, <1>4, <2>2, <2>3, <2>4 DEF RequestTooBig
<1>5. CASE RequestForwarded
  BY <1>1, <1>5 DEF RequestForwarded, Goto, Steps
<1>6. CASE ClearSetFeature
  <2>1. PICK n \in EmuIn \union EmuOut : SetHalt(n) \/ ClearHalt(n)
    BY <1>6 DEF ClearSetFeature
  <2>2. hostReq' \in Requests \union {0} /\ answer' \in Answer
    BY <2>1, AnsweredTypes DEF SetHalt, ClearHalt
  <2>3. pc' \in Steps /\ returnTo' \in {"input", "out_clear"}
    BY <2>1, TaskReturnsTypes DEF SetHalt, ClearHalt
  <2>4. inBank' \in [EmuIn -> Nat]
    <3>1. CASE SetHalt(n)
      BY <3>1 DEF SetHalt
    <3>2. CASE ClearHalt(n)
      <4>1. inBank' = [m \in EmuIn |-> IF m = n THEN 0 ELSE inBank[m]]
        BY <3>2 DEF ClearHalt
      <4>2. \A m \in EmuIn : inBank[m] \in Nat
        OBVIOUS
      <4>3. QED
        BY <4>1, <4>2
    <3>3. QED
      BY <2>1, <3>1, <3>2
  <2>5. outBank' \in [EmuOut -> OutPacket]
    <3>1. NoPacket \in OutPacket
      BY DEF NoPacket, OutPacket
    <3>2. QED
      BY <2>1, <3>1 DEF SetHalt, ClearHalt
  <2>6. halted' \subseteq EmuIn \union EmuOut
    BY <2>1 DEF SetHalt, ClearHalt
  <2>7. QED
    BY <1>1, <2>1, <2>2, <2>3, <2>4, <2>5, <2>6 DEF SetHalt, ClearHalt
<1>7. CASE RequestStatus
  <2>1. hostReq' \in Requests \union {0} /\ answer' \in Answer
    BY <1>7, AnsweredTypes DEF RequestStatus
  <2>2. pc' \in Steps /\ returnTo' \in {"input", "out_clear"}
    BY <1>7, TaskReturnsTypes DEF RequestStatus, Steps
  <2>3. QED
    BY <1>1, <1>7, <2>1, <2>2 DEF RequestStatus
<1>8. QED
  BY <1>2, <1>3, <1>4, <1>5, <1>6, <1>7 DEF USBTask

LEMMA ControlRequestTypes ==
    ASSUME FwTypeOK, UnhandledControlRequest
    PROVE  FwTypeOK'
<1> USE DEF FwTypeOK, SerialTypeOK, UsbTypeOK, EmuTypeOK, SelectedInRange,
            serialVars, isrVars, ctlVars, outVars, mainVars, usbVars, busVars, hostVars,
            Goto, MainUnchanged
<1>1. CASE ControlClearReply
  BY <1>1 DEF ControlClearReply, Steps
<1>2. CASE ControlClearStall
  BY <1>2 DEF ControlClearStall, Steps
<1>3. Append(toProxy, Pkt("CONTROL", 0, request)) \in Seq(Packet)
  BY PktType, AppendProperties DEF PacketTypes
<1>4. CASE ControlSendIn
  BY <1>3, <1>4 DEF ControlSendIn, SendControl, Steps
<1>5. CASE ControlSendOut
  BY <1>3, <1>5 DEF ControlSendOut, SendControl, Steps
<1>6. CASE ControlReadSetup
  BY <1>6 DEF ControlReadSetup, Steps
<1>7. CASE ControlReadAborted
  <2>1. hostReq' \in Requests \union {0} /\ answer' \in Answer
    BY <1>7, AnsweredTypes DEF ControlReadAborted
  <2>2. QED
    BY <1>7, <2>1, TaskReturnsTypes DEF ControlReadAborted
<1>8. CASE ControlWait
  BY <1>8 DEF ControlWait, Steps
<1>9. CASE ControlReplied
  BY <1>9 DEF ControlReplied, Steps
<1>10. CASE ControlTimeout
  <2>1. hostReq' \in Requests \union {0} /\ answer' \in Answer
    BY <1>10, AnsweredTypes DEF ControlTimeout
  <2>2. pc' \in Steps /\ returnTo' \in {"input", "out_clear"}
    BY <1>10, TaskReturnsTypes DEF ControlTimeout, Steps
  <2>3. QED
    BY <1>10, <2>1, <2>2 DEF ControlTimeout
<1>11. CASE ControlStalled
  <2>1. hostReq' \in Requests \union {0} /\ answer' \in Answer
    BY <1>11, AnsweredTypes DEF ControlStalled
  <2>2. QED
    BY <1>11, <2>1, TaskReturnsTypes DEF ControlStalled
<1>12. CASE ControlAccepted
  <2>1. hostReq' \in Requests \union {0} /\ answer' \in Answer
    BY <1>12, AnsweredTypes DEF ControlAccepted
  <2>2. QED
    BY <1>12, <2>1, TaskReturnsTypes DEF ControlAccepted
<1>13. CASE ControlReturnData
  BY <1>13 DEF ControlReturnData, Steps
<1>14. CASE ControlWriteFirst
  <2>1. hostReq \in Nat
    BY RequestsAssumption
  <2>2. answer' \in Answer
    BY <1>14, <2>1 DEF ControlWriteFirst, Answer
  <2>3. QED
    BY <1>14, <2>2 DEF ControlWriteFirst, Steps
<1>15. CASE ControlWriteSecond
  <2>1. /\ answer.part1 \in Nat /\ answer.from \in Nat
        /\ (IF answer.part1 = 0 THEN 0 ELSE control) \in Nat
    BY DEF Answer
  <2>2. hostReq' \in Requests \union {0} /\ answer' \in Answer
    BY <1>15, <2>1, AnsweredTypes DEF ControlWriteSecond
  <2>3. QED
    BY <1>15, <2>2, TaskReturnsTypes DEF ControlWriteSecond
<1>16. CASE ControlWriteAborted
  BY <1>16, TaskReturnsTypes DEF ControlWriteAborted
<1>17. QED
  BY <1>1, <1>2, <1>4, <1>5, <1>6, <1>7, <1>8, <1>9, <1>10, <1>11, <1>12, <1>13,
     <1>14, <1>15, <1>16 DEF UnhandledControlRequest

LEMMA EmuStepTypes ==
    ASSUME FwTypeOK, EmuNext
    PROVE  FwTypeOK'
BY EmuInterruptTypes, RebootTypes, ReportAndPacketTypes, USBTaskTypes, ControlRequestTypes
   DEF EmuNext, EmuMain

TypeInv == TypeOK /\ SelectedInRange

LEMMA InitTypes == Init => TypeInv
<1> SUFFICES ASSUME Init PROVE TypeInv
  OBVIOUS
<1> USE DEF Init
<1>1. SerialTypeOK
  BY DEF SerialInit, SerialTypeOK
<1>2. GusbTypeOK
  BY DEF GusbInit, GusbTypeOK
<1>3. ProxyTypeOK
  <2>1. \A e \in InEps : Pkt("IN", U2S[e], 0) \in Packet
    BY PktType, RenumberingAssumption DEF RenumberingOK, PacketTypes, UsbEps
  <2>2. inPackets \in [InEps -> Packet]
    BY <2>1 DEF ProxyInit
  <2>3. inEpFifo \in Seq(InEps)
    BY EmptySeq DEF ProxyInit
  <2>4. QED
    BY <2>2, <2>3 DEF ProxyInit, ProxyTypeOK, Phases
<1>4. UsbTypeOK
  <2>1. inBank \in [EmuIn -> Nat] /\ outBank \in [EmuOut -> OutPacket]
    BY DEF UsbInit, EmptyInBanks, EmptyOutBanks, NoPacket, OutPacket
  <2>2. got \in [EmuIn -> Seq(Nat)] /\ sentOut \in [EmuOut -> Nat]
    BY EmptySeq DEF UsbInit
  <2>3. answer \in Answer
    BY DEF UsbInit, NoAnswer, Answer
  <2>4. QED
    BY <2>1, <2>2, <2>3 DEF UsbInit, UsbTypeOK, UsbStates
<1>5. EmuTypeOK /\ SelectedInRange
  <2>1. input \in Slot /\ outPkt \in Slot
    BY DEF EmuInit, EmptySlot, Slot
  <2>2. outEndpoints \in Seq(EmuOut)
    BY EmptySeq DEF EmuInit
  <2>3. QED
    BY <2>1, <2>2 DEF EmuInit, EmuTypeOK, SelectedInRange, Steps
<1>6. QED
  BY <1>1, <1>2, <1>3, <1>4, <1>5 DEF TypeInv, TypeOK

\* A part whose variables do not change keeps its types.
LEMMA FrameTypes ==
    /\ SerialTypeOK /\ UNCHANGED serialVars => SerialTypeOK'
    /\ GusbTypeOK /\ UNCHANGED gusbVars => GusbTypeOK'
    /\ ProxyTypeOK /\ UNCHANGED proxyVars => ProxyTypeOK'
    /\ UsbTypeOK /\ UNCHANGED usbVars => UsbTypeOK'
    /\ EmuTypeOK /\ UNCHANGED emuVars => EmuTypeOK'
    /\ SelectedInRange /\ UNCHANGED emuVars => SelectedInRange'
<1>1. SerialTypeOK /\ UNCHANGED serialVars => SerialTypeOK'
  BY DEF SerialTypeOK, serialVars
<1>2. GusbTypeOK /\ UNCHANGED gusbVars => GusbTypeOK'
  BY DEF GusbTypeOK, gusbVars
<1>3. ProxyTypeOK /\ UNCHANGED proxyVars => ProxyTypeOK'
  BY DEF ProxyTypeOK, proxyVars
<1>4. UsbTypeOK /\ UNCHANGED usbVars => UsbTypeOK'
  BY DEF UsbTypeOK, usbVars, busVars, hostVars
<1>5. EmuTypeOK /\ UNCHANGED emuVars => EmuTypeOK'
  BY DEF EmuTypeOK, emuVars, isrVars, ctlVars, outVars, mainVars
<1>6. SelectedInRange /\ UNCHANGED emuVars => SelectedInRange'
  BY DEF SelectedInRange, emuVars, outVars
<1>7. QED
  BY <1>1, <1>2, <1>3, <1>4, <1>5, <1>6

LEMMA StepTypes == TypeInv /\ [Next]_vars => TypeInv'
<1> SUFFICES ASSUME TypeInv, [Next]_vars PROVE TypeInv'
  OBVIOUS
<1> USE DEF TypeInv, TypeOK
<1>1. CASE ProxyStep
  BY <1>1, ProxyStepTypes, FrameTypes DEF ProxyStep, PcTypeOK
<1>2. CASE EmuStep
  BY <1>2, EmuStepTypes, FrameTypes DEF EmuStep, FwTypeOK
<1>3. CASE HostStep
  BY <1>3, UsbStepTypes, FrameTypes DEF HostStep
<1>4. CASE UNCHANGED vars
  BY <1>4, FrameTypes DEF vars
<1>5. QED
  BY <1>1, <1>2, <1>3, <1>4 DEF Next

LEMMA AlwaysTypeInv == Spec => []TypeInv
BY InitTypes, StepTypes, PTL DEF Spec

\* Every variable of the proxy, the firmware, the serial line and the USB
\* controller keeps its type.  It is not an inductive invariant by itself: what
\* ReceiveNextOutput reads is an endpoint because selectedOutEndpoint never
\* leaves the part of outEndpoints that is filled.
THEOREM TypeCorrect == Spec => []TypeOK
<1>1. TypeInv => TypeOK
  BY DEF TypeInv
<1>2. QED
  BY <1>1, AlwaysTypeInv, PTL

-----------------------------------------------------------------------------
(* The inductive invariant of the reports. *)

NoneOf(type, s) == \A i \in DOMAIN s : s[i].type # type
AtMostOneIn(s) == \A i, j \in DOMAIN s : s[i].type = "IN" /\ s[j].type = "IN" => i = j
Addressed(s) == \A i \in DOMAIN s : s[i].type = "IN" => s[i].ep # 0

\* The firmware has a report and has not acknowledged it.
SlotBusy == input.ep # 0 \/ pc \in {"in_write", "in_release", "in_ack"}

\* The session goes on: gusb_close has not been called.
Running == phase \in {"idle", "polling", "leaving"}

\* There is at most one token, and none unless inPending is set.
OneToken ==
    /\ AtMostOneIn(toEmu) /\ AtMostOneIn(toProxy)
    /\ ~NoneOf("IN", toEmu) => NoneOf("IN", toProxy) /\ ~SlotBusy
    /\ SlotBusy => NoneOf("IN", toProxy)
    /\ inPending = 0 => NoneOf("IN", toEmu) /\ NoneOf("IN", toProxy) /\ ~SlotBusy
    /\ pc = "in_ack" => input.ep = 0
    /\ pc \in {"in_write", "in_release"} => input.ep # 0

\* As long as the session goes on the token is not lost.
TokenKept ==
    Running /\ inPending # 0 => ~NoneOf("IN", toEmu) \/ ~NoneOf("IN", toProxy) \/ SlotBusy

\* The firmware never takes an IN packet for an empty slot.
PacketsAddressed ==
    /\ \A e \in InEps : inPackets[e].type = "IN" /\ inPackets[e].ep # 0
    /\ Addressed(toEmu)

\* Only the end of the session resets the firmware.
NoReset == Running => NoneOf("RESET", toEmu) /\ pc # "hardreset"

TokenInv == OneToken /\ TokenKept /\ PacketsAddressed /\ NoReset

-----------------------------------------------------------------------------
(* Sequences of packets. *)

\* t holds the same token as s, and no more RESET than s.
SameToken(s, t) ==
    /\ NoneOf("IN", t) <=> NoneOf("IN", s)
    /\ AtMostOneIn(s) => AtMostOneIn(t)
    /\ Addressed(s) => Addressed(t)
    /\ NoneOf("RESET", s) => NoneOf("RESET", t)

LEMMA SameTokenAppend ==
    ASSUME NEW s \in Seq(Packet), NEW p \in Packet, p.type \notin {"IN", "RESET"}
    PROVE  SameToken(s, Append(s, p))
<1>1. /\ DOMAIN s = 1..Len(s) /\ DOMAIN Append(s, p) = 1..Len(s) + 1 /\ Len(s) \in Nat
      /\ \A i \in 1..Len(s) : Append(s, p)[i] = s[i]
      /\ Append(s, p)[Len(s) + 1] = p
  BY AppendProperties, LenProperties
<1>2. QED
  BY <1>1 DEF SameToken, NoneOf, AtMostOneIn, Addressed

LEMMA SameTokenConcat ==
    ASSUME NEW s \in Seq(Packet), NEW ps \in Seq(Packet),
           \A i \in DOMAIN ps : ps[i].type \notin {"IN", "RESET"}
    PROVE  SameToken(s, s \o ps)
<1>1. /\ DOMAIN s = 1..Len(s) /\ Len(s) \in Nat
      /\ DOMAIN ps = 1..Len(ps) /\ Len(ps) \in Nat
      /\ DOMAIN (s \o ps) = 1..Len(s) + Len(ps)
      /\ \A i \in 1..Len(s) + Len(ps) :
            (s \o ps)[i] = IF i <= Len(s) THEN s[i] ELSE ps[i - Len(s)]
  BY ConcatProperties, LenProperties
<1>2. \A i \in 1..Len(s) : i \in DOMAIN (s \o ps) /\ (s \o ps)[i] = s[i]
  BY <1>1
<1>3. \A i \in DOMAIN (s \o ps) :
         \/ i \in DOMAIN s /\ (s \o ps)[i] = s[i]
         \/ (s \o ps)[i].type \notin {"IN", "RESET"}
  BY <1>1
<1>4. QED
  BY <1>1, <1>2, <1>3 DEF SameToken, NoneOf, AtMostOneIn, Addressed

LEMMA SameTokenTail ==
    ASSUME NEW s \in Seq(Packet), s # <<>>, Head(s).type # "IN"
    PROVE  SameToken(s, Tail(s))
<1>1. /\ DOMAIN s = 1..Len(s) /\ Len(s) \in Nat \ {0}
      /\ DOMAIN Tail(s) = 1..Len(s) - 1
      /\ \A i \in 1..Len(s) - 1 : Tail(s)[i] = s[i + 1]
      /\ Head(s) = s[1]
  BY HeadTailProperties, LenProperties, EmptySeq
<1>2. \A i \in DOMAIN s : i = 1 \/ (i - 1 \in DOMAIN Tail(s) /\ Tail(s)[i - 1] = s[i])
  BY <1>1
<1>3. \A i \in DOMAIN Tail(s) : i + 1 \in DOMAIN s /\ Tail(s)[i] = s[i + 1] /\ i \in Nat
  BY <1>1
<1>4. \A type : NoneOf(type, s) => NoneOf(type, Tail(s))
  BY <1>3 DEF NoneOf
<1>5. NoneOf("IN", Tail(s)) => NoneOf("IN", s)
  BY <1>1, <1>2 DEF NoneOf
<1>6. AtMostOneIn(s) => AtMostOneIn(Tail(s))
  <2> SUFFICES ASSUME AtMostOneIn(s), NEW i \in DOMAIN Tail(s), NEW j \in DOMAIN Tail(s),
                      Tail(s)[i].type = "IN", Tail(s)[j].type = "IN"
               PROVE  i = j
    BY DEF AtMostOneIn
  <2>1. i + 1 = j + 1
    BY <1>3 DEF AtMostOneIn
  <2>2. QED
    BY <1>3, <2>1
<1>7. Addressed(s) => Addressed(Tail(s))
  BY <1>3 DEF Addressed
<1>8. QED
  BY <1>4, <1>5, <1>6, <1>7 DEF SameToken

\* The receiver takes the token.
LEMMA TokenTaken ==
    ASSUME NEW s \in Seq(Packet), s # <<>>, Head(s).type = "IN", AtMostOneIn(s)
    PROVE  /\ ~NoneOf("IN", s) /\ NoneOf("IN", Tail(s)) /\ AtMostOneIn(Tail(s))
           /\ Addressed(s) => Addressed(Tail(s)) /\ Head(s).ep # 0
           /\ NoneOf("RESET", s) => NoneOf("RESET", Tail(s))
<1>1. /\ DOMAIN s = 1..Len(s) /\ Len(s) \in Nat \ {0}
      /\ DOMAIN Tail(s) = 1..Len(s) - 1
      /\ \A i \in 1..Len(s) - 1 : Tail(s)[i] = s[i + 1]
      /\ Head(s) = s[1]
  BY HeadTailProperties, LenProperties, EmptySeq
<1>2. \A i \in DOMAIN Tail(s) : i + 1 \in DOMAIN s /\ Tail(s)[i] = s[i + 1] /\ i + 1 # 1
  BY <1>1
<1>3. NoneOf("IN", Tail(s))
  BY <1>1, <1>2 DEF NoneOf, AtMostOneIn
<1>4. QED
  BY <1>1, <1>2, <1>3 DEF NoneOf, AtMostOneIn, Addressed

\* The sender puts the token on a line without one.
LEMMA TokenPut ==
    ASSUME NEW s \in Seq(Packet), NEW p \in Packet, p.type = "IN", NoneOf("IN", s)
    PROVE  /\ ~NoneOf("IN", Append(s, p)) /\ AtMostOneIn(Append(s, p))
           /\ Addressed(s) /\ p.ep # 0 => Addressed(Append(s, p))
           /\ NoneOf("RESET", s) => NoneOf("RESET", Append(s, p))
<1>1. /\ DOMAIN s = 1..Len(s) /\ DOMAIN Append(s, p) = 1..Len(s) + 1 /\ Len(s) \in Nat
      /\ \A i \in 1..Len(s) : Append(s, p)[i] = s[i]
      /\ Append(s, p)[Len(s) + 1] = p
  BY AppendProperties, LenProperties
<1>2. QED
  BY <1>1 DEF NoneOf, AtMostOneIn, Addressed

\* A reboot loses the beginning of what is on the line.
LEMMA SuffixTokens ==
    ASSUME NEW s \in Seq(Packet), NEW k \in 0..Len(s)
    PROVE  LET t == SubSeq(s, k + 1, Len(s))
           IN  /\ NoneOf("IN", s) => NoneOf("IN", t)
               /\ AtMostOneIn(s) => AtMostOneIn(t)
               /\ Addressed(s) => Addressed(t)
<1> DEFINE t == SubSeq(s, k + 1, Len(s))
<1>1. DOMAIN s = 1..Len(s) /\ Len(s) \in Nat /\ k \in Nat
  BY LenProperties
<1>2. \A i \in k + 1..Len(s) : s[i] \in Packet
  BY <1>1, ElementOfSeq
<1>3. t \in Seq(Packet) /\ Len(t) = Len(s) - k /\ \A i \in 1..Len(s) - k : t[i] = s[k + i]
  <2>1. k + 1 \in Int /\ Len(s) \in Int
    BY <1>1
  <2>2. /\ t \in Seq(Packet)
        /\ Len(t) = IF k + 1 <= Len(s) THEN Len(s) - (k + 1) + 1 ELSE 0
        /\ \A i \in 1..Len(s) - (k + 1) + 1 : t[i] = s[k + 1 + i - 1]
    BY <1>2, <2>1, SubSeqProperties
  <2> HIDE DEF t
  <2>3. Len(s) - (k + 1) + 1 = Len(s) - k /\ \A i \in 1..Len(s) - k : k + 1 + i - 1 = k + i
    BY <1>1
  <2>4. Len(t) = Len(s) - k
    <3>1. CASE k + 1 <= Len(s)
      BY <1>1, <2>2, <3>1
    <3>2. CASE k = Len(s)
      BY <1>1, <2>2, <3>2
    <3>3. k + 1 <= Len(s) \/ k = Len(s)
      <4>1. Len(s) \in Nat
        BY LenProperties
      <4>2. QED
        BY <4>1
    <3>4. QED
      BY <3>1, <3>2, <3>3
  <2>5. QED
    BY <2>2, <2>3, <2>4
<1>4. DOMAIN t = 1..Len(s) - k
  BY <1>3, LenProperties
<1> HIDE DEF t
<1>5. \A i \in DOMAIN t : k + i \in DOMAIN s /\ t[i] = s[k + i] /\ i \in Nat
  BY <1>1, <1>3, <1>4
<1>6. AtMostOneIn(s) => AtMostOneIn(t)
  <2> SUFFICES ASSUME AtMostOneIn(s), NEW i \in DOMAIN t, NEW j \in DOMAIN t,
                      t[i].type = "IN", t[j].type = "IN"
               PROVE  i = j
    BY DEF AtMostOneIn
  <2>1. k + i = k + j
    BY <1>5 DEF AtMostOneIn
  <2>2. QED
    BY <1>1, <1>5, <2>1
<1>7. (NoneOf("IN", s) => NoneOf("IN", t)) /\ (Addressed(s) => Addressed(t))
  BY <1>5 DEF NoneOf, Addressed
<1>8. QED
  BY <1>6, <1>7 DEF t

LEMMA SameTokenReflexive ==
    ASSUME NEW s
    PROVE  SameToken(s, s)
BY DEF SameToken

LEMMA SameTokenTransitive ==
    ASSUME NEW s, NEW t, NEW u, SameToken(s, t), SameToken(t, u)
    PROVE  SameToken(s, u)
BY DEF SameToken

LEMMA SameTokenChunks ==
    ASSUME NEW s \in Seq(Packet), NEW type \in PacketTypes \ {"IN", "RESET"}, NEW n \in Nat
    PROVE  /\ SameToken(s, s \o Chunks(type, n))
           /\ \A k \in 0..Len(Chunks(type, n)) - 1 :
                 SameToken(s, s \o SubSeq(Chunks(type, n), 1, k))
<1>1. Chunks(type, n) \in Seq(Packet)
  BY ChunksType
<1>2. \A i \in DOMAIN Chunks(type, n) : Chunks(type, n)[i].type \notin {"IN", "RESET"}
  BY DEF Chunks, Pkt
<1>3. ASSUME NEW k \in 0..Len(Chunks(type, n)) - 1
      PROVE  SameToken(s, s \o SubSeq(Chunks(type, n), 1, k))
  <2> DEFINE c == Chunks(type, n)
             q == SubSeq(c, 1, k)
  <2>1. k \in Nat /\ 1..k \subseteq DOMAIN c
    BY <1>1, LenProperties
  <2>2. \A i \in 1..k : c[i] \in Packet
    BY <1>1, <2>1, LenProperties, ElementOfSeq
  <2>3. q \in Seq(Packet) /\ Len(q) = (IF 1 <= k THEN k - 1 + 1 ELSE 0) /\ \A i \in 1..k - 1 + 1 : q[i] = c[1 + i - 1]
    BY <2>1, <2>2, SubSeqProperties
  <2> HIDE DEF q, c
  <2>4. DOMAIN q = 1..k /\ \A i \in 1..k : q[i] = c[i]
    <3>1. Len(q) = k /\ k - 1 + 1 = k
      BY <2>1, <2>3
    <3>2. DOMAIN q = 1..k
      BY <2>3, <3>1, LenProperties
    <3>3. \A i \in 1..k : 1 + i - 1 = i
      BY <2>1
    <3>4. QED
      BY <2>3, <3>1, <3>2, <3>3
  <2>5. \A i \in DOMAIN q : q[i].type \notin {"IN", "RESET"}
    BY <1>2, <2>1, <2>4 DEF c
  <2>6. SameToken(s, s \o q)
    BY <2>3, <2>5, SameTokenConcat
  <2>7. QED
    BY <2>6 DEF q, c
<1>4. QED
  BY <1>1, <1>2, <1>3, SameTokenConcat

-----------------------------------------------------------------------------
(* Steps that do not concern the token. *)

LEMMA QuietStep ==
    ASSUME TokenInv, SameToken(toEmu, toEmu'), SameToken(toProxy, toProxy'),
           UNCHANGED <<input, inPending>>,
           \A e \in InEps : inPackets'[e].type = "IN" /\ inPackets'[e].ep # 0,
           SlotBusy' = SlotBusy,
           pc' \in {"in_ack", "in_write", "in_release"} => pc' = pc,
           Running' => Running /\ pc' # "hardreset"
    PROVE  TokenInv'
<1>1. OneToken'
  BY DEF TokenInv, OneToken, SameToken
<1>2. TokenKept'
  BY DEF TokenInv, TokenKept, SameToken
<1>3. PacketsAddressed'
  BY DEF TokenInv, PacketsAddressed, SameToken
<1>4. NoReset'
  BY DEF TokenInv, NoReset, SameToken
<1>5. QED
  BY <1>1, <1>2, <1>3, <1>4 DEF TokenInv

\* A step of the main loop that is none of SendNextInput's and sends no
\* acknowledgement.
MainSteps == Steps \ {"in_write", "in_release", "in_ack", "hardreset"}

LEMMA QuietMainStep ==
    ASSUME TokenInv, pc \in MainSteps, pc' \in MainSteps,
           UNCHANGED <<toEmu, input, proxyVars>>, SameToken(toProxy, toProxy')
    PROVE  TokenInv'
<1>1. SameToken(toEmu, toEmu')
  BY SameTokenReflexive
<1>2. SlotBusy' = SlotBusy
  BY DEF SlotBusy, MainSteps
<1>3. Running' = Running
  BY DEF Running, proxyVars
<1>4. \A e \in InEps : inPackets'[e].type = "IN" /\ inPackets'[e].ep # 0
  BY DEF TokenInv, PacketsAddressed, proxyVars
<1>5. inPending' = inPending
  BY DEF proxyVars
<1>6. QED
  BY <1>1, <1>2, <1>3, <1>4, <1>5, QuietStep DEF MainSteps

\* A step of the proxy that sends no report.
LEMMA QuietProxyStep ==
    ASSUME TokenInv, UNCHANGED emuVars, UNCHANGED <<inPending, inPackets>>,
           SameToken(toEmu, toEmu'), SameToken(toProxy, toProxy'), Running' => Running
    PROVE  TokenInv'
<1>1. SlotBusy' = SlotBusy /\ pc' = pc /\ input' = input
  BY DEF SlotBusy, emuVars, mainVars
<1>2. \A e \in InEps : inPackets'[e].type = "IN" /\ inPackets'[e].ep # 0
  BY DEF TokenInv, PacketsAddressed
<1>3. Running' => Running /\ pc' # "hardreset"
  BY <1>1 DEF TokenInv, NoReset
<1>4. QED
  BY <1>1, <1>2, <1>3, QuietStep

-----------------------------------------------------------------------------
(* The steps of the proxy. *)

\* adapter_send of anything but a report or RESET.
LEMMA SentQuietly ==
    ASSUME toEmu \in Seq(Packet), NEW p \in Packet, p.type \notin {"IN", "RESET"},
           NEW ok \in BOOLEAN, adapter_send(p, ok)
    PROVE  SameToken(toEmu, toEmu')
BY SameTokenAppend, SameTokenReflexive DEF adapter_send

LEMMA ChunksSentQuietly ==
    ASSUME toEmu \in Seq(Packet), NEW type \in PacketTypes \ {"IN", "RESET"}, NEW n \in Nat,
           NEW ok \in BOOLEAN, adapter_send_chunks(Chunks(type, n), ok)
    PROVE  SameToken(toEmu, toEmu')
BY SameTokenChunks DEF adapter_send_chunks

\* Nothing is pending, and the next report is sent if there is one.
LEMMA FreeSlotSend ==
    ASSUME toEmu \in Seq(Packet),
           NEW fifo \in Seq(InEps), NEW packets \in [InEps -> Packet], NEW ok \in BOOLEAN,
           send_next_in_packet(0, fifo, packets, ok), inPackets' = packets,
           \A e \in InEps : packets[e].type = "IN" /\ packets[e].ep # 0,
           NoneOf("IN", toEmu), NoneOf("IN", toProxy'), ~SlotBusy,
           Addressed(toEmu), NoReset, Running' => Running, UNCHANGED emuVars
    PROVE  TokenInv'
<1>1. pc' = pc /\ input' = input /\ SlotBusy' = SlotBusy
  BY DEF SlotBusy, emuVars, mainVars
<1>2. AtMostOneIn(toProxy') /\ AtMostOneIn(toEmu)
  BY DEF NoneOf, AtMostOneIn
<1>3. CASE CanSend(0, fifo) /\ ok
  <2> DEFINE e == Head(fifo)
  <2>1. e \in InEps
    BY <1>3, HeadTailProperties DEF CanSend
  <2>2. e # 0 /\ packets[e] \in Packet /\ packets[e].type = "IN" /\ packets[e].ep # 0
    BY <2>1, EndpointsAssumption DEF EndpointsOK
  <2>3. toEmu' = Append(toEmu, packets[e]) /\ inPending' = e
    BY <1>3 DEF send_next_in_packet, adapter_send
  <2> HIDE DEF e
  <2>4. /\ ~NoneOf("IN", toEmu') /\ AtMostOneIn(toEmu') /\ Addressed(toEmu')
        /\ NoneOf("RESET", toEmu) => NoneOf("RESET", toEmu')
    BY <2>2, <2>3, TokenPut
  <2>5. OneToken'
    BY <1>1, <1>2, <2>2, <2>3, <2>4 DEF OneToken, SlotBusy
  <2>6. TokenKept' /\ NoReset' /\ PacketsAddressed'
    BY <1>1, <2>4 DEF TokenKept, NoReset, PacketsAddressed
  <2>7. QED
    BY <2>5, <2>6 DEF TokenInv
<1>4. CASE ~(CanSend(0, fifo) /\ ok)
  <2>1. toEmu' = toEmu /\ inPending' = 0
    BY <1>4 DEF send_next_in_packet
  <2>2. OneToken' /\ TokenKept' /\ NoReset' /\ PacketsAddressed'
    BY <1>1, <1>2, <2>1 DEF OneToken, TokenKept, NoReset, PacketsAddressed, SlotBusy
  <2>3. QED
    BY <2>2 DEF TokenInv
<1>5. QED
  BY <1>3, <1>4

\* Something is pending, and the next report waits.
LEMMA BusySlotSend ==
    ASSUME TokenInv, NEW fifo, NEW packets, NEW ok, inPending # 0,
           send_next_in_packet(inPending, fifo, packets, ok), inPackets' = packets,
           \A e \in InEps : packets[e].type = "IN" /\ packets[e].ep # 0,
           UNCHANGED <<toProxy, phase, emuVars>>
    PROVE  TokenInv'
<1>1. toEmu' = toEmu /\ inPending' = inPending
  BY DEF send_next_in_packet, CanSend
<1>2. SlotBusy' = SlotBusy /\ pc' = pc /\ input' = input
  BY DEF SlotBusy, emuVars, mainVars
<1>3. SameToken(toEmu, toEmu') /\ SameToken(toProxy, toProxy')
  BY <1>1, SameTokenReflexive
<1>4. Running' => Running /\ pc' # "hardreset"
  BY <1>2 DEF Running, TokenInv, NoReset
<1>5. QED
  BY <1>1, <1>2, <1>3, <1>4, QuietStep

\* process_packet takes a packet that is not a report's acknowledgement.
LEMMA ReceivedQuietly ==
    ASSUME toProxy \in Seq(Packet), NEW type, type # "IN", Receive(type)
    PROVE  SameToken(toProxy, toProxy') /\ Running
BY SameTokenTail DEF Receive, Running

\* What a quiet step of process_packet amounts to.
LEMMA QuietReceive ==
    ASSUME TypeInv, TokenInv, NEW type, type # "IN", Receive(type),
           SameToken(toEmu, toEmu'), UNCHANGED <<inPending, inPackets, emuVars>>
    PROVE  TokenInv'
<1>1. SameToken(toProxy, toProxy') /\ Running
  BY ReceivedQuietly DEF TypeInv, TypeOK, SerialTypeOK
<1>2. QED
  BY <1>1, QuietProxyStep

LEMMA ProcessPacketToken ==
    ASSUME TypeInv, TokenInv, ProcessPacket, UNCHANGED emuVars
    PROVE  TokenInv'
<1>0. /\ toEmu \in Seq(Packet) /\ toProxy \in Seq(Packet) /\ inEpFifo \in Seq(InEps)
      /\ inPackets \in [InEps -> Packet]
      /\ SendResults \subseteq BOOLEAN /\ SubmitResults \subseteq BOOLEAN
  BY DEF TypeInv, TypeOK, SerialTypeOK, ProxyTypeOK, SendResults, SubmitResults, Results
<1> USE DEF inVars
<1>1. CASE ProcessDescriptors
  <2>1. PICK ok \in SendResults :
           toEmu' = toEmu \/ adapter_send_chunks(Chunks("INDEX", NIndex), ok)
    BY <1>1 DEF ProcessDescriptors
  <2>2. SameToken(toEmu, toEmu')
    BY <1>0, <2>1, ChunksSentQuietly, SameTokenReflexive, ProxyAssumption DEF PacketTypes
  <2>3. QED
    BY <1>1, <2>2, QuietReceive DEF ProcessDescriptors
<1>2. CASE ProcessIndex
  <2>1. PICK ok \in SendResults : toEmu' = toEmu \/ adapter_send(Ack("ENDPOINTS"), ok)
    BY <1>2 DEF ProcessIndex
  <2>2. Ack("ENDPOINTS") \in Packet /\ Ack("ENDPOINTS").type = "ENDPOINTS"
    BY AckType DEF PacketTypes, Ack, Pkt
  <2>3. SameToken(toEmu, toEmu')
    BY <1>0, <2>1, <2>2, SentQuietly, SameTokenReflexive
  <2>4. QED
    BY <1>2, <2>3, QuietReceive DEF ProcessIndex
<1>3. CASE ProcessEndpoints
  BY <1>3, QuietReceive, SameTokenReflexive DEF ProcessEndpoints
<1>4. CASE ProcessIn
  <2> USE <1>4 DEF ProcessIn
  <2>1. toProxy # <<>> /\ Head(toProxy).type = "IN" /\ toProxy' = Tail(toProxy) /\ Running
    BY DEF Receive, Running
  <2>2. ~NoneOf("IN", toProxy) /\ NoneOf("IN", toProxy')
    BY <1>0, <2>1, TokenTaken DEF TokenInv, OneToken
  <2>3. inPending # 0 /\ NoneOf("IN", toEmu) /\ ~SlotBusy
    BY <2>2 DEF TokenInv, OneToken
  <2>4. PICK polled \in SubmitResults, sent \in SendResults :
           IF polled
           THEN send_next_in_packet(0, inEpFifo, inPackets, sent)
           ELSE inPending' = 0 /\ UNCHANGED <<toEmu, inEpFifo>>
    BY <2>3
  <2>5. \A e \in InEps : inPackets[e].type = "IN" /\ inPackets[e].ep # 0
    BY DEF TokenInv, PacketsAddressed
  <2>6. Addressed(toEmu) /\ NoReset
    BY DEF TokenInv, PacketsAddressed
  <2>7. CASE polled
    <3>1. sent \in BOOLEAN /\ send_next_in_packet(0, inEpFifo, inPackets, sent)
      BY <1>0, <2>4, <2>7
    <3>2. inPackets' = inPackets
      OBVIOUS
    <3> HIDE <1>4 DEF ProcessIn
    <3>3. QED
      BY <1>0, <2>1, <2>2, <2>3, <2>5, <2>6, <3>1, <3>2, FreeSlotSend
  <2>8. CASE ~polled
    <3>1. inPending' = 0 /\ toEmu' = toEmu /\ inPackets' = inPackets
      BY <2>4, <2>8
    <3>2. pc' = pc /\ input' = input /\ SlotBusy' = SlotBusy
      BY DEF SlotBusy, emuVars, mainVars
    <3>3. AtMostOneIn(toProxy') /\ AtMostOneIn(toEmu)
      BY <2>2, <2>3 DEF NoneOf, AtMostOneIn
    <3>4. OneToken' /\ TokenKept' /\ NoReset' /\ PacketsAddressed'
      BY <2>1, <2>2, <2>3, <2>5, <2>6, <3>1, <3>2, <3>3
         DEF OneToken, TokenKept, NoReset, PacketsAddressed, SlotBusy
    <3>5. QED
      BY <3>4 DEF TokenInv
  <2>9. QED
    BY <2>7, <2>8
<1>5. CASE ProcessOut
  BY <1>5, QuietReceive, SameTokenReflexive DEF ProcessOut
<1>6. CASE ProcessControl
  <2> DEFINE p == Pkt("CONTROL_STALL", 0, Head(toProxy).data)
  <2>1. Receive("CONTROL") /\ UNCHANGED <<inPending, inPackets>>
    BY <1>6 DEF ProcessControl
  <2>2. p \in Packet /\ p.type = "CONTROL_STALL"
    <3>1. Head(toProxy) \in Packet
      BY <1>0, <2>1, ReceiveTypes
    <3>2. QED
      BY <3>1, PktType DEF PacketTypes, Packet, Pkt
  <2>3. PICK ok \in SendResults \union SubmitResults : toEmu' = toEmu \/ adapter_send(p, ok)
    BY <1>6 DEF ProcessControl
  <2> HIDE DEF p
  <2>4. SameToken(toEmu, toEmu')
    BY <1>0, <2>2, <2>3, SentQuietly, SameTokenReflexive
  <2>5. QED
    BY <2>1, <2>4, QuietReceive
<1>7. CASE ProcessDebug \/ ProcessReset
  BY <1>7, QuietReceive, SameTokenReflexive DEF ProcessDebug, ProcessReset
<1>8. QED
  BY <1>1, <1>2, <1>3, <1>4, <1>5, <1>6, <1>7 DEF ProcessPacket

LEMMA UsbCallbackToken ==
    ASSUME TypeInv, TokenInv, UsbCallback, UNCHANGED emuVars
    PROVE  TokenInv'
<1>0. /\ toEmu \in Seq(Packet) /\ inEpFifo \in Seq(InEps) /\ inPackets \in [InEps -> Packet]
      /\ ctrlXfers \in Seq(Nat) /\ reports \in [InEps -> Nat]
      /\ SendResults \subseteq BOOLEAN
  BY DEF TypeInv, TypeOK, SerialTypeOK, ProxyTypeOK, GusbTypeOK, SendResults, Results
<1>1. ASSUME NEW e \in InEps, ReadDone(e)
      PROVE  TokenInv'
  <2>1. UNCHANGED <<toProxy, phase>>
    BY <1>1 DEF ReadDone
  <2>2. CASE Len(inEpFifo) = MaxEndpoints
    <3>1. UNCHANGED <<toEmu, inPending, inPackets>>
      BY <1>1, <2>2 DEF ReadDone, inVars
    <3>2. QED
      BY <2>1, <3>1, QuietProxyStep, SameTokenReflexive DEF Running
  <2>3. CASE Len(inEpFifo) # MaxEndpoints
    <3> DEFINE packets == [inPackets EXCEPT ![e] = Pkt("IN", U2S[e], reports[e] + 1)]
               fifo == Append(inEpFifo, e)
    <3>1. PICK ok \in SendResults :
             inPackets' = packets /\ send_next_in_packet(inPending, fifo, packets, ok)
      BY <1>1, <2>3 DEF ReadDone
    <3>2. U2S[e] \in Nat \ {0}
      BY RenumberingAssumption DEF RenumberingOK, UsbEps
    <3>3. Pkt("IN", U2S[e], reports[e] + 1) \in Packet
      BY <1>0, <3>2, PktType DEF PacketTypes
    <3>4. packets \in [InEps -> Packet] /\ fifo \in Seq(InEps)
      BY <1>0, <3>3, AppendProperties
    <3>5. \A f \in InEps : packets[f].type = "IN" /\ packets[f].ep # 0
      BY <1>0, <3>2 DEF TokenInv, PacketsAddressed, Pkt
    <3> HIDE DEF packets, fifo
    <3>6. CASE inPending = 0
      <4>1. NoneOf("IN", toEmu) /\ NoneOf("IN", toProxy') /\ ~SlotBusy
        BY <2>1, <3>6 DEF TokenInv, OneToken
      <4>2. Addressed(toEmu) /\ NoReset /\ (Running' => Running)
        BY <2>1 DEF TokenInv, PacketsAddressed, Running
      <4>3. QED
        BY <1>0, <3>1, <3>4, <3>5, <3>6, <4>1, <4>2, FreeSlotSend
    <3>7. CASE inPending # 0
      BY <2>1, <3>1, <3>5, <3>7, BusySlotSend
    <3>8. QED
      BY <3>6, <3>7
  <2>4. QED
    BY <2>2, <2>3
<1>2. ASSUME NEW e \in InEps, ReadFailed(e)
      PROVE  TokenInv'
  BY <1>2, QuietProxyStep, SameTokenReflexive DEF ReadFailed, proxyVars, Running
<1>3. ASSUME ctrlXfers # <<>>, NEW type \in {"CONTROL", "CONTROL_STALL"}
      PROVE  SameToken(toEmu, Append(toEmu, Pkt(type, 0, Head(ctrlXfers))))
  <2>1. Head(ctrlXfers) \in Nat
    BY <1>0, <1>3, HeadTailProperties
  <2>2. Pkt(type, 0, Head(ctrlXfers)) \in Packet
    BY <2>1, PktType DEF PacketTypes
  <2>3. QED
    BY <1>0, <2>2, SameTokenAppend DEF Pkt
<1>4. CASE ControlReadDone
  <2>1. ctrlXfers # <<>> /\ UNCHANGED <<toProxy, inPending, inPackets, phase>>
    BY <1>4 DEF ControlReadDone, RemoveControl, proxyVars
  <2>2. SameToken(toEmu, toEmu')
    BY <1>3, <1>4, <2>1, SameTokenReflexive DEF ControlReadDone
  <2>3. QED
    BY <2>1, <2>2, QuietProxyStep, SameTokenReflexive DEF Running
<1>5. CASE ControlWriteDone
  <2>1. ctrlXfers # <<>> /\ UNCHANGED <<toProxy, inPending, inPackets, phase>>
    BY <1>5 DEF ControlWriteDone, RemoveControl, inVars
  <2>2. SameToken(toEmu, toEmu')
    BY <1>3, <1>5, <2>1, SameTokenReflexive DEF ControlWriteDone, adapter_send
  <2>3. QED
    BY <2>1, <2>2, QuietProxyStep, SameTokenReflexive DEF Running
<1>6. ASSUME NEW e \in OutEps, WriteDone(e)
      PROVE  TokenInv'
  BY <1>6, QuietProxyStep, SameTokenReflexive DEF WriteDone, proxyVars, Running
<1>7. QED
  BY <1>1, <1>2, <1>4, <1>5, <1>6 DEF UsbCallback

\* Once gusb_close is called, the token may be lost with the session.
LEMMA SendResetToken ==
    ASSUME TypeInv, TokenInv, SendReset, UNCHANGED emuVars
    PROVE  TokenInv'
<1>1. toEmu \in Seq(Packet) /\ SendResults \subseteq BOOLEAN
  BY DEF TypeInv, TypeOK, SerialTypeOK, SendResults, Results
<1>2. /\ toEmu' = toEmu \/ toEmu' = Append(toEmu, Ack("RESET"))
      /\ UNCHANGED <<toProxy, inPending, inPackets>> /\ ~Running'
  BY DEF SendReset, adapter_send, inVars, Running
<1>3. pc' = pc /\ input' = input /\ SlotBusy' = SlotBusy
  BY DEF SlotBusy, emuVars, mainVars
<1>4. /\ NoneOf("IN", toEmu') <=> NoneOf("IN", toEmu)
      /\ AtMostOneIn(toEmu) => AtMostOneIn(toEmu')
      /\ Addressed(toEmu) => Addressed(toEmu')
  <2>1. CASE toEmu' = Append(toEmu, Ack("RESET"))
    <3>1. Ack("RESET") \in Packet /\ Ack("RESET").type = "RESET"
      BY AckType DEF PacketTypes, Ack, Pkt
    <3>2. /\ DOMAIN toEmu = 1..Len(toEmu) /\ DOMAIN toEmu' = 1..Len(toEmu) + 1
          /\ Len(toEmu) \in Nat
          /\ \A i \in 1..Len(toEmu) : toEmu'[i] = toEmu[i]
          /\ toEmu'[Len(toEmu) + 1] = Ack("RESET")
      BY <1>1, <2>1, <3>1, AppendProperties, LenProperties
    <3>3. QED
      BY <3>1, <3>2 DEF NoneOf, AtMostOneIn, Addressed
  <2>2. QED
    BY <1>2, <2>1
<1>5. OneToken' /\ TokenKept' /\ NoReset' /\ PacketsAddressed'
  BY <1>2, <1>3, <1>4
     DEF TokenInv, OneToken, TokenKept, NoReset, PacketsAddressed
<1>6. QED
  BY <1>5 DEF TokenInv

LEMMA ProxyStepToken ==
    ASSUME TypeInv, TokenInv, ProxyStep
    PROVE  TokenInv'
<1> USE DEF startupVars, inVars, serialVars
<1>0. toEmu \in Seq(Packet) /\ UNCHANGED emuVars
  BY DEF TypeInv, TypeOK, SerialTypeOK, ProxyStep
<1>1. ASSUME NEW ok \in BOOLEAN,
             adapter_send_chunks(Chunks("DESCRIPTORS", NDescriptors), ok)
      PROVE  SameToken(toEmu, toEmu')
  BY <1>0, <1>1, ChunksSentQuietly, ProxyAssumption DEF PacketTypes
<1>2. CASE ProxyStart
  BY <1>0, <1>1, <1>2, QuietProxyStep, SameTokenReflexive DEF ProxyStart, Running
<1>3. CASE ProxyStartFails
  <2>1. PICK ok \in BOOLEAN : adapter_send_chunks(Chunks("DESCRIPTORS", NDescriptors), ok)
    BY <1>3 DEF ProxyStartFails
  <2>2. SameToken(toEmu, toEmu')
    BY <1>1, <2>1
  <2>3. ~Running' /\ UNCHANGED <<toProxy, inPending, inPackets>>
    BY <1>3 DEF ProxyStartFails, Running
  <2>4. QED
    BY <1>0, <2>2, <2>3, QuietProxyStep, SameTokenReflexive
<1>4. CASE ProcessPacket
  BY <1>0, <1>4, ProcessPacketToken
<1>5. CASE UsbCallback
  BY <1>0, <1>5, UsbCallbackToken
<1>6. CASE ProxyStop \/ InitTimeout \/ Closed \/ TimerTick
  <2>1. UNCHANGED <<toEmu, toProxy, inPending, inPackets>> /\ (Running' => Running)
    BY <1>6 DEF ProxyStop, InitTimeout, Closed, TimerTick, Running
  <2>2. QED
    BY <1>0, <2>1, QuietProxyStep, SameTokenReflexive
<1>7. CASE SendReset
  BY <1>0, <1>7, SendResetToken
<1>8. CASE Cancelled
  <2>1. UNCHANGED <<toEmu, toProxy, inPending, inPackets, phase>>
    BY <1>8 DEF Cancelled, proxyVars
  <2>2. QED
    BY <1>0, <2>1, QuietProxyStep, SameTokenReflexive DEF Running
<1>9. CASE ProxyExit
  <2>1. UNCHANGED <<toEmu, toProxy, inPending, inPackets>> /\ ~Running'
    BY <1>9 DEF ProxyExit, Running
  <2>2. QED
    BY <1>0, <2>1, QuietProxyStep, SameTokenReflexive
<1>10. QED
  BY <1>2, <1>3, <1>4, <1>5, <1>6, <1>7, <1>8, <1>9 DEF ProxyStep, ProxyNext, ProxyLeave

-----------------------------------------------------------------------------
(* The steps of the firmware. *)

\* The interrupt handler takes a packet that is neither a report nor RESET.
LEMMA QuietInterrupt ==
    ASSUME TypeInv, TokenInv, NEW type \in PacketTypes \ {"IN", "RESET"}, Interrupt(type),
           toProxy' = toProxy \/ toProxy' = Append(toProxy, Ack(type)),
           UNCHANGED <<input, pc, proxyVars>>
    PROVE  TokenInv'
<1>1. SameToken(toEmu, toEmu')
  BY SameTokenTail DEF Interrupt, TypeInv, TypeOK, SerialTypeOK
<1>2. SameToken(toProxy, toProxy')
  <2>1. Ack(type) \in Packet /\ Ack(type).type = type /\ toProxy \in Seq(Packet)
    BY AckType DEF Ack, Pkt, TypeInv, TypeOK, SerialTypeOK
  <2>2. QED
    BY <2>1, SameTokenAppend, SameTokenReflexive
<1>3. SlotBusy' = SlotBusy /\ pc' # "hardreset"
  BY DEF SlotBusy, Interrupt
<1>4. UNCHANGED <<inPending, inPackets, phase>>
  BY DEF proxyVars
<1>5. \A e \in InEps : inPackets'[e].type = "IN" /\ inPackets'[e].ep # 0
  BY <1>4 DEF TokenInv, PacketsAddressed
<1>6. QED
  BY <1>1, <1>2, <1>3, <1>4, <1>5, QuietStep DEF Running

LEMMA InterruptToken ==
    ASSUME TypeInv, TokenInv, EmuInterrupt, UNCHANGED proxyVars
    PROVE  TokenInv'
<1> USE DEF mainVars, PacketTypes
<1>0. toEmu \in Seq(Packet) /\ UNCHANGED <<inPending, inPackets, phase>>
  BY DEF TypeInv, TypeOK, SerialTypeOK, proxyVars
<1>1. CASE RxDescriptors
  BY <1>1, QuietInterrupt DEF RxDescriptors
<1>2. CASE RxIndex
  BY <1>2, QuietInterrupt DEF RxIndex
<1>3. CASE RxEndpoints
  BY <1>3, QuietInterrupt DEF RxEndpoints
<1>4. CASE RxControl
  BY <1>4, QuietInterrupt DEF RxControl
<1>5. CASE RxControlStall
  BY <1>5, QuietInterrupt DEF RxControlStall
<1>6. CASE RxReset
  <2>1. /\ toEmu # <<>> /\ Head(toEmu).type = "RESET" /\ toEmu' = Tail(toEmu)
        /\ pc' = "hardreset" /\ UNCHANGED <<toProxy, input>>
    BY <1>6 DEF RxReset, Interrupt
  <2>2. SameToken(toEmu, toEmu') /\ SameToken(toProxy, toProxy')
    BY <1>0, <2>1, SameTokenTail, SameTokenReflexive
  <2>3. ~Running
    <3>1. Head(toEmu) = toEmu[1] /\ 1 \in DOMAIN toEmu
      BY <1>0, <2>1, HeadTailProperties, LenProperties, EmptySeq
    <3>2. ~NoneOf("RESET", toEmu)
      BY <2>1, <3>1 DEF NoneOf
    <3>3. QED
      BY <3>2 DEF TokenInv, NoReset
  <2>4. ~Running'
    BY <1>0, <2>3 DEF Running
  <2>5. SlotBusy' => SlotBusy
    BY <2>1 DEF SlotBusy
  <2>6. OneToken'
    BY <1>0, <2>1, <2>2, <2>5 DEF TokenInv, OneToken, SameToken
  <2>7. TokenKept' /\ NoReset'
    BY <2>4 DEF TokenKept, NoReset
  <2>8. PacketsAddressed'
    BY <1>0, <2>2 DEF TokenInv, PacketsAddressed, SameToken
  <2>9. QED
    BY <2>6, <2>7, <2>8 DEF TokenInv
<1>7. CASE RxIn
  <2>1. /\ toEmu # <<>> /\ Head(toEmu).type = "IN" /\ toEmu' = Tail(toEmu)
        /\ input'.ep = Head(toEmu).ep /\ UNCHANGED <<toProxy, pc>>
    BY <1>7 DEF RxIn, Interrupt
  <2>2. /\ ~NoneOf("IN", toEmu) /\ NoneOf("IN", toEmu') /\ AtMostOneIn(toEmu')
        /\ Addressed(toEmu') /\ Head(toEmu).ep # 0
        /\ NoneOf("RESET", toEmu) => NoneOf("RESET", toEmu')
    BY <1>0, <2>1, TokenTaken DEF TokenInv, OneToken, PacketsAddressed
  <2>3. NoneOf("IN", toProxy) /\ inPending # 0 /\ ~SlotBusy /\ AtMostOneIn(toProxy)
    BY <2>2 DEF TokenInv, OneToken
  <2>4. SlotBusy' /\ input'.ep # 0
    BY <2>1, <2>2 DEF SlotBusy
  <2>5. pc' \notin {"in_write", "in_release", "in_ack"}
    BY <2>1, <2>3 DEF SlotBusy
  <2>6. OneToken'
    BY <1>0, <2>1, <2>2, <2>3, <2>4, <2>5 DEF OneToken
  <2>7. TokenKept'
    BY <2>4 DEF TokenKept
  <2>8. PacketsAddressed' /\ NoReset'
    BY <1>0, <2>1, <2>2 DEF TokenInv, PacketsAddressed, NoReset, Running
  <2>9. QED
    BY <2>6, <2>7, <2>8 DEF TokenInv
<1>8. QED
  BY <1>1, <1>2, <1>3, <1>4, <1>5, <1>6, <1>7 DEF EmuInterrupt

LEMMA RebootToken ==
    ASSUME TypeInv, TokenInv, Reboot, UNCHANGED proxyVars
    PROVE  TokenInv'
<1>1. UNCHANGED <<inPending, inPackets, phase, toProxy>> /\ ~Running'
  BY DEF proxyVars, TokenInv, NoReset, Running, Reboot
<1>2. PICK k \in 0..Len(toEmu) : toEmu' = SubSeq(toEmu, k + 1, Len(toEmu))
  BY DEF Reboot
<1>3. /\ NoneOf("IN", toEmu) => NoneOf("IN", toEmu')
      /\ AtMostOneIn(toEmu) => AtMostOneIn(toEmu')
      /\ Addressed(toEmu) => Addressed(toEmu')
  BY <1>2, SuffixTokens DEF TypeInv, TypeOK, SerialTypeOK
<1>4. ~SlotBusy' /\ pc' = "boot" /\ input'.ep = 0
  BY DEF Reboot, EmptySlot, SlotBusy
<1>5. OneToken'
  BY <1>1, <1>3, <1>4 DEF TokenInv, OneToken
<1>6. TokenKept' /\ NoReset' /\ PacketsAddressed'
  BY <1>1, <1>3 DEF TokenInv, TokenKept, NoReset, PacketsAddressed
<1>7. QED
  BY <1>5, <1>6 DEF TokenInv

\* SendNextInput carries the token from the slot to the line.
LEMMA SendNextInputToken ==
    ASSUME TypeInv, TokenInv, SendNextInput, UNCHANGED proxyVars
    PROVE  TokenInv'
<1> USE DEF serialVars, Goto
<1>0. UNCHANGED <<inPending, inPackets, phase>> /\ toProxy \in Seq(Packet)
  BY DEF TypeInv, TypeOK, SerialTypeOK, proxyVars
<1>1. CASE InputNothing
  BY <1>1, QuietMainStep, SameTokenReflexive DEF InputNothing, MainSteps, Steps
<1>2. CASE InputFound \/ InputWrite
  <2>1. UNCHANGED <<serialVars, input>> /\ input.ep # 0 /\ pc' \in {"in_write", "in_release"}
    BY <1>2 DEF InputFound, InputWrite, InputReady, TokenInv, OneToken
  <2>2. SlotBusy /\ SlotBusy'
    BY <2>1 DEF SlotBusy
  <2>3. OneToken' /\ TokenKept' /\ PacketsAddressed' /\ NoReset'
    BY <1>0, <2>1, <2>2
       DEF TokenInv, OneToken, TokenKept, PacketsAddressed, NoReset, Running
  <2>4. QED
    BY <2>3 DEF TokenInv
<1>3. CASE InputRelease
  <2>1. UNCHANGED serialVars /\ input'.ep = 0 /\ pc = "in_release" /\ pc' = "in_ack"
    BY <1>3 DEF InputRelease, TypeInv, TypeOK, EmuTypeOK, Slot
  <2>2. SlotBusy /\ SlotBusy'
    BY <2>1 DEF SlotBusy
  <2>3. OneToken' /\ TokenKept' /\ PacketsAddressed' /\ NoReset'
    BY <1>0, <2>1, <2>2
       DEF TokenInv, OneToken, TokenKept, PacketsAddressed, NoReset, Running
  <2>4. QED
    BY <2>3 DEF TokenInv
<1>4. CASE InputAck
  <2>1. /\ toProxy' = Append(toProxy, Ack("IN")) /\ UNCHANGED <<toEmu, input>>
        /\ pc = "in_ack" /\ pc' = "output"
    BY <1>4 DEF InputAck
  <2>2. SlotBusy /\ ~SlotBusy' /\ input.ep = 0
    BY <2>1 DEF SlotBusy, TokenInv, OneToken
  <2>3. NoneOf("IN", toProxy) /\ NoneOf("IN", toEmu) /\ inPending # 0 /\ AtMostOneIn(toEmu)
    BY <2>2 DEF TokenInv, OneToken
  <2>4. ~NoneOf("IN", toProxy') /\ AtMostOneIn(toProxy')
    <3>1. Ack("IN") \in Packet /\ Ack("IN").type = "IN"
      BY AckType DEF PacketTypes, Ack, Pkt
    <3>2. QED
      BY <1>0, <2>1, <2>3, <3>1, TokenPut
  <2>5. OneToken' /\ TokenKept' /\ PacketsAddressed' /\ NoReset'
    BY <1>0, <2>1, <2>2, <2>3, <2>4
       DEF TokenInv, OneToken, TokenKept, PacketsAddressed, NoReset, Running
  <2>6. QED
    BY <2>5 DEF TokenInv
<1>5. QED
  BY <1>1, <1>2, <1>3, <1>4 DEF SendNextInput

\* Sending anything but a report or RESET to the proxy.
LEMMA ReplyQuietly ==
    ASSUME TypeInv, NEW p \in Packet, p.type \notin {"IN", "RESET"},
           toProxy' = Append(toProxy, p)
    PROVE  SameToken(toProxy, toProxy')
BY SameTokenAppend DEF TypeInv, TypeOK, SerialTypeOK

\* The other steps of the main loop.
QuietMain ==
    \/ Boot \/ TaskSkipped \/ ReceiveNextOutput \/ USBTask \/ UnhandledControlRequest

LEMMA QuietMainFrame ==
    ASSUME TypeInv, QuietMain
    PROVE  pc \in MainSteps /\ pc' \in MainSteps /\ UNCHANGED <<toEmu, input>>
<1>0. returnTo \in {"input", "out_clear"}
  BY DEF TypeInv, TypeOK, EmuTypeOK
<1> USE DEF serialVars, Goto, MainSteps, Steps, TaskReturns
<1>1. CASE Boot \/ TaskSkipped
  BY <1>1 DEF Boot, TaskSkipped
<1>2. CASE ReceiveNextOutput
  BY <1>2 DEF ReceiveNextOutput, OutputNothing, OutputPoll, OutputClear, OutputSend
<1>3. CASE USBTask
  BY <1>0, <1>3 DEF USBTask, UsbTaskNothing, ClearSetFeature, SetHalt, ClearHalt, RequestStatus,
                    SetConfiguration, RequestTooBig, RequestForwarded
<1>4. CASE ControlClearReply \/ ControlClearStall \/ ControlSendIn \/ ControlReadSetup
           \/ ControlSendOut \/ ControlReadAborted
  BY <1>0, <1>4 DEF ControlClearReply, ControlClearStall, ControlSendIn, ControlReadSetup,
                    ControlSendOut, ControlReadAborted
<1>5. CASE ControlWait \/ ControlReplied \/ ControlTimeout \/ ControlStalled \/ ControlAccepted
  BY <1>0, <1>5 DEF ControlWait, ControlReplied, ControlTimeout, ControlStalled, ControlAccepted
<1>6. CASE ControlReturnData \/ ControlWriteFirst \/ ControlWriteSecond \/ ControlWriteAborted
  BY <1>0, <1>6 DEF ControlReturnData, ControlWriteFirst, ControlWriteSecond, ControlWriteAborted
<1>7. QED
  BY <1>1, <1>2, <1>3, <1>4, <1>5, <1>6 DEF QuietMain, UnhandledControlRequest

LEMMA QuietMainReplies ==
    ASSUME TypeInv, QuietMain
    PROVE  SameToken(toProxy, toProxy')
<1>0. /\ outPkt.ep \in Nat /\ outPkt.data \in Nat /\ request \in Nat
      /\ setup \in Requests \union {0}
  BY DEF TypeInv, TypeOK, EmuTypeOK, UsbTypeOK, Slot
<1> USE DEF serialVars
<1>1. CASE Boot \/ TaskSkipped
  BY <1>1, SameTokenReflexive DEF Boot, TaskSkipped
<1>2. CASE ReceiveNextOutput
  <2>1. CASE OutputSend
    <3>1. /\ Pkt("OUT", outPkt.ep, outPkt.data) \in Packet
          /\ Pkt("OUT", outPkt.ep, outPkt.data).type = "OUT"
      BY <1>0, PktType DEF PacketTypes, Pkt
    <3>2. QED
      BY <2>1, <3>1, ReplyQuietly DEF OutputSend
  <2>2. CASE OutputNothing \/ OutputPoll \/ OutputClear
    BY <2>2, SameTokenReflexive DEF OutputNothing, OutputPoll, OutputClear
  <2>3. QED
    BY <1>2, <2>1, <2>2 DEF ReceiveNextOutput
<1>3. CASE USBTask
  <2>1. CASE RequestTooBig
    <3>1. Pkt("DEBUG", 0, setup) \in Packet /\ Pkt("DEBUG", 0, setup).type = "DEBUG"
      BY <1>0, PktType, RequestsAssumption DEF PacketTypes, Pkt
    <3>2. QED
      BY <2>1, <3>1, ReplyQuietly DEF RequestTooBig
  <2>2. CASE UsbTaskNothing \/ SetConfiguration \/ ClearSetFeature \/ RequestStatus \/ RequestForwarded
    BY <2>2, SameTokenReflexive DEF UsbTaskNothing, ClearSetFeature, SetHalt, ClearHalt,
                                    RequestStatus, SetConfiguration, RequestForwarded
  <2>3. QED
    BY <1>3, <2>1, <2>2 DEF USBTask
<1>4. CASE ControlSendIn \/ ControlSendOut
  <2>1. Pkt("CONTROL", 0, request) \in Packet /\ Pkt("CONTROL", 0, request).type = "CONTROL"
    BY <1>0, PktType DEF PacketTypes, Pkt
  <2>2. QED
    BY <1>4, <2>1, ReplyQuietly DEF ControlSendIn, ControlSendOut, SendControl
<1>5. CASE ControlClearReply \/ ControlClearStall \/ ControlReadSetup \/ ControlReadAborted
           \/ ControlWait \/ ControlReplied \/ ControlTimeout \/ ControlStalled
  BY <1>5, SameTokenReflexive
     DEF ControlClearReply, ControlClearStall, ControlReadSetup, ControlReadAborted,
         ControlWait, ControlReplied, ControlTimeout, ControlStalled
<1>6. CASE ControlAccepted \/ ControlReturnData
           \/ ControlWriteFirst \/ ControlWriteSecond \/ ControlWriteAborted
  BY <1>6, SameTokenReflexive
     DEF ControlAccepted, ControlReturnData, ControlWriteFirst, ControlWriteSecond,
         ControlWriteAborted
<1>7. QED
  BY <1>1, <1>2, <1>3, <1>4, <1>5, <1>6 DEF QuietMain, UnhandledControlRequest

LEMMA EmuStepToken ==
    ASSUME TypeInv, TokenInv, EmuStep
    PROVE  TokenInv'
<1>0. UNCHANGED proxyVars
  BY DEF EmuStep
<1>1. CASE EmuInterrupt
  BY <1>0, <1>1, InterruptToken
<1>2. CASE Reboot
  BY <1>0, <1>2, RebootToken
<1>3. CASE SendNextInput
  BY <1>0, <1>3, SendNextInputToken
<1>4. CASE QuietMain
  BY <1>0, <1>4, QuietMainFrame, QuietMainReplies, QuietMainStep
<1>5. QED
  BY <1>1, <1>2, <1>3, <1>4 DEF EmuStep, EmuNext, EmuMain, QuietMain

-----------------------------------------------------------------------------
(* The invariant, and what follows from it. *)

LEMMA InitToken == Init => TokenInv
<1> SUFFICES ASSUME Init PROVE TokenInv
  OBVIOUS
<1>1. /\ toEmu = <<>> /\ toProxy = <<>> /\ inPending = 0 /\ input.ep = 0 /\ pc = "boot"
      /\ inPackets = [e \in InEps |-> Pkt("IN", U2S[e], 0)]
  BY DEF Init, SerialInit, ProxyInit, EmuInit, EmptySlot
<1>2. \A type : NoneOf(type, <<>>)
  BY DEF NoneOf
<1>3. AtMostOneIn(<<>>) /\ Addressed(<<>>)
  BY DEF AtMostOneIn, Addressed
<1>4. OneToken /\ TokenKept /\ NoReset
  BY <1>1, <1>2, <1>3 DEF OneToken, TokenKept, NoReset, SlotBusy
<1>5. PacketsAddressed
  BY <1>1, <1>3, RenumberingAssumption DEF RenumberingOK, PacketsAddressed, UsbEps, Pkt
<1>6. QED
  BY <1>4, <1>5 DEF TokenInv

LEMMA StepToken == TypeInv /\ TokenInv /\ [Next]_vars => TokenInv'
<1> SUFFICES ASSUME TypeInv, TokenInv, [Next]_vars PROVE TokenInv'
  OBVIOUS
<1>1. CASE ProxyStep
  BY <1>1, ProxyStepToken
<1>2. CASE EmuStep
  BY <1>2, EmuStepToken
<1>3. CASE HostStep \/ UNCHANGED vars
  <2>1. UNCHANGED <<serialVars, proxyVars, emuVars>>
    BY <1>3 DEF HostStep, vars
  <2>2. UNCHANGED <<inPending, inPackets, phase>> /\ SameToken(toEmu, toEmu')
        /\ SameToken(toProxy, toProxy')
    BY <2>1, SameTokenReflexive DEF serialVars, proxyVars
  <2>3. QED
    BY <2>1, <2>2, QuietProxyStep DEF Running
<1>4. QED
  BY <1>1, <1>2, <1>3 DEF Next

LEMMA AlwaysToken == Spec => []TokenInv
BY InitToken, StepToken, AlwaysTypeInv, PTL DEF Spec

LEMMA TokenFree == TokenInv => SlotFreeForPacket
BY DEF TokenInv, OneToken, SlotFreeForPacket, NoneOf, AtMostOneIn, SlotBusy

\* The interrupt handler never overwrites a report that the firmware still
\* has (emu.c, case E_TYPE_IN), because send_next_in_packet (proxy.c) waits for
\* the acknowledgement that SendNextInput sends after it has released the slot.
THEOREM SlotFree == Spec => []SlotFreeForPacket
BY TokenFree, AlwaysToken, PTL

\* The number of IN packets on a line that carries the token or does not.
LEMMA TokenCount ==
    ASSUME NEW s, AtMostOneIn(s)
    PROVE  Cardinality(InPackets(s)) = IF NoneOf("IN", s) THEN 0 ELSE 1
<1>1. CASE NoneOf("IN", s)
  <2>1. InPackets(s) = {}
    BY <1>1 DEF NoneOf, InPackets
  <2>2. QED
    BY <1>1, <2>1, FS_EmptySet
<1>2. CASE ~NoneOf("IN", s)
  <2>1. PICK i \in DOMAIN s : s[i].type = "IN"
    BY <1>2 DEF NoneOf
  <2>2. InPackets(s) = {i}
    BY <2>1 DEF AtMostOneIn, InPackets
  <2>3. QED
    BY <1>2, <2>2, FS_Singleton
<1>3. QED
  BY <1>1, <1>2

LEMMA TokenExpected == TokenInv => AckIsExpected
<1>1. ASSUME TokenInv
      PROVE  AckIsExpected
  <2> USE DEF TokenInv
  <2>1. /\ Cardinality(InPackets(toEmu)) = IF NoneOf("IN", toEmu) THEN 0 ELSE 1
        /\ Cardinality(InPackets(toProxy)) = IF NoneOf("IN", toProxy) THEN 0 ELSE 1
    BY <1>1, TokenCount DEF OneToken
  <2>2. SlotBusy <=> input.ep # 0 \/ pc = "in_ack"
    BY <1>1 DEF OneToken, SlotBusy
  <2>3. PendingPlaces <= (IF inPending = 0 THEN 0 ELSE 1)
    BY <1>1, <2>1, <2>2 DEF OneToken, PendingPlaces
  <2>4. phase = "polling" /\ inPending # 0 => PendingPlaces = 1
    BY <1>1, <2>1, <2>2 DEF OneToken, TokenKept, Running, PendingPlaces
  <2>5. QED
    BY <2>3, <2>4 DEF AckIsExpected
<1>2. QED
  BY <1>1

\* The proxy (case E_TYPE_IN of process_packet) gets one acknowledgement for
\* each report that it sends, and none that it does not wait for; while the
\* session lasts the acknowledgement of a pending report is never lost.
THEOREM AckExpected == Spec => []AckIsExpected
BY TokenExpected, AlwaysToken, PTL
=============================================================================
