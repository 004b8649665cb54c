------------------------ MODULE SerialUsb_transfers ------------------------
(***************************************************************************)
(* Control transfers and OUT packets, for any number of requests, packets  *)
(* and endpoints, and whatever fails: the replies answer the request that  *)
(* the firmware waits with, and OUT packets keep their order.              *)
(***************************************************************************)
EXTENDS SerialUsb_startup

-----------------------------------------------------------------------------
(* Packets of some types on a line. *)

Free(types, s) == \A i \in DOMAIN s : s[i].type \notin types

\* Every packet of these types in t was in s, k places further on.
Shifted(types, s, t, k) ==
    \A i \in DOMAIN t : t[i].type \in types => i + k \in DOMAIN s /\ t[i] = s[i + k]

\* t has no packet of these types that s had not, and has them in the same order.
Within(types, s, t) == \E k \in Nat : Shifted(types, s, t, k)

LEMMA WithinSame ==
    ASSUME NEW types, NEW s \in Seq(Packet)
    PROVE  Within(types, s, s)
<1>1. DOMAIN s = 1..Len(s) /\ Len(s) \in Nat
  BY LenProperties
<1>2. Shifted(types, s, s, 0)
  BY <1>1 DEF Shifted
<1>3. QED
  BY <1>2 DEF Within

LEMMA WithinAppend ==
    ASSUME NEW types, NEW s \in Seq(Packet), NEW p \in Packet, p.type \notin types
    PROVE  Within(types, s, Append(s, p))
<1>1. /\ DOMAIN s = 1..Len(s) /\ DOMAIN Append(s, p) = 1..Len(s) + 1 /\ Len(s) \in Nat
      /\ \A i \in 1..Len(s) : Append(s, p)[i] = s[i]
      /\ Append(s, p)[Len(s) + 1] = p
  BY AppendProperties, LenProperties
<1>2. Shifted(types, s, Append(s, p), 0)
  BY <1>1 DEF Shifted
<1>3. QED
  BY <1>2 DEF Within

LEMMA WithinConcat ==
    ASSUME NEW types, NEW s \in Seq(Packet), NEW ps \in Seq(Packet), Free(types, ps)
    PROVE  Within(types, s, s \o ps)
<1> DEFINE u == s \o ps
<1>1. /\ DOMAIN s = 1..Len(s) /\ Len(s) \in Nat
      /\ DOMAIN ps = 1..Len(ps) /\ Len(ps) \in Nat
      /\ DOMAIN u = 1..Len(s) + Len(ps)
      /\ \A i \in 1..Len(s) + Len(ps) : u[i] = IF i <= Len(s) THEN s[i] ELSE ps[i - Len(s)]
  BY ConcatProperties, LenProperties
<1> HIDE DEF u
<1>2. ASSUME NEW i \in DOMAIN u, u[i].type \in types
      PROVE  i + 0 \in DOMAIN s /\ u[i] = s[i + 0]
  <2>1. CASE i <= Len(s)
    BY <1>1, <2>1
  <2>2. CASE ~(i <= Len(s))
    <3>1. i - Len(s) \in DOMAIN ps /\ u[i] = ps[i - Len(s)]
      BY <1>1, <2>2
    <3>2. QED
      BY <1>2, <3>1 DEF Free
  <2>3. QED
    BY <2>1, <2>2
<1>3. Shifted(types, s, u, 0)
  BY <1>2 DEF Shifted
<1>4. QED
  BY <1>3 DEF Within, u

LEMMA WithinTail ==
    ASSUME NEW types, NEW s \in Seq(Packet), s # <<>>
    PROVE  Within(types, s, Tail(s)) /\ Shifted(types, s, Tail(s), 1)
<1>1. /\ DOMAIN s = 1..Len(s) /\ Len(s) \in Nat \ {0}
      /\ DOMAIN Tail(s) = 1..Len(s) - 1
      /\ \A i \in 1..Len(s) - 1 : Tail(s)[i] = s[i + 1]
  BY HeadTailProperties, LenProperties, EmptySeq
<1>2. Shifted(types, s, Tail(s), 1)
  BY <1>1 DEF Shifted
<1>3. QED
  BY <1>2 DEF Within

\* A reboot loses the beginning of what is on the line.
LEMMA WithinSuffix ==
    ASSUME NEW types, NEW s \in Seq(Packet), NEW k \in 0..Len(s)
    PROVE  Within(types, s, SubSeq(s, k + 1, Len(s)))
<1> DEFINE t == SubSeq(s, k + 1, Len(s))
           n == Len(s)
<1>1. DOMAIN s = 1..n /\ n \in Nat /\ k \in Nat /\ k <= n
  BY LenProperties
<1>2. \A i \in k + 1..n : s[i] \in Packet
  BY <1>1, ElementOfSeq
<1>3. k + 1 \in Int /\ n \in Int
  BY <1>1
<1>4. /\ t \in Seq(Packet)
      /\ Len(t) = IF k + 1 <= n THEN n - (k + 1) + 1 ELSE 0
      /\ \A i \in 1..n - (k + 1) + 1 : t[i] = s[k + 1 + i - 1]
  BY <1>2, <1>3, SubSeqProperties
<1>5. DOMAIN t = 1..Len(t) /\ Len(t) \in Nat
  BY <1>4, LenProperties
<1> HIDE DEF t, n
<1>6. Len(t) = n - k
  BY <1>1, <1>4
<1>7. \A i \in 1..n - k : k + 1 + i - 1 = i + k /\ i + k \in 1..n
  BY <1>1
<1>8. n - (k + 1) + 1 = n - k
  BY <1>1
<1>9. Shifted(types, s, t, k)
  BY <1>1, <1>4, <1>5, <1>6, <1>7, <1>8 DEF Shifted
<1>10. QED
  BY <1>1, <1>9 DEF Within, t, n

\* adapter_send of a value that takes packets of another type.
LEMMA WithinSent ==
    ASSUME NEW types, NEW type, type \notin types, toEmu \in Seq(Packet), NEW ps, Sent(ps, type)
    PROVE  Within(types, toEmu, toEmu')
<1>1. ps \in Seq(Packet) /\ toEmu' = toEmu \o ps /\ Free(types, ps)
  BY DEF Sent, Free
<1>2. Within(types, toEmu, toEmu \o ps)
  BY <1>1, WithinConcat
<1>3. QED
  BY <1>1, <1>2

LEMMA WithinChunks ==
    ASSUME NEW types, NEW type \in PacketTypes \ types, NEW n \in Nat, NEW ok \in BOOLEAN,
           toEmu \in Seq(Packet), adapter_send_chunks(Chunks(type, n), ok)
    PROVE  Within(types, toEmu, toEmu')
<1>1. CASE ok
  <2>1. Sent(Chunks(type, n), type)
    BY <1>1, AllSent DEF adapter_send_chunks
  <2>2. QED
    BY <2>1, WithinSent
<1>2. CASE ~ok
  <2>1. PICK k \in 0..Len(Chunks(type, n)) - 1 :
           toEmu' = toEmu \o SubSeq(Chunks(type, n), 1, k)
    BY <1>2 DEF adapter_send_chunks
  <2>2. Sent(SubSeq(Chunks(type, n), 1, k), type)
    BY <2>1, SomeSent
  <2>3. QED
    BY <2>2, WithinSent
<1>3. QED
  BY <1>1, <1>2

LEMMA FreeWithin ==
    ASSUME NEW types, NEW s, NEW t, Within(types, s, t), Free(types, s)
    PROVE  Free(types, t)
BY DEF Within, Shifted, Free

-----------------------------------------------------------------------------
(* The inductive invariant of the control transfers. *)

ControlTypes == {"CONTROL", "CONTROL_STALL"}

\* s has at most one request or reply, and it is r.
Single(s, r) ==
    /\ \A i \in DOMAIN s : s[i].type \in ControlTypes => s[i].data = r
    /\ \A i, j \in DOMAIN s :
          s[i].type \in ControlTypes /\ s[j].type \in ControlTypes => i = j

ControlSteps == {"ctl_reply", "ctl_stall", "ctl_send", "ctl_read", "ctl_wait",
                 "ctl_decide", "ctl_finish", "ctl_write", "ctl_write2"}

\* The firmware has sent a request and has no reply to it.
Waits == pc \in {"ctl_wait", "ctl_decide"} /\ ~controlReply

\* The request that the firmware waits with is on the line to the proxy, or at
\* the device, or its reply is on the line back, or it is lost.
OneRequest ==
    /\ Single(toProxy, request) /\ Single(toEmu, request)
    /\ ~Free(ControlTypes, toProxy) => Waits /\ ctrlXfers = <<>> /\ Free(ControlTypes, toEmu)
    /\ ctrlXfers # <<>> => /\ Waits /\ Free(ControlTypes, toProxy) /\ Free(ControlTypes, toEmu)
                           /\ Len(ctrlXfers) = 1 /\ ctrlXfers[1] = request
    /\ ~Free(ControlTypes, toEmu) => Waits

\* The reply that the firmware has is the reply to its request.
ReplyFits ==
    /\ replyTo = request
    /\ controlStall \/ request \notin InRequests \/ (control = request /\ controlReplyLen = 1)

Forwarding ==
    /\ pc \in ControlSteps => request \in InRequests \union OutRequests
    /\ pc \in {"ctl_stall", "ctl_send", "ctl_read"} => ~controlReply
    /\ pc \in {"ctl_wait", "ctl_decide"} /\ controlReply => ReplyFits
    /\ pc = "ctl_finish" => ReplyFits
    /\ pc \in {"ctl_write", "ctl_write2"} =>
          /\ request \in InRequests
          /\ replyTo = request /\ control = request /\ controlReplyLen = 1

\* The session is over for the firmware: it will not start again.
Over ==
    /\ ~Running
    /\ pc = "hardreset" \/ (pc = "boot" /\ ~started)
    /\ Free(StartupTypes, toEmu)

ControlInv == timeouts = 0 => Over \/ (OneRequest /\ Forwarding)

\* The host and the firmware are at the same request.
SameRequest ==
    /\ setup # 0 => hostReq = setup
    /\ pc \in ControlSteps => hostReq = request
    /\ \/ pc \in {"ctl_read", "ctl_write", "ctl_write2"}
       \/ pc \in {"ctl_wait", "ctl_decide", "ctl_finish"} /\ request \in OutRequests
       => setup = 0
    /\ pc = "ctl_write2" => /\ answer.status = "none" /\ answer.req = request
                            /\ answer.from = request /\ answer.part1 = request

Matches(a) ==
    /\ a.from # 0 => a.from = a.req
    /\ a.status = "data" => a.part1 = a.req /\ a.part2 = a.req

HostInv == timeouts = 0 /\ resets = 0 /\ aborts = 0 => SameRequest /\ Matches(answer)

-----------------------------------------------------------------------------
(* The inductive invariant of the OUT packets. *)

AllBelow(s, d) == \A i \in DOMAIN s : s[i] < d

\* In order, except for the packets that the device has not taken.
Increasing(s) == \A i, j \in DOMAIN s : i < j /\ s[j] # 0 => s[i] < s[j]

\* The transfers of an endpoint are behind what has been written to it.
DeviceOrder ==
    \A e \in OutEps :
        /\ Increasing(outDone[e]) /\ Increasing(outXfers[e])
        /\ \A i \in DOMAIN outXfers[e] :
              outXfers[e][i] # 0 /\ AllBelow(outDone[e], outXfers[e][i])

Reached(e, d) == AllBelow(outDone[e], d) /\ AllBelow(outXfers[e], d)

\* The OUT packets on the line are behind the transfers.
LineOrder ==
    /\ \A i \in DOMAIN toProxy :
          toProxy[i].type = "OUT" => toProxy[i].ep \in EmuOut /\ toProxy[i].data # 0
    /\ \A i, j \in DOMAIN toProxy :
          /\ toProxy[i].type = "OUT" /\ toProxy[j].type = "OUT"
          /\ toProxy[i].ep = toProxy[j].ep /\ i < j
          => toProxy[i].data < toProxy[j].data
    /\ \A i \in DOMAIN toProxy, e \in OutEps :
          toProxy[i].type = "OUT" /\ toProxy[i].ep = U2S[e] => Reached(e, toProxy[i].data)

Before(e, d) ==
    /\ Reached(e, d)
    /\ \A i \in DOMAIN toProxy :
          toProxy[i].type = "OUT" /\ toProxy[i].ep = U2S[e] => toProxy[i].data < d

\* ReceiveNextOutput has read a packet and has not sent it, nor dropped it.
Reading == pc \in {"out_clear", "out_send"} \/ returnTo = "out_clear"
Held == Reading /\ outPkt.data # 0

\* The packet that the firmware holds is the one in the bank or was before it.
FirmwareOrder ==
    /\ Reading => outPkt.ep \in EmuOut
    /\ pc \in {"out_clear", "out_send"} => returnTo = "input"
    /\ pc = "out_send" => outPkt.data # 0
    /\ Held => /\ outPkt.data <= sentOut[outPkt.ep]
               /\ outBank[outPkt.ep].data # 0 =>
                     /\ outPkt.data <= outBank[outPkt.ep].data
                     /\ pc = "out_send" => outPkt.data # outBank[outPkt.ep].data
    /\ \A n \in EmuOut : outBank[n].data <= sentOut[n]

\* They are behind the packets on the line.
BeforeAll ==
    \A e \in OutEps :
        /\ Before(e, sentOut[U2S[e]] + 1)
        /\ outBank[U2S[e]].data # 0 => Before(e, outBank[U2S[e]].data)
        /\ Held /\ outPkt.ep = U2S[e] => Before(e, outPkt.data)

OutInv == DeviceOrder /\ LineOrder /\ FirmwareOrder /\ BeforeAll

-----------------------------------------------------------------------------
(* Lines. *)

-----------------------------------------------------------------------------
(* A line with at most one request or reply. *)

LEMMA SinglePut ==
    ASSUME NEW s \in Seq(Packet), NEW p \in Packet, Free(ControlTypes, s)
    PROVE  Single(Append(s, p), p.data)
<1>1. /\ DOMAIN s = 1..Len(s) /\ DOMAIN Append(s, p) = 1..Len(s) + 1 /\ Len(s) \in Nat
      /\ \A i \in 1..Len(s) : Append(s, p)[i] = s[i]
      /\ Append(s, p)[Len(s) + 1] = p
  BY AppendProperties, LenProperties
<1>2. \A i \in DOMAIN Append(s, p) :
         Append(s, p)[i].type \in ControlTypes => i = Len(s) + 1
  BY <1>1 DEF Free
<1>3. QED
  BY <1>1, <1>2 DEF Single

LEMMA SingleTaken ==
    ASSUME NEW s \in Seq(Packet), NEW r, Single(s, r),
           s # <<>>, Head(s).type \in ControlTypes
    PROVE  Free(ControlTypes, Tail(s)) /\ Head(s).data = r /\ ~Free(ControlTypes, s)
<1>1. /\ DOMAIN s = 1..Len(s) /\ Len(s) \in Nat \ {0}
      /\ DOMAIN Tail(s) = 1..Len(s) - 1
      /\ \A i \in 1..Len(s) - 1 : Tail(s)[i] = s[i + 1]
      /\ Head(s) = s[1]
  BY HeadTailProperties, LenProperties, EmptySeq
<1>2. \A i \in DOMAIN Tail(s) : i + 1 \in DOMAIN s /\ Tail(s)[i] = s[i + 1] /\ i + 1 # 1
  BY <1>1
<1>3. 1 \in DOMAIN s
  BY <1>1
<1>4. QED
  BY <1>1, <1>2, <1>3 DEF Single, Free

LEMMA SingleWithin ==
    ASSUME NEW s, NEW t \in Seq(Packet), NEW r, Single(s, r), Within(ControlTypes, s, t)
    PROVE  Single(t, r)
<1>1. PICK k \in Nat : Shifted(ControlTypes, s, t, k)
  BY DEF Within
<1>2. DOMAIN t \subseteq Nat
  BY LenProperties
<1>3. ASSUME NEW i \in DOMAIN t, NEW j \in DOMAIN t,
             t[i].type \in ControlTypes, t[j].type \in ControlTypes
      PROVE  i = j
  <2>1. i + k = j + k
    BY <1>1, <1>3 DEF Shifted, Single
  <2>2. QED
    BY <1>2, <2>1
<1>4. QED
  BY <1>1, <1>3 DEF Shifted, Single

LEMMA FreeSingle ==
    ASSUME NEW s, NEW r, Free(ControlTypes, s)
    PROVE  Single(s, r)
BY DEF Free, Single

\* A step that puts no request and no reply anywhere.
LEMMA RequestKept ==
    ASSUME OneRequest, toEmu' \in Seq(Packet), toProxy' \in Seq(Packet),
           Within(ControlTypes, toEmu, toEmu'), Within(ControlTypes, toProxy, toProxy'),
           ctrlXfers' = ctrlXfers \/ ctrlXfers' = <<>>,
           Waits => Waits' /\ request' = request
    PROVE  OneRequest'
<1>1. /\ Free(ControlTypes, toEmu) => Free(ControlTypes, toEmu')
      /\ Free(ControlTypes, toProxy) => Free(ControlTypes, toProxy')
  BY FreeWithin
<1>2. Single(toProxy', request) /\ Single(toEmu', request)
  BY SingleWithin DEF OneRequest
<1>3. CASE Waits
  BY <1>1, <1>2, <1>3 DEF OneRequest
<1>4. CASE ~Waits
  <2>1. Free(ControlTypes, toEmu') /\ Free(ControlTypes, toProxy') /\ ctrlXfers' = <<>>
    BY <1>1, <1>4 DEF OneRequest
  <2>2. Single(toProxy', request') /\ Single(toEmu', request')
    BY <2>1, FreeSingle
  <2>3. QED
    BY <2>1, <2>2 DEF OneRequest
<1>5. QED
  BY <1>3, <1>4

-----------------------------------------------------------------------------
(* What each side writes to the line. *)

\* The firmware: an acknowledgement, a debug packet, an OUT packet or a request.
LEMMA EmuWrites ==
    ASSUME TypeInv, EmuNext
    PROVE  \/ toProxy' = toProxy
           \/ \E p \in Packet :
                 /\ toProxy' = Append(toProxy, p)
                 /\ \/ p.type \in StartupTypes \union {"IN", "DEBUG"}
                    \/ OutputSend /\ p = Pkt("OUT", outPkt.ep, outPkt.data)
                    \/ (ControlSendIn \/ ControlSendOut) /\ p = Pkt("CONTROL", 0, request)
<1>1. /\ outPkt.ep \in Nat /\ outPkt.data \in Nat /\ request \in Nat /\ setup \in Nat
  BY RequestsAssumption DEF TypeInv, TypeOK, EmuTypeOK, UsbTypeOK, Slot
<1>2. /\ Ack("IN") \in Packet /\ Ack("IN").type = "IN"
      /\ Pkt("OUT", outPkt.ep, outPkt.data) \in Packet
      /\ Pkt("DEBUG", 0, setup) \in Packet /\ Pkt("DEBUG", 0, setup).type = "DEBUG"
      /\ Pkt("CONTROL", 0, request) \in Packet
      /\ \A type \in StartupTypes : Ack(type) \in Packet /\ Ack(type).type = type
  BY <1>1, AckType, PktType DEF PacketTypes, StartupTypes, Ack, Pkt
<1> USE DEF serialVars
<1>3. CASE EmuInterrupt \/ Reboot
  BY <1>2, <1>3 DEF EmuInterrupt, RxDescriptors, RxIndex, RxEndpoints, RxReset, RxControl,
                    RxControlStall, RxIn, Reboot, StartupTypes
<1>4. CASE Boot \/ TaskSkipped
  BY <1>4 DEF Boot, TaskSkipped
<1>5. CASE SendNextInput
  BY <1>2, <1>5 DEF SendNextInput, InputNothing, InputFound, InputWrite, InputRelease, InputAck
<1>6. CASE ReceiveNextOutput
  <2>1. CASE OutputSend
    BY <1>2, <2>1 DEF OutputSend
  <2>2. CASE ~OutputSend
    BY <1>6, <2>2 DEF ReceiveNextOutput, OutputNothing, OutputPoll, OutputClear
  <2>3. QED
    BY <2>1, <2>2
<1>7. CASE USBTask
  BY <1>2, <1>7 DEF USBTask, UsbTaskNothing, ClearSetFeature, SetHalt, ClearHalt, RequestStatus,
                    SetConfiguration, RequestTooBig, RequestForwarded
<1>8. CASE ControlSendIn \/ ControlSendOut
  BY <1>2, <1>8 DEF ControlSendIn, ControlSendOut, SendControl
<1>9. CASE UnhandledControlRequest /\ ~ControlSendIn /\ ~ControlSendOut
  BY <1>9 DEF UnhandledControlRequest, ControlClearReply, ControlClearStall, ControlReadSetup,
       ControlReadAborted, ControlWait, ControlReplied, ControlTimeout, ControlStalled,
       ControlAccepted, ControlReturnData, ControlWriteFirst, ControlWriteSecond,
       ControlWriteAborted
<1>10. QED
  BY <1>3, <1>4, <1>5, <1>6, <1>7, <1>8, <1>9 DEF EmuNext, EmuMain

\* The proxy: start-up packets, a report or RESET, if it is none of the steps
\* that answer a request.
AnswersRequest == ProcessControl \/ ControlReadDone \/ ControlWriteDone

LEMMA NextSentWithin ==
    ASSUME NEW types, "IN" \notin types, toEmu \in Seq(Packet),
           NEW pending, NEW fifo \in Seq(InEps), NEW packets \in [InEps -> Packet],
           \A e \in InEps : packets[e].type = "IN",
           NEW ok, send_next_in_packet(pending, fifo, packets, ok)
    PROVE  Within(types, toEmu, toEmu')
<1>1. CASE CanSend(pending, fifo) /\ ok
  <2>1. Head(fifo) \in InEps
    BY <1>1, HeadTailProperties DEF CanSend
  <2>2. /\ toEmu' = Append(toEmu, packets[Head(fifo)])
        /\ packets[Head(fifo)] \in Packet /\ packets[Head(fifo)].type \notin types
    BY <1>1, <2>1 DEF send_next_in_packet, adapter_send
  <2>3. QED
    BY <2>2, WithinAppend
<1>2. CASE ~(CanSend(pending, fifo) /\ ok)
  BY <1>2, WithinSame DEF send_next_in_packet
<1>3. QED
  BY <1>1, <1>2

LEMMA ReadDoneWrites ==
    ASSUME TypeInv, LineInv, NEW types, "IN" \notin types, NEW e \in InEps, ReadDone(e)
    PROVE  Within(types, toEmu, toEmu')
<1>0. toEmu \in Seq(Packet)
  BY DEF TypeInv, TypeOK, SerialTypeOK
<1>1. CASE toEmu' = toEmu
  BY <1>0, <1>1, WithinSame
<1>2. CASE toEmu' # toEmu
  <2> DEFINE packets == [inPackets EXCEPT ![e] = Pkt("IN", U2S[e], reports[e] + 1)]
             fifo == Append(inEpFifo, e)
  <2>1. PICK ok \in SendResults : send_next_in_packet(inPending, fifo, packets, ok)
    BY <1>2 DEF ReadDone
  <2>2. /\ inEpFifo \in Seq(InEps) /\ inPackets \in [InEps -> Packet]
        /\ \A f \in InEps : inPackets[f].type = "IN"
        /\ reports[e] + 1 \in Nat /\ U2S[e] \in Nat
    BY RenumberingAssumption DEF RenumberingOK, TypeInv, TypeOK, ProxyTypeOK, GusbTypeOK, UsbEps,
                                 LineInv, PacketsAddressed
  <2>3. Pkt("IN", U2S[e], reports[e] + 1) \in Packet
    BY <2>2, PktType DEF PacketTypes
  <2>4. /\ packets \in [InEps -> Packet] /\ fifo \in Seq(InEps)
        /\ \A f \in InEps : packets[f].type = "IN"
    BY <2>2, <2>3, AppendProperties DEF Pkt
  <2> HIDE DEF packets, fifo
  <2>5. QED
    BY <1>0, <2>1, <2>4, NextSentWithin
<1>3. QED
  BY <1>1, <1>2

LEMMA ProcessPacketWrites ==
    ASSUME TypeInv, LineInv, ProcessPacket, ~AnswersRequest,
           NEW types, types \intersect (StartupTypes \union {"IN", "RESET"}) = {}
    PROVE  Within(types, toEmu, toEmu')
<1>0. /\ toEmu \in Seq(Packet) /\ inEpFifo \in Seq(InEps) /\ inPackets \in [InEps -> Packet]
      /\ \A e \in InEps : inPackets[e].type = "IN"
      /\ SendResults \subseteq BOOLEAN
  BY DEF TypeInv, TypeOK, SerialTypeOK, ProxyTypeOK, LineInv, PacketsAddressed,
         SendResults, Results
<1>1. CASE ProcessDescriptors
  <2>1. PICK ok \in SendResults :
           toEmu' = toEmu \/ adapter_send_chunks(Chunks("INDEX", NIndex), ok)
    BY <1>1 DEF ProcessDescriptors
  <2>2. "INDEX" \in PacketTypes \ types /\ ok \in BOOLEAN /\ NIndex \in Nat
    BY <1>0, ProxyAssumption DEF PacketTypes, StartupTypes
  <2>3. QED
    BY <1>0, <2>1, <2>2, WithinChunks, WithinSame
<1>2. CASE ProcessIndex
  <2>1. toEmu' = toEmu \/ toEmu' = Append(toEmu, Ack("ENDPOINTS"))
    BY <1>2 DEF ProcessIndex, adapter_send
  <2>2. Ack("ENDPOINTS") \in Packet /\ Ack("ENDPOINTS").type \notin types
    BY AckType DEF PacketTypes, StartupTypes, Ack, Pkt
  <2>3. Within(types, toEmu, Append(toEmu, Ack("ENDPOINTS")))
    BY <1>0, <2>2, WithinAppend
  <2>4. QED
    BY <1>0, <2>1, <2>3, WithinSame
<1>3. CASE ProcessIn
  <2>1. \/ toEmu' = toEmu
        \/ \E sent \in SendResults : send_next_in_packet(0, inEpFifo, inPackets, sent)
    BY <1>3 DEF ProcessIn
  <2>2. QED
    BY <1>0, <2>1, NextSentWithin, WithinSame
<1>4. CASE ProcessEndpoints \/ ProcessOut \/ ProcessDebug \/ ProcessReset
  <2>1. toEmu' = toEmu
    BY <1>4 DEF ProcessEndpoints, ProcessOut, ProcessDebug, ProcessReset
  <2>2. QED
    BY <1>0, <2>1, WithinSame
<1>5. QED
  BY <1>1, <1>2, <1>3, <1>4 DEF ProcessPacket, AnswersRequest

LEMMA ProxyWrites ==
    ASSUME TypeInv, LineInv, ProxyStep, ~AnswersRequest,
           NEW types, types \intersect (StartupTypes \union {"IN", "RESET"}) = {}
    PROVE  Within(types, toEmu, toEmu')
<1>0. toEmu \in Seq(Packet) /\ SendResults \subseteq BOOLEAN
  BY DEF TypeInv, TypeOK, SerialTypeOK, SendResults, Results
<1>1. CASE ProxyStart \/ ProxyStartFails
  <2>1. PICK ok \in BOOLEAN : adapter_send_chunks(Chunks("DESCRIPTORS", NDescriptors), ok)
    BY <1>1 DEF ProxyStart, ProxyStartFails
  <2>2. "DESCRIPTORS" \in PacketTypes \ types /\ NDescriptors \in Nat
    BY ProxyAssumption DEF PacketTypes, StartupTypes
  <2>3. QED
    BY <1>0, <2>1, <2>2, WithinChunks
<1>2. CASE ProcessPacket
  BY <1>2, ProcessPacketWrites
<1>3. CASE \E e \in InEps : ReadDone(e)
  BY <1>3, ReadDoneWrites DEF StartupTypes
<1>4. CASE SendReset
  <2>1. PICK ok \in SendResults : adapter_send(Ack("RESET"), ok)
    BY <1>4 DEF SendReset
  <2>2. Ack("RESET") \in Packet /\ Ack("RESET").type \notin types
    BY AckType DEF PacketTypes, Ack, Pkt
  <2>3. QED
    BY <1>0, <2>1, <2>2, WithinAppend, WithinSame DEF adapter_send
<1>5. CASE \/ ProxyStop \/ InitTimeout \/ Closed \/ TimerTick \/ Cancelled \/ ProxyExit
           \/ \E e \in InEps : ReadFailed(e)
           \/ \E e \in OutEps : WriteDone(e)
  <2>1. toEmu' = toEmu
    BY <1>5 DEF ProxyStop, InitTimeout, Closed, TimerTick, Cancelled, ProxyExit, ReadFailed,
                WriteDone, serialVars
  <2>2. QED
    BY <1>0, <2>1, WithinSame
<1>6. QED
  BY <1>1, <1>2, <1>3, <1>4, <1>5
     DEF ProxyStep, ProxyNext, ProxyLeave, UsbCallback, AnswersRequest

LEMMA ProxyReads ==
    ASSUME ProxyStep
    PROVE  toProxy' = toProxy \/ (toProxy # <<>> /\ toProxy' = Tail(toProxy) /\ ProcessPacket)
<1>1. CASE ProcessPacket
  BY <1>1 DEF ProcessPacket, ProcessDescriptors, ProcessIndex, ProcessEndpoints, ProcessIn,
              ProcessOut, ProcessControl, ProcessDebug, ProcessReset, Receive
<1>2. CASE ~ProcessPacket
  BY <1>2 DEF ProxyStep, ProxyNext, ProxyLeave, UsbCallback, ProxyStart, ProxyStartFails,
              ReadDone, ReadFailed, ControlReadDone, ControlWriteDone, WriteDone, ProxyStop,
              InitTimeout, Closed, TimerTick, SendReset, Cancelled, ProxyExit, serialVars
<1>3. QED
  BY <1>1, <1>2

-----------------------------------------------------------------------------
(* The steps of the proxy answer the request or leave it alone. *)

\* The reply to the request is sent, or its sending fails, or nothing is sent.
LEMMA Replied ==
    ASSUME toEmu \in Seq(Packet), Free(ControlTypes, toEmu), Free(ControlTypes, toProxy'),
           Waits, Waits', request' = request, ctrlXfers' = <<>>,
           \/ toEmu' = toEmu
           \/ \E p \in Packet : p.data = request /\ toEmu' = Append(toEmu, p)
    PROVE  OneRequest'
<1>1. Single(toEmu', request)
  BY SinglePut, FreeSingle
<1>2. Single(toProxy', request)
  BY FreeSingle
<1>3. QED
  BY <1>1, <1>2 DEF OneRequest

LEMMA ProcessControlOne ==
    ASSUME TypeInv, OneRequest, ProcessControl, UNCHANGED emuVars
    PROVE  OneRequest'
<1>1. /\ toProxy \in Seq(Packet) /\ toEmu \in Seq(Packet) /\ request \in Nat
      /\ Waits' = Waits /\ request' = request
  BY DEF TypeInv, TypeOK, SerialTypeOK, EmuTypeOK, emuVars, mainVars, ctlVars, Waits
<1>2. /\ toProxy # <<>> /\ Head(toProxy).type = "CONTROL" /\ toProxy' = Tail(toProxy)
  BY DEF ProcessControl, Receive
<1>3. /\ Free(ControlTypes, toProxy') /\ Head(toProxy).data = request
      /\ ~Free(ControlTypes, toProxy)
  BY <1>1, <1>2, SingleTaken DEF OneRequest, ControlTypes
<1>4. Waits /\ ctrlXfers = <<>> /\ Free(ControlTypes, toEmu)
  BY <1>3 DEF OneRequest
<1>5. CASE ctrlXfers' = ctrlXfers
  <2>1. Pkt("CONTROL_STALL", 0, request) \in Packet
    BY <1>1, PktType DEF PacketTypes
  <2>2. toEmu' = toEmu \/ toEmu' = Append(toEmu, Pkt("CONTROL_STALL", 0, request))
    BY <1>3 DEF ProcessControl, adapter_send
  <2>3. \/ toEmu' = toEmu
        \/ \E p \in Packet : p.data = request /\ toEmu' = Append(toEmu, p)
    BY <2>1, <2>2 DEF Pkt
  <2>4. QED
    BY <1>1, <1>3, <1>4, <1>5, <2>3, Replied
<1>6. CASE ctrlXfers' # ctrlXfers
  <2>1. ctrlXfers' = Append(ctrlXfers, request) /\ toEmu' = toEmu
    BY <1>3, <1>6 DEF ProcessControl, gusb_write_control
  <2>2. ctrlXfers' = <<request>>
    BY <1>4, <2>1
  <2>3. Len(ctrlXfers') = 1 /\ ctrlXfers'[1] = request
    BY <2>2
  <2>4. Single(toProxy', request) /\ Single(toEmu', request)
    BY <1>3, <1>4, <2>1, FreeSingle
  <2>5. QED
    BY <1>1, <1>3, <1>4, <2>1, <2>3, <2>4 DEF OneRequest
<1>7. QED
  BY <1>5, <1>6

LEMMA ControlDoneOne ==
    ASSUME TypeInv, OneRequest, ControlReadDone \/ ControlWriteDone, UNCHANGED emuVars
    PROVE  OneRequest'
<1>1. /\ toEmu \in Seq(Packet) /\ request \in Nat /\ Waits' = Waits /\ request' = request
      /\ ctrlXfers \in Seq(Nat)
  BY DEF TypeInv, TypeOK, SerialTypeOK, GusbTypeOK, EmuTypeOK, emuVars, mainVars, ctlVars, Waits
<1>2. toProxy' = toProxy /\ ctrlXfers # <<>> /\ ctrlXfers' = Tail(ctrlXfers)
  BY DEF ControlReadDone, ControlWriteDone, RemoveControl
<1>3. /\ Waits /\ Free(ControlTypes, toProxy) /\ Free(ControlTypes, toEmu)
      /\ Len(ctrlXfers) = 1 /\ ctrlXfers[1] = request
  BY <1>2 DEF OneRequest
<1>4. Head(ctrlXfers) = request /\ ctrlXfers' = <<>>
  <2>1. ctrlXfers' \in Seq(Nat) /\ Len(ctrlXfers') = 0
    BY <1>1, <1>2, <1>3, HeadTailProperties
  <2>2. QED
    BY <1>1, <1>2, <1>3, <2>1, EmptySeq
<1>5. \/ toEmu' = toEmu
      \/ \E type \in ControlTypes : toEmu' = Append(toEmu, Pkt(type, 0, request))
  <2>1. CASE ControlReadDone
    BY <1>4, <2>1 DEF ControlReadDone, ControlTypes
  <2>2. CASE ControlWriteDone
    BY <1>4, <2>2 DEF ControlWriteDone, adapter_send, ControlTypes
  <2>3. QED
    BY <2>1, <2>2
<1>6. \A type \in ControlTypes :
         Pkt(type, 0, request) \in Packet /\ Pkt(type, 0, request).data = request
  BY <1>1, PktType DEF PacketTypes, ControlTypes, Pkt
<1>7. QED
  BY <1>1, <1>2, <1>3, <1>4, <1>5, <1>6, Replied

LEMMA ProxyStepOne ==
    ASSUME TypeInv, TypeInv', LineInv, OneRequest, ProxyStep
    PROVE  OneRequest'
<1>0. /\ UNCHANGED emuVars
      /\ toEmu' \in Seq(Packet) /\ toProxy' \in Seq(Packet) /\ toProxy \in Seq(Packet)
      /\ ctrlXfers \in Seq(Nat)
  BY DEF ProxyStep, TypeInv, TypeOK, SerialTypeOK, GusbTypeOK
<1>1. CASE AnswersRequest
  BY <1>0, <1>1, ProcessControlOne, ControlDoneOne DEF AnswersRequest
<1>2. CASE ~AnswersRequest
  <2>1. Within(ControlTypes, toEmu, toEmu')
    BY <1>2, ProxyWrites DEF ControlTypes, StartupTypes
  <2>2. Within(ControlTypes, toProxy, toProxy')
    BY <1>0, ProxyReads, WithinTail, WithinSame
  <2>3. ctrlXfers' = ctrlXfers \/ ctrlXfers' = <<>>
    <3>1. CASE RemoveControl
      <4>1. Len(ctrlXfers) = 1 /\ ctrlXfers # <<>> /\ ctrlXfers' = Tail(ctrlXfers)
        BY <3>1 DEF OneRequest, RemoveControl
      <4>2. Len(ctrlXfers') = 0 /\ ctrlXfers' \in Seq(Nat)
        BY <1>0, <4>1, HeadTailProperties
      <4>3. QED
        BY <4>2, EmptySeq
    <3>2. CASE ~RemoveControl
      BY <1>2, <3>2
         DEF AnswersRequest, ProxyStep, ProxyNext, ProxyLeave, UsbCallback, ProcessPacket,
             ProcessDescriptors, ProcessIndex, ProcessEndpoints, ProcessIn, ProcessOut,
             ProcessDebug, ProcessReset, ProxyStart, ProxyStartFails, ReadDone, ReadFailed, WriteDone,
             ProxyStop, InitTimeout, Closed, TimerTick, SendReset, Cancelled, ProxyExit, gusbVars
    <3>3. QED
      BY <3>1, <3>2
  <2>4. Waits' = Waits /\ request' = request
    BY <1>0 DEF emuVars, mainVars, ctlVars, Waits
  <2>5. QED
    BY <1>0, <2>1, <2>2, <2>3, <2>4, RequestKept
<1>3. QED
  BY <1>1, <1>2

-----------------------------------------------------------------------------
(* The steps of the firmware. *)

LEMMA EmuSendsNoRequest ==
    ASSUME TypeInv, EmuNext, ~ControlSendIn, ~ControlSendOut
    PROVE  Within(ControlTypes, toProxy, toProxy')
<1>1. toProxy \in Seq(Packet)
  BY DEF TypeInv, TypeOK, SerialTypeOK
<1>2. \/ toProxy' = toProxy
      \/ \E p \in Packet : /\ toProxy' = Append(toProxy, p)
                           /\ p.type \in StartupTypes \union {"IN", "DEBUG", "OUT"}
  BY EmuWrites DEF Pkt
<1>3. \A p \in Packet : p.type \in StartupTypes \union {"IN", "DEBUG", "OUT"}
                           => p.type \notin ControlTypes
  BY DEF StartupTypes, ControlTypes
<1>4. QED
  BY <1>1, <1>2, <1>3, WithinSame, WithinAppend

\* The interrupt handler takes a reply.
LEMMA RxReplyControl ==
    ASSUME TypeInv, OneRequest, Forwarding, RxControl \/ RxControlStall, UNCHANGED gusbVars
    PROVE  OneRequest' /\ Forwarding'
<1>1. /\ toEmu \in Seq(Packet) /\ toEmu # <<>> /\ toEmu' = Tail(toEmu)
      /\ Head(toEmu).type \in ControlTypes /\ toProxy \in Seq(Packet)
  BY Interrupted DEF RxControl, RxControlStall, ControlTypes
<1>2. /\ Free(ControlTypes, toEmu') /\ Head(toEmu).data = request
      /\ ~Free(ControlTypes, toEmu)
  BY <1>1, SingleTaken DEF OneRequest
<1>3. Waits /\ Free(ControlTypes, toProxy) /\ ctrlXfers = <<>>
  BY <1>2 DEF OneRequest
<1>4. /\ UNCHANGED <<toProxy, pc, request>> /\ controlReply' /\ replyTo' = request
      /\ \/ controlStall'
         \/ request \notin InRequests
         \/ control' = request /\ controlReplyLen' = 1
  BY <1>2 DEF RxControl, RxControlStall, mainVars
<1>5. Single(toProxy', request') /\ Single(toEmu', request')
  BY <1>2, <1>3, <1>4, FreeSingle
<1>6. pc \in {"ctl_wait", "ctl_decide"}
  BY <1>3 DEF Waits
<1>7. Forwarding'
  BY <1>4, <1>6 DEF Forwarding, ReplyFits
<1>8. OneRequest'
  BY <1>2, <1>3, <1>4, <1>5 DEF OneRequest, gusbVars
<1>9. QED
  BY <1>7, <1>8

\* Any other packet.
LEMMA RxOtherControl ==
    ASSUME TypeInv, TypeInv', OneRequest, Forwarding, UNCHANGED gusbVars,
           RxDescriptors \/ RxIndex \/ RxEndpoints \/ RxIn
    PROVE  OneRequest' /\ Forwarding'
<1>1. /\ toEmu \in Seq(Packet) /\ toEmu # <<>> /\ toEmu' = Tail(toEmu)
      /\ toEmu' \in Seq(Packet) /\ toProxy' \in Seq(Packet)
  BY DEF RxDescriptors, RxIndex, RxEndpoints, RxIn, Interrupt, TypeInv, TypeOK, SerialTypeOK
<1>2. Within(ControlTypes, toEmu, toEmu')
  BY <1>1, WithinTail
<1>3. UNCHANGED <<ctlVars, mainVars>> /\ EmuNext
  BY DEF RxDescriptors, RxIndex, RxEndpoints, RxIn, EmuNext, EmuInterrupt
<1>4. Within(ControlTypes, toProxy, toProxy')
  <2>1. UNCHANGED pc /\ ~(toProxy' = Append(toProxy, Pkt("CONTROL", 0, request)))
    <3>1. toProxy \in Seq(Packet) /\ request \in Nat
      BY DEF TypeInv, TypeOK, SerialTypeOK, EmuTypeOK
    <3>2. \/ toProxy' = toProxy
          \/ \E type \in StartupTypes : toProxy' = Append(toProxy, Ack(type))
      BY DEF RxDescriptors, RxIndex, RxEndpoints, RxIn, StartupTypes
    <3>3. \A type \in StartupTypes : Ack(type) \in Packet
      BY AckType DEF StartupTypes, PacketTypes
    <3>4. Pkt("CONTROL", 0, request) \in Packet
      BY <3>1, PktType DEF PacketTypes
    <3>5. \A type \in StartupTypes : Ack(type) # Pkt("CONTROL", 0, request)
      BY DEF StartupTypes, Ack, Pkt
    <3>6. \A p \in Packet : /\ Len(Append(toProxy, p)) = Len(toProxy) + 1
                            /\ Append(toProxy, p)[Len(toProxy) + 1] = p
      BY <3>1, AppendProperties
    <3>7. Len(toProxy) \in Nat
      BY <3>1, LenProperties
    <3>8. QED
      BY <1>3, <3>2, <3>3, <3>4, <3>5, <3>6, <3>7 DEF mainVars
  <2>2. ~ControlSendIn /\ ~ControlSendOut
    BY <2>1 DEF ControlSendIn, ControlSendOut, SendControl
  <2>3. QED
    BY <1>3, <2>2, EmuSendsNoRequest
<1>5. Waits' = Waits /\ request' = request
  BY <1>3 DEF Waits, ctlVars, mainVars
<1>6. OneRequest'
  BY <1>1, <1>2, <1>4, <1>5, RequestKept DEF gusbVars
<1>7. Forwarding'
  BY <1>3 DEF Forwarding, ReplyFits, ctlVars, mainVars
<1>8. QED
  BY <1>6, <1>7

\* No start-up packet is left when the firmware is told to reset.
LEMMA ResetOver ==
    ASSUME TypeInv, LineInv, NEW d, NEW x, HandshakeFrom(d, x), RxReset \/ Reboot,
           UNCHANGED proxyVars
    PROVE  Over'
<1>1. PICK a \in Nat, b \in Nat, c \in {0, 1} : Handshake(d, x, a, b, c)
  BY DEF HandshakeFrom
<1>2. toEmu \in Seq(Packet)
  BY DEF TypeInv, TypeOK, SerialTypeOK
<1>3. CASE RxReset
  <2>1. toEmu # <<>> /\ toEmu' = Tail(toEmu) /\ Head(toEmu).type = "RESET" /\ pc' = "hardreset"
    BY <1>3 DEF RxReset, Interrupt
  <2>2. Startup(toEmu', 0, 0, 0) /\ toEmu' \in Seq(Packet)
    BY <1>1, <1>2, <2>1, StartupTail, HeadTailProperties DEF Handshake, StartupTypes
  <2>3. Free(StartupTypes, toEmu')
    BY <2>2, StartupNone DEF Free
  <2>4. ~Running
    <3>1. Head(toEmu) = toEmu[1] /\ 1 \in DOMAIN toEmu
      BY <1>2, <2>1, HeadTailProperties, LenProperties, EmptySeq
    <3>2. QED
      BY <2>1, <3>1 DEF LineInv, NoReset, NoneOf
  <2>5. QED
    BY <2>1, <2>3, <2>4 DEF Over, Running, proxyVars
<1>4. CASE Reboot
  <2>1. pc = "hardreset" /\ pc' = "boot" /\ ~started' /\ ~Running
    BY <1>4 DEF Reboot, LineInv, NoReset
  <2>2. Startup(toEmu, 0, 0, 0)
    BY <1>1, <2>1 DEF Handshake, FirmwareWaits
  <2>3. Free(StartupTypes, toEmu)
    BY <1>2, <2>2, StartupNone DEF Free
  <2>4. Within(StartupTypes, toEmu, toEmu')
    BY <1>2, <1>4, WithinSuffix DEF Reboot
  <2>5. QED
    BY <2>1, <2>3, <2>4, FreeWithin DEF Over, Running, proxyVars
<1>5. QED
  BY <1>3, <1>4

\* The main loop sends a request, and waits for its reply.
LEMMA SendControlOne ==
    ASSUME TypeInv, OneRequest, Forwarding, ControlSendIn \/ ControlSendOut, UNCHANGED gusbVars
    PROVE  OneRequest' /\ Forwarding'
<1>1. /\ toProxy \in Seq(Packet) /\ request \in Nat
      /\ toProxy' = Append(toProxy, Pkt("CONTROL", 0, request))
      /\ pc \in {"ctl_send", "ctl_read"} /\ pc' = "ctl_wait"
      /\ UNCHANGED <<toEmu, ctlVars, request, ctrlXfers>>
  BY DEF TypeInv, TypeOK, SerialTypeOK, EmuTypeOK, ControlSendIn, ControlSendOut, SendControl,
         Goto, MainUnchanged, gusbVars
<1>2. ~controlReply /\ ~Waits /\ Waits'
  BY <1>1 DEF Forwarding, Waits, ctlVars
<1>3. /\ Free(ControlTypes, toProxy) /\ Free(ControlTypes, toEmu) /\ ctrlXfers = <<>>
  BY <1>2 DEF OneRequest
<1>4. Pkt("CONTROL", 0, request) \in Packet /\ Pkt("CONTROL", 0, request).data = request
  BY <1>1, PktType DEF PacketTypes, Pkt
<1>5. Single(toProxy', request') /\ Single(toEmu', request')
  <2>1. Single(Append(toProxy, Pkt("CONTROL", 0, request)), Pkt("CONTROL", 0, request).data)
    BY <1>1, <1>3, <1>4, SinglePut
  <2>2. Single(toEmu, request)
    BY <1>3, FreeSingle
  <2>3. QED
    BY <1>1, <1>4, <2>1, <2>2
<1>6. OneRequest'
  BY <1>1, <1>2, <1>3, <1>5 DEF OneRequest
<1>7. Forwarding'
  BY <1>1, <1>2 DEF Forwarding, ControlSteps, ctlVars
<1>8. QED
  BY <1>6, <1>7

\* Any other step of the main loop, unless it gives up waiting.
LEMMA MainForwarding ==
    ASSUME TypeInv, Forwarding, EmuMain, ~ControlSendIn, ~ControlSendOut, ~ControlTimeout
    PROVE  Forwarding' /\ (Waits => Waits' /\ request' = request)
<1>0. returnTo \in {"input", "out_clear"}
  BY DEF TypeInv, TypeOK, EmuTypeOK
<1> USE DEF Goto, MainUnchanged, TaskReturns
<1>1. ASSUME pc' \notin ControlSteps, ~Waits
      PROVE  Forwarding' /\ (Waits => Waits' /\ request' = request)
  BY <1>1 DEF Forwarding, ControlSteps
<1>2. CASE Boot \/ TaskSkipped \/ SendNextInput \/ ReceiveNextOutput
  <2>1. pc' \notin ControlSteps /\ pc \notin ControlSteps
    BY <1>2 DEF Boot, TaskSkipped, SendNextInput, InputNothing, InputFound, InputWrite,
                InputRelease, InputAck, ReceiveNextOutput, OutputNothing, OutputPoll,
                OutputClear, OutputSend, ControlSteps
  <2>2. QED
    BY <1>1, <2>1 DEF Waits, ControlSteps
<1>3. CASE UsbTaskNothing \/ SetConfiguration \/ ClearSetFeature \/ RequestStatus \/ RequestTooBig
  <2>1. pc' \notin ControlSteps /\ pc \notin ControlSteps
    BY <1>0, <1>3 DEF UsbTaskNothing, ClearSetFeature, SetHalt, ClearHalt, RequestStatus,
                      SetConfiguration, RequestTooBig, ControlSteps
  <2>2. QED
    BY <1>1, <2>1 DEF Waits, ControlSteps
<1>4. CASE RequestForwarded
  BY <1>4 DEF RequestForwarded, Forwarding, Waits
<1>5. CASE ControlReadAborted \/ ControlStalled \/ ControlAccepted \/ ControlWriteSecond
           \/ ControlWriteAborted
  <2>1. /\ pc' \notin ControlSteps
        /\ pc \in {"ctl_read", "ctl_finish", "ctl_write", "ctl_write2"}
    BY <1>0, <1>5 DEF ControlReadAborted, ControlStalled, ControlAccepted, ControlWriteSecond,
                      ControlWriteAborted, ControlSteps
  <2>2. QED
    BY <1>1, <2>1 DEF Waits, ControlSteps
<1>6. CASE ControlClearReply \/ ControlClearStall \/ ControlReadSetup
  BY <1>6 DEF ControlClearReply, ControlClearStall, ControlReadSetup, Forwarding, ControlSteps,
              Waits, ctlVars
<1>7. CASE ControlWait
  BY <1>7 DEF ControlWait, Forwarding, ReplyFits, ControlSteps, Waits, ctlVars
<1>8. CASE ControlReplied
  BY <1>8 DEF ControlReplied, Forwarding, ReplyFits, ControlSteps, Waits, ctlVars
<1>9. CASE ControlReturnData \/ ControlWriteFirst
  BY <1>9 DEF ControlReturnData, ControlWriteFirst, Forwarding, ReplyFits, ControlSteps, Waits,
              ctlVars
<1>10. QED
  BY <1>2, <1>3, <1>4, <1>5, <1>6, <1>7, <1>8, <1>9
     DEF EmuMain, USBTask, UnhandledControlRequest

LEMMA MainControl ==
    ASSUME TypeInv, TypeInv', OneRequest, Forwarding, EmuMain, ~ControlTimeout,
           UNCHANGED gusbVars
    PROVE  OneRequest' /\ Forwarding'
<1>1. CASE ControlSendIn \/ ControlSendOut
  BY <1>1, SendControlOne
<1>2. CASE ~ControlSendIn /\ ~ControlSendOut
  <2>1. toEmu' = toEmu /\ toEmu \in Seq(Packet) /\ toProxy' \in Seq(Packet)
    BY MainFrame DEF TypeInv, TypeOK, SerialTypeOK
  <2>2. Within(ControlTypes, toProxy, toProxy')
    BY <1>2, EmuSendsNoRequest DEF EmuNext
  <2>3. Within(ControlTypes, toEmu, toEmu')
    BY <2>1, WithinSame
  <2>4. Forwarding' /\ (Waits => Waits' /\ request' = request)
    BY <1>2, MainForwarding
  <2>5. OneRequest'
    BY <2>1, <2>2, <2>3, <2>4, RequestKept DEF gusbVars
  <2>6. QED
    BY <2>4, <2>5
<1>3. QED
  BY <1>1, <1>2

\* Once it has reset, the firmware waits for start-up packets that never come.
LEMMA OverKept ==
    ASSUME TypeInv, TypeInv', LineInv, NEW d, NEW x, HandshakeFrom(d, x), Over, Next
    PROVE  Over'
<1>0. toEmu \in Seq(Packet) /\ ctrlXfers \in Seq(Nat)
  BY DEF TypeInv, TypeOK, SerialTypeOK, GusbTypeOK
<1>1. CASE ProxyStep
  <2>1. ~Running' /\ pc' = pc /\ started' = started
    BY <1>1 DEF Over, Running, ProxyStep, ProxyNext, ProxyLeave, UsbCallback, ProcessPacket,
            ProcessDescriptors, ProcessIndex, ProcessEndpoints, ProcessIn, ProcessOut,
            ProcessControl, ProcessDebug, ProcessReset, Receive, ProxyStart, ProxyStartFails, ReadDone,
            ReadFailed, ControlReadDone, ControlWriteDone, WriteDone, ProxyStop, InitTimeout,
            Closed, TimerTick, SendReset, Cancelled, ProxyExit, proxyVars, TypeInv, TypeOK,
            ProxyTypeOK, Phases, emuVars, isrVars, mainVars
  <2>2. Within(StartupTypes, toEmu, toEmu')
    <3>1. CASE ControlReadDone \/ ControlWriteDone
      <4>1. ctrlXfers # <<>> /\ Head(ctrlXfers) \in Nat
        BY <1>0, <3>1, HeadTailProperties DEF ControlReadDone, ControlWriteDone, RemoveControl
      <4>2. \/ toEmu' = toEmu
            \/ \E type \in ControlTypes : toEmu' = Append(toEmu, Pkt(type, 0, Head(ctrlXfers)))
        <5>1. CASE ControlReadDone
          BY <5>1 DEF ControlReadDone, ControlTypes
        <5>2. CASE ControlWriteDone
          BY <5>2 DEF ControlWriteDone, adapter_send, ControlTypes
        <5>3. QED
          BY <3>1, <5>1, <5>2
      <4>3. \A type \in ControlTypes :
               /\ Pkt(type, 0, Head(ctrlXfers)) \in Packet
               /\ Pkt(type, 0, Head(ctrlXfers)).type \notin StartupTypes
        BY <4>1, PktType DEF ControlTypes, PacketTypes, StartupTypes, Pkt
      <4>4. QED
        BY <1>0, <4>2, <4>3, WithinSame, WithinAppend
    <3>2. CASE \E e \in InEps : ReadDone(e)
      BY <3>2, ReadDoneWrites DEF StartupTypes
    <3>3. CASE ~ControlReadDone /\ ~ControlWriteDone /\ ~(\E e \in InEps : ReadDone(e))
      <4>1. toEmu' = toEmu
        BY <1>1, <3>3 DEF Over, Running, ProxyStep, ProxyNext, ProxyLeave, UsbCallback,
            ProcessPacket, ProcessDescriptors, ProcessIndex, ProcessEndpoints, ProcessIn,
            ProcessOut, ProcessControl, ProcessDebug, ProcessReset, Receive, ProxyStart, ProxyStartFails,
            ReadFailed, WriteDone, ProxyStop, InitTimeout, Closed, TimerTick, SendReset,
            Cancelled, ProxyExit, serialVars
      <4>2. QED
        BY <1>0, <4>1, WithinSame
    <3>4. QED
      BY <3>1, <3>2, <3>3
  <2>3. QED
    BY <2>1, <2>2, FreeWithin DEF Over
<1>2. CASE EmuStep
  <2>0. UNCHANGED proxyVars
    BY <1>2 DEF EmuStep
  <2>1. CASE RxReset \/ Reboot
    BY <2>0, <2>1, ResetOver
  <2>2. CASE EmuMain
    BY <2>2, MainFrame, SendNextInputFrame, QuietMainFrame DEF Over, EmuMain, QuietMain, MainSteps
  <2>3. CASE RxDescriptors \/ RxIndex \/ RxEndpoints
    <3>1. toEmu # <<>> /\ Head(toEmu).type \in StartupTypes
      BY <2>3 DEF RxDescriptors, RxIndex, RxEndpoints, Interrupt, StartupTypes
    <3>2. Head(toEmu) = toEmu[1] /\ 1 \in DOMAIN toEmu
      BY <1>0, <3>1, HeadTailProperties, LenProperties, EmptySeq
    <3>3. QED
      BY <3>1, <3>2 DEF Over, Free
  <2>4. CASE RxControl \/ RxControlStall \/ RxIn
    <3>1. /\ toEmu # <<>> /\ toEmu' = Tail(toEmu) /\ pc' = pc /\ started' = started
      BY <2>4 DEF RxControl, RxControlStall, RxIn, Interrupt, isrVars, mainVars
    <3>2. Within(StartupTypes, toEmu, toEmu')
      BY <1>0, <3>1, WithinTail
    <3>3. QED
      BY <2>0, <3>1, <3>2, FreeWithin DEF Over, Running, proxyVars
  <2>5. QED
    BY <1>2, <2>1, <2>2, <2>3, <2>4 DEF EmuStep, EmuNext, EmuInterrupt
<1>3. CASE HostStep
  BY <1>3 DEF HostStep, Over, Running, serialVars, proxyVars, emuVars, isrVars, mainVars
<1>4. QED
  BY <1>1, <1>2, <1>3 DEF Next

-----------------------------------------------------------------------------
(* The invariant, and what follows from it. *)

LEMMA TimeoutsGrow ==
    ASSUME TypeInv, [Next]_vars, timeouts' = 0
    PROVE  timeouts = 0 /\ ~ControlTimeout
<1>0. timeouts \in Nat
  BY DEF TypeInv, TypeOK, EmuTypeOK
<1>1. CASE ProxyStep \/ HostStep \/ UNCHANGED vars
  BY <1>0, <1>1 DEF ProxyStep, HostStep, vars, emuVars, mainVars, ControlTimeout
<1>2. CASE EmuStep
  <2>1. CASE ControlTimeout
    BY <1>0, <2>1 DEF ControlTimeout
  <2>2. CASE EmuInterrupt \/ Reboot
    BY <1>0, <2>2 DEF EmuInterrupt, RxDescriptors, RxIndex, RxEndpoints, RxReset, RxControl,
                      RxControlStall, RxIn, Reboot, mainVars, ControlTimeout
  <2>3. CASE EmuMain /\ ~ControlTimeout
    BY <1>0, <2>3 DEF EmuMain, Boot, TaskSkipped, SendNextInput, InputNothing, InputFound,
       InputWrite, InputRelease, InputAck, ReceiveNextOutput, OutputNothing, OutputPoll,
       OutputClear, OutputSend, USBTask, UsbTaskNothing, ClearSetFeature, SetHalt, ClearHalt,
       RequestStatus, SetConfiguration, RequestTooBig,
       RequestForwarded, UnhandledControlRequest, ControlClearReply, ControlClearStall,
       ControlSendIn, ControlReadSetup, ControlSendOut, ControlReadAborted, ControlWait,
       ControlReplied, ControlStalled, ControlAccepted, ControlReturnData, ControlWriteFirst,
       ControlWriteSecond, ControlWriteAborted, MainUnchanged
  <2>4. QED
    BY <1>2, <2>1, <2>2, <2>3 DEF EmuStep, EmuNext
<1>3. QED
  BY <1>1, <1>2 DEF Next

LEMMA InitControl == Init => ControlInv
<1> SUFFICES ASSUME Init PROVE ControlInv
  OBVIOUS
<1>1. /\ toEmu = <<>> /\ toProxy = <<>> /\ ctrlXfers = <<>> /\ pc = "boot"
  BY DEF Init, SerialInit, GusbInit, EmuInit
<1>2. Free(ControlTypes, toEmu) /\ Free(ControlTypes, toProxy)
  BY <1>1 DEF Free
<1>3. Single(toProxy, request) /\ Single(toEmu, request)
  BY <1>2, FreeSingle
<1>4. OneRequest /\ Forwarding
  BY <1>1, <1>2, <1>3 DEF OneRequest, Forwarding, ControlSteps
<1>5. QED
  BY <1>4 DEF ControlInv

LEMMA StepControl ==
    ASSUME TypeInv, LineInv, NEW d, NEW x, HandshakeFrom(d, x), ControlInv, [Next]_vars
    PROVE  ControlInv'
<1> SUFFICES ASSUME timeouts' = 0
             PROVE  Over' \/ (OneRequest' /\ Forwarding')
  BY DEF ControlInv
<1>0. timeouts = 0 /\ ~ControlTimeout /\ TypeInv'
  BY TimeoutsGrow, StepTypes
<1>1. CASE Over
  <2>1. CASE Next
    BY <1>0, <1>1, <2>1, OverKept
  <2>2. CASE UNCHANGED vars
    BY <1>1, <2>2 DEF Over, Running, vars, serialVars, proxyVars, emuVars, isrVars, mainVars
  <2>3. QED
    BY <2>1, <2>2
<1>2. CASE OneRequest /\ Forwarding
  <2>1. CASE ProxyStep
    <3>1. OneRequest'
      BY <1>0, <1>2, <2>1, ProxyStepOne
    <3>2. Forwarding'
      BY <1>2, <2>1 DEF ProxyStep, Forwarding, ReplyFits, emuVars, ctlVars, mainVars
    <3>3. QED
      BY <3>1, <3>2
  <2>2. CASE EmuStep
    BY <1>0, <1>2, <2>2, ResetOver, RxReplyControl, RxOtherControl, MainControl
       DEF EmuStep, EmuNext, EmuInterrupt
  <2>3. CASE HostStep \/ UNCHANGED vars
    BY <1>2, <2>3 DEF HostStep, vars, serialVars, gusbVars, emuVars, ctlVars, mainVars,
                      OneRequest, Forwarding, ReplyFits, Waits
  <2>4. QED
    BY <2>1, <2>2, <2>3 DEF Next
<1>3. QED
  BY <1>0, <1>1, <1>2 DEF ControlInv

LEMMA AlwaysControl == Spec => []ControlInv
<1>1. TypeInv /\ TokenInv /\ HandshakeInv /\ ControlInv /\ [Next]_vars => ControlInv'
  BY StepControl DEF HandshakeInv, TokenInv, LineInv
<1>2. QED
  BY InitControl, <1>1, AlwaysTypeInv, AlwaysToken, AlwaysHandshake, PTL DEF Spec

LEMMA ControlCount ==
    ASSUME NEW s \in Seq(Packet), NEW r, Single(s, r),
           NEW Q, Q \subseteq {i \in DOMAIN s : s[i].type \in ControlTypes}
    PROVE  /\ Cardinality(Q) \in {0, 1}
           /\ Free(ControlTypes, s) => Cardinality(Q) = 0
<1>1. CASE Q = {}
  BY <1>1, FS_EmptySet
<1>2. CASE Q # {}
  <2>1. PICK i \in Q : TRUE
    BY <1>2
  <2>2. Q = {i} /\ ~Free(ControlTypes, s)
    BY <2>1 DEF Single, Free
  <2>3. QED
    BY <2>2, FS_Singleton
<1>3. QED
  BY <1>1, <1>2

LEMMA ControlCounted == TypeInv /\ ControlInv => OneControlUnderWay
<1>1. ASSUME TypeInv, ControlInv, timeouts = 0, phase = "polling"
      PROVE  ControlUnderWay <= (IF pc \in {"ctl_wait", "ctl_decide"} /\ ~controlReply THEN 1 ELSE 0)
  <2>1. OneRequest
    BY <1>1 DEF ControlInv, Over, Running
  <2> DEFINE P == {i \in DOMAIN toProxy : toProxy[i].type = "CONTROL"}
             E == {i \in DOMAIN toEmu : toEmu[i].type \in {"CONTROL", "CONTROL_STALL"}}
             p == Cardinality(P)
             n == Cardinality(E)
  <2>2. toProxy \in Seq(Packet) /\ toEmu \in Seq(Packet)
    BY <1>1 DEF TypeInv, TypeOK, SerialTypeOK
  <2>3. Single(toProxy, request) /\ Single(toEmu, request)
    BY <2>1 DEF OneRequest
  <2>4. /\ P \subseteq {i \in DOMAIN toProxy : toProxy[i].type \in ControlTypes}
        /\ E \subseteq {i \in DOMAIN toEmu : toEmu[i].type \in ControlTypes}
    BY DEF ControlTypes
  <2>5. ControlUnderWay = Len(ctrlXfers) + p + n
    BY DEF ControlUnderWay
  <2> HIDE DEF P, E
  <2>6. p \in {0, 1} /\ (Free(ControlTypes, toProxy) => p = 0)
    BY <2>2, <2>3, <2>4, ControlCount
  <2>7. n \in {0, 1} /\ (Free(ControlTypes, toEmu) => n = 0)
    BY <2>2, <2>3, <2>4, ControlCount
  <2>8. ctrlXfers = <<>> => Len(ctrlXfers) = 0
    BY EmptySeq
  <2> HIDE DEF p, n
  <2>9. CASE Waits
    <3>1. Len(ctrlXfers) + p + n <= 1
      BY <2>1, <2>6, <2>7, <2>8, <2>9 DEF OneRequest
    <3>2. QED
      BY <2>5, <2>9, <3>1 DEF Waits
  <2>10. CASE ~Waits
    <3>1. Len(ctrlXfers) + p + n = 0
      BY <2>1, <2>6, <2>7, <2>8, <2>10 DEF OneRequest
    <3>2. QED
      BY <2>5, <2>10, <3>1 DEF Waits
  <2>11. QED
    BY <2>9, <2>10
<1>2. QED
  BY <1>1 DEF OneControlUnderWay

\* As long as the firmware has not given up waiting, there is one request or
\* reply at most between the main loop (emu.c, UnhandledControlRequest) and the
\* callbacks of the proxy (process_packet, usb_read_callback and
\* usb_write_callback in proxy.c), and none when the main loop does not wait:
\* whatever transfers fail, stall or are cancelled.
THEOREM OneControl == Spec => []OneControlUnderWay
BY ControlCounted, AlwaysTypeInv, AlwaysControl, PTL

-----------------------------------------------------------------------------
(* The answers that the host gets. *)

LEMMA AnsweredMatches ==
    ASSUME NEW status, NEW part1, NEW part2, NEW from, Answered(status, part1, part2, from),
           Matches(answer), from = 0 \/ from = hostReq,
           status = "data" => part1 = hostReq /\ part2 = hostReq
    PROVE  Matches(answer') /\ hostReq' = 0
BY DEF Answered, Matches

\* A step of the main loop, as long as nothing has gone wrong.
LEMMA MainSame ==
    ASSUME TypeInv, Forwarding, SameRequest, Matches(answer), EmuMain, ~ControlTimeout
    PROVE  SameRequest' /\ Matches(answer')
<1>0. /\ returnTo \in {"input", "out_clear"}
      /\ InRequests \intersect OutRequests = {}
      /\ \A r \in InRequests \union OutRequests : r # 0 /\ r \in Nat
  BY RequestsAssumption DEF TypeInv, TypeOK, EmuTypeOK, Requests
<1> USE DEF Goto, MainUnchanged, TaskReturns
<1>1. ASSUME pc' \notin ControlSteps, UNCHANGED <<setup, hostReq, answer>>
      PROVE  SameRequest' /\ Matches(answer')
  BY <1>1 DEF SameRequest, ControlSteps
<1>2. ASSUME pc' \notin ControlSteps, setup' = 0, Matches(answer')
      PROVE  SameRequest' /\ Matches(answer')
  BY <1>2 DEF SameRequest, ControlSteps
<1>3. CASE Boot \/ TaskSkipped \/ SendNextInput \/ ReceiveNextOutput
  <2>1. pc' \notin ControlSteps /\ UNCHANGED <<setup, hostReq, answer>>
    BY <1>3 DEF Boot, TaskSkipped, SendNextInput, InputNothing, InputFound, InputWrite,
                InputRelease, InputAck, ReceiveNextOutput, OutputNothing, OutputPoll,
                OutputClear, OutputSend, ControlSteps, usbVars, busVars
  <2>2. QED
    BY <1>1, <2>1
<1>4. CASE UsbTaskNothing \/ ControlWriteAborted
  <2>1. pc' \notin ControlSteps /\ UNCHANGED <<setup, hostReq, answer>>
    BY <1>0, <1>4 DEF UsbTaskNothing, ControlWriteAborted, ControlSteps, usbVars, busVars
  <2>2. QED
    BY <1>1, <2>1
<1>5. CASE SetConfiguration \/ ClearSetFeature \/ RequestStatus \/ RequestTooBig
           \/ ControlReadAborted
  <2>1. /\ pc' \notin ControlSteps /\ setup' = 0
        /\ \/ \E status \in {"ok", "stall"} : Answered(status, 0, 0, 0)
           \/ answer' = answer
    BY <1>0, <1>5 DEF SetConfiguration, ClearSetFeature, SetHalt, ClearHalt, RequestStatus,
       RequestTooBig, ControlReadAborted, SameRequest, ControlSteps
  <2>2. Matches(answer')
    BY <2>1, AnsweredMatches
  <2>3. QED
    BY <1>2, <2>1, <2>2
<1>6. CASE RequestForwarded
  BY <1>0, <1>6 DEF RequestForwarded, SameRequest, ControlSteps, usbVars, busVars
<1>7. CASE ControlClearReply \/ ControlClearStall \/ ControlSendIn \/ ControlSendOut
           \/ ControlWait \/ ControlReplied
  BY <1>0, <1>7 DEF ControlClearReply, ControlClearStall, ControlSendIn, ControlSendOut,
     ControlWait, ControlReplied, SameRequest, ControlSteps, usbVars, busVars
<1>8. CASE ControlReadSetup \/ ControlReturnData
  BY <1>0, <1>8 DEF ControlReadSetup, ControlReturnData, SameRequest, ControlSteps
<1>9. CASE ControlStalled \/ ControlAccepted
  <2>1. /\ pc' \notin ControlSteps /\ setup' = 0
        /\ \E status \in {"ok", "stall"} : Answered(status, 0, 0, replyTo)
        /\ replyTo = hostReq
    BY <1>0, <1>9 DEF ControlStalled, ControlAccepted, SameRequest, ControlSteps, Forwarding, ReplyFits
  <2>2. Matches(answer')
    BY <2>1, AnsweredMatches
  <2>3. QED
    BY <1>2, <2>1, <2>2
<1>10. CASE ControlWriteFirst
  <2>1. /\ pc = "ctl_write" /\ pc' = "ctl_write2" /\ UNCHANGED <<setup, hostReq, request>>
        /\ answer' = [req |-> hostReq, status |-> "none", part2 |-> 0, from |-> replyTo,
                      part1 |-> IF controlReplyLen = 0 THEN 0 ELSE control]
    BY <1>10 DEF ControlWriteFirst
  <2>2. replyTo = request /\ control = request /\ controlReplyLen = 1 /\ hostReq = request
    BY <2>1 DEF Forwarding, SameRequest, ControlSteps
  <2>3. answer' = [req |-> request, status |-> "none", part2 |-> 0, from |-> request,
                   part1 |-> request]
    BY <2>1, <2>2
  <2>4. QED
    BY <2>1, <2>2, <2>3 DEF SameRequest, Matches, ControlSteps
<1>11. CASE ControlWriteSecond
  <2>1. /\ pc = "ctl_write2" /\ pc' \notin ControlSteps /\ UNCHANGED setup
        /\ Answered("data", answer.part1, IF answer.part1 = 0 THEN 0 ELSE control, answer.from)
    BY <1>0, <1>11 DEF ControlWriteSecond, ControlSteps
  <2>2. /\ control = request /\ hostReq = request /\ setup = 0 /\ request # 0
        /\ answer.part1 = request /\ answer.from = request
    BY <1>0, <2>1 DEF Forwarding, SameRequest, ControlSteps
  <2>3. Matches(answer')
    BY <2>1, <2>2, AnsweredMatches
  <2>4. QED
    BY <1>2, <2>1, <2>2, <2>3
<1>12. QED
  BY <1>3, <1>4, <1>5, <1>6, <1>7, <1>8, <1>9, <1>10, <1>11
     DEF EmuMain, USBTask, UnhandledControlRequest

\* A step of the host that neither resets the bus nor abandons a transfer.
LEMMA HostSame ==
    ASSUME TypeInv, Forwarding \/ Over, SameRequest, Matches(answer), HostStep,
           ~BusReset, ~HostAbort
    PROVE  SameRequest' /\ Matches(answer')
<1>1. UNCHANGED <<pc, request>>
  BY DEF HostStep, emuVars, mainVars
<1>2. CASE \E r \in Requests : HostSetup(r)
  <2>1. pc \notin ControlSteps
    <3>1. CASE Forwarding
      <4>1. hostReq = 0 /\ \A r \in InRequests \union OutRequests : r # 0
        BY <1>2, RequestsAssumption DEF HostSetup, Requests
      <4>2. QED
        BY <3>1, <4>1 DEF Forwarding, SameRequest
    <3>2. CASE Over
      BY <3>2 DEF Over, ControlSteps
    <3>3. QED
      BY <3>1, <3>2
  <2>2. QED
    BY <1>1, <1>2, <2>1 DEF HostSetup, SameRequest, ControlSteps
<1>3. CASE ~\E r \in Requests : HostSetup(r)
  <2>1. UNCHANGED <<setup, hostReq, answer>>
    BY <1>3 DEF HostStep, UsbNext, HostReads, HostWrites, BusSuspend, BusWakeUp
  <2>2. QED
    BY <1>1, <2>1 DEF SameRequest
<1>4. QED
  BY <1>2, <1>3

LEMMA InterruptSame ==
    ASSUME SameRequest, Matches(answer), EmuInterrupt \/ Reboot
    PROVE  SameRequest' /\ Matches(answer')
<1>1. CASE EmuInterrupt
  <2>1. /\ UNCHANGED <<setup, hostReq, answer, request>>
        /\ pc' = pc \/ pc' = "hardreset"
    BY <1>1 DEF EmuInterrupt, RxDescriptors, RxIndex, RxEndpoints, RxReset, RxControl,
                RxControlStall, RxIn, usbVars, busVars, mainVars
  <2>2. QED
    BY <2>1 DEF SameRequest, ControlSteps
<1>2. CASE Reboot
  BY <1>2 DEF Reboot, SameRequest, ControlSteps
<1>3. QED
  BY <1>1, <1>2

\* The counters and the histories of the host are its own.
LEMMA HostHistory ==
    ASSUME EmuStep
    PROVE  UNCHANGED hostVars
BY DEF EmuStep, EmuNext, EmuInterrupt, RxDescriptors, RxIndex, RxEndpoints, RxReset,
       RxControl, RxControlStall, RxIn, Reboot, EmuMain, Boot, TaskSkipped, SendNextInput,
       InputNothing, InputFound, InputWrite, InputRelease, InputAck, ReceiveNextOutput,
       OutputNothing, OutputPoll, OutputClear, OutputSend, USBTask, UsbTaskNothing,
       ClearSetFeature, SetHalt, ClearHalt, RequestStatus,
       SetConfiguration, RequestTooBig, RequestForwarded, UnhandledControlRequest,
       ControlClearReply, ControlClearStall, ControlSendIn, ControlReadSetup,
       ControlSendOut, ControlReadAborted, ControlWait, ControlReplied, ControlTimeout,
       ControlStalled, ControlAccepted, ControlReturnData, ControlWriteFirst,
       ControlWriteSecond, ControlWriteAborted, usbVars

\* The counters of what may go wrong only grow.
LEMMA TroubleGrows ==
    ASSUME TypeInv, [Next]_vars
    PROVE  /\ resets' = 0 => resets = 0 /\ ~BusReset
           /\ aborts' = 0 => aborts = 0 /\ ~HostAbort
<1>0. resets \in Nat /\ aborts \in Nat
  BY DEF TypeInv, TypeOK, UsbTypeOK
<1>1. CASE HostStep
  BY <1>0, <1>1 DEF HostStep, UsbNext, HostReads, HostWrites, HostSetup, HostAbort, BusReset,
                    BusSuspend, BusWakeUp, hostVars
<1>2. CASE UNCHANGED <<resets, aborts>>
  BY <1>0, <1>2 DEF BusReset, HostAbort
<1>3. CASE ProxyStep \/ UNCHANGED vars
  BY <1>2, <1>3 DEF ProxyStep, vars, usbVars, hostVars
<1>4. CASE EmuStep
  BY <1>2, <1>4, HostHistory DEF hostVars
<1>5. QED
  BY <1>1, <1>3, <1>4 DEF Next

LEMMA InitHost == Init => HostInv
BY DEF Init, UsbInit, EmuInit, NoAnswer, HostInv, SameRequest, Matches, ControlSteps

LEMMA StepHost == TypeInv /\ ControlInv /\ HostInv /\ [Next]_vars => HostInv'
<1> SUFFICES ASSUME TypeInv, ControlInv, HostInv, [Next]_vars,
                    timeouts' = 0, resets' = 0, aborts' = 0
             PROVE  SameRequest' /\ Matches(answer')
  BY DEF HostInv
<1>1. /\ timeouts = 0 /\ resets = 0 /\ aborts = 0
      /\ ~ControlTimeout /\ ~BusReset /\ ~HostAbort
  BY TimeoutsGrow, TroubleGrows
<1>2. SameRequest /\ Matches(answer) /\ (Over \/ Forwarding)
  BY <1>1 DEF HostInv, ControlInv
<1>3. CASE ProxyStep \/ UNCHANGED vars
  BY <1>2, <1>3 DEF ProxyStep, vars, usbVars, busVars, emuVars, mainVars, SameRequest
<1>4. CASE HostStep
  BY <1>1, <1>2, <1>4, HostSame
<1>5. CASE EmuInterrupt \/ Reboot
  BY <1>2, <1>5, InterruptSame
<1>6. CASE EmuMain /\ Forwarding
  BY <1>1, <1>2, <1>6, MainSame
<1>7. CASE EmuMain /\ Over
  BY <1>7, MainFrame, SendNextInputFrame, QuietMainFrame DEF Over, EmuMain, QuietMain, MainSteps
<1>8. QED
  BY <1>2, <1>3, <1>4, <1>5, <1>6, <1>7 DEF Next, EmuStep, EmuNext

LEMMA AlwaysHost == Spec => []HostInv
BY InitHost, StepHost, AlwaysTypeInv, AlwaysControl, PTL DEF Spec

\* The answer that the host gets comes from the reply to its own request, and
\* its data is that reply's, whole (emu.c, EVENT_USB_Device_UnhandledControlRequest),
\* for any number of requests and whatever the device answers.
THEOREM AnswersFit == Spec => []AnswersMatch
<1>1. HostInv => AnswersMatch
  BY DEF HostInv, Matches, AnswersMatch
<1>2. QED
  BY <1>1, AlwaysHost, PTL

-----------------------------------------------------------------------------
(* The order of OUT packets. *)

LEMMA BelowAppend ==
    ASSUME NEW s \in Seq(Nat), NEW x \in Nat, NEW d \in Nat, AllBelow(s, d), x < d
    PROVE  AllBelow(Append(s, x), d)
<1>1. /\ DOMAIN s = 1..Len(s) /\ DOMAIN Append(s, x) = 1..Len(s) + 1 /\ Len(s) \in Nat
      /\ \A i \in 1..Len(s) : Append(s, x)[i] = s[i]
      /\ Append(s, x)[Len(s) + 1] = x
  BY AppendProperties, LenProperties
<1>2. QED
  BY <1>1 DEF AllBelow

LEMMA TailElements ==
    ASSUME NEW S, NEW s \in Seq(S), s # <<>>
    PROVE  /\ 1 \in DOMAIN s /\ Head(s) = s[1] /\ Head(s) \in S /\ Tail(s) \in Seq(S)
           /\ DOMAIN Tail(s) \subseteq Nat \ {0}
           /\ \A i \in DOMAIN Tail(s) : i + 1 \in DOMAIN s /\ Tail(s)[i] = s[i + 1]
<1>1. /\ DOMAIN s = 1..Len(s) /\ Len(s) \in Nat \ {0}
      /\ DOMAIN Tail(s) = 1..Len(s) - 1 /\ Tail(s) \in Seq(S)
      /\ \A i \in 1..Len(s) - 1 : Tail(s)[i] = s[i + 1]
      /\ Head(s) = s[1] /\ Head(s) \in S
  BY HeadTailProperties, LenProperties, EmptySeq
<1>2. QED
  BY <1>1

LEMMA IncreasingAppend ==
    ASSUME NEW s \in Seq(Nat), NEW x \in Nat, Increasing(s), x = 0 \/ AllBelow(s, x)
    PROVE  Increasing(Append(s, x)) /\ Append(s, x) \in Seq(Nat)
<1>1. /\ DOMAIN s = 1..Len(s) /\ DOMAIN Append(s, x) = 1..Len(s) + 1 /\ Len(s) \in Nat
      /\ \A i \in 1..Len(s) : Append(s, x)[i] = s[i]
      /\ Append(s, x)[Len(s) + 1] = x /\ Append(s, x) \in Seq(Nat)
  BY AppendProperties, LenProperties
<1>2. QED
  BY <1>1 DEF Increasing, AllBelow

LEMMA IncreasingTail ==
    ASSUME NEW s \in Seq(Nat), s # <<>>, Increasing(s)
    PROVE  Increasing(Tail(s))
<1>1. /\ DOMAIN s = 1..Len(s) /\ Len(s) \in Nat
      /\ \A i \in DOMAIN Tail(s) : i + 1 \in DOMAIN s /\ Tail(s)[i] = s[i + 1]
  BY TailElements, LenProperties
<1>2. \A i, j \in DOMAIN Tail(s) : i < j /\ Tail(s)[j] # 0 => Tail(s)[i] < Tail(s)[j]
  <2> TAKE i, j \in DOMAIN Tail(s)
  <2>1. i \in Nat /\ j \in Nat
    BY TailElements
  <2>2. i < j => i + 1 < j + 1
    BY <2>1
  <2>3. QED
    BY <1>1, <2>2 DEF Increasing
<1>3. QED
  BY <1>2 DEF Increasing

\* What was behind every packet still is.
StillBefore == \A e \in OutEps, d \in Nat : Before(e, d) => Before(e, d)'

LEMMA QuietLine ==
    ASSUME TypeInv, TypeInv', LineOrder, DeviceOrder, Within({"OUT"}, toProxy, toProxy'),
           UNCHANGED <<outXfers, outDone>>
    PROVE  DeviceOrder' /\ LineOrder' /\ StillBefore
<1>1. PICK k \in Nat : Shifted({"OUT"}, toProxy, toProxy', k)
  BY DEF Within
<1>2. /\ DOMAIN toProxy = 1..Len(toProxy) /\ Len(toProxy) \in Nat
      /\ \A i \in DOMAIN toProxy' :
            toProxy'[i].type = "OUT" => i + k \in DOMAIN toProxy /\ toProxy'[i] = toProxy[i + k]
  BY <1>1, LenProperties DEF Shifted, TypeInv, TypeOK, SerialTypeOK
<1>3. \A i, j \in DOMAIN toProxy' :
         toProxy'[i].type = "OUT" /\ toProxy'[j].type = "OUT" /\ i < j => i + k < j + k
  <2> SUFFICES ASSUME NEW i \in DOMAIN toProxy', NEW j \in DOMAIN toProxy', i < j
               PROVE  i + k < j + k
    OBVIOUS
  <2>1. DOMAIN toProxy' \subseteq Nat
    BY LenProperties DEF TypeInv, TypeOK, SerialTypeOK
  <2>2. QED
    BY <2>1
<1>4. DeviceOrder'
  BY DEF DeviceOrder
<1>5. LineOrder'
  BY <1>2, <1>3 DEF LineOrder, Reached
<1>6. StillBefore
  BY <1>2 DEF StillBefore, Before, Reached
<1>7. QED
  BY <1>4, <1>5, <1>6

\* send_out_packet: the packet at the head of the line joins the transfers.
LEMMA OutReceived ==
    ASSUME TypeInv, LineOrder, ProcessOut
    PROVE  \E e \in OutEps :
              LET p == toProxy[1]
              IN  /\ toProxy # <<>> /\ toProxy' = Tail(toProxy)
                  /\ p.type = "OUT" /\ U2S[e] = p.ep /\ p.data \in Nat \ {0}
                  /\ UNCHANGED outDone
                  /\ \/ outXfers' = outXfers /\ phase' = "leaving"
                     \/ outXfers' = [outXfers EXCEPT ![e] = Append(@, p.data)]
<1> DEFINE p == toProxy[1]
           e == S2U[p.ep]
<1>1. /\ toProxy # <<>> /\ Head(toProxy) = p /\ p \in Packet /\ 1 \in DOMAIN toProxy
  BY TailElements DEF TypeInv, TypeOK, SerialTypeOK, ProcessOut, Receive
<1>2. toProxy' = Tail(toProxy) /\ p.type = "OUT" /\ p.ep \in EmuOut /\ p.data \in Nat \ {0}
  BY <1>1 DEF ProcessOut, Receive, LineOrder, Packet
<1>3. \E f \in OutEps : U2S[f] = p.ep
  BY <1>2 DEF EmuOut
<1>4. e \in OutEps /\ U2S[e] = p.ep
  <2>1. PICK f \in OutEps : U2S[f] = p.ep
    BY <1>3
  <2>2. e = CHOOSE g \in UsbEps : U2S[g] = p.ep
    BY <1>2 DEF S2U
  <2>3. e \in UsbEps /\ U2S[e] = p.ep
    BY <2>1, <2>2 DEF UsbEps
  <2>4. e = f
    BY <2>1, <2>3, RenumberingAssumption DEF RenumberingOK, UsbEps
  <2>5. QED
    BY <2>1, <2>3, <2>4
<1>5. /\ UNCHANGED outDone
      /\ \E ok \in SubmitResults : gusb_write_out(e, p.data, ok) /\ Return(~ok)
  BY <1>1 DEF ProcessOut
<1> HIDE DEF p, e
<1>6. \/ outXfers' = outXfers /\ phase' = "leaving"
      \/ outXfers' = [outXfers EXCEPT ![e] = Append(@, p.data)]
  BY <1>5 DEF gusb_write_out, Return
<1>7. QED
  BY <1>1, <1>2, <1>4, <1>5, <1>6 DEF p, e

LEMMA ProcessOutOrder ==
    ASSUME TypeInv, LineOrder, DeviceOrder, ProcessOut
    PROVE  DeviceOrder' /\ LineOrder' /\ StillBefore
<1> DEFINE p == toProxy[1]
<1>1. PICK e \in OutEps :
         /\ toProxy # <<>> /\ toProxy' = Tail(toProxy)
         /\ p.type = "OUT" /\ U2S[e] = p.ep /\ p.data \in Nat \ {0}
         /\ UNCHANGED outDone
         /\ outXfers' = outXfers \/ outXfers' = [outXfers EXCEPT ![e] = Append(@, p.data)]
  BY OutReceived
<1>2. /\ 1 \in DOMAIN toProxy /\ DOMAIN toProxy' \subseteq Nat \ {0}
      /\ \A i \in DOMAIN toProxy' : i + 1 \in DOMAIN toProxy /\ toProxy'[i] = toProxy[i + 1]
      /\ \A i \in DOMAIN toProxy' : toProxy'[i] \in Packet
  BY <1>1, TailElements, ElementOfSeq DEF TypeInv, TypeOK, SerialTypeOK
<1>3. Reached(e, p.data)
  BY <1>1, <1>2 DEF LineOrder
<1>4. \A i \in DOMAIN toProxy' :
         toProxy'[i].type = "OUT" /\ toProxy'[i].ep = U2S[e] => p.data < toProxy'[i].data
  BY <1>1, <1>2 DEF LineOrder
<1>5. outXfers \in [OutEps -> Seq(Nat)] /\ outDone \in [OutEps -> Seq(Nat)]
  BY DEF TypeInv, TypeOK, GusbTypeOK
<1>6. \A f \in OutEps : outXfers'[f] = outXfers[f] \/ (f = e /\ outXfers'[e] = Append(outXfers[e], p.data))
  BY <1>1, <1>5
<1> HIDE DEF p
<1>7. \A f \in OutEps, d \in Nat :
         Reached(f, d) /\ (f = e => p.data < d) =>
            AllBelow(outDone'[f], d) /\ AllBelow(outXfers'[f], d)
  <2> SUFFICES ASSUME NEW f \in OutEps, NEW d \in Nat, Reached(f, d), f = e => p.data < d
               PROVE  AllBelow(outDone'[f], d) /\ AllBelow(outXfers'[f], d)
    OBVIOUS
  <2>1. outXfers[f] \in Seq(Nat) /\ p.data \in Nat /\ AllBelow(outXfers[f], d)
    BY <1>1, <1>5 DEF Reached
  <2>2. f = e => AllBelow(Append(outXfers[f], p.data), d)
    BY <2>1, BelowAppend
  <2>3. QED
    BY <1>1, <1>6, <2>1, <2>2 DEF Reached
<1>8. DeviceOrder'
  <2>1. \A f \in OutEps : Increasing(outDone'[f]) /\ Increasing(outXfers'[f])
    <3> TAKE f \in OutEps
    <3>1. Increasing(outDone'[f])
      BY <1>1 DEF DeviceOrder
    <3>2. outXfers[f] \in Seq(Nat) /\ Increasing(outXfers[f]) /\ p.data \in Nat
      BY <1>1, <1>5 DEF DeviceOrder
    <3>3. f = e => Increasing(Append(outXfers[f], p.data))
      BY <1>3, <3>2, IncreasingAppend DEF Reached
    <3>4. QED
      BY <1>6, <3>1, <3>2, <3>3
  <2>2. \A f \in OutEps : \A i \in DOMAIN outXfers'[f] :
           outXfers'[f][i] # 0 /\ AllBelow(outDone'[f], outXfers'[f][i])
    <3> TAKE f \in OutEps
    <3> TAKE i \in DOMAIN outXfers'[f]
    <3>1. CASE outXfers'[f] = outXfers[f]
      BY <1>1, <3>1 DEF DeviceOrder
    <3>2. CASE f = e /\ outXfers'[e] = Append(outXfers[e], p.data)
      <4>1. (i \in DOMAIN outXfers[e] /\ outXfers'[f][i] = outXfers[e][i])
            \/ outXfers'[f][i] = p.data
        BY <1>5, <3>2, AppendProperties, LenProperties
      <4>2. QED
        BY <1>1, <1>3, <3>2, <4>1 DEF DeviceOrder, Reached
    <3>3. QED
      BY <1>6, <3>1, <3>2
  <2>3. QED
    BY <2>1, <2>2 DEF DeviceOrder
<1>9. LineOrder'
  <2>1. \A i \in DOMAIN toProxy' :
           toProxy'[i].type = "OUT" => toProxy'[i].ep \in EmuOut /\ toProxy'[i].data # 0
    BY <1>2 DEF LineOrder
  <2>2. \A i, j \in DOMAIN toProxy' :
           /\ toProxy'[i].type = "OUT" /\ toProxy'[j].type = "OUT"
           /\ toProxy'[i].ep = toProxy'[j].ep /\ i < j
           => toProxy'[i].data < toProxy'[j].data
    <3> TAKE i, j \in DOMAIN toProxy'
    <3>1. i < j => i + 1 < j + 1
      BY <1>2
    <3>2. QED
      BY <1>2, <3>1 DEF LineOrder
  <2>3. \A i \in DOMAIN toProxy', f \in OutEps :
           toProxy'[i].type = "OUT" /\ toProxy'[i].ep = U2S[f] =>
              AllBelow(outDone'[f], toProxy'[i].data) /\ AllBelow(outXfers'[f], toProxy'[i].data)
    <3> TAKE i \in DOMAIN toProxy', f \in OutEps
    <3> DEFINE d == toProxy'[i].data
    <3>1. d \in Nat
      BY <1>2 DEF Packet
    <3>2. toProxy'[i].type = "OUT" /\ toProxy'[i].ep = U2S[f] => Reached(f, d)
      BY <1>2 DEF LineOrder
    <3>3. toProxy'[i].type = "OUT" /\ toProxy'[i].ep = U2S[f] => (f = e => p.data < d)
      BY <1>4
    <3> HIDE DEF d
    <3>4. toProxy'[i].type = "OUT" /\ toProxy'[i].ep = U2S[f] =>
             AllBelow(outDone'[f], d) /\ AllBelow(outXfers'[f], d)
      BY <1>7, <3>1, <3>2, <3>3
    <3>5. QED
      BY <3>4 DEF d
  <2>4. QED
    BY <2>1, <2>2, <2>3 DEF LineOrder, Reached
<1>10. StillBefore
  <2> SUFFICES ASSUME NEW f \in OutEps, NEW d \in Nat, Before(f, d)
               PROVE  Before(f, d)'
    BY DEF StillBefore
  <2>1. f = e => p.data < d
    BY <1>1, <1>2 DEF Before, p
  <2>2. Reached(f, d)'
    BY <1>7, <2>1 DEF Before, Reached
  <2>3. QED
    BY <1>2, <2>2 DEF Before
<1>11. QED
  BY <1>8, <1>9, <1>10

\* A transfer that ends leaves its table from the front.
LEMMA OutTaken ==
    ASSUME TypeInv, DeviceOrder, NEW e \in OutEps, RemoveOut(e)
    PROVE  LET x == outXfers[e][1]
           IN  /\ x \in Nat \ {0} /\ AllBelow(outDone[e], x)
               /\ \A f \in OutEps : f # e => outXfers'[f] = outXfers[f]
               /\ Increasing(outXfers'[e])
               /\ \A i \in DOMAIN outXfers'[e] :
                     /\ outXfers'[e][i] \in Nat \ {0} /\ x < outXfers'[e][i]
                     /\ AllBelow(outDone[e], outXfers'[e][i])
               /\ \A d \in Nat : AllBelow(outXfers[e], d) => x < d /\ AllBelow(outXfers'[e], d)
<1> DEFINE s == outXfers[e]
<1>1. /\ s \in Seq(Nat) /\ s # <<>>
      /\ \A f \in OutEps : outXfers'[f] = IF f = e THEN Tail(s) ELSE outXfers[f]
  BY DEF RemoveOut, TypeInv, TypeOK, GusbTypeOK
<1>2. /\ 1 \in DOMAIN s /\ s[1] \in Nat /\ DOMAIN Tail(s) \subseteq Nat \ {0}
      /\ \A i \in DOMAIN Tail(s) : i + 1 \in DOMAIN s /\ Tail(s)[i] = s[i + 1] /\ s[i + 1] \in Nat
  BY <1>1, TailElements, ElementOfSeq
<1>3. /\ Increasing(s)
      /\ \A i \in DOMAIN s : s[i] # 0 /\ AllBelow(outDone[e], s[i])
  BY DEF DeviceOrder
<1> HIDE DEF s
<1>4. Increasing(Tail(s))
  BY <1>1, <1>3, IncreasingTail
<1>5. \A i \in DOMAIN Tail(s) : 1 < i + 1
  BY <1>2
<1>6. \A i \in DOMAIN Tail(s) : s[1] < Tail(s)[i]
  BY <1>2, <1>3, <1>5 DEF Increasing
<1>7. \A d \in Nat : AllBelow(s, d) => s[1] < d /\ AllBelow(Tail(s), d)
  BY <1>2 DEF AllBelow
<1>8. outXfers'[e] = Tail(s)
  BY <1>1
<1>9. QED
  BY <1>1, <1>2, <1>3, <1>4, <1>6, <1>7, <1>8 DEF s

LEMMA TransferEndsOrder ==
    ASSUME TypeInv, LineOrder, DeviceOrder, NEW e \in OutEps,
           WriteDone(e) \/ (RemoveOut(e) /\ UNCHANGED <<serialVars, outDone>>)
    PROVE  DeviceOrder' /\ LineOrder' /\ StillBefore
<1> DEFINE x == outXfers[e][1]
<1>1. /\ x \in Nat \ {0} /\ AllBelow(outDone[e], x)
      /\ \A f \in OutEps : f # e => outXfers'[f] = outXfers[f]
      /\ Increasing(outXfers'[e])
      /\ \A i \in DOMAIN outXfers'[e] :
            /\ outXfers'[e][i] \in Nat \ {0} /\ x < outXfers'[e][i]
            /\ AllBelow(outDone[e], outXfers'[e][i])
      /\ \A d \in Nat : AllBelow(outXfers[e], d) => x < d /\ AllBelow(outXfers'[e], d)
  BY OutTaken DEF WriteDone
<1>2. outDone[e] \in Seq(Nat) /\ outXfers[e] # <<>> /\ outXfers[e] \in Seq(Nat)
  BY DEF TypeInv, TypeOK, GusbTypeOK, WriteDone, RemoveOut
<1>3. Head(outXfers[e]) = x
  BY <1>2, TailElements
<1>4. toProxy' = toProxy
  BY DEF WriteDone, serialVars
<1>5. /\ \A f \in OutEps : f # e => outDone'[f] = outDone[f]
      /\ \/ outDone'[e] = outDone[e]
         \/ \E y \in {0, x} : outDone'[e] = Append(outDone[e], y)
  BY <1>3 DEF WriteDone, TypeInv, TypeOK, GusbTypeOK
<1> HIDE DEF x
<1>6. Increasing(outDone'[e])
  <2>1. Increasing(outDone[e])
    BY DEF DeviceOrder
  <2>2. \A y \in {0, x} : y \in Nat /\ (y = 0 \/ AllBelow(outDone[e], y))
    BY <1>1
  <2>3. \A y \in {0, x} : Increasing(Append(outDone[e], y))
    BY <1>2, <2>1, <2>2, IncreasingAppend
  <2>4. QED
    BY <1>5, <2>1, <2>3
<1>7. \A d \in Nat : AllBelow(outDone[e], d) /\ x < d => AllBelow(outDone'[e], d)
  <2> TAKE d \in Nat
  <2>1. \A y \in {0, x} : y \in Nat /\ (x < d => y < d)
    BY <1>1
  <2>2. \A y \in {0, x} : AllBelow(outDone[e], d) /\ x < d => AllBelow(Append(outDone[e], y), d)
    BY <1>2, <2>1, BelowAppend
  <2>3. QED
    BY <1>5, <2>2
<1>8. \A f \in OutEps, d \in Nat :
         Reached(f, d) => AllBelow(outDone'[f], d) /\ AllBelow(outXfers'[f], d)
  BY <1>1, <1>5, <1>7 DEF Reached
<1>9. DeviceOrder'
  BY <1>1, <1>5, <1>6, <1>7 DEF DeviceOrder
<1>10. LineOrder'
  <2>1. \A i \in DOMAIN toProxy : toProxy[i].data \in Nat
    <3>1. toProxy \in Seq(Packet) /\ DOMAIN toProxy = 1..Len(toProxy)
      BY LenProperties DEF TypeInv, TypeOK, SerialTypeOK
    <3>2. \A i \in DOMAIN toProxy : toProxy[i] \in Packet
      BY <3>1, ElementOfSeq
    <3>3. QED
      BY <3>2 DEF Packet
  <2>2. QED
    BY <1>4, <1>8, <2>1 DEF LineOrder, Reached
<1>11. StillBefore
  BY <1>4, <1>8 DEF StillBefore, Before, Reached
<1>12. QED
  BY <1>9, <1>10, <1>11

LEMMA ProxyOrder ==
    ASSUME TypeInv, TypeInv', LineOrder, DeviceOrder, ProxyNext
    PROVE  DeviceOrder' /\ LineOrder' /\ StillBefore
<1>0. toProxy \in Seq(Packet)
  BY DEF TypeInv, TypeOK, SerialTypeOK
<1>1. CASE ProcessOut
  BY <1>1, ProcessOutOrder
<1>2. CASE \E e \in OutEps : WriteDone(e)
  BY <1>2, TransferEndsOrder
<1>3. CASE \E e \in OutEps : RemoveOut(e) /\ UNCHANGED <<serialVars, outDone>>
  BY <1>3, TransferEndsOrder
<1>4. CASE UNCHANGED <<outXfers, outDone>> /\ toProxy' = toProxy
  BY <1>0, <1>4, WithinSame, QuietLine
<1>5. CASE UNCHANGED <<outXfers, outDone>> /\ toProxy # <<>> /\ toProxy' = Tail(toProxy)
  <2>1. Within({"OUT"}, toProxy, toProxy')
    BY <1>0, <1>5, WithinTail
  <2>2. QED
    BY <1>5, <2>1, QuietLine
<1> USE DEF serialVars, gusbVars
<1>6. CASE ProxyStart \/ ProxyStartFails \/ ProxyStop \/ InitTimeout \/ Closed
  BY <1>4, <1>6 DEF ProxyStart, ProxyStartFails, ProxyStop, InitTimeout, Closed
<1>7. CASE ProcessPacket /\ ~ProcessOut
  BY <1>5, <1>7 DEF ProcessPacket, ProcessDescriptors, ProcessIndex, ProcessEndpoints, ProcessIn,
                    ProcessControl, ProcessDebug, ProcessReset, Receive
<1>8. CASE UsbCallback
  BY <1>2, <1>4, <1>8 DEF UsbCallback, ReadDone, ReadFailed, ControlReadDone, ControlWriteDone
<1>9. CASE ProxyLeave
  BY <1>3, <1>4, <1>9 DEF ProxyLeave, TimerTick, SendReset, Cancelled, ProxyExit
<1>10. QED
  BY <1>1, <1>6, <1>7, <1>8, <1>9 DEF ProxyNext

\* A step of the firmware or of the host that neither reads, drops nor sends an
\* OUT packet, except that it may empty the banks.
QuietFirmware ==
    /\ UNCHANGED <<outPkt, sentOut>>
    /\ Reading' => Reading
    /\ pc' = "out_send" => pc = "out_send"
    /\ pc' \in {"out_clear", "out_send"} => returnTo' = "input"
    /\ \A n \in EmuOut : outBank'[n] = outBank[n] \/ outBank'[n] = NoPacket

LEMMA QuietOut ==
    ASSUME TypeInv, TypeInv', OutInv, QuietFirmware,
           DeviceOrder', LineOrder', StillBefore
    PROVE  OutInv'
<1>1. outPkt.data \in Nat /\ outPkt' = outPkt /\ sentOut' = sentOut
  BY DEF QuietFirmware, TypeInv, TypeOK, EmuTypeOK, Slot
<1>2. \A n \in EmuOut : /\ outBank[n].data \in Nat
                        /\ sentOut[n] \in Nat /\ sentOut[n] + 1 \in Nat
                        /\ outBank'[n].data = outBank[n].data \/ outBank'[n].data = 0
  <2> TAKE n \in EmuOut
  <2>1. outBank[n] \in OutPacket /\ sentOut[n] \in Nat
    BY DEF TypeInv, TypeOK, UsbTypeOK
  <2>2. outBank'[n] = outBank[n] \/ outBank'[n] = NoPacket
    BY DEF QuietFirmware
  <2>3. QED
    BY <2>1, <2>2 DEF OutPacket, NoPacket
<1>3. FirmwareOrder'
  <2>1. Held' => Held
    BY <1>1 DEF QuietFirmware, Held
  <2>2. Reading' => outPkt'.ep \in EmuOut
    BY <1>1 DEF QuietFirmware, OutInv, FirmwareOrder
  <2>3. pc' = "out_send" => outPkt'.data # 0
    BY <1>1 DEF QuietFirmware, OutInv, FirmwareOrder
  <2>4. \A n \in EmuOut : outBank'[n].data <= sentOut'[n]
    BY <1>1, <1>2 DEF OutInv, FirmwareOrder
  <2>5. Held' => outPkt'.data <= sentOut'[outPkt'.ep]
    BY <1>1, <2>1 DEF OutInv, FirmwareOrder
  <2>6. Held' /\ outBank'[outPkt'.ep].data # 0 =>
           outPkt'.data <= outBank'[outPkt'.ep].data
           /\ (pc' = "out_send" => outPkt'.data # outBank'[outPkt'.ep].data)
    <3>1. Held => outPkt.ep \in EmuOut
      BY DEF Held, OutInv, FirmwareOrder
    <3>2. QED
      BY <1>1, <1>2, <2>1, <3>1 DEF QuietFirmware, OutInv, FirmwareOrder
  <2>7. QED
    BY <2>2, <2>3, <2>4, <2>5, <2>6 DEF QuietFirmware, FirmwareOrder
<1>4. \A e \in OutEps :
         /\ Before(e, sentOut[U2S[e]] + 1)'
         /\ outBank'[U2S[e]].data # 0 => Before(e, outBank[U2S[e]].data)'
         /\ Held' /\ outPkt'.ep = U2S[e] => Before(e, outPkt.data)'
  <2> TAKE e \in OutEps
  <2>0. U2S[e] \in EmuOut
    BY DEF EmuOut
  <2> DEFINE next == sentOut[U2S[e]] + 1
             banked == outBank[U2S[e]].data
             held == outPkt.data
  <2>1. next \in Nat /\ banked \in Nat /\ held \in Nat
    BY <1>1, <1>2, <2>0
  <2>2. /\ Before(e, next) /\ (banked # 0 => Before(e, banked))
        /\ (Held /\ outPkt.ep = U2S[e] => Before(e, held))
    BY DEF OutInv, BeforeAll
  <2>3. /\ next' = next /\ (banked' # 0 => banked' = banked) /\ held' = held
        /\ Held' => Held
    BY <1>1, <1>2, <2>0 DEF QuietFirmware, Held
  <2> HIDE DEF next, banked, held
  <2>4. \A d \in Nat : Before(e, d) =>
           /\ AllBelow(outDone'[e], d) /\ AllBelow(outXfers'[e], d)
           /\ \A i \in DOMAIN toProxy' :
                 toProxy'[i].type = "OUT" /\ toProxy'[i].ep = U2S[e] => toProxy'[i].data < d
    BY DEF StillBefore, Before, Reached
  <2>5. Before(e, next)'
    BY <2>1, <2>2, <2>3, <2>4 DEF Before, Reached
  <2>6. banked' # 0 => Before(e, banked)'
    BY <2>1, <2>2, <2>3, <2>4 DEF Before, Reached
  <2>7. Held' /\ outPkt'.ep = U2S[e] => Before(e, held)'
    BY <1>1, <2>1, <2>2, <2>3, <2>4 DEF Before, Reached
  <2>8. QED
    BY <2>5, <2>6, <2>7 DEF next, banked, held
<1>5. QED
  BY <1>3, <1>4 DEF OutInv, BeforeAll

LEMMA QuietFirmwareSteps ==
    ASSUME TypeInv, FirmwareOrder, EmuNext, ~OutputPoll, ~OutputClear, ~OutputSend, ~Reboot
    PROVE  QuietFirmware
<1> USE DEF QuietFirmware, Reading, Goto, MainUnchanged, mainVars, outVars, usbVars, busVars,
            hostVars, TaskReturns
<1>0. returnTo \in {"input", "out_clear"} /\ outBank \in [EmuOut -> OutPacket]
  BY DEF TypeInv, TypeOK, EmuTypeOK, UsbTypeOK
<1>1. CASE EmuInterrupt
  BY <1>0, <1>1 DEF EmuInterrupt, RxDescriptors, RxIndex, RxEndpoints, RxReset, RxControl,
                    RxControlStall, RxIn, FirmwareOrder
<1>2. CASE Boot \/ TaskSkipped \/ OutputNothing
  BY <1>2 DEF Boot, TaskSkipped, OutputNothing
<1>3. CASE SendNextInput
  BY <1>3 DEF SendNextInput, InputNothing, InputFound, InputWrite, InputRelease, InputAck
<1>4. CASE USBTask
  BY <1>0, <1>4 DEF USBTask, UsbTaskNothing, ClearSetFeature, SetHalt, ClearHalt, RequestStatus,
                    SetConfiguration, RequestTooBig, RequestForwarded,
                    EmptyOutBanks
<1>5. CASE UnhandledControlRequest
  BY <1>0, <1>5 DEF UnhandledControlRequest, ControlClearReply, ControlClearStall, ControlSendIn,
       ControlSendOut, ControlReadSetup,
       ControlReadAborted, ControlWait, ControlReplied, ControlTimeout, ControlStalled,
       ControlAccepted, ControlReturnData, ControlWriteFirst, ControlWriteSecond,
       ControlWriteAborted
<1>6. QED
  BY <1>1, <1>2, <1>3, <1>4, <1>5 DEF EmuNext, EmuMain, ReceiveNextOutput

LEMMA QuietHostSteps ==
    ASSUME TypeInv, FirmwareOrder, HostStep, \A n \in EmuOut : ~HostWrites(n)
    PROVE  QuietFirmware
<1> USE DEF QuietFirmware, Reading, outVars, emuVars, mainVars, hostVars
<1>0. UNCHANGED emuVars /\ UNCHANGED <<pc, returnTo, outPkt>>
  BY DEF HostStep
<1>1. CASE \E n \in EmuIn : HostReads(n)
  BY <1>0, <1>1 DEF HostReads, FirmwareOrder
<1>2. CASE \E r \in Requests : HostSetup(r)
  BY <1>0, <1>2 DEF HostSetup, FirmwareOrder
<1>3. CASE HostAbort \/ BusReset \/ BusSuspend \/ BusWakeUp
  BY <1>0, <1>3 DEF HostAbort, BusReset, BusSuspend, BusWakeUp, EmptyOutBanks, FirmwareOrder
<1>4. QED
  BY <1>1, <1>2, <1>3 DEF HostStep, UsbNext

\* The line is as it was, or has a packet more that is no OUT packet.
LEMMA QuietLineOut ==
    ASSUME TypeInv, TypeInv', OutInv, EmuNext \/ HostStep, ~OutputSend,
           UNCHANGED <<outXfers, outDone>>
    PROVE  DeviceOrder' /\ LineOrder' /\ StillBefore
<1>0. toProxy \in Seq(Packet)
  BY DEF TypeInv, TypeOK, SerialTypeOK
<1>1. Within({"OUT"}, toProxy, toProxy')
  <2>1. CASE toProxy' = toProxy
    BY <1>0, <2>1, WithinSame
  <2>2. CASE \E p \in Packet : toProxy' = Append(toProxy, p) /\ p.type # "OUT"
    BY <1>0, <2>2, WithinAppend
  <2>3. CASE HostStep
    BY <2>1, <2>3 DEF HostStep, serialVars
  <2>4. CASE EmuNext
    <3>1. \/ toProxy' = toProxy
          \/ \E p \in Packet :
                /\ toProxy' = Append(toProxy, p)
                /\ \/ p.type \in StartupTypes \union {"IN", "DEBUG"}
                   \/ p = Pkt("CONTROL", 0, request)
      BY <2>4, EmuWrites
    <3>2. QED
      BY <2>1, <2>2, <3>1 DEF StartupTypes, Pkt
  <2>5. QED
    BY <2>3, <2>4
<1>2. QED
  BY <1>1, QuietLine DEF OutInv

\* What StillBefore says of the three places, spelled out for the steps below.
LEMMA BeforeBanks ==
    ASSUME TypeInv, OutInv, StillBefore, NEW e \in OutEps
    PROVE  /\ U2S[e] \in EmuOut
           /\ sentOut[U2S[e]] \in Nat /\ sentOut[U2S[e]] + 1 \in Nat
           /\ outBank[U2S[e]].data \in Nat /\ outPkt.data \in Nat
           /\ Before(e, sentOut[U2S[e]] + 1)
           /\ outBank[U2S[e]].data # 0 => Before(e, outBank[U2S[e]].data)
           /\ Held /\ outPkt.ep = U2S[e] => Before(e, outPkt.data)
           /\ \A d \in Nat : Before(e, d) =>
                 /\ AllBelow(outDone'[e], d) /\ AllBelow(outXfers'[e], d)
                 /\ \A i \in DOMAIN toProxy' :
                       toProxy'[i].type = "OUT" /\ toProxy'[i].ep = U2S[e] => toProxy'[i].data < d
<1>1. U2S[e] \in EmuOut
  BY DEF EmuOut
<1>2. outBank[U2S[e]] \in OutPacket /\ sentOut[U2S[e]] \in Nat /\ outPkt \in Slot
  BY <1>1 DEF TypeInv, TypeOK, UsbTypeOK, EmuTypeOK
<1>3. QED
  BY <1>1, <1>2 DEF OutPacket, Slot, OutInv, BeforeAll, StillBefore, Before, Reached

LEMMA BeforeMore ==
    ASSUME TypeInv, NEW e \in OutEps, NEW d \in Nat, Before(e, d)
    PROVE  Before(e, d + 1)
<1>1. outDone[e] \in Seq(Nat) /\ outXfers[e] \in Seq(Nat) /\ toProxy \in Seq(Packet)
  BY DEF TypeInv, TypeOK, GusbTypeOK, SerialTypeOK
<1>2. /\ \A i \in DOMAIN outDone[e] : outDone[e][i] \in Nat
      /\ \A i \in DOMAIN outXfers[e] : outXfers[e][i] \in Nat
      /\ \A i \in DOMAIN toProxy : toProxy[i].data \in Nat
  <2>1. \A i \in DOMAIN toProxy : toProxy[i] \in Packet
    BY <1>1, ElementOfSeq, LenProperties
  <2>2. QED
    BY <1>1, <2>1, ElementOfSeq, LenProperties DEF Packet
<1>3. QED
  BY <1>2 DEF Before, Reached, AllBelow

\* Banks that the host fills or the firmware empties, and a packet that the
\* firmware reads from a bank, stay behind the packets on the line.
LEMMA PlacesOut ==
    ASSUME TypeInv, OutInv, StillBefore,
           \A n \in EmuOut :
              /\ sentOut'[n] \in {sentOut[n], sentOut[n] + 1}
              /\ outBank'[n].data \in {0, outBank[n].data, sentOut[n] + 1},
           Held' => \/ Held /\ outPkt' = outPkt
                    \/ outPkt'.ep \in EmuOut /\ outPkt'.data = outBank[outPkt'.ep].data,
           Held' => outPkt'.data # 0
    PROVE  BeforeAll'
<1> SUFFICES ASSUME NEW e \in OutEps
             PROVE  /\ Before(e, sentOut[U2S[e]] + 1)'
                    /\ outBank'[U2S[e]].data # 0 => Before(e, outBank[U2S[e]].data)'
                    /\ Held' /\ outPkt'.ep = U2S[e] => Before(e, outPkt.data)'
  BY DEF BeforeAll
<1> DEFINE n == U2S[e]
           next == sentOut[n] + 1
           banked == outBank[n].data
           held == outPkt.data
<1>1. /\ n \in EmuOut
      /\ sentOut[n] \in Nat /\ next \in Nat /\ banked \in Nat /\ held \in Nat
      /\ Before(e, next)
      /\ banked # 0 => Before(e, banked)
      /\ Held /\ outPkt.ep = n => Before(e, held)
      /\ Before(e, next + 1)
  BY BeforeBanks, BeforeMore
<1>2. \A d \in Nat : Before(e, d) =>
         /\ AllBelow(outDone'[e], d) /\ AllBelow(outXfers'[e], d)
         /\ \A i \in DOMAIN toProxy' :
               toProxy'[i].type = "OUT" /\ toProxy'[i].ep = n => toProxy'[i].data < d
  BY BeforeBanks
<1>3. /\ next' \in {next, next + 1} /\ banked' \in {0, banked, next}
      /\ Held' /\ outPkt'.ep = n => held' # 0 /\ (held' = banked \/ (Held /\ outPkt.ep = n /\ held' = held))
      /\ n' = n
  BY <1>1
<1> HIDE DEF n, next, banked, held
<1>4. /\ next' \in Nat /\ Before(e, next')
      /\ banked' # 0 => banked' \in Nat /\ Before(e, banked')
      /\ Held' /\ outPkt'.ep = n => held' \in Nat /\ Before(e, held')
  BY <1>1, <1>3
<1>5. Before(e, next)'
  BY <1>2, <1>3, <1>4 DEF Before, Reached, n
<1>6. banked' # 0 => Before(e, banked)'
  BY <1>2, <1>3, <1>4 DEF Before, Reached, n
<1>7. Held' /\ outPkt'.ep = n => Before(e, held)'
  BY <1>2, <1>3, <1>4 DEF Before, Reached, n
<1>8. QED
  BY <1>5, <1>6, <1>7 DEF n, next, banked, held

LEMMA OutputPollOrder ==
    ASSUME TypeInv, OutInv, OutputPoll, DeviceOrder', LineOrder', StillBefore
    PROVE  OutInv'
<1> DEFINE n == outEndpoints[selectedOut + 1]
<1>1. n \in EmuOut
  <2>1. selectedOut + 1 \in 1..Len(outEndpoints)
    BY EmptySeq, LenProperties DEF OutputPoll, TypeInv, TypeOK, EmuTypeOK, SelectedInRange
  <2>2. QED
    BY <2>1, ElementOfSeq DEF TypeInv, TypeOK, EmuTypeOK
<1>2. /\ sentOut' = sentOut
      /\ outPkt' = [ep |-> n, data |-> IF outBank[n].size = "zero" THEN 0 ELSE outBank[n].data]
      /\ outBank' = outBank \/ outBank' = [outBank EXCEPT ![n] = NoPacket]
      /\ pc' = "out_clear" => returnTo' = "input"
      /\ pc' # "out_send"
  BY DEF OutputPoll, hostVars
<1> HIDE DEF n
<1>3. outBank \in [EmuOut -> OutPacket] /\ sentOut \in [EmuOut -> Nat]
  BY DEF TypeInv, TypeOK, UsbTypeOK
<1>4. \A m \in EmuOut : /\ outBank[m].data \in Nat /\ sentOut[m] \in Nat
                        /\ outBank'[m].data \in {0, outBank[m].data}
  BY <1>2, <1>3 DEF OutPacket, NoPacket
<1>5. FirmwareOrder'
  <2>1. \A m \in EmuOut : outBank'[m].data <= sentOut'[m]
    BY <1>2, <1>4 DEF OutInv, FirmwareOrder
  <2>2. Held' => outPkt'.data = outBank[n].data /\ outPkt'.ep = n
    BY <1>2 DEF Held
  <2>3. outBank[n].data <= sentOut[n] /\ outBank'[n].data \in {0, outBank[n].data}
        /\ outBank[n].data \in Nat
    BY <1>1, <1>4 DEF OutInv, FirmwareOrder
  <2>4. QED
    BY <1>1, <1>2, <2>1, <2>2, <2>3 DEF FirmwareOrder
<1>6. BeforeAll'
  <2>1. Held' => /\ outPkt'.ep \in EmuOut /\ outPkt'.data = outBank[outPkt'.ep].data
                 /\ outPkt'.data # 0
    BY <1>1, <1>2 DEF Held
  <2>2. \A m \in EmuOut : /\ sentOut'[m] \in {sentOut[m], sentOut[m] + 1}
                          /\ outBank'[m].data \in {0, outBank[m].data, sentOut[m] + 1}
    BY <1>2, <1>4
  <2>3. QED
    BY <2>1, <2>2, PlacesOut
<1>7. QED
  BY <1>5, <1>6 DEF OutInv

LEMMA OutputClearOrder ==
    ASSUME TypeInv, OutInv, OutputClear, DeviceOrder', LineOrder', StillBefore
    PROVE  OutInv'
<1>1. /\ sentOut' = sentOut /\ outPkt' = outPkt /\ returnTo' = returnTo
      /\ outPkt.ep \in EmuOut /\ returnTo = "input" /\ Reading
      /\ pc' \in {"usbtask", "out_send"} /\ (pc' = "out_send" => outPkt.data # 0)
      /\ outBank' = [outBank EXCEPT ![outPkt.ep] = NoPacket]
  BY DEF OutputClear, Goto, MainUnchanged, outVars, hostVars, OutInv, FirmwareOrder, Reading
<1>2. outBank \in [EmuOut -> OutPacket] /\ sentOut \in [EmuOut -> Nat]
  BY DEF TypeInv, TypeOK, UsbTypeOK
<1>3. \A m \in EmuOut : /\ outBank[m].data \in Nat /\ sentOut[m] \in Nat
                        /\ outBank'[m].data \in {0, outBank[m].data}
  BY <1>1, <1>2 DEF OutPacket, NoPacket
<1>4. outBank'[outPkt'.ep].data = 0
  BY <1>1, <1>2 DEF NoPacket
<1>5. Held' => Held
  BY <1>1 DEF Held
<1>6. FirmwareOrder'
  <2>1. \A m \in EmuOut : outBank'[m].data <= sentOut'[m]
    BY <1>1, <1>3 DEF OutInv, FirmwareOrder
  <2>2. Held' => outPkt'.data <= sentOut'[outPkt'.ep]
    BY <1>1, <1>5 DEF OutInv, FirmwareOrder
  <2>3. QED
    BY <1>1, <1>4, <2>1, <2>2 DEF FirmwareOrder
<1>7. BeforeAll'
  <2>1. Held' => Held /\ outPkt' = outPkt /\ outPkt'.data # 0
    BY <1>1, <1>5 DEF Held
  <2>2. \A m \in EmuOut : /\ sentOut'[m] \in {sentOut[m], sentOut[m] + 1}
                          /\ outBank'[m].data \in {0, outBank[m].data, sentOut[m] + 1}
    BY <1>1, <1>3
  <2>3. QED
    BY <2>1, <2>2, PlacesOut
<1>8. QED
  BY <1>6, <1>7 DEF OutInv

LEMMA HostWritesOrder ==
    ASSUME TypeInv, OutInv, NEW n \in EmuOut, HostWrites(n), UNCHANGED emuVars,
           DeviceOrder', LineOrder', StillBefore
    PROVE  OutInv'
<1>1. /\ outPkt' = outPkt /\ pc' = pc /\ returnTo' = returnTo
      /\ sentOut' = [sentOut EXCEPT ![n] = @ + 1]
      /\ outBank[n] = NoPacket
      /\ \E size \in OutSizes[n] :
            outBank' = [outBank EXCEPT ![n] = [size |-> size, data |-> sentOut[n] + 1]]
  BY DEF HostWrites, emuVars, outVars, mainVars
<1>2. outBank \in [EmuOut -> OutPacket] /\ sentOut \in [EmuOut -> Nat]
  BY DEF TypeInv, TypeOK, UsbTypeOK
<1>3. \A m \in EmuOut : /\ outBank[m].data \in Nat /\ sentOut[m] \in Nat
                        /\ m # n => sentOut'[m] = sentOut[m] /\ outBank'[m] = outBank[m]
  BY <1>1, <1>2 DEF OutPacket
<1>4. sentOut'[n] = sentOut[n] + 1 /\ outBank'[n].data = sentOut[n] + 1
  BY <1>1, <1>2
<1>5. Held' = Held /\ Reading' = Reading /\ (Held => outPkt.ep \in EmuOut) /\ outPkt.data \in Nat
  BY <1>1 DEF Held, Reading, OutInv, FirmwareOrder, TypeInv, TypeOK, EmuTypeOK, Slot
<1>6. FirmwareOrder'
  <2>1. \A m \in EmuOut : outBank'[m].data <= sentOut'[m]
    BY <1>3, <1>4 DEF OutInv, FirmwareOrder
  <2>2. Held' => outPkt'.data <= sentOut'[outPkt'.ep]
    <3>1. Held => outPkt.data <= sentOut[outPkt.ep]
      BY DEF OutInv, FirmwareOrder
    <3>2. QED
      BY <1>1, <1>3, <1>4, <1>5, <3>1
  <2>3. Held' /\ outBank'[outPkt'.ep].data # 0 =>
           outPkt'.data <= outBank'[outPkt'.ep].data
           /\ (pc' = "out_send" => outPkt'.data # outBank'[outPkt'.ep].data)
    <3>1. CASE outPkt.ep = n
      <4>1. Held => outPkt.data <= sentOut[n]
        BY <3>1 DEF OutInv, FirmwareOrder
      <4>2. QED
        BY <1>1, <1>3, <1>4, <1>5, <3>1, <4>1
    <3>2. CASE outPkt.ep # n
      BY <1>1, <1>3, <1>5, <3>2 DEF OutInv, FirmwareOrder
    <3>3. QED
      BY <3>1, <3>2
  <2>4. QED
    BY <1>1, <1>5, <2>1, <2>2, <2>3 DEF OutInv, FirmwareOrder
<1>7. BeforeAll'
  <2>1. Held' => Held /\ outPkt' = outPkt /\ outPkt'.data # 0
    BY <1>1, <1>5 DEF Held
  <2>2. \A m \in EmuOut : /\ sentOut'[m] \in {sentOut[m], sentOut[m] + 1}
                          /\ outBank'[m].data \in {0, outBank[m].data, sentOut[m] + 1}
    BY <1>3, <1>4
  <2>3. QED
    BY <2>1, <2>2, PlacesOut
<1>8. QED
  BY <1>6, <1>7 DEF OutInv

LEMMA RebootOrder ==
    ASSUME TypeInv, OutInv, Reboot, DeviceOrder', LineOrder', StillBefore
    PROVE  OutInv'
<1>1. /\ sentOut' = sentOut /\ pc' = "boot" /\ returnTo' = "input"
      /\ outBank' = EmptyOutBanks
  BY DEF Reboot, hostVars
<1>2. ~Reading' /\ ~Held' /\ \A m \in EmuOut : outBank'[m].data = 0 /\ sentOut[m] \in Nat
  BY <1>1 DEF Reading, Held, EmptyOutBanks, NoPacket, TypeInv, TypeOK, UsbTypeOK
<1>3. FirmwareOrder'
  BY <1>1, <1>2 DEF FirmwareOrder
<1>4. BeforeAll'
  BY <1>1, <1>2, PlacesOut
<1>5. QED
  BY <1>3, <1>4 DEF OutInv

\* The packet that the firmware sends goes behind those on the line.
LEMMA OutputSendOrder ==
    ASSUME TypeInv, OutInv, OutputSend, UNCHANGED <<outXfers, outDone>>
    PROVE  OutInv'
<1> DEFINE n == outPkt.ep
           x == outPkt.data
           p == Pkt("OUT", n, x)
<1>1. /\ pc = "out_send" /\ pc' = "usbtask" /\ returnTo' = returnTo /\ returnTo = "input"
      /\ outPkt' = outPkt /\ outBank' = outBank /\ sentOut' = sentOut
      /\ toProxy' = Append(toProxy, p)
      /\ Held /\ n \in EmuOut /\ x # 0
  BY DEF OutputSend, Goto, MainUnchanged, outVars, usbVars, busVars, hostVars, OutInv,
         FirmwareOrder, Held, Reading
<1>2. /\ toProxy \in Seq(Packet) /\ n \in Nat /\ x \in Nat
      /\ outBank \in [EmuOut -> OutPacket] /\ sentOut \in [EmuOut -> Nat]
  BY DEF TypeInv, TypeOK, SerialTypeOK, UsbTypeOK, EmuTypeOK, Slot
<1>3. p \in Packet /\ p.type = "OUT" /\ p.ep = n /\ p.data = x
  BY <1>2, PktType DEF PacketTypes, Pkt
<1>4. /\ DOMAIN toProxy = 1..Len(toProxy) /\ Len(toProxy) \in Nat
      /\ DOMAIN toProxy' = 1..Len(toProxy) + 1
      /\ \A i \in 1..Len(toProxy) : toProxy'[i] = toProxy[i]
      /\ toProxy'[Len(toProxy) + 1] = p
  BY <1>1, <1>2, <1>3, AppendProperties, LenProperties
<1>5. /\ x <= sentOut[n]
      /\ outBank[n].data # 0 => x < outBank[n].data
      /\ \A m \in EmuOut : outBank[m].data \in Nat /\ sentOut[m] \in Nat
  <2>1. \A m \in EmuOut : outBank[m].data \in Nat /\ sentOut[m] \in Nat
    BY <1>2 DEF OutPacket
  <2>2. QED
    BY <1>1, <1>2, <2>1 DEF OutInv, FirmwareOrder
<1>6. \A e \in OutEps : U2S[e] = n => Before(e, x)
  BY <1>1 DEF OutInv, BeforeAll
<1>7. PICK e0 \in OutEps : U2S[e0] = n
  BY <1>1 DEF EmuOut
<1> HIDE DEF n, x, p
<1>8. DeviceOrder'
  BY DEF OutInv, DeviceOrder
<1>9. LineOrder'
  <2>1. \A i \in DOMAIN toProxy' :
           toProxy'[i].type = "OUT" => toProxy'[i].ep \in EmuOut /\ toProxy'[i].data # 0
    BY <1>1, <1>3, <1>4 DEF OutInv, LineOrder, n, x
  <2>2. \A i, j \in DOMAIN toProxy' :
           /\ toProxy'[i].type = "OUT" /\ toProxy'[j].type = "OUT"
           /\ toProxy'[i].ep = toProxy'[j].ep /\ i < j
           => toProxy'[i].data < toProxy'[j].data
    <3>1. Before(e0, x)
      BY <1>6, <1>7
    <3>2. \A i \in DOMAIN toProxy :
             toProxy[i].type = "OUT" /\ toProxy[i].ep = n => toProxy[i].data < x
      BY <1>7, <3>1 DEF Before
    <3>3. \A i, j \in DOMAIN toProxy' : i < j =>
             i \in DOMAIN toProxy /\ (j \in DOMAIN toProxy \/ j = Len(toProxy) + 1)
      BY <1>4
    <3>4. QED
      BY <1>3, <1>4, <3>2, <3>3 DEF OutInv, LineOrder
  <2>3. \A i \in DOMAIN toProxy', e \in OutEps :
           toProxy'[i].type = "OUT" /\ toProxy'[i].ep = U2S[e] => Reached(e, toProxy'[i].data)
    <3> TAKE i \in DOMAIN toProxy', e \in OutEps
    <3>1. CASE i \in DOMAIN toProxy
      BY <1>4, <3>1 DEF OutInv, LineOrder
    <3>2. CASE i = Len(toProxy) + 1
      BY <1>3, <1>4, <1>6, <3>2 DEF Before
    <3>3. QED
      BY <1>4, <3>1, <3>2
  <2>4. QED
    BY <2>1, <2>2, <2>3 DEF LineOrder, Reached
<1>10. \A e \in OutEps, d \in Nat : Before(e, d) /\ (U2S[e] = n => x < d) => Before(e, d)'
  BY <1>3, <1>4 DEF Before, Reached
<1>11. BeforeAll'
  <2> SUFFICES ASSUME NEW e \in OutEps
               PROVE  /\ Before(e, sentOut[U2S[e]] + 1)'
                      /\ outBank'[U2S[e]].data # 0 => Before(e, outBank[U2S[e]].data)'
                      /\ ~Held'
    BY DEF BeforeAll
  <2> DEFINE next == sentOut[U2S[e]] + 1
             banked == outBank[U2S[e]].data
  <2>1. U2S[e] \in EmuOut
    BY DEF EmuOut
  <2>2. /\ next \in Nat /\ banked \in Nat
        /\ Before(e, next) /\ (banked # 0 => Before(e, banked))
        /\ U2S[e] = n => x < next /\ (banked # 0 => x < banked)
    BY <1>2, <1>5, <2>1 DEF OutInv, BeforeAll
  <2>3. next' = next /\ banked' = banked
    BY <1>1
  <2> HIDE DEF next, banked
  <2>4. Before(e, next)' /\ (banked # 0 => Before(e, banked)')
    <3>1. \A d \in Nat : Before(e, d) /\ (U2S[e] = n => x < d) =>
             /\ AllBelow(outDone'[e], d) /\ AllBelow(outXfers'[e], d)
             /\ \A i \in DOMAIN toProxy' :
                   toProxy'[i].type = "OUT" /\ toProxy'[i].ep = U2S[e] => toProxy'[i].data < d
      BY <1>10 DEF Before, Reached
    <3>2. QED
      BY <2>2, <2>3, <3>1 DEF Before, Reached
  <2>5. ~Held'
    BY <1>1 DEF Held, Reading
  <2>6. QED
    BY <2>3, <2>4, <2>5 DEF next, banked
<1>12. FirmwareOrder'
  BY <1>1 DEF OutInv, FirmwareOrder, Held, Reading
<1>13. QED
  BY <1>8, <1>9, <1>11, <1>12 DEF OutInv

LEMMA InitOut == Init => OutInv
<1> SUFFICES ASSUME Init
             PROVE  OutInv
  OBVIOUS
<1>1. /\ toProxy = <<>> /\ \A e \in OutEps : outDone[e] = <<>> /\ outXfers[e] = <<>>
  BY DEF Init, SerialInit, GusbInit
<1>2. DeviceOrder /\ LineOrder /\ \A e \in OutEps, d \in Nat : Before(e, d)
  BY <1>1 DEF DeviceOrder, LineOrder, Before, Reached, AllBelow, Increasing
<1>3. /\ \A n \in EmuOut : outBank[n].data = 0 /\ sentOut[n] = 0
      /\ ~Reading /\ ~Held /\ pc = "boot"
  BY DEF Init, UsbInit, EmuInit, EmptyOutBanks, NoPacket, Reading, Held
<1>4. FirmwareOrder
  BY <1>3 DEF FirmwareOrder
<1>5. BeforeAll
  BY <1>2, <1>3 DEF BeforeAll, EmuOut
<1>6. QED
  BY <1>2, <1>4, <1>5 DEF OutInv

LEMMA StepOut == TypeInv /\ OutInv /\ [Next]_vars => OutInv'
<1> SUFFICES ASSUME TypeInv, OutInv, [Next]_vars
             PROVE  OutInv'
  OBVIOUS
<1>1. TypeInv'
  BY StepTypes
<1>2. CASE ProxyStep
  <2>1. DeviceOrder' /\ LineOrder' /\ StillBefore
    BY <1>1, <1>2, ProxyOrder DEF ProxyStep, OutInv
  <2>2. QuietFirmware
    BY <1>2 DEF ProxyStep, QuietFirmware, Reading, usbVars, busVars, hostVars, emuVars, outVars,
                mainVars, OutInv, FirmwareOrder
  <2>3. QED
    BY <1>1, <2>1, <2>2, QuietOut
<1>3. CASE EmuStep
  <2>1. EmuNext /\ UNCHANGED <<outXfers, outDone>>
    BY <1>3 DEF EmuStep, gusbVars
  <2>2. ~OutputSend => DeviceOrder' /\ LineOrder' /\ StillBefore
    BY <1>1, <2>1, QuietLineOut
  <2>3. ~OutputPoll /\ ~OutputClear /\ ~OutputSend /\ ~Reboot => QuietFirmware
    BY <2>1, QuietFirmwareSteps DEF OutInv
  <2>4. QED
    BY <1>1, <2>1, <2>2, <2>3, QuietOut, OutputPollOrder, OutputClearOrder, OutputSendOrder,
       RebootOrder
<1>4. CASE HostStep
  <2>1. UNCHANGED <<outXfers, outDone>> /\ UNCHANGED emuVars /\ ~OutputSend
    BY <1>4 DEF HostStep, gusbVars, serialVars, OutputSend, Goto, emuVars, mainVars
  <2>2. DeviceOrder' /\ LineOrder' /\ StillBefore
    BY <1>1, <1>4, <2>1, QuietLineOut
  <2>3. CASE \A n \in EmuOut : ~HostWrites(n)
    BY <1>1, <1>4, <2>2, <2>3, QuietHostSteps, QuietOut DEF OutInv
  <2>4. CASE \E n \in EmuOut : HostWrites(n)
    BY <2>1, <2>2, <2>4, HostWritesOrder
  <2>5. QED
    BY <2>3, <2>4
<1>5. CASE UNCHANGED vars
  BY <1>5 DEF vars, serialVars, gusbVars, usbVars, busVars, hostVars, emuVars, outVars, mainVars,
              OutInv, DeviceOrder, LineOrder, Reached, FirmwareOrder, BeforeAll, Before, Held,
              Reading
<1>6. QED
  BY <1>2, <1>3, <1>4, <1>5 DEF Next

LEMMA AlwaysOut == Spec => []OutInv
BY InitOut, StepOut, AlwaysTypeInv, PTL DEF Spec

\* OutputsInOrder: whatever the host, the device and the line do, the device
\* gets the OUT packets of an endpoint in the order in which the host sent
\* them, none twice (ReceiveNextOutput in emu.c, send_out_packet in proxy.c).
THEOREM OutputsOrdered == Spec => []OutputsInOrder
<1>1. OutInv => OutputsInOrder
  BY DEF OutInv, DeviceOrder, Increasing, OutputsInOrder
<1>2. QED
  BY <1>1, AlwaysOut, PTL
=============================================================================
