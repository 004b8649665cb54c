--------------------------- MODULE SerialFraming ---------------------------
(***************************************************************************)
(* The serial line byte by byte: adapter_send and adapter_recv on the PC   *)
(* with the reads and writes of async.c below them, the main loop of the   *)
(* firmware that sends packets, and its interrupt, which receives them.    *)
(* Serial has packets for elements; here is why it may.                    *)
(*                                                                         *)
(* A packet is a type and a value, a sequence of bytes.  Sizes are         *)
(* constants, so that TLC checks all the cases of 256 byte values with a   *)
(* few; bytes are naturals below ByteValues and wrap as uint8_t does.      *)
(***************************************************************************)
EXTENDS Naturals, Sequences

CONSTANTS
    ByteValues,     \* 256
    MaxValue,       \* MAX_PACKET_VALUE_SIZE: 254
    SetupSize,      \* sizeof(USB_ControlRequest): 8
    TableSize,      \* bytes of the tables: [StartupTypes -> Nat]
    ReplySizes,     \* sizes of the replies and reports that the proxy sends
    OutSizes,       \* sizes of the OUT packets with their endpoint
    DataSizes,      \* wLength of the requests with data for the device
    Outcomes,       \* what write may do: subset of {"whole", "short", "fails"}
    MaxSpoken,      \* bound: packets that the main loop sends
    MaxSaid         \* bound: packets that the proxy sends after the start

\* The members of e_packetType.
DESCRIPTORS == 0    INDEX == 1          ENDPOINTS == 2      RESET == 3
CONTROL == 4        CONTROL_STALL == 5  IN_REPORT == 6
OUT_PACKET == 7     DEBUG == 8
StartupTypes == {DESCRIPTORS, INDEX, ENDPOINTS}

HeaderSize == 2
PacketSize == HeaderSize + MaxValue     \* sizeof(s_packet)

ASSUME SizesAssumption ==
    /\ ByteValues \in Nat /\ MaxValue \in Nat /\ SetupSize \in Nat
    /\ DEBUG < ByteValues
    /\ MaxValue < ByteValues
    /\ SetupSize \in 1..MaxValue

\* The table of the endpoints has MAX_ENDPOINTS entries at most.
ASSUME TrafficAssumption ==
    /\ TableSize \in [StartupTypes -> Nat]
    /\ TableSize[ENDPOINTS] <= MaxValue
    /\ ReplySizes \subseteq 0..MaxValue
    /\ OutSizes \subseteq 1..MaxValue
    /\ DataSizes \subseteq 0..MaxValue
    /\ Outcomes \subseteq {"whole", "short", "fails"}
    /\ MaxSpoken \in Nat /\ MaxSaid \in Nat

VARIABLES
    \* from the firmware to the PC
    tx,             \* bytes of the packet that the main loop is sending
    up,             \* bytes sent and not read
    packet,         \* what adapter_recv has of a packet: its first bread bytes
    readSize,       \* read.count of async.c
    spoken,         \* history: packets that the firmware has begun to send
    heard,          \* history: packets given to process_packet
    oversized,      \* history: a request above the limit of the README was sent
    \* from the PC to the firmware
    sending,        \* adapter_send: the type, and what is left of the data
    down,           \* bytes written and not received
    isr,            \* the interrupt: what it waits for and has of a packet
    stored,         \* what the buffer for each type of packet holds
    started,
    said,           \* history: packets that adapter_send has cut
    taken,          \* history: packets that the interrupt has received
    cut             \* history: a write was short

upVars == <<tx, up, packet, readSize, spoken, heard, oversized>>
sendVars == <<sending, said, cut>>
isrVars == <<isr, stored, started, taken>>
vars == <<upVars, sendVars, down, isrVars>>

Byte == 0..ByteValues - 1
Frame == [type : Byte, value : Seq(Byte)]
SendingModes == {"idle", "going", "leaving", "closed"}  \* leaving: done is set
Stages == {"idle", "length", "value", "reset"}  \* reset: forceHardReset
Received == DESCRIPTORS..IN_REPORT

TypeOK ==
    /\ tx \in Seq(Byte) /\ up \in Seq(Byte) /\ down \in Seq(Byte)
    /\ packet \in Seq(Byte) /\ readSize \in Nat
    /\ spoken \in Seq(Frame) /\ heard \in Seq(Frame)
    /\ said \in Seq(Frame) /\ taken \in Seq(Frame)
    /\ oversized \in BOOLEAN /\ cut \in BOOLEAN /\ started \in BOOLEAN
    /\ sending \in [mode : SendingModes, type : Byte, rest : Seq(Byte)]
    /\ isr \in [stage : Stages, type : Byte, left : Byte, value : Seq(Byte)]
    /\ stored \in [Received -> Seq(Byte)]

Fr(type, value) == [type |-> type, value |-> value]

\* n bytes, each different from the ones beside it.
Data(n) == [i \in 1..n |-> i % ByteValues]

\* The header, whose length is a byte, and the value.
Bytes(f) == <<f.type, Len(f.value) % ByteValues>> \o f.value

Sending(type, data) == [mode |-> "going", type |-> type, rest |-> data]
Waiting(stage) == [stage |-> stage, type |-> 0, left |-> 0, value |-> <<>>]

\* adapter_open: gserial_open has discarded what was received before, and no
\* read size has been set.  proxy_start is sending the descriptors.
Init ==
    /\ tx = <<>> /\ up = <<>> /\ down = <<>>
    /\ packet = <<>> /\ readSize = 0
    /\ spoken = <<>> /\ heard = <<>> /\ said = <<>> /\ taken = <<>>
    /\ oversized = FALSE /\ cut = FALSE
    /\ sending = Sending(DESCRIPTORS, Data(TableSize[DESCRIPTORS]))
    /\ isr = Waiting("idle")
    /\ stored = [t \in Received |-> <<>>]
    /\ started = FALSE

-----------------------------------------------------------------------------
(* adapter_send, and the calls that the proxy makes of it. *)

Min2(a, b) == IF a < b THEN a ELSE b

HasSaid(type) == \E i \in DOMAIN said : said[i].type = type
HasHeard(type) == \E i \in DOMAIN heard : heard[i].type = type

\* The proxy after an adapter_send: it leaves when one of the start fails,
\* without RESET when it has not started.  Where the others fail it goes on: the
\* callback of a control read does not set done (proxy.c:156-158), and libusb
\* ignores what the others return, so that what they set shows as Leave, some
\* steps later.  Nothing is left to do after RESET: what the callbacks of
\* gusb_close may still write reaches a firmware that no longer receives.
After(type, failed) ==
    IF type = RESET \/ (type = DESCRIPTORS /\ failed) THEN "closed"
    ELSE IF failed /\ type \in StartupTypes THEN "leaving" ELSE "idle"

\* One iteration with a packet of so many bytes.  A short write counts as a
\* success; a failure ends adapter_send.
WriteSome(length) ==
    LET f == Fr(sending.type, SubSeq(sending.rest, 1, length))
        rest == SubSeq(sending.rest, length + 1, Len(sending.rest))
    IN  /\ sending.mode = "going"
        /\ \E outcome \in Outcomes :
              /\ \/ /\ outcome = "whole"
                    /\ down' = down \o Bytes(f)
                    /\ UNCHANGED cut
                 \/ /\ outcome = "short"
                    /\ \E n \in 0..HeaderSize + length - 1 : down' = down \o SubSeq(Bytes(f), 1, n)
                    /\ cut' = TRUE
                 \/ /\ outcome = "fails"
                    /\ UNCHANGED <<down, cut>>
              /\ said' = IF outcome = "fails" THEN said ELSE Append(said, f)
              /\ sending' = [sending EXCEPT
                    !.rest = rest,
                    !.mode = IF outcome # "fails" /\ rest # <<>> THEN "going"
                             ELSE After(sending.type, outcome = "fails")]
        /\ UNCHANGED <<upVars, isrVars>>

\* One write for the whole of the data.
WritePacket_Uncut == WriteSome(Len(sending.rest))

\* MAX_PACKET_VALUE_SIZE bytes, or what is left.
WritePacket == WriteSome(Min2(MaxValue, Len(sending.rest)))

\* The answer to a request, or a report.
Answer ==
    /\ sending.mode = "idle"
    /\ HasHeard(ENDPOINTS)
    /\ Len(SelectSeq(said, LAMBDA f : f.type > RESET)) < MaxSaid
    /\ \E t \in {CONTROL, CONTROL_STALL, IN_REPORT}, n \in ReplySizes :
          /\ t = CONTROL_STALL => n = 0
          /\ t = IN_REPORT => n > 0
          /\ sending' = Sending(t, Data(n))
    /\ UNCHANGED <<upVars, said, cut, down, isrVars>>

\* A signal, the timer of the start or an error has set done.
Leave ==
    /\ sending.mode \in {"idle", "leaving"}
    /\ sending' = Sending(RESET, <<>>)
    /\ UNCHANGED <<upVars, said, cut, down, isrVars>>

\* What process_packet sends at once, for the packets of the start.
Reaction(type) ==
    CASE type = DESCRIPTORS /\ ~HasSaid(INDEX) -> Sending(INDEX, Data(TableSize[INDEX]))
      [] type = INDEX /\ ~HasSaid(ENDPOINTS) -> Sending(ENDPOINTS, Data(TableSize[ENDPOINTS]))
      [] type = RESET -> [sending EXCEPT !.mode = "leaving"]
      [] OTHER -> sending

-----------------------------------------------------------------------------
(* read_callback and adapter_recv. *)

\* What is still to read of a packet that begins with the bytes of p, counted
\* from the first byte of the value each time.
Remaining_Whole(p) ==
    IF Len(p) < HeaderSize THEN HeaderSize - Len(p)
    ELSE IF Len(p) = HeaderSize + p[2] THEN 0 ELSE p[2]

\* What is still to read of a packet that begins with the bytes of p.
Remaining(p) ==
    IF Len(p) < HeaderSize THEN HeaderSize - Len(p)
    ELSE p[2] - (Len(p) - HeaderSize)

\* read returns the first n bytes that the line has brought, and adapter_recv
\* has no room for them: they are lost, and gpoll goes on.
Overrun(n) ==
    /\ Len(packet) + n > PacketSize
    /\ UNCHANGED <<packet, readSize, heard, sending>>

\* The packet goes on.
ReadPart(n) ==
    LET p == packet \o SubSeq(up, 1, n)
    IN  /\ Len(p) <= PacketSize
        /\ Remaining(p) # 0
        /\ packet' = p
        /\ readSize' = Remaining(p)
        /\ UNCHANGED <<heard, sending>>

\* The packet is whole, with a read size left as it was.
ReadLast_SizeKept(n) ==
    LET p == packet \o SubSeq(up, 1, n)
    IN  /\ Len(p) <= PacketSize
        /\ Remaining(p) = 0
        /\ heard' = Append(heard, Fr(p[1], SubSeq(p, HeaderSize + 1, Len(p))))
        /\ sending' = Reaction(p[1])
        /\ packet' = <<>>
        /\ UNCHANGED readSize

\* The packet is whole.
ReadLast(n) ==
    LET p == packet \o SubSeq(up, 1, n)
    IN  /\ Len(p) <= PacketSize
        /\ Remaining(p) = 0
        /\ heard' = Append(heard, Fr(p[1], SubSeq(p, HeaderSize + 1, Len(p))))
        /\ sending' = Reaction(p[1])
        /\ packet' = <<>>
        /\ readSize' = HeaderSize

\* One call of read_callback; nothing else runs in the process.  A call of read
\* that fails leaves everything as it is: adapter_recv returns at once, gpoll with
\* it, and proxy_start calls gpoll again (adapter.c:53-55, proxy.c:722-724).
ReadUpTo(counts) ==
    /\ sending.mode = "idle"
    /\ up # <<>>
    /\ \E n \in counts :
          /\ Overrun(n) \/ ReadPart(n) \/ ReadLast(n)
          /\ up' = SubSeq(up, n + 1, Len(up))
    /\ UNCHANGED <<tx, spoken, oversized, said, cut, down, isrVars>>

\* A read of no byte is taken for the end of the file.
Read_ZeroIsError == ReadUpTo(1..Min2(readSize, Len(up)))

\* Whatever has come, up to readSize: no byte at all in the first read.
Read == ReadUpTo(IF readSize = 0 THEN {0} ELSE 1..Min2(readSize, Len(up)))

-----------------------------------------------------------------------------
(* The main loop, which runs between two interrupts. *)

\* UnhandledControlRequest for the direction to the host, or with wLength
\* bytes for the device.
RequestSizes == {SetupSize} \cup {SetupSize + w : w \in DataSizes}

Speak(f) ==
    /\ isr.stage = "idle"
    /\ tx = <<>>
    /\ Len(SelectSeq(spoken, LAMBDA g : g.type > ENDPOINTS)) < MaxSpoken
    /\ spoken' = Append(spoken, f)
    /\ tx' = Bytes(f)
    /\ oversized' = (oversized \/ Len(f.value) > MaxValue)
    /\ UNCHANGED <<up, packet, readSize, heard, sendVars, down, isrVars>>

SpeakAny ==
    \/ Speak(Fr(IN_REPORT, <<>>))                           \* SendNextInput
    \/ \E n \in OutSizes : Speak(Fr(OUT_PACKET, Data(n)))   \* ReceiveNextOutput
    \/ \E n \in RequestSizes : Speak(Fr(CONTROL, Data(n)))
    \/ Speak(Fr(DEBUG, Data(SetupSize)))

\* The host is served from the first, whether the tables are there or not.
BeginPacket_Unstarted == SpeakAny

\* The device is attached, and the host there to be served, once the tables
\* are there.
BeginPacket == started /\ SpeakAny

SendByte ==
    /\ isr.stage = "idle"
    /\ tx # <<>>
    /\ up' = Append(up, Head(tx))
    /\ tx' = Tail(tx)
    /\ UNCHANGED <<packet, readSize, spoken, heard, oversized, sendVars, down, isrVars>>

-----------------------------------------------------------------------------
(* The interrupt, which keeps the processor until it has a whole packet. *)

RxType ==
    /\ isr.stage = "idle"
    /\ isr' = [Waiting("length") EXCEPT !.type = Head(down)]
    /\ UNCHANGED <<upVars, stored, started, taken>>

\* value has been received.  The descriptors and the index follow what the
\* packets before brought; the packets of the start are acknowledged.
Complete_Rewound(type, value) ==
    /\ isr' = Waiting("idle")
    /\ stored' = [stored EXCEPT ![type] = value]
    /\ taken' = Append(taken, Fr(type, value))
    /\ started' = (started \/ type = ENDPOINTS)
    /\ up' = IF type \in StartupTypes THEN up \o Bytes(Fr(type, <<>>)) ELSE up
    /\ spoken' = IF type \in StartupTypes THEN Append(spoken, Fr(type, <<>>)) ELSE spoken
    /\ UNCHANGED <<tx, packet, readSize, heard, oversized>>

Complete(type, value) ==
    /\ isr' = Waiting("idle")
    /\ stored' = [stored EXCEPT ![type] = IF type \in {DESCRIPTORS, INDEX} THEN @ \o value
                                          ELSE value]
    /\ taken' = Append(taken, Fr(type, value))
    /\ started' = (started \/ type = ENDPOINTS)
    /\ up' = IF type \in StartupTypes THEN up \o Bytes(Fr(type, <<>>)) ELSE up
    /\ spoken' = IF type \in StartupTypes THEN Append(spoken, Fr(type, <<>>)) ELSE spoken
    /\ UNCHANGED <<tx, packet, readSize, heard, oversized>>

\* The value of the packet is waited for, whatever its length.
RxLength_AtLeastOne ==
    /\ isr.stage = "length"
    /\ isr' = [isr EXCEPT !.stage = "value", !.left = Head(down)]
    /\ UNCHANGED <<upVars, stored, started, taken>>

\* The length.  An unknown type ends here, and its value is taken for packets;
\* so does RESET, and everything with it.
RxLength ==
    /\ isr.stage = "length"
    /\ LET length == Head(down)
       IN  CASE isr.type \notin Received ->
                   isr' = Waiting("idle") /\ UNCHANGED <<upVars, stored, started, taken>>
             [] isr.type = RESET ->
                   /\ isr' = Waiting("reset")
                   /\ taken' = Append(taken, Fr(RESET, <<>>))
                   /\ UNCHANGED <<upVars, stored, started>>
             [] isr.type \in Received \ {RESET} /\ length = 0 -> Complete(isr.type, <<>>)
             [] OTHER ->
                   /\ isr' = [isr EXCEPT !.stage = "value", !.left = length]
                   /\ UNCHANGED <<upVars, stored, started, taken>>

RxValue ==
    /\ isr.stage = "value"
    /\ LET value == Append(isr.value, Head(down))
       IN  \/ isr.left = 1 /\ Complete(isr.type, value)
           \/ /\ isr.left # 1
              /\ isr' = [isr EXCEPT !.left = @ - 1, !.value = value]
              /\ UNCHANGED <<upVars, stored, started, taken>>

RxByte ==
    /\ down # <<>>
    /\ down' = Tail(down)
    /\ RxType \/ RxLength \/ RxValue
    /\ UNCHANGED sendVars

-----------------------------------------------------------------------------
Next == WritePacket \/ Answer \/ Leave \/ Read \/ BeginPacket \/ SendByte \/ RxByte

Spec == Init /\ [][Next]_vars

\* adapter_send runs on, gpoll serves the line in each of its passes, however
\* many answers fail in the others, the line delivers, and the firmware is never
\* stopped but by its interrupt.
Fairness == WF_vars(WritePacket) /\ SF_vars(Read) /\ WF_vars(SendByte) /\ WF_vars(RxByte)

FairSpec == Spec /\ Fairness

-----------------------------------------------------------------------------
(* The packets that Serial takes for granted. *)

FirmwarePackets ==
    {Fr(t, <<>>) : t \in StartupTypes \cup {IN_REPORT}}
    \cup {Fr(OUT_PACKET, Data(n)) : n \in OutSizes}
    \cup {Fr(CONTROL, Data(n)) : n \in RequestSizes}
    \cup {Fr(DEBUG, Data(SetupSize))}

Chunks(data) == {SubSeq(data, i, Min2(i + MaxValue - 1, Len(data))) : i \in 1..Len(data) + 1}

ProxyPackets ==
    (UNION {{Fr(t, v) : v \in Chunks(Data(TableSize[t]))} : t \in StartupTypes})
    \cup {Fr(t, Data(n)) : t \in {CONTROL, CONTROL_STALL, IN_REPORT}, n \in ReplySizes}
    \cup {Fr(RESET, <<>>)}

Upward == INSTANCE PacketLine WITH
    Packets <- FirmwarePackets, sent <- spoken, arrived <- heard, broken <- (oversized \/ cut)

Downward == INSTANCE PacketLine WITH
    Packets <- ProxyPackets, sent <- said, arrived <- taken, broken <- cut

\* What process_packet is given is what the firmware has sent, packet by
\* packet and in order, however the bytes are spread over the reads and
\* whatever the interrupt sends between two packets of the main loop
\* (adapter.c:49-90, emu.c:84-87), until the host makes a request that does
\* not fit the length byte or the buffer (emu.c:66, README.md:77), or a write
\* of the tables is short: the firmware may then take their bytes for a whole
\* endpoint table, start, and acknowledge others within its own packets.
UpChannel == Upward!Spec

\* The interrupt receives what adapter_send has cut, packet by packet and in
\* order, also when a packet carries nothing (adapter.c:100-119,
\* emu.c:73-82), until a write is short (async.c:250).
DownChannel == Downward!Spec

\* A started device has the tables of the proxy and nothing else, the ones
\* that needed several packets included (emu.c:98-109).
TablesWhole ==
    started /\ ~cut => \A t \in StartupTypes : stored[t] = Data(TableSize[t])

\* A read never asks for a byte of the packet that follows: the header is read
\* before the value, and what is left of either is counted from what has come
\* (adapter.c:63-81).
ReadWithinPacket ==
    \/ readSize = 0 /\ packet = <<>>
    \/ readSize > 0 /\ readSize = Remaining(packet)

\* The error from which there is "no possible recovering" (adapter.c:85) needs
\* a request above the limit of README.md:77, or a short write.
NeverCritical == ~oversized /\ ~cut => Len(packet) + readSize <= PacketSize

Leaving == sending.mode \in {"leaving", "closed"} \/ sending.type = RESET

\* The proxy catches up with the firmware, which sends finitely many packets
\* here: neither the first read, of no byte (adapter.c:136, async.c:196), nor a
\* read that ends anywhere in a packet leaves the line unread.
AllHeard ==
    Len(heard) < Len(spoken) ~> Len(heard) = Len(spoken) \/ oversized \/ cut \/ Leaving

\* The interrupt gives the processor back, as long as every packet comes whole
\* (emu.c:56-60).
InterruptReturns == isr.stage # "idle" ~> isr.stage \in {"idle", "reset"} \/ cut
=============================================================================
