------------------------- MODULE SerialUsb_startup -------------------------
(***************************************************************************)
(* The start-up handshake and the homes of the reports, for any number of  *)
(* packets that the tables take, any number of endpoints, and whatever     *)
(* fails, in a session that finds d packets of the descriptors and x of    *)
(* the index in the firmware (none, if it is the first one).               *)
(*                                                                         *)
(* The argument counts the start-up packets that the firmware has not      *)
(* taken: a of the descriptors, then b of the index, then c of the         *)
(* endpoint table, which lie in front of everything else on the line.  As  *)
(* long as one is left the firmware waits in SetupHardware, and until it   *)
(* has the last one nothing else is under way.                             *)
(***************************************************************************)
EXTENDS SerialUsb_proofs

-----------------------------------------------------------------------------
(* The inductive invariant of the handshake. *)

\* s starts with a packets of the descriptors, b of the index and c of the
\* endpoint table, and holds no other start-up packet.
Startup(s, a, b, c) ==
    /\ a + b + c <= Len(s)
    /\ \A i \in DOMAIN s :
          /\ s[i].type = "DESCRIPTORS" <=> i <= a
          /\ s[i].type = "INDEX" <=> a < i /\ i <= a + b
          /\ s[i].type = "ENDPOINTS" <=> a + b < i /\ i <= a + b + c

\* No report is queued or pending, and none is asked for.
Idle ==
    /\ inPending = 0
    /\ inEpFifo = <<>>
    /\ \A e \in InEps : polls[e] = 0

\* The firmware starts once it has everything.
FirmwareWaits(d, x, a, b, c) ==
    /\ pc = "hardreset" => a + b + c = 0
    /\ started => /\ a + b + c = 0
                  /\ nDesc = d + NDescriptors /\ nIndex = x + NIndex
                  /\ tableSet /\ endpointsSent
    /\ pc \notin {"boot", "hardreset"} => started

\* What the proxy has sent is on the line or received.
NothingLost(d, x, a, b, c) ==
    /\ phase = "idle" => /\ toEmu = <<>> /\ nDesc = d /\ nIndex = x
                         /\ ~descIndexSent /\ ~endpointsSent
    /\ phase = "polling" => /\ nDesc + a = d + NDescriptors
                            /\ IF descIndexSent THEN nIndex + b = x + NIndex
                                                ELSE nIndex = x /\ b = 0
    /\ c = 1 => /\ nDesc + a = d + NDescriptors /\ nIndex + b = x + NIndex
                /\ endpointsSent

\* The acknowledgements that ProcessDescriptors and ProcessIndex answer.
StartupAcks ==
    \A i \in DOMAIN toProxy :
        \/ toProxy[i].type = "DESCRIPTORS"
        \/ toProxy[i].type = "INDEX" /\ descIndexSent

\* Until the firmware starts nothing but the handshake is under way.
Beginning == phase \in {"idle", "polling"} /\ ~started

OnlyHandshake(a, b, c) ==
    Beginning => Len(toEmu) = a + b + c /\ StartupAcks /\ ctrlXfers = <<>> /\ Idle

Handshake(d, x, a, b, c) ==
    /\ Startup(toEmu, a, b, c)
    /\ FirmwareWaits(d, x, a, b, c)
    /\ NothingLost(d, x, a, b, c)
    /\ OnlyHandshake(a, b, c)

HandshakeFrom(d, x) == \E a, b \in Nat, c \in {0, 1} : Handshake(d, x, a, b, c)

\* What the argument needs to know of the line: no IN packet without an endpoint,
\* and no RESET as long as the session goes on.
LineInv == PacketsAddressed /\ NoReset

\* A session that is the first one of the firmware.
HandshakeInv == HandshakeFrom(0, 0)

-----------------------------------------------------------------------------
(* Sequences that start with start-up packets. *)

LEMMA StartupAppend ==
    ASSUME NEW s \in Seq(Packet), NEW p \in Packet, p.type \notin StartupTypes,
           NEW a \in Nat, NEW b \in Nat, NEW c \in {0, 1}, Startup(s, a, b, c)
    PROVE  Startup(Append(s, p), a, b, c)
<1>1. /\ DOMAIN s = 1..Len(s) /\ DOMAIN Append(s, p) = 1..Len(s) + 1 /\ Len(s) \in Nat
      /\ Len(Append(s, p)) = Len(s) + 1
      /\ \A i \in 1..Len(s) : Append(s, p)[i] = s[i]
      /\ Append(s, p)[Len(s) + 1] = p
  BY AppendProperties, LenProperties
<1> DEFINE t == Append(s, p)
<1>2. \A i \in DOMAIN t : (i \in DOMAIN s /\ t[i] = s[i]) \/ (i = Len(s) + 1 /\ t[i] = p)
  BY <1>1
<1> HIDE DEF t
<1>3. a + b + c <= Len(s) /\ a + b + c <= Len(t)
  BY <1>1 DEF Startup, t
<1>4. ASSUME NEW i \in DOMAIN t
      PROVE  /\ t[i].type = "DESCRIPTORS" <=> i <= a
             /\ t[i].type = "INDEX" <=> a < i /\ i <= a + b
             /\ t[i].type = "ENDPOINTS" <=> a + b < i /\ i <= a + b + c
  <2>1. CASE i \in DOMAIN s /\ t[i] = s[i]
    BY <2>1 DEF Startup
  <2>2. CASE i = Len(s) + 1 /\ t[i] = p
    BY <1>1, <1>3, <2>2 DEF StartupTypes
  <2>3. QED
    BY <1>2, <1>4, <2>1, <2>2
<1>5. QED
  BY <1>3, <1>4 DEF Startup, t

LEMMA StartupDescriptors ==
    ASSUME NEW t \in Seq(Packet), \A i \in DOMAIN t : t[i].type = "DESCRIPTORS"
    PROVE  Startup(t, Len(t), 0, 0)
<1>1. DOMAIN t = 1..Len(t) /\ Len(t) \in Nat
  BY LenProperties
<1>2. QED
  BY <1>1 DEF Startup

LEMMA StartupIndex ==
    ASSUME NEW s \in Seq(Packet), NEW t \in Seq(Packet), NEW a \in Nat,
           Startup(s, a, 0, 0), Len(s) = a, \A i \in DOMAIN t : t[i].type = "INDEX"
    PROVE  Startup(s \o t, a, Len(t), 0) /\ Len(s \o t) = a + Len(t)
<1> DEFINE u == s \o t
<1>1. /\ DOMAIN s = 1..a /\ DOMAIN t = 1..Len(t) /\ Len(t) \in Nat
  BY LenProperties
<1>2. /\ u \in Seq(Packet) /\ Len(u) = a + Len(t)
      /\ \A i \in 1..a + Len(t) : u[i] = IF i <= a THEN s[i] ELSE t[i - a]
  BY ConcatProperties
<1> HIDE DEF u
<1>3. DOMAIN u = 1..a + Len(t)
  BY <1>2, LenProperties
<1>4. ASSUME NEW i \in DOMAIN u
      PROVE  /\ u[i].type = "DESCRIPTORS" <=> i <= a
             /\ u[i].type = "INDEX" <=> a < i /\ i <= a + Len(t)
             /\ u[i].type # "ENDPOINTS" /\ i \in Nat /\ i <= a + Len(t)
  <2>1. CASE i <= a
    <3>1. i \in DOMAIN s /\ u[i] = s[i]
      BY <1>1, <1>2, <1>3, <2>1
    <3>2. u[i].type = "DESCRIPTORS"
      BY <1>1, <3>1 DEF Startup
    <3>3. QED
      BY <1>1, <1>3, <2>1, <3>2
  <2>2. CASE ~(i <= a)
    <3>1. i - a \in DOMAIN t /\ u[i] = t[i - a]
      BY <1>1, <1>2, <1>3, <2>2
    <3>2. QED
      BY <1>1, <1>3, <2>2, <3>1
  <2>3. QED
    BY <2>1, <2>2
<1>5. Startup(u, a, Len(t), 0)
  BY <1>1, <1>2, <1>4 DEF Startup
<1>6. QED
  BY <1>2, <1>5 DEF u

LEMMA StartupTable ==
    ASSUME NEW s \in Seq(Packet), NEW a \in Nat, NEW b \in Nat,
           Startup(s, a, b, 0), Len(s) = a + b
    PROVE  Startup(Append(s, Ack("ENDPOINTS")), a, b, 1)
<1> DEFINE p == Ack("ENDPOINTS")
           t == Append(s, p)
<1>0. p \in Packet /\ p.type = "ENDPOINTS"
  BY AckType DEF PacketTypes, Ack, Pkt
<1> HIDE DEF p
<1>1. /\ DOMAIN s = 1..Len(s) /\ DOMAIN t = 1..Len(s) + 1 /\ Len(s) \in Nat
      /\ Len(t) = Len(s) + 1
      /\ \A i \in 1..Len(s) : t[i] = s[i]
      /\ t[Len(s) + 1] = p
  BY <1>0, AppendProperties, LenProperties
<1> HIDE DEF t
<1>2. ASSUME NEW i \in DOMAIN t
      PROVE  /\ t[i].type = "DESCRIPTORS" <=> i <= a
             /\ t[i].type = "INDEX" <=> a < i /\ i <= a + b
             /\ t[i].type = "ENDPOINTS" <=> a + b < i /\ i <= a + b + 1
  <2>1. CASE i \in DOMAIN s
    BY <1>1, <2>1 DEF Startup
  <2>2. CASE i = Len(s) + 1
    BY <1>0, <1>1, <2>2
  <2>3. QED
    BY <1>1, <2>1, <2>2
<1>3. QED
  BY <1>1, <1>2 DEF Startup, t, p

\* The receiver takes the first packet.
LEMMA StartupTail ==
    ASSUME NEW s \in Seq(Packet), s # <<>>,
           NEW a \in Nat, NEW b \in Nat, NEW c \in {0, 1}, Startup(s, a, b, c)
    PROVE  /\ Len(Tail(s)) = Len(s) - 1 /\ Len(s) \in Nat
           /\ Head(s).type = "DESCRIPTORS" => a > 0 /\ Startup(Tail(s), a - 1, b, c)
           /\ Head(s).type = "INDEX" => a = 0 /\ b > 0 /\ Startup(Tail(s), a, b - 1, c)
           /\ Head(s).type = "ENDPOINTS" => a = 0 /\ b = 0 /\ c = 1 /\ Startup(Tail(s), 0, 0, 0)
           /\ Head(s).type \notin StartupTypes => a = 0 /\ b = 0 /\ c = 0 /\ Startup(Tail(s), 0, 0, 0)
<1> DEFINE t == Tail(s)
           h == Head(s)
<1>1. /\ DOMAIN s = 1..Len(s) /\ Len(s) \in Nat \ {0}
      /\ DOMAIN t = 1..Len(s) - 1 /\ Len(t) = Len(s) - 1
      /\ \A i \in 1..Len(s) - 1 : t[i] = s[i + 1]
      /\ h = s[1]
  BY HeadTailProperties, LenProperties, EmptySeq
<1> HIDE DEF t, h
<1>2. \A i \in DOMAIN t : i + 1 \in DOMAIN s /\ t[i] = s[i + 1] /\ i \in Nat /\ 1 <= i
  BY <1>1
<1>3. ASSUME NEW i \in DOMAIN t
      PROVE  /\ t[i].type = "DESCRIPTORS" <=> i + 1 <= a
             /\ t[i].type = "INDEX" <=> a < i + 1 /\ i + 1 <= a + b
             /\ t[i].type = "ENDPOINTS" <=> a + b < i + 1 /\ i + 1 <= a + b + c
  BY <1>2, <1>3 DEF Startup
<1>4. /\ h.type = "DESCRIPTORS" <=> 1 <= a
      /\ h.type = "INDEX" <=> a < 1 /\ 1 <= a + b
      /\ h.type = "ENDPOINTS" <=> a + b < 1 /\ 1 <= a + b + c
      /\ a + b + c <= Len(s)
  BY <1>1 DEF Startup
<1>5. ASSUME h.type = "DESCRIPTORS"
      PROVE  a > 0 /\ Startup(t, a - 1, b, c)
  BY <1>1, <1>2, <1>3, <1>4, <1>5 DEF Startup
<1>6. ASSUME h.type = "INDEX"
      PROVE  a = 0 /\ b > 0 /\ Startup(t, a, b - 1, c)
  BY <1>1, <1>2, <1>3, <1>4, <1>6 DEF Startup
<1>7. ASSUME h.type = "ENDPOINTS"
      PROVE  a = 0 /\ b = 0 /\ c = 1 /\ Startup(t, 0, 0, 0)
  <2>1. a = 0 /\ b = 0 /\ c = 1
    BY <1>4, <1>7
  <2>2. QED
    BY <1>1, <1>2, <1>3, <2>1 DEF Startup
<1>8. ASSUME h.type \notin StartupTypes
      PROVE  a = 0 /\ b = 0 /\ c = 0 /\ Startup(t, 0, 0, 0)
  <2>1. a = 0 /\ b = 0 /\ c = 0
    BY <1>4, <1>8 DEF StartupTypes
  <2>2. QED
    BY <1>1, <1>2, <1>3, <2>1 DEF Startup
<1>9. QED
  BY <1>1, <1>5, <1>6, <1>7, <1>8 DEF t, h

\* A line without start-up packets has none after a reboot.
LEMMA StartupNone ==
    ASSUME NEW s \in Seq(Packet)
    PROVE  Startup(s, 0, 0, 0) <=> \A i \in DOMAIN s : s[i].type \notin StartupTypes
<1>1. DOMAIN s = 1..Len(s) /\ Len(s) \in Nat
  BY LenProperties
<1>2. QED
  BY <1>1 DEF Startup, StartupTypes

LEMMA StartupSuffix ==
    ASSUME NEW s \in Seq(Packet), NEW k \in 0..Len(s), Startup(s, 0, 0, 0)
    PROVE  Startup(SubSeq(s, k + 1, Len(s)), 0, 0, 0)
<1> DEFINE t == SubSeq(s, k + 1, Len(s))
<1>1. DOMAIN s = 1..Len(s) /\ Len(s) \in Nat /\ k \in Nat
  BY LenProperties
<1>2. \A i \in k + 1..Len(s) : s[i] \in Packet
  BY <1>1, ElementOfSeq
<1>3. k + 1 \in Int /\ Len(s) \in Int
  BY <1>1
<1>4. /\ t \in Seq(Packet)
      /\ Len(t) = IF k + 1 <= Len(s) THEN Len(s) - (k + 1) + 1 ELSE 0
      /\ \A i \in 1..Len(s) - (k + 1) + 1 : t[i] = s[k + 1 + i - 1]
  BY <1>2, <1>3, SubSeqProperties
<1> HIDE DEF t
<1>5. DOMAIN t = 1..Len(t) /\ Len(t) \in Nat
  BY <1>4, LenProperties
<1>6. \A i \in DOMAIN t : k + 1 + i - 1 \in DOMAIN s /\ t[i] = s[k + 1 + i - 1]
  <2>1. CASE k + 1 <= Len(s)
    <3>1. Len(t) = Len(s) - (k + 1) + 1
      BY <1>4, <2>1
    <3>2. \A i \in 1..Len(s) - (k + 1) + 1 : k + 1 + i - 1 \in 1..Len(s)
      BY <1>1
    <3>3. QED
      BY <1>1, <1>4, <1>5, <3>1, <3>2
  <2>2. CASE ~(k + 1 <= Len(s))
    <3>1. Len(t) = 0
      BY <1>4, <2>2
    <3>2. DOMAIN t = {}
      BY <1>5, <3>1
    <3>3. QED
      BY <3>2
  <2>3. QED
    BY <2>1, <2>2
<1>7. QED
  BY <1>4, <1>6, StartupNone DEF t

\* Packets of the given type and nothing else are put behind what is there.
Sent(ps, type) ==
    /\ ps \in Seq(Packet)
    /\ toEmu' = toEmu \o ps
    /\ \A i \in DOMAIN ps : ps[i].type = type

LEMMA AllSent ==
    ASSUME NEW type \in PacketTypes, NEW n \in Nat, toEmu' = toEmu \o Chunks(type, n)
    PROVE  Sent(Chunks(type, n), type) /\ Len(Chunks(type, n)) = n
<1>1. Chunks(type, n) \in Seq(Packet) /\ DOMAIN Chunks(type, n) = 1..n
  BY ChunksType DEF Chunks
<1>2. Len(Chunks(type, n)) = n
  BY <1>1, LenProperties
<1>3. QED
  BY <1>1, <1>2 DEF Sent, Chunks, Pkt

LEMMA SomeSent ==
    ASSUME NEW type \in PacketTypes, NEW n \in Nat, NEW k \in 0..Len(Chunks(type, n)) - 1,
           toEmu' = toEmu \o SubSeq(Chunks(type, n), 1, k)
    PROVE  Sent(SubSeq(Chunks(type, n), 1, k), type)
<1> DEFINE ch == Chunks(type, n)
           q == SubSeq(ch, 1, k)
<1>1. ch \in Seq(Packet) /\ \A i \in DOMAIN ch : ch[i].type = type
  BY ChunksType DEF Chunks, Pkt
<1> HIDE DEF ch
<1>2. k \in Nat /\ 1..k \subseteq DOMAIN ch
  BY <1>1, LenProperties DEF ch
<1>3. \A i \in 1..k : ch[i] \in Packet
  BY <1>1, <1>2, LenProperties, ElementOfSeq
<1>4. /\ q \in Seq(Packet) /\ Len(q) = IF 1 <= k THEN k - 1 + 1 ELSE 0
      /\ \A i \in 1..k - 1 + 1 : q[i] = ch[1 + i - 1]
  BY <1>2, <1>3, SubSeqProperties
<1> HIDE DEF q
<1>5. Len(q) = k /\ k - 1 + 1 = k /\ \A i \in 1..k : 1 + i - 1 = i
  BY <1>2, <1>4
<1>6. DOMAIN q = 1..k
  BY <1>4, <1>5, LenProperties
<1>7. \A i \in DOMAIN q : q[i].type = type
  BY <1>1, <1>2, <1>4, <1>5, <1>6
<1>8. toEmu' = toEmu \o q
  BY DEF q, ch
<1>9. Sent(q, type)
  BY <1>4, <1>7, <1>8 DEF Sent
<1>10. QED
  BY <1>9 DEF q, ch

-----------------------------------------------------------------------------
(* Steps that do not concern the handshake. *)

\* What a step writes to the firmware is no start-up packet.
SentBehind ==
    \/ toEmu' = toEmu
    \/ \E p \in Packet : p.type \notin StartupTypes /\ toEmu' = Append(toEmu, p)

LEMMA StartupKept ==
    ASSUME toEmu \in Seq(Packet), SentBehind,
           NEW a \in Nat, NEW b \in Nat, NEW c \in {0, 1}, Startup(toEmu, a, b, c)
    PROVE  Startup(toEmu', a, b, c)
BY StartupAppend DEF SentBehind

LEMMA HandshakeQuiet ==
    ASSUME NEW d \in Nat, NEW x \in Nat, NEW a \in Nat, NEW b \in Nat, NEW c \in {0, 1},
           Handshake(d, x, a, b, c), Startup(toEmu', a, b, c),
           UNCHANGED <<isrVars, descIndexSent, endpointsSent>>,
           pc' = pc \/ (started /\ pc' # "hardreset"),
           phase' = phase \/ phase' \in {"leaving", "closing", "exited"},
           Beginning' => /\ UNCHANGED <<toEmu, ctrlXfers, inPending, inEpFifo, polls>>
                         /\ StartupAcks'
    PROVE  Handshake(d, x, a, b, c)'
<1> USE DEF Handshake, isrVars
<1>1. Startup(toEmu, a, b, c)'
  OBVIOUS
<1>2. FirmwareWaits(d, x, a, b, c)'
  BY DEF FirmwareWaits
<1>3. NothingLost(d, x, a, b, c)'
  <2>1. phase' = "idle" => Beginning'
    BY ProxyAssumption DEF FirmwareWaits, NothingLost, Beginning
  <2>2. QED
    BY <2>1 DEF NothingLost
<1>4. OnlyHandshake(a, b, c)'
  <2>1. Beginning' => Beginning
    BY DEF Beginning
  <2>2. QED
    BY <2>1 DEF OnlyHandshake, Idle
<1>5. QED
  BY <1>1, <1>2, <1>3, <1>4

\* A step of the proxy that is no answer to the handshake.
LEMMA QuietProxy ==
    ASSUME toEmu \in Seq(Packet),
           NEW d \in Nat, NEW x \in Nat, NEW a \in Nat, NEW b \in Nat, NEW c \in {0, 1},
           Handshake(d, x, a, b, c),
           SentBehind, UNCHANGED <<emuVars, descIndexSent, endpointsSent>>,
           phase' = phase \/ phase' \in {"leaving", "closing", "exited"},
           Beginning' => /\ UNCHANGED <<toEmu, ctrlXfers, inPending, inEpFifo, polls>>
                         /\ StartupAcks'
    PROVE  Handshake(d, x, a, b, c)'
<1>1. Startup(toEmu', a, b, c)
  BY StartupKept DEF Handshake
<1>2. pc' = pc /\ UNCHANGED isrVars
  BY DEF emuVars, mainVars
<1>3. QED
  BY <1>1, <1>2, HandshakeQuiet

-----------------------------------------------------------------------------
(* The steps of the proxy. *)

LEMMA NextSent ==
    ASSUME toEmu \in Seq(Packet), NEW pending, NEW fifo \in Seq(InEps),
           NEW packets \in [InEps -> Packet], \A e \in InEps : packets[e].type = "IN",
           NEW ok, send_next_in_packet(pending, fifo, packets, ok)
    PROVE  SentBehind
<1>1. CASE CanSend(pending, fifo) /\ ok
  <2>1. Head(fifo) \in InEps
    BY <1>1, HeadTailProperties DEF CanSend
  <2>2. toEmu' = Append(toEmu, packets[Head(fifo)])
    BY <1>1 DEF send_next_in_packet, adapter_send
  <2>3. QED
    BY <2>1, <2>2 DEF SentBehind, StartupTypes
<1>2. CASE ~(CanSend(pending, fifo) /\ ok)
  BY <1>2 DEF send_next_in_packet, SentBehind
<1>3. QED
  BY <1>1, <1>2

\* What the proxy takes from the line.
LEMMA Received ==
    ASSUME toProxy \in Seq(Packet), NEW type, Receive(type)
    PROVE  /\ phase = "polling" /\ toProxy' \in Seq(Packet)
           /\ \E i \in DOMAIN toProxy : toProxy[i].type = type
           /\ \A i \in DOMAIN toProxy' : \E j \in DOMAIN toProxy : toProxy'[i] = toProxy[j]
<1>1. /\ toProxy # <<>> /\ Head(toProxy).type = type /\ toProxy' = Tail(toProxy)
      /\ phase = "polling"
  BY DEF Receive
<1>2. /\ DOMAIN toProxy = 1..Len(toProxy) /\ Len(toProxy) \in Nat \ {0}
      /\ toProxy' \in Seq(Packet)
      /\ DOMAIN toProxy' = 1..Len(toProxy) - 1
      /\ \A i \in 1..Len(toProxy) - 1 : toProxy'[i] = toProxy[i + 1]
      /\ Head(toProxy) = toProxy[1]
  BY <1>1, HeadTailProperties, LenProperties, EmptySeq
<1>3. \A i \in DOMAIN toProxy' : i + 1 \in DOMAIN toProxy /\ toProxy'[i] = toProxy[i + 1]
  BY <1>2
<1>4. 1 \in DOMAIN toProxy /\ toProxy[1].type = type
  BY <1>1, <1>2
<1>5. QED
  BY <1>1, <1>2, <1>3, <1>4

\* Anything but an acknowledgement of the handshake arrives after the start.
LEMMA ReceivedLater ==
    ASSUME toProxy \in Seq(Packet),
           NEW d \in Nat, NEW x \in Nat, NEW a \in Nat, NEW b \in Nat, NEW c \in {0, 1},
           Handshake(d, x, a, b, c),
           NEW type, type \notin {"DESCRIPTORS", "INDEX"}, Receive(type)
    PROVE  started
BY Received DEF Handshake, OnlyHandshake, Beginning, StartupAcks

LEMMA AckReceived ==
    ASSUME toProxy \in Seq(Packet), NEW type, Receive(type), StartupAcks,
           descIndexSent => descIndexSent'
    PROVE  StartupAcks'
BY Received DEF StartupAcks

LEMMA StartHandshake ==
    ASSUME TypeInv, LineInv,
           NEW d \in Nat, NEW x \in Nat, HandshakeFrom(d, x),
           ProxyStart \/ ProxyStartFails, UNCHANGED emuVars
    PROVE  HandshakeFrom(d, x)'
<1>0. PICK a \in Nat, b \in Nat, c \in {0, 1} : Handshake(d, x, a, b, c)
  BY DEF HandshakeFrom
<1>1. phase = "idle" /\ toEmu = <<>> /\ toEmu \in Seq(Packet)
      /\ nDesc = d /\ nIndex = x /\ ~descIndexSent /\ ~endpointsSent
  BY <1>0 DEF ProxyStart, ProxyStartFails, Handshake, NothingLost,
              TypeInv, TypeOK, SerialTypeOK
<1>2. ~started /\ pc \notin {"hardreset"} /\ pc = "boot"
  BY <1>0, <1>1, ProxyAssumption
     DEF Handshake, FirmwareWaits, LineInv, NoReset, Running
<1>3. StartupAcks /\ ctrlXfers = <<>> /\ Idle
  BY <1>0, <1>1, <1>2 DEF Handshake, OnlyHandshake, Beginning
<1>4. PICK ok \in BOOLEAN :
         /\ adapter_send_chunks(Chunks("DESCRIPTORS", NDescriptors), ok)
         /\ ProxyStart => ok
  BY DEF ProxyStart, ProxyStartFails
<1>5. PICK ps : Sent(ps, "DESCRIPTORS") /\ (ok => Len(ps) = NDescriptors)
  <2>1. "DESCRIPTORS" \in PacketTypes /\ NDescriptors \in Nat
    BY ProxyAssumption DEF PacketTypes
  <2>2. CASE ok
    BY <1>4, <2>1, <2>2, AllSent DEF adapter_send_chunks
  <2>3. CASE ~ok
    BY <1>4, <2>1, <2>3, SomeSent DEF adapter_send_chunks
  <2>4. QED
    BY <2>2, <2>3
<1> DEFINE m == Len(ps)
<1>6. m \in Nat
  BY <1>5, LenProperties DEF Sent
<1>7. toEmu' = ps
  BY <1>1, <1>5, ConcatEmptySeq DEF Sent
<1>8. Startup(toEmu', m, 0, 0) /\ Len(toEmu') = m
  BY <1>5, <1>7, StartupDescriptors DEF Sent
<1> HIDE DEF m
<1>9. /\ UNCHANGED <<isrVars, pc, toProxy, descIndexSent, endpointsSent, ctrlXfers,
                     inPending, inEpFifo, polls>>
      /\ phase' # "idle"
      /\ phase' = "polling" => ok
  BY <1>4 DEF ProxyStart, ProxyStartFails, emuVars, mainVars, gusbVars, inVars
<1>10. FirmwareWaits(d, x, m, 0, 0)' /\ NothingLost(d, x, m, 0, 0)'
  BY <1>1, <1>2, <1>5, <1>6, <1>9 DEF FirmwareWaits, NothingLost, isrVars, m
<1>11. OnlyHandshake(m, 0, 0)'
  BY <1>1, <1>3, <1>6, <1>8, <1>9 DEF OnlyHandshake, StartupAcks, Idle
<1>12. Handshake(d, x, m, 0, 0)'
  BY <1>8, <1>10, <1>11 DEF Handshake
<1>13. QED
  BY <1>6, <1>12 DEF HandshakeFrom

LEMMA ProcessDescriptorsHandshake ==
    ASSUME TypeInv, LineInv,
           NEW d \in Nat, NEW x \in Nat, HandshakeFrom(d, x),
           ProcessDescriptors, UNCHANGED emuVars
    PROVE  HandshakeFrom(d, x)'
<1>0. PICK a \in Nat, b \in Nat, c \in {0, 1} : Handshake(d, x, a, b, c)
  BY DEF HandshakeFrom
<1>1. /\ toEmu \in Seq(Packet) /\ toProxy \in Seq(Packet) /\ SendResults \subseteq BOOLEAN
      /\ nDesc \in Nat /\ nIndex \in Nat
  BY DEF TypeInv, TypeOK, SerialTypeOK, EmuTypeOK, SendResults, Results
<1>2. /\ Receive("DESCRIPTORS") /\ phase = "polling" /\ descIndexSent'
      /\ UNCHANGED <<isrVars, pc, endpointsSent, ctrlXfers, inPending, inEpFifo, polls>>
  BY DEF ProcessDescriptors, Receive, gusbVars, inVars, emuVars, mainVars
<1>3. PICK ok \in BOOLEAN :
         IF descIndexSent
         THEN UNCHANGED toEmu /\ Return(FALSE)
         ELSE adapter_send_chunks(Chunks("INDEX", NIndex), ok) /\ Return(~ok)
  BY <1>1 DEF ProcessDescriptors
<1>4. CASE descIndexSent
  <2>1. phase' = phase /\ toEmu' = toEmu
    BY <1>3, <1>4 DEF Return
  <2>2. Beginning' => StartupAcks'
    <3>1. Beginning' => Beginning
      BY <1>2, <2>1 DEF Beginning, isrVars
    <3>2. QED
      BY <1>0, <1>1, <1>2, <1>4, <3>1, AckReceived DEF Handshake, OnlyHandshake
  <2>3. Handshake(d, x, a, b, c)'
    BY <1>0, <1>1, <1>2, <1>4, <2>1, <2>2, QuietProxy DEF SentBehind
  <2>4. QED
    BY <2>3 DEF HandshakeFrom
<1>5. CASE ~descIndexSent
  <2>1. ~started
    BY <1>0, <1>2, <1>5, ProxyAssumption DEF Handshake, FirmwareWaits, NothingLost
  <2>2. nDesc + a = d + NDescriptors /\ nIndex = x /\ b = 0 /\ c = 0
    BY <1>0, <1>1, <1>2, <1>5, ProxyAssumption DEF Handshake, NothingLost
  <2>3. Len(toEmu) = a /\ StartupAcks /\ ctrlXfers = <<>> /\ Idle
    BY <1>0, <1>2, <2>1, <2>2 DEF Handshake, OnlyHandshake, Beginning
  <2>4. adapter_send_chunks(Chunks("INDEX", NIndex), ok) /\ Return(~ok)
    BY <1>3, <1>5
  <2>5. PICK ps : Sent(ps, "INDEX") /\ (ok => Len(ps) = NIndex)
    <3>1. "INDEX" \in PacketTypes /\ NIndex \in Nat
      BY ProxyAssumption DEF PacketTypes
    <3>2. CASE ok
      BY <2>4, <3>1, <3>2, AllSent DEF adapter_send_chunks
    <3>3. CASE ~ok
      BY <2>4, <3>1, <3>3, SomeSent DEF adapter_send_chunks
    <3>4. QED
      BY <3>2, <3>3
  <2> DEFINE m == Len(ps)
  <2>6. m \in Nat
    BY <2>5, LenProperties DEF Sent
  <2>7. Startup(toEmu', a, m, 0) /\ Len(toEmu') = a + m
    <3>1. Startup(toEmu, a, 0, 0)
      BY <1>0, <2>2 DEF Handshake
    <3>2. QED
      BY <1>1, <2>3, <2>5, <3>1, StartupIndex DEF Sent
  <2> HIDE DEF m
  <2>8. phase' = (IF ok THEN "polling" ELSE "leaving") /\ ~started'
    BY <1>2, <2>1, <2>4 DEF Return, isrVars
  <2>9. StartupAcks'
    BY <1>1, <1>2, <2>3, AckReceived
  <2>10. FirmwareWaits(d, x, a, m, 0)'
    <3>1. pc \in {"boot", "hardreset"}
      BY <1>0, <2>1 DEF Handshake, FirmwareWaits
    <3>2. pc # "hardreset"
      BY <1>2 DEF LineInv, NoReset, Running
    <3>3. QED
      BY <1>2, <2>8, <3>1, <3>2 DEF FirmwareWaits
  <2>11. NothingLost(d, x, a, m, 0)'
    BY <1>2, <2>2, <2>5, <2>6, <2>8 DEF NothingLost, isrVars, m
  <2>12. OnlyHandshake(a, m, 0)'
    BY <1>2, <2>3, <2>7, <2>9 DEF OnlyHandshake, Idle
  <2>13. QED
    BY <2>6, <2>7, <2>10, <2>11, <2>12 DEF HandshakeFrom, Handshake
<1>6. QED
  BY <1>4, <1>5

LEMMA ProcessIndexHandshake ==
    ASSUME TypeInv, LineInv,
           NEW d \in Nat, NEW x \in Nat, HandshakeFrom(d, x),
           ProcessIndex, UNCHANGED emuVars
    PROVE  HandshakeFrom(d, x)'
<1>0. PICK a \in Nat, b \in Nat, c \in {0, 1} : Handshake(d, x, a, b, c)
  BY DEF HandshakeFrom
<1>1. /\ toEmu \in Seq(Packet) /\ toProxy \in Seq(Packet) /\ SendResults \subseteq BOOLEAN
      /\ nDesc \in Nat /\ nIndex \in Nat
  BY DEF TypeInv, TypeOK, SerialTypeOK, EmuTypeOK, SendResults, Results
<1>2. /\ Receive("INDEX") /\ phase = "polling" /\ endpointsSent'
      /\ UNCHANGED <<isrVars, pc, descIndexSent, ctrlXfers, inPending, inEpFifo, polls>>
  BY DEF ProcessIndex, Receive, gusbVars, inVars, emuVars, mainVars
<1>3. PICK ok \in BOOLEAN :
         IF endpointsSent
         THEN UNCHANGED toEmu /\ Return(FALSE)
         ELSE adapter_send(Ack("ENDPOINTS"), ok) /\ Return(~ok)
  BY <1>1 DEF ProcessIndex
<1>4. CASE endpointsSent
  <2>1. phase' = phase /\ toEmu' = toEmu
    BY <1>3, <1>4 DEF Return
  <2>2. Beginning' => StartupAcks'
    <3>1. Beginning' => Beginning
      BY <1>2, <2>1 DEF Beginning, isrVars
    <3>2. QED
      BY <1>0, <1>1, <1>2, <3>1, AckReceived DEF Handshake, OnlyHandshake
  <2>3. Handshake(d, x, a, b, c)'
    BY <1>0, <1>1, <1>2, <1>4, <2>1, <2>2, QuietProxy DEF SentBehind
  <2>4. QED
    BY <2>3 DEF HandshakeFrom
<1>5. CASE ~endpointsSent
  <2>1. ~started /\ c = 0
    BY <1>0, <1>5 DEF Handshake, FirmwareWaits, NothingLost
  <2>2. Len(toEmu) = a + b /\ StartupAcks /\ ctrlXfers = <<>> /\ Idle
    BY <1>0, <1>2, <2>1 DEF Handshake, OnlyHandshake, Beginning
  <2>3. descIndexSent
    BY <1>1, <1>2, <2>2, Received DEF StartupAcks
  <2>4. nDesc + a = d + NDescriptors /\ nIndex + b = x + NIndex
    BY <1>0, <1>2, <2>3 DEF Handshake, NothingLost
  <2>5. StartupAcks'
    BY <1>1, <1>2, <2>2, AckReceived
  <2>6. pc = "boot"
    <3>1. pc \in {"boot", "hardreset"}
      BY <1>0, <2>1 DEF Handshake, FirmwareWaits
    <3>2. pc # "hardreset"
      BY <1>2 DEF LineInv, NoReset, Running
    <3>3. QED
      BY <3>1, <3>2
  <2>7. Startup(toEmu, a, b, 0)
    BY <1>0, <2>1 DEF Handshake
  <2>8. CASE ok
    <3>1. toEmu' = Append(toEmu, Ack("ENDPOINTS")) /\ phase' = "polling"
      BY <1>2, <1>3, <1>5, <2>8 DEF adapter_send, Return
    <3>2. Startup(toEmu', a, b, 1) /\ Len(toEmu') = a + b + 1
      <4>1. Ack("ENDPOINTS") \in Packet
        BY AckType DEF PacketTypes
      <4>2. QED
        BY <1>1, <2>2, <2>7, <3>1, <4>1, StartupTable, AppendProperties
    <3>3. FirmwareWaits(d, x, a, b, 1)' /\ NothingLost(d, x, a, b, 1)'
      BY <1>2, <2>1, <2>3, <2>4, <2>6, <3>1 DEF FirmwareWaits, NothingLost, isrVars
    <3>4. OnlyHandshake(a, b, 1)'
      BY <1>2, <2>2, <2>5, <3>2 DEF OnlyHandshake, Idle
    <3>5. Handshake(d, x, a, b, 1)'
      BY <3>2, <3>3, <3>4 DEF Handshake
    <3>6. QED
      BY <3>5 DEF HandshakeFrom
  <2>9. CASE ~ok
    <3>1. toEmu' = toEmu /\ phase' = "leaving"
      BY <1>3, <1>5, <2>9 DEF adapter_send, Return
    <3>2. FirmwareWaits(d, x, a, b, 0)' /\ NothingLost(d, x, a, b, 0)' /\ OnlyHandshake(a, b, 0)'
      BY <1>2, <2>1, <2>6, <3>1
         DEF FirmwareWaits, NothingLost, OnlyHandshake, Beginning, isrVars
    <3>3. Handshake(d, x, a, b, 0)'
      BY <2>7, <3>1, <3>2 DEF Handshake
    <3>4. QED
      BY <3>3 DEF HandshakeFrom
  <2>10. QED
    BY <2>8, <2>9
<1>6. QED
  BY <1>4, <1>5

LEMMA ReturnPhase ==
    ASSUME phase = "polling", NEW failed, Return(failed)
    PROVE  phase' = phase \/ phase' = "leaving"
BY DEF Return

\* process_packet once the firmware has started.
LEMMA LaterPacket ==
    ASSUME TypeInv,
           NEW d \in Nat, NEW x \in Nat, NEW a \in Nat, NEW b \in Nat, NEW c \in {0, 1},
           Handshake(d, x, a, b, c),
           NEW type, type \notin {"DESCRIPTORS", "INDEX"}, Receive(type),
           SentBehind, UNCHANGED <<emuVars, descIndexSent, endpointsSent>>,
           phase' = phase \/ phase' = "leaving"
    PROVE  HandshakeFrom(d, x)'
<1>1. toEmu \in Seq(Packet) /\ toProxy \in Seq(Packet)
  BY DEF TypeInv, TypeOK, SerialTypeOK
<1>2. started /\ ~Beginning'
  BY <1>1, ReceivedLater DEF Beginning, emuVars, isrVars
<1>3. Handshake(d, x, a, b, c)'
  BY <1>1, <1>2, QuietProxy
<1>4. QED
  BY <1>3 DEF HandshakeFrom

LEMMA ProcessPacketHandshake ==
    ASSUME TypeInv, LineInv,
           NEW d \in Nat, NEW x \in Nat, HandshakeFrom(d, x),
           ProcessPacket, UNCHANGED emuVars
    PROVE  HandshakeFrom(d, x)'
<1>0. PICK a \in Nat, b \in Nat, c \in {0, 1} : Handshake(d, x, a, b, c)
  BY DEF HandshakeFrom
<1>1. /\ toEmu \in Seq(Packet) /\ toProxy \in Seq(Packet) /\ inEpFifo \in Seq(InEps)
      /\ inPackets \in [InEps -> Packet]
      /\ \A e \in InEps : inPackets[e].type = "IN"
  BY DEF TypeInv, TypeOK, SerialTypeOK, ProxyTypeOK, LineInv, PacketsAddressed
<1> USE DEF startupVars
<1>2. CASE ProcessDescriptors \/ ProcessIndex
  BY <1>2, ProcessDescriptorsHandshake, ProcessIndexHandshake
<1>3. CASE ProcessEndpoints
  <2>1. /\ Receive("ENDPOINTS") /\ UNCHANGED <<toEmu, descIndexSent, endpointsSent>>
        /\ \E failed : Return(failed)
    BY <1>3 DEF ProcessEndpoints
  <2>2. phase' = phase \/ phase' = "leaving"
    BY <2>1, ReturnPhase DEF Receive
  <2>3. QED
    BY <1>0, <2>1, <2>2, LaterPacket DEF SentBehind
<1>4. CASE ProcessIn
  <2>1. /\ Receive("IN") /\ UNCHANGED <<descIndexSent, endpointsSent>>
        /\ \E failed : Return(failed)
    BY <1>4 DEF ProcessIn
  <2>2. SentBehind
    <3>1. \/ toEmu' = toEmu
          \/ \E sent \in SendResults : send_next_in_packet(0, inEpFifo, inPackets, sent)
      BY <1>4 DEF ProcessIn
    <3>2. QED
      BY <1>1, <3>1, NextSent DEF SentBehind
  <2>3. phase' = phase \/ phase' = "leaving"
    BY <2>1, ReturnPhase DEF Receive
  <2>4. QED
    BY <1>0, <2>1, <2>2, <2>3, LaterPacket
<1>5. CASE ProcessOut \/ ProcessDebug \/ ProcessReset
  <2>1. /\ \E type \in {"OUT", "DEBUG", "RESET"} : Receive(type)
        /\ UNCHANGED <<toEmu, descIndexSent, endpointsSent>>
        /\ \E failed : Return(failed)
    BY <1>5 DEF ProcessOut, ProcessDebug, ProcessReset
  <2>2. phase' = phase \/ phase' = "leaving"
    BY <2>1, ReturnPhase DEF Receive
  <2>3. QED
    BY <1>0, <2>1, <2>2, LaterPacket DEF SentBehind
<1>6. CASE ProcessControl
  <2> DEFINE p == Pkt("CONTROL_STALL", 0, Head(toProxy).data)
  <2>1. /\ Receive("CONTROL") /\ UNCHANGED <<descIndexSent, endpointsSent>>
        /\ \E failed : Return(failed)
        /\ toEmu' = toEmu \/ toEmu' = Append(toEmu, p)
    BY <1>6 DEF ProcessControl, adapter_send
  <2>2. p \in Packet /\ p.type = "CONTROL_STALL"
    <3>1. Head(toProxy) \in Packet
      BY <1>1, <2>1, ReceiveTypes
    <3>2. QED
      BY <3>1, PktType DEF PacketTypes, Packet, Pkt
  <2> HIDE DEF p
  <2>3. SentBehind
    BY <2>1, <2>2 DEF SentBehind, StartupTypes
  <2>4. phase' = phase \/ phase' = "leaving"
    BY <2>1, ReturnPhase DEF Receive
  <2>5. QED
    BY <1>0, <2>1, <2>3, <2>4, LaterPacket
<1>7. QED
  BY <1>2, <1>3, <1>4, <1>5, <1>6 DEF ProcessPacket

\* No transfer is in flight at the beginning but those to OUT endpoints.
LEMMA UsbCallbackHandshake ==
    ASSUME TypeInv, LineInv,
           NEW d \in Nat, NEW x \in Nat, HandshakeFrom(d, x),
           UsbCallback, UNCHANGED emuVars
    PROVE  HandshakeFrom(d, x)'
<1>0. PICK a \in Nat, b \in Nat, c \in {0, 1} : Handshake(d, x, a, b, c)
  BY DEF HandshakeFrom
<1>1. /\ toEmu \in Seq(Packet) /\ inEpFifo \in Seq(InEps) /\ inPackets \in [InEps -> Packet]
      /\ ctrlXfers \in Seq(Nat) /\ reports \in [InEps -> Nat]
      /\ \A e \in InEps : inPackets[e].type = "IN"
  BY DEF TypeInv, TypeOK, SerialTypeOK, ProxyTypeOK, GusbTypeOK, LineInv, PacketsAddressed
<1>2. Beginning => StartupAcks /\ ctrlXfers = <<>> /\ Idle
  BY <1>0 DEF Handshake, OnlyHandshake
<1>3. UNCHANGED <<started, pc>>
  BY DEF emuVars, isrVars, mainVars
\* What holds of the callbacks whose transfers need the firmware.
<1>4. ASSUME ~Beginning, SentBehind, UNCHANGED <<phase, descIndexSent, endpointsSent>>
      PROVE  HandshakeFrom(d, x)'
  <2>1. ~Beginning'
    BY <1>3, <1>4 DEF Beginning
  <2>2. Handshake(d, x, a, b, c)'
    BY <1>0, <1>1, <1>4, <2>1, QuietProxy
  <2>3. QED
    BY <2>2 DEF HandshakeFrom
<1>5. ASSUME NEW e \in InEps, ReadDone(e)
      PROVE  HandshakeFrom(d, x)'
  <2>1. polls[e] # 0 /\ UNCHANGED <<phase, descIndexSent, endpointsSent>>
    BY <1>5 DEF ReadDone, RemovePoll, startupVars
  <2>2. ~Beginning
    BY <1>2, <2>1 DEF Idle
  <2>3. SentBehind
    <3>1. CASE Len(inEpFifo) = MaxEndpoints
      BY <1>5, <3>1 DEF ReadDone, SentBehind
    <3>2. CASE Len(inEpFifo) # MaxEndpoints
      <4> DEFINE packets == [inPackets EXCEPT ![e] = Pkt("IN", U2S[e], reports[e] + 1)]
                 fifo == Append(inEpFifo, e)
      <4>1. PICK ok \in SendResults : send_next_in_packet(inPending, fifo, packets, ok)
        BY <1>5, <3>2 DEF ReadDone
      <4>2. Pkt("IN", U2S[e], reports[e] + 1) \in Packet
        BY <1>1, PktType, RenumberingAssumption DEF RenumberingOK, PacketTypes, UsbEps
      <4>3. /\ packets \in [InEps -> Packet] /\ fifo \in Seq(InEps)
            /\ \A f \in InEps : packets[f].type = "IN"
        BY <1>1, <4>2, AppendProperties DEF Pkt
      <4> HIDE DEF packets, fifo
      <4>4. QED
        BY <1>1, <4>1, <4>3, NextSent
    <3>3. QED
      BY <3>1, <3>2
  <2>4. QED
    BY <1>4, <2>1, <2>2, <2>3
<1>6. ASSUME NEW e \in InEps, ReadFailed(e)
      PROVE  HandshakeFrom(d, x)'
  <2>1. polls[e] # 0 /\ UNCHANGED <<toEmu, phase, descIndexSent, endpointsSent>>
    BY <1>6 DEF ReadFailed, RemovePoll, proxyVars
  <2>2. ~Beginning
    BY <1>2, <2>1 DEF Idle
  <2>3. QED
    BY <1>4, <2>1, <2>2 DEF SentBehind
<1>7. CASE ControlReadDone \/ ControlWriteDone
  <2>1. ctrlXfers # <<>> /\ UNCHANGED <<phase, descIndexSent, endpointsSent>>
    BY <1>7 DEF ControlReadDone, ControlWriteDone, RemoveControl, proxyVars, startupVars
  <2>2. ~Beginning
    BY <1>2, <2>1
  <2>3. toEmu' = toEmu \/ \E type \in {"CONTROL", "CONTROL_STALL"} :
           toEmu' = Append(toEmu, Pkt(type, 0, Head(ctrlXfers)))
    BY <1>7 DEF ControlReadDone, ControlWriteDone, adapter_send
  <2>4. \A type \in {"CONTROL", "CONTROL_STALL"} :
           /\ Pkt(type, 0, Head(ctrlXfers)) \in Packet
           /\ Pkt(type, 0, Head(ctrlXfers)).type \notin StartupTypes
    <3>1. Head(ctrlXfers) \in Nat
      BY <1>1, <2>1, HeadTailProperties
    <3>2. QED
      BY <3>1, PktType DEF PacketTypes, Pkt, StartupTypes
  <2>5. SentBehind
    BY <2>3, <2>4 DEF SentBehind
  <2>6. QED
    BY <1>4, <2>1, <2>2, <2>5
<1>8. ASSUME NEW e \in OutEps, WriteDone(e)
      PROVE  HandshakeFrom(d, x)'
  <2>1. UNCHANGED <<toEmu, toProxy, ctrlXfers, polls, proxyVars>>
    BY <1>8 DEF WriteDone
  <2>2. Beginning' => Beginning /\ StartupAcks'
    BY <1>2, <1>3, <2>1 DEF Beginning, StartupAcks, proxyVars
  <2>3. Handshake(d, x, a, b, c)'
    BY <1>0, <1>1, <2>1, <2>2, QuietProxy DEF SentBehind, proxyVars
  <2>4. QED
    BY <2>3 DEF HandshakeFrom
<1>9. QED
  BY <1>5, <1>6, <1>7, <1>8 DEF UsbCallback

LEMMA ProxyStepHandshake ==
    ASSUME TypeInv, LineInv,
           NEW d \in Nat, NEW x \in Nat, HandshakeFrom(d, x), ProxyStep
    PROVE  HandshakeFrom(d, x)'
<1>0. PICK a \in Nat, b \in Nat, c \in {0, 1} : Handshake(d, x, a, b, c)
  BY DEF HandshakeFrom
<1>1. /\ toEmu \in Seq(Packet) /\ UNCHANGED emuVars /\ UNCHANGED started
      /\ Beginning => StartupAcks
  BY <1>0 DEF TypeInv, TypeOK, SerialTypeOK, ProxyStep, emuVars, isrVars,
              Handshake, OnlyHandshake
<1>2. CASE ProxyStart \/ ProxyStartFails
  BY <1>1, <1>2, StartHandshake
<1>3. CASE ProcessPacket
  BY <1>1, <1>3, ProcessPacketHandshake
<1>4. CASE UsbCallback
  BY <1>1, <1>4, UsbCallbackHandshake
<1>5. CASE ProxyStop
  <2>1. UNCHANGED <<toEmu, toProxy, ctrlXfers, polls, inPending, inEpFifo, phase,
                    descIndexSent, endpointsSent>>
    BY <1>5 DEF ProxyStop, serialVars, gusbVars, startupVars, inVars
  <2>2. Beginning' => StartupAcks'
    BY <1>1, <2>1 DEF Beginning, StartupAcks
  <2>3. Handshake(d, x, a, b, c)'
    BY <1>0, <1>1, <2>1, <2>2, QuietProxy DEF SentBehind
  <2>4. QED
    BY <2>3 DEF HandshakeFrom
<1>6. CASE InitTimeout \/ Closed \/ ProxyLeave
  <2>1. UNCHANGED <<descIndexSent, endpointsSent>> /\ phase' \in {"leaving", "closing", "exited"}
    BY <1>6 DEF InitTimeout, Closed, ProxyLeave, TimerTick, SendReset, Cancelled, ProxyExit,
                startupVars, proxyVars
  <2>2. toEmu' = toEmu \/ toEmu' = Append(toEmu, Ack("RESET"))
    BY <1>6 DEF InitTimeout, Closed, ProxyLeave, TimerTick, SendReset, Cancelled, ProxyExit,
                serialVars, adapter_send
  <2>3. Ack("RESET") \in Packet /\ Ack("RESET").type = "RESET"
    BY AckType DEF PacketTypes, Ack, Pkt
  <2>4. SentBehind /\ ~Beginning'
    BY <2>1, <2>2, <2>3 DEF SentBehind, StartupTypes, Beginning
  <2>5. Handshake(d, x, a, b, c)'
    BY <1>0, <1>1, <2>1, <2>4, QuietProxy
  <2>6. QED
    BY <2>5 DEF HandshakeFrom
<1>7. QED
  BY <1>2, <1>3, <1>4, <1>5, <1>6 DEF ProxyStep, ProxyNext

-----------------------------------------------------------------------------
(* The steps of the firmware. *)

\* What the interrupt handler takes and answers.
LEMMA Interrupted ==
    ASSUME TypeInv, NEW type, Interrupt(type)
    PROVE  /\ toEmu \in Seq(Packet) /\ toEmu # <<>> /\ toEmu' = Tail(toEmu)
           /\ Head(toEmu).type = type /\ pc # "hardreset" /\ toProxy \in Seq(Packet)
BY DEF Interrupt, TypeInv, TypeOK, SerialTypeOK

LEMMA AckSent ==
    ASSUME toProxy \in Seq(Packet), NEW type \in {"DESCRIPTORS", "INDEX"},
           toProxy' = Append(toProxy, Ack(type)), StartupAcks,
           type = "INDEX" => descIndexSent, descIndexSent' = descIndexSent
    PROVE  StartupAcks'
<1>1. Ack(type) \in Packet /\ Ack(type).type = type
  BY AckType DEF PacketTypes, Ack, Pkt
<1>2. /\ DOMAIN toProxy = 1..Len(toProxy) /\ DOMAIN toProxy' = 1..Len(toProxy) + 1
      /\ Len(toProxy) \in Nat
      /\ \A i \in 1..Len(toProxy) : toProxy'[i] = toProxy[i]
      /\ toProxy'[Len(toProxy) + 1] = Ack(type)
  BY <1>1, AppendProperties, LenProperties
<1>3. QED
  BY <1>1, <1>2 DEF StartupAcks

LEMMA InterruptHandshake ==
    ASSUME TypeInv, LineInv,
           NEW d \in Nat, NEW x \in Nat, HandshakeFrom(d, x),
           EmuInterrupt, UNCHANGED <<gusbVars, proxyVars>>
    PROVE  HandshakeFrom(d, x)'
<1>0. PICK a \in Nat, b \in Nat, c \in {0, 1} : Handshake(d, x, a, b, c)
  BY DEF HandshakeFrom
<1>1. /\ UNCHANGED <<phase, descIndexSent, endpointsSent, ctrlXfers, polls, inPending, inEpFifo>>
      /\ nDesc \in Nat /\ nIndex \in Nat
  BY DEF gusbVars, proxyVars, TypeInv, TypeOK, EmuTypeOK
<1>2. Startup(toEmu, a, b, c) /\ FirmwareWaits(d, x, a, b, c)
      /\ NothingLost(d, x, a, b, c) /\ OnlyHandshake(a, b, c)
  BY <1>0 DEF Handshake
<1> USE DEF mainVars
<1>3. CASE RxDescriptors
  <2>1. /\ Interrupt("DESCRIPTORS") /\ nDesc' = nDesc + 1
        /\ toProxy' = Append(toProxy, Ack("DESCRIPTORS"))
        /\ UNCHANGED <<started, nIndex, tableSet, pc>>
    BY <1>3 DEF RxDescriptors
  <2>2. /\ a > 0 /\ Startup(toEmu', a - 1, b, c) /\ Len(toEmu') = Len(toEmu) - 1
        /\ Len(toEmu) \in Nat /\ toProxy \in Seq(Packet) /\ toEmu # <<>>
    <3>1. /\ toEmu \in Seq(Packet) /\ toEmu # <<>> /\ toEmu' = Tail(toEmu)
          /\ Head(toEmu).type = "DESCRIPTORS" /\ toProxy \in Seq(Packet)
      BY <2>1, Interrupted
    <3>2. /\ Len(Tail(toEmu)) = Len(toEmu) - 1 /\ Len(toEmu) \in Nat
          /\ a > 0 /\ Startup(Tail(toEmu), a - 1, b, c)
      BY <1>2, <3>1, StartupTail
    <3>3. QED
      BY <3>1, <3>2
  <2>3. ~started
    BY <1>2, <2>2 DEF FirmwareWaits
  <2>4. FirmwareWaits(d, x, a - 1, b, c)'
    BY <1>2, <2>1, <2>3, Interrupted DEF FirmwareWaits
  <2>5. NothingLost(d, x, a - 1, b, c)'
    BY <1>1, <1>2, <2>1, <2>2 DEF NothingLost
  <2>6. OnlyHandshake(a - 1, b, c)'
    <3>1. Beginning' => Beginning
      BY <1>1, <2>1 DEF Beginning
    <3>2. Beginning => StartupAcks'
      BY <1>1, <1>2, <2>1, <2>2, AckSent DEF OnlyHandshake
    <3>3. QED
      BY <1>1, <1>2, <2>2, <3>1, <3>2 DEF OnlyHandshake, Idle
  <2>7. Handshake(d, x, a - 1, b, c)' /\ a - 1 \in Nat
    BY <2>2, <2>4, <2>5, <2>6 DEF Handshake
  <2>8. QED
    BY <2>7 DEF HandshakeFrom
<1>4. CASE RxIndex
  <2>1. /\ Interrupt("INDEX") /\ nIndex' = nIndex + 1
        /\ toProxy' = Append(toProxy, Ack("INDEX"))
        /\ UNCHANGED <<started, nDesc, tableSet, pc>>
    BY <1>4 DEF RxIndex
  <2>2. /\ b > 0 /\ Startup(toEmu', a, b - 1, c) /\ Len(toEmu') = Len(toEmu) - 1
        /\ Len(toEmu) \in Nat /\ toProxy \in Seq(Packet) /\ toEmu # <<>>
    <3>1. /\ toEmu \in Seq(Packet) /\ toEmu # <<>> /\ toEmu' = Tail(toEmu)
          /\ Head(toEmu).type = "INDEX" /\ toProxy \in Seq(Packet)
      BY <2>1, Interrupted
    <3>2. /\ Len(Tail(toEmu)) = Len(toEmu) - 1 /\ Len(toEmu) \in Nat
          /\ b > 0 /\ Startup(Tail(toEmu), a, b - 1, c)
      BY <1>2, <3>1, StartupTail
    <3>3. QED
      BY <3>1, <3>2
  <2>3. ~started
    BY <1>2, <2>2 DEF FirmwareWaits
  <2>4. FirmwareWaits(d, x, a, b - 1, c)'
    BY <1>2, <2>1, <2>3, Interrupted DEF FirmwareWaits
  <2>5. NothingLost(d, x, a, b - 1, c)'
    BY <1>1, <1>2, <2>1, <2>2 DEF NothingLost
  <2>6. OnlyHandshake(a, b - 1, c)'
    <3>1. Beginning' => Beginning
      BY <1>1, <2>1 DEF Beginning
    <3>2. Beginning => descIndexSent
      BY <1>1, <1>2, <2>2 DEF Beginning, NothingLost
    <3>3. Beginning => StartupAcks'
      BY <1>1, <1>2, <2>1, <2>2, <3>2, AckSent DEF OnlyHandshake
    <3>4. QED
      BY <1>1, <1>2, <2>2, <3>1, <3>3 DEF OnlyHandshake, Idle
  <2>7. Handshake(d, x, a, b - 1, c)' /\ b - 1 \in Nat
    BY <2>2, <2>4, <2>5, <2>6 DEF Handshake
  <2>8. QED
    BY <2>7 DEF HandshakeFrom
<1>5. CASE RxEndpoints
  <2>1. /\ Interrupt("ENDPOINTS") /\ tableSet' /\ started'
        /\ UNCHANGED <<nDesc, nIndex, pc>>
    BY <1>5 DEF RxEndpoints
  <2>2. a = 0 /\ b = 0 /\ c = 1 /\ Startup(toEmu', 0, 0, 0)
    <3>1. /\ toEmu \in Seq(Packet) /\ toEmu # <<>> /\ toEmu' = Tail(toEmu)
          /\ Head(toEmu).type = "ENDPOINTS" /\ toProxy \in Seq(Packet)
      BY <2>1, Interrupted
    <3>2. a = 0 /\ b = 0 /\ c = 1 /\ Startup(Tail(toEmu), 0, 0, 0)
      BY <1>2, <3>1, StartupTail
    <3>3. QED
      BY <3>1, <3>2
  <2>3. nDesc = d + NDescriptors /\ nIndex = x + NIndex /\ endpointsSent
    BY <1>1, <1>2, <2>2, ProxyAssumption DEF NothingLost
  <2>4. FirmwareWaits(d, x, 0, 0, 0)'
    BY <1>1, <2>1, <2>3 DEF FirmwareWaits
  <2>5. NothingLost(d, x, 0, 0, 0)'
    BY <1>1, <1>2, <2>1, <2>2, <2>3, Interrupted DEF NothingLost
  <2>6. OnlyHandshake(0, 0, 0)'
    BY <2>1 DEF OnlyHandshake, Beginning
  <2>7. Handshake(d, x, 0, 0, 0)'
    BY <2>2, <2>4, <2>5, <2>6 DEF Handshake
  <2>8. QED
    BY <2>7 DEF HandshakeFrom
<1>6. CASE RxReset \/ RxControl \/ RxControlStall \/ RxIn
  <2>1. PICK type \in {"RESET", "CONTROL", "CONTROL_STALL", "IN"} :
           Interrupt(type) /\ pc' \in {pc, "hardreset"}
    BY <1>6 DEF RxReset, RxControl, RxControlStall, RxIn
  <2>2. UNCHANGED isrVars
    BY <1>6 DEF RxReset, RxControl, RxControlStall, RxIn
  <2>3. /\ a = 0 /\ b = 0 /\ c = 0 /\ Startup(toEmu', 0, 0, 0)
        /\ Len(toEmu) \in Nat /\ toEmu # <<>> /\ toEmu \in Seq(Packet)
    <3>1. /\ toEmu \in Seq(Packet) /\ toEmu # <<>> /\ toEmu' = Tail(toEmu)
          /\ Head(toEmu).type \notin StartupTypes
      BY <2>1, Interrupted DEF StartupTypes
    <3>2. /\ Len(toEmu) \in Nat
          /\ a = 0 /\ b = 0 /\ c = 0 /\ Startup(Tail(toEmu), 0, 0, 0)
      BY <1>2, <3>1, StartupTail
    <3>3. QED
      BY <3>1, <3>2
  <2>4. ~Beginning
    BY <1>2, <2>3, EmptySeq DEF OnlyHandshake
  <2>5. FirmwareWaits(d, x, 0, 0, 0)'
    BY <1>1, <1>2, <2>1, <2>2, <2>3, Interrupted DEF FirmwareWaits, isrVars
  <2>6. NothingLost(d, x, 0, 0, 0)'
    BY <1>1, <1>2, <2>2, <2>3 DEF NothingLost, isrVars
  <2>7. OnlyHandshake(0, 0, 0)'
    BY <1>1, <2>2, <2>4 DEF OnlyHandshake, Beginning, isrVars
  <2>8. Handshake(d, x, 0, 0, 0)'
    BY <2>3, <2>5, <2>6, <2>7 DEF Handshake
  <2>9. QED
    BY <2>8 DEF HandshakeFrom
<1>7. QED
  BY <1>3, <1>4, <1>5, <1>6 DEF EmuInterrupt

LEMMA RebootHandshake ==
    ASSUME TypeInv, LineInv,
           NEW d \in Nat, NEW x \in Nat, HandshakeFrom(d, x),
           Reboot, UNCHANGED <<gusbVars, proxyVars>>
    PROVE  HandshakeFrom(d, x)'
<1>0. PICK a \in Nat, b \in Nat, c \in {0, 1} : Handshake(d, x, a, b, c)
  BY DEF HandshakeFrom
<1>1. /\ phase \notin {"idle", "polling"} /\ phase' = phase
      /\ pc = "hardreset" /\ pc' = "boot" /\ ~started'
      /\ toEmu \in Seq(Packet)
  BY DEF Reboot, LineInv, NoReset, Running, proxyVars, TypeInv, TypeOK, SerialTypeOK
<1>2. a = 0 /\ b = 0 /\ c = 0 /\ Startup(toEmu, 0, 0, 0)
  BY <1>0, <1>1 DEF Handshake, FirmwareWaits
<1>3. Startup(toEmu', 0, 0, 0)
  BY <1>1, <1>2, StartupSuffix DEF Reboot
<1>4. FirmwareWaits(d, x, 0, 0, 0)' /\ NothingLost(d, x, 0, 0, 0)' /\ OnlyHandshake(0, 0, 0)'
  BY <1>1 DEF FirmwareWaits, NothingLost, OnlyHandshake, Beginning
<1>5. Handshake(d, x, 0, 0, 0)'
  BY <1>3, <1>4 DEF Handshake
<1>6. QED
  BY <1>5 DEF HandshakeFrom

LEMMA SendNextInputFrame ==
    ASSUME SendNextInput
    PROVE  /\ pc \notin {"boot", "hardreset"} /\ pc' \notin {"boot", "hardreset"}
           /\ UNCHANGED <<toEmu, isrVars>>
BY DEF SendNextInput, InputNothing, InputFound, InputWrite, InputRelease, InputAck,
       Goto, serialVars

\* The main loop does nothing before the start.
LEMMA MainFrame ==
    ASSUME TypeInv, EmuMain
    PROVE  /\ started \/ pc \notin {"boot", "hardreset"}
           /\ pc' # "hardreset" /\ UNCHANGED <<toEmu, isrVars>>
<1> USE DEF serialVars, Goto
<1>1. CASE Boot
  BY <1>1 DEF Boot
<1>2. CASE SendNextInput
  BY <1>2, SendNextInputFrame
<1>3. CASE TaskSkipped
  BY <1>3 DEF TaskSkipped
<1>4. CASE ReceiveNextOutput
  BY <1>4 DEF ReceiveNextOutput, OutputNothing, OutputPoll, OutputClear, OutputSend
<1>5. CASE USBTask
  <2>1. pc = "usbtask" /\ UNCHANGED <<toEmu, isrVars>>
    BY <1>5 DEF USBTask, UsbTaskNothing, ClearSetFeature, SetHalt, ClearHalt, RequestStatus,
                SetConfiguration, RequestTooBig, RequestForwarded
  <2>2. QED
    BY <1>5, <2>1, QuietMainFrame DEF QuietMain, MainSteps
<1>6. CASE UnhandledControlRequest
  <2>1. pc \notin {"boot", "hardreset"} /\ UNCHANGED isrVars
    BY <1>6 DEF UnhandledControlRequest, ControlClearReply, ControlClearStall, ControlSendIn,
       ControlReadSetup, ControlSendOut, ControlReadAborted, ControlWait, ControlReplied,
       ControlTimeout, ControlStalled, ControlAccepted, ControlReturnData, ControlWriteFirst,
       ControlWriteSecond, ControlWriteAborted, SendControl
  <2>2. QED
    BY <1>6, <2>1, QuietMainFrame DEF QuietMain, MainSteps
<1>7. QED
  BY <1>1, <1>2, <1>3, <1>4, <1>5, <1>6 DEF EmuMain

LEMMA MainHandshake ==
    ASSUME TypeInv,
           NEW d \in Nat, NEW x \in Nat, HandshakeFrom(d, x),
           EmuMain, UNCHANGED <<gusbVars, proxyVars>>
    PROVE  HandshakeFrom(d, x)'
<1>0. PICK a \in Nat, b \in Nat, c \in {0, 1} : Handshake(d, x, a, b, c)
  BY DEF HandshakeFrom
<1>1. started /\ started' /\ pc' # "hardreset" /\ UNCHANGED <<toEmu, isrVars>>
  BY <1>0, MainFrame DEF Handshake, FirmwareWaits, isrVars
<1>2. Startup(toEmu', a, b, c) /\ ~Beginning'
  BY <1>0, <1>1 DEF Handshake, Beginning
<1>3. Handshake(d, x, a, b, c)'
  BY <1>0, <1>1, <1>2, HandshakeQuiet DEF proxyVars
<1>4. QED
  BY <1>3 DEF HandshakeFrom

-----------------------------------------------------------------------------
(* The invariant, and what follows from it. *)

LEMMA InitHandshake == Init => HandshakeInv
<1> SUFFICES ASSUME Init PROVE HandshakeInv
  OBVIOUS
<1>1. /\ toEmu = <<>> /\ toProxy = <<>> /\ pc = "boot" /\ ~started /\ phase = "idle"
      /\ nDesc = 0 /\ nIndex = 0 /\ ~descIndexSent /\ ~endpointsSent
      /\ ctrlXfers = <<>> /\ Idle
  BY DEF Init, SerialInit, GusbInit, ProxyInit, EmuInit, Idle
<1>2. Startup(<<>>, 0, 0, 0) /\ Len(<<>>) = 0
  <2>1. \A i \in DOMAIN <<>> : FALSE
    OBVIOUS
  <2>2. QED
    BY <2>1, EmptySeq DEF Startup
<1>3. StartupAcks
  BY <1>1 DEF StartupAcks
<1>4. Handshake(0, 0, 0, 0, 0)
  BY <1>1, <1>2, <1>3 DEF Handshake, FirmwareWaits, NothingLost, OnlyHandshake
<1>5. QED
  BY <1>4 DEF HandshakeInv, HandshakeFrom

LEMMA StepHandshakeFrom ==
    ASSUME TypeInv, LineInv, NEW d \in Nat, NEW x \in Nat, HandshakeFrom(d, x), [Next]_vars
    PROVE  HandshakeFrom(d, x)'
<1>1. CASE ProxyStep
  BY <1>1, ProxyStepHandshake
<1>2. CASE EmuStep
  BY <1>2, InterruptHandshake, RebootHandshake, MainHandshake DEF EmuStep, EmuNext
<1>3. CASE HostStep \/ UNCHANGED vars
  <2>1. UNCHANGED <<serialVars, gusbVars, proxyVars, emuVars>>
    BY <1>3 DEF HostStep, vars
  <2>2. PICK a \in Nat, b \in Nat, c \in {0, 1} : Handshake(d, x, a, b, c)
    BY DEF HandshakeFrom
  <2>3. Beginning' => StartupAcks'
    BY <2>1, <2>2 DEF Handshake, OnlyHandshake, Beginning, StartupAcks,
                      serialVars, proxyVars, emuVars, isrVars
  <2>4. Handshake(d, x, a, b, c)'
    BY <2>1, <2>2, <2>3, QuietProxy
       DEF SentBehind, serialVars, gusbVars, proxyVars, TypeInv, TypeOK, SerialTypeOK
  <2>5. QED
    BY <2>4 DEF HandshakeFrom
<1>4. QED
  BY <1>1, <1>2, <1>3 DEF Next

LEMMA StepHandshake == TypeInv /\ TokenInv /\ HandshakeInv /\ [Next]_vars => HandshakeInv'
BY StepHandshakeFrom DEF HandshakeInv, TokenInv, LineInv

LEMMA AlwaysHandshake == Spec => []HandshakeInv
BY InitHandshake, StepHandshake, AlwaysTypeInv, AlwaysToken, PTL DEF Spec

LEMMA HandshakeBoots ==
    ASSUME TypeInv, NEW d \in Nat, NEW x \in Nat, HandshakeFrom(d, x)
    PROVE  AcksOnlyWhileBooting
<1>1. PICK a \in Nat, b \in Nat, c \in {0, 1} : Handshake(d, x, a, b, c)
  BY DEF HandshakeFrom
<1> SUFFICES ASSUME NEW i \in DOMAIN toEmu, toEmu[i].type \in StartupTypes
             PROVE  pc = "boot" /\ ~started
  BY DEF AcksOnlyWhileBooting
<1>2. i \in Nat /\ 1 <= i
  BY LenProperties DEF TypeInv, TypeOK, SerialTypeOK
<1>3. a + b + c # 0
  BY <1>1, <1>2 DEF Handshake, Startup, StartupTypes
<1>4. QED
  BY <1>1, <1>3 DEF Handshake, FirmwareWaits

\* The interrupt handler sends its acknowledgements only while the main loop
\* waits in SetupHardware (emu.c): the proxy sends the endpoint table last and
\* once, and the table is what the main loop waits for.
THEOREM AcksWhileBooting == Spec => []AcksOnlyWhileBooting
<1>1. TypeInv /\ HandshakeInv => AcksOnlyWhileBooting
  BY HandshakeBoots DEF HandshakeInv
<1>2. QED
  BY <1>1, AlwaysTypeInv, AlwaysHandshake, PTL

\* The firmware (emu.c) leaves SetupHardware with every packet of the
\* descriptors and of the index, and with the endpoint table.
THEOREM CompleteTables == Spec => []StartedWithTables
<1>1. HandshakeInv => StartedWithTables
  BY ProxyAssumption
     DEF HandshakeInv, HandshakeFrom, Handshake, FirmwareWaits, StartedWithTables
<1>2. QED
  BY <1>1, AlwaysHandshake, PTL

-----------------------------------------------------------------------------
(* The homes of the reports. *)

\* With the transfers pl, the endpoint pend pending and the queue fifo, no
\* endpoint is in two places, nor twice in one.
Distinct(pl, pend, fifo) ==
    /\ \A e \in InEps : pl[e] \in {0, 1}
    /\ \A e \in InEps : pl[e] = 1 => pend # e /\ \A i \in DOMAIN fifo : fifo[i] # e
    /\ \A i \in DOMAIN fifo : fifo[i] # pend
    /\ \A i, j \in DOMAIN fifo : fifo[i] = fifo[j] => i = j

OneTable(s) ==
    \A i, j \in DOMAIN s : s[i].type = "ENDPOINTS" /\ s[j].type = "ENDPOINTS" => i = j

\* The endpoints are polled for the first time when none is in any place.
PolledOnce ==
    phase = "polling" =>
        /\ OneTable(toProxy)
        /\ ~NoneOf("ENDPOINTS", toProxy) => Idle

HomesInv == Distinct(polls, inPending, inEpFifo) /\ PolledOnce

LEMMA SendNextHomes ==
    ASSUME NEW pl, NEW pend \in InEps \union {0}, NEW fifo \in Seq(InEps),
           NEW packets, NEW ok,
           Distinct(pl, pend, fifo), send_next_in_packet(pend, fifo, packets, ok)
    PROVE  Distinct(pl, inPending', inEpFifo')
<1>1. CASE CanSend(pend, fifo) /\ ok
  <2>1. inPending' = Head(fifo) /\ inEpFifo' = Tail(fifo) /\ fifo # <<>>
    BY <1>1 DEF send_next_in_packet, CanSend
  <2>2. /\ DOMAIN fifo = 1..Len(fifo) /\ Len(fifo) \in Nat \ {0}
        /\ DOMAIN Tail(fifo) = 1..Len(fifo) - 1
        /\ \A i \in 1..Len(fifo) - 1 : Tail(fifo)[i] = fifo[i + 1]
        /\ Head(fifo) = fifo[1] /\ Head(fifo) \in InEps
    BY <2>1, HeadTailProperties, LenProperties, EmptySeq
  <2>3. \A i \in DOMAIN Tail(fifo) :
           i + 1 \in DOMAIN fifo /\ i + 1 # 1 /\ Tail(fifo)[i] = fifo[i + 1]
    BY <2>2
  <2>4. 1 \in DOMAIN fifo
    BY <2>2
  <2> DEFINE t == Tail(fifo)
             h == Head(fifo)
  <2>5. \A i \in DOMAIN t : t[i] # h
    BY <2>2, <2>3, <2>4 DEF Distinct
  <2>6. ASSUME NEW i \in DOMAIN t, NEW j \in DOMAIN t, t[i] = t[j]
        PROVE  i = j
    <3>1. i + 1 = j + 1
      BY <2>3, <2>6 DEF Distinct
    <3>2. QED
      BY <2>2, <3>1
  <2>7. \A e \in InEps : pl[e] = 1 => h # e /\ \A i \in DOMAIN t : t[i] # e
    BY <2>2, <2>3, <2>4 DEF Distinct
  <2> HIDE DEF t, h
  <2>8. Distinct(pl, h, t)
    BY <2>5, <2>6, <2>7 DEF Distinct
  <2>9. QED
    BY <2>1, <2>8 DEF t, h
<1>2. CASE ~(CanSend(pend, fifo) /\ ok)
  BY <1>2 DEF send_next_in_packet
<1>3. QED
  BY <1>1, <1>2

\* A report is read: its endpoint goes from the transfers to the queue.
LEMMA QueueHomes ==
    ASSUME NEW e \in InEps, polls \in [InEps -> Nat], inEpFifo \in Seq(InEps),
           Distinct(polls, inPending, inEpFifo), RemovePoll(e)
    PROVE  /\ Distinct(polls', inPending, inEpFifo)
           /\ Distinct(polls', inPending, Append(inEpFifo, e))
<1> DEFINE fifo == Append(inEpFifo, e)
<1>1. polls[e] = 1 /\ \A f \in InEps : polls'[f] = IF f = e THEN 0 ELSE polls[f]
  BY DEF RemovePoll, Distinct
<1>2. /\ DOMAIN inEpFifo = 1..Len(inEpFifo) /\ DOMAIN fifo = 1..Len(inEpFifo) + 1
      /\ Len(inEpFifo) \in Nat
      /\ \A i \in 1..Len(inEpFifo) : fifo[i] = inEpFifo[i]
      /\ fifo[Len(inEpFifo) + 1] = e
  BY AppendProperties, LenProperties
<1> HIDE DEF fifo
<1>3. \A i \in DOMAIN fifo :
         \/ i \in DOMAIN inEpFifo /\ fifo[i] = inEpFifo[i] /\ fifo[i] # e
         \/ i = Len(inEpFifo) + 1 /\ fifo[i] = e
  BY <1>1, <1>2 DEF Distinct
<1>4. Distinct(polls', inPending, inEpFifo)
  BY <1>1 DEF Distinct
<1>5. Distinct(polls', inPending, fifo)
  <2>1. \A f \in InEps : polls'[f] \in {0, 1}
    BY <1>4 DEF Distinct
  <2>2. \A i \in DOMAIN fifo : fifo[i] # inPending
    BY <1>1, <1>3 DEF Distinct
  <2>3. \A i, j \in DOMAIN fifo : fifo[i] = fifo[j] => i = j
    BY <1>3 DEF Distinct
  <2>4. \A f \in InEps : polls'[f] = 1 =>
           inPending # f /\ \A i \in DOMAIN fifo : fifo[i] # f
    BY <1>1, <1>3, <1>4 DEF Distinct
  <2>5. QED
    BY <2>1, <2>2, <2>3, <2>4 DEF Distinct
<1>6. QED
  BY <1>4, <1>5 DEF fifo

\* A report is acknowledged: its endpoint goes back to the transfers.
LEMMA PollHomes ==
    ASSUME polls \in [InEps -> Nat], inEpFifo \in Seq(InEps), inPending \in InEps,
           Distinct(polls, inPending, inEpFifo), NEW ok, gusb_poll(inPending, ok)
    PROVE  Distinct(polls', 0, inEpFifo)
<1>1. \A i \in DOMAIN inEpFifo : inEpFifo[i] \in InEps
  BY LenProperties, ElementOfSeq
<1>2. 0 \notin InEps
  BY EndpointsAssumption DEF EndpointsOK
<1>3. polls[inPending] = 0
  BY DEF Distinct
<1>4. \A f \in InEps : polls'[f] = polls[f] \/ (f = inPending /\ polls'[f] = 1)
  BY <1>3 DEF gusb_poll
<1>5. QED
  BY <1>1, <1>2, <1>4 DEF Distinct

\* What the proxy receives.
LEMMA TableTaken ==
    ASSUME toProxy \in Seq(Packet), NEW type, Receive(type), OneTable(toProxy)
    PROVE  /\ OneTable(toProxy')
           /\ ~NoneOf("ENDPOINTS", toProxy') => ~NoneOf("ENDPOINTS", toProxy) /\ type # "ENDPOINTS"
<1>1. /\ toProxy # <<>> /\ Head(toProxy).type = type /\ toProxy' = Tail(toProxy)
  BY DEF Receive
<1>2. /\ DOMAIN toProxy = 1..Len(toProxy) /\ Len(toProxy) \in Nat \ {0}
      /\ DOMAIN toProxy' = 1..Len(toProxy) - 1
      /\ \A i \in 1..Len(toProxy) - 1 : toProxy'[i] = toProxy[i + 1]
      /\ Head(toProxy) = toProxy[1]
  BY <1>1, HeadTailProperties, LenProperties, EmptySeq
<1>3. \A i \in DOMAIN toProxy' :
         i + 1 \in DOMAIN toProxy /\ i + 1 # 1 /\ toProxy'[i] = toProxy[i + 1] /\ i \in Nat
  BY <1>2
<1>4. 1 \in DOMAIN toProxy /\ toProxy[1].type = type
  BY <1>1, <1>2
<1>5. ASSUME NEW i \in DOMAIN toProxy', NEW j \in DOMAIN toProxy',
             toProxy'[i].type = "ENDPOINTS", toProxy'[j].type = "ENDPOINTS"
      PROVE  i = j
  <2>1. i + 1 = j + 1
    BY <1>3, <1>5 DEF OneTable
  <2>2. QED
    BY <1>3, <2>1
<1>6. QED
  BY <1>3, <1>4, <1>5 DEF OneTable, NoneOf

\* What the firmware sends.
LEMMA TableSent ==
    ASSUME toProxy \in Seq(Packet), NEW p \in Packet, toProxy' = Append(toProxy, p)
    PROVE  /\ p.type # "ENDPOINTS" =>
                 /\ OneTable(toProxy) => OneTable(toProxy')
                 /\ NoneOf("ENDPOINTS", toProxy) => NoneOf("ENDPOINTS", toProxy')
           /\ NoneOf("ENDPOINTS", toProxy) => OneTable(toProxy')
<1>1. /\ DOMAIN toProxy = 1..Len(toProxy) /\ DOMAIN toProxy' = 1..Len(toProxy) + 1
      /\ Len(toProxy) \in Nat
      /\ \A i \in 1..Len(toProxy) : toProxy'[i] = toProxy[i]
      /\ toProxy'[Len(toProxy) + 1] = p
  BY AppendProperties, LenProperties
<1>2. \A i \in DOMAIN toProxy' :
         (i \in DOMAIN toProxy /\ toProxy'[i] = toProxy[i]) \/ (i = Len(toProxy) + 1 /\ toProxy'[i] = p)
  BY <1>1
<1>3. QED
  BY <1>2 DEF OneTable, NoneOf

LEMMA HomesQuiet ==
    ASSUME HomesInv, UNCHANGED <<polls, inPending, inEpFifo>>,
           phase' = "polling" =>
               /\ phase = "polling"
               /\ OneTable(toProxy) => OneTable(toProxy')
               /\ NoneOf("ENDPOINTS", toProxy) => NoneOf("ENDPOINTS", toProxy')
    PROVE  HomesInv'
<1>1. Distinct(polls, inPending, inEpFifo)'
  BY DEF HomesInv, Distinct
<1>2. PolledOnce'
  BY DEF HomesInv, PolledOnce, Idle
<1>3. QED
  BY <1>1, <1>2 DEF HomesInv

\* Before the firmware starts it has not acknowledged the table.
LEMMA NoTableYet ==
    ASSUME NEW d \in Nat, NEW x \in Nat, HandshakeFrom(d, x), Beginning
    PROVE  NoneOf("ENDPOINTS", toProxy) /\ Idle
BY DEF HandshakeFrom, Handshake, OnlyHandshake, StartupAcks, NoneOf

LEMMA ProcessPacketHomes ==
    ASSUME TypeInv, HomesInv, ProcessPacket
    PROVE  HomesInv'
<1>1. /\ toProxy \in Seq(Packet) /\ polls \in [InEps -> Nat]
      /\ inEpFifo \in Seq(InEps) /\ inPending \in InEps \union {0}
      /\ Distinct(polls, inPending, inEpFifo)
  BY DEF TypeInv, TypeOK, SerialTypeOK, GusbTypeOK, ProxyTypeOK, HomesInv
<1>2. PICK type : Receive(type) /\ (ProcessEndpoints => type = "ENDPOINTS")
  <2>1. CASE ProcessEndpoints
    BY <2>1 DEF ProcessEndpoints
  <2>2. CASE ~ProcessEndpoints
    BY <2>2 DEF ProcessPacket, ProcessDescriptors, ProcessIndex, ProcessIn,
                ProcessOut, ProcessControl, ProcessDebug, ProcessReset
  <2>3. QED
    BY <2>1, <2>2
<1>3. /\ phase = "polling" /\ OneTable(toProxy) /\ OneTable(toProxy')
      /\ ~NoneOf("ENDPOINTS", toProxy) => Idle
      /\ ~NoneOf("ENDPOINTS", toProxy') => ~NoneOf("ENDPOINTS", toProxy) /\ type # "ENDPOINTS"
  BY <1>1, <1>2, TableTaken DEF HomesInv, PolledOnce, Receive
<1>4. CASE ProcessEndpoints
  <2>1. type = "ENDPOINTS" /\ Head(toProxy).type = "ENDPOINTS" /\ toProxy # <<>>
    BY <1>2, <1>4 DEF Receive
  <2>2. ~NoneOf("ENDPOINTS", toProxy)
    BY <1>1, <1>2, <2>1, Received DEF NoneOf
  <2>3. Idle /\ NoneOf("ENDPOINTS", toProxy')
    BY <1>3, <2>1, <2>2
  <2>4. /\ \A e \in InEps : polls'[e] \in {0, 1}
        /\ inPending' = 0 /\ inEpFifo' = <<>>
    BY <1>1, <1>4, <2>3 DEF ProcessEndpoints, Idle, inVars
  <2>5. Distinct(polls, inPending, inEpFifo)'
    BY <2>4, EndpointsAssumption DEF EndpointsOK, Distinct
  <2>6. QED
    BY <1>3, <2>3, <2>5 DEF HomesInv, PolledOnce
<1>5. CASE ProcessIn /\ inPending # 0
  <2>1. NoneOf("ENDPOINTS", toProxy')
    BY <1>3, <1>5 DEF Idle
  <2>2. PICK polled \in SubmitResults, sent \in SendResults :
           /\ gusb_poll(inPending, polled)
           /\ IF polled
              THEN send_next_in_packet(0, inEpFifo, inPackets, sent)
              ELSE inPending' = 0 /\ UNCHANGED <<toEmu, inEpFifo>>
    BY <1>5 DEF ProcessIn
  <2>3. Distinct(polls', 0, inEpFifo)
    BY <1>1, <1>5, <2>2, PollHomes
  <2>4. Distinct(polls', inPending', inEpFifo')
    <3>1. CASE polled
      BY <1>1, <2>2, <2>3, <3>1, SendNextHomes
    <3>2. CASE ~polled
      BY <2>2, <2>3, <3>2
    <3>3. QED
      BY <3>1, <3>2
  <2>5. Distinct(polls, inPending, inEpFifo)'
    BY <2>4 DEF Distinct
  <2>6. QED
    BY <1>3, <2>1, <2>5 DEF HomesInv, PolledOnce
<1>6. CASE ~ProcessEndpoints /\ ~(ProcessIn /\ inPending # 0)
  <2>1. UNCHANGED <<polls, inPending, inEpFifo>>
    BY <1>6 DEF ProcessPacket, ProcessDescriptors, ProcessIndex, ProcessIn,
                ProcessOut, ProcessControl, ProcessDebug, ProcessReset, gusbVars, inVars
  <2>2. QED
    BY <1>3, <2>1, HomesQuiet
<1>7. QED
  BY <1>4, <1>5, <1>6

LEMMA UsbCallbackHomes ==
    ASSUME TypeInv, HomesInv, UsbCallback
    PROVE  HomesInv'
<1>1. /\ polls \in [InEps -> Nat] /\ inEpFifo \in Seq(InEps)
      /\ inPending \in InEps \union {0} /\ Distinct(polls, inPending, inEpFifo)
      /\ phase = "polling" => OneTable(toProxy)
      /\ phase = "polling" /\ ~NoneOf("ENDPOINTS", toProxy) => Idle
  BY DEF TypeInv, TypeOK, GusbTypeOK, ProxyTypeOK, HomesInv, PolledOnce
<1>2. ASSUME NEW e \in InEps, RemovePoll(e), UNCHANGED <<phase, toProxy>>,
             Distinct(polls', inPending', inEpFifo')
      PROVE  HomesInv'
  <2>1. ~Idle
    BY <1>2 DEF RemovePoll, Idle
  <2>2. PolledOnce'
    BY <1>1, <1>2, <2>1 DEF PolledOnce
  <2>3. Distinct(polls, inPending, inEpFifo)'
    BY <1>2 DEF Distinct
  <2>4. QED
    BY <2>2, <2>3 DEF HomesInv
<1>3. ASSUME NEW e \in InEps, ReadDone(e)
      PROVE  HomesInv'
  <2>1. RemovePoll(e) /\ UNCHANGED <<phase, toProxy>>
    BY <1>3 DEF ReadDone
  <2>2. /\ Distinct(polls', inPending, inEpFifo)
        /\ Distinct(polls', inPending, Append(inEpFifo, e))
    BY <1>1, <2>1, QueueHomes
  <2>3. Distinct(polls', inPending', inEpFifo')
    <3>1. CASE Len(inEpFifo) = MaxEndpoints
      BY <1>3, <2>2, <3>1 DEF ReadDone, inVars
    <3>2. CASE Len(inEpFifo) # MaxEndpoints
      <4> DEFINE packets == [inPackets EXCEPT ![e] = Pkt("IN", U2S[e], reports[e] + 1)]
                 fifo == Append(inEpFifo, e)
      <4>1. PICK ok \in SendResults : send_next_in_packet(inPending, fifo, packets, ok)
        BY <1>3, <3>2 DEF ReadDone
      <4>2. fifo \in Seq(InEps)
        BY <1>1, AppendProperties
      <4>3. Distinct(polls', inPending, fifo)
        BY <2>2
      <4> HIDE DEF packets, fifo
      <4>4. QED
        BY <1>1, <4>1, <4>2, <4>3, SendNextHomes
    <3>3. QED
      BY <3>1, <3>2
  <2>4. QED
    BY <1>2, <2>1, <2>3
<1>4. ASSUME NEW e \in InEps, ReadFailed(e)
      PROVE  HomesInv'
  <2>1. RemovePoll(e) /\ UNCHANGED <<phase, toProxy, inPending, inEpFifo>>
    BY <1>4 DEF ReadFailed, proxyVars
  <2>2. Distinct(polls', inPending', inEpFifo')
    BY <1>1, <2>1, QueueHomes
  <2>3. QED
    BY <1>2, <2>1, <2>2
<1>5. CASE ControlReadDone \/ ControlWriteDone \/ \E e \in OutEps : WriteDone(e)
  <2>1. UNCHANGED <<phase, toProxy, polls, inPending, inEpFifo>>
    BY <1>5 DEF ControlReadDone, ControlWriteDone, WriteDone, proxyVars, inVars
  <2>2. QED
    BY <2>1, HomesQuiet
<1>6. QED
  BY <1>3, <1>4, <1>5 DEF UsbCallback

LEMMA ProxyStepHomes ==
    ASSUME TypeInv, NEW d \in Nat, NEW x \in Nat, HandshakeFrom(d, x), HomesInv, ProxyStep
    PROVE  HomesInv'
<1> USE DEF serialVars, gusbVars, startupVars, inVars
<1>1. CASE ProxyStart
  <2>1. Beginning
    BY <1>1, ProxyAssumption
       DEF ProxyStart, HandshakeFrom, Handshake, FirmwareWaits, NothingLost, Beginning
  <2>2. NoneOf("ENDPOINTS", toProxy) /\ Idle
    BY <2>1, NoTableYet
  <2>3. UNCHANGED <<toProxy, polls, inPending, inEpFifo>>
    BY <1>1 DEF ProxyStart
  <2>4. PolledOnce'
    BY <2>2, <2>3 DEF PolledOnce, OneTable, NoneOf
  <2>5. Distinct(polls, inPending, inEpFifo)'
    BY <2>3 DEF HomesInv, Distinct
  <2>6. QED
    BY <2>4, <2>5 DEF HomesInv
<1>2. CASE ProcessPacket
  BY <1>2, ProcessPacketHomes
<1>3. CASE UsbCallback
  BY <1>3, UsbCallbackHomes
<1>4. CASE ProxyStartFails \/ ProxyStop \/ InitTimeout \/ Closed
           \/ TimerTick \/ SendReset \/ ProxyExit
  <2>1. /\ UNCHANGED <<toProxy, polls, inPending, inEpFifo>>
        /\ phase' = "polling" => phase = "polling"
    BY <1>4 DEF ProxyStartFails, ProxyStop, InitTimeout, Closed, TimerTick, SendReset, ProxyExit
  <2>2. QED
    BY <2>1, HomesQuiet
<1>5. CASE Cancelled
  <2>1. UNCHANGED <<inPending, inEpFifo>> /\ phase' # "polling"
    BY <1>5 DEF Cancelled, proxyVars
  <2>2. CASE \E e \in InEps : RemovePoll(e)
    <3>1. /\ polls \in [InEps -> Nat] /\ inEpFifo \in Seq(InEps)
          /\ Distinct(polls, inPending, inEpFifo)
      BY DEF TypeInv, TypeOK, GusbTypeOK, ProxyTypeOK, HomesInv
    <3>2. Distinct(polls', inPending, inEpFifo)
      BY <2>2, <3>1, QueueHomes
    <3>3. Distinct(polls, inPending, inEpFifo)'
      BY <2>1, <3>2 DEF Distinct
    <3>4. QED
      BY <2>1, <3>3 DEF HomesInv, PolledOnce
  <2>3. CASE UNCHANGED polls
    BY <2>1, <2>3, HomesQuiet
  <2>4. QED
    BY <1>5, <2>2, <2>3 DEF Cancelled
<1>6. QED
  BY <1>1, <1>2, <1>3, <1>4, <1>5 DEF ProxyStep, ProxyNext, ProxyLeave

\* What the firmware sends but the acknowledgement of the endpoint table.
Replies ==
    \/ toProxy' = toProxy
    \/ \E p \in Packet : p.type # "ENDPOINTS" /\ toProxy' = Append(toProxy, p)

LEMMA ReplyHomes ==
    ASSUME TypeInv, HomesInv, Replies, UNCHANGED <<gusbVars, proxyVars>>
    PROVE  HomesInv'
<1>1. UNCHANGED <<polls, inPending, inEpFifo, phase>> /\ toProxy \in Seq(Packet)
  BY DEF gusbVars, proxyVars, TypeInv, TypeOK, SerialTypeOK
<1>2. /\ OneTable(toProxy) => OneTable(toProxy')
      /\ NoneOf("ENDPOINTS", toProxy) => NoneOf("ENDPOINTS", toProxy')
  BY <1>1, TableSent DEF Replies
<1>3. QED
  BY <1>1, <1>2, HomesQuiet

LEMMA MainReplies ==
    ASSUME TypeInv, EmuMain
    PROVE  Replies
<1>1. /\ outPkt.ep \in Nat /\ outPkt.data \in Nat /\ request \in Nat /\ setup \in Nat
  BY RequestsAssumption DEF TypeInv, TypeOK, EmuTypeOK, UsbTypeOK, Slot
<1>2. /\ Ack("IN") \in Packet /\ Ack("IN").type = "IN"
      /\ Pkt("OUT", outPkt.ep, outPkt.data) \in Packet
      /\ Pkt("OUT", outPkt.ep, outPkt.data).type = "OUT"
      /\ Pkt("DEBUG", 0, setup) \in Packet /\ Pkt("DEBUG", 0, setup).type = "DEBUG"
      /\ Pkt("CONTROL", 0, request) \in Packet /\ Pkt("CONTROL", 0, request).type = "CONTROL"
  BY <1>1, AckType, PktType DEF PacketTypes, Ack, Pkt
<1> USE DEF serialVars
<1>3. CASE Boot \/ TaskSkipped
  BY <1>3 DEF Boot, TaskSkipped, Replies
<1>4. CASE SendNextInput
  BY <1>2, <1>4 DEF SendNextInput, InputNothing, InputFound, InputWrite, InputRelease,
                    InputAck, Replies
<1>5. CASE ReceiveNextOutput
  BY <1>2, <1>5 DEF ReceiveNextOutput, OutputNothing, OutputPoll, OutputClear, OutputSend, Replies
<1>6. CASE USBTask
  BY <1>2, <1>6 DEF USBTask, UsbTaskNothing, ClearSetFeature, SetHalt, ClearHalt, RequestStatus,
                    SetConfiguration, RequestTooBig, RequestForwarded,
                    Replies
<1>7. CASE UnhandledControlRequest
  <2>1. toProxy' = toProxy \/ toProxy' = Append(toProxy, Pkt("CONTROL", 0, request))
    BY <1>7 DEF UnhandledControlRequest, ControlClearReply, ControlClearStall, ControlSendIn,
       ControlReadSetup, ControlSendOut, ControlReadAborted, ControlWait, ControlReplied,
       ControlTimeout, ControlStalled, ControlAccepted, ControlReturnData, ControlWriteFirst,
       ControlWriteSecond, ControlWriteAborted, SendControl
  <2>2. QED
    BY <1>2, <2>1 DEF Replies
<1>8. QED
  BY <1>3, <1>4, <1>5, <1>6, <1>7 DEF EmuMain

LEMMA InterruptReplies ==
    ASSUME EmuInterrupt \/ Reboot, ~RxEndpoints
    PROVE  Replies
<1>1. \A type \in {"DESCRIPTORS", "INDEX"} : Ack(type) \in Packet /\ Ack(type).type = type
  BY AckType DEF PacketTypes, Ack, Pkt
<1>2. QED
  BY <1>1 DEF EmuInterrupt, RxDescriptors, RxIndex, RxReset, RxControl, RxControlStall, RxIn,
              Reboot, Replies

\* The only acknowledgement of the table comes before the endpoints are polled.
LEMMA TableHomes ==
    ASSUME TypeInv, NEW d \in Nat, NEW x \in Nat, HandshakeFrom(d, x), HomesInv,
           RxEndpoints, UNCHANGED <<gusbVars, proxyVars>>
    PROVE  HomesInv'
<1>1. UNCHANGED <<polls, inPending, inEpFifo, phase>> /\ toProxy \in Seq(Packet)
  BY DEF gusbVars, proxyVars, TypeInv, TypeOK, SerialTypeOK
<1>2. Distinct(polls, inPending, inEpFifo)'
  BY <1>1 DEF HomesInv, Distinct
<1>3. ~started
  <2>1. PICK a \in Nat, b \in Nat, c \in {0, 1} : Handshake(d, x, a, b, c)
    BY DEF HandshakeFrom
  <2>2. /\ toEmu \in Seq(Packet) /\ toEmu # <<>> /\ Head(toEmu).type = "ENDPOINTS"
    BY Interrupted DEF RxEndpoints
  <2>3. a = 0 /\ b = 0 /\ c = 1
    BY <2>1, <2>2, StartupTail DEF Handshake
  <2>4. QED
    BY <2>1, <2>3 DEF Handshake, FirmwareWaits
<1>4. ASSUME phase = "polling"
      PROVE  OneTable(toProxy') /\ Idle'
  <2>1. NoneOf("ENDPOINTS", toProxy) /\ Idle
    BY <1>3, <1>4, NoTableYet DEF Beginning
  <2>2. toProxy' = Append(toProxy, Ack("ENDPOINTS")) /\ Ack("ENDPOINTS") \in Packet
    BY AckType DEF RxEndpoints, PacketTypes
  <2>3. QED
    BY <1>1, <2>1, <2>2, TableSent DEF Idle
<1>5. QED
  BY <1>1, <1>2, <1>4 DEF HomesInv, PolledOnce

LEMMA InitHomes == Init => HomesInv
<1> SUFFICES ASSUME Init PROVE HomesInv
  OBVIOUS
<1>1. phase = "idle" /\ inPending = 0 /\ inEpFifo = <<>> /\ \A e \in InEps : polls[e] = 0
  BY DEF Init, GusbInit, ProxyInit
<1>2. QED
  BY <1>1 DEF HomesInv, Distinct, PolledOnce

LEMMA StepHomesFrom ==
    ASSUME TypeInv, NEW d \in Nat, NEW x \in Nat, HandshakeFrom(d, x), HomesInv, [Next]_vars
    PROVE  HomesInv'
<1>1. CASE ProxyStep
  BY <1>1, ProxyStepHomes
<1>2. CASE EmuStep
  <2>1. CASE RxEndpoints
    BY <1>2, <2>1, TableHomes DEF EmuStep
  <2>2. CASE ~RxEndpoints
    BY <1>2, <2>2, ReplyHomes, MainReplies, InterruptReplies DEF EmuStep, EmuNext
  <2>3. QED
    BY <2>1, <2>2
<1>3. CASE HostStep \/ UNCHANGED vars
  <2>1. UNCHANGED <<gusbVars, proxyVars>> /\ toProxy' = toProxy
    BY <1>3 DEF HostStep, vars, serialVars
  <2>2. QED
    BY <2>1, ReplyHomes DEF Replies
<1>4. QED
  BY <1>1, <1>2, <1>3 DEF Next

LEMMA StepHomes == TypeInv /\ HandshakeInv /\ HomesInv /\ [Next]_vars => HomesInv'
BY StepHomesFrom DEF HandshakeInv

LEMMA AlwaysHomes == Spec => []HomesInv
BY InitHomes, StepHomes, AlwaysTypeInv, AlwaysHandshake, PTL DEF Spec

LEMMA HomesOne == TypeInv /\ HomesInv => OneHome
<1>1. ASSUME TypeInv, HomesInv, NEW e \in InEps
      PROVE  Homes(e) <= 1
  <2> DEFINE q == {i \in DOMAIN inEpFifo : inEpFifo[i] = e}
  <2>1. polls[e] \in {0, 1} /\ e # 0
    BY <1>1, EndpointsAssumption DEF EndpointsOK, HomesInv, Distinct
  <2>2. /\ polls[e] = 1 => inPending # e /\ q = {}
        /\ inPending = e => q = {}
    BY <1>1 DEF HomesInv, Distinct
  <2>3. q = {} \/ \E i : q = {i}
    BY <1>1 DEF HomesInv, Distinct
  <2>4. Homes(e) = polls[e] + Cardinality(q) + (IF inPending = e THEN 1 ELSE 0)
    BY DEF Homes
  <2> HIDE DEF q
  <2>5. CASE q = {}
    <3>1. Cardinality(q) = 0
      BY <2>5, FS_EmptySet
    <3>2. ~(polls[e] = 1 /\ inPending = e)
      BY <2>2
    <3>3. QED
      BY <2>1, <2>4, <3>1, <3>2
  <2>6. CASE \E i : q = {i}
    <3>1. Cardinality(q) = 1
      BY <2>6, FS_Singleton
    <3>2. q # {}
      BY <2>6
    <3>3. polls[e] = 0 /\ inPending # e
      BY <2>1, <2>2, <3>2
    <3>4. QED
      BY <2>4, <3>1, <3>3
  <2>7. QED
    BY <2>3, <2>5, <2>6
<1>2. QED
  BY <1>1 DEF OneHome

\* The proxy never polls an endpoint whose report it still holds, and never
\* queues a report twice (usb_read_callback, process_packet in proxy.c).
THEOREM OneHomeEach == Spec => []OneHome
BY HomesOne, AlwaysTypeInv, AlwaysHomes, PTL

LEMMA HomesRoom == TypeInv /\ HomesInv => RoomForReport
<1>1. ASSUME TypeInv, HomesInv, NEW e \in InEps, polls[e] > 0
      PROVE  Len(inEpFifo) < MaxEndpoints
  <2> DEFINE n == Len(inEpFifo)
             others == InEps \ {e}
  <2>1. inEpFifo \in Seq(InEps) /\ n \in Nat /\ DOMAIN inEpFifo = 1..n
    BY <1>1, LenProperties DEF TypeInv, TypeOK, ProxyTypeOK
  <2>2. polls[e] = 1
    BY <1>1 DEF HomesInv, Distinct
  <2>3. \A i \in 1..n : inEpFifo[i] \in others
    BY <1>1, <2>1, <2>2, ElementOfSeq DEF HomesInv, Distinct
  <2>4. /\ IsFiniteSet(others) /\ Cardinality(others) = Cardinality(InEps) - 1
        /\ Cardinality(InEps) \in Nat
    BY EndpointsAssumption, FS_RemoveElement, FS_CardinalityType DEF EndpointsOK
  <2>5. IsFiniteSet(1..n) /\ Cardinality(1..n) = n
    <3>1. 1 \in Int /\ n \in Int
      BY <2>1
    <3>2. IsFiniteSet(1..n) /\ Cardinality(1..n) = IF 1 > n THEN 0 ELSE n - 1 + 1
      BY <3>1, FS_Interval
    <3>3. QED
      BY <2>1, <3>2
  <2>6. ~(Cardinality(others) < n)
    <3> SUFFICES ASSUME Cardinality(others) < n PROVE FALSE
      OBVIOUS
    <3>1. inEpFifo \in [1..n -> others]
      BY <2>1, <2>3
    <3>2. \E i, j \in 1..n : i # j /\ inEpFifo[i] = inEpFifo[j]
      BY <2>4, <2>5, <3>1, FS_PigeonHole
    <3>3. QED
      BY <1>1, <2>1, <3>2 DEF HomesInv, Distinct
  <2> HIDE DEF n, others
  <2>7. n < MaxEndpoints
    BY <2>1, <2>4, <2>6, CapacityAssumption DEF CapacityOK
  <2>8. QED
    BY <2>7 DEF n
<1>2. QED
  BY <1>1 DEF RoomForReport

\* queue_in_packet (proxy.c) never finds inEpFifo full: MAX_ENDPOINTS is enough
\* for all the endpoints that are proxied, and the one that is read is not in it.
THEOREM RoomAlways == Spec => []RoomForReport
BY HomesRoom, AlwaysTypeInv, AlwaysHomes, PTL
=============================================================================
