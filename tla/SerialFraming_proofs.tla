------------------------ MODULE SerialFraming_proofs ------------------------
(***************************************************************************)
(* Theorems about SerialFraming, for every size of bytes, packets, tables  *)
(* and answers, and however many packets are sent. The bytes of a line are *)
(* cut into packets at places that exist (Framed); the invariant WholeInv  *)
(* says that both readers are at such a place, that the proxy sends its    *)
(* tables in order and piece by piece, and that the main loop is silent    *)
(* until they have been taken.                                             *)
(***************************************************************************)
EXTENDS Integers, SerialFraming, SequenceTheorems, TLAPS

-----------------------------------------------------------------------------
(* Bytes and frames. *)

LEMMA TypesAreBytes ==
    /\ Byte \subseteq Nat
    /\ Received \subseteq Byte
    /\ {IN_REPORT, OUT_PACKET, DEBUG, CONTROL, CONTROL_STALL, RESET} \subseteq Byte
    /\ StartupTypes \subseteq Received \ {RESET}
BY SizesAssumption
   DEF Byte, Received, StartupTypes, DESCRIPTORS, INDEX, ENDPOINTS, RESET, CONTROL,
       CONTROL_STALL, IN_REPORT, OUT_PACKET, DEBUG

LEMMA WrapType ==
    ASSUME NEW n \in Nat
    PROVE  n % ByteValues \in Byte
<1>1. ByteValues \in Nat /\ ByteValues > 0
  BY SizesAssumption DEF DEBUG
<1>2. QED
  BY <1>1 DEF Byte

LEMMA DataType ==
    ASSUME NEW n \in Nat
    PROVE  Data(n) \in Seq(Byte) /\ Len(Data(n)) = n
<1>1. Data(n) \in [1..n -> Byte]
  BY WrapType DEF Data
<1>2. QED
  BY <1>1, SeqDef, LenProperties

LEMMA FrameType ==
    ASSUME NEW type \in Byte, NEW value \in Seq(Byte)
    PROVE  Fr(type, value) \in Frame
BY DEF Fr, Frame

LEMMA BytesType ==
    ASSUME NEW f \in Frame
    PROVE  Bytes(f) \in Seq(Byte)
<1>1. f.type \in Byte /\ f.value \in Seq(Byte)
  BY DEF Frame
<1>2. Len(f.value) % ByteValues \in Byte
  BY <1>1, WrapType, LenProperties
<1>3. <<f.type, Len(f.value) % ByteValues>> \in Seq(Byte)
  BY <1>1, <1>2
<1>4. QED
  BY <1>1, <1>3, ConcatProperties DEF Bytes

LEMMA SliceType ==
    ASSUME NEW S, NEW s \in Seq(S), NEW m \in Nat \ {0}, NEW n \in Nat, n <= Len(s)
    PROVE  /\ SubSeq(s, m, n) \in Seq(S)
           /\ Len(SubSeq(s, m, n)) = IF m <= n THEN n - m + 1 ELSE 0
           /\ \A i \in 1..n - m + 1 : SubSeq(s, m, n)[i] = s[m + i - 1]
<1>1. Len(s) \in Nat
  BY LenProperties
<1>2. \A i \in m..n : s[i] \in S
  BY <1>1, ElementOfSeq
<1>3. QED
  BY <1>2, SubSeqProperties

-----------------------------------------------------------------------------
(* Type correctness. *)

\* The interrupt waits for bytes of a value only in a packet that has one.
\* That readSize is a natural number needs ReadWithinPacket: what is left of a
\* packet is a difference.
Inv ==
    /\ TypeOK
    /\ ReadWithinPacket
    /\ isr.stage = "value" => isr.type \in Received \ {RESET} /\ isr.left > 0

LEMMA InitInv == Init => Inv
<1> SUFFICES ASSUME Init PROVE Inv
  OBVIOUS
<1>1. TableSize[DESCRIPTORS] \in Nat /\ DESCRIPTORS \in Byte /\ 0 \in Byte
  BY TrafficAssumption, TypesAreBytes DEF StartupTypes, DESCRIPTORS
<1>2. sending \in [mode : SendingModes, type : Byte, rest : Seq(Byte)]
  BY <1>1, DataType DEF Init, Sending, SendingModes
<1>3. isr \in [stage : Stages, type : Byte, left : Byte, value : Seq(Byte)]
  BY <1>1 DEF Init, Waiting, Stages
<1>4. stored \in [Received -> Seq(Byte)]
  BY DEF Init
<1>5. isr.stage # "value"
  BY DEF Init, Waiting
<1>6. tx \in Seq(Byte) /\ up \in Seq(Byte) /\ down \in Seq(Byte) /\ packet \in Seq(Byte)
  BY DEF Init
<1>7. spoken \in Seq(Frame) /\ heard \in Seq(Frame) /\ said \in Seq(Frame) /\ taken \in Seq(Frame)
  BY DEF Init
<1>8. readSize = 0 /\ packet = <<>> /\ oversized = FALSE /\ cut = FALSE /\ started = FALSE
  BY DEF Init
<1>9. QED
  BY <1>2, <1>3, <1>4, <1>5, <1>6, <1>7, <1>8 DEF Inv, TypeOK, ReadWithinPacket

LEMMA ReactionType ==
    ASSUME TypeOK, NEW type
    PROVE  Reaction(type) \in [mode : SendingModes, type : Byte, rest : Seq(Byte)]
<1>1. TableSize[INDEX] \in Nat /\ TableSize[ENDPOINTS] \in Nat
  BY TrafficAssumption DEF StartupTypes
<1>2. Data(TableSize[INDEX]) \in Seq(Byte) /\ Data(TableSize[ENDPOINTS]) \in Seq(Byte)
  BY <1>1, DataType
<1>3. INDEX \in Byte /\ ENDPOINTS \in Byte
  BY TypesAreBytes DEF Received, StartupTypes
<1>4. [sending EXCEPT !.mode = "leaving"] \in [mode : SendingModes, type : Byte, rest : Seq(Byte)]
  BY DEF TypeOK, SendingModes
<1>5. QED
  BY <1>2, <1>3, <1>4 DEF Reaction, Sending, SendingModes, TypeOK

LEMMA WriteInv ==
    ASSUME Inv, WritePacket
    PROVE  Inv'
<1> DEFINE length == Min2(MaxValue, Len(sending.rest))
           f == Fr(sending.type, SubSeq(sending.rest, 1, length))
           rest == SubSeq(sending.rest, length + 1, Len(sending.rest))
<1>1. sending.rest \in Seq(Byte) /\ sending.type \in Byte /\ Len(sending.rest) \in Nat
  BY LenProperties DEF Inv, TypeOK
<1>2. length \in Nat /\ length <= Len(sending.rest)
  BY <1>1, SizesAssumption DEF Min2
<1>3. f \in Frame
  <2>1. SubSeq(sending.rest, 1, length) \in Seq(Byte)
    BY <1>1, <1>2, SliceType
  <2>2. QED
    BY <1>1, <2>1, FrameType
<1>4. rest \in Seq(Byte)
  BY <1>1, <1>2, SliceType
<1>5. Bytes(f) \in Seq(Byte) /\ Len(Bytes(f)) = HeaderSize + length
  <2>1. f.value \in Seq(Byte) /\ Len(f.value) = length
    BY <1>1, <1>2, SliceType DEF Fr
  <2>2. <<f.type, Len(f.value) % ByteValues>> \in Seq({f.type, Len(f.value) % ByteValues})
    OBVIOUS
  <2>3. Bytes(f) \in Seq(Byte)
    BY <1>3, BytesType
  <2>4. QED
    <3> DEFINE h == <<f.type, Len(f.value) % ByteValues>>
               S == Byte \cup {f.type, Len(f.value) % ByteValues}
    <3>1. h \in Seq(S) /\ Len(h) = 2
      OBVIOUS
    <3>2. f.value \in Seq(S)
      BY <2>1
    <3>3. Len(h \o f.value) = Len(h) + Len(f.value)
      BY <3>1, <3>2, ConcatProperties
    <3>4. QED
      BY <2>1, <2>3, <3>1, <3>3 DEF Bytes, HeaderSize
<1>6. PICK outcome \in Outcomes :
         /\ \/ down' = down \o Bytes(f) /\ cut' = cut
            \/ (\E n \in 0..HeaderSize + length - 1 : down' = down \o SubSeq(Bytes(f), 1, n)) /\ cut' = TRUE
            \/ down' = down /\ cut' = cut
         /\ said' = IF outcome = "fails" THEN said ELSE Append(said, f)
         /\ sending' = [sending EXCEPT
               !.rest = rest,
               !.mode = IF outcome # "fails" /\ rest # <<>> THEN "going"
                        ELSE After(sending.type, outcome = "fails")]
  BY DEF WritePacket, WriteSome
<1>7. down' \in Seq(Byte) /\ cut' \in BOOLEAN
  <2>1. down \in Seq(Byte) /\ cut \in BOOLEAN
    BY DEF Inv, TypeOK
  <2>2. \A n \in 0..HeaderSize + length - 1 : SubSeq(Bytes(f), 1, n) \in Seq(Byte)
    BY <1>2, <1>5, SliceType DEF HeaderSize
  <2>3. QED
    BY <1>5, <1>6, <2>1, <2>2, ConcatProperties
<1>8. said' \in Seq(Frame)
  BY <1>3, <1>6, AppendProperties DEF Inv, TypeOK
<1>9. sending' \in [mode : SendingModes, type : Byte, rest : Seq(Byte)]
  BY <1>1, <1>4, <1>6 DEF Inv, TypeOK, After, SendingModes
<1>10. UNCHANGED <<upVars, isrVars>>
  BY DEF WritePacket, WriteSome
<1>11. QED
  BY <1>7, <1>8, <1>9, <1>10 DEF Inv, TypeOK, ReadWithinPacket, Remaining, upVars, isrVars

LEMMA AnswerInv ==
    ASSUME Inv, Answer \/ Leave
    PROVE  Inv'
<1>1. ASSUME Answer
      PROVE  sending' \in [mode : SendingModes, type : Byte, rest : Seq(Byte)]
  <2>1. PICK t \in {CONTROL, CONTROL_STALL, IN_REPORT}, n \in ReplySizes : sending' = Sending(t, Data(n))
    BY <1>1 DEF Answer
  <2>2. n \in Nat
    BY TrafficAssumption, SizesAssumption
  <2>3. t \in Byte
    BY TypesAreBytes
  <2>4. QED
    BY <2>1, <2>2, <2>3, DataType DEF Sending, SendingModes
<1>2. ASSUME Leave
      PROVE  sending' \in [mode : SendingModes, type : Byte, rest : Seq(Byte)]
  BY <1>2, TypesAreBytes DEF Leave, Sending, SendingModes
<1>3. UNCHANGED <<upVars, said, cut, down, isrVars>>
  BY DEF Answer, Leave
<1>4. QED
  BY <1>1, <1>2, <1>3 DEF Inv, TypeOK, ReadWithinPacket, Remaining, upVars, isrVars

\* What a call of read_callback has: n bytes, and the packet with them.
LEMMA ReadStep ==
    ASSUME Inv, Read
    PROVE  \E n \in Nat :
              /\ n <= Len(up) /\ n <= readSize
              /\ n = 0 => readSize = 0
              /\ up' = SubSeq(up, n + 1, Len(up))
              /\ Overrun(n) \/ ReadPart(n) \/ ReadLast(n)
              /\ packet \o SubSeq(up, 1, n) \in Seq(Byte)
              /\ Len(packet \o SubSeq(up, 1, n)) = Len(packet) + n
              /\ Len(packet) >= HeaderSize => (packet \o SubSeq(up, 1, n))[2] = packet[2]
<1>1. up \in Seq(Byte) /\ Len(up) \in Nat /\ readSize \in Nat /\ packet \in Seq(Byte) /\ Len(packet) \in Nat
  BY LenProperties DEF Inv, TypeOK
<1>2. PICK n \in IF readSize = 0 THEN {0} ELSE 1..Min2(readSize, Len(up)) :
         /\ Overrun(n) \/ ReadPart(n) \/ ReadLast(n)
         /\ up' = SubSeq(up, n + 1, Len(up))
  BY DEF Read, ReadUpTo
<1>3. n \in Nat /\ n <= Len(up) /\ n <= readSize /\ (n = 0 => readSize = 0)
  BY <1>1, <1>2 DEF Min2
<1>4. SubSeq(up, 1, n) \in Seq(Byte) /\ Len(SubSeq(up, 1, n)) = n
  BY <1>1, <1>3, SliceType
<1>5. /\ packet \o SubSeq(up, 1, n) \in Seq(Byte)
      /\ Len(packet \o SubSeq(up, 1, n)) = Len(packet) + n
      /\ \A i \in 1..Len(packet) + n :
            (packet \o SubSeq(up, 1, n))[i] = IF i <= Len(packet) THEN packet[i]
                                              ELSE SubSeq(up, 1, n)[i - Len(packet)]
  BY <1>1, <1>4, ConcatProperties
<1>6. Len(packet) >= HeaderSize => (packet \o SubSeq(up, 1, n))[2] = packet[2]
  BY <1>1, <1>3, <1>5 DEF HeaderSize
<1>7. QED
  BY <1>2, <1>3, <1>5, <1>6

\* What was left before the n bytes is n more than what is left after them, and
\* the length is in the header when they complete it.
LEMMA RemainingAfter ==
    ASSUME NEW p \in Seq(Byte), NEW q \in Seq(Byte), NEW n \in Nat,
           Len(q) = Len(p) + n,
           Len(p) >= HeaderSize => q[2] = p[2],
           n <= Remaining(p)
    PROVE  Remaining(q) \in Nat
<1>1. Len(p) \in Nat /\ Len(q) \in Nat
  BY LenProperties
<1>2. CASE Len(q) < HeaderSize
  BY <1>1, <1>2 DEF Remaining, HeaderSize
<1>3. CASE Len(p) < HeaderSize /\ Len(q) >= HeaderSize
  <2>1. Len(q) = HeaderSize
    BY <1>1, <1>3 DEF Remaining, HeaderSize
  <2>2. q[2] \in Nat
    <3>1. 2 \in 1..Len(q)
      BY <2>1 DEF HeaderSize
    <3>2. q[2] \in Byte
      BY <3>1, ElementOfSeq
    <3>3. QED
      BY <3>2, TypesAreBytes
  <2>3. QED
    BY <2>1, <2>2 DEF Remaining, HeaderSize
<1>4. CASE Len(p) >= HeaderSize
  <2>1. p[2] \in Nat /\ q[2] = p[2]
    <3>1. 2 \in 1..Len(p)
      BY <1>1, <1>4 DEF HeaderSize
    <3>2. p[2] \in Byte
      BY <3>1, ElementOfSeq
    <3>3. QED
      BY <1>4, <3>2, TypesAreBytes
  <2>2. Remaining(q) = Remaining(p) - n
    BY <1>1, <1>4, <2>1 DEF Remaining, HeaderSize
  <2>3. Remaining(p) \in Int
    BY <1>1, <1>4, <2>1 DEF Remaining, HeaderSize
  <2>4. QED
    BY <2>2, <2>3
<1>5. QED
  BY <1>1, <1>2, <1>3, <1>4 DEF HeaderSize

LEMMA ReadInv ==
    ASSUME Inv, Read
    PROVE  Inv'
<1>1. PICK n \in Nat :
         /\ n <= Len(up) /\ n <= readSize
         /\ n = 0 => readSize = 0
         /\ up' = SubSeq(up, n + 1, Len(up))
         /\ Overrun(n) \/ ReadPart(n) \/ ReadLast(n)
         /\ packet \o SubSeq(up, 1, n) \in Seq(Byte)
         /\ Len(packet \o SubSeq(up, 1, n)) = Len(packet) + n
         /\ Len(packet) >= HeaderSize => (packet \o SubSeq(up, 1, n))[2] = packet[2]
  BY ReadStep
<1> DEFINE p == packet \o SubSeq(up, 1, n)
<1>2. up' \in Seq(Byte)
  BY <1>1, SliceType, LenProperties DEF Inv, TypeOK
<1>3. /\ packet \in Seq(Byte) /\ readSize \in Nat /\ heard \in Seq(Frame)
      /\ sending \in [mode : SendingModes, type : Byte, rest : Seq(Byte)]
  BY DEF Inv, TypeOK
<1>4. n <= Remaining(packet)
  <2>1. CASE readSize = 0 /\ packet = <<>>
    BY <1>1, <2>1 DEF Remaining, HeaderSize
  <2>2. CASE readSize > 0 /\ readSize = Remaining(packet)
    BY <1>1, <2>2
  <2>3. QED
    BY <2>1, <2>2 DEF Inv, ReadWithinPacket
<1>5. Remaining(p) \in Nat
  BY <1>1, <1>3, <1>4, RemainingAfter
<1>6. /\ packet' \in Seq(Byte) /\ readSize' \in Nat /\ heard' \in Seq(Frame)
      /\ sending' \in [mode : SendingModes, type : Byte, rest : Seq(Byte)]
      /\ ReadWithinPacket'
  <2>1. CASE Overrun(n)
    BY <2>1 DEF Overrun, Inv, TypeOK, ReadWithinPacket, Remaining
  <2>2. CASE ReadPart(n)
    <3>1. packet' = p /\ readSize' = Remaining(p) /\ Remaining(p) # 0 /\ UNCHANGED <<heard, sending>>
      BY <2>2 DEF ReadPart
    <3>2. readSize' > 0 /\ readSize' = Remaining(packet')
      BY <1>5, <3>1
    <3>3. ReadWithinPacket'
      BY <3>2 DEF ReadWithinPacket, Remaining
    <3>4. QED
      <4>1. packet' \in Seq(Byte)
        BY <1>1, <3>1
      <4>2. readSize' \in Nat
        BY <1>5, <3>1
      <4>3. heard' \in Seq(Frame) /\ sending' \in [mode : SendingModes, type : Byte, rest : Seq(Byte)]
        BY <1>3, <3>1
      <4>4. QED
        BY <3>3, <4>1, <4>2, <4>3
  <2>3. CASE ReadLast(n)
    <3>1. /\ Remaining(p) = 0
          /\ heard' = Append(heard, Fr(p[1], SubSeq(p, HeaderSize + 1, Len(p))))
          /\ sending' = Reaction(p[1])
          /\ packet' = <<>>
          /\ readSize' = HeaderSize
      BY <2>3 DEF ReadLast
    <3>2. Len(p) \in Nat /\ Len(p) >= HeaderSize
      BY <1>1, <3>1, LenProperties DEF Remaining, HeaderSize
    <3>3. p[1] \in Byte
      BY <1>1, <3>2, ElementOfSeq DEF HeaderSize
    <3>4. SubSeq(p, HeaderSize + 1, Len(p)) \in Seq(Byte)
      BY <1>1, <3>2, SliceType DEF HeaderSize
    <3>5. Fr(p[1], SubSeq(p, HeaderSize + 1, Len(p))) \in Frame
      BY <3>3, <3>4, FrameType
    <3>6. heard' \in Seq(Frame)
      BY <1>3, <3>1, <3>5, AppendProperties
    <3>7. sending' \in [mode : SendingModes, type : Byte, rest : Seq(Byte)]
      BY <3>1, ReactionType DEF Inv
    <3>8. ReadWithinPacket'
      BY <3>1 DEF ReadWithinPacket, Remaining, HeaderSize
    <3>9. packet' \in Seq(Byte) /\ readSize' \in Nat
      <4>1. packet' = <<>> /\ readSize' = 2
        BY <3>1 DEF HeaderSize
      <4>2. QED
        BY <4>1
    <3>10. QED
      BY <3>6, <3>7, <3>8, <3>9
  <2>4. QED
    BY <1>1, <2>1, <2>2, <2>3
<1>7. UNCHANGED <<tx, spoken, oversized, said, cut, down, isrVars>>
  BY DEF Read, ReadUpTo
<1>8. QED
  BY <1>2, <1>6, <1>7 DEF Inv, TypeOK, isrVars

LEMMA MainInv ==
    ASSUME Inv, BeginPacket \/ SendByte
    PROVE  Inv'
<1>1. ASSUME BeginPacket
      PROVE  Inv'
  <2>1. PICK f \in Frame : Speak(f)
    <3>1. IN_REPORT \in Byte /\ OUT_PACKET \in Byte /\ CONTROL \in Byte /\ DEBUG \in Byte
      BY TypesAreBytes
    <3>2. \A n \in OutSizes \cup RequestSizes : n \in Nat
      BY SizesAssumption, TrafficAssumption DEF RequestSizes
    <3>3. /\ Fr(IN_REPORT, <<>>) \in Frame
          /\ Fr(DEBUG, Data(SetupSize)) \in Frame
          /\ \A n \in OutSizes : Fr(OUT_PACKET, Data(n)) \in Frame
          /\ \A n \in RequestSizes : Fr(CONTROL, Data(n)) \in Frame
      <4>1. <<>> \in Seq(Byte)
        OBVIOUS
      <4>2. SetupSize \in Nat
        BY SizesAssumption
      <4>3. QED
        BY <3>1, <3>2, <4>1, <4>2, DataType, FrameType
    <3>4. QED
      BY <1>1, <3>3 DEF BeginPacket, SpeakAny
  <2>2. spoken' \in Seq(Frame)
    BY <2>1, AppendProperties DEF Speak, Inv, TypeOK
  <2>3. tx' \in Seq(Byte)
    BY <2>1, BytesType DEF Speak
  <2>4. oversized' \in BOOLEAN
    BY <2>1 DEF Speak
  <2>5. UNCHANGED <<up, packet, readSize, heard, sendVars, down, isrVars>>
    BY <2>1 DEF Speak
  <2>6. QED
    BY <2>2, <2>3, <2>4, <2>5 DEF Inv, TypeOK, ReadWithinPacket, Remaining, sendVars, isrVars
<1>2. ASSUME SendByte
      PROVE  Inv'
  <2>1. tx' \in Seq(Byte) /\ Head(tx) \in Byte
    BY <1>2, HeadTailProperties DEF SendByte, Inv, TypeOK
  <2>2. up' \in Seq(Byte)
    BY <1>2, <2>1, AppendProperties DEF SendByte, Inv, TypeOK
  <2>3. UNCHANGED <<packet, readSize, spoken, heard, oversized, sendVars, down, isrVars>>
    BY <1>2 DEF SendByte
  <2>4. QED
    BY <2>1, <2>2, <2>3 DEF Inv, TypeOK, ReadWithinPacket, Remaining, sendVars, isrVars
<1>3. QED
  BY <1>1, <1>2

\* A packet that the interrupt has completed.
LEMMA CompleteInv ==
    ASSUME Inv, NEW value \in Seq(Byte), isr.type \in Received \ {RESET},
           Complete(isr.type, value), down' \in Seq(Byte), UNCHANGED sendVars
    PROVE  Inv'
<1> DEFINE type == isr.type
<1>1. type \in Received /\ type \in Byte /\ 0 \in Byte
  BY TypesAreBytes DEF Received, DESCRIPTORS, IN_REPORT
<1>2. isr' \in [stage : Stages, type : Byte, left : Byte, value : Seq(Byte)] /\ isr'.stage # "value"
  BY <1>1 DEF Complete, Waiting, Stages
<1>3. stored' \in [Received -> Seq(Byte)]
  <2>1. stored[type] \o value \in Seq(Byte)
    BY <1>1, ConcatProperties DEF Inv, TypeOK
  <2>2. QED
    BY <1>1, <2>1 DEF Complete, Inv, TypeOK
<1>4. taken' \in Seq(Frame)
  BY <1>1, FrameType, AppendProperties DEF Complete, Inv, TypeOK
<1>5. started' \in BOOLEAN
  BY DEF Complete, Inv, TypeOK
<1>6. up' \in Seq(Byte) /\ spoken' \in Seq(Frame)
  <2>1. Fr(type, <<>>) \in Frame
    <3>1. <<>> \in Seq(Byte)
      OBVIOUS
    <3>2. QED
      BY <1>1, <3>1, FrameType
  <2>2. Bytes(Fr(type, <<>>)) \in Seq(Byte)
    BY <2>1, BytesType
  <2>3. up \o Bytes(Fr(type, <<>>)) \in Seq(Byte) /\ Append(spoken, Fr(type, <<>>)) \in Seq(Frame)
    BY <2>1, <2>2, ConcatProperties, AppendProperties DEF Inv, TypeOK
  <2>4. QED
    BY <2>3 DEF Complete, Inv, TypeOK
<1>7. UNCHANGED <<tx, packet, readSize, heard, oversized>>
  BY DEF Complete
<1>8. QED
  BY <1>2, <1>3, <1>4, <1>5, <1>6, <1>7
     DEF Inv, TypeOK, ReadWithinPacket, Remaining, sendVars

\* A byte after which the interrupt waits for the next one.
LEMMA WaitInv ==
    ASSUME Inv, down' \in Seq(Byte), UNCHANGED <<upVars, stored, started, sendVars>>,
           isr' \in [stage : Stages, type : Byte, left : Byte, value : Seq(Byte)],
           isr'.stage = "value" => isr'.type \in Received \ {RESET} /\ isr'.left > 0,
           taken' \in Seq(Frame)
    PROVE  Inv'
BY DEF Inv, TypeOK, ReadWithinPacket, Remaining, upVars, sendVars

LEMMA RxInv ==
    ASSUME Inv, RxByte
    PROVE  Inv'
<1>1. down \in Seq(Byte) /\ down # <<>>
  BY DEF RxByte, Inv, TypeOK
<1>2. Head(down) \in Byte /\ down' \in Seq(Byte)
  BY <1>1, HeadTailProperties DEF RxByte
<1>3. UNCHANGED sendVars
  BY DEF RxByte
<1>4. 0 \in Byte /\ RESET \in Byte /\ Byte \subseteq Nat
  BY TypesAreBytes DEF Received, DESCRIPTORS, IN_REPORT
<1>5. isr \in [stage : Stages, type : Byte, left : Byte, value : Seq(Byte)] /\ taken \in Seq(Frame)
  BY DEF Inv, TypeOK
<1>6. ASSUME RxType
      PROVE  Inv'
  <2>1. UNCHANGED <<upVars, stored, started, taken>>
    BY <1>6 DEF RxType
  <2>2. /\ isr' \in [stage : Stages, type : Byte, left : Byte, value : Seq(Byte)]
        /\ isr'.stage # "value"
    <3>1. isr' = [stage |-> "length", type |-> Head(down), left |-> 0, value |-> <<>>]
      BY <1>6 DEF RxType, Waiting
    <3>2. QED
      BY <1>2, <1>4, <3>1 DEF Stages
  <2>3. QED
    BY <1>2, <1>3, <1>5, <2>1, <2>2, WaitInv DEF upVars
<1>7. ASSUME RxLength
      PROVE  Inv'
  <2>1. CASE isr.type \notin Received
    <3>1. isr' = Waiting("idle") /\ UNCHANGED <<upVars, stored, started, taken>>
      BY <1>7, <2>1, TypesAreBytes DEF RxLength, Received, RESET, DESCRIPTORS, IN_REPORT
    <3>2. /\ isr' \in [stage : Stages, type : Byte, left : Byte, value : Seq(Byte)]
          /\ isr'.stage # "value"
      BY <1>4, <3>1 DEF Waiting, Stages
    <3>3. QED
      BY <1>2, <1>3, <1>5, <3>1, <3>2, WaitInv DEF upVars
  <2>2. CASE isr.type = RESET
    <3>1. /\ isr' = Waiting("reset") /\ taken' = Append(taken, Fr(RESET, <<>>))
          /\ UNCHANGED <<upVars, stored, started>>
      BY <1>7, <2>2 DEF RxLength, Received, RESET, DESCRIPTORS, IN_REPORT
    <3>2. /\ isr' \in [stage : Stages, type : Byte, left : Byte, value : Seq(Byte)]
          /\ isr'.stage # "value"
      BY <1>4, <3>1 DEF Waiting, Stages
    <3>3. taken' \in Seq(Frame)
      <4>1. Fr(RESET, <<>>) \in Frame
        <5>1. <<>> \in Seq(Byte)
          OBVIOUS
        <5>2. QED
          BY <1>4, <5>1, FrameType
      <4>2. QED
        BY <1>5, <3>1, <4>1, AppendProperties
    <3>4. QED
      BY <1>2, <1>3, <3>1, <3>2, <3>3, WaitInv DEF upVars
  <2>3. CASE isr.type \in Received \ {RESET} /\ Head(down) = 0
    <3>1. Complete(isr.type, <<>>)
      BY <1>7, <2>3 DEF RxLength
    <3>2. <<>> \in Seq(Byte)
      OBVIOUS
    <3>3. QED
      BY <1>2, <1>3, <2>3, <3>1, <3>2, CompleteInv
  <2>4. CASE isr.type \in Received \ {RESET} /\ Head(down) # 0
    <3>1. /\ isr' = [isr EXCEPT !.stage = "value", !.left = Head(down)]
          /\ UNCHANGED <<upVars, stored, started, taken>>
      BY <1>7, <2>4 DEF RxLength
    <3>2. /\ isr' \in [stage : Stages, type : Byte, left : Byte, value : Seq(Byte)]
          /\ isr'.type \in Received \ {RESET} /\ isr'.left > 0
      <4>1. Head(down) > 0
        <5>1. Head(down) \in Nat
          BY <1>2, <1>4
        <5>2. QED
          BY <2>4, <5>1
      <4>2. QED
        BY <1>2, <1>5, <2>4, <3>1, <4>1 DEF Stages
    <3>3. QED
      BY <1>2, <1>3, <1>5, <3>1, <3>2, WaitInv DEF upVars
  <2>5. QED
    BY <2>1, <2>2, <2>3, <2>4
<1>8. ASSUME RxValue
      PROVE  Inv'
  <2>1. isr.stage = "value" /\ isr.type \in Received \ {RESET} /\ isr.left > 0
    BY <1>8 DEF RxValue, Inv
  <2>2. Append(isr.value, Head(down)) \in Seq(Byte)
    BY <1>2, <1>5, AppendProperties
  <2>3. CASE isr.left = 1 /\ Complete(isr.type, Append(isr.value, Head(down)))
    BY <1>2, <1>3, <2>1, <2>2, <2>3, CompleteInv
  <2>4. CASE /\ isr.left # 1
             /\ isr' = [isr EXCEPT !.left = @ - 1, !.value = Append(isr.value, Head(down))]
             /\ UNCHANGED <<upVars, stored, started, taken>>
    <3>1. isr.left - 1 \in Byte /\ isr.left - 1 > 0
      <4>1. isr.left \in Byte
        BY <1>5
      <4>2. QED
        BY <2>1, <2>4, <4>1, SizesAssumption DEF Byte
    <3>2. /\ isr' \in [stage : Stages, type : Byte, left : Byte, value : Seq(Byte)]
          /\ isr'.type \in Received \ {RESET} /\ isr'.left > 0
      BY <1>5, <2>1, <2>2, <2>4, <3>1
    <3>3. QED
      BY <1>2, <1>3, <1>5, <2>4, <3>2, WaitInv DEF upVars
  <2>5. QED
    BY <1>8, <2>3, <2>4 DEF RxValue
<1>9. QED
  BY <1>6, <1>7, <1>8 DEF RxByte

LEMMA StepInv == Inv /\ [Next]_vars => Inv'
<1> SUFFICES ASSUME Inv, [Next]_vars PROVE Inv'
  OBVIOUS
<1>1. CASE UNCHANGED vars
  BY <1>1 DEF Inv, TypeOK, ReadWithinPacket, Remaining, vars, upVars, sendVars, isrVars
<1>2. CASE Next
  BY <1>2, WriteInv, AnswerInv, ReadInv, MainInv, RxInv DEF Next
<1>3. QED
  BY <1>1, <1>2

\* The bytes of both directions are bytes, the packets built of them and taken
\* from them are packets (adapter.c, emu.c:90-129), and the interrupt never
\* counts below 0.
THEOREM FramingTypeCorrect == Spec => []TypeOK
<1>1. Inv => TypeOK
  BY DEF Inv
<1>2. QED
  BY <1>1, InitInv, StepInv, PTL DEF Spec

\* The size that adapter_recv asks of the next read is never more than what the
\* packet that is being read still has, whatever the sizes of the packets and
\* of the reads (adapter.c:63-81).
THEOREM FramingReadsWithinPacket == Spec => []ReadWithinPacket
<1>1. Inv => ReadWithinPacket
  BY DEF Inv
<1>2. QED
  BY <1>1, InitInv, StepInv, PTL DEF Spec

-----------------------------------------------------------------------------
(* A stream of bytes that is cut into packets. *)

LEMMA BytesOf ==
    ASSUME NEW f \in Frame
    PROVE  /\ Bytes(f) \in Seq(Byte)
           /\ f.value \in Seq(Byte) /\ Len(f.value) \in Nat
           /\ Len(Bytes(f)) = HeaderSize + Len(f.value)
           /\ Bytes(f)[1] = f.type
           /\ Bytes(f)[2] = Len(f.value) % ByteValues
           /\ \A j \in 1..Len(f.value) : Bytes(f)[HeaderSize + j] = f.value[j]
<1> DEFINE h == <<f.type, Len(f.value) % ByteValues>>
<1>1. f.type \in Byte /\ f.value \in Seq(Byte)
  BY DEF Frame
<1>2. Len(f.value) \in Nat /\ Len(f.value) % ByteValues \in Byte
  BY <1>1, WrapType, LenProperties
<1>3. h \in Seq(Byte) /\ Len(h) = 2 /\ h[1] = f.type /\ h[2] = Len(f.value) % ByteValues
  BY <1>1, <1>2
<1>4. /\ Bytes(f) \in Seq(Byte)
      /\ Len(Bytes(f)) = 2 + Len(f.value)
      /\ \A i \in 1..2 + Len(f.value) : Bytes(f)[i] = IF i <= 2 THEN h[i] ELSE f.value[i - 2]
  BY <1>1, <1>3, ConcatProperties DEF Bytes
<1>5. Bytes(f)[1] = f.type /\ Bytes(f)[2] = Len(f.value) % ByteValues
  BY <1>2, <1>3, <1>4
<1>6. \A j \in 1..Len(f.value) : Bytes(f)[2 + j] = f.value[j]
  BY <1>2, <1>4
<1>7. QED
  BY <1>1, <1>2, <1>4, <1>5, <1>6 DEF HeaderSize

Fits(f) == Len(f.value) <= MaxValue

LEMMA LengthByte ==
    ASSUME NEW f \in Frame, Fits(f)
    PROVE  Bytes(f)[2] = Len(f.value)
<1>1. Len(f.value) \in Nat /\ Bytes(f)[2] = Len(f.value) % ByteValues
  BY BytesOf
<1>2. ByteValues \in Nat /\ MaxValue \in Nat /\ MaxValue < ByteValues
  BY SizesAssumption
<1>3. Len(f.value) < ByteValues
  BY <1>1, <1>2 DEF Fits
<1>4. \A a, b \in Nat : a < b => a % b = a
  <2> SUFFICES ASSUME NEW a \in Nat, NEW b \in Nat, a < b
               PROVE  a % b = a
    OBVIOUS
  <2>1. a % b \in 0..b - 1 /\ a \div b \in Int /\ a = b * (a \div b) + (a % b)
    OBVIOUS
  <2>2. \A d \in Int : d >= 1 => b * d >= b
    OBVIOUS
  <2>3. \A d \in Int : d <= -1 => b * d <= -b
    OBVIOUS
  <2>4. a \div b = 0
    BY <2>1, <2>2, <2>3
  <2>5. QED
    BY <2>1, <2>4
<1>5. Len(f.value) % ByteValues = Len(f.value)
  BY <1>1, <1>2, <1>3, <1>4
<1>6. QED
  BY <1>1, <1>5

\* The packets of s after the first h end at these places of u.
Marks(at, u, s, h) ==
    /\ at \in [h..Len(s) -> Nat]
    /\ at[h] = 0 /\ at[Len(s)] = Len(u)
    /\ \A i, j \in h..Len(s) : i <= j => at[i] <= at[j]
    /\ \A i \in h + 1..Len(s) :
          /\ at[i] = at[i - 1] + Len(Bytes(s[i]))
          /\ \A j \in 1..Len(Bytes(s[i])) : u[at[i - 1] + j] = Bytes(s[i])[j]

\* u consists of the packets of s after the first h.
Framed(u, s, h) == h <= Len(s) /\ \E at : Marks(at, u, s, h)

LEMMA FramedNone ==
    ASSUME NEW s \in Seq(Frame)
    PROVE  Framed(<<>>, s, Len(s))
<1>1. Len(s) \in Nat
  BY LenProperties
<1>2. Marks([i \in Len(s)..Len(s) |-> 0], <<>>, s, Len(s))
  BY <1>1 DEF Marks
<1>3. QED
  BY <1>1, <1>2 DEF Framed

LEMMA FramedMore ==
    ASSUME NEW u \in Seq(Byte), NEW s \in Seq(Frame), NEW f \in Frame, NEW h \in Nat,
           Framed(u, s, h)
    PROVE  Framed(u \o Bytes(f), Append(s, f), h)
<1> DEFINE n == Len(s)
           b == Bytes(f)
           t == Append(s, f)
           v == u \o b
<1>1. PICK at : Marks(at, u, s, h)
  BY DEF Framed
<1>2. n \in Nat /\ h <= n /\ Len(u) \in Nat
  BY LenProperties DEF Framed
<1>3. b \in Seq(Byte) /\ Len(b) \in Nat
  BY BytesOf, LenProperties
<1>4. Len(t) = n + 1 /\ t[n + 1] = f /\ \A i \in 1..n : t[i] = s[i]
  BY AppendProperties
<1>5. /\ Len(v) = Len(u) + Len(b)
      /\ \A i \in 1..Len(u) + Len(b) : v[i] = IF i <= Len(u) THEN u[i] ELSE b[i - Len(u)]
  BY <1>3, ConcatProperties
<1> DEFINE to == [i \in h..n + 1 |-> IF i = n + 1 THEN Len(u) + Len(b) ELSE at[i]]
<1>6. /\ at \in [h..n -> Nat]
      /\ at[h] = 0 /\ at[n] = Len(u)
      /\ \A i, j \in h..n : i <= j => at[i] <= at[j]
  BY <1>1 DEF Marks
<1>7. to \in [h..n + 1 -> Nat] /\ to[n + 1] = Len(u) + Len(b) /\ \A i \in h..n : to[i] = at[i]
  BY <1>2, <1>3, <1>6
<1>8. \A i \in h..n : at[i] \in Nat /\ at[i] <= Len(u)
  BY <1>2, <1>6
<1> HIDE DEF to, b, t, v
<1>9. \A i, j \in h..n + 1 : i <= j => to[i] <= to[j]
  <2> SUFFICES ASSUME NEW i \in h..n + 1, NEW j \in h..n + 1, i <= j
               PROVE  to[i] <= to[j]
    OBVIOUS
  <2>1. CASE j <= n
    <3>1. i \in h..n /\ j \in h..n
      BY <1>2, <2>1
    <3>2. QED
      BY <1>6, <1>7, <3>1
  <2>2. CASE j = n + 1 /\ i <= n
    <3>1. i \in h..n
      BY <1>2, <2>2
    <3>2. to[i] \in Nat /\ to[i] <= Len(u) /\ to[j] = Len(u) + Len(b)
      BY <1>7, <1>8, <2>2, <3>1
    <3>3. QED
      BY <1>2, <1>3, <3>2
  <2>3. CASE j = n + 1 /\ i = n + 1
    BY <1>2, <1>3, <1>7, <2>3
  <2>4. QED
    BY <1>2, <2>1, <2>2, <2>3
<1>10. ASSUME NEW i \in h + 1..n + 1
       PROVE  /\ to[i] = to[i - 1] + Len(Bytes(t[i]))
              /\ \A j \in 1..Len(Bytes(t[i])) : v[to[i - 1] + j] = Bytes(t[i])[j]
  <2>1. CASE i <= n
    <3>1. i \in h + 1..n /\ i \in h..n /\ i - 1 \in h..n /\ i \in 1..n
      BY <1>2, <2>1
    <3>2. /\ at[i] = at[i - 1] + Len(Bytes(s[i]))
          /\ \A j \in 1..Len(Bytes(s[i])) : u[at[i - 1] + j] = Bytes(s[i])[j]
      BY <1>1, <3>1 DEF Marks
    <3>3. t[i] = s[i] /\ to[i] = at[i] /\ to[i - 1] = at[i - 1]
      BY <1>4, <1>7, <3>1
    <3>4. at[i] <= Len(u) /\ at[i - 1] \in Nat
      BY <1>8, <3>1
    <3>5. s[i] \in Frame /\ Len(Bytes(s[i])) \in Nat
      BY <3>1, BytesOf, LenProperties, ElementOfSeq
    <3>6. ASSUME NEW j \in 1..Len(Bytes(s[i]))
          PROVE  v[at[i - 1] + j] = u[at[i - 1] + j]
      <4>1. at[i - 1] + j \in 1..Len(u) + Len(b) /\ at[i - 1] + j <= Len(u)
        BY <1>2, <1>3, <3>2, <3>4, <3>5
      <4>2. QED
        BY <1>5, <4>1
    <3>7. QED
      BY <3>2, <3>3, <3>6
  <2>2. CASE i = n + 1
    <3>1. n \in h..n /\ i - 1 = n
      BY <1>2, <2>2
    <3>2. t[i] = f /\ to[i] = Len(u) + Len(b) /\ to[i - 1] = Len(u)
      BY <1>4, <1>6, <1>7, <2>2, <3>1
    <3>3. ASSUME NEW j \in 1..Len(b)
          PROVE  v[Len(u) + j] = b[j]
      <4>1. Len(u) + j \in 1..Len(u) + Len(b) /\ ~(Len(u) + j <= Len(u)) /\ Len(u) + j - Len(u) = j
        BY <1>2, <1>3
      <4>2. QED
        BY <1>5, <4>1
    <3>4. QED
      BY <3>2, <3>3 DEF b
  <2>3. QED
    BY <1>2, <2>1, <2>2
<1>11. to[h] = 0
  BY <1>2, <1>6, <1>7
<1>12. Marks(to, v, t, h)
  BY <1>4, <1>5, <1>7, <1>9, <1>10, <1>11 DEF Marks
<1>13. h <= Len(t)
  BY <1>2, <1>4
<1>14. QED
  BY <1>12, <1>13 DEF Framed, v, t, b

\* The first packet of a stream, and the stream behind it.
LEMMA FramedFirst ==
    ASSUME NEW u \in Seq(Byte), NEW s \in Seq(Frame), NEW h \in Nat,
           Framed(u, s, h), u # <<>>
    PROVE  /\ h + 1 \in 1..Len(s)
           /\ s[h + 1] \in Frame
           /\ Len(Bytes(s[h + 1])) <= Len(u)
           /\ \A j \in 1..Len(Bytes(s[h + 1])) : u[j] = Bytes(s[h + 1])[j]
           /\ Framed(SubSeq(u, Len(Bytes(s[h + 1])) + 1, Len(u)), s, h + 1)
<1> DEFINE n == Len(s)
           b == Bytes(s[h + 1])
           m == Len(b)
           v == SubSeq(u, m + 1, Len(u))
<1>1. PICK at : Marks(at, u, s, h)
  BY DEF Framed
<1>2. n \in Nat /\ h <= n /\ Len(u) \in Nat
  BY LenProperties DEF Framed
<1>3. /\ at \in [h..n -> Nat]
      /\ at[h] = 0 /\ at[n] = Len(u)
      /\ \A i, j \in h..n : i <= j => at[i] <= at[j]
  BY <1>1 DEF Marks
<1>4. h < n
  <2>1. Len(u) # 0
    BY EmptySeq
  <2>2. h # n
    BY <1>3, <2>1
  <2>3. QED
    BY <1>2, <2>2
<1>5. h + 1 \in 1..n /\ h + 1 \in h + 1..n /\ h + 1 \in h..n /\ h \in h..n /\ n \in h..n
  BY <1>2, <1>4
<1>6. s[h + 1] \in Frame
  BY <1>5, ElementOfSeq
<1>7. b \in Seq(Byte) /\ m \in Nat
  BY <1>6, BytesOf, LenProperties
<1>8. at[h + 1] = m /\ \A j \in 1..m : u[j] = b[j]
  <2>1. /\ at[h + 1] = at[h + 1 - 1] + Len(Bytes(s[h + 1]))
        /\ \A j \in 1..Len(Bytes(s[h + 1])) : u[at[h + 1 - 1] + j] = Bytes(s[h + 1])[j]
    <3>1. \A i \in h + 1..n :
             /\ at[i] = at[i - 1] + Len(Bytes(s[i]))
             /\ \A j \in 1..Len(Bytes(s[i])) : u[at[i - 1] + j] = Bytes(s[i])[j]
      BY <1>1 DEF Marks
    <3>2. QED
      BY <1>5, <3>1
  <2>2. h + 1 - 1 = h
    OBVIOUS
  <2>3. at[h + 1] = 0 + m /\ \A j \in 1..m : u[0 + j] = b[j]
    BY <1>3, <2>1, <2>2
  <2>4. \A j \in 1..m : 0 + j = j
    OBVIOUS
  <2>5. QED
    BY <1>7, <2>3, <2>4
<1>9. m <= Len(u)
  BY <1>2, <1>3, <1>4, <1>5, <1>8
<1>10. /\ v \in Seq(Byte) /\ Len(v) = Len(u) - m
       /\ \A i \in 1..Len(u) - m : v[i] = u[m + i]
  <2>1. m + 1 \in Nat \ {0} /\ Len(u) \in Nat
    BY <1>2, <1>7
  <2>2. /\ v \in Seq(Byte)
        /\ Len(v) = IF m + 1 <= Len(u) THEN Len(u) - (m + 1) + 1 ELSE 0
        /\ \A i \in 1..Len(u) - (m + 1) + 1 : v[i] = u[m + 1 + i - 1]
    BY <2>1, SliceType
  <2>3. Len(u) - (m + 1) + 1 = Len(u) - m /\ \A i \in 1..Len(u) - m : m + 1 + i - 1 = m + i
    BY <1>2, <1>7
  <2>4. Len(v) = Len(u) - m
    <3>1. \A k, l \in Nat : k <= l => (IF k + 1 <= l THEN l - (k + 1) + 1 ELSE 0) = l - k
      OBVIOUS
    <3>2. QED
      BY <1>2, <1>7, <1>9, <2>2, <3>1
  <2>5. QED
    BY <2>2, <2>3, <2>4
<1> DEFINE to == [i \in h + 1..n |-> at[i] - m]
<1> HIDE DEF b, m, v
<1>11. \A i \in h + 1..n : i \in h..n /\ at[i] \in Nat /\ m <= at[i]
  <2> SUFFICES ASSUME NEW i \in h + 1..n
               PROVE  i \in h..n /\ at[i] \in Nat /\ m <= at[i]
    OBVIOUS
  <2>1. i \in h..n /\ h + 1 <= i
    BY <1>2
  <2>2. QED
    BY <1>3, <1>5, <1>8, <2>1
<1>12. to \in [h + 1..n -> Nat] /\ \A i \in h + 1..n : to[i] = at[i] - m
  BY <1>7, <1>11
<1> HIDE DEF to
<1>13. to[h + 1] = 0 /\ to[n] = Len(v)
  <2>1. n \in h + 1..n
    BY <1>2, <1>4
  <2>2. QED
    BY <1>2, <1>3, <1>5, <1>7, <1>8, <1>10, <1>12, <2>1
<1>14. \A i, j \in h + 1..n : i <= j => to[i] <= to[j]
  <2> SUFFICES ASSUME NEW i \in h + 1..n, NEW j \in h + 1..n, i <= j
               PROVE  to[i] <= to[j]
    OBVIOUS
  <2>1. at[i] <= at[j] /\ at[i] \in Nat /\ at[j] \in Nat
    BY <1>3, <1>11
  <2>2. QED
    BY <1>7, <1>12, <2>1
<1>15. ASSUME NEW i \in h + 2..n
       PROVE  /\ to[i] = to[i - 1] + Len(Bytes(s[i]))
              /\ \A j \in 1..Len(Bytes(s[i])) : v[to[i - 1] + j] = Bytes(s[i])[j]
  <2>1. i \in h + 1..n /\ i - 1 \in h + 1..n /\ i \in 1..n
    BY <1>2
  <2>2. /\ at[i] = at[i - 1] + Len(Bytes(s[i]))
        /\ \A j \in 1..Len(Bytes(s[i])) : u[at[i - 1] + j] = Bytes(s[i])[j]
    BY <1>1, <2>1 DEF Marks
  <2>3. s[i] \in Frame /\ Len(Bytes(s[i])) \in Nat
    BY <2>1, BytesOf, LenProperties, ElementOfSeq
  <2>4. at[i] \in Nat /\ at[i - 1] \in Nat /\ m <= at[i - 1] /\ to[i] = at[i] - m /\ to[i - 1] = at[i - 1] - m
    BY <1>11, <1>12, <2>1
  <2>5. at[i] <= Len(u)
    <3>1. i \in h..n /\ i <= n
      BY <1>11, <2>1
    <3>2. QED
      BY <1>3, <1>5, <3>1
  <2>6. ASSUME NEW j \in 1..Len(Bytes(s[i]))
        PROVE  v[to[i - 1] + j] = u[at[i - 1] + j]
    <3>1. at[i - 1] - m + j \in 1..Len(u) - m /\ m + (at[i - 1] - m + j) = at[i - 1] + j
      <4>1. /\ at[i] \in Nat /\ at[i - 1] \in Nat /\ m \in Nat /\ Len(u) \in Nat
            /\ Len(Bytes(s[i])) \in Nat
        BY <1>2, <1>7, <2>3, <2>4
      <4>2. at[i] = at[i - 1] + Len(Bytes(s[i])) /\ m <= at[i - 1] /\ at[i] <= Len(u)
        BY <2>2, <2>4, <2>5
      <4>3. PICK a \in Nat, c \in Nat, k \in Nat, l \in Nat, w \in Nat :
               a = at[i] /\ c = at[i - 1] /\ k = m /\ l = Len(Bytes(s[i])) /\ w = Len(u)
        BY <4>1
      <4>4. a = c + l /\ k <= c /\ a <= w /\ j \in 1..l
        BY <4>2, <4>3
      <4>5. c - k + j \in 1..w - k /\ k + (c - k + j) = c + j
        BY <4>4
      <4>6. QED
        BY <4>3, <4>5
    <3>2. QED
      BY <1>10, <2>4, <3>1
  <2>7. to[i] = to[i - 1] + Len(Bytes(s[i]))
    BY <1>7, <2>2, <2>3, <2>4
  <2>8. QED
    BY <2>2, <2>6, <2>7
<1>16. Marks(to, v, s, h + 1)
  <2>1. h + 1 + 1 = h + 2
    OBVIOUS
  <2>2. QED
    BY <1>12, <1>13, <1>14, <1>15, <2>1 DEF Marks
<1>17. Framed(v, s, h + 1)
  BY <1>2, <1>4, <1>16 DEF Framed
<1>18. QED
  BY <1>5, <1>6, <1>8, <1>9, <1>17 DEF b, m, v

\* The bytes of a header, at the front of a stream, are those of its first packet.
LEMMA HeaderFront ==
    ASSUME NEW p \in Seq(Byte), NEW r \in Seq(Byte), NEW s \in Seq(Frame), NEW h \in Nat,
           Framed(p \o r, s, h), p # <<>>, \A i \in DOMAIN s : Fits(s[i])
    PROVE  /\ h + 1 \in 1..Len(s) /\ s[h + 1] \in Frame
           /\ p[1] = s[h + 1].type
           /\ Len(p) >= HeaderSize => p[2] = Len(s[h + 1].value)
<1> DEFINE u == p \o r
<1>1. /\ u \in Seq(Byte) /\ Len(p) \in Nat \ {0} /\ Len(r) \in Nat
      /\ \A i \in 1..Len(p) : u[i] = p[i]
  <2>1. Len(p) \in Nat \ {0} /\ Len(r) \in Nat
    BY EmptySeq, LenProperties
  <2>2. QED
    BY <2>1, ConcatProperties
<1>2. u # <<>>
  BY <1>1, ConcatEqualIffEmpty
<1> HIDE DEF u
<1>3. /\ h + 1 \in 1..Len(s) /\ s[h + 1] \in Frame
      /\ \A j \in 1..Len(Bytes(s[h + 1])) : u[j] = Bytes(s[h + 1])[j]
  BY <1>1, <1>2, FramedFirst DEF u
<1> DEFINE f == s[h + 1]
<1>4. f \in Frame /\ Fits(f)
  BY <1>3, LenProperties
<1> HIDE DEF f
<1>5. /\ Len(Bytes(f)) = 2 + Len(f.value) /\ Len(f.value) \in Nat
      /\ Bytes(f)[1] = f.type /\ Bytes(f)[2] = Len(f.value)
  BY <1>4, BytesOf, LengthByte DEF HeaderSize
<1>6. 1 \in 1..Len(Bytes(f)) /\ 2 \in 1..Len(Bytes(f))
  BY <1>5
<1>7. u[1] = f.type /\ u[2] = Len(f.value)
  BY <1>3, <1>5, <1>6 DEF f
<1>8. p[1] = f.type /\ (Len(p) >= 2 => p[2] = Len(f.value))
  BY <1>1, <1>7
<1>9. QED
  BY <1>3, <1>8 DEF f, HeaderSize

\* A header and the bytes of its value, at the front of a stream, are its first
\* packet.
LEMMA PacketFront ==
    ASSUME NEW p \in Seq(Byte), NEW r \in Seq(Byte), NEW s \in Seq(Frame), NEW h \in Nat,
           Framed(p \o r, s, h), \A i \in DOMAIN s : Fits(s[i]),
           Len(p) >= HeaderSize, p[2] = Len(p) - HeaderSize
    PROVE  /\ h + 1 \in 1..Len(s)
           /\ s[h + 1] = Fr(p[1], SubSeq(p, HeaderSize + 1, Len(p)))
           /\ Framed(r, s, h + 1)
<1> DEFINE u == p \o r
           f == s[h + 1]
           v == SubSeq(p, 3, Len(p))
<1>1. /\ u \in Seq(Byte) /\ Len(p) \in Nat /\ Len(r) \in Nat /\ Len(u) = Len(p) + Len(r)
      /\ \A i \in 1..Len(p) + Len(r) : u[i] = IF i <= Len(p) THEN p[i] ELSE r[i - Len(p)]
  BY LenProperties, ConcatProperties
<1>2. p # <<>> /\ u # <<>>
  <2>1. Len(p) # 0
    BY <1>1 DEF HeaderSize
  <2>2. p # <<>>
    BY <2>1, EmptySeq
  <2>3. QED
    BY <2>2, ConcatEqualIffEmpty
<1>3. /\ h + 1 \in 1..Len(s) /\ f \in Frame /\ p[1] = f.type /\ p[2] = Len(f.value)
  BY <1>2, HeaderFront
<1>4. Len(f.value) \in Nat /\ f.value \in Seq(Byte) /\ Len(Bytes(f)) = 2 + Len(f.value)
      /\ \A j \in 1..Len(f.value) : Bytes(f)[2 + j] = f.value[j]
  BY <1>3, BytesOf DEF HeaderSize
<1>5. Len(Bytes(f)) = Len(p) /\ Len(f.value) = Len(p) - 2
  BY <1>1, <1>3, <1>4 DEF HeaderSize
<1>6. /\ \A j \in 1..Len(p) : u[j] = Bytes(f)[j]
      /\ Framed(SubSeq(u, Len(p) + 1, Len(u)), s, h + 1)
  <2> HIDE DEF u
  <2>1. /\ \A j \in 1..Len(Bytes(f)) : u[j] = Bytes(f)[j]
        /\ Framed(SubSeq(u, Len(Bytes(f)) + 1, Len(u)), s, h + 1)
    BY <1>1, <1>2, FramedFirst DEF u
  <2>2. QED
    BY <1>5, <2>1
<1> HIDE DEF u, f
<1>7. /\ v \in Seq(Byte) /\ Len(v) = Len(p) - 2
      /\ \A j \in 1..Len(p) - 2 : v[j] = p[2 + j]
  <2>1. /\ v \in Seq(Byte) /\ Len(v) = IF 3 <= Len(p) THEN Len(p) - 3 + 1 ELSE 0
        /\ \A j \in 1..Len(p) - 3 + 1 : v[j] = p[3 + j - 1]
    BY <1>1, SliceType
  <2>2. Len(p) - 3 + 1 = Len(p) - 2 /\ \A j \in 1..Len(p) - 2 : 3 + j - 1 = 2 + j
    BY <1>1
  <2>3. Len(v) = Len(p) - 2
    <3>1. PICK a \in Nat : a = Len(p)
      BY <1>1
    <3>2. a >= 2
      BY <3>1 DEF HeaderSize
    <3>3. (IF 3 <= a THEN a - 3 + 1 ELSE 0) = a - 2
      BY <3>2
    <3>4. QED
      BY <2>1, <3>1, <3>3
  <2>4. QED
    BY <2>1, <2>2, <2>3
<1> HIDE DEF v
<1>8. v = f.value
  <2>1. Len(v) = Len(f.value)
    BY <1>5, <1>7
  <2>2. ASSUME NEW j \in 1..Len(v)
        PROVE  v[j] = f.value[j]
    <3>1. j \in 1..Len(p) - 2 /\ j \in 1..Len(f.value) /\ 2 + j \in 1..Len(p)
      BY <1>1, <1>5, <1>7
    <3>2. 2 + j \in 1..Len(p) + Len(r) /\ 2 + j <= Len(p)
      BY <1>1, <3>1
    <3>3. u[2 + j] = p[2 + j]
      BY <1>1, <3>2
    <3>4. QED
      BY <1>4, <1>6, <1>7, <3>1, <3>3
  <2>3. QED
    BY <1>4, <1>7, <2>1, <2>2, SeqEqual
<1>9. f = Fr(p[1], v)
  BY <1>3, <1>8 DEF f, Fr, Frame
<1>10. SubSeq(u, Len(p) + 1, Len(u)) = r
  <2> DEFINE w == SubSeq(u, Len(p) + 1, Len(u))
  <2>1. /\ w \in Seq(Byte)
        /\ Len(w) = IF Len(p) + 1 <= Len(u) THEN Len(u) - (Len(p) + 1) + 1 ELSE 0
        /\ \A j \in 1..Len(u) - (Len(p) + 1) + 1 : w[j] = u[Len(p) + 1 + j - 1]
    BY <1>1, SliceType
  <2>2. PICK a \in Nat, b \in Nat : a = Len(p) /\ b = Len(r) /\ Len(u) = a + b
    BY <1>1
  <2>3. (IF a + 1 <= a + b THEN a + b - (a + 1) + 1 ELSE 0) = b /\ a + b - (a + 1) + 1 = b
    OBVIOUS
  <2>4. Len(w) = Len(r)
    BY <2>1, <2>2, <2>3
  <2>5. ASSUME NEW j \in 1..b
        PROVE  w[j] = r[j]
    <3>1. a + 1 + j - 1 = a + j /\ a + j \in 1..a + b /\ ~(a + j <= a) /\ a + j - a = j
      OBVIOUS
    <3>2. w[j] = u[a + j]
      BY <2>1, <2>2, <2>3, <3>1
    <3>3. u[a + j] = r[j]
      <4>1. \A i \in 1..a + b : u[i] = IF i <= a THEN p[i] ELSE r[i - a]
        BY <1>1, <2>2
      <4>2. u[a + j] = r[a + j - a]
        BY <3>1, <4>1
      <4>3. QED
        BY <3>1, <4>2
    <3>4. QED
      BY <3>2, <3>3
  <2>6. QED
    BY <2>1, <2>2, <2>4, <2>5, SeqEqual
<1>11. HeaderSize + 1 = 3
  BY DEF HeaderSize
<1>12. Framed(r, s, h + 1)
  BY <1>6, <1>10
<1>13. s[h + 1] = Fr(p[1], SubSeq(p, HeaderSize + 1, Len(p)))
  BY <1>9, <1>11 DEF f, v
<1>14. QED
  BY <1>3, <1>12, <1>13

-----------------------------------------------------------------------------
(* The inductive invariant of the whole line, until a write is short. *)

\* The bytes that the interrupt has of a packet.
Got ==
    CASE isr.stage = "length" -> <<isr.type>>
      [] isr.stage = "value" -> <<isr.type, isr.left + Len(isr.value)>> \o isr.value
      [] OTHER -> <<>>

\* The interrupt is at the place in the stream where it believes to be.
DownLine ==
    /\ isr.stage = "length" => isr.value = <<>>
    /\ isr.stage = "value" => isr.left + Len(isr.value) \in Byte
    /\ Framed(Got \o down, said, Len(taken))
    /\ \A k \in DOMAIN taken : taken[k] = said[k]

Going(t) == sending.mode = "going" /\ sending.type = t

\* The whole of the table has been sent, as whatever is sent then shows.
Passed(t) ==
    /\ HasSaid(t)
    /\ sending.mode \in {"idle", "going"}
    /\ sending.mode = "going" => sending.type \notin {t, RESET}

Later(t) == IF t = DESCRIPTORS THEN {INDEX, ENDPOINTS} ELSE {ENDPOINTS}

\* off[i] bytes of the table are in the first i packets that the proxy has
\* sent: the packets are consecutive pieces of the table, the last of them
\* leaves before what follows the table, and the firmware has stored the pieces
\* that it has taken.
Pieces(off, t) ==
    LET data == Data(TableSize[t])
    IN  /\ off \in [0..Len(said) -> 0..TableSize[t]]
        /\ off[0] = 0
        /\ \A i, j \in 0..Len(said) : i <= j => off[i] <= off[j]
        /\ \A i \in 1..Len(said) :
              /\ said[i].type = t => said[i].value = SubSeq(data, off[i - 1] + 1, off[i])
              /\ said[i].type # t => off[i] = off[i - 1]
              /\ said[i].type \in Later(t) => off[i] = TableSize[t]
        /\ ~HasSaid(t) => off[Len(said)] = 0
        /\ Going(t) => sending.rest = SubSeq(data, off[Len(said)] + 1, TableSize[t])
        /\ Passed(t) => off[Len(said)] = TableSize[t]
        /\ stored[t] = SubSeq(data, 1, off[Len(taken)])

InPieces(t) == \E off : Pieces(off, t)

\* The table of the endpoints is one packet.
LastTable ==
    LET data == Data(TableSize[ENDPOINTS])
    IN  /\ Going(ENDPOINTS) => sending.rest = data
        /\ \A i \in DOMAIN said : said[i].type = ENDPOINTS => said[i].value = data
        /\ \A i \in DOMAIN taken : taken[i].type = ENDPOINTS => stored[ENDPOINTS] = data

\* The tables leave one after the other, each of them once.
Handshake ==
    /\ Going(DESCRIPTORS) => ~HasSaid(ENDPOINTS)
    /\ Going(INDEX) => HasSaid(DESCRIPTORS) /\ ~HasSaid(ENDPOINTS)
    /\ Going(ENDPOINTS) => HasSaid(INDEX) /\ ~HasSaid(ENDPOINTS)
    /\ HasSaid(ENDPOINTS) => HasSaid(INDEX)
    /\ HasSaid(INDEX) => HasSaid(DESCRIPTORS)
    /\ \A i, j \in DOMAIN said :
          said[i].type = ENDPOINTS /\ i < j => said[j].type \notin StartupTypes

ReplyTypes == {CONTROL, CONTROL_STALL, IN_REPORT}

\* What the proxy sends are its packets.
ProxyTalk ==
    /\ sending.mode = "going" => sending.type \in StartupTypes \cup ReplyTypes \cup {RESET}
    /\ sending.mode = "going" /\ sending.type \in ReplyTypes =>
          \E n \in ReplySizes : sending.rest = Data(n)
    /\ Going(RESET) => sending.rest = <<>>
    /\ \A i \in DOMAIN said : said[i] \in ProxyPackets

\* The firmware acknowledges what it has taken, and its main loop sends nothing
\* before it has the tables.
FirmwareTalk ==
    /\ \A i \in DOMAIN spoken : spoken[i].type \in StartupTypes =>
          \E k \in DOMAIN taken : taken[k].type = spoken[i].type
    /\ oversized \/ tx # <<>> => started
    /\ started => \E k \in DOMAIN taken : taken[k].type = ENDPOINTS

\* adapter_recv is at the place in the stream where it believes to be.
UpLine ==
    ~oversized =>
        /\ Framed((packet \o up) \o tx, spoken, Len(heard))
        /\ \A k \in DOMAIN heard : heard[k] = spoken[k]
        /\ \A k \in DOMAIN spoken : Fits(spoken[k])

DownInv == DownLine /\ InPieces(DESCRIPTORS) /\ InPieces(INDEX) /\ LastTable /\ Handshake /\ ProxyTalk

WholeInv == ~cut => DownInv /\ FirmwareTalk /\ UpLine

LEMMA TypesDiffer ==
    /\ ENDPOINTS # INDEX /\ ENDPOINTS # DESCRIPTORS /\ INDEX # DESCRIPTORS
    /\ RESET \notin StartupTypes /\ RESET \notin ReplyTypes
    /\ StartupTypes \cap ReplyTypes = {}
    /\ StartupTypes \cup ReplyTypes \cup {RESET} = Received
    /\ {IN_REPORT, OUT_PACKET, CONTROL, DEBUG} \cap StartupTypes = {}
BY DEF StartupTypes, ReplyTypes, Received, DESCRIPTORS, INDEX, ENDPOINTS, RESET, CONTROL,
       CONTROL_STALL, IN_REPORT, OUT_PACKET, DEBUG

LEMMA ProxyPacketFits ==
    ASSUME NEW f \in ProxyPackets
    PROVE  f \in Frame /\ Fits(f) /\ f.type \in Received /\ (f.type = RESET => f.value = <<>>)
<1>0. /\ \A t \in StartupTypes : TableSize[t] \in Nat
      /\ \A n \in ReplySizes : n \in Nat /\ n <= MaxValue
      /\ MaxValue \in Nat /\ MaxValue >= 1
  BY SizesAssumption, TrafficAssumption
<1>1. CASE f \in UNION {{Fr(t, v) : v \in Chunks(Data(TableSize[t]))} : t \in StartupTypes}
  <2>0. PICK t \in StartupTypes : f \in {Fr(t, v) : v \in Chunks(Data(TableSize[t]))}
    BY <1>1
  <2>1. PICK v \in Chunks(Data(TableSize[t])) : f = Fr(t, v)
    BY <2>0
  <2> DEFINE data == Data(TableSize[t])
  <2>2. data \in Seq(Byte) /\ Len(data) \in Nat
    BY <1>0, DataType, LenProperties
  <2>3. PICK i \in 1..Len(data) + 1 : v = SubSeq(data, i, Min2(i + MaxValue - 1, Len(data)))
    BY <2>1 DEF Chunks
  <2> HIDE DEF data
  <2>4. PICK e \in Nat : e = Min2(i + MaxValue - 1, Len(data)) /\ e <= Len(data) /\ e <= i + MaxValue - 1
    BY <1>0, <2>2 DEF Min2
  <2>5. v \in Seq(Byte) /\ Len(v) = IF i <= e THEN e - i + 1 ELSE 0
    BY <2>2, <2>3, <2>4, SliceType
  <2>6. Len(v) <= MaxValue
    BY <1>0, <2>2, <2>4, <2>5
  <2>7. t \in Byte /\ t \in Received /\ t # RESET
    BY TypesAreBytes, TypesDiffer
  <2>8. QED
    BY <2>1, <2>5, <2>6, <2>7, FrameType DEF Fr, Fits
<1>2. CASE f \in {Fr(t, Data(n)) : t \in ReplyTypes, n \in ReplySizes}
  <2>1. PICK t \in ReplyTypes, n \in ReplySizes : f = Fr(t, Data(n))
    BY <1>2
  <2>2. n \in Nat /\ n <= MaxValue /\ Data(n) \in Seq(Byte) /\ Len(Data(n)) = n
    BY <1>0, DataType
  <2>3. t \in Byte /\ t \in Received /\ t # RESET
    BY TypesAreBytes, TypesDiffer
  <2>4. QED
    BY <2>1, <2>2, <2>3, FrameType DEF Fr, Fits
<1>3. CASE f = Fr(RESET, <<>>)
  <2>1. <<>> \in Seq(Byte) /\ Len(<<>>) = 0
    BY EmptySeq
  <2>2. RESET \in Byte /\ RESET \in Received
    BY TypesAreBytes, TypesDiffer
  <2>3. f \in Frame
    BY <1>3, <2>1, <2>2, FrameType
  <2>4. f.type = RESET /\ f.value = <<>>
    BY <1>3 DEF Fr
  <2>5. Len(f.value) <= MaxValue
    BY <1>0, <2>1, <2>4
  <2>6. QED
    BY <2>2, <2>3, <2>4, <2>5 DEF Fits
<1>4. QED
  BY <1>1, <1>2, <1>3 DEF ProxyPackets, ReplyTypes

LEMMA SpokenPacket ==
    ASSUME BeginPacket
    PROVE  \E f \in FirmwarePackets : f \in Frame /\ f.type \notin StartupTypes /\ Speak(f)
<1>1. /\ \A n \in OutSizes \cup RequestSizes : n \in Nat
      /\ SetupSize \in Nat
  BY SizesAssumption, TrafficAssumption DEF RequestSizes
<1>2. IN_REPORT \in Byte /\ OUT_PACKET \in Byte /\ CONTROL \in Byte /\ DEBUG \in Byte
  BY TypesAreBytes
<1>3. CASE Speak(Fr(IN_REPORT, <<>>))
  <2>1. Fr(IN_REPORT, <<>>) \in FirmwarePackets
    BY DEF FirmwarePackets
  <2>2. <<>> \in Seq(Byte)
    BY EmptySeq
  <2>3. Fr(IN_REPORT, <<>>) \in Frame /\ Fr(IN_REPORT, <<>>).type = IN_REPORT
    BY <1>2, <2>2, FrameType DEF Fr
  <2>4. QED
    BY <1>3, <2>1, <2>3, TypesDiffer
<1>4. CASE \E n \in OutSizes : Speak(Fr(OUT_PACKET, Data(n)))
  <2>1. PICK n \in OutSizes : Speak(Fr(OUT_PACKET, Data(n)))
    BY <1>4
  <2>2. Fr(OUT_PACKET, Data(n)) \in FirmwarePackets
    BY DEF FirmwarePackets
  <2>3. Fr(OUT_PACKET, Data(n)) \in Frame /\ Fr(OUT_PACKET, Data(n)).type = OUT_PACKET
    BY <1>1, <1>2, DataType, FrameType DEF Fr
  <2>4. QED
    BY <2>1, <2>2, <2>3, TypesDiffer
<1>5. CASE \E n \in RequestSizes : Speak(Fr(CONTROL, Data(n)))
  <2>1. PICK n \in RequestSizes : Speak(Fr(CONTROL, Data(n)))
    BY <1>5
  <2>2. Fr(CONTROL, Data(n)) \in FirmwarePackets
    BY DEF FirmwarePackets
  <2>3. Fr(CONTROL, Data(n)) \in Frame /\ Fr(CONTROL, Data(n)).type = CONTROL
    BY <1>1, <1>2, DataType, FrameType DEF Fr
  <2>4. QED
    BY <2>1, <2>2, <2>3, TypesDiffer
<1>6. CASE Speak(Fr(DEBUG, Data(SetupSize)))
  <2>1. Fr(DEBUG, Data(SetupSize)) \in FirmwarePackets
    BY DEF FirmwarePackets
  <2>2. Fr(DEBUG, Data(SetupSize)) \in Frame /\ Fr(DEBUG, Data(SetupSize)).type = DEBUG
    BY <1>1, <1>2, DataType, FrameType DEF Fr
  <2>3. QED
    BY <1>6, <2>1, <2>2, TypesDiffer
<1>7. QED
  BY <1>3, <1>4, <1>5, <1>6 DEF BeginPacket, SpeakAny

-----------------------------------------------------------------------------
(* adapter_send. *)

LEMMA RestOfData ==
    ASSUME NEW data \in Seq(Byte), NEW a \in 0..Len(data), NEW l \in Nat,
           NEW r, r = SubSeq(data, a + 1, Len(data)), l <= Len(r)
    PROVE  /\ Len(r) = Len(data) - a
           /\ SubSeq(r, 1, l) = SubSeq(data, a + 1, a + l)
           /\ SubSeq(r, l + 1, Len(r)) = SubSeq(data, a + l + 1, Len(data))
<1>1. PICK n \in Nat : n = Len(data)
  BY LenProperties
<1>2. a \in Nat /\ a <= n
  BY <1>1
<1>3. /\ r \in Seq(Byte)
      /\ Len(r) = IF a + 1 <= n THEN n - (a + 1) + 1 ELSE 0
      /\ \A i \in 1..n - (a + 1) + 1 : r[i] = data[a + 1 + i - 1]
  BY <1>1, <1>2, SliceType
<1>4. Len(r) = n - a /\ \A i \in 1..n - a : r[i] = data[a + i]
  <2>1. (IF a + 1 <= n THEN n - (a + 1) + 1 ELSE 0) = n - a /\ n - (a + 1) + 1 = n - a
    BY <1>2
  <2>2. \A i \in 1..n - a : a + 1 + i - 1 = a + i
    BY <1>2
  <2>3. QED
    BY <1>3, <2>1, <2>2
<1>5. l <= n - a
  BY <1>4
<1>6. SubSeq(r, 1, l) = SubSeq(data, a + 1, a + l)
  <2> DEFINE x == SubSeq(r, 1, l)
             y == SubSeq(data, a + 1, a + l)
  <2>1. /\ x \in Seq(Byte)
        /\ Len(x) = IF 1 <= l THEN l - 1 + 1 ELSE 0
        /\ \A i \in 1..l - 1 + 1 : x[i] = r[1 + i - 1]
    BY <1>3, SliceType
  <2>2. /\ y \in Seq(Byte)
        /\ Len(y) = IF a + 1 <= a + l THEN a + l - (a + 1) + 1 ELSE 0
        /\ \A i \in 1..a + l - (a + 1) + 1 : y[i] = data[a + 1 + i - 1]
    <3>1. a + 1 \in Nat \ {0} /\ a + l \in Nat /\ a + l <= Len(data)
      BY <1>1, <1>2, <1>5
    <3>2. QED
      BY <3>1, SliceType
  <2>3. /\ (IF 1 <= l THEN l - 1 + 1 ELSE 0) = l /\ l - 1 + 1 = l
        /\ (IF a + 1 <= a + l THEN a + l - (a + 1) + 1 ELSE 0) = l /\ a + l - (a + 1) + 1 = l
    BY <1>2
  <2>4. Len(x) = l /\ Len(y) = l
    BY <2>1, <2>2, <2>3
  <2>5. ASSUME NEW i \in 1..l
        PROVE  x[i] = y[i]
    <3>1. 1 + i - 1 = i /\ a + 1 + i - 1 = a + i /\ i \in 1..n - a
      BY <1>2, <1>5
    <3>2. x[i] = r[i] /\ y[i] = data[a + i]
      BY <2>1, <2>2, <2>3, <3>1
    <3>3. QED
      BY <1>4, <3>1, <3>2
  <2>6. QED
    BY <2>1, <2>2, <2>4, <2>5, SeqEqual
<1>7. SubSeq(r, l + 1, Len(r)) = SubSeq(data, a + l + 1, n)
  <2> DEFINE m == n - a
             x == SubSeq(r, l + 1, m)
             y == SubSeq(data, a + l + 1, n)
  <2>0. m \in Nat /\ l <= m /\ n = a + m
    BY <1>2, <1>5
  <2> HIDE DEF m
  <2>1. /\ x \in Seq(Byte)
        /\ Len(x) = IF l + 1 <= m THEN m - (l + 1) + 1 ELSE 0
        /\ \A i \in 1..m - (l + 1) + 1 : x[i] = r[l + 1 + i - 1]
    <3>1. Len(r) = m /\ l + 1 \in Nat \ {0}
      BY <1>4 DEF m
    <3>2. QED
      BY <1>3, <2>0, <3>1, SliceType
  <2>2. /\ y \in Seq(Byte)
        /\ Len(y) = IF a + l + 1 <= n THEN n - (a + l + 1) + 1 ELSE 0
        /\ \A i \in 1..n - (a + l + 1) + 1 : y[i] = data[a + l + 1 + i - 1]
    <3>1. a + l + 1 \in Nat \ {0}
      BY <1>2
    <3>2. QED
      BY <1>1, <3>1, SliceType
  <2>3. /\ (IF l + 1 <= m THEN m - (l + 1) + 1 ELSE 0) = m - l /\ m - (l + 1) + 1 = m - l
        /\ (IF a + l + 1 <= n THEN n - (a + l + 1) + 1 ELSE 0) = m - l
        /\ n - (a + l + 1) + 1 = m - l
    BY <1>2, <2>0
  <2>4. Len(x) = m - l /\ Len(y) = m - l
    BY <2>1, <2>2, <2>3
  <2>5. ASSUME NEW i \in 1..m - l
        PROVE  x[i] = y[i]
    <3>1. l + 1 + i - 1 = l + i /\ a + l + 1 + i - 1 = a + (l + i) /\ l + i \in 1..m
      BY <1>2, <2>0
    <3>2. x[i] = r[l + i] /\ y[i] = data[a + (l + i)]
      BY <2>1, <2>2, <2>3, <3>1
    <3>3. r[l + i] = data[a + (l + i)]
      BY <1>4, <3>1 DEF m
    <3>4. QED
      BY <3>2, <3>3
  <2>6. x = y
    BY <2>1, <2>2, <2>4, <2>5, SeqEqual
  <2>7. Len(r) = m
    BY <1>4 DEF m
  <2>8. QED
    BY <2>6, <2>7
<1>8. QED
  BY <1>1, <1>4, <1>6, <1>7

\* What one iteration of adapter_send writes, and what it leaves.
WriteLength == Min2(MaxValue, Len(sending.rest))
Written == Fr(sending.type, SubSeq(sending.rest, 1, WriteLength))
Unwritten == SubSeq(sending.rest, WriteLength + 1, Len(sending.rest))

LEMMA WriteStep ==
    ASSUME Inv, WritePacket, ~cut'
    PROVE  /\ ~cut
           /\ sending.mode = "going"
           /\ WriteLength \in Nat /\ WriteLength <= Len(sending.rest) /\ WriteLength <= MaxValue
           /\ Len(sending.rest) \in Nat
           /\ Written \in Frame
           /\ Unwritten \in Seq(Byte) /\ Len(Unwritten) = Len(sending.rest) - WriteLength
           /\ Unwritten = <<>> <=> WriteLength = Len(sending.rest)
           /\ UNCHANGED <<upVars, isrVars>>
           /\ \/ /\ UNCHANGED <<said, down>>
                 /\ sending'.mode \in {"closed", "leaving", "idle"}
                 /\ sending'.mode = "idle" => sending.type \notin StartupTypes \cup {RESET}
              \/ /\ said' = Append(said, Written)
                 /\ down' = down \o Bytes(Written)
                 /\ sending' = [sending EXCEPT !.rest = Unwritten,
                                               !.mode = IF Unwritten # <<>> THEN "going"
                                                        ELSE After(sending.type, FALSE)]
<1>1. /\ sending \in [mode : SendingModes, type : Byte, rest : Seq(Byte)]
      /\ sending.rest \in Seq(Byte) /\ sending.type \in Byte /\ Len(sending.rest) \in Nat
  BY LenProperties DEF Inv, TypeOK
<1>2. WriteLength \in Nat /\ WriteLength <= Len(sending.rest) /\ WriteLength <= MaxValue
  BY <1>1, SizesAssumption DEF WriteLength, Min2
<1>3. Written \in Frame
  <2>1. SubSeq(sending.rest, 1, WriteLength) \in Seq(Byte)
    BY <1>1, <1>2, SliceType
  <2>2. QED
    BY <1>1, <2>1, FrameType DEF Written
<1>4. Unwritten \in Seq(Byte) /\ Len(Unwritten) = Len(sending.rest) - WriteLength
  <2>1. PICK n \in Nat, l \in Nat : n = Len(sending.rest) /\ l = WriteLength /\ l <= n
    BY <1>1, <1>2
  <2>2. l + 1 \in Nat \ {0}
    OBVIOUS
  <2>3. /\ SubSeq(sending.rest, l + 1, n) \in Seq(Byte)
        /\ Len(SubSeq(sending.rest, l + 1, n)) = IF l + 1 <= n THEN n - (l + 1) + 1 ELSE 0
    BY <1>1, <2>1, <2>2, SliceType
  <2>4. (IF l + 1 <= n THEN n - (l + 1) + 1 ELSE 0) = n - l
    BY <2>1
  <2>5. QED
    BY <2>1, <2>3, <2>4 DEF Unwritten
<1>5. Unwritten = <<>> <=> WriteLength = Len(sending.rest)
  <2>1. Unwritten = <<>> <=> Len(Unwritten) = 0
    BY <1>4, EmptySeq
  <2>2. QED
    BY <1>1, <1>2, <1>4, <2>1
<1>6. WriteSome(WriteLength)
  BY DEF WritePacket, WriteLength
<1>7. /\ sending.mode = "going" /\ UNCHANGED <<upVars, isrVars>>
      /\ \E outcome \in Outcomes :
              /\ \/ /\ outcome = "whole"
                    /\ down' = down \o Bytes(Written)
                    /\ UNCHANGED cut
                 \/ cut' = TRUE
                 \/ /\ outcome = "fails"
                    /\ UNCHANGED <<down, cut>>
              /\ said' = IF outcome = "fails" THEN said ELSE Append(said, Written)
              /\ sending' = [sending EXCEPT
                    !.rest = Unwritten,
                    !.mode = IF outcome # "fails" /\ Unwritten # <<>> THEN "going"
                             ELSE After(sending.type, outcome = "fails")]
  BY <1>6 DEF WriteSome, Written, Unwritten
<1>8. PICK outcome \in {"whole", "fails"} :
              /\ UNCHANGED cut
              /\ outcome = "whole" => down' = down \o Bytes(Written)
              /\ outcome = "fails" => UNCHANGED down
              /\ said' = IF outcome = "fails" THEN said ELSE Append(said, Written)
              /\ sending' = [sending EXCEPT
                    !.rest = Unwritten,
                    !.mode = IF outcome # "fails" /\ Unwritten # <<>> THEN "going"
                             ELSE After(sending.type, outcome = "fails")]
  BY <1>7
<1>9. CASE outcome = "fails"
  <2>1. sending'.mode = After(sending.type, TRUE)
    BY <1>1, <1>8, <1>9
  <2>2. /\ sending'.mode \in {"closed", "leaving", "idle"}
        /\ sending'.mode = "idle" => sending.type \notin StartupTypes \cup {RESET}
    BY <2>1 DEF After
  <2>3. QED
    BY <1>2, <1>1, <1>3, <1>4, <1>5, <1>7, <1>8, <1>9, <2>2
<1>10. CASE outcome = "whole"
  <2>1. outcome # "fails" /\ (outcome = "fails") = FALSE
    BY <1>10
  <2>2. sending' = [sending EXCEPT !.rest = Unwritten,
                                   !.mode = IF Unwritten # <<>> THEN "going"
                                            ELSE After(sending.type, FALSE)]
    BY <1>8, <2>1
  <2>3. QED
    BY <1>2, <1>1, <1>3, <1>4, <1>5, <1>7, <1>8, <2>1, <2>2, <1>10
<1>11. QED
  BY <1>8, <1>9, <1>10

\* The tables are sequences of bytes.
LEMMA TableData ==
    ASSUME NEW t \in StartupTypes
    PROVE  /\ TableSize[t] \in Nat /\ Data(TableSize[t]) \in Seq(Byte)
           /\ Len(Data(TableSize[t])) = TableSize[t]
BY TrafficAssumption, DataType

\* The proxy turns to something else: to a table from its first byte, or to
\* what is no table.
LEMMA Resume ==
    ASSUME Inv, DownInv, UNCHANGED <<said, down, isrVars>>,
           \A t \in StartupTypes :
              /\ Going(t)' => ~HasSaid(t) /\ sending'.rest = Data(TableSize[t])
              /\ Passed(t)' => Passed(t),
           Going(DESCRIPTORS)' => ~HasSaid(ENDPOINTS),
           Going(INDEX)' => HasSaid(DESCRIPTORS) /\ ~HasSaid(ENDPOINTS),
           Going(ENDPOINTS)' => HasSaid(INDEX),
           sending'.mode = "going" => sending'.type \in StartupTypes \cup ReplyTypes \cup {RESET},
           sending'.mode = "going" /\ sending'.type \in ReplyTypes =>
              \E n \in ReplySizes : sending'.rest = Data(n),
           Going(RESET)' => sending'.rest = <<>>
    PROVE  DownInv'
<1>1. /\ said' = said /\ down' = down /\ isr' = isr /\ stored' = stored /\ taken' = taken
  BY DEF isrVars
<1>2. \A t : HasSaid(t)' <=> HasSaid(t)
  BY <1>1 DEF HasSaid
<1>3. DownLine'
  BY <1>1 DEF DownInv, DownLine, Got
<1>4. ASSUME NEW t \in StartupTypes, InPieces(t)
      PROVE  InPieces(t)'
  <2>1. PICK off : Pieces(off, t)
    BY <1>4 DEF InPieces
  <2>2. Going(t)' => sending'.rest = SubSeq(Data(TableSize[t]), off[Len(said)] + 1, TableSize[t])
    <3>1. SUFFICES ASSUME Going(t)'
                   PROVE  sending'.rest = SubSeq(Data(TableSize[t]), off[Len(said)] + 1, TableSize[t])
      OBVIOUS
    <3>2. sending'.rest = Data(TableSize[t]) /\ off[Len(said)] = 0
      BY <2>1, <3>1 DEF Pieces
    <3>3. SubSeq(Data(TableSize[t]), 1, TableSize[t]) = Data(TableSize[t])
      BY TableData, SubSeqFull
    <3>4. QED
      BY <3>2, <3>3
  <2>3. Passed(t)' => off[Len(said)] = TableSize[t]
    BY <2>1 DEF Pieces
  <2>4. Pieces(off, t)'
    BY <1>1, <1>2, <2>1, <2>2, <2>3 DEF Pieces
  <2>5. QED
    BY <2>4 DEF InPieces
<1>5. LastTable'
  BY <1>1, TypesDiffer DEF DownInv, LastTable, StartupTypes
<1>6. Handshake'
  BY <1>1, <1>2 DEF DownInv, Handshake, StartupTypes
<1>7. ProxyTalk'
  BY <1>1 DEF DownInv, ProxyTalk
<1>8. DESCRIPTORS \in StartupTypes /\ INDEX \in StartupTypes
  BY DEF StartupTypes
<1>9. QED
  BY <1>3, <1>4, <1>5, <1>6, <1>7, <1>8 DEF DownInv

LEMMA AppendSaid ==
    ASSUME Inv, NEW f \in Frame, said' = Append(said, f)
    PROVE  /\ Len(said) \in Nat /\ Len(said') = Len(said) + 1
           /\ \A i \in 1..Len(said) : said'[i] = said[i]
           /\ said'[Len(said) + 1] = f
           /\ DOMAIN said = 1..Len(said) /\ DOMAIN said' = 1..Len(said) + 1
           /\ \A t : HasSaid(t)' <=> HasSaid(t) \/ f.type = t
<1>1. said \in Seq(Frame)
  BY DEF Inv, TypeOK
<1>2. /\ Len(said) \in Nat /\ Len(said') = Len(said) + 1
      /\ \A i \in 1..Len(said) : said'[i] = said[i]
      /\ said'[Len(said) + 1] = f
      /\ DOMAIN said = 1..Len(said) /\ said' \in Seq(Frame)
  BY <1>1, AppendProperties, LenProperties
<1>3. DOMAIN said' = 1..Len(said) + 1
  BY <1>2, LenProperties
<1>4. ASSUME NEW t PROVE HasSaid(t)' <=> HasSaid(t) \/ f.type = t
  <2>1. HasSaid(t)' <=> \E i \in 1..Len(said) + 1 : said'[i].type = t
    BY <1>3 DEF HasSaid
  <2>2. HasSaid(t) <=> \E i \in 1..Len(said) : said[i].type = t
    BY <1>2 DEF HasSaid
  <2>3. \A i : i \in 1..Len(said) + 1 <=> i \in 1..Len(said) \/ i = Len(said) + 1
    BY <1>2
  <2>4. QED
    BY <1>2, <2>1, <2>2, <2>3
<1>5. QED
  BY <1>2, <1>3, <1>4

LEMMA GotType ==
    ASSUME Inv, DownLine
    PROVE  Got \in Seq(Byte)
<1>1. isr.type \in Byte /\ isr.value \in Seq(Byte)
  BY DEF Inv, TypeOK
<1>2. CASE isr.stage = "length"
  BY <1>1, <1>2 DEF Got
<1>3. CASE isr.stage = "value"
  <2>1. <<isr.type, isr.left + Len(isr.value)>> \in Seq(Byte)
    BY <1>1, <1>3 DEF DownLine
  <2>2. <<isr.type, isr.left + Len(isr.value)>> \o isr.value \in Seq(Byte)
    BY <1>1, <2>1, ConcatProperties
  <2>3. QED
    BY <1>3, <2>2 DEF Got
<1>4. CASE isr.stage \notin {"length", "value"}
  BY <1>4, EmptySeq DEF Got
<1>5. QED
  BY <1>2, <1>3, <1>4

\* A whole packet has been written.
LEMMA WrittenLine ==
    ASSUME Inv, DownLine, NEW f \in Frame, said' = Append(said, f), down' = down \o Bytes(f),
           UNCHANGED isrVars
    PROVE  DownLine'
<1>1. isr' = isr /\ taken' = taken /\ said \in Seq(Frame) /\ down \in Seq(Byte) /\ taken \in Seq(Frame)
  BY DEF isrVars, Inv, TypeOK
<1>2. Len(taken) \in Nat /\ DOMAIN taken = 1..Len(taken)
  BY <1>1, LenProperties
<1>3. Got \in Seq(Byte) /\ Bytes(f) \in Seq(Byte)
  BY GotType, BytesOf
<1>4. Got' = Got
  BY <1>1 DEF Got
<1>5. Got \o down \in Seq(Byte) /\ (Got \o down) \o Bytes(f) = Got \o (down \o Bytes(f))
  <2>1. Got \o down \in Seq(Byte)
    BY <1>1, <1>3, ConcatProperties
  <2>2. (Got \o down) \o Bytes(f) = Got \o (down \o Bytes(f))
    <3>1. down \in Seq(Byte)
      BY <1>1
    <3>2. QED
      BY <1>3, <3>1, ConcatAssociative
  <2>3. QED
    BY <2>1, <2>2
<1>6. Framed((Got \o down) \o Bytes(f), Append(said, f), Len(taken))
  <2>1. Framed(Got \o down, said, Len(taken))
    BY DEF DownLine
  <2>2. QED
    BY <1>1, <1>2, <1>5, <2>1, FramedMore
<1>7. Framed(Got \o down, said, Len(taken))'
  BY <1>1, <1>4, <1>5, <1>6
<1>8. ASSUME NEW k \in DOMAIN taken'
      PROVE  taken'[k] = said'[k]
  <2>1. k \in 1..Len(taken) /\ Len(taken) <= Len(said)
    BY <1>1, <1>2 DEF DownLine, Framed
  <2>2. k \in 1..Len(said) /\ k \in DOMAIN taken
    BY <1>2, <2>1, AppendSaid
  <2>3. QED
    BY <1>1, <2>2, AppendSaid DEF DownLine
<1>9. QED
  BY <1>1, <1>7, <1>8 DEF DownLine

LEMMA WrittenPieces ==
    ASSUME Inv, WholeInv, WritePacket, ~cut', said' = Append(said, Written),
           sending' = [sending EXCEPT !.rest = Unwritten,
                                      !.mode = IF Unwritten # <<>> THEN "going"
                                               ELSE After(sending.type, FALSE)],
           NEW t \in {DESCRIPTORS, INDEX}, InPieces(t)
    PROVE  InPieces(t)'
<1> DEFINE n == Len(said)
           T == TableSize[t]
           data == Data(T)
           l == WriteLength
<1>1. PICK off : Pieces(off, t)
  BY DEF InPieces
<1>2. /\ off \in [0..n -> 0..T] /\ off[0] = 0
      /\ \A i, j \in 0..n : i <= j => off[i] <= off[j]
      /\ \A i \in 1..n :
              /\ said[i].type = t => said[i].value = SubSeq(data, off[i - 1] + 1, off[i])
              /\ said[i].type # t => off[i] = off[i - 1]
              /\ said[i].type \in Later(t) => off[i] = T
      /\ ~HasSaid(t) => off[n] = 0
      /\ Going(t) => sending.rest = SubSeq(data, off[n] + 1, T)
      /\ Passed(t) => off[n] = T
      /\ stored[t] = SubSeq(data, 1, off[Len(taken)])
  BY <1>1 DEF Pieces
<1>3. T \in Nat /\ data \in Seq(Byte) /\ Len(data) = T
  <2>1. t \in StartupTypes
    BY DEF StartupTypes
  <2>2. QED
    BY <2>1, TableData
<1>4. /\ sending.mode = "going" /\ l \in Nat /\ Written \in Frame
      /\ l <= Len(sending.rest)
      /\ Unwritten = <<>> <=> l = Len(sending.rest)
      /\ UNCHANGED <<upVars, isrVars>>
  BY WriteStep
<1>5. /\ n \in Nat /\ Len(said') = n + 1
      /\ \A i \in 1..n : said'[i] = said[i]
      /\ said'[n + 1] = Written
      /\ \A x : HasSaid(x)' <=> HasSaid(x) \/ Written.type = x
  BY <1>4, AppendSaid
<1>6. Written.type = sending.type /\ Written.value = SubSeq(sending.rest, 1, l)
  BY DEF Written, Fr
<1>7. /\ sending \in [mode : SendingModes, type : Byte, rest : Seq(Byte)]
      /\ sending'.type = sending.type /\ sending'.rest = Unwritten
      /\ sending'.mode = IF Unwritten # <<>> THEN "going" ELSE After(sending.type, FALSE)
  BY DEF Inv, TypeOK
<1>8. off[n] \in 0..T /\ off[n] \in Nat
  <2>1. n \in 0..n
    BY <1>5
  <2>2. QED
    BY <1>2, <1>3, <2>1
\* What the packet brings when it is of this table.
<1>9. ASSUME sending.type = t
      PROVE  /\ off[n] + l \in 0..T
             /\ Written.value = SubSeq(data, off[n] + 1, off[n] + l)
             /\ Unwritten = SubSeq(data, off[n] + l + 1, T)
             /\ Unwritten = <<>> => off[n] + l = T
  <2>1. sending.rest = SubSeq(data, off[n] + 1, Len(data))
    BY <1>2, <1>3, <1>4, <1>9 DEF Going
  <2>2. off[n] \in 0..Len(data)
    BY <1>3, <1>8
  <2>3. PICK a \in 0..Len(data), k \in Nat : a = off[n] /\ k = l
    BY <1>4, <2>2
  <2>4. PICK r : r = sending.rest
    OBVIOUS
  <2>5. r = SubSeq(data, a + 1, Len(data)) /\ k <= Len(r)
    BY <1>4, <2>1, <2>3, <2>4
  <2> HIDE DEF data
  <2>6. /\ Len(r) = Len(data) - a
        /\ SubSeq(r, 1, k) = SubSeq(data, a + 1, a + k)
        /\ SubSeq(r, k + 1, Len(r)) = SubSeq(data, a + k + 1, Len(data))
    <3>1. PICK x \in Seq(Byte) : x = data
      BY <1>3
    <3>2. a \in 0..Len(x) /\ r = SubSeq(x, a + 1, Len(x))
      BY <2>5, <3>1
    <3>3. /\ Len(r) = Len(x) - a
          /\ SubSeq(r, 1, k) = SubSeq(x, a + 1, a + k)
          /\ SubSeq(r, k + 1, Len(r)) = SubSeq(x, a + k + 1, Len(x))
      BY <2>5, <3>2, RestOfData
    <3>4. QED
      BY <3>1, <3>3
  <2>7. Len(sending.rest) = T - off[n]
    BY <1>3, <2>3, <2>4, <2>6
  <2>8. off[n] + l \in 0..T /\ (Unwritten = <<>> => off[n] + l = T)
    <3>1. \A w, b, c \in Nat : b <= w /\ c <= w - b => b + c \in 0..w /\ (c = w - b => b + c = w)
      OBVIOUS
    <3>2. QED
      BY <1>3, <1>4, <1>8, <2>7, <3>1
  <2>9. Written.value = SubSeq(data, off[n] + 1, off[n] + l)
    BY <1>6, <2>3, <2>4, <2>6
  <2>10. Unwritten = SubSeq(data, off[n] + l + 1, T)
    BY <1>3, <2>3, <2>4, <2>6 DEF Unwritten
  <2>11. QED
    BY <2>8, <2>9, <2>10
<1> DEFINE last == IF sending.type = t THEN off[n] + l ELSE off[n]
           shifted == [i \in 0..n + 1 |-> IF i = n + 1 THEN last ELSE off[i]]
<1>10. last \in 0..T /\ last \in Nat /\ off[n] <= last
  BY <1>3, <1>4, <1>8, <1>9
<1>11. PICK to :
          /\ to \in [0..n + 1 -> 0..T] /\ to[n + 1] = last
           /\ \A i \in 0..n : to[i] = off[i]
  <2> HIDE DEF last
  <2>1. n + 1 \in 0..n + 1 /\ n + 1 \notin 0..n /\ \A i \in 0..n + 1 : i # n + 1 => i \in 0..n
    BY <1>5
  <2>2. \A i \in 0..n : i \in 0..n + 1 /\ i # n + 1
    BY <1>5
  <2>3. /\ shifted \in [0..n + 1 -> 0..T] /\ shifted[n + 1] = last
        /\ \A i \in 0..n : shifted[i] = off[i]
    BY <1>2, <1>10, <2>1, <2>2
  <2> HIDE DEF shifted
  <2>4. QED
    BY <2>3
<1>12. to[0] = 0
  BY <1>2, <1>5, <1>11
<1> HIDE DEF shifted
<1>13. \A i, j \in 0..n + 1 : i <= j => to[i] <= to[j]
  <2> SUFFICES ASSUME NEW i \in 0..n + 1, NEW j \in 0..n + 1, i <= j
               PROVE  to[i] <= to[j]
    OBVIOUS
  <2>1. CASE j <= n
    <3>1. i \in 0..n /\ j \in 0..n
      BY <1>5, <2>1
    <3>2. QED
      BY <1>2, <1>11, <3>1
  <2>2. CASE i <= n /\ j = n + 1
    <3>1. i \in 0..n /\ n \in 0..n /\ i <= n
      BY <1>5, <2>2
    <3>2. off[i] <= off[n] /\ off[i] \in 0..T
      BY <1>2, <3>1
    <3>3. to[i] = off[i] /\ to[j] = last
      BY <1>11, <2>2, <3>1
    <3>4. QED
      BY <1>3, <1>8, <1>10, <3>2, <3>3
  <2>3. CASE i = n + 1 /\ j = n + 1
    BY <1>10, <1>11, <2>3
  <2>4. QED
    BY <1>5, <2>1, <2>2, <2>3
<1>14. Passed(t) \/ sending.type # INDEX \/ t # DESCRIPTORS
  <2>1. SUFFICES ASSUME sending.type = INDEX, t = DESCRIPTORS
                 PROVE  Passed(t)
    OBVIOUS
  <2>2. HasSaid(DESCRIPTORS)
    BY <1>4, <2>1, WriteStep DEF WholeInv, DownInv, Handshake, Going
  <2>3. QED
    BY <1>4, <2>1, <2>2, TypesDiffer DEF Passed, StartupTypes
<1>15. sending.type = ENDPOINTS => Passed(t)
  <2>1. SUFFICES ASSUME sending.type = ENDPOINTS
                 PROVE  Passed(t)
    OBVIOUS
  <2>2. HasSaid(t)
    BY <1>4, <2>1, WriteStep DEF WholeInv, DownInv, Handshake, Going
  <2>3. QED
    BY <1>4, <2>1, <2>2, TypesDiffer DEF Passed, StartupTypes
<1>16. ASSUME sending.type \in Later(t)
       PROVE  Passed(t) /\ sending.type # t
  BY <1>14, <1>15, <1>16, TypesDiffer DEF Later
<1>17. ASSUME NEW i \in 1..n + 1
       PROVE  /\ said'[i].type = t => said'[i].value = SubSeq(data, to[i - 1] + 1, to[i])
              /\ said'[i].type # t => to[i] = to[i - 1]
              /\ said'[i].type \in Later(t) => to[i] = T
  <2>1. CASE i <= n
    <3>1. i \in 1..n /\ i \in 0..n /\ i - 1 \in 0..n
      BY <1>5, <2>1
    <3>2. said'[i] = said[i] /\ to[i] = off[i] /\ to[i - 1] = off[i - 1]
      BY <1>5, <1>11, <3>1
    <3>3. QED
      BY <1>2, <3>1, <3>2
  <2>2. CASE i = n + 1
    <3>1. i - 1 = n /\ n \in 0..n
      BY <1>5, <2>2
    <3>2. said'[i] = Written /\ to[i] = last /\ to[i - 1] = off[n]
      BY <1>5, <1>11, <2>2, <3>1
    <3>3. QED
      BY <1>2, <1>6, <1>9, <1>16, <3>2
  <2>3. QED
    BY <1>5, <2>1, <2>2
<1>18. ~HasSaid(t)' => to[n + 1] = 0
  BY <1>2, <1>5, <1>6, <1>11
<1>19. Going(t)' => sending'.rest = SubSeq(data, to[n + 1] + 1, T)
  BY <1>7, <1>9, <1>11 DEF Going
<1>20. Passed(t)' => to[n + 1] = T
  <2>1. SUFFICES ASSUME Passed(t)'
                 PROVE  last = T
    BY <1>11
  <2>2. CASE sending.type = t
    <3>1. Unwritten = <<>>
      BY <1>7, <2>1, <2>2 DEF Passed
    <3>2. QED
      BY <1>9, <2>2, <3>1
  <2>3. CASE sending.type = RESET
    <3>1. sending'.mode = "going"
      BY <1>7, <2>1, <2>3, TypesDiffer DEF Passed, After
    <3>2. QED
      BY <1>7, <2>1, <2>3, <3>1 DEF Passed
  <2>4. CASE sending.type \notin {t, RESET}
    <3>1. HasSaid(t)
      BY <1>5, <1>6, <2>1, <2>4 DEF Passed
    <3>2. Passed(t)
      BY <1>4, <2>4, <3>1 DEF Passed
    <3>3. QED
      BY <1>2, <2>4, <3>2
  <2>5. QED
    BY <2>2, <2>3, <2>4
<1>21. stored'[t] = SubSeq(data, 1, to[Len(taken)]) /\ taken' = taken /\ stored' = stored
  <2>1. taken' = taken /\ stored' = stored
    BY <1>4 DEF isrVars
  <2>2. Len(taken) \in 0..n
    <3>1. Len(taken) <= n
      BY WriteStep DEF WholeInv, DownInv, DownLine, Framed
    <3>2. Len(taken) \in Nat
      BY LenProperties DEF Inv, TypeOK
    <3>3. QED
      BY <1>5, <3>1, <3>2
  <2>3. QED
    BY <1>2, <1>11, <2>1, <2>2
<1> HIDE DEF last
<1>22. Pieces(to, t)'
  <2> HIDE DEF data, T
  <2>1. /\ to \in [0..Len(said') -> 0..T] /\ to[0] = 0
        /\ \A i, j \in 0..Len(said') : i <= j => to[i] <= to[j]
    BY <1>5, <1>11, <1>12, <1>13
  <2>2. \A i \in 1..Len(said') :
              /\ said'[i].type = t => said'[i].value = SubSeq(data, to[i - 1] + 1, to[i])
              /\ said'[i].type # t => to[i] = to[i - 1]
              /\ said'[i].type \in Later(t) => to[i] = T
    BY <1>5, <1>17
  <2>3. /\ ~HasSaid(t)' => to[Len(said')] = 0
        /\ Going(t)' => sending'.rest = SubSeq(data, to[Len(said')] + 1, T)
        /\ Passed(t)' => to[Len(said')] = T
        /\ stored'[t] = SubSeq(data, 1, to[Len(taken')])
    BY <1>5, <1>18, <1>19, <1>20, <1>21
  <2>4. QED
    BY <2>1, <2>2, <2>3 DEF Pieces, data, T
<1>23. QED
  BY <1>22 DEF InPieces

LEMMA WrittenLast ==
    ASSUME Inv, WholeInv, WritePacket, ~cut', said' = Append(said, Written),
           sending' = [sending EXCEPT !.rest = Unwritten,
                                      !.mode = IF Unwritten # <<>> THEN "going"
                                               ELSE After(sending.type, FALSE)]
    PROVE  LastTable'
<1> DEFINE data == Data(TableSize[ENDPOINTS])
           n == Len(said)
<1>1. /\ sending.mode = "going" /\ Written \in Frame /\ UNCHANGED isrVars
      /\ WriteLength \in Nat /\ WriteLength <= Len(sending.rest) /\ WriteLength <= MaxValue
      /\ Unwritten = <<>> <=> WriteLength = Len(sending.rest)
      /\ LastTable
  BY WriteStep DEF WholeInv, DownInv
<1>2. /\ n \in Nat /\ DOMAIN said = 1..n /\ DOMAIN said' = 1..n + 1
      /\ \A i \in 1..n : said'[i] = said[i]
      /\ said'[n + 1] = Written
  BY <1>1, AppendSaid
<1>3. data \in Seq(Byte) /\ Len(data) <= MaxValue /\ Len(data) \in Nat
  BY TrafficAssumption, TableData DEF StartupTypes
<1>4. /\ sending \in [mode : SendingModes, type : Byte, rest : Seq(Byte)]
      /\ sending'.type = sending.type
      /\ sending'.mode = IF Unwritten # <<>> THEN "going" ELSE After(sending.type, FALSE)
  BY DEF Inv, TypeOK
<1> HIDE DEF data, n
<1>5. ASSUME sending.type = ENDPOINTS
      PROVE  Unwritten = <<>> /\ Written.value = data
  <2>1. sending.rest = data
    BY <1>1, <1>5 DEF LastTable, Going, data
  <2>2. WriteLength = Len(data)
    BY <1>3, <2>1, SizesAssumption DEF WriteLength, Min2
  <2>3. Written.value = SubSeq(data, 1, Len(data))
    BY <2>1, <2>2 DEF Written, Fr
  <2>4. QED
    BY <1>1, <1>3, <2>1, <2>2, <2>3, SubSeqFull
<1>6. ~Going(ENDPOINTS)'
  BY <1>4, <1>5, TypesDiffer DEF Going, After, StartupTypes
<1>7. ASSUME NEW i \in DOMAIN said', said'[i].type = ENDPOINTS
      PROVE  said'[i].value = data
  <2>1. CASE i \in 1..n
    BY <1>1, <1>2, <1>7, <2>1 DEF LastTable, data
  <2>2. CASE i = n + 1
    <3>1. sending.type = ENDPOINTS
      BY <1>2, <1>7, <2>2 DEF Written, Fr
    <3>2. QED
      BY <1>2, <1>5, <2>2, <3>1
  <2>3. QED
    BY <1>2, <2>1, <2>2
<1>8. stored' = stored /\ taken' = taken
  BY <1>1 DEF isrVars
<1>9. QED
  BY <1>1, <1>6, <1>7, <1>8 DEF LastTable, data

LEMMA WrittenHandshake ==
    ASSUME Inv, WholeInv, WritePacket, ~cut', said' = Append(said, Written), LastTable',
           sending' = [sending EXCEPT !.rest = Unwritten,
                                      !.mode = IF Unwritten # <<>> THEN "going"
                                               ELSE After(sending.type, FALSE)]
    PROVE  Handshake'
<1> DEFINE n == Len(said)
<1>1. /\ sending.mode = "going" /\ Written \in Frame
      /\ WriteLength \in Nat /\ WriteLength <= Len(sending.rest)
      /\ Unwritten = <<>> <=> WriteLength = Len(sending.rest)
      /\ Handshake /\ LastTable
  BY WriteStep DEF WholeInv, DownInv
<1>2. /\ n \in Nat /\ DOMAIN said = 1..n /\ DOMAIN said' = 1..n + 1
      /\ \A i \in 1..n : said'[i] = said[i]
      /\ said'[n + 1] = Written
      /\ \A t : HasSaid(t)' <=> HasSaid(t) \/ Written.type = t
  BY <1>1, AppendSaid
<1>3. /\ sending \in [mode : SendingModes, type : Byte, rest : Seq(Byte)]
      /\ sending'.type = sending.type /\ Written.type = sending.type
      /\ sending'.mode = IF Unwritten # <<>> THEN "going" ELSE After(sending.type, FALSE)
  BY DEF Inv, TypeOK, Written, Fr
<1> HIDE DEF n
<1>4. \A t : Going(t)' => Going(t)
  BY <1>1, <1>3 DEF Going
<1>5. ~Going(ENDPOINTS)'
  <2>1. SUFFICES ASSUME sending.type = ENDPOINTS
                 PROVE  Unwritten = <<>>
    BY <1>3, TypesDiffer DEF Going, After, StartupTypes
  <2>2. /\ Len(sending.rest) \in Nat
        /\ Len(sending.rest) <= MaxValue
    <3>1. sending.rest = Data(TableSize[ENDPOINTS])
      BY <1>1, <2>1 DEF LastTable, Going
    <3>2. QED
      BY <3>1, TrafficAssumption, TableData DEF StartupTypes
  <2>3. QED
    BY <1>1, <2>2, SizesAssumption DEF WriteLength, Min2
<1>6. /\ Going(DESCRIPTORS)' => ~HasSaid(ENDPOINTS)'
      /\ Going(INDEX)' => HasSaid(DESCRIPTORS)' /\ ~HasSaid(ENDPOINTS)'
  BY <1>1, <1>2, <1>3, <1>4, TypesDiffer DEF Handshake, Going
<1>7. /\ HasSaid(ENDPOINTS)' => HasSaid(INDEX)'
      /\ HasSaid(INDEX)' => HasSaid(DESCRIPTORS)'
  BY <1>1, <1>2, <1>3 DEF Handshake, Going
<1>8. ASSUME NEW i \in DOMAIN said', NEW j \in DOMAIN said',
             said'[i].type = ENDPOINTS, i < j, said'[j].type \in StartupTypes
      PROVE  FALSE
  <2>1. CASE j \in 1..n
    <3>1. i \in 1..n
      BY <1>2, <1>8, <2>1
    <3>2. QED
      BY <1>1, <1>2, <1>8, <2>1, <3>1 DEF Handshake
  <2>2. CASE j = n + 1
    <3>1. i \in 1..n
      BY <1>2, <1>8, <2>2
    <3>2. HasSaid(ENDPOINTS)
      BY <1>2, <1>8, <3>1 DEF HasSaid
    <3>3. sending.type \in StartupTypes
      BY <1>2, <1>3, <1>8, <2>2
    <3>4. QED
      BY <1>1, <3>2, <3>3 DEF Handshake, Going, StartupTypes
  <2>3. QED
    BY <1>2, <2>1, <2>2
<1>9. QED
  BY <1>5, <1>6, <1>7, <1>8 DEF Handshake

\* Each write of a packet sends one of the proxy's packets.
LEMMA WrittenPacket ==
    ASSUME Inv, WholeInv, WritePacket, ~cut'
    PROVE  Written \in ProxyPackets
<1>1. /\ sending.mode = "going"
      /\ WriteLength \in Nat /\ WriteLength <= Len(sending.rest) /\ WriteLength <= MaxValue
      /\ DownInv
  BY WriteStep DEF WholeInv
<1>2. /\ sending \in [mode : SendingModes, type : Byte, rest : Seq(Byte)]
      /\ sending.type \in StartupTypes \cup ReplyTypes \cup {RESET}
  BY <1>1 DEF Inv, TypeOK, DownInv, ProxyTalk
<1>3. MaxValue \in Nat
  BY SizesAssumption
<1>4. CASE sending.type \in StartupTypes
  <2> DEFINE t == sending.type
             data == Data(TableSize[t])
  <2>1. data \in Seq(Byte) /\ Len(data) = TableSize[t] /\ TableSize[t] \in Nat
    BY <1>4, TableData
  <2>2. \E a \in 0..Len(data) : sending.rest = SubSeq(data, a + 1, Len(data))
    <3>1. CASE t = ENDPOINTS
      <4>1. sending.rest = data
        BY <1>1, <3>1 DEF DownInv, LastTable, Going
      <4>2. SubSeq(data, 0 + 1, Len(data)) = data
        BY <2>1, SubSeqFull
      <4>3. 0 \in 0..Len(data)
        BY <2>1
      <4>4. QED
        BY <4>1, <4>2, <4>3
    <3>2. CASE t \in {DESCRIPTORS, INDEX}
      <4>1. PICK off : Pieces(off, t)
        BY <1>1, <3>2 DEF DownInv, InPieces
      <4>2. off[Len(said)] \in 0..TableSize[t]
        <5>1. Len(said) \in 0..Len(said)
          BY LenProperties DEF Inv, TypeOK
        <5>2. off \in [0..Len(said) -> 0..TableSize[t]]
          BY <4>1 DEF Pieces
        <5>3. QED
          BY <5>1, <5>2
      <4>3. sending.rest = SubSeq(data, off[Len(said)] + 1, TableSize[t])
        BY <1>1, <4>1 DEF Pieces, Going
      <4>4. QED
        BY <2>1, <4>2, <4>3
    <3>3. QED
      BY <1>4, <3>1, <3>2 DEF StartupTypes
  <2>3. PICK a \in 0..Len(data) : sending.rest = SubSeq(data, a + 1, Len(data))
    BY <2>2
  <2> HIDE DEF data
  <2>4. PICK l \in Nat, r \in {sending.rest} : l = WriteLength
    BY <1>1
  <2>5. Len(r) = Len(data) - a /\ SubSeq(r, 1, l) = SubSeq(data, a + 1, a + l)
    <3>1. r = SubSeq(data, a + 1, Len(data)) /\ l <= Len(r)
      BY <1>1, <2>3, <2>4
    <3>2. QED
      BY <2>1, <3>1, RestOfData
  <2>6. a + l = Min2(a + 1 + MaxValue - 1, Len(data))
    <3>1. l = IF MaxValue < Len(data) - a THEN MaxValue ELSE Len(data) - a
      BY <2>4, <2>5 DEF WriteLength, Min2
    <3>2. \A x, m, k \in Nat : x <= m =>
             x + (IF k < m - x THEN k ELSE m - x) = IF x + 1 + k - 1 < m THEN x + 1 + k - 1 ELSE m
      OBVIOUS
    <3>3. a \in Nat /\ a <= Len(data) /\ Len(data) \in Nat
      BY <2>1
    <3>4. QED
      BY <1>3, <3>1, <3>2, <3>3 DEF Min2
  <2>7. SubSeq(data, a + 1, a + l) \in Chunks(data)
    <3>1. a + 1 \in 1..Len(data) + 1
      BY <2>1
    <3>2. SubSeq(data, a + 1, a + l) = SubSeq(data, a + 1, Min2(a + 1 + MaxValue - 1, Len(data)))
      BY <2>6
    <3>3. QED
      BY <3>1, <3>2 DEF Chunks
  <2>8. Written = Fr(t, SubSeq(data, a + 1, a + l))
    BY <2>4, <2>5 DEF Written
  <2>9. QED
    BY <1>4, <2>7, <2>8 DEF ProxyPackets, data
<1>5. CASE sending.type \in ReplyTypes
  <2>1. PICK n \in ReplySizes : sending.rest = Data(n)
    BY <1>1, <1>5 DEF DownInv, ProxyTalk
  <2>2. n \in Nat /\ n <= MaxValue /\ Data(n) \in Seq(Byte) /\ Len(Data(n)) = n
    BY <1>3, TrafficAssumption, DataType
  <2>3. WriteLength = n
    BY <1>3, <2>1, <2>2 DEF WriteLength, Min2
  <2>4. SubSeq(Data(n), 1, n) = Data(n)
    BY <2>2, SubSeqFull
  <2>5. Written = Fr(sending.type, Data(n))
    BY <2>1, <2>3, <2>4 DEF Written
  <2>6. QED
    BY <1>5, <2>5 DEF ProxyPackets, ReplyTypes
<1>6. CASE sending.type = RESET
  <2>1. sending.rest = <<>>
    BY <1>1, <1>6 DEF DownInv, ProxyTalk, Going
  <2>2. <<>> \in Seq(Byte) /\ Len(<<>>) = 0
    BY EmptySeq
  <2>3. WriteLength = 0
    BY <1>1, <2>1, <2>2
  <2>4. SubSeq(<<>>, 1, 0) = <<>>
    BY SubSeqEmpty
  <2>5. Written = Fr(RESET, <<>>)
    BY <1>6, <2>1, <2>3, <2>4 DEF Written
  <2>6. QED
    BY <2>5 DEF ProxyPackets
<1>7. QED
  BY <1>2, <1>4, <1>5, <1>6

LEMMA WriteWhole ==
    ASSUME Inv, WholeInv, WritePacket
    PROVE  WholeInv'
<1>1. SUFFICES ASSUME ~cut'
               PROVE  DownInv' /\ FirmwareTalk' /\ UpLine'
  BY DEF WholeInv
<1>2. ~cut /\ DownInv /\ FirmwareTalk /\ UpLine /\ UNCHANGED <<upVars, isrVars>>
  BY <1>1, WriteStep DEF WholeInv
<1>3. FirmwareTalk' /\ UpLine'
  BY <1>2 DEF FirmwareTalk, UpLine, upVars, isrVars
<1>4. CASE /\ UNCHANGED <<said, down>>
           /\ sending'.mode \in {"closed", "leaving", "idle"}
           /\ sending'.mode = "idle" => sending.type \notin StartupTypes \cup {RESET}
  <2>1. \A t : ~Going(t)'
    BY <1>4 DEF Going
  <2>2. sending'.mode # "going" /\ sending.mode = "going"
    BY <1>1, <1>4, WriteStep
  <2>3. \A t \in StartupTypes : Passed(t)' => Passed(t)
    BY <1>4, <2>2 DEF Passed, HasSaid
  <2>4. DownInv'
    BY <1>2, <1>4, <2>1, <2>2, <2>3, Resume
  <2>5. QED
    BY <1>3, <2>4
<1>5. CASE /\ said' = Append(said, Written)
           /\ down' = down \o Bytes(Written)
           /\ sending' = [sending EXCEPT !.rest = Unwritten,
                                         !.mode = IF Unwritten # <<>> THEN "going"
                                                  ELSE After(sending.type, FALSE)]
  <2>1. Written \in Frame /\ Written \in ProxyPackets /\ sending.mode = "going"
    BY <1>1, WriteStep, WrittenPacket
  <2>2. DownLine'
    BY <1>2, <1>5, <2>1, WrittenLine DEF DownInv
  <2>3. InPieces(DESCRIPTORS)' /\ InPieces(INDEX)'
    BY <1>1, <1>2, <1>5, WrittenPieces DEF DownInv
  <2>4. LastTable' /\ Handshake'
    BY <1>1, <1>5, WrittenLast, WrittenHandshake
  <2>5. ProxyTalk'
    <3>1. /\ sending \in [mode : SendingModes, type : Byte, rest : Seq(Byte)]
          /\ sending'.type = sending.type /\ sending'.rest = Unwritten
          /\ sending'.mode = "going" => Unwritten # <<>>
      BY <1>5 DEF Inv, TypeOK, After
    <3>2. sending'.mode = "going" => sending.type \in StartupTypes
      <4>1. CASE sending.type \in ReplyTypes
        <5>1. PICK n \in ReplySizes : sending.rest = Data(n)
          BY <1>2, <2>1, <4>1 DEF DownInv, ProxyTalk
        <5>2. n \in Nat /\ n <= MaxValue /\ Len(Data(n)) = n /\ MaxValue \in Nat
          BY SizesAssumption, TrafficAssumption, DataType
        <5>3. WriteLength = Len(sending.rest)
          BY <5>1, <5>2 DEF WriteLength, Min2
        <5>4. QED
          BY <1>1, <3>1, <5>3, WriteStep
      <4>2. CASE sending.type = RESET
        <5>1. sending.rest = <<>> /\ Len(sending.rest) = 0
          BY <1>2, <2>1, <4>2, EmptySeq DEF DownInv, ProxyTalk, Going
        <5>2. WriteLength = Len(sending.rest)
          BY <5>1, SizesAssumption DEF WriteLength, Min2
        <5>3. QED
          BY <1>1, <3>1, <5>2, WriteStep
      <4>3. QED
        BY <1>2, <2>1, <4>1, <4>2 DEF DownInv, ProxyTalk
    <3>3. \A i \in DOMAIN said' : said'[i] \in ProxyPackets
      <4>1. DOMAIN said = 1..Len(said) /\ DOMAIN said' = 1..Len(said) + 1 /\ Len(said) \in Nat
            /\ said'[Len(said) + 1] = Written /\ \A i \in 1..Len(said) : said'[i] = said[i]
        BY <1>5, <2>1, AppendSaid
      <4>2. QED
        BY <1>2, <2>1, <4>1 DEF DownInv, ProxyTalk
    <3>4. QED
      BY <3>1, <3>2, <3>3, TypesDiffer DEF ProxyTalk, Going
  <2>6. QED
    BY <1>3, <2>2, <2>3, <2>4, <2>5 DEF DownInv
<1>6. QED
  BY <1>1, <1>4, <1>5, WriteStep

LEMMA AnswerWhole ==
    ASSUME Inv, WholeInv, Answer \/ Leave
    PROVE  WholeInv'
<1>1. UNCHANGED <<upVars, said, cut, down, isrVars>>
  BY DEF Answer, Leave
<1>2. SUFFICES ASSUME ~cut
               PROVE  DownInv' /\ FirmwareTalk' /\ UpLine'
  BY <1>1 DEF WholeInv
<1>3. DownInv /\ FirmwareTalk /\ UpLine
  BY <1>2 DEF WholeInv
<1>4. FirmwareTalk' /\ UpLine'
  BY <1>1, <1>3 DEF FirmwareTalk, UpLine, upVars, isrVars
<1>5. CASE Answer
  <2>1. PICK t \in ReplyTypes, n \in ReplySizes : sending' = Sending(t, Data(n))
    BY <1>5 DEF Answer, ReplyTypes
  <2>2. sending.mode = "idle"
    BY <1>5 DEF Answer
  <2>3. sending'.mode = "going" /\ sending'.type = t /\ sending'.rest = Data(n)
    BY <2>1 DEF Sending
  <2>4. t \notin StartupTypes /\ t # RESET
    BY TypesDiffer
  <2>5. \A x \in StartupTypes \cup {RESET} : ~Going(x)'
    BY <2>3, <2>4 DEF Going
  <2>6. \A x \in StartupTypes : Passed(x)' => Passed(x)
    BY <1>1, <2>2 DEF Passed, HasSaid
  <2>7. \E m \in ReplySizes : sending'.rest = Data(m)
    BY <2>3
  <2>8. DownInv'
    BY <1>1, <1>3, <2>3, <2>5, <2>6, <2>7, Resume, TypesDiffer DEF StartupTypes
  <2>9. QED
    BY <1>4, <2>8
<1>6. CASE Leave
  <2>1. sending'.mode = "going" /\ sending'.type = RESET /\ sending'.rest = <<>>
    BY <1>6 DEF Leave, Sending
  <2>2. \A x \in StartupTypes : ~Going(x)' /\ ~Passed(x)'
    BY <2>1, TypesDiffer DEF Going, Passed
  <2>3. RESET \notin ReplyTypes
    BY TypesDiffer
  <2>4. DownInv'
    BY <1>1, <1>3, <2>1, <2>2, <2>3, Resume DEF StartupTypes
  <2>5. QED
    BY <1>4, <2>4
<1>7. QED
  BY <1>5, <1>6

-----------------------------------------------------------------------------
(* adapter_recv. *)

LEMMA JoinBytes ==
    ASSUME NEW a \in Seq(Byte), NEW b \in Seq(Byte), NEW c \in Seq(Byte)
    PROVE  (a \o b) \o c = a \o (b \o c)
BY ConcatAssociative

Joins(a, x, y, c) ==
    /\ a \o x \in Seq(Byte) /\ y \o c \in Seq(Byte)
    /\ (a \o (x \o y)) \o c = (a \o x) \o (y \o c)

LEMMA JoinMore ==
    ASSUME NEW a \in Seq(Byte), NEW x \in Seq(Byte), NEW y \in Seq(Byte), NEW c \in Seq(Byte)
    PROVE  Joins(a, x, y, c)
<1>1. a \o x \in Seq(Byte) /\ y \o c \in Seq(Byte)
  BY ConcatProperties
<1>2. (a \o x) \o y = a \o (x \o y)
  BY JoinBytes
<1>3. ASSUME NEW z \in Seq(Byte)
      PROVE  (z \o y) \o c = z \o (y \o c)
  BY JoinBytes
<1>4. ((a \o x) \o y) \o c = (a \o x) \o (y \o c)
  BY <1>1, <1>3
<1>5. QED
  BY <1>1, <1>2, <1>4 DEF Joins

\* What the first n bytes of b are between a and c, when they move to a.
SplitAt(a, b, c, n) ==
    LET x == SubSeq(b, 1, n)
        y == SubSeq(b, n + 1, Len(b))
    IN  /\ x \in Seq(Byte) /\ y \in Seq(Byte)
        /\ a \o x \in Seq(Byte) /\ y \o c \in Seq(Byte)
        /\ (a \o b) \o c = (a \o x) \o (y \o c)

LEMMA StreamRead ==
    ASSUME NEW a \in Seq(Byte), NEW b \in Seq(Byte), NEW c \in Seq(Byte),
           NEW n \in Nat, n <= Len(b)
    PROVE  SplitAt(a, b, c, n)
<1> DEFINE x == SubSeq(b, 1, n)
           y == SubSeq(b, n + 1, Len(b))
<1>1. Len(b) \in Nat /\ n \in 0..Len(b)
  BY LenProperties
<1>2. x \in Seq(Byte)
  BY SliceType
<1>3. y \in Seq(Byte)
  BY <1>1, SliceType
<1>4. x \o y = b
  <2>1. SubSeq(b, 1, n) \o SubSeq(b, n + 1, Len(b)) = SubSeq(b, 1, Len(b))
    <3>1. 1 \in 1..Len(b) + 1 /\ n \in 1 - 1..Len(b) /\ Len(b) \in n..Len(b)
      BY <1>1
    <3>2. QED
      BY <3>1, ConcatAdjacentSubSeq
  <2>2. QED
    BY <2>1, SubSeqFull
<1> HIDE DEF x, y
<1>5. Joins(a, x, y, c)
  BY <1>2, <1>3, JoinMore
<1>6. QED
  BY <1>2, <1>3, <1>4, <1>5 DEF x, y, Joins, SplitAt

\* The place in the stream from which adapter_recv reads.
LEMMA UpStream ==
    ASSUME Inv, UpLine, ~oversized
    PROVE  /\ packet \in Seq(Byte) /\ up \in Seq(Byte) /\ tx \in Seq(Byte)
           /\ up \o tx \in Seq(Byte) /\ packet \o up \in Seq(Byte)
           /\ spoken \in Seq(Frame) /\ heard \in Seq(Frame) /\ Len(heard) \in Nat
           /\ DOMAIN heard = 1..Len(heard) /\ Len(heard) <= Len(spoken)
           /\ DOMAIN spoken = 1..Len(spoken) /\ Len(spoken) \in Nat
           /\ Framed((packet \o up) \o tx, spoken, Len(heard))
           /\ (packet \o up) \o tx = packet \o (up \o tx)
           /\ \A k \in DOMAIN spoken : Fits(spoken[k])
<1>1. /\ packet \in Seq(Byte) /\ up \in Seq(Byte) /\ tx \in Seq(Byte)
      /\ spoken \in Seq(Frame) /\ heard \in Seq(Frame)
  BY DEF Inv, TypeOK
<1>2. up \o tx \in Seq(Byte) /\ packet \o up \in Seq(Byte)
  BY <1>1, ConcatProperties
<1>3. (packet \o up) \o tx = packet \o (up \o tx)
  BY <1>1, JoinBytes
<1>4. /\ Len(heard) \in Nat /\ DOMAIN heard = 1..Len(heard)
      /\ DOMAIN spoken = 1..Len(spoken) /\ Len(spoken) \in Nat
  BY <1>1, LenProperties
<1>5. Framed((packet \o up) \o tx, spoken, Len(heard)) /\ \A k \in DOMAIN spoken : Fits(spoken[k])
  BY DEF UpLine
<1>6. Len(heard) <= Len(spoken)
  BY <1>5 DEF Framed
<1>7. QED
  BY <1>1, <1>2, <1>3, <1>4, <1>5, <1>6

\* The buffer of adapter_recv has room for what it asks for.
LEMMA RoomToRead ==
    ASSUME Inv, UpLine, ~oversized
    PROVE  Len(packet) + readSize <= PacketSize
<1>1. /\ packet \in Seq(Byte) /\ up \o tx \in Seq(Byte) /\ Len(packet) \in Nat /\ readSize \in Nat
      /\ MaxValue \in Nat /\ MaxValue >= 1
  BY UpStream, LenProperties, SizesAssumption DEF Inv, TypeOK
<1>2. CASE readSize = 0 /\ packet = <<>>
  <2>1. Len(packet) = 0
    BY <1>2, EmptySeq
  <2>2. QED
    BY <1>1, <1>2, <2>1 DEF PacketSize, HeaderSize
<1>3. CASE readSize = Remaining(packet) /\ Len(packet) < HeaderSize
  BY <1>1, <1>3 DEF Remaining, PacketSize, HeaderSize
<1>4. CASE readSize = Remaining(packet) /\ Len(packet) >= HeaderSize
  <2>1. packet # <<>>
    BY <1>1, <1>4, EmptySeq DEF HeaderSize
  <2>2. /\ Len(heard) + 1 \in 1..Len(spoken)
        /\ packet[2] = Len(spoken[Len(heard) + 1].value)
    <3>1. Framed(packet \o (up \o tx), spoken, Len(heard))
      BY UpStream
    <3>2. PICK r \in Seq(Byte) : r = up \o tx
      BY <1>1
    <3>3. Framed(packet \o r, spoken, Len(heard))
      BY <3>1, <3>2
    <3>4. /\ spoken \in Seq(Frame) /\ Len(heard) \in Nat
          /\ \A k \in DOMAIN spoken : Fits(spoken[k])
      BY UpStream
    <3>5. QED
      BY <1>1, <1>4, <2>1, <3>3, <3>4, HeaderFront
  <2>3. packet[2] <= MaxValue /\ packet[2] \in Nat
    <3>1. Fits(spoken[Len(heard) + 1])
      BY <2>2, UpStream
    <3>2. packet[2] \in Byte
      <4>1. 2 \in 1..Len(packet)
        BY <1>1, <1>4 DEF HeaderSize
      <4>2. QED
        BY <1>1, <4>1, ElementOfSeq
    <3>3. QED
      BY <2>2, <3>1, <3>2, TypesAreBytes DEF Fits
  <2>4. QED
    BY <1>1, <1>4, <2>3 DEF Remaining, PacketSize, HeaderSize
<1>5. QED
  BY <1>1, <1>2, <1>3, <1>4 DEF Inv, ReadWithinPacket, HeaderSize

\* What a read brings of the stream: a part of a packet, or the rest of one,
\* which is then the packet that the firmware has sent.
LEMMA ReadUp ==
    ASSUME Inv, UpLine, ~oversized, Read
    PROVE  /\ Framed((packet' \o up') \o tx, spoken, Len(heard'))
           /\ \/ UNCHANGED <<heard, sending>>
              \/ /\ Len(heard) + 1 \in 1..Len(spoken)
                 /\ heard' = Append(heard, spoken[Len(heard) + 1])
                 /\ sending' = Reaction(spoken[Len(heard) + 1].type)
<1>1. PICK n \in Nat :
         /\ n <= Len(up) /\ n <= readSize
         /\ up' = SubSeq(up, n + 1, Len(up))
         /\ Overrun(n) \/ ReadPart(n) \/ ReadLast(n)
         /\ packet \o SubSeq(up, 1, n) \in Seq(Byte)
         /\ Len(packet \o SubSeq(up, 1, n)) = Len(packet) + n
  BY ReadStep
<1>2. PICK p \in Seq(Byte) : p = packet \o SubSeq(up, 1, n)
  BY <1>1
<1>3. /\ packet \in Seq(Byte) /\ up \in Seq(Byte) /\ tx \in Seq(Byte)
      /\ spoken \in Seq(Frame) /\ heard \in Seq(Frame) /\ Len(heard) \in Nat
      /\ Framed((packet \o up) \o tx, spoken, Len(heard))
      /\ \A k \in DOMAIN spoken : Fits(spoken[k])
  BY UpStream
<1>4. /\ up' \in Seq(Byte) /\ up' \o tx \in Seq(Byte)
      /\ (packet \o up) \o tx = p \o (up' \o tx)
      /\ (packet \o up) \o tx = (p \o up') \o tx
  <2>1. SplitAt(packet, up, tx, n)
    BY <1>1, <1>3, StreamRead
  <2>2. up' \in Seq(Byte) /\ up' \o tx \in Seq(Byte) /\ (packet \o up) \o tx = p \o (up' \o tx)
    BY <1>1, <1>2, <2>1 DEF SplitAt
  <2>3. PICK v \in Seq(Byte), w \in Seq(Byte) : v = up' /\ w = tx
    BY <1>3, <2>2
  <2>4. (p \o v) \o w = p \o (v \o w)
    BY JoinBytes
  <2>5. QED
    BY <2>2, <2>3, <2>4
<1>5. CASE Overrun(n)
  <2>1. Len(packet) \in Nat /\ readSize \in Nat /\ PacketSize \in Nat
    BY <1>3, LenProperties, SizesAssumption DEF Inv, TypeOK, PacketSize, HeaderSize
  <2>2. FALSE
    BY <1>1, <1>5, <2>1, RoomToRead DEF Overrun
  <2>3. QED
    BY <2>2
<1>6. CASE ReadPart(n)
  <2>1. packet' = p /\ UNCHANGED <<heard, sending>>
    BY <1>2, <1>6 DEF ReadPart
  <2>2. QED
    BY <1>3, <1>4, <2>1
<1>7. CASE ReadLast(n)
  <2>1. /\ Remaining(p) = 0
        /\ heard' = Append(heard, Fr(p[1], SubSeq(p, HeaderSize + 1, Len(p))))
        /\ sending' = Reaction(p[1])
        /\ packet' = <<>>
    BY <1>2, <1>7 DEF ReadLast
  <2>2. Len(p) \in Nat /\ Len(p) >= HeaderSize /\ p[2] = Len(p) - HeaderSize
    <3>0. Len(p) \in Nat
      BY LenProperties
    <3>1. Len(p) \in Nat /\ Len(p) >= HeaderSize
      <4>1. CASE Len(p) < HeaderSize
        <5>1. Remaining(p) = HeaderSize - Len(p)
          BY <4>1 DEF Remaining
        <5>2. FALSE
          BY <2>1, <3>0, <4>1, <5>1 DEF HeaderSize
        <5>3. QED
          BY <5>2
      <4>2. QED
        BY <3>0, <4>1 DEF HeaderSize
    <3>2. p[2] \in Nat
      <4>1. 2 \in 1..Len(p)
        BY <3>1 DEF HeaderSize
      <4>2. p[2] \in Byte
        BY <4>1, ElementOfSeq
      <4>3. QED
        BY <4>2, TypesAreBytes
    <3>3. QED
      BY <2>1, <3>1, <3>2 DEF Remaining, HeaderSize
  <2>3. /\ Len(heard) + 1 \in 1..Len(spoken)
        /\ spoken[Len(heard) + 1] = Fr(p[1], SubSeq(p, HeaderSize + 1, Len(p)))
        /\ Framed(up' \o tx, spoken, Len(heard) + 1)
    <3>1. Framed(p \o (up' \o tx), spoken, Len(heard))
      BY <1>3, <1>4
    <3>2. QED
      BY <1>3, <1>4, <2>2, <3>1, PacketFront
  <2>4. heard' = Append(heard, spoken[Len(heard) + 1])
    BY <2>1, <2>3
  <2>5. Len(heard') = Len(heard) + 1
    <3>1. spoken[Len(heard) + 1] \in Frame
      BY <1>3, <2>3, ElementOfSeq
    <3>2. QED
      BY <1>3, <2>4, <3>1, AppendProperties
  <2>6. packet' \o up' = up'
    BY <1>4, <2>1, ConcatEmptySeq
  <2>7. spoken[Len(heard) + 1].type = p[1]
    BY <2>3 DEF Fr
  <2>8. QED
    BY <2>1, <2>3, <2>4, <2>5, <2>6, <2>7
<1>8. QED
  BY <1>1, <1>5, <1>6, <1>7

\* What the interrupt has taken has been sent.
LEMMA SaidTaken ==
    ASSUME Inv, DownLine, NEW k \in DOMAIN taken
    PROVE  /\ k \in DOMAIN said /\ said[k] = taken[k]
           /\ HasSaid(taken[k].type)
<1>1. said \in Seq(Frame) /\ taken \in Seq(Frame)
  BY DEF Inv, TypeOK
<1>2. /\ DOMAIN said = 1..Len(said) /\ DOMAIN taken = 1..Len(taken)
      /\ Len(said) \in Nat /\ Len(taken) \in Nat
  BY <1>1, LenProperties
<1>3. Len(taken) <= Len(said) /\ taken[k] = said[k]
  BY DEF DownLine, Framed
<1>4. k \in DOMAIN said
  BY <1>2, <1>3
<1>5. QED
  BY <1>3, <1>4 DEF HasSaid

\* The proxy answers an acknowledgement with the table that follows.
LEMMA ReactionWhole ==
    ASSUME Inv, DownInv, NEW type, sending.mode = "idle", sending' = Reaction(type),
           UNCHANGED <<said, down, isrVars>>,
           type = DESCRIPTORS => HasSaid(DESCRIPTORS),
           type = INDEX => HasSaid(INDEX)
    PROVE  DownInv'
<1>1. \A t : HasSaid(t)' <=> HasSaid(t)
  BY DEF HasSaid
<1>2. /\ HasSaid(ENDPOINTS) => HasSaid(INDEX)
      /\ HasSaid(INDEX) => HasSaid(DESCRIPTORS)
  BY DEF DownInv, Handshake
<1>3. CASE type = DESCRIPTORS /\ ~HasSaid(INDEX)
  <2>1. sending' = Sending(INDEX, Data(TableSize[INDEX]))
    BY <1>3 DEF Reaction, DESCRIPTORS, INDEX, RESET
  <2>2. sending'.mode = "going" /\ sending'.type = INDEX /\ sending'.rest = Data(TableSize[INDEX])
    BY <2>1 DEF Sending
  <2>3. \A t : /\ Going(t)' => t = INDEX
               /\ Passed(t)' => Passed(t)
    BY <1>1, <2>2 DEF Going, Passed
  <2>4. INDEX \in StartupTypes
    BY DEF StartupTypes
  <2>5. /\ \A t \in StartupTypes :
              /\ Going(t)' => ~HasSaid(t) /\ sending'.rest = Data(TableSize[t])
              /\ Passed(t)' => Passed(t)
        /\ Going(DESCRIPTORS)' => ~HasSaid(ENDPOINTS)
        /\ Going(INDEX)' => HasSaid(DESCRIPTORS) /\ ~HasSaid(ENDPOINTS)
        /\ Going(ENDPOINTS)' => HasSaid(INDEX)
    BY <1>2, <1>3, <2>2, <2>3, TypesDiffer
  <2>6. /\ sending'.mode = "going" => sending'.type \in StartupTypes \cup ReplyTypes \cup {RESET}
        /\ ~(sending'.mode = "going" /\ sending'.type \in ReplyTypes)
        /\ ~Going(RESET)'
    BY <2>2, <2>3, <2>4, TypesDiffer
  <2>7. QED
    BY <2>5, <2>6, Resume
<1>4. CASE type = INDEX /\ ~HasSaid(ENDPOINTS)
  <2>1. sending' = Sending(ENDPOINTS, Data(TableSize[ENDPOINTS]))
    BY <1>4 DEF Reaction, DESCRIPTORS, INDEX, RESET
  <2>2. /\ sending'.mode = "going" /\ sending'.type = ENDPOINTS
        /\ sending'.rest = Data(TableSize[ENDPOINTS])
    BY <2>1 DEF Sending
  <2>3. \A t : /\ Going(t)' => t = ENDPOINTS
               /\ Passed(t)' => Passed(t)
    BY <1>1, <2>2 DEF Going, Passed
  <2>4. ENDPOINTS \in StartupTypes
    BY DEF StartupTypes
  <2>5. /\ \A t \in StartupTypes :
              /\ Going(t)' => ~HasSaid(t) /\ sending'.rest = Data(TableSize[t])
              /\ Passed(t)' => Passed(t)
        /\ Going(DESCRIPTORS)' => ~HasSaid(ENDPOINTS)
        /\ Going(INDEX)' => HasSaid(DESCRIPTORS) /\ ~HasSaid(ENDPOINTS)
        /\ Going(ENDPOINTS)' => HasSaid(INDEX)
    BY <1>2, <1>4, <2>2, <2>3, TypesDiffer
  <2>6. /\ sending'.mode = "going" => sending'.type \in StartupTypes \cup ReplyTypes \cup {RESET}
        /\ ~(sending'.mode = "going" /\ sending'.type \in ReplyTypes)
        /\ ~Going(RESET)'
    BY <2>2, <2>3, <2>4, TypesDiffer
  <2>7. QED
    BY <2>5, <2>6, Resume
<1>5. CASE sending' = sending \/ sending' = [sending EXCEPT !.mode = "leaving"]
  <2>1. sending'.mode # "going" /\ (sending'.mode = "idle" \/ sending'.mode = "leaving")
    BY <1>5 DEF Inv, TypeOK
  <2>2. \A t : ~Going(t)' /\ (Passed(t)' => Passed(t))
    BY <1>1, <2>1 DEF Going, Passed
  <2>3. QED
    BY <2>1, <2>2, Resume
<1>6. QED
  BY <1>3, <1>4, <1>5 DEF Reaction

LEMMA ReadWhole ==
    ASSUME Inv, WholeInv, Read
    PROVE  WholeInv'
<1>1. UNCHANGED <<tx, spoken, oversized, said, cut, down, isrVars>> /\ sending.mode = "idle"
  BY DEF Read, ReadUpTo
<1>2. SUFFICES ASSUME ~cut
               PROVE  DownInv' /\ FirmwareTalk' /\ UpLine'
  BY <1>1 DEF WholeInv
<1>3. DownInv /\ DownLine /\ FirmwareTalk /\ UpLine
  BY <1>2 DEF WholeInv, DownInv
<1>4. FirmwareTalk'
  BY <1>1, <1>3 DEF FirmwareTalk, isrVars
<1>5. CASE oversized
  <2>1. UpLine'
    BY <1>1, <1>5 DEF UpLine
  <2>2. HasSaid(INDEX) /\ HasSaid(DESCRIPTORS)
    <3>1. PICK k \in DOMAIN taken : taken[k].type = ENDPOINTS
      BY <1>3, <1>5 DEF FirmwareTalk
    <3>2. HasSaid(ENDPOINTS)
      BY <1>3, <3>1, SaidTaken
    <3>3. QED
      BY <1>3, <3>2 DEF DownInv, Handshake
  <2>3. PICK n \in Nat : Overrun(n) \/ ReadPart(n) \/ ReadLast(n)
    BY ReadStep
  <2>4. sending' = sending \/ \E type : sending' = Reaction(type)
    BY <2>3 DEF Overrun, ReadPart, ReadLast
  <2>5. Reaction(DEBUG) = sending
    BY DEF Reaction, DEBUG, DESCRIPTORS, INDEX, RESET
  <2>6. PICK type : sending' = Reaction(type)
    BY <2>4, <2>5
  <2>7. DownInv'
    BY <1>1, <1>3, <2>2, <2>6, ReactionWhole
  <2>8. QED
    BY <1>4, <2>1, <2>7
<1>6. CASE ~oversized
  <2>1. /\ spoken \in Seq(Frame) /\ heard \in Seq(Frame) /\ Len(heard) \in Nat
        /\ DOMAIN heard = 1..Len(heard) /\ Len(heard) <= Len(spoken)
        /\ DOMAIN spoken = 1..Len(spoken) /\ Len(spoken) \in Nat
        /\ \A k \in DOMAIN spoken : Fits(spoken[k])
    BY <1>3, <1>6, UpStream
  <2>2. /\ Framed((packet' \o up') \o tx, spoken, Len(heard'))
        /\ \/ UNCHANGED <<heard, sending>>
           \/ /\ Len(heard) + 1 \in 1..Len(spoken)
              /\ heard' = Append(heard, spoken[Len(heard) + 1])
              /\ sending' = Reaction(spoken[Len(heard) + 1].type)
    BY <1>3, <1>6, ReadUp
  <2>3. CASE UNCHANGED <<heard, sending>>
    <3>1. UpLine'
      BY <1>1, <1>3, <1>6, <2>1, <2>2, <2>3 DEF UpLine
    <3>2. Reaction(DEBUG) = sending /\ DEBUG # DESCRIPTORS /\ DEBUG # INDEX
      BY DEF Reaction, DEBUG, DESCRIPTORS, INDEX, RESET
    <3>3. sending' = Reaction(DEBUG)
      BY <2>3, <3>2
    <3>4. DownInv'
      BY <1>1, <1>3, <3>2, <3>3, ReactionWhole
    <3>5. QED
      BY <1>4, <3>1, <3>4
  <2>4. CASE /\ Len(heard) + 1 \in 1..Len(spoken)
             /\ heard' = Append(heard, spoken[Len(heard) + 1])
             /\ sending' = Reaction(spoken[Len(heard) + 1].type)
    <3> DEFINE f == spoken[Len(heard) + 1]
    <3>1. f \in Frame
      BY <2>1, <2>4, ElementOfSeq
    <3>2. /\ heard' \in Seq(Frame) /\ Len(heard') = Len(heard) + 1
          /\ \A i \in 1..Len(heard) : heard'[i] = heard[i]
          /\ heard'[Len(heard) + 1] = f
      BY <2>1, <2>4, <3>1, AppendProperties
    <3>3. DOMAIN heard' = 1..Len(heard) + 1
      BY <3>2, LenProperties
    <3>4. \A k \in DOMAIN heard' : heard'[k] = spoken[k]
      <4>1. \A k \in 1..Len(heard) : heard[k] = spoken[k]
        BY <1>3, <1>6, <2>1 DEF UpLine
      <4>2. \A k \in 1..Len(heard) + 1 : k \in 1..Len(heard) \/ k = Len(heard) + 1
        BY <2>1
      <4>3. QED
        BY <3>2, <3>3, <4>1, <4>2
    <3>5. UpLine'
      BY <1>1, <2>1, <2>2, <3>4 DEF UpLine
    <3>6. f.type \in StartupTypes => HasSaid(f.type)
      <4>1. SUFFICES ASSUME f.type \in StartupTypes
                     PROVE  HasSaid(f.type)
        OBVIOUS
      <4>2. PICK k \in DOMAIN taken : taken[k].type = f.type
        BY <1>3, <2>1, <2>4, <4>1 DEF FirmwareTalk
      <4>3. QED
        BY <1>3, <4>2, SaidTaken
    <3>7. PICK type : type = f.type
      OBVIOUS
    <3>8. /\ type = DESCRIPTORS => HasSaid(DESCRIPTORS)
          /\ type = INDEX => HasSaid(INDEX)
          /\ sending' = Reaction(type)
      BY <2>4, <3>6, <3>7 DEF StartupTypes
    <3>9. DownInv'
      BY <1>1, <1>3, <3>8, ReactionWhole
    <3>10. QED
      BY <1>4, <3>5, <3>9
  <2>5. QED
    BY <2>2, <2>3, <2>4
<1>7. QED
  BY <1>5, <1>6

-----------------------------------------------------------------------------
(* The main loop of the firmware. *)

\* A byte goes from the front of one sequence to the end of another.
FirstMoved(a, s) ==
    /\ Append(a, Head(s)) \in Seq(Byte) /\ Tail(s) \in Seq(Byte)
    /\ Append(a, Head(s)) \o Tail(s) = a \o s

LEMMA MoveFirst ==
    ASSUME NEW a \in Seq(Byte), NEW s \in Seq(Byte), s # <<>>
    PROVE  FirstMoved(a, s)
<1> DEFINE h == Head(s)
           t == Tail(s)
<1>1. h \in Byte /\ t \in Seq(Byte) /\ <<h>> \in Seq(Byte)
  BY HeadTailProperties
<1>2. <<h>> \o t = s
  <2>1. 1 \in 1..Len(s) /\ Len(s) \in 1..Len(s)
    <3>1. Len(s) \in Nat \ {0}
      BY EmptySeq
    <3>2. QED
      BY <3>1
  <2>2. SubSeq(s, 1, Len(s)) = <<s[1]>> \o SubSeq(s, 1 + 1, Len(s))
    BY <2>1, SubSeqRecursiveFirst
  <2>3. SubSeq(s, 1, Len(s)) = s
    BY SubSeqFull
  <2>4. h = s[1] /\ t = SubSeq(s, 2, Len(s))
    BY TailIsSubSeq
  <2>5. 1 + 1 = 2
    OBVIOUS
  <2>6. QED
    BY <2>2, <2>3, <2>4, <2>5
<1> HIDE DEF h, t
<1>3. Append(a, h) = a \o <<h>>
  BY <1>1, AppendIsConcat
<1>4. Append(a, h) \in Seq(Byte)
  BY <1>1, AppendProperties
<1>5. PICK b \in Seq(Byte), c \in Seq(Byte) : b = <<h>> /\ c = t
  BY <1>1
<1>6. (a \o b) \o c = a \o (b \o c)
  BY JoinBytes
<1>7. Append(a, h) \o t = a \o s
  BY <1>2, <1>3, <1>5, <1>6
<1>8. QED
  BY <1>1, <1>4, <1>7 DEF FirstMoved, h, t

\* Nothing that the proxy's side of the invariant is about changes.
LEMMA SameDown ==
    ASSUME DownInv, UNCHANGED <<sendVars, down, isrVars>>
    PROVE  DownInv'
<1>1. /\ sending' = sending /\ said' = said /\ down' = down
      /\ isr' = isr /\ stored' = stored /\ taken' = taken
  BY DEF sendVars, isrVars
<1>2. DownLine'
  BY <1>1 DEF DownInv, DownLine, Got
<1>3. InPieces(DESCRIPTORS)' /\ InPieces(INDEX)'
  BY <1>1 DEF DownInv, InPieces, Pieces, Going, Passed, HasSaid
<1>4. LastTable'
  BY <1>1 DEF DownInv, LastTable, Going
<1>5. Handshake'
  BY <1>1 DEF DownInv, Handshake, Going, HasSaid
<1>6. ProxyTalk'
  BY <1>1 DEF DownInv, ProxyTalk, Going
<1>7. QED
  BY <1>2, <1>3, <1>4, <1>5, <1>6 DEF DownInv

LEMMA AppendSpoken ==
    ASSUME Inv, NEW f \in Frame, spoken' = Append(spoken, f)
    PROVE  /\ Len(spoken) \in Nat /\ Len(spoken') = Len(spoken) + 1
           /\ spoken' \in Seq(Frame)
           /\ \A i \in 1..Len(spoken) : spoken'[i] = spoken[i]
           /\ spoken'[Len(spoken) + 1] = f
           /\ DOMAIN spoken = 1..Len(spoken) /\ DOMAIN spoken' = 1..Len(spoken) + 1
<1>1. spoken \in Seq(Frame)
  BY DEF Inv, TypeOK
<1>2. /\ Len(spoken) \in Nat /\ Len(spoken') = Len(spoken) + 1 /\ spoken' \in Seq(Frame)
      /\ \A i \in 1..Len(spoken) : spoken'[i] = spoken[i]
      /\ spoken'[Len(spoken) + 1] = f
      /\ DOMAIN spoken = 1..Len(spoken)
  BY <1>1, AppendProperties, LenProperties
<1>3. DOMAIN spoken' = 1..Len(spoken) + 1
  BY <1>2, LenProperties
<1>4. QED
  BY <1>2, <1>3

\* A packet that fits is added to the stream.
LEMMA MoreUp ==
    ASSUME Inv, UpLine, ~oversized', NEW f \in Frame, Fits(f), tx = <<>>,
           spoken' = Append(spoken, f), UNCHANGED <<packet, heard, oversized>>,
           (packet \o up') \o tx' = (packet \o up) \o Bytes(f)
    PROVE  UpLine'
<1>1. ~oversized
  OBVIOUS
<1>2. /\ packet \o up \in Seq(Byte)
      /\ spoken \in Seq(Frame) /\ heard \in Seq(Frame) /\ Len(heard) \in Nat
      /\ DOMAIN heard = 1..Len(heard) /\ Len(heard) <= Len(spoken)
      /\ DOMAIN spoken = 1..Len(spoken) /\ Len(spoken) \in Nat
      /\ Framed((packet \o up) \o tx, spoken, Len(heard))
      /\ \A k \in DOMAIN spoken : Fits(spoken[k])
  BY <1>1, UpStream
<1>3. (packet \o up) \o tx = packet \o up
  BY <1>2, ConcatEmptySeq
<1>4. Framed((packet \o up) \o Bytes(f), Append(spoken, f), Len(heard))
  BY <1>2, <1>3, FramedMore
<1>5. Framed((packet' \o up') \o tx', spoken', Len(heard'))
  BY <1>4
<1>6. /\ Len(spoken) \in Nat /\ Len(spoken') = Len(spoken) + 1
      /\ \A i \in 1..Len(spoken) : spoken'[i] = spoken[i]
      /\ spoken'[Len(spoken) + 1] = f
      /\ DOMAIN spoken = 1..Len(spoken) /\ DOMAIN spoken' = 1..Len(spoken) + 1
  BY AppendSpoken
<1>7. \A k \in DOMAIN heard' : heard'[k] = spoken'[k]
  <2>1. \A k \in DOMAIN heard : heard[k] = spoken[k] /\ k \in 1..Len(spoken)
    BY <1>1, <1>2 DEF UpLine
  <2>2. QED
    BY <1>6, <2>1
<1>8. \A k \in DOMAIN spoken' : Fits(spoken'[k])
  <2>1. \A k \in 1..Len(spoken) + 1 : k \in 1..Len(spoken) \/ k = Len(spoken) + 1
    BY <1>6
  <2>2. QED
    BY <1>2, <1>6, <2>1
<1>9. QED
  BY <1>5, <1>7, <1>8 DEF UpLine

LEMMA BeginWhole ==
    ASSUME Inv, WholeInv, BeginPacket
    PROVE  WholeInv'
<1>1. PICK f \in FirmwarePackets : f \in Frame /\ f.type \notin StartupTypes /\ Speak(f)
  BY SpokenPacket
<1>2. /\ started /\ tx = <<>> /\ spoken' = Append(spoken, f) /\ tx' = Bytes(f)
      /\ oversized' = (oversized \/ Len(f.value) > MaxValue)
      /\ UNCHANGED <<up, packet, readSize, heard, sendVars, down, isrVars>>
  BY <1>1 DEF BeginPacket, Speak
<1>3. SUFFICES ASSUME ~cut
               PROVE  DownInv' /\ FirmwareTalk' /\ UpLine'
  BY <1>2 DEF WholeInv, sendVars
<1>4. DownInv /\ FirmwareTalk /\ UpLine
  BY <1>3 DEF WholeInv
<1>5. DownInv'
  BY <1>2, <1>4, SameDown
<1>6. FirmwareTalk'
  <2>1. /\ Len(spoken) \in Nat
        /\ \A i \in 1..Len(spoken) : spoken'[i] = spoken[i]
        /\ spoken'[Len(spoken) + 1] = f
        /\ DOMAIN spoken = 1..Len(spoken) /\ DOMAIN spoken' = 1..Len(spoken) + 1
    BY <1>1, <1>2, AppendSpoken
  <2>2. \A k \in 1..Len(spoken) + 1 : k \in 1..Len(spoken) \/ k = Len(spoken) + 1
    BY <2>1
  <2>3. ASSUME NEW i \in DOMAIN spoken', spoken'[i].type \in StartupTypes
        PROVE  \E k \in DOMAIN taken' : taken'[k].type = spoken'[i].type
    <3>1. i \in DOMAIN spoken /\ spoken'[i] = spoken[i]
      BY <1>1, <2>1, <2>2, <2>3
    <3>2. QED
      BY <1>2, <1>4, <2>3, <3>1 DEF FirmwareTalk, isrVars
  <2>4. QED
    BY <1>2, <1>4, <2>3 DEF FirmwareTalk, isrVars
<1>7. UpLine'
  <2>1. CASE oversized'
    BY <2>1 DEF UpLine
  <2>2. CASE ~oversized'
    <3>1. Len(f.value) \in Nat /\ MaxValue \in Nat
      BY <1>1, BytesOf, SizesAssumption
    <3>2. Fits(f) /\ UNCHANGED oversized
      <4>1. ~(Len(f.value) > MaxValue) /\ oversized \in BOOLEAN
        BY <1>2, <2>2 DEF Inv, TypeOK
      <4>2. UNCHANGED oversized
        BY <1>2, <4>1
      <4>3. Len(f.value) <= MaxValue
        BY <3>1, <4>1
      <4>4. QED
        BY <4>2, <4>3 DEF Fits
    <3>3. (packet \o up') \o tx' = (packet \o up) \o Bytes(f)
      BY <1>2
    <3>4. QED
      BY <1>1, <1>2, <1>4, <2>2, <3>2, <3>3, MoreUp
  <2>3. QED
    BY <2>1, <2>2
<1>8. QED
  BY <1>5, <1>6, <1>7

LEMMA SendWhole ==
    ASSUME Inv, WholeInv, SendByte
    PROVE  WholeInv'
<1>1. /\ tx # <<>> /\ up' = Append(up, Head(tx)) /\ tx' = Tail(tx)
      /\ UNCHANGED <<packet, readSize, spoken, heard, oversized, sendVars, down, isrVars>>
  BY DEF SendByte
<1>2. SUFFICES ASSUME ~cut
               PROVE  DownInv' /\ FirmwareTalk' /\ UpLine'
  BY <1>1 DEF WholeInv, sendVars
<1>3. DownInv /\ FirmwareTalk /\ UpLine
  BY <1>2 DEF WholeInv
<1>4. DownInv'
  BY <1>1, <1>3, SameDown
<1>5. FirmwareTalk'
  BY <1>1, <1>3 DEF FirmwareTalk, isrVars
<1>6. UpLine'
  <2>1. CASE oversized
    BY <1>1, <2>1 DEF UpLine
  <2>2. CASE ~oversized
    <3>1. /\ packet \in Seq(Byte) /\ up \in Seq(Byte) /\ tx \in Seq(Byte)
          /\ (packet \o up) \o tx = packet \o (up \o tx)
      BY <1>3, <2>2, UpStream
    <3>2. FirstMoved(up, tx)
      BY <1>1, <3>1, MoveFirst
    <3>3. up' \in Seq(Byte) /\ tx' \in Seq(Byte) /\ up' \o tx' = up \o tx
      BY <1>1, <3>2 DEF FirstMoved
    <3>4. PICK x \in Seq(Byte), y \in Seq(Byte), z \in Seq(Byte) : x = packet /\ y = up' /\ z = tx'
      BY <3>1, <3>3
    <3>5. (x \o y) \o z = x \o (y \o z)
      BY JoinBytes
    <3>6. (packet' \o up') \o tx' = (packet \o up) \o tx
      BY <1>1, <3>1, <3>3, <3>4, <3>5
    <3>7. QED
      BY <1>1, <1>3, <2>2, <3>6 DEF UpLine
  <2>3. QED
    BY <2>1, <2>2
<1>7. QED
  BY <1>4, <1>5, <1>6

-----------------------------------------------------------------------------
(* The interrupt of the firmware. *)

\* Where the interrupt is when it waits for a byte.
LEMMA RxFront ==
    ASSUME Inv, DownInv, down # <<>>, down' = Tail(down)
    PROVE  /\ Got \in Seq(Byte) /\ Head(down) \in Byte /\ Head(down) \in Nat /\ down' \in Seq(Byte)
           /\ Append(Got, Head(down)) \in Seq(Byte)
           /\ Append(Got, Head(down)) \o down' = Got \o down
           /\ said \in Seq(Frame) /\ taken \in Seq(Frame) /\ Len(taken) \in Nat
           /\ DOMAIN taken = 1..Len(taken) /\ DOMAIN said = 1..Len(said) /\ Len(said) \in Nat
           /\ Framed(Got \o down, said, Len(taken))
           /\ \A i \in DOMAIN said : said[i] \in ProxyPackets /\ Fits(said[i])
<1>1. down \in Seq(Byte) /\ said \in Seq(Frame) /\ taken \in Seq(Frame)
  BY DEF Inv, TypeOK
<1>2. Got \in Seq(Byte)
  BY GotType DEF DownInv
<1>3. FirstMoved(Got, down)
  BY <1>1, <1>2, MoveFirst
<1>4. Head(down) \in Byte /\ down' \in Seq(Byte)
  BY <1>1, HeadTailProperties
<1>5. Head(down) \in Nat
  BY <1>4, TypesAreBytes
<1>6. /\ Len(taken) \in Nat /\ DOMAIN taken = 1..Len(taken)
      /\ DOMAIN said = 1..Len(said) /\ Len(said) \in Nat
  BY <1>1, LenProperties
<1>7. Framed(Got \o down, said, Len(taken))
  BY DEF DownInv, DownLine
<1>8. \A i \in DOMAIN said : said[i] \in ProxyPackets
  BY DEF DownInv, ProxyTalk
<1>9. \A i \in DOMAIN said : Fits(said[i])
  BY <1>8, ProxyPacketFits
<1>10. Append(Got, Head(down)) \in Seq(Byte) /\ Append(Got, Head(down)) \o down' = Got \o down
  BY <1>3 DEF FirstMoved
<1>11. QED
  BY <1>1, <1>2, <1>4, <1>5, <1>6, <1>7, <1>8, <1>9, <1>10

\* The packet goes on.
LEMMA RxWaits ==
    ASSUME Inv, WholeInv, RxByte, UNCHANGED <<upVars, stored, started, taken>>,
           Got' = Append(Got, Head(down)),
           isr'.stage = "length" => isr'.value = <<>>,
           isr'.stage = "value" => isr'.left + Len(isr'.value) \in Byte
    PROVE  WholeInv'
<1>1. down # <<>> /\ down' = Tail(down) /\ UNCHANGED sendVars
  BY DEF RxByte
<1>2. /\ sending' = sending /\ said' = said /\ cut' = cut /\ stored' = stored
      /\ started' = started /\ taken' = taken
  BY <1>1 DEF sendVars
<1>3. SUFFICES ASSUME ~cut
               PROVE  DownInv' /\ FirmwareTalk' /\ UpLine'
  BY <1>2 DEF WholeInv
<1>4. DownInv /\ FirmwareTalk /\ UpLine
  BY <1>3 DEF WholeInv
<1>5. DownLine'
  <2>1. Framed(Got' \o down', said, Len(taken))
    BY <1>1, <1>4, RxFront
  <2>2. \A k \in DOMAIN taken : taken[k] = said[k]
    BY <1>4 DEF DownInv, DownLine
  <2>3. QED
    BY <1>2, <2>1, <2>2 DEF DownLine
<1>6. InPieces(DESCRIPTORS)' /\ InPieces(INDEX)'
  BY <1>2, <1>4 DEF DownInv, InPieces, Pieces, Going, Passed, HasSaid
<1>7. LastTable' /\ Handshake' /\ ProxyTalk'
  BY <1>2, <1>4 DEF DownInv, LastTable, Handshake, ProxyTalk, Going, HasSaid
<1>8. FirmwareTalk' /\ UpLine'
  BY <1>2, <1>4 DEF FirmwareTalk, UpLine, upVars
<1>9. QED
  BY <1>5, <1>6, <1>7, <1>8 DEF DownInv

\* The packet is whole: it is the next of those that the proxy has sent.
LEMMA RxWholePacket ==
    ASSUME Inv, DownInv, down # <<>>, down' = Tail(down), UNCHANGED said,
           NEW p \in Seq(Byte), p = Append(Got, Head(down)),
           Len(p) >= HeaderSize, p[2] = Len(p) - HeaderSize,
           taken' = Append(taken, Fr(p[1], SubSeq(p, HeaderSize + 1, Len(p)))),
           isr'.stage \in {"idle", "reset"}
    PROVE  /\ Len(taken) + 1 \in 1..Len(said)
           /\ said[Len(taken) + 1] = Fr(p[1], SubSeq(p, HeaderSize + 1, Len(p)))
           /\ DownLine'
<1>1. /\ down' \in Seq(Byte) /\ p \o down' = Got \o down
      /\ said \in Seq(Frame) /\ taken \in Seq(Frame) /\ Len(taken) \in Nat /\ Len(said) \in Nat
      /\ DOMAIN taken = 1..Len(taken)
      /\ Framed(Got \o down, said, Len(taken))
      /\ \A i \in DOMAIN said : Fits(said[i])
  BY RxFront
<1>2. PICK r \in Seq(Byte) : r = down'
  BY <1>1
<1>3. Framed(p \o r, said, Len(taken))
  BY <1>1, <1>2
<1>4. /\ Len(taken) + 1 \in 1..Len(said)
      /\ said[Len(taken) + 1] = Fr(p[1], SubSeq(p, HeaderSize + 1, Len(p)))
      /\ Framed(r, said, Len(taken) + 1)
  BY <1>1, <1>3, PacketFront
<1>5. said[Len(taken) + 1] \in Frame
  BY <1>1, <1>4, ElementOfSeq
<1>6. /\ Len(taken') = Len(taken) + 1 /\ taken' \in Seq(Frame)
      /\ taken'[Len(taken) + 1] = said[Len(taken) + 1]
      /\ \A i \in 1..Len(taken) : taken'[i] = taken[i]
  BY <1>1, <1>4, <1>5, AppendProperties
<1>7. Got' = <<>>
  BY DEF Got
<1>8. Framed(Got' \o down', said', Len(taken'))
  BY <1>1, <1>2, <1>4, <1>6, <1>7, ConcatEmptySeq
<1>9. \A k \in DOMAIN taken' : taken'[k] = said'[k]
  <2>1. DOMAIN taken' = 1..Len(taken) + 1
    BY <1>6, LenProperties
  <2>2. \A k \in 1..Len(taken) : taken[k] = said[k]
    BY <1>1 DEF DownInv, DownLine
  <2>3. \A k \in 1..Len(taken) + 1 : k \in 1..Len(taken) \/ k = Len(taken) + 1
    BY <1>1
  <2>4. QED
    BY <1>6, <2>1, <2>2, <2>3
<1>10. QED
  BY <1>4, <1>8, <1>9 DEF DownLine

\* p is the bytes of a header and of a value.
Packet(p, a, b, v) ==
    /\ p = <<a, b>> \o v
    /\ Len(p) \in Nat /\ Len(v) \in Nat /\ Len(p) = HeaderSize + Len(v)
    /\ p[1] = a /\ p[2] = b /\ SubSeq(p, HeaderSize + 1, Len(p)) = v

LEMMA HeaderValue ==
    ASSUME NEW a \in Byte, NEW b \in Byte, NEW v \in Seq(Byte)
    PROVE  \E p \in Seq(Byte) : Packet(p, a, b, v)
<1> DEFINE h == <<a, b>>
           p == h \o v
<1>1. Len(v) \in Nat
  BY LenProperties
<1>2. h \in Seq(Byte) /\ Len(h) = 2 /\ h[1] = a /\ h[2] = b
  OBVIOUS
<1> HIDE DEF h
<1>3. /\ p \in Seq(Byte) /\ Len(p) = 2 + Len(v)
      /\ \A i \in 1..2 + Len(v) : p[i] = IF i <= 2 THEN h[i] ELSE v[i - 2]
  <2>1. /\ h \o v \in Seq(Byte) /\ Len(h \o v) = Len(h) + Len(v)
        /\ \A i \in 1..Len(h) + Len(v) : (h \o v)[i] = IF i <= Len(h) THEN h[i] ELSE v[i - Len(h)]
    BY <1>2, ConcatProperties
  <2>2. QED
    BY <1>2, <2>1
<1> HIDE DEF p
<1>4. p[1] = a /\ p[2] = b
  <2>1. 1 \in 1..2 + Len(v) /\ 2 \in 1..2 + Len(v)
    BY <1>1
  <2>2. QED
    BY <1>2, <1>3, <2>1
<1>5. SubSeq(p, 3, Len(p)) = v
  <2>1. PICK n \in Nat, q \in Seq(Byte) : n = Len(v) /\ q = p /\ Len(q) = 2 + n
    BY <1>1, <1>3
  <2>2. PICK u : u = SubSeq(q, 3, Len(q))
    OBVIOUS
  <2>3. /\ u \in Seq(Byte) /\ Len(u) = IF 3 <= Len(q) THEN Len(q) - 3 + 1 ELSE 0
        /\ \A i \in 1..Len(q) - 3 + 1 : u[i] = q[3 + i - 1]
    BY <2>1, <2>2, SliceType
  <2>4. /\ (IF 3 <= 2 + n THEN 2 + n - 3 + 1 ELSE 0) = n /\ 2 + n - 3 + 1 = n
        /\ \A i \in 1..n : 3 + i - 1 = 2 + i /\ 2 + i \in 1..2 + n /\ ~(2 + i <= 2) /\ 2 + i - 2 = i
    OBVIOUS
  <2>5. Len(u) = Len(v)
    BY <2>1, <2>3, <2>4
  <2>6. \A i \in 1..Len(u) : u[i] = v[i]
    BY <1>3, <2>1, <2>3, <2>4, <2>5
  <2>7. u = v
    BY <2>3, <2>5, <2>6, SeqEqual
  <2>8. QED
    BY <2>1, <2>2, <2>7
<1>6. p = <<a, b>> \o v
  BY DEF p, h
<1>7. /\ p = <<a, b>> \o v
      /\ Len(p) \in Nat /\ Len(v) \in Nat /\ Len(p) = HeaderSize + Len(v)
      /\ p[1] = a /\ p[2] = b /\ SubSeq(p, HeaderSize + 1, Len(p)) = v
  BY <1>1, <1>3, <1>4, <1>5, <1>6 DEF HeaderSize
<1>8. QED
  BY <1>3, <1>7 DEF Packet

\* The stored piece of a table grows by the piece that is taken.
LEMMA TakePieces ==
    ASSUME Inv, NEW t \in {DESCRIPTORS, INDEX}, InPieces(t), DownLine,
           Len(taken) + 1 \in 1..Len(said), NEW f, f = said[Len(taken) + 1],
           taken' = Append(taken, f), UNCHANGED <<said, sending>>,
           stored'[t] = IF f.type = t THEN stored[t] \o f.value ELSE stored[t]
    PROVE  InPieces(t)'
<1> DEFINE data == Data(TableSize[t])
<1>1. t \in StartupTypes
  BY DEF StartupTypes
<1>2. data \in Seq(Byte) /\ TableSize[t] \in Nat /\ Len(data) = TableSize[t]
  BY <1>1, TableData
<1>3. said \in Seq(Frame) /\ taken \in Seq(Frame) /\ Len(taken) \in Nat /\ Len(said) \in Nat
  BY LenProperties DEF Inv, TypeOK
<1>4. f \in Frame
  BY <1>3, ElementOfSeq
<1>5. Len(taken') = Len(taken) + 1
  BY <1>3, <1>4, AppendProperties
<1>6. PICK off : Pieces(off, t)
  BY DEF InPieces
<1> HIDE DEF data
<1>7. PICK n \in Nat : n = Len(taken)
  BY <1>3
<1>8. /\ n \in 0..Len(said) /\ n + 1 \in 0..Len(said) /\ n + 1 \in 1..Len(said)
      /\ n <= n + 1 /\ (n + 1) - 1 = n
  BY <1>3, <1>7
<1>9. /\ off \in [0..Len(said) -> 0..TableSize[t]]
      /\ \A i, j \in 0..Len(said) : i <= j => off[i] <= off[j]
      /\ \A i \in 1..Len(said) :
            /\ said[i].type = t => said[i].value = SubSeq(data, off[i - 1] + 1, off[i])
            /\ said[i].type # t => off[i] = off[i - 1]
      /\ stored[t] = SubSeq(data, 1, off[n])
  BY <1>6, <1>7 DEF Pieces, data
<1>10. PICK a \in Nat, b \in Nat :
          /\ a = off[n] /\ b = off[n + 1] /\ a <= b /\ b <= TableSize[t]
  <2>1. off[n] \in 0..TableSize[t] /\ off[n + 1] \in 0..TableSize[t]
    BY <1>8, <1>9
  <2>2. off[n] <= off[n + 1]
    BY <1>8, <1>9
  <2>3. QED
    BY <1>2, <2>1, <2>2
<1>11. stored'[t] = SubSeq(data, 1, b)
  <2>1. CASE f.type = t
    <3>1. said[n + 1].value = SubSeq(data, off[(n + 1) - 1] + 1, off[n + 1])
      BY <1>7, <1>8, <1>9, <2>1
    <3>2. f.value = SubSeq(data, a + 1, b)
      BY <1>7, <1>8, <1>10, <3>1
    <3>3. SubSeq(data, 1, a) \o SubSeq(data, a + 1, b) = SubSeq(data, 1, b)
      <4>1. 1 \in 1..Len(data) + 1 /\ a \in 1 - 1..Len(data) /\ b \in a..Len(data)
        BY <1>2, <1>10
      <4>2. QED
        BY <1>2, <4>1, ConcatAdjacentSubSeq
    <3>4. QED
      BY <1>9, <1>10, <2>1, <3>2, <3>3
  <2>2. CASE f.type # t
    <3>1. off[n + 1] = off[(n + 1) - 1]
      BY <1>7, <1>8, <1>9, <2>2
    <3>2. a = b
      BY <1>8, <1>10, <3>1
    <3>3. QED
      BY <1>9, <1>10, <2>2, <3>2
  <2>3. QED
    BY <2>1, <2>2
<1>12. stored'[t] = SubSeq(data, 1, off[Len(taken')])
  BY <1>5, <1>7, <1>10, <1>11
<1>13. Pieces(off, t)'
  BY <1>6, <1>12 DEF Pieces, Going, Passed, HasSaid, data
<1>14. QED
  BY <1>13 DEF InPieces

\* What the interrupt sends back, and what follows from it.
LEMMA TakeTalk ==
    ASSUME Inv, DownInv, FirmwareTalk, UpLine, ~cut,
           Len(taken) + 1 \in 1..Len(said), NEW f, f = said[Len(taken) + 1],
           f \in Frame, f.type # RESET, taken' = Append(taken, f),
           Complete(f.type, f.value)
    PROVE  FirmwareTalk' /\ UpLine'
<1> DEFINE n == Len(taken)
           g == Fr(f.type, <<>>)
<1>1. taken \in Seq(Frame) /\ n \in Nat /\ DOMAIN taken = 1..n /\ said \in Seq(Frame)
  BY LenProperties DEF Inv, TypeOK
<1>2. /\ taken' \in Seq(Frame) /\ Len(taken') = n + 1
      /\ \A i \in 1..n : taken'[i] = taken[i]
      /\ taken'[n + 1] = f
  BY <1>1, AppendProperties
<1>3. DOMAIN taken' = 1..n + 1 /\ \A i \in 1..n : i \in 1..n + 1
  BY <1>1, <1>2, LenProperties
<1>4. /\ started' = (started \/ f.type = ENDPOINTS)
      /\ up' = IF f.type \in StartupTypes THEN up \o Bytes(g) ELSE up
      /\ spoken' = IF f.type \in StartupTypes THEN Append(spoken, g) ELSE spoken
      /\ UNCHANGED <<tx, packet, readSize, heard, oversized>>
  BY DEF Complete
<1>5. f.type \in Byte /\ <<>> \in Seq(Byte)
  BY EmptySeq DEF Frame
<1>6. g \in Frame /\ g.type = f.type /\ g.value = <<>>
  BY <1>5, FrameType DEF Fr
<1>7. Fits(g)
  <2>1. Len(<<>>) = 0 /\ MaxValue \in Nat
    BY EmptySeq, SizesAssumption
  <2>2. QED
    BY <1>6, <2>1 DEF Fits
<1> HIDE DEF n, g
<1>8. \A type : (\E k \in DOMAIN taken : taken[k].type = type) => \E k \in DOMAIN taken' : taken'[k].type = type
  BY <1>1, <1>2, <1>3
<1>9. \E k \in DOMAIN taken' : taken'[k].type = f.type
  <2>1. n + 1 \in DOMAIN taken'
    BY <1>1, <1>3
  <2>2. QED
    BY <1>2, <2>1
<1>10. CASE f.type \notin StartupTypes
  <2>1. UNCHANGED <<up, spoken>>
    BY <1>4, <1>10
  <2>2. UpLine'
    BY <1>4, <2>1 DEF UpLine
  <2>3. FirmwareTalk'
    <3>1. \A i \in DOMAIN spoken' : spoken'[i].type \in StartupTypes =>
             \E k \in DOMAIN taken' : taken'[k].type = spoken'[i].type
      BY <1>8, <2>1 DEF FirmwareTalk
    <3>2. oversized' \/ tx' # <<>> => started'
      BY <1>4 DEF FirmwareTalk
    <3>3. started' => \E k \in DOMAIN taken' : taken'[k].type = ENDPOINTS
      BY <1>4, <1>8, <1>9 DEF FirmwareTalk
    <3>4. QED
      BY <3>1, <3>2, <3>3 DEF FirmwareTalk
  <2>4. QED
    BY <2>2, <2>3
<1>11. CASE f.type \in StartupTypes
  <2>1. ~started
    <3>1. SUFFICES ASSUME started PROVE FALSE
      OBVIOUS
    <3>2. PICK k \in DOMAIN taken : taken[k].type = ENDPOINTS
      BY <3>1 DEF FirmwareTalk
    <3>3. k \in DOMAIN said /\ said[k] = taken[k]
      BY SaidTaken DEF DownInv
    <3>4. n + 1 \in DOMAIN said /\ k < n + 1
      <4>1. DOMAIN said = 1..Len(said)
        BY <1>1, LenProperties
      <4>2. QED
        BY <1>1, <4>1 DEF n
    <3>5. said[n + 1].type \notin StartupTypes
      BY <3>2, <3>3, <3>4 DEF DownInv, Handshake
    <3>6. QED
      BY <1>11, <3>5 DEF n
  <2>2. ~oversized /\ tx = <<>>
    BY <2>1 DEF FirmwareTalk
  <2>3. spoken' = Append(spoken, g) /\ up' = up \o Bytes(g)
    BY <1>4, <1>11
  <2>4. (packet \o up') \o tx' = (packet \o up) \o Bytes(g)
    <3>1. packet \in Seq(Byte) /\ up \in Seq(Byte)
      BY DEF Inv, TypeOK
    <3>2. PICK x \in Seq(Byte), y \in Seq(Byte), z \in Seq(Byte) : x = packet /\ y = up /\ z = Bytes(g)
      BY <1>6, <3>1, BytesOf
    <3>3. (x \o y) \o z = x \o (y \o z)
      BY JoinBytes
    <3>4. x \o y \in Seq(Byte)
      BY ConcatProperties
    <3>5. (x \o y) \o z \in Seq(Byte)
      BY <3>4, ConcatProperties
    <3>6. ((x \o y) \o z) \o <<>> = (x \o y) \o z
      BY <3>5, ConcatEmptySeq
    <3>7. tx' = <<>> /\ up' = y \o z
      BY <1>4, <2>2, <2>3, <3>2
    <3>8. QED
      BY <3>2, <3>3, <3>6, <3>7
  <2>5. UpLine'
    BY <1>4, <1>6, <1>7, <2>2, <2>3, <2>4, MoreUp
  <2>6. FirmwareTalk'
    <3>1. /\ Len(spoken) \in Nat
          /\ \A i \in 1..Len(spoken) : spoken'[i] = spoken[i]
          /\ spoken'[Len(spoken) + 1] = g
          /\ DOMAIN spoken = 1..Len(spoken) /\ DOMAIN spoken' = 1..Len(spoken) + 1
      BY <1>6, <2>3, AppendSpoken
    <3>2. \A k \in 1..Len(spoken) + 1 : k \in 1..Len(spoken) \/ k = Len(spoken) + 1
      BY <3>1
    <3>3. ASSUME NEW i \in DOMAIN spoken', spoken'[i].type \in StartupTypes
          PROVE  \E k \in DOMAIN taken' : taken'[k].type = spoken'[i].type
      <4>1. CASE i \in DOMAIN spoken
        BY <1>8, <3>1, <3>3, <4>1 DEF FirmwareTalk
      <4>2. CASE i = Len(spoken) + 1
        BY <1>6, <1>9, <3>1, <4>2
      <4>3. QED
        BY <3>1, <3>2, <4>1, <4>2
    <3>4. QED
      BY <1>4, <1>8, <1>9, <2>1, <2>2, <3>3 DEF FirmwareTalk
  <2>7. QED
    BY <2>5, <2>6
<1>12. QED
  BY <1>10, <1>11

\* A packet of the proxy has been received.
LEMMA RxTakes ==
    ASSUME Inv, WholeInv, ~cut, RxByte,
           NEW p \in Seq(Byte), p = Append(Got, Head(down)), Len(p) >= HeaderSize,
           p[2] = Len(p) - HeaderSize, p[1] = isr.type,
           NEW value, value = SubSeq(p, HeaderSize + 1, Len(p)),
           \/ isr.type # RESET /\ Complete(isr.type, value)
           \/ /\ isr.type = RESET
              /\ isr' = Waiting("reset")
              /\ taken' = Append(taken, Fr(RESET, value))
              /\ UNCHANGED <<upVars, stored, started>>
    PROVE  WholeInv'
<1> DEFINE n == Len(taken)
<1>1. down # <<>> /\ down' = Tail(down) /\ UNCHANGED sendVars
  BY DEF RxByte
<1>2. sending' = sending /\ said' = said /\ cut' = cut
  BY <1>1 DEF sendVars
<1>3. SUFFICES DownInv' /\ FirmwareTalk' /\ UpLine'
  BY DEF WholeInv
<1>4. DownInv /\ FirmwareTalk /\ UpLine
  BY DEF WholeInv
<1>5. taken' = Append(taken, Fr(isr.type, value)) /\ isr'.stage \in {"idle", "reset"}
  BY DEF Complete, Waiting
<1>6. /\ said \in Seq(Frame) /\ taken \in Seq(Frame) /\ n \in Nat
      /\ DOMAIN taken = 1..n /\ DOMAIN said = 1..Len(said) /\ Len(said) \in Nat
      /\ \A i \in DOMAIN said : said[i] \in ProxyPackets
  BY <1>1, <1>4, RxFront
<1>7. /\ n + 1 \in 1..Len(said)
      /\ said[n + 1] = Fr(p[1], SubSeq(p, HeaderSize + 1, Len(p)))
      /\ DownLine'
  BY <1>1, <1>2, <1>4, <1>5, RxWholePacket
<1>8. PICK f : f = said[n + 1] /\ f = Fr(isr.type, value)
  BY <1>7
<1>9. f.type = isr.type /\ f.value = value
  <2>1. Fr(isr.type, value).type = isr.type /\ Fr(isr.type, value).value = value
    BY DEF Fr
  <2>2. f = Fr(isr.type, value)
    BY <1>8
  <2>3. QED
    BY <2>1, <2>2
<1>10. f \in Frame /\ f.type \in Received /\ f \in ProxyPackets
  BY <1>6, <1>7, <1>8, ProxyPacketFits
<1>11. taken' = Append(taken, f)
  BY <1>5, <1>8
<1>12. /\ Len(taken') = n + 1 /\ taken' \in Seq(Frame)
       /\ taken'[n + 1] = f
       /\ \A i \in 1..n : taken'[i] = taken[i]
  BY <1>6, <1>10, <1>11, AppendProperties
<1>13. DOMAIN taken' = 1..n + 1 /\ \A k \in 1..n + 1 : k \in 1..n \/ k = n + 1
  BY <1>6, <1>12, LenProperties
<1>14. \A t \in StartupTypes :
          stored'[t] = IF f.type # t THEN stored[t]
                       ELSE IF t \in {DESCRIPTORS, INDEX} THEN stored[t] \o f.value
                       ELSE f.value
  <2>1. stored \in [Received -> Seq(Byte)] /\ StartupTypes \subseteq Received
    BY TypesAreBytes DEF Inv, TypeOK
  <2>2. CASE isr.type # RESET /\ Complete(isr.type, value)
    <3>1. stored' = [stored EXCEPT ![f.type] = IF f.type \in {DESCRIPTORS, INDEX} THEN stored[f.type] \o f.value
                                               ELSE f.value]
      BY <1>9, <2>2 DEF Complete
    <3>2. QED
      BY <1>10, <2>1, <3>1
  <2>3. CASE isr.type = RESET /\ UNCHANGED <<upVars, stored, started>>
    BY <1>9, <2>3, TypesDiffer
  <2>4. QED
    BY <2>2, <2>3
<1>15. InPieces(DESCRIPTORS)' /\ InPieces(INDEX)'
  <2>1. ASSUME NEW t \in {DESCRIPTORS, INDEX}
        PROVE  InPieces(t)'
    <3>1. InPieces(t) /\ DownLine
      BY <1>4 DEF DownInv
    <3>2. stored'[t] = IF f.type = t THEN stored[t] \o f.value ELSE stored[t]
      BY <1>14 DEF StartupTypes
    <3>3. QED
      BY <1>2, <1>7, <1>8, <1>11, <3>1, <3>2, TakePieces
  <2>2. QED
    BY <2>1
<1>16. LastTable'
  <2> DEFINE data == Data(TableSize[ENDPOINTS])
  <2>1. /\ Going(ENDPOINTS) => sending.rest = data
        /\ \A i \in DOMAIN said : said[i].type = ENDPOINTS => said[i].value = data
        /\ \A i \in DOMAIN taken : taken[i].type = ENDPOINTS => stored[ENDPOINTS] = data
    BY <1>4 DEF DownInv, LastTable
  <2>2. stored'[ENDPOINTS] = IF f.type # ENDPOINTS THEN stored[ENDPOINTS] ELSE f.value
    BY <1>14, TypesDiffer DEF StartupTypes
  <2>3. f.type = ENDPOINTS => f.value = data
    BY <1>6, <1>7, <1>8, <2>1
  <2>4. ASSUME NEW i \in DOMAIN taken', taken'[i].type = ENDPOINTS
        PROVE  stored'[ENDPOINTS] = data
    <3>1. CASE f.type = ENDPOINTS
      BY <2>2, <2>3, <3>1
    <3>2. CASE f.type # ENDPOINTS
      <4>1. i \in DOMAIN taken /\ taken[i].type = ENDPOINTS
        BY <1>6, <1>12, <1>13, <2>4, <3>2
      <4>2. QED
        BY <2>1, <2>2, <3>2, <4>1
    <3>3. QED
      BY <3>1, <3>2
  <2>5. QED
    BY <1>2, <2>1, <2>4 DEF LastTable, Going
<1>17. Handshake' /\ ProxyTalk'
  BY <1>2, <1>4 DEF DownInv, Handshake, ProxyTalk, Going, HasSaid
<1>18. FirmwareTalk' /\ UpLine'
  <2>1. CASE isr.type # RESET /\ Complete(isr.type, value)
    <3>1. Complete(f.type, f.value) /\ f.type # RESET
      BY <1>9, <2>1
    <3>2. QED
      BY <1>4, <1>7, <1>8, <1>10, <1>11, <3>1, TakeTalk
  <2>2. CASE isr.type = RESET /\ UNCHANGED <<upVars, stored, started>>
    <3>1. \A type : (\E k \in DOMAIN taken : taken[k].type = type) =>
                       \E k \in DOMAIN taken' : taken'[k].type = type
      <4>1. \A k \in 1..n : k \in 1..n + 1
        BY <1>6
      <4>2. QED
        BY <1>6, <1>12, <1>13, <4>1
    <3>2. \A i \in DOMAIN spoken' : spoken'[i].type \in StartupTypes =>
             \E k \in DOMAIN taken' : taken'[k].type = spoken'[i].type
      BY <1>4, <2>2, <3>1 DEF FirmwareTalk, upVars
    <3>3. oversized' \/ tx' # <<>> => started'
      BY <1>4, <2>2 DEF FirmwareTalk, upVars
    <3>4. started' => \E k \in DOMAIN taken' : taken'[k].type = ENDPOINTS
      BY <1>4, <2>2, <3>1 DEF FirmwareTalk
    <3>5. UpLine'
      BY <1>4, <2>2 DEF UpLine, upVars
    <3>6. QED
      BY <3>2, <3>3, <3>4, <3>5 DEF FirmwareTalk
  <2>3. QED
    BY <2>1, <2>2
<1>19. QED
  BY <1>7, <1>15, <1>16, <1>17, <1>18 DEF DownInv

LEMMA RxTypeWhole ==
    ASSUME Inv, WholeInv, RxByte, RxType
    PROVE  WholeInv'
<1>1. isr.stage = "idle" /\ UNCHANGED <<upVars, stored, started, taken>>
  BY DEF RxType
<1>2. isr'.stage = "length" /\ isr'.type = Head(down) /\ isr'.value = <<>>
  BY DEF RxType, Waiting
<1>3. Got = <<>> /\ Got' = <<Head(down)>>
  BY <1>1, <1>2 DEF Got
<1>4. Append(<<>>, Head(down)) = <<Head(down)>>
  OBVIOUS
<1>5. Got' = Append(Got, Head(down))
  BY <1>3, <1>4
<1>6. QED
  BY <1>1, <1>2, <1>5, RxWaits

LEMMA AppendTwo ==
    ASSUME NEW a \in Byte, NEW b \in Byte
    PROVE  Append(<<a>>, b) = <<a, b>>
<1> DEFINE s == Append(<<a>>, b)
           t == <<a, b>>
<1>1. <<a>> \in Seq(Byte) /\ Len(<<a>>) = 1 /\ <<a>>[1] = a
  OBVIOUS
<1>2. s \in Seq(Byte) /\ Len(s) = 2 /\ s[1] = a /\ s[2] = b
  BY <1>1, AppendProperties
<1>3. t \in Seq(Byte) /\ Len(t) = 2 /\ t[1] = a /\ t[2] = b
  OBVIOUS
<1> HIDE DEF s, t
<1>4. \A i \in 1..2 : s[i] = t[i]
  BY <1>2, <1>3
<1>5. s = t
  BY <1>2, <1>3, <1>4, SeqEqual
<1>6. QED
  BY <1>5 DEF s, t

LEMMA NoBytes == Len(<<>>) = 0 /\ <<>> \in Seq(Byte)
BY EmptySeq

LEMMA RxLengthWhole ==
    ASSUME Inv, WholeInv, RxByte, RxLength
    PROVE  WholeInv'
<1>1. down # <<>> /\ down' = Tail(down) /\ UNCHANGED sendVars /\ isr.stage = "length"
  BY DEF RxByte, RxLength
<1>2. SUFFICES ASSUME ~cut
               PROVE  WholeInv'
  BY <1>1 DEF WholeInv, sendVars
<1>3. DownInv /\ isr.value = <<>> /\ isr \in [stage : Stages, type : Byte, left : Byte, value : Seq(Byte)]
  BY <1>1, <1>2 DEF WholeInv, DownInv, DownLine, Inv, TypeOK
<1>4. PICK type \in Byte, length \in Byte : type = isr.type /\ length = Head(down) /\ length \in Nat
  BY <1>1, <1>3, RxFront
<1>5. Got = <<type>>
  BY <1>1, <1>4 DEF Got
<1>6. Append(<<type>>, length) = <<type, length>>
  BY AppendTwo
<1>7. PICK p \in Seq(Byte) :
         /\ p = <<type, length>> \o <<>>
         /\ Len(p) \in Nat /\ Len(<<>>) \in Nat /\ Len(p) = HeaderSize + Len(<<>>)
         /\ p[1] = type /\ p[2] = length /\ SubSeq(p, HeaderSize + 1, Len(p)) = <<>>
  <2>1. \E q \in Seq(Byte) : Packet(q, type, length, <<>>)
    BY NoBytes, HeaderValue
  <2>2. QED
    BY <2>1 DEF Packet
<1>8. <<type, length>> \o <<>> = <<type, length>>
  <2>1. <<type, length>> \in Seq(Byte)
    OBVIOUS
  <2>2. QED
    BY <2>1, ConcatEmptySeq
<1>9. p = Append(Got, Head(down)) /\ Len(p) = 2 /\ HeaderSize = 2
  BY <1>4, <1>5, <1>6, <1>7, <1>8, EmptySeq DEF HeaderSize
<1>10. PICK f \in ProxyPackets : type = f.type /\ length = Len(f.value)
  <2>1. /\ down' \in Seq(Byte) /\ p \o down' = Got \o down
        /\ said \in Seq(Frame) /\ Len(taken) \in Nat /\ DOMAIN said = 1..Len(said)
        /\ Framed(Got \o down, said, Len(taken))
        /\ \A i \in DOMAIN said : said[i] \in ProxyPackets /\ Fits(said[i])
    BY <1>1, <1>3, <1>9, RxFront
  <2>2. PICK r \in Seq(Byte) : r = down'
    BY <2>1
  <2>3. Framed(p \o r, said, Len(taken)) /\ p # <<>>
    <3>1. Framed(p \o r, said, Len(taken))
      BY <2>1, <2>2
    <3>2. p # <<>>
      BY <1>9, NoBytes
    <3>3. QED
      BY <3>1, <3>2
  <2>4. /\ Len(taken) + 1 \in 1..Len(said)
        /\ p[1] = said[Len(taken) + 1].type
        /\ Len(p) >= HeaderSize => p[2] = Len(said[Len(taken) + 1].value)
    BY <2>1, <2>3, HeaderFront
  <2>5. said[Len(taken) + 1] \in ProxyPackets
    BY <2>1, <2>4
  <2>6. QED
    BY <1>7, <1>9, <2>4, <2>5
<1>11. type \in Received /\ (type = RESET => length = 0)
  BY <1>10, ProxyPacketFits, EmptySeq
<1>12. CASE length = 0 \/ type = RESET
  <2>1. length = 0 /\ p[2] = Len(p) - HeaderSize /\ Len(p) >= HeaderSize
    BY <1>7, <1>9, <1>11, <1>12
  <2>2. PICK value : value = <<>> /\ value = SubSeq(p, HeaderSize + 1, Len(p))
    BY <1>7
  <2>3. \/ isr.type # RESET /\ Complete(isr.type, value)
        \/ /\ isr.type = RESET
           /\ isr' = Waiting("reset")
           /\ taken' = Append(taken, Fr(RESET, value))
           /\ UNCHANGED <<upVars, stored, started>>
    <3>1. CASE type = RESET
      BY <1>4, <1>11, <2>2, <3>1 DEF RxLength
    <3>2. CASE type # RESET
      BY <1>4, <1>11, <2>1, <2>2, <3>2 DEF RxLength
    <3>3. QED
      BY <3>1, <3>2
  <2>4. QED
    BY <1>2, <1>4, <1>7, <1>9, <2>1, <2>2, <2>3, RxTakes
<1>13. CASE length # 0 /\ type # RESET
  <2>1. isr' = [isr EXCEPT !.stage = "value", !.left = length] /\ UNCHANGED <<upVars, stored, started, taken>>
    BY <1>4, <1>11, <1>13 DEF RxLength
  <2>2. isr'.stage = "value" /\ isr'.type = type /\ isr'.left = length /\ isr'.value = <<>>
    BY <1>3, <1>4, <2>1
  <2>3. length + Len(<<>>) = length
    BY <1>4, NoBytes
  <2>4. Got' = Append(Got, Head(down))
    BY <1>7, <1>9, <2>2, <2>3 DEF Got
  <2>5. isr'.left + Len(isr'.value) \in Byte
    BY <2>2, <2>3
  <2>6. QED
    BY <2>1, <2>2, <2>4, <2>5, RxWaits
<1>14. QED
  BY <1>12, <1>13

\* A byte more of a value, behind its header.
Behind(a, b, v, h) == Append(<<a, b>> \o v, h) = <<a, b>> \o Append(v, h)

LEMMA AppendBehind ==
    ASSUME NEW a \in Byte, NEW b \in Byte, NEW v \in Seq(Byte), NEW h \in Byte
    PROVE  Behind(a, b, v, h)
<1>0. <<a, b>> \in Seq(Byte) /\ <<h>> \in Seq(Byte)
  OBVIOUS
<1>1. PICK x \in Seq(Byte) : x = <<a, b>>
  BY <1>0
<1>2. PICK y \in Seq(Byte) : y = <<h>>
  BY <1>0
<1>3. (x \o v) \o y = x \o (v \o y)
  BY JoinBytes
<1>4. x \o v \in Seq(Byte)
  BY ConcatProperties
<1>5. Append(v, h) = v \o y
  BY <1>2, AppendIsConcat
<1>6. ASSUME NEW w \in Seq(Byte)
      PROVE  Append(w, h) = w \o y
  BY <1>2, AppendIsConcat
<1>7. Append(x \o v, h) = (x \o v) \o y
  BY <1>4, <1>6
<1>8. QED
  BY <1>1, <1>3, <1>5, <1>7 DEF Behind

LEMMA RxValueWhole ==
    ASSUME Inv, WholeInv, RxByte, RxValue
    PROVE  WholeInv'
<1>1. down # <<>> /\ down' = Tail(down) /\ UNCHANGED sendVars /\ isr.stage = "value"
  BY DEF RxByte, RxValue
<1>2. SUFFICES ASSUME ~cut
               PROVE  WholeInv'
  BY <1>1 DEF WholeInv, sendVars
<1>3. /\ DownInv /\ isr.left + Len(isr.value) \in Byte
      /\ isr \in [stage : Stages, type : Byte, left : Byte, value : Seq(Byte)]
      /\ isr.type # RESET
  BY <1>1, <1>2 DEF WholeInv, DownInv, DownLine, Inv, TypeOK
<1>4. PICK type \in Byte, byte \in Byte, old \in Seq(Byte), left \in Nat, total \in Byte :
         /\ type = isr.type /\ byte = Head(down) /\ old = isr.value /\ left = isr.left
         /\ total = isr.left + Len(isr.value)
  <2>1. Head(down) \in Byte /\ isr.left \in Nat
    BY <1>1, <1>3, RxFront, TypesAreBytes
  <2>2. QED
    BY <1>3, <2>1
<1>5. PICK new \in Seq(Byte) : new = Append(old, byte) /\ Len(new) = Len(old) + 1 /\ Len(old) \in Nat
  BY AppendProperties, LenProperties
<1>6. PICK p \in Seq(Byte) :
         /\ p = <<type, total>> \o new
         /\ Len(p) \in Nat /\ Len(new) \in Nat /\ Len(p) = HeaderSize + Len(new)
         /\ p[1] = type /\ p[2] = total /\ SubSeq(p, HeaderSize + 1, Len(p)) = new
  <2>1. \E p \in Seq(Byte) : Packet(p, type, total, new)
    BY HeaderValue
  <2>2. QED
    BY <2>1 DEF Packet
<1>7. Got = <<type, total>> \o old
  BY <1>1, <1>4 DEF Got
<1>8. Append(<<type, total>> \o old, byte) = <<type, total>> \o Append(old, byte)
  <2>1. Behind(type, total, old, byte)
    BY AppendBehind
  <2>2. QED
    BY <2>1 DEF Behind
<1>9. p = Append(Got, Head(down))
  BY <1>4, <1>5, <1>6, <1>7, <1>8
<1>10. CASE isr.left = 1 /\ Complete(isr.type, new)
  <2>1. total = Len(new)
    BY <1>4, <1>5, <1>10
  <2>2. Len(p) >= HeaderSize /\ p[2] = Len(p) - HeaderSize
    BY <1>6, <2>1 DEF HeaderSize
  <2>3. p[1] = isr.type
    BY <1>4, <1>6
  <2>4. PICK value : value = SubSeq(p, HeaderSize + 1, Len(p)) /\ value = new
    BY <1>6
  <2>5. isr.type # RESET /\ Complete(isr.type, value)
    BY <1>3, <1>10, <2>4
  <2>6. QED
    BY <1>2, <1>9, <2>2, <2>3, <2>4, <2>5, RxTakes
<1>11. CASE /\ isr' = [isr EXCEPT !.left = @ - 1, !.value = new]
            /\ UNCHANGED <<upVars, stored, started, taken>>
  <2>1. isr'.stage = "value" /\ isr'.type = type /\ isr'.left = left - 1 /\ isr'.value = new
    BY <1>1, <1>3, <1>4, <1>11
  <2>2. isr'.left + Len(isr'.value) = total
    <3>1. left - 1 + Len(new) = left + Len(old)
      BY <1>5
    <3>2. QED
      BY <1>4, <2>1, <3>1
  <2>3. Got' = Append(Got, Head(down))
    BY <1>6, <1>9, <2>1, <2>2 DEF Got
  <2>4. QED
    BY <1>11, <2>1, <2>2, <2>3, RxWaits
<1>12. QED
  BY <1>4, <1>5, <1>10, <1>11 DEF RxValue

-----------------------------------------------------------------------------
LEMMA WholeInit ==
    ASSUME Init, Inv
    PROVE  WholeInv
<1>1. /\ tx = <<>> /\ up = <<>> /\ down = <<>> /\ packet = <<>> /\ spoken = <<>> /\ heard = <<>>
      /\ said = <<>> /\ taken = <<>> /\ ~oversized /\ ~started
      /\ sending = Sending(DESCRIPTORS, Data(TableSize[DESCRIPTORS]))
      /\ isr = Waiting("idle") /\ stored = [t \in Received |-> <<>>]
  BY DEF Init
<1>2. /\ sending.mode = "going" /\ sending.type = DESCRIPTORS
      /\ sending.rest = Data(TableSize[DESCRIPTORS])
  BY <1>1 DEF Sending
<1>3. /\ isr.stage = "idle" /\ Got = <<>>
  BY <1>1 DEF Waiting, Got
<1>4. Len(said) = 0 /\ Len(taken) = 0 /\ Len(heard) = 0
  BY <1>1, NoBytes
<1>5. DOMAIN said = {} /\ DOMAIN taken = {} /\ DOMAIN spoken = {} /\ DOMAIN heard = {}
  BY <1>1
<1>6. <<>> \o <<>> = <<>>
  BY NoBytes, ConcatEmptySeq
<1>7. said \in Seq(Frame) /\ spoken \in Seq(Frame)
  BY DEF Inv, TypeOK
<1>8. DownLine
  <2>1. Framed(<<>>, said, Len(said))
    BY <1>7, FramedNone
  <2>2. QED
    BY <1>1, <1>3, <1>4, <1>5, <1>6, <2>1 DEF DownLine
<1>9. ASSUME NEW t \in {DESCRIPTORS, INDEX}
      PROVE  InPieces(t)
  <2> DEFINE off == [i \in 0..0 |-> 0]
             data == Data(TableSize[t])
  <2>1. t \in StartupTypes /\ t \in Received
    BY TypesAreBytes DEF StartupTypes
  <2>2. data \in Seq(Byte) /\ TableSize[t] \in Nat /\ Len(data) = TableSize[t]
    BY <2>1, TableData
  <2>3. off \in [0..0 -> 0..TableSize[t]] /\ off[0] = 0 /\ \A i, j \in 0..0 : off[i] <= off[j]
    BY <2>2
  <2>4. ~HasSaid(t)
    BY <1>5 DEF HasSaid
  <2>5. SubSeq(data, 1, 0) = <<>> /\ SubSeq(data, 0 + 1, TableSize[t]) = data
    BY <2>2, SubSeqEmpty, SubSeqFull
  <2>6. stored[t] = <<>>
    BY <1>1, <2>1
  <2>7. sending.type = t => sending.rest = data
    BY <1>2
  <2>8. 1..0 = {}
    OBVIOUS
  <2> HIDE DEF off, data
  <2>9. Pieces(off, t)
    BY <1>4, <2>3, <2>4, <2>5, <2>6, <2>7, <2>8 DEF Pieces, Going, Passed, data
  <2>10. QED
    BY <2>9 DEF InPieces
<1>10. LastTable
  BY <1>2, <1>5, TypesDiffer DEF LastTable, Going
<1>11. Handshake
  BY <1>2, <1>5, TypesDiffer DEF Handshake, Going, HasSaid
<1>12. ProxyTalk
  BY <1>2, <1>5, TypesDiffer DEF ProxyTalk, Going, StartupTypes
<1>13. FirmwareTalk
  BY <1>1, <1>5 DEF FirmwareTalk
<1>14. UpLine
  <2>1. Framed(<<>>, spoken, Len(spoken))
    BY <1>7, FramedNone
  <2>2. QED
    BY <1>1, <1>4, <1>5, <1>6, <2>1 DEF UpLine
<1>15. QED
  BY <1>8, <1>9, <1>10, <1>11, <1>12, <1>13, <1>14 DEF WholeInv, DownInv

LEMMA WholeStep ==
    ASSUME Inv, WholeInv, [Next]_vars
    PROVE  WholeInv'
<1>1. CASE UNCHANGED vars
  <2>1. UNCHANGED <<sendVars, down, isrVars, upVars, cut>>
    BY <1>1 DEF vars, sendVars
  <2>2. SUFFICES ASSUME ~cut
                 PROVE  DownInv' /\ FirmwareTalk' /\ UpLine'
    BY <2>1 DEF WholeInv
  <2>3. DownInv'
    BY <2>1, <2>2, SameDown DEF WholeInv
  <2>4. FirmwareTalk' /\ UpLine'
    BY <2>1, <2>2 DEF WholeInv, FirmwareTalk, UpLine, upVars, isrVars
  <2>5. QED
    BY <2>3, <2>4
<1>2. CASE RxByte
  BY <1>2, RxTypeWhole, RxLengthWhole, RxValueWhole DEF RxByte
<1>3. CASE Next
  BY <1>2, <1>3, WriteWhole, AnswerWhole, ReadWhole, BeginWhole, SendWhole DEF Next
<1>4. QED
  BY <1>1, <1>3

LEMMA WholeAlways == Spec => [](Inv /\ WholeInv)
<1>1. Init => Inv /\ WholeInv
  BY InitInv, WholeInit
<1>2. Inv /\ WholeInv /\ [Next]_vars => Inv' /\ WholeInv'
  BY StepInv, WholeStep
<1>3. QED
  BY <1>1, <1>2, PTL DEF Spec

-----------------------------------------------------------------------------
\* The buffer of adapter_recv has room for what it asks of the line (adapter.c:
\* 63-85), as long as no request is above the limit of README.md:77 and no
\* write is short.
THEOREM FramingNeverCritical == Spec => []NeverCritical
<1>1. Inv /\ WholeInv => NeverCritical
  BY RoomToRead DEF WholeInv, NeverCritical
<1>2. QED
  BY <1>1, WholeAlways, PTL

\* A device that has started has the whole of every table.
LEMMA StartedWhole ==
    ASSUME Inv, WholeInv, started, ~cut, NEW t \in StartupTypes
    PROVE  stored[t] = Data(TableSize[t])
<1>1. DownInv /\ FirmwareTalk
  BY DEF WholeInv
<1>2. PICK k \in DOMAIN taken : taken[k].type = ENDPOINTS
  BY <1>1 DEF FirmwareTalk
<1>3. CASE t = ENDPOINTS
  BY <1>1, <1>2, <1>3 DEF DownInv, LastTable
<1>4. CASE t \in {DESCRIPTORS, INDEX}
  <2> DEFINE data == Data(TableSize[t])
  <2>1. data \in Seq(Byte) /\ TableSize[t] \in Nat /\ Len(data) = TableSize[t]
    BY TableData
  <2>2. PICK off : Pieces(off, t)
    BY <1>1, <1>4 DEF DownInv, InPieces
  <2>3. k \in DOMAIN said /\ said[k].type = ENDPOINTS
    BY <1>1, <1>2, SaidTaken DEF DownInv
  <2>4. /\ said \in Seq(Frame) /\ taken \in Seq(Frame)
        /\ DOMAIN taken = 1..Len(taken) /\ DOMAIN said = 1..Len(said)
        /\ Len(taken) \in Nat /\ Len(said) \in Nat
    BY LenProperties DEF Inv, TypeOK
  <2>5. Len(taken) <= Len(said)
    BY <1>1 DEF DownInv, DownLine, Framed
  <2>6. PICK n \in 0..Len(said) : n = Len(taken)
    <3>1. \A a, b \in Nat : a <= b => a \in 0..b
      OBVIOUS
    <3>2. Len(taken) \in 0..Len(said)
      BY <2>4, <2>5, <3>1
    <3>3. QED
      BY <3>2
  <2>7. k \in 1..Len(said) /\ k \in 0..Len(said) /\ k <= n
    BY <2>3, <2>4, <2>6
  <2> HIDE DEF data
  <2>8. /\ off \in [0..Len(said) -> 0..TableSize[t]]
        /\ off[k] <= off[n]
        /\ said[k].type \in Later(t) => off[k] = TableSize[t]
        /\ stored[t] = SubSeq(data, 1, off[n])
    BY <2>2, <2>6, <2>7 DEF Pieces, data
  <2>9. off[k] = TableSize[t]
    BY <1>4, <2>3, <2>8 DEF Later
  <2>10. off[n] \in 0..TableSize[t]
    BY <2>8
  <2>11. off[n] = TableSize[t]
    BY <2>1, <2>8, <2>9, <2>10
  <2>12. SubSeq(data, 1, TableSize[t]) = data
    BY <2>1, SubSeqFull
  <2>13. QED
    BY <2>8, <2>11, <2>12 DEF data
<1>5. QED
  BY <1>3, <1>4 DEF StartupTypes

\* The firmware starts with the tables of the proxy, whole and in order, however
\* many packets they need (adapter.c:100-119, emu.c:98-109, 121-123).
THEOREM FramingTablesWhole == Spec => []TablesWhole
<1>1. Inv /\ WholeInv => TablesWhole
  BY StartedWhole DEF TablesWhole
<1>2. QED
  BY <1>1, WholeAlways, PTL

-----------------------------------------------------------------------------
(* The line implements PacketLine, in both directions. *)

\* A packet has been taken, or none; with it goes an acknowledgement, or none.
LEMMA RxOutcome ==
    ASSUME Inv, RxByte
    PROVE  /\ UNCHANGED <<sending, said, cut, heard, oversized>>
           /\ taken' = taken \/ \E g \in Frame : taken' = Append(taken, g)
           /\ spoken' = spoken \/ \E g \in FirmwarePackets : spoken' = Append(spoken, g)
<1>1. /\ isr \in [stage : Stages, type : Byte, left : Byte, value : Seq(Byte)]
      /\ down \in Seq(Byte) /\ down # <<>> /\ RESET \in Byte
  BY TypesAreBytes DEF Inv, TypeOK, RxByte
<1>2. ASSUME NEW value \in Seq(Byte), Complete(isr.type, value)
      PROVE  /\ UNCHANGED <<heard, oversized>>
             /\ \E g \in Frame : taken' = Append(taken, g)
             /\ spoken' = spoken \/ \E g \in FirmwarePackets : spoken' = Append(spoken, g)
  <2>1. Fr(isr.type, value) \in Frame
    BY <1>1, FrameType
  <2>2. isr.type \in StartupTypes => Fr(isr.type, <<>>) \in FirmwarePackets
    BY DEF FirmwarePackets
  <2>3. QED
    BY <1>2, <2>1, <2>2 DEF Complete
<1>3. UNCHANGED <<sending, said, cut>>
  BY DEF RxByte, sendVars
<1>4. CASE UNCHANGED <<upVars, stored, started, taken>>
  BY <1>3, <1>4 DEF upVars
<1>5. CASE RxType
  BY <1>4, <1>5 DEF RxType
<1>6. CASE RxLength
  <2>1. CASE /\ taken' = Append(taken, Fr(RESET, <<>>))
             /\ UNCHANGED <<upVars, stored, started>>
    <3>1. Fr(RESET, <<>>) \in Frame
      BY <1>1, NoBytes, FrameType
    <3>2. QED
      BY <1>3, <2>1, <3>1 DEF upVars
  <2>2. CASE Complete(isr.type, <<>>)
    BY <1>2, <1>3, <2>2, NoBytes
  <2>3. QED
    BY <1>4, <1>6, <2>1, <2>2 DEF RxLength
<1>7. CASE RxValue
  <2>1. Append(isr.value, Head(down)) \in Seq(Byte)
    BY <1>1, HeadTailProperties, AppendProperties
  <2>2. QED
    BY <1>2, <1>3, <1>4, <1>7, <2>1 DEF RxValue
<1>8. QED
  BY <1>5, <1>6, <1>7 DEF RxByte

\* Nothing mends the line.
LEMMA StaysBroken ==
    ASSUME Inv, [Next]_vars
    PROVE  (oversized => oversized') /\ (cut => cut')
<1>1. CASE WritePacket
  <2>1. cut => cut'
    BY <1>1 DEF WritePacket, WriteSome
  <2>2. oversized' = oversized
    BY <1>1 DEF WritePacket, WriteSome, upVars
  <2>3. QED
    BY <2>1, <2>2
<1>2. CASE Answer \/ Leave
  BY <1>2 DEF Answer, Leave, upVars
<1>3. CASE Read
  BY <1>3 DEF Read, ReadUpTo
<1>4. CASE BeginPacket
  <2>1. PICK f \in FirmwarePackets : Speak(f)
    BY <1>4, SpokenPacket
  <2>2. QED
    BY <2>1 DEF Speak, sendVars
<1>5. CASE SendByte
  BY <1>5 DEF SendByte, sendVars
<1>6. CASE RxByte
  BY <1>6, RxOutcome
<1>7. CASE UNCHANGED vars
  BY <1>7 DEF vars, upVars, sendVars
<1>8. QED
  BY <1>1, <1>2, <1>3, <1>4, <1>5, <1>6, <1>7 DEF Next

LEMMA UpStep ==
    ASSUME Inv, WholeInv, [Next]_vars
    PROVE  [Upward!Next]_<<spoken, heard, (oversized \/ cut)>>
<1>1. CASE oversized' \/ cut'
  <2>1. Upward!Break
    BY <1>1 DEF Upward!Break
  <2>2. QED
    BY <2>1 DEF Upward!Next
<1>2. CASE ~oversized' /\ ~cut'
  <2>1. ~oversized /\ ~cut
    BY <1>2, StaysBroken
  <2>2. (oversized \/ cut)' = (oversized \/ cut)
    BY <1>2, <2>1
  <2>3. ASSUME NEW f \in FirmwarePackets, spoken' = Append(spoken, f), heard' = heard
        PROVE  Upward!Next
    BY <2>2, <2>3 DEF Upward!Next, Upward!Send
  <2>4. CASE UNCHANGED <<spoken, heard>>
    BY <2>2, <2>4
  <2>5. CASE WritePacket \/ UNCHANGED vars
    BY <2>4, <2>5 DEF WritePacket, WriteSome, vars, upVars
  <2>6. CASE Answer \/ Leave
    BY <2>4, <2>6 DEF Answer, Leave, upVars
  <2>7. CASE Read
    <3>1. UpLine /\ spoken' = spoken
      BY <2>1, <2>7 DEF WholeInv, Read, ReadUpTo
    <3>2. \/ heard' = heard
          \/ /\ Len(heard) + 1 \in 1..Len(spoken)
             /\ heard' = Append(heard, spoken[Len(heard) + 1])
      BY <2>1, <2>7, <3>1, ReadUp
    <3>3. Len(heard) \in Nat /\ Len(spoken) \in Nat
      BY <2>1, <3>1, UpStream
    <3>4. CASE /\ Len(heard) + 1 \in 1..Len(spoken)
               /\ heard' = Append(heard, spoken[Len(heard) + 1])
      <4>1. Len(heard) < Len(spoken)
        BY <3>3, <3>4
      <4>2. Upward!Arrive
        BY <2>1, <2>2, <3>1, <3>4, <4>1 DEF Upward!Arrive
      <4>3. QED
        BY <4>2 DEF Upward!Next
    <3>5. QED
      BY <2>4, <3>1, <3>2, <3>4
  <2>8. CASE BeginPacket
    <3>1. PICK f \in FirmwarePackets : Speak(f)
      BY <2>8, SpokenPacket
    <3>2. QED
      BY <2>3, <3>1 DEF Speak
  <2>9. CASE SendByte
    BY <2>4, <2>9 DEF SendByte
  <2>10. CASE RxByte
    <3>1. heard' = heard /\ (spoken' = spoken \/ \E g \in FirmwarePackets : spoken' = Append(spoken, g))
      BY <2>10, RxOutcome
    <3>2. QED
      BY <2>3, <2>4, <3>1
  <2>11. QED
    BY <2>5, <2>6, <2>7, <2>8, <2>9, <2>10 DEF Next
<1>3. QED
  BY <1>1, <1>2

LEMMA DownStep ==
    ASSUME Inv, WholeInv, Inv', WholeInv', [Next]_vars
    PROVE  [Downward!Next]_<<said, taken, cut>>
<1>1. CASE cut'
  <2>1. cut' = TRUE
    BY <1>1 DEF Inv, TypeOK
  <2>2. QED
    BY <2>1 DEF Downward!Next, Downward!Break
<1>2. CASE ~cut'
  <2>1. ~cut /\ DownInv /\ DownInv'
    BY <1>2, StaysBroken DEF WholeInv
  <2>2. cut' = cut
    BY <1>2, <2>1 DEF Inv, TypeOK
  <2>3. CASE UNCHANGED <<said, taken>>
    BY <2>2, <2>3
  <2>4. CASE WritePacket
    <3>1. taken' = taken /\ (said' = said \/ said' = Append(said, Written))
      BY <1>2, <2>4, WriteStep DEF isrVars
    <3>2. Written \in ProxyPackets
      BY <1>2, <2>4, WrittenPacket
    <3>3. CASE said' = Append(said, Written)
      <4>1. Downward!Send
        BY <2>2, <3>1, <3>2, <3>3 DEF Downward!Send
      <4>2. QED
        BY <4>1 DEF Downward!Next
    <3>4. QED
      BY <2>3, <3>1, <3>3
  <2>5. CASE Answer \/ Leave
    BY <2>3, <2>5 DEF Answer, Leave, isrVars
  <2>6. CASE Read
    BY <2>3, <2>6 DEF Read, ReadUpTo, isrVars
  <2>7. CASE BeginPacket
    <3>1. PICK f \in FirmwarePackets : Speak(f)
      BY <2>7, SpokenPacket
    <3>2. QED
      BY <2>3, <3>1 DEF Speak, sendVars, isrVars
  <2>8. CASE SendByte
    BY <2>3, <2>8 DEF SendByte, sendVars, isrVars
  <2>9. CASE RxByte
    <3>1. said' = said /\ (taken' = taken \/ \E g \in Frame : taken' = Append(taken, g))
      BY <2>9, RxOutcome
    <3>2. ASSUME NEW g \in Frame, taken' = Append(taken, g)
          PROVE  Downward!Next
      <4>1. taken \in Seq(Frame) /\ said \in Seq(Frame)
        BY DEF Inv, TypeOK
      <4>2. /\ Len(taken) \in Nat /\ Len(said) \in Nat
            /\ taken' \in Seq(Frame) /\ Len(taken') = Len(taken) + 1 /\ taken'[Len(taken) + 1] = g
        BY <3>2, <4>1, AppendProperties, LenProperties
      <4>3. DOMAIN taken' = 1..Len(taken) + 1
        BY <4>2, LenProperties
      <4>4. Len(taken') <= Len(said') /\ \A k \in DOMAIN taken' : taken'[k] = said'[k]
        BY <2>1 DEF DownInv, DownLine, Framed
      <4>5. Len(taken) + 1 \in DOMAIN taken'
        BY <4>2, <4>3
      <4>6. g = said[Len(taken) + 1]
        BY <3>1, <4>2, <4>4, <4>5
      <4>7. Len(taken) < Len(said)
        BY <3>1, <4>2, <4>4
      <4>8. Downward!Arrive
        BY <2>1, <2>2, <3>1, <3>2, <4>6, <4>7 DEF Downward!Arrive
      <4>9. QED
        BY <4>8 DEF Downward!Next
    <3>3. QED
      BY <2>3, <3>1, <3>2
  <2>10. CASE UNCHANGED vars
    BY <2>3, <2>10 DEF vars, sendVars, isrVars
  <2>11. QED
    BY <2>4, <2>5, <2>6, <2>7, <2>8, <2>9, <2>10 DEF Next
<1>3. QED
  BY <1>1, <1>2

\* From the firmware to the PC, the bytes carry the packets that were sent, each
\* once and in order (adapter.c:49-90, emu.c:84-87), until a request does not fit
\* or a write is short.
THEOREM UpImplemented == Spec => UpChannel
<1>1. Init => Upward!Init
  <2>1. ASSUME Init
        PROVE  (oversized \/ cut) = FALSE
    BY <2>1 DEF Init
  <2>2. QED
    BY <2>1 DEF Init, Upward!Init
<1>2. Inv /\ WholeInv /\ [Next]_vars => [Upward!Next]_<<spoken, heard, (oversized \/ cut)>>
  BY UpStep
<1>3. QED
  BY <1>1, <1>2, WholeAlways, PTL DEF Spec, UpChannel, Upward!Spec

\* From the PC to the firmware, they do until a write is short (adapter.c:100-119,
\* emu.c:73-82, async.c:250), and what is sent is what Serial's packets stand for.
THEOREM DownImplemented == Spec => DownChannel
<1>1. Init => Downward!Init
  BY DEF Init, Downward!Init
<1>2. Inv /\ WholeInv /\ Inv' /\ WholeInv' /\ [Next]_vars => [Downward!Next]_<<said, taken, cut>>
  BY DownStep
<1>3. QED
  BY <1>1, <1>2, WholeAlways, PTL DEF Spec, DownChannel, Downward!Spec
=============================================================================
