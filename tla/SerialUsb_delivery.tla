------------------------- MODULE SerialUsb_delivery -------------------------
(***************************************************************************)
(* What is handed over arrives, for any number of endpoints, reports and   *)
(* packets, until the first event that may lose something (Calm): the full *)
(* OUT packets are all accounted for, and the path of the reports is the   *)
(* pipe of ReportPipe.                                                     *)
(***************************************************************************)
EXTENDS SerialUsb_transfers

-----------------------------------------------------------------------------
(* The inductive invariants. *)

\* The banks hold packets only once the host has configured the device, with a
\* request that is no longer pending.
BusInv ==
    /\ IsFiniteSet(issued)
    /\ setup \in issued \union {0}
    /\ usbState \in {"Configured", "Suspended"} =>
          \E c \in issued \intersect ConfigRequests : c # setup
    /\ usbState \in {"Off", "Default"} => inBank = EmptyInBanks /\ outBank = EmptyOutBanks
    /\ pc = "boot" => usbState = "Off"
    /\ usbState = "Off" => pc \in {"boot", "hardreset"}

\* The endpoint gets full packets only.
FullOnly(n) == OutSizes[n] = {"full"}

\* The bank that ReceiveNextOutput clears after it has read a full packet still
\* holds that packet, and the packet that it reads piecemeal is a short one.
BankInv ==
    /\ \A n \in EmuOut :
          outBank[n] = NoPacket \/ (outBank[n].size \in OutSizes[n] /\ outBank[n].data # 0)
    /\ returnTo = "out_clear" => ~FullOnly(outPkt.ep)
    /\ Calm /\ pc = "out_clear" /\ FullOnly(outPkt.ep) =>
          outPkt.data # 0 /\ outBank[outPkt.ep] # NoPacket

Accounted ==
    Calm => \A e \in OutEps : FullOnly(U2S[e]) => OutPlaces(e) = sentOut[U2S[e]]

-----------------------------------------------------------------------------
(* The bus. *)

\* Away from the start the main loop never returns to it.
LEMMA MainRuns ==
    ASSUME TypeInv, EmuMain, ~Boot
    PROVE  pc \notin {"boot", "hardreset"} /\ pc' \notin {"boot", "hardreset"}
<1>0. returnTo \in {"input", "out_clear"}
  BY DEF TypeInv, TypeOK, EmuTypeOK
<1> USE DEF Goto, TaskReturns
<1>1. CASE TaskSkipped \/ ReceiveNextOutput
  BY <1>1 DEF TaskSkipped, ReceiveNextOutput, OutputNothing, OutputPoll, OutputClear, OutputSend
<1>2. CASE SendNextInput
  BY <1>2, SendNextInputFrame
<1>3. CASE USBTask
  BY <1>0, <1>3 DEF USBTask, UsbTaskNothing, ClearSetFeature, SetHalt, ClearHalt, RequestStatus,
                    SetConfiguration, RequestTooBig, RequestForwarded
<1>4. CASE UnhandledControlRequest
  BY <1>0, <1>4 DEF UnhandledControlRequest, ControlClearReply, ControlClearStall, ControlSendIn,
       ControlReadSetup, ControlSendOut, ControlReadAborted, ControlWait, ControlReplied,
       ControlTimeout, ControlStalled, ControlAccepted, ControlReturnData, ControlWriteFirst,
       ControlWriteSecond, ControlWriteAborted
<1>5. QED
  BY <1>1, <1>2, <1>3, <1>4 DEF EmuMain

\* CLEAR_FEATURE(ENDPOINT_HALT), whichever endpoint it names.
HaltCleared == \E n \in EmuIn \union EmuOut : ClearHalt(n)

\* It empties a bank, and changes nothing else of what the reports and the
\* packets go through.
LEMMA ClearedBanks ==
    ASSUME TypeInv, HaltCleared
    PROVE  /\ setup \in ClearRequests /\ setup' = 0
           /\ pc = "usbtask" /\ pc' \in {"input", "out_clear"} /\ pc' = returnTo
           /\ returnTo' = "input"
           /\ UNCHANGED <<serialVars, input, outVars, usbState, got, hostVars>>
           /\ \A m \in EmuIn : inBank'[m] \in {inBank[m], 0}
           /\ \A m \in EmuOut : outBank'[m] \in {outBank[m], NoPacket}
           /\ inBank = EmptyInBanks => inBank' = EmptyInBanks
           /\ outBank = EmptyOutBanks => outBank' = EmptyOutBanks
<1>1. PICK n \in EmuIn \union EmuOut : ClearHalt(n)
  BY DEF HaltCleared
<1>2. /\ inBank' = [m \in EmuIn |-> IF m = n THEN 0 ELSE inBank[m]]
      /\ outBank' = [m \in EmuOut |-> IF m = n THEN NoPacket ELSE outBank[m]]
  BY <1>1 DEF ClearHalt
<1>3. /\ \A m \in EmuIn : inBank'[m] \in {inBank[m], 0}
      /\ inBank = EmptyInBanks => inBank' = EmptyInBanks
  BY <1>2 DEF EmptyInBanks
<1>4. /\ \A m \in EmuOut : outBank'[m] \in {outBank[m], NoPacket}
      /\ outBank = EmptyOutBanks => outBank' = EmptyOutBanks
  BY <1>2 DEF EmptyOutBanks
<1>5. returnTo \in {"input", "out_clear"}
  BY DEF TypeInv, TypeOK, EmuTypeOK
<1>6. QED
  BY <1>1, <1>3, <1>4, <1>5 DEF ClearHalt, TaskReturns

\* A step that changes no more of the bus than the pending request and, once
\* the host has reset the device, nothing of the banks.
LEMMA BusKept ==
    ASSUME BusInv, UNCHANGED <<usbState, issued>>, setup' \in {0, setup},
           usbState = "Default" \/ usbState = "Off" => UNCHANGED <<inBank, outBank>>,
           pc' = pc \/ (usbState # "Off" /\ pc' # "boot") \/ pc' = "hardreset"
    PROVE  BusInv'
<1>1. \A c \in ConfigRequests : c # 0
  BY RequestsAssumption DEF Requests, LibraryRequests
<1>2. QED
  BY <1>1 DEF BusInv

LEMMA MainBus ==
    ASSUME TypeInv, BusInv, EmuMain
    PROVE  BusInv'
<1> USE DEF usbVars, busVars, hostVars
<1>1. CASE Boot
  BY <1>1 DEF Boot, Goto, BusInv
<1>2. CASE SetConfiguration
  <2>1. /\ setup \in ConfigRequests /\ setup' = 0 /\ issued' = issued
        /\ usbState' = "Configured"
        /\ pc' \notin {"boot", "hardreset"}
    BY <1>2, MainRuns DEF SetConfiguration, Boot, Goto, hostVars
  <2>2. setup # 0
    BY <2>1, RequestsAssumption DEF Requests, LibraryRequests
  <2>3. setup \in issued' \intersect ConfigRequests /\ setup # setup'
    BY <2>1, <2>2 DEF BusInv
  <2>4. QED
    BY <2>1, <2>3 DEF BusInv
<1>3. CASE HaltCleared
  <2>1. pc' # "boot" /\ usbState # "Off"
    BY <1>3, ClearedBanks DEF BusInv
  <2>2. QED
    BY <1>3, <2>1, ClearedBanks, BusKept DEF BusInv
<1>4. CASE ~Boot /\ ~SetConfiguration /\ ~HaltCleared
  <2>0. pc \notin {"boot", "hardreset"} /\ pc' \notin {"boot", "hardreset"}
    BY <1>4, MainRuns
  <2>1. /\ UNCHANGED <<usbState, issued>> /\ setup' \in {0, setup}
        /\ usbState = "Default" => inBank' = inBank
        /\ outBank' = outBank \/ \E n : outBank' = [outBank EXCEPT ![n] = NoPacket]
    BY <1>4 DEF EmuMain, TaskSkipped, SendNextInput, InputNothing, InputFound, InputWrite,
         InputRelease, InputAck, ReceiveNextOutput, OutputNothing, OutputPoll, OutputClear,
         OutputSend, USBTask, UsbTaskNothing, ClearSetFeature, SetHalt, HaltCleared,
         RequestStatus, RequestTooBig, RequestForwarded,
         UnhandledControlRequest, ControlClearReply, ControlClearStall, ControlSendIn,
         ControlReadSetup, ControlSendOut, ControlReadAborted, ControlWait, ControlReplied,
         ControlTimeout, ControlStalled, ControlAccepted, ControlReturnData, ControlWriteFirst,
         ControlWriteSecond, ControlWriteAborted
  <2>2. usbState = "Default" => outBank' = outBank
    BY <2>1 DEF BusInv, EmptyOutBanks
  <2>3. usbState # "Off"
    BY <2>0 DEF BusInv
  <2>4. QED
    BY <2>0, <2>1, <2>2, <2>3, BusKept
<1>5. QED
  BY <1>1, <1>2, <1>3, <1>4

LEMMA HostBus ==
    ASSUME TypeInv, BusInv, HostStep
    PROVE  BusInv'
<1>0. pc' = pc
  BY DEF HostStep, emuVars, mainVars
<1> USE DEF hostVars
<1>1. CASE \E n \in EmuIn : HostReads(n)
  BY <1>0, <1>1, BusKept DEF HostReads
<1>2. CASE \E n \in EmuOut : HostWrites(n)
  BY <1>0, <1>2, BusKept DEF HostWrites
<1>3. CASE \E r \in Requests : HostSetup(r)
  <2>1. PICK r \in Requests : HostSetup(r)
    BY <1>3
  <2>2. /\ r \notin issued /\ setup' = r /\ issued' = issued \union {r}
        /\ UNCHANGED <<usbState, inBank, outBank>>
    BY <2>1 DEF HostSetup
  <2>3. IsFiniteSet(issued')
    BY <2>2, FS_AddElement DEF BusInv
  <2>4. QED
    BY <1>0, <2>2, <2>3 DEF BusInv
<1>4. CASE HostAbort
  BY <1>0, <1>4, BusKept DEF HostAbort
<1>5. CASE BusReset
  BY <1>0, <1>5 DEF BusReset, BusInv
<1>6. CASE BusSuspend \/ BusWakeUp
  BY <1>0, <1>6 DEF BusSuspend, BusWakeUp, BusInv
<1>7. QED
  BY <1>1, <1>2, <1>3, <1>4, <1>5, <1>6 DEF HostStep, UsbNext

LEMMA StepBus == TypeInv /\ BusInv /\ [Next]_vars => BusInv'
<1> SUFFICES ASSUME TypeInv, BusInv, [Next]_vars
             PROVE  BusInv'
  OBVIOUS
<1> USE DEF usbVars, busVars, hostVars, emuVars, mainVars
<1>1. CASE ProxyStep \/ UNCHANGED vars
  BY <1>1 DEF ProxyStep, vars, BusInv
<1>2. CASE EmuInterrupt
  BY <1>2, BusKept DEF EmuInterrupt, RxDescriptors, RxIndex, RxEndpoints, RxReset, RxControl,
                       RxControlStall, RxIn
<1>3. CASE Reboot
  BY <1>3 DEF Reboot, BusInv
<1>4. QED
  BY <1>1, <1>2, <1>3, MainBus, HostBus DEF Next, EmuStep, EmuNext

LEMMA AlwaysBus == Spec => []BusInv
<1>1. Init => BusInv
  BY FS_EmptySet DEF Init, UsbInit, EmuInit, BusInv
<1>2. QED
  BY <1>1, StepBus, AlwaysTypeInv, PTL DEF Spec

-----------------------------------------------------------------------------
(* Until the first event that may lose something. *)

\* Calm does not come back.
LEMMA CalmBefore ==
    ASSUME TypeInv, BusInv, [Next]_vars, Calm'
    PROVE  Calm /\ resets' = resets
<1>1. /\ issued \subseteq issued'
      /\ resets' = 0 => resets = 0
  <2>1. CASE ProxyStep \/ EmuStep \/ UNCHANGED vars
    <3>1. UNCHANGED hostVars
      BY <2>1, HostHistory DEF ProxyStep, vars, usbVars
    <3>2. QED
      BY <3>1 DEF hostVars
  <2>2. CASE HostStep
    BY <2>2, TroubleGrows DEF HostStep, UsbNext, HostReads, HostWrites, HostSetup, HostAbort,
                              BusReset, BusSuspend, BusWakeUp, hostVars
  <2>3. QED
    BY <2>1, <2>2 DEF Next
<1>2. phase' \in {"idle", "polling"} => phase \in {"idle", "polling"}
  BY DEF Next, EmuStep, HostStep, vars, ProxyStep, ProxyNext, ProxyLeave, UsbCallback,
         ProcessPacket, ProcessDescriptors, ProcessIndex, ProcessEndpoints, ProcessIn, ProcessOut,
         ProcessControl, ProcessDebug, ProcessReset, Receive, ProxyStart, ProxyStartFails,
         ReadDone, ReadFailed,
         ControlReadDone, ControlWriteDone, WriteDone, ProxyStop, InitTimeout, Closed, TimerTick,
         SendReset, Cancelled, ProxyExit, proxyVars
<1>3. /\ Cardinality(issued' \intersect ConfigRequests) \in Nat
      /\ Cardinality(issued \intersect ConfigRequests) \in Nat
      /\ Cardinality(issued \intersect ConfigRequests) <= Cardinality(issued' \intersect ConfigRequests)
  <2>1. IsFiniteSet(issued')
    BY StepBus DEF BusInv
  <2>2. IsFiniteSet(issued' \intersect ConfigRequests)
    BY <2>1, FS_Subset
  <2>3. issued \intersect ConfigRequests \in SUBSET (issued' \intersect ConfigRequests)
    BY <1>1
  <2>4. QED
    BY <2>2, <2>3, FS_Subset, FS_CardinalityType
<1>4. QED
  BY <1>1, <1>2, <1>3 DEF Calm

\* Until then nothing resets the firmware or the bus, no SET_CONFIGURATION
\* finds anything in the banks, and no end of a halt empties one.
LEMMA CalmSteps ==
    ASSUME TypeInv, TokenInv, BusInv, [Next]_vars, Calm'
    PROVE  /\ ~RxReset /\ ~Reboot
           /\ ~(HostStep /\ BusReset)
           /\ SetConfiguration => inBank = EmptyInBanks /\ outBank = EmptyOutBanks
           /\ ~HaltCleared
<1>1. Calm /\ resets' = resets
  BY CalmBefore
<1>2. ~RxReset /\ ~Reboot
  <2>1. NoneOf("RESET", toEmu) /\ pc # "hardreset"
    BY <1>1 DEF Calm, TokenInv, NoReset, Running
  <2>2. toEmu # <<>> => Head(toEmu) = toEmu[1] /\ 1 \in DOMAIN toEmu
    BY TailElements DEF TypeInv, TypeOK, SerialTypeOK
  <2>3. QED
    BY <2>1, <2>2 DEF NoneOf, RxReset, Reboot, Interrupt
<1>3. ~BusReset
  BY <1>1 DEF BusReset, TypeInv, TypeOK, UsbTypeOK
<1>4. ASSUME SetConfiguration
      PROVE  inBank = EmptyInBanks /\ outBank = EmptyOutBanks
  <2>1. setup \in issued \intersect ConfigRequests
    BY <1>4, RequestsAssumption DEF SetConfiguration, BusInv, Requests, LibraryRequests
  <2>2. \A c, d \in issued \intersect ConfigRequests : c = d
    <3>1. IsFiniteSet(issued \intersect ConfigRequests)
      BY FS_Subset DEF BusInv
    <3>2. SUFFICES ASSUME NEW c \in issued \intersect ConfigRequests,
                          NEW d \in issued \intersect ConfigRequests, c # d
                   PROVE  FALSE
      OBVIOUS
    <3>3. IsFiniteSet({c, d}) /\ Cardinality({c, d}) = 2
      <4>1. IsFiniteSet({c}) /\ Cardinality({c}) = 1
        BY FS_Singleton
      <4>2. {c} \union {d} = {c, d}
        OBVIOUS
      <4>3. QED
        BY <3>2, <4>1, <4>2, FS_AddElement
    <3>4. {c, d} \in SUBSET (issued \intersect ConfigRequests)
      OBVIOUS
    <3>5. Cardinality({c, d}) <= Cardinality(issued \intersect ConfigRequests)
      BY <3>1, <3>4, FS_Subset
    <3>6. QED
      BY <1>1, <3>1, <3>3, <3>5, FS_CardinalityType DEF Calm
  <2>3. usbState \in {"Off", "Default"}
    BY <2>1, <2>2 DEF BusInv, TypeInv, TypeOK, UsbTypeOK, UsbStates
  <2>4. QED
    BY <2>3 DEF BusInv
<1>5. ~HaltCleared
  <2>1. setup \in ClearRequests => setup \in issued
    BY RequestsAssumption DEF BusInv, Requests, LibraryRequests
  <2>2. QED
    BY <1>1, <2>1, ClearedBanks DEF Calm
<1>6. QED
  BY <1>2, <1>3, <1>4, <1>5

-----------------------------------------------------------------------------
(* OUT packets on a line. *)

OutsFor(n, s) == {i \in DOMAIN s : s[i].type = "OUT" /\ s[i].ep = n}
IsOut(p, n) == IF p.type = "OUT" /\ p.ep = n THEN 1 ELSE 0

LEMMA OutsFinite ==
    ASSUME NEW n, NEW s \in Seq(Packet)
    PROVE  /\ IsFiniteSet(OutsFor(n, s)) /\ Cardinality(OutsFor(n, s)) \in Nat
           /\ OutsFor(n, s) \subseteq 1..Len(s) /\ Len(s) \in Nat
<1>1. /\ OutsFor(n, s) \in SUBSET (1..Len(s)) /\ Len(s) \in Nat
  BY LenProperties DEF OutsFor
<1>2. IsFiniteSet(1..Len(s))
  BY <1>1, FS_Interval
<1>3. QED
  BY <1>1, <1>2, FS_Subset, FS_CardinalityType

LEMMA OutsAppend ==
    ASSUME NEW n, NEW s \in Seq(Packet), NEW p \in Packet
    PROVE  Cardinality(OutsFor(n, Append(s, p))) = Cardinality(OutsFor(n, s)) + IsOut(p, n)
<1>1. /\ DOMAIN s = 1..Len(s) /\ DOMAIN Append(s, p) = 1..Len(s) + 1 /\ Len(s) \in Nat
      /\ \A i \in 1..Len(s) : Append(s, p)[i] = s[i]
      /\ Append(s, p)[Len(s) + 1] = p
  BY AppendProperties, LenProperties
<1>2. /\ IsFiniteSet(OutsFor(n, s)) /\ Cardinality(OutsFor(n, s)) \in Nat
      /\ Len(s) + 1 \notin OutsFor(n, s)
  BY <1>1, OutsFinite
<1>3. CASE p.type = "OUT" /\ p.ep = n
  <2>1. OutsFor(n, Append(s, p)) = OutsFor(n, s) \union {Len(s) + 1}
    BY <1>1, <1>3 DEF OutsFor
  <2>2. QED
    BY <1>2, <1>3, <2>1, FS_AddElement DEF IsOut
<1>4. CASE ~(p.type = "OUT" /\ p.ep = n)
  <2>1. OutsFor(n, Append(s, p)) = OutsFor(n, s)
    BY <1>1, <1>4 DEF OutsFor
  <2>2. QED
    BY <1>2, <1>4, <2>1 DEF IsOut
<1>5. QED
  BY <1>3, <1>4

LEMMA OutsTail ==
    ASSUME NEW n, NEW s \in Seq(Packet), s # <<>>
    PROVE  Cardinality(OutsFor(n, s)) = Cardinality(OutsFor(n, Tail(s))) + IsOut(Head(s), n)
<1> DEFINE S == OutsFor(n, s)
           T == OutsFor(n, Tail(s))
           f == [i \in T |-> i + 1]
<1>1. /\ DOMAIN s = 1..Len(s) /\ Len(s) \in Nat \ {0}
      /\ DOMAIN Tail(s) = 1..Len(s) - 1 /\ Tail(s) \in Seq(Packet)
      /\ \A i \in 1..Len(s) - 1 : Tail(s)[i] = s[i + 1]
      /\ Head(s) = s[1]
  BY HeadTailProperties, LenProperties, EmptySeq
<1>2. IsFiniteSet(S) /\ Cardinality(S) \in Nat /\ IsFiniteSet(T) /\ Cardinality(T) \in Nat
  BY <1>1, OutsFinite
<1>3. T \subseteq 1..Len(s) - 1 /\ S \subseteq 1..Len(s)
  BY <1>1 DEF OutsFor
<1>4. \A i \in 1..Len(s) - 1 : i \in T <=> i + 1 \in S
  BY <1>1 DEF OutsFor
<1>5. 1 \in S <=> Head(s).type = "OUT" /\ Head(s).ep = n
  BY <1>1 DEF OutsFor
<1> HIDE DEF S, T
<1>6. f \in Bijection(T, S \ {1})
  <2>1. f \in [T -> S \ {1}]
    BY <1>1, <1>3, <1>4
  <2>2. \A i, j \in T : f[i] = f[j] => i = j
    BY <1>1, <1>3
  <2>3. \A j \in S \ {1} : \E i \in T : f[i] = j
    <3> TAKE j \in S \ {1}
    <3>1. j - 1 \in 1..Len(s) - 1 /\ (j - 1) + 1 = j
      BY <1>1, <1>3
    <3>2. j - 1 \in T
      BY <1>4, <3>1
    <3>3. f[j - 1] = j
      BY <3>1, <3>2
    <3>4. QED
      BY <3>2, <3>3
  <2> HIDE DEF f
  <2>4. QED
    BY <2>1, <2>2, <2>3 DEF Bijection, Injection, Surjection, IsInjective
<1>7. Cardinality(S \ {1}) = Cardinality(T)
  BY <1>2, <1>6, FS_Bijection DEF ExistsBijection
<1>8. Cardinality(S \ {1}) = IF 1 \in S THEN Cardinality(S) - 1 ELSE Cardinality(S)
  BY <1>2, FS_RemoveElement
<1>9. QED
  BY <1>2, <1>5, <1>7, <1>8 DEF IsOut, S, T

-----------------------------------------------------------------------------
(* The banks. *)

\* A step that neither reads nor drops nor sends an OUT packet.
QuietBanks ==
    /\ UNCHANGED <<outPkt, sentOut>>
    /\ returnTo' \in {returnTo, "input"}
    /\ pc' = "out_clear" => pc = "out_clear" \/ returnTo = "out_clear"
    /\ \A n \in EmuOut : outBank'[n] \in {outBank[n], NoPacket}
    /\ Calm' => outBank' = outBank /\ (pc' = "out_send" <=> pc = "out_send")

LEMMA QuietBanksSteps ==
    ASSUME TypeInv, TokenInv, BusInv, [Next]_vars,
           ~OutputPoll, ~OutputClear, ~OutputSend, ~Reboot,
           ~(HostStep /\ \E n \in EmuOut : HostWrites(n))
    PROVE  QuietBanks
<1>1. /\ Calm' => ~RxReset /\ ~Reboot /\ ~(HostStep /\ BusReset) /\ ~HaltCleared
      /\ Calm' /\ SetConfiguration => outBank = EmptyOutBanks
  BY CalmSteps
<1>2. returnTo \in {"input", "out_clear"}
  BY DEF TypeInv, TypeOK, EmuTypeOK
<1> USE DEF QuietBanks, Goto, MainUnchanged, mainVars, outVars, usbVars, busVars, hostVars,
            TaskReturns
<1>3. CASE ProxyStep \/ UNCHANGED vars
  BY <1>3 DEF ProxyStep, vars, emuVars
<1>4. CASE EmuInterrupt
  <2>1. CASE RxReset
    BY <1>1, <2>1 DEF RxReset
  <2>2. CASE ~RxReset
    BY <1>4, <2>2 DEF EmuInterrupt, RxDescriptors, RxIndex, RxEndpoints, RxControl,
                      RxControlStall, RxIn
  <2>3. QED
    BY <2>1, <2>2
<1>5. CASE Boot \/ TaskSkipped \/ OutputNothing
  BY <1>5 DEF Boot, TaskSkipped, OutputNothing
<1>6. CASE SendNextInput
  BY <1>6 DEF SendNextInput, InputNothing, InputFound, InputWrite, InputRelease, InputAck
<1>7. CASE USBTask
  <2>1. CASE HaltCleared
    BY <1>1, <2>1, ClearedBanks
  <2>2. CASE ~HaltCleared
    BY <1>1, <1>2, <1>7, <2>2 DEF USBTask, UsbTaskNothing, ClearSetFeature, SetHalt, HaltCleared,
       RequestStatus, SetConfiguration, RequestTooBig, RequestForwarded, EmptyOutBanks
  <2>3. QED
    BY <2>1, <2>2
<1>8. CASE UnhandledControlRequest
  BY <1>2, <1>8 DEF UnhandledControlRequest, ControlClearReply, ControlClearStall,
       ControlSendIn, ControlSendOut, ControlReadSetup,
       ControlReadAborted, ControlWait, ControlReplied, ControlTimeout, ControlStalled,
       ControlAccepted, ControlReturnData, ControlWriteFirst, ControlWriteSecond,
       ControlWriteAborted
<1>9. CASE HostStep
  BY <1>1, <1>9 DEF HostStep, UsbNext, HostReads, HostSetup, HostAbort, BusReset, BusSuspend,
                    BusWakeUp, EmptyOutBanks, emuVars
<1>10. QED
  BY <1>3, <1>4, <1>5, <1>6, <1>7, <1>8, <1>9 DEF Next, EmuStep, EmuNext, EmuMain,
     ReceiveNextOutput

LEMMA SelectedEndpoint ==
    ASSUME TypeInv, OutputPoll
    PROVE  outEndpoints[selectedOut + 1] \in EmuOut
<1>1. selectedOut + 1 \in 1..Len(outEndpoints)
  BY EmptySeq, LenProperties DEF OutputPoll, TypeInv, TypeOK, EmuTypeOK, SelectedInRange
<1>2. QED
  BY <1>1, ElementOfSeq DEF TypeInv, TypeOK, EmuTypeOK

LEMMA StepBanks ==
    TypeInv /\ TokenInv /\ OutInv /\ BusInv /\ BankInv /\ [Next]_vars => BankInv'
<1> SUFFICES ASSUME TypeInv, TokenInv, OutInv, BusInv, BankInv, [Next]_vars
             PROVE  BankInv'
  OBVIOUS
<1>0. /\ Calm' => Calm
      /\ outBank \in [EmuOut -> OutPacket] /\ sentOut \in [EmuOut -> Nat]
      /\ Reading => outPkt.ep \in EmuOut
  BY CalmBefore DEF TypeInv, TypeOK, UsbTypeOK, OutInv, FirmwareOrder
<1>1. CASE OutputPoll
  <2> DEFINE n == outEndpoints[selectedOut + 1]
             short == outBank[n].size = "short"
  <2>1. n \in EmuOut
    BY <1>1, SelectedEndpoint
  <2>2. /\ outPkt' = [ep |-> n, data |-> IF outBank[n].size = "zero" THEN 0 ELSE outBank[n].data]
        /\ outBank' = IF short THEN [outBank EXCEPT ![n] = NoPacket] ELSE outBank
        /\ pc' = IF short \/ outBank[n] = NoPacket THEN "usbtask" ELSE "out_clear"
        /\ returnTo' = IF short THEN "out_clear" ELSE "input"
    BY <1>1 DEF OutputPoll
  <2>3. outBank[n] = NoPacket \/ (outBank[n].size \in OutSizes[n] /\ outBank[n].data # 0)
    BY <2>1 DEF BankInv
  <2> HIDE DEF n
  <2>4. \A m \in EmuOut :
           outBank'[m] = NoPacket \/ (outBank'[m].size \in OutSizes[m] /\ outBank'[m].data # 0)
    BY <1>0, <2>1, <2>2 DEF BankInv
  <2>5. short => ~FullOnly(n)
    BY <2>3 DEF FullOnly, NoPacket
  <2>6. pc' = "out_clear" /\ FullOnly(n) => outPkt'.data # 0 /\ outBank'[n] # NoPacket
    BY <2>2, <2>3 DEF FullOnly
  <2>7. outPkt'.ep = n
    BY <2>2
  <2>8. QED
    BY <2>2, <2>4, <2>5, <2>6, <2>7 DEF BankInv, FullOnly
<1>2. CASE OutputClear
  <2>1. /\ outBank' = [outBank EXCEPT ![outPkt.ep] = NoPacket]
        /\ outPkt' = outPkt /\ returnTo' = returnTo /\ pc' # "out_clear"
    BY <1>2 DEF OutputClear, Goto, MainUnchanged, outVars
  <2>2. QED
    BY <1>0, <2>1 DEF BankInv, FullOnly
<1>3. CASE OutputSend
  <2>1. /\ outBank' = outBank /\ outPkt' = outPkt /\ returnTo' = returnTo /\ pc' # "out_clear"
    BY <1>3 DEF OutputSend, Goto, MainUnchanged, outVars, usbVars, busVars
  <2>2. QED
    BY <2>1 DEF BankInv, FullOnly
<1>4. CASE HostStep /\ \E n \in EmuOut : HostWrites(n)
  <2>1. PICK n \in EmuOut : HostWrites(n)
    BY <1>4
  <2>2. PICK size \in OutSizes[n] :
           outBank' = [outBank EXCEPT ![n] = [size |-> size, data |-> sentOut[n] + 1]]
    BY <2>1 DEF HostWrites
  <2>3. outPkt' = outPkt /\ returnTo' = returnTo /\ pc' = pc
    BY <1>4 DEF HostStep, emuVars, outVars, mainVars
  <2>4. /\ outBank'[n].size \in OutSizes[n] /\ outBank'[n].data # 0
        /\ \A m \in EmuOut : m # n => outBank'[m] = outBank[m]
    BY <1>0, <2>2
  <2>5. \A m \in EmuOut : outBank'[m] = NoPacket => outBank[m] = NoPacket
    BY <2>4 DEF NoPacket
  <2>6. pc = "out_clear" => outPkt.ep \in EmuOut
    BY <1>0 DEF Reading
  <2>7. QED
    BY <1>0, <2>3, <2>4, <2>5, <2>6 DEF BankInv, FullOnly
<1>5. CASE QuietBanks
  <2>1. \A n \in EmuOut : outBank'[n] = outBank[n] \/ outBank'[n] = NoPacket
    BY <1>5 DEF QuietBanks
  <2>2. QED
    BY <1>0, <1>5, <2>1 DEF QuietBanks, BankInv, FullOnly
<1>6. CASE Reboot
  BY <1>6 DEF Reboot, EmptyOutBanks, BankInv, FullOnly
<1>7. QED
  BY <1>1, <1>2, <1>3, <1>4, <1>5, <1>6, QuietBanksSteps

-----------------------------------------------------------------------------
(* Every full packet is accounted for. *)

Banked(n) == IF outBank[n] # NoPacket THEN 1 ELSE 0
Leaving(n) == IF pc = "out_send" /\ outPkt.ep = n THEN 1 ELSE 0

LEMMA PlacesSum ==
    ASSUME NEW e \in OutEps
    PROVE  OutPlaces(e) = Banked(U2S[e]) + Leaving(U2S[e])
                          + Cardinality(OutsFor(U2S[e], toProxy))
                          + Len(outXfers[e]) + Len(outDone[e])
BY DEF OutPlaces, Banked, Leaving, OutsFor

\* The transfers of the endpoint and what it has taken, after a step.
LEMMA TransfersSum ==
    ASSUME TypeInv, LineOrder, [Next]_vars, Calm', NEW e \in OutEps, ~OutputSend
    PROVE  Cardinality(OutsFor(U2S[e], toProxy')) + Len(outXfers'[e]) + Len(outDone'[e])
           = Cardinality(OutsFor(U2S[e], toProxy)) + Len(outXfers[e]) + Len(outDone[e])
<1> DEFINE n == U2S[e]
<1>0. /\ toProxy \in Seq(Packet) /\ outXfers \in [OutEps -> Seq(Nat)]
      /\ outDone \in [OutEps -> Seq(Nat)]
      /\ Cardinality(OutsFor(n, toProxy)) \in Nat
      /\ \A f \in OutEps : Len(outXfers[f]) \in Nat /\ Len(outDone[f]) \in Nat
  BY OutsFinite, LenProperties DEF TypeInv, TypeOK, SerialTypeOK, GusbTypeOK
<1> HIDE DEF n
<1>1. CASE ProxyStep /\ ProcessOut
  <2> DEFINE p == toProxy[1]
  <2>1. PICK f \in OutEps :
           /\ toProxy # <<>> /\ toProxy' = Tail(toProxy)
           /\ p.type = "OUT" /\ U2S[f] = p.ep /\ p.data \in Nat \ {0}
           /\ UNCHANGED outDone
           /\ \/ outXfers' = outXfers /\ phase' = "leaving"
              \/ outXfers' = [outXfers EXCEPT ![f] = Append(@, p.data)]
    BY <1>1, OutReceived
  <2>2. outXfers' = [outXfers EXCEPT ![f] = Append(@, p.data)]
    BY <2>1 DEF Calm
  <2>3. Head(toProxy) = p /\ IsOut(p, n) = IF f = e THEN 1 ELSE 0
    <3>1. Head(toProxy) = p
      BY <1>0, <2>1, TailElements
    <3>2. U2S[f] = U2S[e] => f = e
      BY RenumberingAssumption DEF RenumberingOK, UsbEps
    <3>3. QED
      BY <2>1, <3>1, <3>2 DEF IsOut, n
  <2>4. Cardinality(OutsFor(n, toProxy)) =
           Cardinality(OutsFor(n, toProxy')) + (IF f = e THEN 1 ELSE 0)
    BY <1>0, <2>1, <2>3, OutsTail
  <2>5. Cardinality(OutsFor(n, toProxy')) \in Nat
    <3>1. toProxy' \in Seq(Packet)
      BY <1>0, <2>1, TailElements
    <3>2. QED
      BY <3>1, OutsFinite
  <2>6. Len(outXfers'[e]) = Len(outXfers[e]) + (IF f = e THEN 1 ELSE 0)
    <3>1. Len(Append(outXfers[e], p.data)) = Len(outXfers[e]) + 1
      BY <1>0, <2>1, AppendProperties
    <3>2. QED
      BY <1>0, <2>2, <3>1
  <2>7. QED
    BY <1>0, <2>1, <2>4, <2>5, <2>6 DEF n
<1>2. CASE ProxyStep /\ \E f \in OutEps : WriteDone(f)
  <2>1. PICK f \in OutEps : WriteDone(f)
    BY <1>2
  <2>2. PICK x \in Nat : outDone' = [outDone EXCEPT ![f] = Append(@, x)]
    <3>1. outXfers[f] \in Seq(Nat) /\ outXfers[f] # <<>>
      BY <1>0, <2>1 DEF WriteDone, RemoveOut
    <3>2. Head(outXfers[f]) \in Nat
      BY <3>1, TailElements
    <3>3. QED
      BY <2>1, <3>2 DEF WriteDone
  <2>3. toProxy' = toProxy /\ outXfers[f] # <<>> /\ outXfers' = [outXfers EXCEPT ![f] = Tail(@)]
    BY <2>1 DEF WriteDone, RemoveOut
  <2>4. CASE f = e
    <3>1. Len(Append(outDone[e], x)) = Len(outDone[e]) + 1
      BY <1>0, AppendProperties
    <3>2. Len(Tail(outXfers[e])) = Len(outXfers[e]) - 1 /\ Len(outXfers[e]) \in Nat
      BY <1>0, <2>3, <2>4, HeadTailProperties
    <3>3. outDone'[e] = Append(outDone[e], x) /\ outXfers'[e] = Tail(outXfers[e])
      BY <1>0, <2>2, <2>3, <2>4
    <3>4. /\ Len(outDone'[e]) = Len(outDone[e]) + 1
          /\ Len(outXfers'[e]) = Len(outXfers[e]) - 1
          /\ Len(outDone[e]) \in Nat
      BY <1>0, <3>1, <3>2, <3>3
    <3>5. Cardinality(OutsFor(n, toProxy')) = Cardinality(OutsFor(n, toProxy))
      BY <2>3
    <3>6. \A c, q, d, q1, d1 \in Nat : q1 = q - 1 /\ d1 = d + 1 => c + q1 + d1 = c + q + d
      OBVIOUS
    <3>7. Len(outXfers'[e]) \in Nat /\ Len(outDone'[e]) \in Nat
      <4>1. Len(Tail(outXfers[e])) \in Nat
        BY <1>0, <2>3, <2>4, HeadTailProperties, LenProperties
      <4>2. QED
        BY <3>3, <3>4, <4>1
    <3>8. Cardinality(OutsFor(n, toProxy')) + Len(outXfers'[e]) + Len(outDone'[e])
          = Cardinality(OutsFor(n, toProxy)) + Len(outXfers[e]) + Len(outDone[e])
      <4>1. /\ Cardinality(OutsFor(n, toProxy)) \in Nat
            /\ Len(outXfers[e]) \in Nat /\ Len(outDone[e]) \in Nat
        BY <1>0
      <4>2. Cardinality(OutsFor(n, toProxy)) + Len(outXfers'[e]) + Len(outDone'[e])
            = Cardinality(OutsFor(n, toProxy)) + Len(outXfers[e]) + Len(outDone[e])
        BY <3>4, <3>6, <3>7, <4>1
      <4>3. QED
        BY <3>5, <4>2
    <3>9. QED
      BY <3>8 DEF n
  <2>5. CASE f # e
    BY <1>0, <2>2, <2>3, <2>5
  <2>6. QED
    BY <2>4, <2>5
<1>3. CASE UNCHANGED <<outXfers, outDone>> /\ toProxy' = toProxy
  BY <1>3
<1>4. CASE /\ UNCHANGED <<outXfers, outDone>>
           /\ toProxy # <<>> /\ toProxy' = Tail(toProxy) /\ Head(toProxy).type # "OUT"
  <2>1. IsOut(Head(toProxy), n) = 0
    BY <1>4 DEF IsOut
  <2>2. toProxy' \in Seq(Packet)
    BY <1>0, <1>4, TailElements
  <2>3. Cardinality(OutsFor(n, toProxy')) \in Nat
    BY <2>2, OutsFinite
  <2>4. Cardinality(OutsFor(n, toProxy)) = Cardinality(OutsFor(n, toProxy'))
    BY <1>0, <1>4, <2>1, <2>3, OutsTail
  <2>5. QED
    BY <1>4, <2>4 DEF n
<1>5. CASE /\ UNCHANGED <<outXfers, outDone>>
           /\ \E p \in Packet : toProxy' = Append(toProxy, p) /\ p.type # "OUT"
  <2>1. PICK p \in Packet : toProxy' = Append(toProxy, p) /\ p.type # "OUT"
    BY <1>5
  <2>2. IsOut(p, n) = 0
    BY <2>1 DEF IsOut
  <2>3. Cardinality(OutsFor(n, toProxy')) = Cardinality(OutsFor(n, toProxy))
    BY <1>0, <2>1, <2>2, OutsAppend
  <2>4. QED
    BY <1>5, <2>3 DEF n
<1>6. CASE ProxyStep /\ ~ProcessOut /\ ~(\E f \in OutEps : WriteDone(f))
  <2>1. CASE ProcessPacket
    BY <1>4, <1>6, <2>1 DEF ProcessPacket, ProcessDescriptors, ProcessIndex, ProcessEndpoints,
                            ProcessIn, ProcessControl, ProcessDebug, ProcessReset, Receive, gusbVars
  <2>2. CASE Cancelled
    BY <2>2 DEF Cancelled, proxyVars, Calm
  <2>3. CASE ~ProcessPacket /\ ~Cancelled
    BY <1>3, <1>6, <2>3 DEF ProxyStep, ProxyNext, ProxyLeave, UsbCallback, ProxyStart,
         ProxyStartFails, ReadDone, ReadFailed, ControlReadDone, ControlWriteDone, ProxyStop,
         InitTimeout, Closed, TimerTick, SendReset, ProxyExit, serialVars, gusbVars
  <2>4. QED
    BY <2>1, <2>2, <2>3
<1>7. CASE EmuStep
  <2>1. UNCHANGED <<outXfers, outDone>>
    BY <1>7 DEF EmuStep, gusbVars
  <2>2. \/ toProxy' = toProxy
        \/ \E p \in Packet :
              /\ toProxy' = Append(toProxy, p)
              /\ \/ p.type \in StartupTypes \union {"IN", "DEBUG"}
                 \/ p = Pkt("CONTROL", 0, request)
    BY <1>7, EmuWrites DEF EmuStep
  <2>3. QED
    BY <1>3, <1>5, <2>1, <2>2 DEF StartupTypes, Pkt
<1>8. CASE HostStep \/ UNCHANGED vars
  BY <1>3, <1>8 DEF HostStep, vars, serialVars, gusbVars
<1>9. QED
  BY <1>1, <1>2, <1>6, <1>7, <1>8 DEF Next

LEMMA StepAccounted ==
    /\ TypeInv /\ TokenInv /\ OutInv /\ BusInv /\ BankInv /\ Accounted /\ [Next]_vars
    => Accounted'
<1> SUFFICES ASSUME TypeInv, TokenInv, OutInv, BusInv, BankInv, Accounted, [Next]_vars,
                    Calm', NEW e \in OutEps, FullOnly(U2S[e])
             PROVE  OutPlaces(e)' = sentOut'[U2S[e]]
  BY DEF Accounted, FullOnly
<1> DEFINE n == U2S[e]
           rest == Cardinality(OutsFor(n, toProxy)) + Len(outXfers[e]) + Len(outDone[e])
<1>0. /\ n \in EmuOut /\ n # 0
      /\ outBank \in [EmuOut -> OutPacket] /\ sentOut \in [EmuOut -> Nat]
      /\ Calm
  BY CalmBefore, EndpointsAssumption, RenumberingAssumption
     DEF EndpointsOK, RenumberingOK, EmuOut, UsbEps, TypeInv, TypeOK, UsbTypeOK
<1>1. rest \in Nat
  <2>1. /\ Cardinality(OutsFor(n, toProxy)) \in Nat
        /\ Len(outXfers[e]) \in Nat /\ Len(outDone[e]) \in Nat
    BY OutsFinite, LenProperties DEF TypeInv, TypeOK, SerialTypeOK, GusbTypeOK
  <2>2. QED
    BY <2>1
<1>2. sentOut[n] = Banked(n) + Leaving(n) + rest
  <2>1. OutPlaces(e) = sentOut[n]
    BY <1>0 DEF Accounted
  <2>2. /\ Cardinality(OutsFor(n, toProxy)) \in Nat
        /\ Len(outXfers[e]) \in Nat /\ Len(outDone[e]) \in Nat
    BY OutsFinite, LenProperties DEF TypeInv, TypeOK, SerialTypeOK, GusbTypeOK
  <2>3. Banked(n) \in Nat /\ Leaving(n) \in Nat
    BY DEF Banked, Leaving
  <2>4. QED
    BY <2>1, <2>2, <2>3, PlacesSum
<1>3. OutPlaces(e)' = (Banked(n) + Leaving(n) + rest)'
  <2>1. /\ Cardinality(OutsFor(n, toProxy))' \in Nat
        /\ Len(outXfers[e])' \in Nat /\ Len(outDone[e])' \in Nat
    <3>1. TypeInv'
      BY StepTypes
    <3>2. QED
      BY <3>1, OutsFinite, LenProperties DEF TypeInv, TypeOK, SerialTypeOK, GusbTypeOK
  <2>2. Banked(n)' \in Nat /\ Leaving(n)' \in Nat
    BY DEF Banked, Leaving
  <2>3. OutPlaces(e)' = (Banked(n) + Leaving(n) + Cardinality(OutsFor(n, toProxy))
                         + Len(outXfers[e]) + Len(outDone[e]))'
    BY DEF OutPlaces, Banked, Leaving, OutsFor
  <2>4. QED
    BY <2>1, <2>2, <2>3
<1>4. ~OutputSend => rest' = rest
  BY TransfersSum DEF OutInv
<1>5. Banked(n) \in {0, 1} /\ Leaving(n) \in {0, 1}
  BY DEF Banked, Leaving
<1> SUFFICES (Banked(n) + Leaving(n) + rest)' = sentOut'[n]
  BY <1>3
<1> HIDE DEF n, rest
<1>6. FullOnly(n)
  BY DEF n
<1>7. CASE OutputPoll
  <2> DEFINE m == outEndpoints[selectedOut + 1]
  <2>1. /\ pc = "output" /\ pc' \in {"usbtask", "out_clear"} /\ sentOut' = sentOut
        /\ outBank' = IF outBank[m].size = "short" THEN [outBank EXCEPT ![m] = NoPacket] ELSE outBank
    BY <1>7 DEF OutputPoll, hostVars
  <2>2. outBank[n].size # "short"
    BY <1>0, <1>6 DEF BankInv, FullOnly, NoPacket
  <2>3. outBank'[n] = outBank[n]
    BY <1>0, <2>1, <2>2
  <2>4. Banked(n)' = Banked(n) /\ Leaving(n)' = Leaving(n) /\ n' = n
    BY <2>1, <2>3 DEF Banked, Leaving, n
  <2>5. ~OutputSend
    BY <2>1 DEF OutputSend, Goto
  <2>6. QED
    BY <1>2, <1>4, <2>1, <2>4, <2>5
<1>8. CASE OutputClear
  <2>1. /\ pc = "out_clear" /\ sentOut' = sentOut /\ outPkt' = outPkt
        /\ pc' = IF outPkt.data = 0 THEN "usbtask" ELSE "out_send"
        /\ outBank' = [outBank EXCEPT ![outPkt.ep] = NoPacket]
    BY <1>8 DEF OutputClear, Goto, outVars, hostVars
  <2>2. ~OutputSend /\ n' = n
    BY <2>1 DEF OutputSend, Goto, n
  <2>3. CASE outPkt.ep = n
    <3>1. outPkt.data # 0 /\ outBank[n] # NoPacket
      BY <1>0, <1>6, <2>1, <2>3 DEF BankInv
    <3>2. Banked(n) = 1 /\ Leaving(n) = 0 /\ Banked(n)' = 0 /\ Leaving(n)' = 1
      BY <1>0, <2>1, <2>2, <2>3, <3>1 DEF Banked, Leaving
    <3>3. QED
      BY <1>1, <1>2, <1>4, <2>1, <2>2, <3>2
  <2>4. CASE outPkt.ep # n
    <3>1. Banked(n)' = Banked(n) /\ Leaving(n)' = 0 /\ Leaving(n) = 0
      BY <1>0, <2>1, <2>2, <2>4 DEF Banked, Leaving
    <3>2. QED
      BY <1>1, <1>2, <1>4, <1>5, <2>1, <2>2, <3>1
  <2>5. QED
    BY <2>3, <2>4
<1>9. CASE OutputSend
  <2> DEFINE p == Pkt("OUT", outPkt.ep, outPkt.data)
  <2>1. /\ pc = "out_send" /\ pc' = "usbtask" /\ outPkt' = outPkt /\ outBank' = outBank
        /\ sentOut' = sentOut /\ toProxy' = Append(toProxy, p)
    BY <1>9 DEF OutputSend, Goto, outVars, usbVars, busVars, hostVars
  <2>2. UNCHANGED <<outXfers, outDone>>
    BY <1>9, <2>1 DEF Next, ProxyStep, HostStep, EmuStep, vars, gusbVars, emuVars, mainVars
  <2>3. p \in Packet /\ toProxy \in Seq(Packet) /\ IsOut(p, n) = Leaving(n)
    <3>1. outPkt.ep \in Nat /\ outPkt.data \in Nat
      BY DEF TypeInv, TypeOK, EmuTypeOK, Slot
    <3>2. QED
      BY <2>1, <3>1, PktType DEF PacketTypes, Pkt, IsOut, Leaving, TypeInv, TypeOK, SerialTypeOK
  <2>4. Cardinality(OutsFor(n, toProxy')) = Cardinality(OutsFor(n, toProxy)) + Leaving(n)
    BY <2>1, <2>3, OutsAppend
  <2>5. Cardinality(OutsFor(n, toProxy)) \in Nat
    BY <2>3, OutsFinite
  <2>6. Len(outXfers[e]) \in Nat /\ Len(outDone[e]) \in Nat
    BY LenProperties DEF TypeInv, TypeOK, GusbTypeOK
  <2>7. rest' = rest + Leaving(n)
    <3>1. rest' = Cardinality(OutsFor(n, toProxy')) + Len(outXfers[e]) + Len(outDone[e])
      BY <2>2 DEF rest, n, OutsFor
    <3>2. rest = Cardinality(OutsFor(n, toProxy)) + Len(outXfers[e]) + Len(outDone[e])
      BY DEF rest, n
    <3>3. \A c, x, d, l \in Nat : (c + l) + x + d = (c + x + d) + l
      OBVIOUS
    <3>4. Leaving(n) \in Nat
      BY <1>5
    <3>5. QED
      BY <2>4, <2>5, <2>6, <3>1, <3>2, <3>3, <3>4
  <2>8. Banked(n)' = Banked(n) /\ Leaving(n)' = 0 /\ n' = n
    BY <2>1 DEF Banked, Leaving, n
  <2>9. QED
    BY <1>1, <1>2, <1>5, <2>1, <2>7, <2>8
<1>10. CASE HostStep /\ \E m \in EmuOut : HostWrites(m)
  <2>1. PICK m \in EmuOut : HostWrites(m)
    BY <1>10
  <2>2. /\ outBank[m] = NoPacket
        /\ sentOut' = [sentOut EXCEPT ![m] = @ + 1]
        /\ \E size \in OutSizes[m] :
              outBank' = [outBank EXCEPT ![m] = [size |-> size, data |-> sentOut[m] + 1]]
    BY <2>1 DEF HostWrites
  <2>3. pc' = pc /\ outPkt' = outPkt /\ n' = n
    BY <1>10 DEF HostStep, emuVars, outVars, mainVars, n
  <2>4. Leaving(n)' = Leaving(n)
    BY <2>3 DEF Leaving
  <2>5. ~OutputSend
    BY <2>3 DEF OutputSend, Goto
  <2>6. CASE m = n
    <3>1. outBank'[n].data = sentOut[n] + 1 /\ sentOut[n] \in Nat /\ sentOut'[n] = sentOut[n] + 1
      BY <1>0, <2>2, <2>6
    <3>2. Banked(n) = 0 /\ Banked(n)' = 1
      BY <2>2, <2>3, <2>6, <3>1 DEF Banked, NoPacket
    <3>3. QED
      BY <1>1, <1>2, <1>4, <1>5, <2>3, <2>4, <2>5, <3>1, <3>2
  <2>7. CASE m # n
    <3>1. outBank'[n] = outBank[n] /\ sentOut'[n] = sentOut[n]
      BY <1>0, <2>2, <2>7
    <3>2. Banked(n)' = Banked(n)
      BY <2>3, <3>1 DEF Banked
    <3>3. QED
      BY <1>2, <1>4, <2>3, <2>4, <2>5, <3>1, <3>2
  <2>8. QED
    BY <2>6, <2>7
<1>11. CASE QuietBanks /\ ~OutputSend
  <2>1. outBank' = outBank /\ (pc' = "out_send" <=> pc = "out_send") /\ outPkt' = outPkt
        /\ sentOut' = sentOut /\ n' = n
    BY <1>11 DEF QuietBanks, n
  <2>2. Banked(n)' = Banked(n) /\ Leaving(n)' = Leaving(n)
    BY <2>1 DEF Banked, Leaving
  <2>3. QED
    BY <1>2, <1>4, <1>11, <2>1, <2>2
<1>12. QED
  <2>1. ~Reboot
    BY CalmSteps
  <2>2. QED
    BY <1>7, <1>8, <1>9, <1>10, <1>11, <2>1, QuietBanksSteps

LEMMA AlwaysAccounted == Spec => [](BankInv /\ Accounted)
<1>1. Init => BankInv /\ Accounted
  <2> SUFFICES ASSUME Init
               PROVE  BankInv /\ Accounted
    OBVIOUS
  <2>1. BankInv
    BY DEF Init, UsbInit, EmuInit, EmptyOutBanks, BankInv
  <2>2. ASSUME NEW e \in OutEps
        PROVE  OutPlaces(e) = sentOut[U2S[e]]
    <3>1. /\ U2S[e] \in EmuOut /\ outBank[U2S[e]] = NoPacket /\ sentOut[U2S[e]] = 0
          /\ pc # "out_send" /\ Len(outXfers[e]) = 0 /\ Len(outDone[e]) = 0
      BY EmptySeq DEF Init, UsbInit, EmuInit, GusbInit, EmptyOutBanks, EmuOut
    <3>2. OutsFor(U2S[e], toProxy) = {}
      BY DEF Init, SerialInit, OutsFor
    <3>3. Cardinality(OutsFor(U2S[e], toProxy)) = 0
      BY <3>2, FS_EmptySet
    <3>4. Banked(U2S[e]) = 0 /\ Leaving(U2S[e]) = 0
      BY <3>1 DEF Banked, Leaving
    <3>5. QED
      BY <3>1, <3>3, <3>4, PlacesSum
  <2>3. QED
    BY <2>1, <2>2 DEF Accounted
<1>2. QED
  BY <1>1, StepBanks, StepAccounted, AlwaysTypeInv, AlwaysToken, AlwaysOut, AlwaysBus, PTL
     DEF Spec

\* OutputsArrive: until the bus is reset, the device configured again or a halt of
\* an endpoint cleared, which empties its bank (DeviceStandardReq.c), each full
\* packet that the firmware has acknowledged on an endpoint that gets full
\* packets only is in exactly one place on its way (ReceiveNextOutput in emu.c,
\* send_out_packet and usb_write_callback in proxy.c).
THEOREM OutputsAllArrive == Spec => []OutputsArrive
<1>1. Accounted => OutputsArrive
  BY DEF Accounted, OutputsArrive, FullOnly
<1>2. QED
  BY <1>1, AlwaysAccounted, PTL

-----------------------------------------------------------------------------
(* The reports: the inductive invariant.  Every packet that the proxy holds *)
(* is the last report read from its endpoint, and what the line and the     *)
(* slot of the firmware hold is a copy of the pending one.                  *)

Queued(e, fifo) == \E i \in DOMAIN fifo : fifo[i] = e

PacketsCurrent ==
    \A e \in InEps :
        /\ inPackets[e] = Pkt("IN", U2S[e], reports[e])
        /\ inPending = e \/ Queued(e, inEpFifo) => reports[e] # 0

CopyOf(s, p) == \A i \in DOMAIN s : s[i].type = "IN" => s[i] = p

CopyInSlot ==
    input.ep # 0 => input.ep = U2S[inPending] /\ input.data = inPackets[inPending].data

\* SendNextInput writes to an empty bank, and loses the report when a bus reset
\* has disabled the endpoint in between.
BankFree ==
    pc = "in_write" => inBank[input.ep] = 0 /\ (usbState = "Default" => resets # 0)

ReportInv ==
    /\ PacketsCurrent
    /\ CopyOf(toEmu, inPackets[inPending])
    /\ CopyInSlot
    /\ BankFree

\* The reports on the line are the same.
SameReports(s, t) == Within({"IN"}, s, t) /\ (NoneOf("IN", t) => NoneOf("IN", s))

LEMMA ReportsSame ==
    ASSUME NEW s \in Seq(Packet)
    PROVE  SameReports(s, s)
BY WithinSame DEF SameReports

LEMMA ReportsAppend ==
    ASSUME NEW s \in Seq(Packet), NEW p \in Packet, p.type # "IN"
    PROVE  SameReports(s, Append(s, p))
<1>1. Within({"IN"}, s, Append(s, p))
  BY WithinAppend
<1>2. /\ DOMAIN s = 1..Len(s) /\ DOMAIN Append(s, p) = 1..Len(s) + 1 /\ Len(s) \in Nat
      /\ \A i \in 1..Len(s) : Append(s, p)[i] = s[i]
  BY AppendProperties, LenProperties
<1>3. QED
  BY <1>1, <1>2 DEF SameReports, NoneOf

LEMMA ReportsSent ==
    ASSUME toEmu \in Seq(Packet), NEW type, type # "IN", NEW ps, Sent(ps, type)
    PROVE  SameReports(toEmu, toEmu')
<1>1. Within({"IN"}, toEmu, toEmu')
  BY WithinSent
<1>2. ps \in Seq(Packet) /\ toEmu' = toEmu \o ps
  BY DEF Sent
<1>3. /\ DOMAIN toEmu = 1..Len(toEmu) /\ Len(toEmu) \in Nat /\ Len(ps) \in Nat
      /\ DOMAIN toEmu' = 1..Len(toEmu) + Len(ps)
      /\ \A i \in 1..Len(toEmu) : toEmu'[i] = toEmu[i]
  BY <1>2, ConcatProperties, LenProperties
<1>4. QED
  BY <1>1, <1>3 DEF SameReports, NoneOf

LEMMA ReportsChunks ==
    ASSUME NEW type \in PacketTypes \ {"IN"}, NEW n \in Nat, NEW ok \in BOOLEAN,
           toEmu \in Seq(Packet), adapter_send_chunks(Chunks(type, n), ok)
    PROVE  SameReports(toEmu, toEmu')
<1>1. CASE ok
  <2>1. Sent(Chunks(type, n), type)
    BY <1>1, AllSent DEF adapter_send_chunks
  <2>2. QED
    BY <2>1, ReportsSent
<1>2. CASE ~ok
  <2>1. PICK k \in 0..Len(Chunks(type, n)) - 1 :
           toEmu' = toEmu \o SubSeq(Chunks(type, n), 1, k)
    BY <1>2 DEF adapter_send_chunks
  <2>2. Sent(SubSeq(Chunks(type, n), 1, k), type)
    BY <2>1, SomeSent
  <2>3. QED
    BY <2>2, ReportsSent
<1>3. QED
  BY <1>1, <1>2

LEMMA ReportsTail ==
    ASSUME NEW s \in Seq(Packet), s # <<>>, Head(s).type # "IN"
    PROVE  SameReports(s, Tail(s))
<1>1. Within({"IN"}, s, Tail(s))
  BY WithinTail
<1>2. /\ DOMAIN s = 1..Len(s) /\ Len(s) \in Nat \ {0}
      /\ DOMAIN Tail(s) = 1..Len(s) - 1
      /\ \A i \in 1..Len(s) - 1 : Tail(s)[i] = s[i + 1]
      /\ Head(s) = s[1]
  BY HeadTailProperties, LenProperties, EmptySeq
<1>3. \A i \in DOMAIN s : i = 1 \/ (i - 1 \in DOMAIN Tail(s) /\ Tail(s)[i - 1] = s[i])
  BY <1>2
<1>4. QED
  BY <1>1, <1>2, <1>3 DEF SameReports, NoneOf

-----------------------------------------------------------------------------
(* Steps that leave the reports where they are. *)

ReportsKept ==
    /\ UNCHANGED <<reports, got, inPending, inEpFifo, inPackets, inBank, input, resets>>
    /\ SameReports(toEmu, toEmu')
    /\ pc' = pc \/ {pc, pc'} \intersect {"in_write", "in_release", "hardreset"} = {}
    /\ usbState' = "Default" => usbState = "Default" \/ pc' # "in_write"

\* The pipe of each endpoint is the same.
SamePipes ==
    /\ UNCHANGED <<reports, got>>
    /\ \A e \in InEps : InBank(e)' = InBank(e) /\ BehindBank(e)' = BehindBank(e)

LEMMA UnreadPacket == InPackets(toEmu) # {} <=> ~NoneOf("IN", toEmu)
BY DEF InPackets, NoneOf

LEMMA UnreadPacketNext == InPackets(toEmu') # {} <=> ~NoneOf("IN", toEmu')
BY DEF InPackets, NoneOf

LEMMA KeptReports ==
    ASSUME ReportInv, ReportsKept
    PROVE  ReportInv' /\ SamePipes
<1>1. CopyOf(toEmu', inPackets'[inPending'])
  <2>1. inPackets'[inPending'] = inPackets[inPending]
    BY DEF ReportsKept
  <2>2. PICK k \in Nat : \A i \in DOMAIN toEmu' : toEmu'[i].type = "IN" =>
                            i + k \in DOMAIN toEmu /\ toEmu'[i] = toEmu[i + k]
    BY DEF ReportsKept, SameReports, Within, Shifted
  <2>3. QED
    BY <2>1, <2>2 DEF ReportInv, CopyOf
<1>2. NoneOf("IN", toEmu') <=> NoneOf("IN", toEmu)
  BY DEF ReportsKept, SameReports, Within, Shifted, NoneOf
<1>3. ReportInv'
  <2>1. PacketsCurrent' /\ CopyInSlot' /\ BankFree'
    BY DEF ReportInv, ReportsKept, PacketsCurrent, CopyInSlot, BankFree, Queued
  <2>2. QED
    BY <1>1, <2>1 DEF ReportInv, CopyOf
<1>4. PacketUnread' = PacketUnread
  BY <1>2, UnreadPacket, UnreadPacketNext DEF PacketUnread, ReportsKept
<1>5. SamePipes
  BY <1>4 DEF SamePipes, ReportsKept, InBank, BehindBank
<1>6. QED
  BY <1>3, <1>5
LEMMA ProxyKept ==
    ASSUME TypeInv, ProxyStep, ~ProcessIn, ~(\E e \in InEps : ReadDone(e))
    PROVE  ReportsKept
<1>0. toEmu \in Seq(Packet) /\ SendResults \subseteq BOOLEAN
  BY DEF TypeInv, TypeOK, SerialTypeOK, SendResults, Results
<1>1. UNCHANGED <<got, inBank, input, resets, pc, usbState>>
  BY DEF ProxyStep, usbVars, busVars, hostVars, emuVars, mainVars
<1>2. UNCHANGED <<reports, inPending, inEpFifo, inPackets>>
  BY DEF ProxyStep, ProxyNext, ProxyLeave, UsbCallback, ProcessPacket,
         ProcessDescriptors, ProcessIndex, ProcessEndpoints, ProcessOut, ProcessControl,
         ProcessDebug, ProcessReset, ProxyStart, ProxyStartFails, ReadFailed, ControlReadDone,
         ControlWriteDone,
         WriteDone, ProxyStop, InitTimeout, Closed, TimerTick, SendReset, Cancelled, ProxyExit,
         gusbVars, proxyVars, inVars
<1>3. SameReports(toEmu, toEmu')
  <2>1. CASE ProxyStart \/ ProxyStartFails
    <3>1. PICK ok \in BOOLEAN : adapter_send_chunks(Chunks("DESCRIPTORS", NDescriptors), ok)
      BY <2>1 DEF ProxyStart, ProxyStartFails
    <3>2. "DESCRIPTORS" \in PacketTypes \ {"IN"} /\ NDescriptors \in Nat
      BY ProxyAssumption DEF PacketTypes
    <3>3. QED
      BY <1>0, <3>1, <3>2, ReportsChunks
  <2>2. CASE ProcessDescriptors
    <3>1. PICK ok \in SendResults :
             toEmu' = toEmu \/ adapter_send_chunks(Chunks("INDEX", NIndex), ok)
      BY <2>2 DEF ProcessDescriptors
    <3>2. "INDEX" \in PacketTypes \ {"IN"} /\ ok \in BOOLEAN /\ NIndex \in Nat
      BY <1>0, ProxyAssumption DEF PacketTypes
    <3>3. QED
      BY <1>0, <3>1, <3>2, ReportsChunks, ReportsSame
  <2>3. CASE ProcessIndex \/ SendReset
    <3>1. \/ toEmu' = toEmu
          \/ \E type \in {"ENDPOINTS", "RESET"} : toEmu' = Append(toEmu, Ack(type))
      BY <2>3 DEF ProcessIndex, SendReset, adapter_send
    <3>2. \A type \in {"ENDPOINTS", "RESET"} : Ack(type) \in Packet /\ Ack(type).type # "IN"
      BY AckType DEF PacketTypes, Ack, Pkt
    <3>3. QED
      BY <1>0, <3>1, <3>2, ReportsAppend, ReportsSame
  <2>4. CASE AnswersRequest
    <3>1. \/ toEmu' = toEmu
          \/ \E type \in {"CONTROL", "CONTROL_STALL"}, r \in Nat : toEmu' = Append(toEmu, Pkt(type, 0, r))
      <4>1. Head(toProxy).data \in Nat \/ toProxy = <<>>
        <5>1. toProxy # <<>> => Head(toProxy) \in Packet
          BY TailElements DEF TypeInv, TypeOK, SerialTypeOK
        <5>2. QED
          BY <5>1 DEF Packet
      <4>2. Head(ctrlXfers) \in Nat \/ ctrlXfers = <<>>
        BY TailElements DEF TypeInv, TypeOK, GusbTypeOK
      <4>3. CASE ProcessControl
        BY <4>1, <4>3 DEF ProcessControl, Receive, adapter_send
      <4>4. CASE ControlReadDone
        BY <4>2, <4>4 DEF ControlReadDone, RemoveControl
      <4>5. CASE ControlWriteDone
        BY <4>2, <4>5 DEF ControlWriteDone, RemoveControl, adapter_send
      <4>6. QED
        BY <2>4, <4>3, <4>4, <4>5 DEF AnswersRequest
    <3>2. \A type \in {"CONTROL", "CONTROL_STALL"}, r \in Nat :
             Pkt(type, 0, r) \in Packet /\ Pkt(type, 0, r).type # "IN"
      BY PktType DEF PacketTypes, Pkt
    <3>3. QED
      BY <1>0, <3>1, <3>2, ReportsAppend, ReportsSame
  <2>5. CASE \/ ProcessEndpoints \/ ProcessOut \/ ProcessDebug \/ ProcessReset
             \/ ProxyStop \/ InitTimeout \/ Closed \/ TimerTick \/ Cancelled \/ ProxyExit
             \/ \E e \in InEps : ReadFailed(e)
             \/ \E e \in OutEps : WriteDone(e)
    <3>1. toEmu' = toEmu
      BY <2>5 DEF ProcessEndpoints, ProcessOut, ProcessDebug, ProcessReset, ProxyStop, InitTimeout, Closed,
                  TimerTick, Cancelled, ProxyExit, ReadFailed, WriteDone, serialVars
    <3>2. QED
      BY <1>0, <3>1, ReportsSame
  <2>6. QED
    BY <2>1, <2>2, <2>3, <2>4, <2>5
       DEF ProxyStep, ProxyNext, ProxyLeave, ProcessPacket, UsbCallback, AnswersRequest
<1>4. QED
  BY <1>1, <1>2, <1>3 DEF ReportsKept

LEMMA HostKept ==
    ASSUME TypeInv, HostStep, ~BusReset, ~(\E n \in EmuIn : HostReads(n))
    PROVE  ReportsKept
<1>1. UNCHANGED <<reports, inPending, inEpFifo, inPackets, input, toEmu, pc>>
  BY DEF HostStep, serialVars, gusbVars, proxyVars, emuVars, mainVars
<1>2. UNCHANGED <<got, inBank, resets>> /\ (usbState' = "Default" => usbState = "Default")
  BY DEF HostStep, UsbNext, HostWrites, HostSetup, HostAbort, BusSuspend, BusWakeUp, hostVars
<1>3. SameReports(toEmu, toEmu')
  BY <1>1, ReportsSame DEF TypeInv, TypeOK, SerialTypeOK
<1>4. QED
  BY <1>1, <1>2, <1>3 DEF ReportsKept

\* The steps of the firmware that move a report.
MovesReport ==
    \/ RxReset \/ RxIn \/ Reboot
    \/ InputFound \/ InputWrite \/ InputRelease
    \/ SetConfiguration \/ HaltCleared

LEMMA EmuKept ==
    ASSUME TypeInv, EmuStep, ~MovesReport
    PROVE  ReportsKept
<1> USE DEF MovesReport, usbVars, busVars, hostVars, serialVars
<1>0. toEmu \in Seq(Packet) /\ returnTo \in {"input", "out_clear"}
  BY DEF TypeInv, TypeOK, SerialTypeOK, EmuTypeOK
<1>1. UNCHANGED <<reports, inPending, inEpFifo, inPackets, resets>>
  BY HostHistory DEF EmuStep, gusbVars, proxyVars, hostVars
<1>2. CASE EmuInterrupt
  <2>1. /\ toEmu # <<>> /\ toEmu' = Tail(toEmu) /\ Head(toEmu).type # "IN"
        /\ UNCHANGED <<got, inBank, input, pc, usbState>>
    BY <1>2 DEF EmuInterrupt, RxDescriptors, RxIndex, RxEndpoints, RxControl, RxControlStall,
                Interrupt, mainVars
  <2>2. QED
    BY <1>0, <1>1, <2>1, ReportsTail DEF ReportsKept
<1>3. CASE EmuMain
  <2>1. toEmu' = toEmu
    BY <1>3 DEF EmuMain, Boot, TaskSkipped, SendNextInput, InputNothing, InputAck,
         ReceiveNextOutput, OutputNothing, OutputPoll, OutputClear, OutputSend,
         USBTask, UsbTaskNothing, ClearSetFeature, SetHalt, HaltCleared, RequestStatus,
         RequestTooBig, RequestForwarded, UnhandledControlRequest, ControlClearReply,
         ControlClearStall, ControlSendIn, ControlReadSetup, ControlSendOut,
         ControlReadAborted, ControlWait, ControlReplied, ControlTimeout, ControlStalled,
         ControlAccepted, ControlReturnData, ControlWriteFirst, ControlWriteSecond,
         ControlWriteAborted
  <2>2. CASE Boot \/ TaskSkipped \/ SendNextInput
    <3>1. /\ UNCHANGED <<got, inBank, input>>
          /\ {pc, pc'} \intersect {"in_write", "in_release", "hardreset"} = {}
      BY <1>3, <2>2 DEF Boot, TaskSkipped, SendNextInput, InputNothing, InputAck, Goto
    <3>2. QED
      BY <1>0, <1>1, <2>1, <3>1, ReportsSame DEF ReportsKept
  <2>3. CASE ReceiveNextOutput
    <3>1. /\ UNCHANGED <<got, inBank, input>>
          /\ {pc, pc'} \intersect {"in_write", "in_release", "hardreset"} = {}
      BY <1>3, <2>3 DEF ReceiveNextOutput, OutputNothing, OutputPoll, OutputClear, OutputSend, Goto
    <3>2. QED
      BY <1>0, <1>1, <2>1, <3>1, ReportsSame DEF ReportsKept
  <2>4. CASE USBTask
    <3>1. /\ UNCHANGED <<got, inBank, input>>
          /\ {pc, pc'} \intersect {"in_write", "in_release", "hardreset"} = {}
      BY <1>0, <1>3, <2>4 DEF USBTask, UsbTaskNothing, ClearSetFeature, SetHalt, HaltCleared,
         RequestStatus, RequestTooBig, RequestForwarded, Goto, TaskReturns
    <3>2. QED
      BY <1>0, <1>1, <2>1, <3>1, ReportsSame DEF ReportsKept
  <2>5. CASE UnhandledControlRequest
    <3>1. /\ UNCHANGED <<got, inBank, input>>
          /\ {pc, pc'} \intersect {"in_write", "in_release", "hardreset"} = {}
      BY <1>0, <1>3, <2>5 DEF UnhandledControlRequest,
         ControlClearReply, ControlClearStall, ControlSendIn, ControlReadSetup, ControlSendOut,
         ControlReadAborted, ControlWait, ControlReplied, ControlTimeout, ControlStalled,
         ControlAccepted, ControlReturnData, ControlWriteFirst, ControlWriteSecond,
         ControlWriteAborted, Goto, TaskReturns
    <3>2. QED
      BY <1>0, <1>1, <2>1, <3>1, ReportsSame DEF ReportsKept
  <2>6. QED
    BY <1>3, <2>2, <2>3, <2>4, <2>5 DEF EmuMain
<1>4. QED
  BY <1>2, <1>3 DEF EmuStep, EmuNext
-----------------------------------------------------------------------------
(* Steps of the pipe. *)

AtMostOne(s) == s = <<>> \/ \E x \in Nat : s = <<x>>

LEMMA RemainsPart ==
    ASSUME NEW s \in Seq(Nat), NEW i \in 1..Len(s) + 1, NEW j \in 0..Len(s),
           NEW q \in Seq(Nat), Len(q) = IF i <= j THEN j - i + 1 ELSE 0,
           \A k \in 1..Len(q) : q[k] = s[i + k - 1]
    PROVE  q \in Pipe!Remains(s)
<1>0. Len(s) \in Nat
  BY LenProperties
<1>1. i \in Int /\ j \in Int /\ \A k \in i..j : s[k] \in Nat
  <2>1. i \in Int /\ j \in Int /\ \A k \in i..j : k \in 1..Len(s)
    BY <1>0
  <2>2. \A k \in 1..Len(s) : s[k] \in Nat
    BY ElementOfSeq
  <2>3. QED
    BY <2>1, <2>2
<1>2. /\ SubSeq(s, i, j) \in Seq(Nat)
      /\ Len(SubSeq(s, i, j)) = IF i <= j THEN j - i + 1 ELSE 0
      /\ \A k \in 1..j - i + 1 : SubSeq(s, i, j)[k] = s[i + k - 1]
  BY <1>1, SubSeqProperties
<1>3. \A k \in 1..Len(q) : k \in 1..j - i + 1
  BY <1>1
<1>4. \A k \in 1..Len(q) : q[k] = SubSeq(s, i, j)[k]
  BY <1>2, <1>3
<1>5. q = SubSeq(s, i, j)
  BY <1>2, <1>4, SeqEqual
<1>6. QED
  BY <1>5, SMTT(60) DEF Pipe!Remains

LEMMA RemainsSome ==
    ASSUME NEW s \in Seq(Nat)
    PROVE  /\ <<>> \in Pipe!Remains(s)
           /\ s \in Pipe!Remains(s)
           /\ \A k \in 1..Len(s) : <<s[k]>> \in Pipe!Remains(s)
<1>1. Len(s) \in Nat /\ \A k \in 1..Len(s) : s[k] \in Nat
  BY LenProperties, ElementOfSeq
<1>2. <<>> \in Pipe!Remains(s)
  <2> DEFINE q == <<>>
  <2>1. 1 \in 1..Len(s) + 1 /\ 0 \in 0..Len(s)
    BY <1>1
  <2>2. q \in Seq(Nat) /\ Len(q) = 0
    BY EmptySeq
  <2> HIDE DEF q
  <2>3. \A k \in 1..Len(q) : q[k] = s[1 + k - 1]
    BY <2>2
  <2>4. Len(q) = IF 1 <= 0 THEN 0 - 1 + 1 ELSE 0
    BY <2>2
  <2>5. q \in Pipe!Remains(s)
    BY <2>1, <2>2, <2>3, <2>4, RemainsPart
  <2>6. QED
    BY <2>5 DEF q
<1>3. s \in Pipe!Remains(s)
  <2>1. 1 \in 1..Len(s) + 1 /\ Len(s) \in 0..Len(s)
    BY <1>1
  <2>2. Len(s) = IF 1 <= Len(s) THEN Len(s) - 1 + 1 ELSE 0
    BY <1>1
  <2>3. \A k \in 1..Len(s) : s[k] = s[1 + k - 1]
    BY <1>1
  <2>4. QED
    BY <2>1, <2>2, <2>3, RemainsPart
<1>4. ASSUME NEW k \in 1..Len(s)
      PROVE  <<s[k]>> \in Pipe!Remains(s)
  <2> DEFINE q == <<s[k]>>
  <2>1. k \in 1..Len(s) + 1 /\ k \in 0..Len(s)
    BY <1>1
  <2>2. q \in Seq(Nat) /\ Len(q) = 1 /\ q[1] = s[k]
    BY <1>1
  <2> HIDE DEF q
  <2>3. Len(q) = IF k <= k THEN k - k + 1 ELSE 0
    BY <1>1, <2>2
  <2>4. \A m \in 1..Len(q) : q[m] = s[k + m - 1]
    BY <1>1, <2>2
  <2>5. q \in Pipe!Remains(s)
    BY <2>1, <2>2, <2>3, <2>4, RemainsPart
  <2>6. QED
    BY <2>5 DEF q
<1>5. QED
  BY <1>2, <1>3, <1>4

\* What is left of a pipe when its first part, its second part or both are lost.
LEMMA RemainsOfParts ==
    ASSUME NEW s, NEW t, AtMostOne(s), AtMostOne(t), NEW u \in {s, <<>>}, NEW v \in {t, <<>>}
    PROVE  u \o v \in Pipe!Remains(s \o t)
<1> DEFINE p == s \o t
<1>1. s \in Seq(Nat) /\ t \in Seq(Nat)
  <2>1. <<>> \in Seq(Nat) /\ \A x \in Nat : <<x>> \in Seq(Nat)
    BY EmptySeq
  <2>2. QED
    BY <2>1 DEF AtMostOne
<1>2. /\ p \in Seq(Nat) /\ Len(p) = Len(s) + Len(t)
      /\ \A i \in 1..Len(s) + Len(t) : p[i] = IF i <= Len(s) THEN s[i] ELSE t[i - Len(s)]
  BY <1>1, ConcatProperties
<1>3. s \o <<>> = s /\ <<>> \o t = t /\ <<>> \o <<>> = <<>>
  BY <1>1, ConcatEmptySeq
<1> HIDE DEF p
<1>4. p \in Pipe!Remains(p) /\ <<>> \in Pipe!Remains(p)
  BY <1>2, RemainsSome
<1>5. s \in Pipe!Remains(p)
  <2>1. CASE s = <<>>
    BY <1>4, <2>1
  <2>2. ASSUME NEW x \in Nat, s = <<x>>
        PROVE  s \in Pipe!Remains(p)
    <3>1. Len(s) = 1 /\ s[1] = x /\ Len(t) \in Nat
      BY <1>1, <2>2, LenProperties
    <3>2. 1 \in 1..Len(p) /\ p[1] = x
      BY <1>2, <3>1
    <3>3. QED
      BY <1>2, <2>2, <3>2, RemainsSome
  <2>3. QED
    BY <2>1, <2>2 DEF AtMostOne
<1>6. t \in Pipe!Remains(p)
  <2>1. CASE t = <<>>
    BY <1>4, <2>1
  <2>2. ASSUME NEW x \in Nat, t = <<x>>
        PROVE  t \in Pipe!Remains(p)
    <3>1. Len(t) = 1 /\ t[1] = x /\ Len(s) \in Nat
      BY <1>1, <2>2, LenProperties
    <3>2. Len(p) = Len(s) + 1 /\ Len(p) - Len(s) = 1 /\ ~(Len(p) <= Len(s))
      BY <1>2, <3>1
    <3>3. Len(p) \in 1..Len(p) /\ p[Len(p)] = x
      BY <1>2, <3>1, <3>2
    <3>4. QED
      BY <1>2, <2>2, <3>3, RemainsSome
  <2>3. QED
    BY <2>1, <2>2 DEF AtMostOne
<1>7. QED
  BY <1>3, <1>4, <1>5, <1>6 DEF p
LEMMA PipeParts ==
    ASSUME TypeInv, NEW e \in InEps
    PROVE  AtMostOne(InBank(e)) /\ AtMostOne(BehindBank(e))
<1>1. U2S[e] \in EmuIn
  BY DEF EmuIn
<1>2. inBank[U2S[e]] \in Nat
  BY <1>1 DEF TypeInv, TypeOK, UsbTypeOK
<1>3. inPackets[e] \in Packet
  BY DEF TypeInv, TypeOK, ProxyTypeOK
<1>4. inPackets[e].data \in Nat
  BY <1>3 DEF Packet
<1>5. QED
  BY <1>2, <1>4 DEF AtMostOne, InBank, BehindBank

LEMMA PipeLoses ==
    ASSUME TypeInv, ~Calm', UNCHANGED <<reports, got>>,
           \A e \in InEps : /\ InBank(e)' \in {InBank(e), <<>>}
                            /\ BehindBank(e)' \in {BehindBank(e), <<>>}
    PROVE  Pipe!Lose
<1>1. ASSUME NEW e \in InEps
      PROVE  (InBank(e) \o BehindBank(e))' \in Pipe!Remains(InBank(e) \o BehindBank(e))
  <2>1. AtMostOne(InBank(e)) /\ AtMostOne(BehindBank(e))
    BY PipeParts
  <2>2. InBank(e)' \in {InBank(e), <<>>} /\ BehindBank(e)' \in {BehindBank(e), <<>>}
    OBVIOUS
  <2>3. InBank(e)' \o BehindBank(e)' \in Pipe!Remains(InBank(e) \o BehindBank(e))
    BY <2>1, <2>2, RemainsOfParts
  <2>4. QED
    BY <2>3
<1>2. Calm' = FALSE
  BY DEF Calm
<1>3. QED
  BY <1>1, <1>2 DEF Pipe!Lose

LEMMA PipeSame ==
    ASSUME TypeInv, SamePipes, Calm' => Calm
    PROVE  [Pipe!Next]_(Pipe!pipeVars)
<1>1. CASE Calm'
  <2>1. Calm' = Calm
    BY <1>1 DEF Calm
  <2>2. UNCHANGED [e \in InEps |-> InBank(e) \o BehindBank(e)]
    BY DEF SamePipes
  <2>3. UNCHANGED [e \in InEps |-> got[U2S[e]]]
    BY DEF SamePipes
  <2>4. QED
    BY <2>1, <2>2, <2>3 DEF SamePipes, Pipe!pipeVars
<1>2. CASE ~Calm'
  BY <1>2, PipeLoses DEF SamePipes, Pipe!Next
<1>3. QED
  BY <1>1, <1>2
-----------------------------------------------------------------------------
(* Reports that the proxy reads and sends. *)

\* With pend pending and fifo queued, the report of e is behind the bank.
Behind(e, pend, fifo, unread) == Queued(e, fifo) \/ (pend = e /\ unread)

LEMMA QueuedTail ==
    ASSUME NEW fifo \in Seq(InEps), fifo # <<>>, NEW e
    PROVE  Queued(e, fifo) <=> Head(fifo) = e \/ Queued(e, Tail(fifo))
<1>1. /\ DOMAIN fifo = 1..Len(fifo) /\ Len(fifo) \in Nat \ {0}
      /\ DOMAIN Tail(fifo) = 1..Len(fifo) - 1
      /\ \A i \in 1..Len(fifo) - 1 : Tail(fifo)[i] = fifo[i + 1]
      /\ Head(fifo) = fifo[1]
  BY HeadTailProperties, LenProperties, EmptySeq
<1>2. \A i \in DOMAIN fifo : i = 1 \/ (i - 1 \in DOMAIN Tail(fifo) /\ Tail(fifo)[i - 1] = fifo[i])
  BY <1>1
<1>3. 1 \in DOMAIN fifo /\ \A i \in DOMAIN Tail(fifo) : i + 1 \in DOMAIN fifo /\ Tail(fifo)[i] = fifo[i + 1]
  BY <1>1
<1>4. QED
  BY <1>1, <1>2, <1>3 DEF Queued

LEMMA QueuedAppend ==
    ASSUME NEW fifo \in Seq(InEps), NEW f \in InEps, NEW e
    PROVE  Queued(e, Append(fifo, f)) <=> f = e \/ Queued(e, fifo)
<1>1. /\ DOMAIN fifo = 1..Len(fifo) /\ DOMAIN Append(fifo, f) = 1..Len(fifo) + 1
      /\ Len(fifo) \in Nat
      /\ \A i \in 1..Len(fifo) : Append(fifo, f)[i] = fifo[i]
      /\ Append(fifo, f)[Len(fifo) + 1] = f
  BY AppendProperties, LenProperties
<1>2. QED
  BY <1>1 DEF Queued

LEMMA CopyAppend ==
    ASSUME NEW s \in Seq(Packet), NoneOf("IN", s), NEW p \in Packet, p.type = "IN"
    PROVE  CopyOf(Append(s, p), p) /\ ~NoneOf("IN", Append(s, p))
<1>1. /\ DOMAIN s = 1..Len(s) /\ DOMAIN Append(s, p) = 1..Len(s) + 1 /\ Len(s) \in Nat
      /\ \A i \in 1..Len(s) : Append(s, p)[i] = s[i]
      /\ Append(s, p)[Len(s) + 1] = p
  BY AppendProperties, LenProperties
<1>2. QED
  BY <1>1 DEF CopyOf, NoneOf

\* send_next_in_packet takes a report from the queue to the line, and leaves it
\* behind the bank of its endpoint.
LEMMA SendNextReports ==
    ASSUME toEmu \in Seq(Packet), NEW pend \in InEps \union {0}, NEW fifo \in Seq(InEps),
           NEW packets \in [InEps -> Packet], \A e \in InEps : packets[e].type = "IN",
           NEW ok, send_next_in_packet(pend, fifo, packets, ok),
           UNCHANGED <<input, pc>>, inPackets' = packets,
           pend = 0 => NoneOf("IN", toEmu) /\ input.ep = 0,
           CopyOf(toEmu, packets[pend]),
           input.ep # 0 => input.ep = U2S[pend] /\ input.data = packets[pend].data
    PROVE  /\ CopyOf(toEmu', inPackets'[inPending']) /\ CopyInSlot'
           /\ \A e \in InEps :
                 /\ Behind(e, inPending, inEpFifo, PacketUnread)' <=> Behind(e, pend, fifo, PacketUnread)
                 /\ inPending' = e \/ Queued(e, inEpFifo') => pend = e \/ Queued(e, fifo)
<1>1. CASE CanSend(pend, fifo) /\ ok
  <2> DEFINE h == Head(fifo)
  <2>1. /\ pend = 0 /\ fifo # <<>> /\ toEmu' = Append(toEmu, packets[h])
        /\ inPending' = h /\ inEpFifo' = Tail(fifo)
    BY <1>1 DEF send_next_in_packet, adapter_send, CanSend
  <2>2. h \in InEps /\ 0 \notin InEps
    BY <2>1, TailElements, EndpointsAssumption DEF EndpointsOK
  <2>3. CopyOf(toEmu', packets[h]) /\ ~NoneOf("IN", toEmu')
    BY <2>1, <2>2, CopyAppend
  <2>4. CopyInSlot'
    BY <2>1 DEF CopyInSlot
  <2>5. PacketUnread'
    BY <2>3, UnreadPacketNext DEF PacketUnread
  <2>6. \A e \in InEps : Queued(e, fifo) <=> h = e \/ Queued(e, inEpFifo')
    BY <2>1, QueuedTail
  <2>7. \A e \in InEps : pend # e
    BY <2>1, <2>2
  <2>8. \A e \in InEps :
           Behind(e, inPending', inEpFifo', PacketUnread') <=> Behind(e, pend, fifo, PacketUnread)
    BY <2>1, <2>5, <2>6, <2>7 DEF Behind
  <2>9. QED
    BY <2>1, <2>3, <2>4, <2>6, <2>8 DEF Behind, Queued
<1>2. CASE ~(CanSend(pend, fifo) /\ ok)
  <2>1. toEmu' = toEmu /\ inPending' = pend /\ inEpFifo' = fifo
    BY <1>2 DEF send_next_in_packet
  <2>2. PacketUnread' = PacketUnread
    BY <2>1 DEF PacketUnread, InPackets
  <2>3. CopyOf(toEmu', inPackets'[inPending']) /\ CopyInSlot'
    BY <2>1 DEF CopyInSlot
  <2>4. QED
    BY <2>1, <2>2, <2>3 DEF Behind, Queued
<1>3. QED
  BY <1>1, <1>2
LEMMA ReportRead ==
    ASSUME TypeInv, TokenInv, HomesInv, ReportInv, RoomForReport, ProxyStep,
           NEW e \in InEps, ReadDone(e)
    PROVE  ReportInv' /\ Pipe!Produce(e)
<1> DEFINE packets == [inPackets EXCEPT ![e] = Pkt("IN", U2S[e], reports[e] + 1)]
           fifo == Append(inEpFifo, e)
<1>0. /\ toEmu \in Seq(Packet) /\ inPending \in InEps \union {0} /\ inEpFifo \in Seq(InEps)
      /\ inPackets \in [InEps -> Packet] /\ reports \in [InEps -> Nat] /\ U2S[e] \in Nat
      /\ polls[e] > 0
  BY RenumberingAssumption DEF RenumberingOK, TypeInv, TypeOK, SerialTypeOK, ProxyTypeOK, GusbTypeOK, UsbEps,
                               ReadDone, RemovePoll
<1>1. PICK ok : /\ send_next_in_packet(inPending, fifo, packets, ok) /\ inPackets' = packets
                /\ reports' = [reports EXCEPT ![e] = @ + 1]
  <2>1. Len(inEpFifo) # MaxEndpoints
    <3>1. Len(inEpFifo) < MaxEndpoints /\ Len(inEpFifo) \in Nat /\ MaxEndpoints \in Nat
      BY <1>0, LenProperties, CapacityAssumption DEF CapacityOK, RoomForReport
    <3>2. QED
      BY <3>1
  <2>2. QED
    BY <2>1 DEF ReadDone
<1>2. /\ UNCHANGED <<got, inBank, input, resets, pc, usbState, issued, phase>>
  BY DEF ProxyStep, ReadDone, usbVars, busVars, hostVars, emuVars, mainVars
<1>3. inPending # e /\ ~Queued(e, inEpFifo)
  <2>1. polls[e] = 1
    BY <1>0 DEF HomesInv, Distinct
  <2>2. QED
    BY <2>1 DEF HomesInv, Distinct, Queued
<1>4. /\ packets \in [InEps -> Packet] /\ fifo \in Seq(InEps)
      /\ packets[e] = Pkt("IN", U2S[e], reports[e] + 1)
      /\ \A f \in InEps : f # e => packets[f] = inPackets[f]
  <2>1. reports[e] + 1 \in Nat
    BY <1>0
  <2>2. Pkt("IN", U2S[e], reports[e] + 1) \in Packet
    BY <1>0, <2>1, PktType DEF PacketTypes
  <2>3. QED
    BY <1>0, <2>2, AppendProperties
<1>5. \A f \in InEps : packets[f].type = "IN"
  BY <1>4 DEF TokenInv, PacketsAddressed, Pkt
<1>6. inPending = 0 => NoneOf("IN", toEmu) /\ input.ep = 0
  BY DEF TokenInv, OneToken, SlotBusy
<1>7. \A f \in InEps : Queued(f, fifo) <=> f = e \/ Queued(f, inEpFifo)
  BY <1>0, QueuedAppend
<1> HIDE DEF packets, fifo
<1>8. inPending # 0 => packets[inPending] = inPackets[inPending]
  BY <1>0, <1>3, <1>4
<1>9. CopyOf(toEmu, packets[inPending])
  <2>1. CASE inPending = 0
    BY <1>6, <2>1 DEF CopyOf, NoneOf
  <2>2. CASE inPending # 0
    BY <1>8, <2>2 DEF ReportInv
  <2>3. QED
    BY <2>1, <2>2
<1>10. input.ep # 0 => input.ep = U2S[inPending] /\ input.data = packets[inPending].data
  BY <1>6, <1>8 DEF ReportInv, CopyInSlot
<1>11. /\ CopyOf(toEmu', inPackets'[inPending']) /\ CopyInSlot'
       /\ \A f \in InEps :
             /\ Behind(f, inPending, inEpFifo, PacketUnread)' <=> Behind(f, inPending, fifo, PacketUnread)
             /\ inPending' = f \/ Queued(f, inEpFifo') => inPending = f \/ Queued(f, fifo)
  BY <1>0, <1>1, <1>2, <1>4, <1>5, <1>6, <1>9, <1>10, SendNextReports
<1>12. ReportInv'
  <2>1. ASSUME NEW f \in InEps
        PROVE  /\ inPackets'[f] = Pkt("IN", U2S[f], reports'[f])
               /\ inPending' = f \/ Queued(f, inEpFifo') => reports'[f] # 0
    <3>1. CASE f = e
      BY <1>0, <1>1, <1>4, <3>1
    <3>2. CASE f # e
      BY <1>0, <1>1, <1>4, <1>7, <1>11, <3>2 DEF ReportInv, PacketsCurrent
    <3>3. QED
      BY <3>1, <3>2
  <2>2. PacketsCurrent'
    BY <2>1 DEF PacketsCurrent, Queued
  <2>3. BankFree'
    BY <1>2 DEF BankFree, ReportInv
  <2>4. QED
    BY <1>11, <2>2, <2>3 DEF ReportInv, CopyOf
<1>13. \A f \in InEps : InBank(f)' = InBank(f)
  BY <1>2 DEF InBank
<1>14. \A f \in InEps : f # e => BehindBank(f)' = BehindBank(f)
  <2>1. SUFFICES ASSUME NEW f \in InEps, f # e
                 PROVE  BehindBank(f)' = BehindBank(f)
    OBVIOUS
  <2>2. Behind(f, inPending, inEpFifo, PacketUnread)' <=> Behind(f, inPending, inEpFifo, PacketUnread)
    BY <1>7, <1>11, <2>1 DEF Behind
  <2>3. inPackets'[f] = inPackets[f]
    BY <1>1, <1>4, <2>1
  <2>4. QED
    BY <2>2, <2>3 DEF BehindBank, Behind, Queued
<1>15. BehindBank(e) = <<>> /\ BehindBank(e)' = <<reports[e] + 1>>
  <2>1. Behind(e, inPending, inEpFifo, PacketUnread)'
    BY <1>7, <1>11 DEF Behind
  <2>2. inPackets'[e].data = reports[e] + 1
    BY <1>1, <1>4 DEF Pkt
  <2>3. BehindBank(e)' = <<reports[e] + 1>>
    BY <2>1, <2>2 DEF BehindBank, Behind, Queued
  <2>4. BehindBank(e) = <<>>
    BY <1>3 DEF BehindBank, Queued
  <2>5. QED
    BY <2>3, <2>4
<1>16. Pipe!Produce(e)
  <2> DEFINE pipe(f) == InBank(f) \o BehindBank(f)
  <2>1. Len(pipe(e)) < 2 /\ pipe(e)' = Append(pipe(e), reports[e] + 1)
    <3>1. AtMostOne(InBank(e))
      BY PipeParts
    <3>2. ASSUME NEW s, AtMostOne(s), NEW x \in Nat
          PROVE  Len(s \o <<>>) < 2 /\ s \o <<x>> = Append(s \o <<>>, x)
      <4>1. s \in Seq(Nat) /\ Len(s) < 2
        <5>1. CASE s = <<>>
          BY <5>1, EmptySeq
        <5>2. ASSUME NEW y \in Nat, s = <<y>>
              PROVE  s \in Seq(Nat) /\ Len(s) < 2
          BY <5>2
        <5>3. QED
          BY <3>2, <5>1, <5>2 DEF AtMostOne
      <4>2. s \o <<>> = s
        BY <4>1, ConcatEmptySeq
      <4>3. s \o <<x>> = Append(s, x)
        BY <3>2, <4>1, AppendIsConcat
      <4>4. QED
        BY <4>1, <4>2, <4>3
    <3>3. reports[e] + 1 \in Nat
      BY <1>0
    <3>4. QED
      BY <1>13, <1>15, <3>1, <3>2, <3>3
  <2>2. \A f \in InEps : f # e => pipe(f)' = pipe(f)
    BY <1>13, <1>14
  <2>3. Calm' = Calm
    BY <1>2 DEF Calm
  <2>4. UNCHANGED [f \in InEps |-> got[U2S[f]]]
    BY <1>2
  <2>5. [f \in InEps |-> pipe(f)]' = [[f \in InEps |-> pipe(f)] EXCEPT ![e] = Append(@, reports[e] + 1)]
    BY <2>1, <2>2
  <2>6. QED
    BY <1>1, <2>1, <2>3, <2>4, <2>5 DEF Pipe!Produce
<1>17. QED
  BY <1>12, <1>16
LEMMA ReportAcked ==
    ASSUME TypeInv, TokenInv, ReportInv, ProxyStep, ProcessIn
    PROVE  ReportInv' /\ SamePipes
<1>0. /\ toEmu \in Seq(Packet) /\ toProxy \in Seq(Packet) /\ inEpFifo \in Seq(InEps)
      /\ inPackets \in [InEps -> Packet] /\ 0 \notin InEps
      /\ \A e \in InEps : inPackets[e].type = "IN"
  BY EndpointsAssumption DEF EndpointsOK, TypeInv, TypeOK, SerialTypeOK, ProxyTypeOK, TokenInv,
                             PacketsAddressed
<1>1. UNCHANGED <<reports, inPackets, got, inBank, input, resets, pc, usbState>>
  BY DEF ProxyStep, ProcessIn, usbVars, busVars, hostVars, emuVars, mainVars
<1>2. NoneOf("IN", toEmu) /\ ~SlotBusy
  <2>1. toProxy # <<>> /\ Head(toProxy).type = "IN"
    BY DEF ProcessIn, Receive
  <2>2. 1 \in DOMAIN toProxy /\ toProxy[1].type = "IN"
    BY <1>0, <2>1, TailElements
  <2>3. ~NoneOf("IN", toProxy)
    BY <2>2 DEF NoneOf
  <2>4. QED
    BY <2>3 DEF TokenInv, OneToken
<1>3. input.ep = 0 /\ ~PacketUnread
  BY <1>2, UnreadPacket DEF SlotBusy, PacketUnread
<1>4. /\ CopyOf(toEmu', inPackets'[inPending']) /\ CopyInSlot'
      /\ \A e \in InEps :
            /\ Behind(e, inPending, inEpFifo, PacketUnread)' <=> Queued(e, inEpFifo)
            /\ inPending' = e \/ Queued(e, inEpFifo') => inPending = e \/ Queued(e, inEpFifo)
  <2>1. CASE \E sent \in SendResults : send_next_in_packet(0, inEpFifo, inPackets, sent)
    <3>1. PICK sent \in SendResults : send_next_in_packet(0, inEpFifo, inPackets, sent)
      BY <2>1
    <3>2. CopyOf(toEmu, inPackets[0])
      BY <1>2 DEF CopyOf, NoneOf
    <3>3. /\ CopyOf(toEmu', inPackets'[inPending']) /\ CopyInSlot'
          /\ \A e \in InEps :
                /\ Behind(e, inPending, inEpFifo, PacketUnread)' <=> Behind(e, 0, inEpFifo, PacketUnread)
                /\ inPending' = e \/ Queued(e, inEpFifo') => 0 = e \/ Queued(e, inEpFifo)
      BY <1>0, <1>1, <1>2, <1>3, <3>1, <3>2, SendNextReports
    <3>4. \A e \in InEps : e # 0 /\ (Behind(e, 0, inEpFifo, PacketUnread) <=> Queued(e, inEpFifo))
      BY <1>0, <1>3 DEF Behind
    <3>5. QED
      BY <3>3, <3>4
  <2>2. CASE toEmu' = toEmu /\ inEpFifo' = inEpFifo /\ inPending' \in {0, inPending}
    <3>1. CopyOf(toEmu', inPackets'[inPending'])
      BY <1>2, <2>2 DEF CopyOf, NoneOf
    <3>2. CopyInSlot'
      BY <1>1, <1>3 DEF CopyInSlot
    <3>3. ~PacketUnread'
      BY <1>1, <1>3, <2>2 DEF PacketUnread, InPackets
    <3>4. \A e \in InEps : e # 0
      BY <1>0
    <3>5. QED
      BY <2>2, <3>1, <3>2, <3>3, <3>4 DEF Behind, Queued
  <2>3. QED
    BY <2>1, <2>2 DEF ProcessIn
<1>5. PacketsCurrent' /\ BankFree'
  BY <1>1, <1>4 DEF ReportInv, PacketsCurrent, BankFree, Queued
<1>6. ReportInv'
  BY <1>4, <1>5 DEF ReportInv, CopyOf
<1>7. \A e \in InEps : BehindBank(e)' = BehindBank(e)
  BY <1>1, <1>3, <1>4 DEF BehindBank, Behind, Queued
<1>8. QED
  BY <1>1, <1>6, <1>7 DEF SamePipes, InBank

-----------------------------------------------------------------------------
(* Reports in the firmware. *)

\* The interrupt takes the pending report from the line to the slot.
LEMMA ReportReceived ==
    ASSUME TypeInv, TokenInv, ReportInv, EmuStep, RxIn
    PROVE  ReportInv' /\ SamePipes
<1>0. toEmu \in Seq(Packet)
  BY DEF TypeInv, TypeOK, SerialTypeOK
<1>1. /\ toEmu # <<>> /\ Head(toEmu).type = "IN" /\ toEmu' = Tail(toEmu)
      /\ input' = [ep |-> Head(toEmu).ep, data |-> Head(toEmu).data] /\ pc # "hardreset"
  BY DEF RxIn, Interrupt
<1>2. /\ UNCHANGED <<reports, inPending, inEpFifo, inPackets, got, inBank, resets, pc, usbState>>
  BY DEF EmuStep, RxIn, gusbVars, proxyVars, usbVars, busVars, hostVars, mainVars
<1>3. Head(toEmu) = toEmu[1] /\ 1 \in DOMAIN toEmu
  BY <1>0, <1>1, TailElements
<1>4. /\ ~NoneOf("IN", toEmu) /\ NoneOf("IN", toEmu') /\ Head(toEmu).ep # 0
  BY <1>0, <1>1, TokenTaken DEF TokenInv, OneToken, PacketsAddressed
<1>5. inPending \in InEps /\ ~SlotBusy
  BY <1>4 DEF TokenInv, OneToken, TypeInv, TypeOK, ProxyTypeOK
<1>6. Head(toEmu) = inPackets[inPending]
  BY <1>1, <1>3 DEF ReportInv, CopyOf
<1>7. inPackets[inPending] = Pkt("IN", U2S[inPending], reports[inPending])
  BY <1>5 DEF ReportInv, PacketsCurrent
<1>8. CopyInSlot'
  BY <1>1, <1>2, <1>6, <1>7 DEF CopyInSlot, Pkt
<1>9. CopyOf(toEmu', inPackets'[inPending'])
  BY <1>4 DEF CopyOf, NoneOf
<1>10. PacketsCurrent' /\ BankFree'
  BY <1>2, <1>5 DEF ReportInv, PacketsCurrent, BankFree, SlotBusy, Queued
<1>11. PacketUnread /\ PacketUnread'
  BY <1>1, <1>2, <1>4, <1>5, UnreadPacket DEF PacketUnread, SlotBusy
<1>12. SamePipes
  BY <1>2, <1>11 DEF SamePipes, InBank, BehindBank
<1>13. QED
  BY <1>8, <1>9, <1>10, <1>12 DEF ReportInv, CopyOf

\* SendNextInput finds a report and an empty bank, and clears the slot at the end.
LEMMA SlotKept ==
    ASSUME TypeInv, TokenInv, ReportInv, EmuStep, InputFound \/ InputRelease
    PROVE  ReportInv' /\ SamePipes
<1>1. UNCHANGED <<reports, inPending, inEpFifo, inPackets, got, inBank, resets, usbState, toEmu>>
  BY DEF EmuStep, InputFound, InputRelease, gusbVars, proxyVars, usbVars, busVars, hostVars, serialVars
<1>2. PacketsCurrent' /\ CopyOf(toEmu', inPackets'[inPending'])
  BY <1>1 DEF ReportInv, PacketsCurrent, CopyOf, Queued
<1>3. CASE InputFound
  <2>1. /\ pc = "input" /\ pc' = "in_write" /\ input' = input
        /\ inBank[input.ep] = 0 /\ usbState = "Configured"
    BY <1>3 DEF InputFound, InputReady, Goto
  <2>2. CopyInSlot' /\ BankFree'
    BY <1>1, <2>1 DEF ReportInv, CopyInSlot, BankFree
  <2>3. PacketUnread' = PacketUnread
    BY <1>1, <2>1 DEF PacketUnread, InPackets
  <2>4. QED
    BY <1>1, <1>2, <2>2, <2>3 DEF ReportInv, CopyOf, SamePipes, InBank, BehindBank
<1>4. CASE InputRelease
  <2>1. /\ pc = "in_release" /\ pc' = "in_ack" /\ input' = [input EXCEPT !.ep = 0]
        /\ input'.ep = 0
    BY <1>4 DEF InputRelease, Goto, TypeInv, TypeOK, EmuTypeOK, Slot
  <2>2. CopyInSlot' /\ BankFree'
    BY <2>1 DEF CopyInSlot, BankFree
  <2>3. NoneOf("IN", toEmu)
    BY <2>1 DEF TokenInv, OneToken, SlotBusy
  <2>4. ~PacketUnread /\ ~PacketUnread'
    BY <1>1, <2>1, <2>3, UnreadPacket, UnreadPacketNext DEF PacketUnread
  <2>5. QED
    BY <1>1, <1>2, <2>2, <2>4 DEF ReportInv, CopyOf, SamePipes, InBank, BehindBank
<1>5. QED
  BY <1>3, <1>4
\* SendNextInput gives the report to the bank, where it is ahead of none: the
\* pipe is the same, unless a bus reset has disabled the endpoint.
LEMMA ReportWritten ==
    ASSUME TypeInv, TokenInv, HomesInv, ReportInv, EmuStep, InputWrite
    PROVE  ReportInv' /\ [Pipe!Next]_(Pipe!pipeVars)
<1>1. /\ pc = "in_write" /\ pc' = "in_release"
      /\ inBank' = IF usbState = "Default" THEN inBank ELSE [inBank EXCEPT ![input.ep] = input.data]
      /\ UNCHANGED <<reports, inPending, inEpFifo, inPackets, got, input, toEmu, usbState>>
      /\ UNCHANGED <<resets, issued, phase>>
  BY DEF EmuStep, InputWrite, Goto, gusbVars, proxyVars, hostVars, serialVars
<1>2. PICK e \in InEps : e = inPending /\ input.ep # 0 /\ NoneOf("IN", toEmu)
  BY <1>1 DEF TokenInv, OneToken, SlotBusy, TypeInv, TypeOK, ProxyTypeOK
<1>3. input.ep = U2S[e] /\ input.data = reports[e] /\ inPackets[e].data = reports[e]
      /\ reports[e] # 0
  <2>1. inPackets[e] = Pkt("IN", U2S[e], reports[e]) /\ reports[e] # 0
    BY <1>2 DEF ReportInv, PacketsCurrent
  <2>2. input.ep = U2S[e] /\ input.data = inPackets[e].data
    BY <1>2 DEF ReportInv, CopyInSlot
  <2>3. QED
    BY <2>1, <2>2 DEF Pkt
<1>4. inBank[U2S[e]] = 0 /\ (usbState = "Default" => resets # 0)
  BY <1>1, <1>3 DEF ReportInv, BankFree
<1>5. ReportInv'
  BY <1>1 DEF ReportInv, PacketsCurrent, CopyOf, CopyInSlot, BankFree, Queued
<1>6. PacketUnread /\ ~PacketUnread'
  BY <1>1, <1>2, UnreadPacketNext DEF PacketUnread
<1>7. ~Queued(e, inEpFifo)
  BY <1>2 DEF HomesInv, Distinct, Queued
<1>8. /\ InBank(e) = <<>> /\ BehindBank(e) = <<reports[e]>> /\ BehindBank(e)' = <<>>
      /\ \A f \in InEps : f # e => BehindBank(f)' = BehindBank(f)
  BY <1>1, <1>2, <1>3, <1>4, <1>6, <1>7 DEF InBank, BehindBank, Queued
<1>9. CASE usbState = "Default"
  <2>1. ~Calm'
    BY <1>1, <1>4, <1>9 DEF Calm
  <2>2. \A f \in InEps : InBank(f)' = InBank(f)
    BY <1>1, <1>9 DEF InBank
  <2>3. \A f \in InEps : /\ InBank(f)' \in {InBank(f), <<>>}
                         /\ BehindBank(f)' \in {BehindBank(f), <<>>}
    BY <1>8, <2>2
  <2>4. Pipe!Lose
    BY <1>1, <2>1, <2>3, PipeLoses
  <2>5. QED
    BY <1>5, <2>4 DEF Pipe!Next
<1>10. CASE usbState # "Default"
  <2>1. /\ U2S[e] \in EmuIn /\ inBank \in [EmuIn -> Nat] /\ reports[e] \in Nat
        /\ \A f \in InEps : f # e => U2S[f] # U2S[e]
    BY <1>2, RenumberingAssumption DEF RenumberingOK, EmuIn, UsbEps, TypeInv, TypeOK, UsbTypeOK, GusbTypeOK
  <2>2. /\ inBank'[U2S[e]] = reports[e]
        /\ \A f \in InEps : f # e => inBank'[U2S[f]] = inBank[U2S[f]]
    BY <1>1, <1>3, <1>10, <2>1
  <2>3. InBank(e)' = <<reports[e]>> /\ \A f \in InEps : f # e => InBank(f)' = InBank(f)
    BY <1>3, <2>2 DEF InBank
  <2>4. <<>> \o <<reports[e]>> = <<reports[e]>> /\ <<reports[e]>> \o <<>> = <<reports[e]>>
    <3>1. <<reports[e]>> \in Seq(Nat)
      BY <2>1
    <3>2. QED
      BY <3>1, ConcatEmptySeq
  <2>5. \A f \in InEps : (InBank(f) \o BehindBank(f))' = InBank(f) \o BehindBank(f)
    BY <1>8, <2>3, <2>4
  <2>6. UNCHANGED [f \in InEps |-> InBank(f) \o BehindBank(f)]
    BY <2>5
  <2>7. UNCHANGED [f \in InEps |-> got[U2S[f]]] /\ Calm' = Calm
    BY <1>1 DEF Calm
  <2>8. QED
    BY <1>1, <1>5, <2>6, <2>7 DEF Pipe!pipeVars
<1>11. QED
  BY <1>9, <1>10

\* A reset of the firmware or of the bus, a configuration, or the end of a halt
\* empties what it empties at once, and reorders nothing.
LEMMA ReportsLost ==
    ASSUME TypeInv, TokenInv, BusInv, ReportInv, [Next]_vars,
           \/ EmuStep /\ (RxReset \/ Reboot \/ SetConfiguration \/ HaltCleared)
           \/ HostStep /\ BusReset
    PROVE  ReportInv' /\ [Pipe!Next]_(Pipe!pipeVars)
<1>0. toEmu \in Seq(Packet) /\ returnTo \in {"input", "out_clear"}
  BY DEF TypeInv, TypeOK, SerialTypeOK, EmuTypeOK
<1>1. /\ UNCHANGED <<reports, got, inPending, inEpFifo, inPackets>>
      /\ \A n \in EmuIn : inBank'[n] \in {inBank[n], 0}
  BY ClearedBanks DEF EmuStep, HostStep, RxReset, Reboot, SetConfiguration, BusReset, gusbVars,
     proxyVars, usbVars, busVars, EmptyInBanks
<1>2. Within({"IN"}, toEmu, toEmu')
  <2>1. CASE RxReset
    BY <1>0, <2>1, WithinTail DEF RxReset, Interrupt
  <2>2. CASE Reboot
    BY <1>0, <2>2, WithinSuffix DEF Reboot
  <2>3. CASE SetConfiguration \/ HaltCleared \/ HostStep
    BY <1>0, <2>3, WithinSame, ClearedBanks DEF SetConfiguration, HostStep, serialVars
  <2>4. QED
    BY <2>1, <2>2, <2>3
<1>3. /\ CopyOf(toEmu', inPackets'[inPending'])
      /\ NoneOf("IN", toEmu) => NoneOf("IN", toEmu')
  <2>1. PICK k \in Nat : \A i \in DOMAIN toEmu' : toEmu'[i].type = "IN" =>
                            i + k \in DOMAIN toEmu /\ toEmu'[i] = toEmu[i + k]
    BY <1>2 DEF Within, Shifted
  <2>2. QED
    BY <1>1, <2>1 DEF ReportInv, CopyOf, NoneOf
<1>4. CopyInSlot' /\ (PacketUnread' => PacketUnread)
  <2>1. \/ input'.ep = 0
        \/ input' = input /\ pc' = "hardreset"
        \/ input' = input /\ pc \notin {"in_release", "hardreset"}
        \/ input' = input /\ pc' = pc
    BY ClearedBanks DEF EmuStep, HostStep, RxReset, Reboot, SetConfiguration, BusReset, EmptySlot, emuVars,
           mainVars
  <2>2. CopyInSlot'
    BY <1>1, <2>1 DEF ReportInv, CopyInSlot
  <2>3. PacketUnread' => PacketUnread
    BY <1>3, <2>1, UnreadPacket, UnreadPacketNext DEF PacketUnread
  <2>4. QED
    BY <2>2, <2>3
<1>5. BankFree'
  <2>1. CASE HostStep /\ BusReset
    <3>1. /\ inBank' = EmptyInBanks /\ resets' = resets + 1 /\ resets \in Nat
          /\ UNCHANGED <<pc, input>>
      BY <2>1 DEF HostStep, BusReset, emuVars, mainVars, TypeInv, TypeOK, UsbTypeOK
    <3>2. pc = "in_write" => input.ep \in EmuIn
      BY DEF TokenInv, OneToken, SlotBusy, ReportInv, CopyInSlot, TypeInv, TypeOK, ProxyTypeOK, EmuIn
    <3>3. QED
      BY <3>1, <3>2 DEF BankFree, EmptyInBanks
  <2>2. CASE EmuStep /\ (RxReset \/ Reboot \/ SetConfiguration \/ HaltCleared)
    <3>1. pc' # "in_write"
      BY <1>0, <2>2, ClearedBanks DEF RxReset, Reboot, SetConfiguration, TaskReturns
    <3>2. QED
      BY <3>1 DEF BankFree
  <2>3. QED
    BY <2>1, <2>2
<1>6. ReportInv'
  BY <1>1, <1>3, <1>4, <1>5 DEF ReportInv, PacketsCurrent, CopyOf, Queued
<1>7. \A e \in InEps : U2S[e] \in EmuIn
  BY DEF EmuIn
<1>8. CASE Calm'
  <2>1. Calm
    BY <1>8, CalmBefore
  <2>2. SetConfiguration /\ EmuStep /\ inBank = EmptyInBanks
    BY <1>8, CalmSteps
  <2>3. inBank' = inBank /\ toEmu' = toEmu /\ input' = input
        /\ {pc, pc'} \intersect {"in_release", "hardreset"} = {}
    BY <1>0, <2>2 DEF SetConfiguration, TaskReturns, serialVars
  <2>4. PacketUnread' = PacketUnread
    BY <2>3 DEF PacketUnread, InPackets
  <2>5. SamePipes
    BY <1>1, <2>3, <2>4 DEF SamePipes, InBank, BehindBank
  <2>6. QED
    BY <1>6, <2>1, <2>5, PipeSame
<1>9. CASE ~Calm'
  <2>1. \A e \in InEps : InBank(e)' \in {InBank(e), <<>>}
    BY <1>1, <1>7 DEF InBank
  <2>2. \A e \in InEps : BehindBank(e)' \in {BehindBank(e), <<>>}
    BY <1>1, <1>4 DEF BehindBank
  <2>3. Pipe!Lose
    BY <1>1, <1>9, <2>1, <2>2, PipeLoses
  <2>4. QED
    BY <1>6, <2>3 DEF Pipe!Next
<1>10. QED
  BY <1>8, <1>9

\* The host reads a report.
LEMMA ReportDelivers ==
    ASSUME TypeInv, ReportInv, HostStep, NEW n \in EmuIn, HostReads(n)
    PROVE  ReportInv' /\ [Pipe!Next]_(Pipe!pipeVars)
<1>1. PICK e \in InEps : U2S[e] = n
  BY DEF EmuIn
<1>2. \A f \in InEps : f # e => U2S[f] # n
  BY <1>1, RenumberingAssumption DEF RenumberingOK, UsbEps
<1>3. /\ UNCHANGED <<reports, inPending, inEpFifo, inPackets, input, toEmu, pc, phase>>
      /\ UNCHANGED <<resets, issued, usbState>>
      /\ inBank[n] # 0 /\ inBank' = [inBank EXCEPT ![n] = 0]
      /\ got' = [got EXCEPT ![n] = Append(@, inBank[n])]
  BY DEF HostStep, HostReads, serialVars, gusbVars, proxyVars, emuVars, mainVars, hostVars
<1>4. inBank \in [EmuIn -> Nat] /\ got \in [EmuIn -> Seq(Nat)] /\ \A f \in InEps : U2S[f] \in EmuIn
  BY DEF TypeInv, TypeOK, UsbTypeOK, EmuIn
<1>5. ReportInv'
  <2>1. BankFree'
    BY <1>3, <1>4 DEF ReportInv, BankFree
  <2>2. QED
    BY <1>3, <2>1 DEF ReportInv, PacketsCurrent, CopyOf, CopyInSlot, Queued
<1>6. /\ InBank(e) = <<inBank[n]>> /\ InBank(e)' = <<>>
      /\ \A f \in InEps : f # e => InBank(f)' = InBank(f)
  BY <1>1, <1>2, <1>3, <1>4 DEF InBank
<1>7. \A f \in InEps : BehindBank(f)' = BehindBank(f)
  BY <1>3 DEF BehindBank, PacketUnread, InPackets
<1> DEFINE pipe(f) == InBank(f) \o BehindBank(f)
<1>8. pipe(e) # <<>> /\ Head(pipe(e)) = inBank[n] /\ pipe(e)' = Tail(pipe(e))
  <2>1. AtMostOne(BehindBank(e)) /\ inBank[n] \in Nat
    BY <1>4, PipeParts
  <2>2. ASSUME NEW t, AtMostOne(t), NEW x \in Nat
        PROVE  <<x>> \o t # <<>> /\ Head(<<x>> \o t) = x /\ Tail(<<x>> \o t) = <<>> \o t
    <3> DEFINE p == <<x>> \o t
    <3>1. t \in Seq(Nat) /\ <<x>> \in Seq(Nat)
      <4>1. <<>> \in Seq(Nat) /\ \A y \in Nat : <<y>> \in Seq(Nat)
        BY EmptySeq
      <4>2. QED
        BY <2>2, <4>1 DEF AtMostOne
    <3>2. /\ p \in Seq(Nat) /\ Len(p) = 1 + Len(t) /\ Len(t) \in Nat
          /\ p[1] = x /\ \A i \in 1..Len(t) : p[i + 1] = t[i]
      <4>1. Len(<<x>>) = 1 /\ <<x>>[1] = x /\ Len(t) \in Nat
        BY <3>1, LenProperties
      <4>2. /\ p \in Seq(Nat) /\ Len(p) = Len(<<x>>) + Len(t)
            /\ \A i \in 1..Len(<<x>>) + Len(t) :
                  p[i] = IF i <= Len(<<x>>) THEN <<x>>[i] ELSE t[i - Len(<<x>>)]
        BY <3>1, ConcatProperties
      <4> HIDE DEF p
      <4>3. p[1] = x
        BY <4>1, <4>2
      <4>4. \A i \in 1..Len(t) : i + 1 \in 1..1 + Len(t) /\ ~(i + 1 <= 1) /\ i + 1 - 1 = i
        BY <4>1
      <4>5. QED
        BY <4>1, <4>2, <4>3, <4>4
    <3>3. <<>> \o t = t
      BY <3>1, ConcatEmptySeq
    <3> HIDE DEF p
    <3>4. p # <<>>
      BY <3>2, EmptySeq
    <3>5. /\ Head(p) = x /\ Tail(p) \in Seq(Nat) /\ Len(Tail(p)) = Len(t)
          /\ \A i \in 1..Len(t) : Tail(p)[i] = t[i]
      BY <3>2, <3>4, HeadTailProperties
    <3>6. Tail(p) = t
      BY <3>1, <3>5, SeqEqual
    <3>7. QED
      BY <3>3, <3>4, <3>5, <3>6 DEF p
  <2>3. QED
    BY <1>6, <1>7, <2>1, <2>2
<1>9. \A f \in InEps : f # e => pipe(f)' = pipe(f)
  BY <1>6, <1>7
<1>10. [f \in InEps |-> pipe(f)]' = [[f \in InEps |-> pipe(f)] EXCEPT ![e] = Tail(@)]
  BY <1>8, <1>9
<1>11. [f \in InEps |-> got[U2S[f]]]' = [[f \in InEps |-> got[U2S[f]]] EXCEPT ![e] = Append(@, Head(pipe(e)))]
  BY <1>1, <1>2, <1>3, <1>4, <1>8
<1>12. Calm' = Calm
  BY <1>3 DEF Calm
<1>13. Pipe!Deliver(e)
  BY <1>3, <1>8, <1>10, <1>11, <1>12 DEF Pipe!Deliver
<1>14. QED
  BY <1>5, <1>13 DEF Pipe!Next

-----------------------------------------------------------------------------
(* The path of the reports is the pipe. *)

LEMMA StepReports ==
    ASSUME TypeInv, TokenInv, HomesInv, BusInv, RoomForReport, ReportInv, [Next]_vars
    PROVE  ReportInv' /\ [Pipe!Next]_(Pipe!pipeVars)
<1>1. Calm' => Calm
  BY CalmBefore
<1>2. CASE ReportsKept
  BY <1>1, <1>2, KeptReports, PipeSame
<1>3. CASE ProxyStep
  <2>1. CASE \E e \in InEps : ReadDone(e)
    <3>1. PICK e \in InEps : ReadDone(e)
      BY <2>1
    <3>2. ReportInv' /\ Pipe!Produce(e)
      BY <1>3, <3>1, ReportRead
    <3>3. QED
      BY <3>2 DEF Pipe!Next
  <2>2. CASE ProcessIn
    BY <1>1, <1>3, <2>2, ReportAcked, PipeSame
  <2>3. QED
    BY <1>2, <1>3, <2>1, <2>2, ProxyKept
<1>4. CASE EmuStep
  <2>1. CASE RxIn
    BY <1>1, <1>4, <2>1, ReportReceived, PipeSame
  <2>2. CASE InputFound \/ InputRelease
    BY <1>1, <1>4, <2>2, SlotKept, PipeSame
  <2>3. CASE InputWrite
    BY <1>4, <2>3, ReportWritten
  <2>4. CASE RxReset \/ Reboot \/ SetConfiguration \/ HaltCleared
    BY <1>4, <2>4, ReportsLost
  <2>5. QED
    BY <1>2, <1>4, <2>1, <2>2, <2>3, <2>4, EmuKept DEF MovesReport
<1>5. CASE HostStep
  <2>1. CASE \E n \in EmuIn : HostReads(n)
    BY <1>5, <2>1, ReportDelivers
  <2>2. CASE BusReset
    BY <1>5, <2>2, ReportsLost
  <2>3. QED
    BY <1>2, <1>5, <2>1, <2>2, HostKept
<1>6. CASE UNCHANGED vars
  <2>1. SameReports(toEmu, toEmu')
    BY <1>6, ReportsSame DEF vars, serialVars, TypeInv, TypeOK, SerialTypeOK
  <2>2. ReportsKept
    BY <1>6, <2>1 DEF ReportsKept, vars, gusbVars, proxyVars, usbVars, busVars, hostVars, emuVars, mainVars
  <2>3. QED
    BY <1>2, <2>2
<1>7. QED
  BY <1>3, <1>4, <1>5, <1>6 DEF Next

LEMMA InitReports == Init => ReportInv /\ Pipe!Init
<1> SUFFICES ASSUME Init
             PROVE  ReportInv /\ Pipe!Init
  OBVIOUS
<1>1. /\ inPending = 0 /\ inEpFifo = <<>> /\ toEmu = <<>> /\ input.ep = 0 /\ pc = "boot"
      /\ inPackets = [e \in InEps |-> Pkt("IN", U2S[e], 0)] /\ reports = [e \in InEps |-> 0]
      /\ inBank = [n \in EmuIn |-> 0] /\ got = [n \in EmuIn |-> <<>>]
      /\ resets = 0 /\ issued = {} /\ phase = "idle"
  BY DEF Init, SerialInit, ProxyInit, GusbInit, UsbInit, EmuInit, EmptySlot, EmptyInBanks
<1>2. \A e \in InEps : e # 0 /\ U2S[e] \in EmuIn
  BY EndpointsAssumption DEF EndpointsOK, EmuIn
<1>3. \A e \in InEps : ~Queued(e, inEpFifo)
  BY <1>1 DEF Queued
<1>4. ReportInv
  BY <1>1, <1>2, <1>3 DEF ReportInv, PacketsCurrent, CopyOf, CopyInSlot, BankFree
<1>5. \A e \in InEps : InBank(e) = <<>> /\ BehindBank(e) = <<>> /\ got[U2S[e]] = <<>>
  BY <1>1, <1>2, <1>3 DEF InBank, BehindBank, Queued
<1>6. \A e \in InEps : InBank(e) \o BehindBank(e) = <<>>
  BY <1>5, ConcatEmptySeq, EmptySeq
<1>7. Calm = TRUE
  <2>1. Cardinality(issued \intersect ConfigRequests) = 0
    BY <1>1, FS_EmptySet
  <2>2. QED
    BY <1>1, <2>1 DEF Calm
<1>8. Pipe!Init
  BY <1>1, <1>5, <1>6, <1>7 DEF Pipe!Init
<1>9. QED
  BY <1>4, <1>8

LEMMA AlwaysReports == Spec => []ReportInv
BY InitReports, StepReports, AlwaysTypeInv, AlwaysToken, AlwaysHomes, AlwaysBus, RoomAlways, PTL
   DEF Spec

\* ImplementsPipe: whatever fails and whatever the bus does, each step of the
\* system is a step of the pipe of reports or none: reports are handed to the host
\* in the order in which the device made them, at most once and two of an endpoint
\* at most on their way, and none is lost before the bus is reset, the device is
\* configured again, the host clears a halt or the session ends
\* (usb_read_callback, send_next_in_packet and process_packet in proxy.c, the
\* interrupt and SendNextInput in emu.c, LUFA's DeviceStandardReq.c).
THEOREM PipeImplemented == Spec => ImplementsPipe
BY InitReports, StepReports, AlwaysReports, AlwaysTypeInv, AlwaysToken, AlwaysHomes, AlwaysBus,
   RoomAlways, PTL DEF Spec, ImplementsPipe, Pipe!Spec
=============================================================================
