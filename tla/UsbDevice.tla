----------------------------- MODULE UsbDevice -----------------------------
(***************************************************************************)
(* The emulated USB device as the target host sees it: the state of the    *)
(* controller that LUFA drives (device state, endpoint banks, the pending  *)
(* SETUP packet) and the host at the other end of the cable.  The firmware *)
(* (Emu) reads and writes this state from its main loop; the actions here  *)
(* are those of the host and of the USB interrupt.                         *)
(*                                                                         *)
(* A bank holds one packet, as emu.c configures one bank per endpoint.     *)
(* Reports and output packets are numbered 1, 2, ... per endpoint, 0 is an *)
(* empty bank.  A control request is a member of one of the request sets   *)
(* below; the host issues each at most once.                               *)
(***************************************************************************)
EXTENDS Endpoints, Sequences

CONSTANTS
    InRequests,         \* device-to-host requests that the firmware forwards
    OutRequests,        \* host-to-device requests that the firmware forwards
    BigRequests,        \* requests with wLength above the serial packet size
    ConfigRequests,     \* SET_CONFIGURATION requests
    HaltRequests,       \* SET_FEATURE(ENDPOINT_HALT) requests for an endpoint other than 0
    ClearRequests,      \* CLEAR_FEATURE(ENDPOINT_HALT) requests for such an endpoint
    StatusRequests,     \* GET_STATUS and GET_CONFIGURATION requests
    OutSizes,           \* kinds of OUT packets that the host sends on each endpoint
    MaxOut,             \* bound: OUT packets the host sends on an endpoint
    MaxBusResets,       \* bound: bus resets
    MaxSuspends,        \* bound: suspensions
    MaxAborts           \* bound: control transfers that the host abandons

\* Requests that LUFA handles without the program.
LibraryRequests == ConfigRequests \union HaltRequests \union ClearRequests \union StatusRequests

Requests == InRequests \union OutRequests \union BigRequests \union LibraryRequests

ASSUME RequestsAssumption ==
    /\ Requests \subseteq Nat \ {0}
    /\ InRequests \intersect OutRequests = {}
    /\ (InRequests \union OutRequests) \intersect (BigRequests \union LibraryRequests) = {}
    /\ BigRequests \intersect LibraryRequests = {}
    /\ ConfigRequests \intersect (HaltRequests \union ClearRequests \union StatusRequests) = {}
    /\ HaltRequests \intersect (ClearRequests \union StatusRequests) = {}
    /\ ClearRequests \intersect StatusRequests = {}
    /\ OutSizes \in [EmuOut -> SUBSET {"full", "short", "zero"}]

ASSUME HostBoundsAssumption ==
    /\ MaxOut \in Nat
    /\ MaxBusResets \in Nat
    /\ MaxSuspends \in Nat
    /\ MaxAborts \in Nat

VARIABLES
    usbState,   \* "Off" before USB_Init, then USB_DeviceState
    inBank,     \* IN bank of each emulated endpoint
    outBank,    \* OUT bank of each emulated endpoint
    halted,     \* endpoints that answer with STALL (STALLRQ)
    setup,      \* SETUP packet received and not cleared (RXSTPI), or 0
    hostReq,    \* control transfer that the host has not finished, or 0
    issued,     \* requests issued so far
    got,        \* history: reports that the host read from each endpoint
    sentOut,    \* history: number of OUT packets acknowledged to the host
    answer,     \* history: outcome of the last control transfer
    resets, suspends, aborts        \* counters for the bounds

hostVars == <<issued, sentOut, resets, suspends, aborts>>
busVars == <<usbState, inBank, outBank, halted, setup, hostReq, got, answer>>
usbVars == <<busVars, hostVars>>

\* Powered, Default and Addressed are one state here: none of them lets
\* ENDPOINT_Task run, all of them let USB_USBTask handle SETUP packets.
UsbStates == {"Off", "Default", "Configured", "Suspended"}

OutPacket == [size : {"none", "full", "short", "zero"}, data : Nat]
NoPacket == [size |-> "none", data |-> 0]

\* What the host sees of a control transfer: part1 and part2 are the requests
\* whose data fill the two halves of the data stage, from is the request that
\* the reply came from (0 when the firmware made the answer up).
Answer == [req : Nat, status : {"none", "data", "ok", "stall"},
           part1 : Nat, part2 : Nat, from : Nat]
NoAnswer == [req |-> 0, status |-> "none", part1 |-> 0, part2 |-> 0, from |-> 0]

UsbTypeOK ==
    /\ usbState \in UsbStates
    /\ inBank \in [EmuIn -> Nat]
    /\ outBank \in [EmuOut -> OutPacket]
    /\ halted \subseteq EmuIn \union EmuOut
    /\ setup \in Requests \union {0}
    /\ hostReq \in Requests \union {0}
    /\ issued \subseteq Requests
    /\ got \in [EmuIn -> Seq(Nat)]
    /\ sentOut \in [EmuOut -> Nat]
    /\ answer \in Answer
    /\ resets \in Nat /\ suspends \in Nat /\ aborts \in Nat

EmptyInBanks == [n \in EmuIn |-> 0]
EmptyOutBanks == [n \in EmuOut |-> NoPacket]

UsbInit ==
    /\ usbState = "Off"
    /\ inBank = EmptyInBanks
    /\ outBank = EmptyOutBanks
    /\ halted = {}
    /\ setup = 0
    /\ hostReq = 0
    /\ issued = {}
    /\ got = [n \in EmuIn |-> <<>>]
    /\ sentOut = [n \in EmuOut |-> 0]
    /\ answer = NoAnswer
    /\ resets = 0 /\ suspends = 0 /\ aborts = 0

-----------------------------------------------------------------------------
(* The host. *)

\* An IN token: the host reads the packet that the bank of n holds.
HostReads(n) ==
    /\ usbState = "Configured"
    /\ n \notin halted
    /\ inBank[n] # 0
    /\ got' = [got EXCEPT ![n] = Append(@, inBank[n])]
    /\ inBank' = [inBank EXCEPT ![n] = 0]
    /\ UNCHANGED <<usbState, outBank, halted, setup, hostReq, answer, hostVars>>

\* An OUT transaction, acknowledged because the bank of n is free.
HostWrites(n) ==
    /\ usbState = "Configured"
    /\ n \notin halted
    /\ outBank[n] = NoPacket
    /\ sentOut[n] < MaxOut
    /\ sentOut' = [sentOut EXCEPT ![n] = @ + 1]
    /\ \E size \in OutSizes[n] :
          outBank' = [outBank EXCEPT ![n] = [size |-> size, data |-> sentOut[n] + 1]]
    /\ UNCHANGED <<usbState, inBank, halted, setup, hostReq, got, answer, issued, resets, suspends, aborts>>

\* The bound on SET_CONFIGURATION requests leaves one for each bus reset to come.
ConfigurationAllowed ==
    \/ usbState = "Default"
    \/ /\ usbState = "Configured"
       /\ Cardinality(ConfigRequests \ issued) > MaxBusResets - resets

\* A SETUP transaction: the controller always acknowledges it.
HostSetup(r) ==
    /\ hostReq = 0
    /\ r \notin issued
    /\ IF r \in ConfigRequests THEN ConfigurationAllowed ELSE usbState = "Configured"
    /\ setup' = r
    /\ hostReq' = r
    /\ issued' = issued \union {r}
    /\ UNCHANGED <<usbState, inBank, outBank, halted, got, answer, sentOut, resets, suspends, aborts>>

\* The host gives up a control transfer that takes too long.
HostAbort ==
    /\ aborts < MaxAborts
    /\ hostReq # 0
    /\ aborts' = aborts + 1
    /\ hostReq' = 0
    /\ UNCHANGED <<usbState, inBank, outBank, halted, setup, got, answer, issued, sentOut, resets, suspends>>

\* End of reset, in the USB interrupt: the controller has disabled the
\* endpoints, and the handler reconfigures the control endpoint.
BusReset ==
    /\ resets < MaxBusResets
    /\ usbState # "Off"
    /\ resets' = resets + 1
    /\ usbState' = "Default"
    /\ inBank' = EmptyInBanks
    /\ outBank' = EmptyOutBanks
    /\ halted' = {}
    /\ setup' = 0
    /\ hostReq' = 0
    /\ UNCHANGED <<got, answer, issued, sentOut, suspends, aborts>>

\* Suspend and wake-up conditions, in the USB interrupt.  A host does not
\* suspend a bus on which it has a transfer under way.
BusSuspend ==
    /\ suspends < MaxSuspends
    /\ usbState = "Configured"
    /\ hostReq = 0
    /\ suspends' = suspends + 1
    /\ usbState' = "Suspended"
    /\ UNCHANGED <<inBank, outBank, halted, setup, hostReq, got, answer, issued, sentOut, resets, aborts>>

BusWakeUp ==
    /\ usbState = "Suspended"
    /\ usbState' = "Configured"
    /\ UNCHANGED <<inBank, outBank, halted, setup, hostReq, got, answer, hostVars>>

UsbNext ==
    \/ \E n \in EmuIn : HostReads(n)
    \/ \E n \in EmuOut : HostWrites(n)
    \/ \E r \in Requests : HostSetup(r)
    \/ HostAbort
    \/ BusReset
    \/ BusSuspend
    \/ BusWakeUp
=============================================================================
