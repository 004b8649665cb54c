------------------------------ MODULE Sessions ------------------------------
(***************************************************************************)
(* Several sessions of the proxy, one after the other, with a firmware     *)
(* that keeps running in between.  A session is a process: it starts with  *)
(* the static data of proxy.c as the linker left it, and it may end at any *)
(* moment without telling the firmware (a start that fails, SIGKILL, a     *)
(* crash of the PC).  The firmware knows of sessions only by RESET: the    *)
(* next process may find it fresh, half-way through the tables, or at work *)
(* with requests and reports of a process that no longer exists.           *)
(*                                                                         *)
(* Serial has one element per packet, but the new process starts to read   *)
(* where the firmware happens to write, and the interrupt of a firmware at *)
(* work acknowledges the tables of the new process between the bytes of    *)
(* the packet that its main loop is sending.  From then on the stream is   *)
(* torn, and the proxy may take anything for a packet.                     *)
(***************************************************************************)
EXTENDS SerialUsb

CONSTANTS
    MaxSessions,    \* bound: processes started
    Misreadings     \* packets that the proxy may see in a torn stream

ASSUME SessionsAssumption ==
    /\ MaxSessions \in Nat \ {0}
    /\ Misreadings \subseteq Packet
    /\ \A p \in Misreadings : p.type = "OUT" => p.ep \in EmuOut

VARIABLES
    session,        \* number of the session
    unclean,        \* history: the firmware has had no reset since a session
                    \* that ended without sending RESET
    found,          \* history: what the process found in the firmware when it
                    \* started
    torn            \* the proxy no longer reads from packet to packet

sessionVars == <<session, unclean, found, torn>>
allVars == <<vars, sessionVars>>

SessionsTypeOK ==
    /\ TypeOK
    /\ session \in 1..MaxSessions
    /\ unclean \in BOOLEAN
    /\ found \subseteq {"work", "report"}
    /\ torn \in BOOLEAN

SessionsInit ==
    /\ Init
    /\ session = 1
    /\ unclean = FALSE
    /\ found = {}
    /\ torn = FALSE

-----------------------------------------------------------------------------
(* Within a session. *)

\* This step ends the session, or commits it to end, with no RESET written.
EndsUnclean ==
    \/ phase = "idle" /\ phase' = "exited"
    \/ phase = "leaving" /\ phase' = "closing" /\ toEmu' = toEmu

FirmwareReset == pc = "hardreset" /\ pc' = "boot"

\* The main loop is writing a packet byte by byte.
Sending ==
    \/ pc \in {"in_ack", "out_send", "ctl_read"}
    \/ pc = "ctl_send" /\ request \in InRequests
    \/ pc = "usbtask" /\ setup \in BigRequests

\* The interrupt acknowledges a packet of the tables in the midst of it.
AckInside ==
    /\ Sending
    /\ toEmu # <<>> /\ toEmu' = Tail(toEmu)
    /\ Head(toEmu).type \in StartupTypes

\* A step of the system within a session.
SessionStep ==
    /\ Next
    /\ unclean' = IF FirmwareReset THEN FALSE ELSE unclean \/ EndsUnclean
    /\ torn' \in IF AckInside THEN {torn, TRUE} ELSE {torn}
    /\ UNCHANGED <<session, found>>

\* In a torn stream what comes next is nothing yet, or something else.
Misread ==
    /\ torn
    /\ phase = "polling"
    /\ toProxy # <<>>
    /\ \/ toProxy' = Tail(toProxy)
       \/ \E p \in Misreadings : toProxy' = <<p>> \o Tail(toProxy)
    /\ UNCHANGED <<toEmu, gusbVars, proxyVars, usbVars, emuVars, sessionVars>>

-----------------------------------------------------------------------------
(* Between two sessions. *)

\* The process disappears between two of its steps, and its transfers with it.
\* What it has written is still sent.
Kill ==
    /\ phase \in {"idle", "polling", "leaving", "closing"}
    /\ phase' = "exited"
    /\ polls' = [e \in InEps |-> 0]
    /\ ctrlXfers' = <<>>
    /\ outXfers' = [e \in OutEps |-> <<>>]
    /\ unclean' = (unclean \/ phase # "closing")
    /\ UNCHANGED <<serialVars, reports, outDone, done, startupVars, inVars, exitCode,
                   usbVars, emuVars, session, found, torn>>

\* Assumption: the time that the user takes to select a device (usb_select) is
\* longer than what the line carries needs to arrive, and than the 15 ms of the
\* watchdog.
LineQuiet == toEmu = <<>> /\ pc # "hardreset"

\* The static data of a new process.
FreshProxy ==
    /\ phase' = "idle" /\ done' = FALSE /\ initTimer' = FALSE
    /\ descIndexSent' = FALSE /\ endpointsSent' = FALSE
    /\ inPending' = 0 /\ inEpFifo' = <<>>
    /\ inPackets' = [e \in InEps |-> Pkt("IN", U2S[e], 0)]
    /\ exitCode' = "none"

\* What it finds: a firmware that has its tables, and a report in the slot.
FindsFirmware ==
    found' = {f \in {"work", "report"} : IF f = "work" THEN started ELSE input.ep # 0}

\* The histories that belong to a process start again.  (The answer is also the
\* state of a transfer under way, when the firmware is at work.)
FreshHistory ==
    /\ outDone' = [e \in OutEps |-> <<>>]
    /\ answer' = IF started THEN answer ELSE NoAnswer

\* Mutant: gserial_open does not flush the input.
NewSession_Unflushed ==
    /\ phase = "exited"
    /\ session < MaxSessions
    /\ LineQuiet
    /\ session' = session + 1
    /\ FreshProxy
    /\ FindsFirmware
    /\ FreshHistory
    /\ torn' \in {FALSE, Sending}
    /\ UNCHANGED <<toEmu, toProxy, polls, ctrlXfers, outXfers, reports, usbState, inBank, outBank,
                   halted, setup, hostReq, got, hostVars, emuVars, unclean>>

\* The next session, up to adapter_open, which discards what was received
\* before it (tcflush): a packet on its way may lose its first bytes.
NewSession ==
    /\ phase = "exited"
    /\ session < MaxSessions
    /\ LineQuiet
    /\ session' = session + 1
    /\ FreshProxy
    /\ FindsFirmware
    /\ FreshHistory
    /\ toProxy' = <<>>
    /\ torn' \in {FALSE, Sending}
    /\ UNCHANGED <<toEmu, polls, ctrlXfers, outXfers, reports, usbState, inBank, outBank,
                   halted, setup, hostReq, got, hostVars, emuVars, unclean>>

SessionsNext == SessionStep \/ Misread \/ Kill \/ NewSession

SessionsSpec == SessionsInit /\ [][SessionsNext]_allVars

\* Nobody has to start a session, and nothing has to kill one.  The handshake of
\* a torn stream may stop, so that there the 1 s of the initialization timer
\* count; elsewhere it has to end without their help.
SessionsFairSpec ==
    /\ SessionsSpec /\ ProxyFairness /\ EmuFairness /\ HostFairness
    /\ WF_allVars(torn /\ InitTimeout /\ UNCHANGED <<usbVars, emuVars, sessionVars>>)

-----------------------------------------------------------------------------

\* Only a reset takes pdesc and pindex of the firmware back to the start.  The
\* device is shown to the host with complete tables, and with those of this
\* session only, unless a session ended without RESET since the last reset: a
\* session that ends in order makes up for all those that did not.
FreshTables ==
    started =>
        /\ nDesc >= NDescriptors /\ nIndex >= NIndex
        /\ ~unclean => nDesc = NDescriptors /\ nIndex = NIndex

\* After sessions that ended in order a new one finds the emulated device gone:
\* what the host saw of the last session and its requests end with it.  (A
\* report that a callback of gusb_close writes behind RESET does not: the
\* firmware takes it for one of the next session.)
SessionsApart ==
    phase = "idle" /\ ~unclean => usbState = "Off" /\ hostReq = 0 /\ found \subseteq {"report"}

\* An acknowledgement is taken for the pending report in every session whose
\* process finds a firmware without tables and without a report in its slot.
\* (One that finds a report of the last process is told of its delivery, and
\* takes that for the acknowledgement of its own.)
AckExpectedUnlessFound == found = {} => AckIsExpected

\* Every session shows the device to the host, or ends: the later ones as the
\* first, after sessions that ended in order, were killed or failed to start,
\* whatever they left in the firmware and on the line.
EverySessionStarts ==
    phase = "polling" ~> (~initTimer /\ usbState # "Off") \/ done \/ phase = "exited"

\* A control transfer ends, whichever session it meets and whether or not that
\* session is killed before it has answered, unless the firmware has given up
\* waiting for data and waits for the end of the transfer (see ReplyWaitEnds).
RequestsAnswered == hostReq # 0 ~> hostReq = 0 \/ pc = "ctl_status"

\* A process that leaves in order takes the emulated device away: from then on
\* the firmware waits for the tables of the next one, and shows nothing.
DeviceRemovedBetween == phase = "closing" ~> usbState = "Off" /\ ~started
=============================================================================
