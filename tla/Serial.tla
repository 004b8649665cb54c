------------------------------- MODULE Serial -------------------------------
(***************************************************************************)
(* The UART link between the proxy and the firmware (protocol.h), one      *)
(* element per packet: a packet is in its channel from the moment its last *)
(* byte is written until the receiver acts on it.  The line neither loses  *)
(* nor reorders bytes, and each end handles a packet as a whole: the proxy *)
(* because adapter_recv calls process_packet on complete packets only, the *)
(* firmware because its receive interrupt reads the whole packet before it *)
(* returns.                                                                *)
(***************************************************************************)
EXTENDS Naturals, Sequences

VARIABLES
    toEmu,      \* packets written by the proxy and not handled by the firmware
    toProxy     \* packets written by the firmware and not handled by the proxy

serialVars == <<toEmu, toProxy>>

PacketTypes == {"DESCRIPTORS", "INDEX", "ENDPOINTS", "RESET", "CONTROL",
                "CONTROL_STALL", "IN", "OUT", "DEBUG"}

\* The packets of the start-up handshake: the firmware's interrupt handler
\* answers each of them with an acknowledgement.
StartupTypes == {"DESCRIPTORS", "INDEX", "ENDPOINTS"}

\* ep is the endpoint number of the IN and OUT packets (0 elsewhere).  data is
\* the payload of IN and OUT packets, the request of CONTROL packets sent to
\* the proxy, and the request that CONTROL and CONTROL_STALL packets sent to
\* the firmware reply to.
Packet == [type : PacketTypes, ep : Nat, data : Nat]

Pkt(type, ep, data) == [type |-> type, ep |-> ep, data |-> data]

\* An acknowledgement: the type of the packet it answers, and no value.
Ack(type) == Pkt(type, 0, 0)

\* adapter_send of a value that takes n packets.
Chunks(type, n) == [i \in 1..n |-> Pkt(type, 0, 0)]

SerialTypeOK ==
    /\ toEmu \in Seq(Packet)
    /\ toProxy \in Seq(Packet)

SerialInit ==
    /\ toEmu = <<>>
    /\ toProxy = <<>>
=============================================================================
