----------------------------- MODULE PacketLine -----------------------------
(***************************************************************************)
(* What Serial takes for granted of each direction of the line: packets    *)
(* arrive whole, in the order in which they were sent, none twice, as long *)
(* as nothing has broken the line.                                         *)
(***************************************************************************)
EXTENDS Naturals, Sequences

CONSTANTS
    Packets         \* what may be sent

VARIABLES
    sent,           \* packets sent so far
    arrived,        \* packets received so far
    broken          \* the stream may be out of step with the packets

Init == sent = <<>> /\ arrived = <<>> /\ broken = FALSE

Send ==
    /\ \E p \in Packets : sent' = Append(sent, p)
    /\ UNCHANGED <<arrived, broken>>

Arrive ==
    /\ ~broken
    /\ Len(arrived) < Len(sent)
    /\ arrived' = Append(arrived, sent[Len(arrived) + 1])
    /\ UNCHANGED <<sent, broken>>

\* A broken line carries anything and is never whole again.
Break == broken' = TRUE

Next == Send \/ Arrive \/ Break

Spec == Init /\ [][Next]_<<sent, arrived, broken>>
=============================================================================
