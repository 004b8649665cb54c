----------------------------- MODULE ReportPipe -----------------------------
(***************************************************************************)
(* What the system promises of the reports of the target device, whatever  *)
(* lies between the device and the host: from each IN endpoint a pipe that *)
(* keeps the order, invents and repeats nothing, holds two reports at most *)
(* and loses none as long as it is calm.                                   *)
(***************************************************************************)
EXTENDS Naturals, Sequences

CONSTANTS
    Eps,        \* the IN endpoints
    Capacity    \* reports read from an endpoint and not yet read by the host

VARIABLES
    produced,   \* number of reports read from each endpoint
    pipe,       \* those under way, oldest first
    delivered,  \* those that the host has read, oldest first
    calm        \* nothing has happened that may lose a report

pipeVars == <<produced, pipe, delivered, calm>>

Init ==
    /\ produced = [e \in Eps |-> 0]
    /\ pipe = [e \in Eps |-> <<>>]
    /\ delivered = [e \in Eps |-> <<>>]
    /\ calm = TRUE

\* A report is read from the device.
Produce(e) ==
    /\ Len(pipe[e]) < Capacity
    /\ produced' = [produced EXCEPT ![e] = @ + 1]
    /\ pipe' = [pipe EXCEPT ![e] = Append(@, produced[e] + 1)]
    /\ UNCHANGED <<delivered, calm>>

\* The host reads the oldest report.
Deliver(e) ==
    /\ pipe[e] # <<>>
    /\ delivered' = [delivered EXCEPT ![e] = Append(@, Head(pipe[e]))]
    /\ pipe' = [pipe EXCEPT ![e] = Tail(@)]
    /\ UNCHANGED <<produced, calm>>

\* What may remain of a pipe that loses reports.
Remains(s) == {SubSeq(s, i, j) : i \in 1..Len(s) + 1, j \in 0..Len(s)}

\* The bus is reset, the device is configured again, a halt is cleared, or the
\* session ends: from then on reports may be lost, of several endpoints at once.
Lose ==
    /\ calm' = FALSE
    /\ \A e \in Eps : pipe'[e] \in Remains(pipe[e])
    /\ pipe' = [e \in Eps |-> pipe'[e]]
    /\ UNCHANGED <<produced, delivered>>

Next ==
    \/ \E e \in Eps : Produce(e) \/ Deliver(e)
    \/ Lose

Spec == Init /\ [][Next]_pipeVars
=============================================================================
