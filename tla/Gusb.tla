-------------------------------- MODULE Gusb --------------------------------
(***************************************************************************)
(* The proxy's access to the target device: the libusb transfers that      *)
(* gusb.c has submitted and libusb has not completed.  A transfer is       *)
(* removed from its table when its callback returns; the callbacks         *)
(* themselves are proxy.c's and are modelled in Proxy.                     *)
(***************************************************************************)
EXTENDS Endpoints, Sequences

CONSTANTS
    Faults,         \* calls that may fail on the PC: subset of FaultKinds
    MaxReports      \* bound: reports the device produces on an endpoint

\* "start": one of the calls of proxy_start; "send": gserial_write; "submit":
\* libusb_submit_transfer; "unplug": the adapter or the device goes away.
FaultKinds == {"start", "send", "submit", "unplug"}

ASSUME GusbAssumption ==
    /\ Faults \subseteq FaultKinds
    /\ MaxReports \in Nat

\* The results that a call of the given kind may have.
Results(kind) == IF kind \in Faults THEN BOOLEAN ELSE {TRUE}
SendResults == Results("send")
SubmitResults == Results("submit")

VARIABLES
    polls,      \* interrupt IN transfers in flight on each endpoint
    ctrlXfers,  \* control transfers in flight, oldest first
    outXfers,   \* interrupt OUT transfers in flight on each endpoint, oldest first
    reports,    \* history: reports read from each endpoint so far
    outDone     \* history: OUT packets written to each endpoint, 0 if not taken

gusbVars == <<polls, ctrlXfers, outXfers, reports, outDone>>

GusbTypeOK ==
    /\ polls \in [InEps -> Nat]
    /\ ctrlXfers \in Seq(Nat)
    /\ outXfers \in [OutEps -> Seq(Nat)]
    /\ reports \in [InEps -> Nat]
    /\ outDone \in [OutEps -> Seq(Nat)]

GusbInit ==
    /\ polls = [e \in InEps |-> 0]
    /\ ctrlXfers = <<>>
    /\ outXfers = [e \in OutEps |-> <<>>]
    /\ reports = [e \in InEps |-> 0]
    /\ outDone = [e \in OutEps |-> <<>>]

\* Mutants: the endpoint is not polled again; the transfer is completed though
\* none is in flight; the endpoint is polled again as soon as it has answered;
\* a completed control transfer stays in the table.
gusb_poll_Dropped(e, ok) == UNCHANGED polls
RemovePoll_Unchecked(e) == polls' = [polls EXCEPT ![e] = @ - 1]
RemovePoll_Repolled(e) == polls[e] > 0 /\ UNCHANGED polls
RemoveControl_Kept == ctrlXfers # <<>> /\ UNCHANGED ctrlXfers

\* gusb_poll: submits a transfer without timeout; its result is ok.
gusb_poll(e, ok) == polls' = IF ok THEN [polls EXCEPT ![e] = @ + 1] ELSE polls

\* gusb_write on the control endpoint, and on OUT endpoint e.
gusb_write_control(r, ok) ==
    ctrlXfers' = IF ok THEN Append(ctrlXfers, r) ELSE ctrlXfers

gusb_write_out(e, d, ok) ==
    outXfers' = IF ok THEN [outXfers EXCEPT ![e] = Append(@, d)] ELSE outXfers

\* remove_transfer, once for each kind of transfer.
RemovePoll(e) == polls[e] > 0 /\ polls' = [polls EXCEPT ![e] = @ - 1]
RemoveControl == ctrlXfers # <<>> /\ ctrlXfers' = Tail(ctrlXfers)
RemoveOut(e) == outXfers[e] # <<>> /\ outXfers' = [outXfers EXCEPT ![e] = Tail(@)]

\* pending_transfers is 0.
NoTransfers ==
    /\ \A e \in InEps : polls[e] = 0
    /\ ctrlXfers = <<>>
    /\ \A e \in OutEps : outXfers[e] = <<>>
=============================================================================
