----------------------------- MODULE Endpoints -----------------------------
(***************************************************************************)
(* The endpoint tables built once by fix_endpoints (proxy.c), before the   *)
(* proxy starts: which interrupt endpoints of the target device are        *)
(* proxied, and under which address each of them appears on the serial     *)
(* link and on the emulated device.  An address includes the direction     *)
(* bit, so IN and OUT endpoints never share one.                           *)
(*                                                                         *)
(* Nothing here is specific to one device.  What is assumed of the tables  *)
(* is what fix_endpoints makes of any device that lists no endpoint twice  *)
(* (MeetsEndpoints in module FixEndpoints).                                *)
(***************************************************************************)
EXTENDS Naturals, FiniteSets, Sequences

CONSTANTS
    InEps,          \* addresses of the proxied IN endpoints of the device
    OutEps,         \* addresses of the proxied OUT endpoints of the device
    U2S,            \* usbToSerialEndpoint: device address -> emulated address
    OutTable,       \* the OUT entries of the endpoint table, in its order
    MaxEndpoints    \* MAX_ENDPOINTS of protocol.h

UsbEps == InEps \union OutEps

\* Address 0 never denotes an endpoint: in inPending, in input.endpoint and in
\* the firmware's endpoint table it means "none".
EndpointsOK ==
    /\ InEps \subseteq Nat \ {0}
    /\ OutEps \subseteq Nat \ {0}
    /\ InEps \intersect OutEps = {}
    /\ IsFiniteSet(InEps)
    /\ IsFiniteSet(OutEps)

ASSUME EndpointsAssumption == EndpointsOK

\* fix_endpoints gives each proxied endpoint a nonzero address of its own.
RenumberingOK ==
    /\ U2S \in [UsbEps -> Nat \ {0}]
    /\ \A e, f \in UsbEps : U2S[e] = U2S[f] => e = f

ASSUME RenumberingAssumption == RenumberingOK

\* The firmware's table, and the queue of the proxy, have room for them all.
CapacityOK ==
    /\ MaxEndpoints \in Nat
    /\ Cardinality(InEps) <= MaxEndpoints

ASSUME CapacityAssumption == CapacityOK

EmuIn == {U2S[e] : e \in InEps}
EmuOut == {U2S[e] : e \in OutEps}

\* outEndpoints of the firmware holds the OUT endpoints and nothing else.
OutTableOK ==
    /\ OutTable \in Seq(EmuOut)
    /\ \A n \in EmuOut : \E i \in DOMAIN OutTable : OutTable[i] = n

ASSUME OutTableAssumption == OutTableOK

\* serialToUsbEndpoint, the inverse of U2S.
S2U == [n \in EmuIn \union EmuOut |-> CHOOSE e \in UsbEps : U2S[e] = n]
=============================================================================
