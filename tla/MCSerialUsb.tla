---------------------------- MODULE MCSerialUsb ----------------------------
(* Small instances of SerialUsb; each .cfg picks the values it needs. *)
EXTENDS SerialUsb

None == {}

\* Two IN endpoints that fix_endpoints renumbers into each other's address.
TwoIn == {1, 2}
SwapIn == [e \in TwoIn |-> 3 - e]

\* Two OUT endpoints.
TwoOut == {1, 2}
SwapOut == [e \in TwoOut |-> 3 - e]
SwapOutTable == <<2, 1>>
\* Full packets on endpoint 1, packets of every size on endpoint 2.
OneFull == [n \in TwoOut |-> IF n = 1 THEN {"full"} ELSE {"full", "short", "zero"}]
NoOutPackets == [n \in TwoOut |-> {}]
NoTable == <<>>
NoEps == [e \in {} |-> 0]
=============================================================================
