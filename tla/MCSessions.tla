----------------------------- MODULE MCSessions -----------------------------
(* A small instance of Sessions. *)
EXTENDS Sessions

None == {}
NoTable == <<>>
NoEps == [e \in {} |-> 0]
OneIn == {1}
SameIn == [e \in OneIn |-> e]

\* A packet that no firmware sends, and that ends the session of a proxy which
\* takes it for one.
Garbage == {Ack("RESET")}
=============================================================================
