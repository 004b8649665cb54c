----------------------------- MODULE MCFraming -----------------------------
(* SerialFraming with 9 byte values for 256: packets of 7 bytes, of which 5  *)
(* are the value, and requests of 4 bytes before their data.                 *)
EXTENDS SerialFraming

\* The descriptors take two packets, whose bytes are those of all types.
Tables == [t \in StartupTypes |-> IF t = DESCRIPTORS THEN 8 ELSE 1]
=============================================================================
