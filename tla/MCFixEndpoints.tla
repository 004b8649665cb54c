-------------------------- MODULE MCFixEndpoints --------------------------
(***************************************************************************)
(* Small devices for FixEndpoints: a first configuration of up to three    *)
(* endpoints, none listed twice, on a chip of two, and a second one that   *)
(* must be left alone.                                                     *)
(***************************************************************************)
EXTENDS FixEndpoints

\* Numbers 1 and 2 exist on the chip, 3 does not.
MCDescriptors ==
    [address : {1, 2, 3, 129, 130, 131}, type : {"interrupt"}, size : {8, 64}]
        \union [address : {1, 130}, type : {"bulk"}, size : {64}]
        \union [address : {129}, type : {"interrupt", "control"}, size : {65}]

SecondConfiguration == <<[address |-> 129, type |-> "interrupt", size |-> 8],
                         [address |-> 1, type |-> "interrupt", size |-> 8]>>

UpTo(n, S) == UNION {[1..k -> S] : k \in 0..n}

MCDevices ==
    {<<c, SecondConfiguration>> : c \in {d \in UpTo(3, MCDescriptors) : NoneRepeated(d)}}
=============================================================================
