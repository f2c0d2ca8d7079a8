------------------------------ MODULE MCRelay ------------------------------
(* One side has a NAT that gives it another port now and then. *)
EXTENDS Relay, TLC

CONSTANTS a1, a2, b1, i1, i2

MCIp == (a1 :> i1) @@ (a2 :> i1) @@ (b1 :> i2)
MCStart == (0 :> a1) @@ (1 :> b1)
MCHome == (0 :> {a1, a2}) @@ (1 :> {b1})
=============================================================================
