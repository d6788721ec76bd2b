----------------------------- MODULE MCRouting -----------------------------
(***************************************************************************)
(* Small instances of Routing for TLC: u1 serves two models of one name,   *)
(* "a/m" and "b/m", and u2 a third.                                        *)
(***************************************************************************)
EXTENDS RoutingProps, TLC

CONSTANTS u1, u2, m1, m2, m3

MCHost == (m1 :> u1) @@ (m2 :> u1) @@ (m3 :> u2)
=============================================================================
