----------------------------- MODULE MCRateLimit -----------------------------
(***************************************************************************)
(* A small instance of RateLimit for TLC: three requests of one address,   *)
(* one of which sends a token.                                             *)
(***************************************************************************)
EXTENDS RateLimitProps, TLC

CONSTANTS r1, r2, r3, ip, token

MCRequests == {r1, r2, r3}
MCChecks == [r \in MCRequests |-> IF r = r1 THEN <<ip, token>> ELSE <<ip>>]
MCLimit  == (ip :> 1) @@ (token :> 1)
MCWindow == (ip :> 2) @@ (token :> 1)
MCSymmetry == Permutations({r2, r3})
=============================================================================
