---------------------------- MODULE MCApiKeyAuth ----------------------------
(***************************************************************************)
(* A small instance of ApiKeyAuth for TLC.                                 *)
(***************************************************************************)
EXTENDS ApiKeyAuthProps, TLC

CONSTANTS a1, k1, k2

MCOwner1 == k1 :> a1
MCOwner2 == (k1 :> a1) @@ (k2 :> a1)
=============================================================================
