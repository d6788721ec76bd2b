------------------------------ MODULE MCCatalog ------------------------------
(***************************************************************************)
(* A small instance of Catalog for TLC.                                    *)
(***************************************************************************)
EXTENDS CatalogProps, TLC

CONSTANTS q1, q2, q3, u1, u2

MCRequests == {q1, q2, q3}
MCRows     == {u1, u2}
MCSymmetry == Permutations(MCRequests) \cup Permutations(MCRows)
=============================================================================
