----------------------------- MODULE MCSlaClock -----------------------------
(***************************************************************************)
(* SlaClock for TLC.                                                        *)
(***************************************************************************)
EXTENDS SlaClock, TLC

RequestSymmetry == Permutations(Requests)

=============================================================================
