------------------------- MODULE MCTicketRequests -------------------------
(***************************************************************************)
(* TicketRequests for TLC: the symmetry of the request slots.              *)
(***************************************************************************)
EXTENDS TicketRequests, TLC

RequestSymmetry == Permutations(Requests)

=============================================================================
