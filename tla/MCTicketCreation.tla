-------------------------- MODULE MCTicketCreation --------------------------
(* TicketCreation for TLC: two agents of one branch, a supervisor elsewhere. *)
EXTENDS TicketCreation, TLC

CONSTANTS a1, a2, v1, br1

MCRole == (a1 :> "agent") @@ (a2 :> "agent") @@ (v1 :> "supervisor")
MCHome == (a1 :> br1) @@ (a2 :> br1) @@ (v1 :> NoBranch)

CreationSymmetry == Permutations(Requests) \cup Permutations(Units)
                        \cup Permutations({a1, a2})

\* Bound: once somebody else has interfered, that was it.
FewChanges == disturbed => Cardinality(tickets) <= 1

=============================================================================
