------------------------------ MODULE MCStores ------------------------------
(***************************************************************************)
(* Stores for TLC.  One backup set is enough for what requests do to a     *)
(* backup and to a restore, two for a backup of a half-restored database,  *)
(* three for pruning beside a restore of the oldest, where requests make   *)
(* no difference.                                                          *)
(***************************************************************************)
EXTENDS Stores, TLC

Busy == {r \in Requests : req[r] # Idle}

\* Bound on the states explored.
Scenarios ==
    \/ Cardinality(Existing) <= 1 /\ Existing \subseteq {1}
    \/ Cardinality(drawn) <= 1 /\ Cardinality(Busy) <= 1 /\ Existing \subseteq {1, 2}
    \/ /\ Cardinality(drawn) <= 1 /\ Busy = {}
       /\ restore # Idle => restore.stamp = 1

\* Keys and requests are interchangeable.
StoresSymmetry == Permutations(Files) \cup Permutations(Requests)

=============================================================================
