------------------------------- MODULE MCChat -------------------------------
(***************************************************************************)
(* Chat for TLC.  What the limiter counts and what the assistant stores    *)
(* meet in the admission of a call only: time passes and the second user   *)
(* calls while there is no conversation, and a conversation has the three  *)
(* calls of one second, and those after a restart.                         *)
(***************************************************************************)
EXTENDS Chat, TLC

Quiet == clock = 0 /\ widget.phase = "idle" /\ \A s \in Sessions : session[s] = "free"

\* Bound on the states explored.
Scenarios == Quiet \/ (Tracked \subseteq {User} /\ now = 0)

ChatSymmetry == Permutations(Sessions) \cup Permutations(Requests)

=============================================================================
