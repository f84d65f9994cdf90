------------------------ MODULE EscalationContract ------------------------
(***************************************************************************)
(* What escalation promises, without workers, sessions or flags.  Whoever  *)
(* escalates first claims the ticket for a trigger, which takes that it    *)
(* has not been raised yet, and later raises everything it has claimed,    *)
(* or gives up.  Claims do not exclude each other.  The people concerned   *)
(* are told at most once of each escalation, after it has happened.        *)
(***************************************************************************)
EXTENDS Naturals

CONSTANTS Tickets, Triggers, Claimants

VARIABLES
    raised,  \* escalations recorded for each ticket and trigger
    told,    \* escalations announced for each ticket and trigger
    claims   \* who is about to escalate which ticket for which trigger

vars == <<raised, told, claims>>

Init ==
    /\ raised = [t \in Tickets |-> [g \in Triggers |-> 0]]
    /\ told = [t \in Tickets |-> [g \in Triggers |-> 0]]
    /\ claims = {}

\* A trigger that has fired for a ticket is never claimed for it again.
Claim(a, t, g) ==
    /\ raised[t][g] = 0
    /\ claims' = claims \cup {<<a, t, g>>}
    /\ UNCHANGED <<raised, told>>

ClaimsOf(a) == {c \in claims : c[1] = a}

\* A refusal, a failed statement or a process that dies.
GiveUp(a) ==
    /\ claims' = claims \ ClaimsOf(a)
    /\ UNCHANGED <<raised, told>>

\* Each claim is worth one escalation.
Raise(a) ==
    /\ raised' = [t \in Tickets |-> [g \in Triggers |->
                     IF <<a, t, g>> \in claims THEN raised[t][g] + 1 ELSE raised[t][g]]]
    /\ claims' = claims \ ClaimsOf(a)
    /\ UNCHANGED told

Tell(t, g) ==
    /\ told[t][g] < raised[t][g]
    /\ told' = [told EXCEPT ![t][g] = @ + 1]
    /\ UNCHANGED <<raised, claims>>

Next ==
    \/ \E a \in Claimants, t \in Tickets, g \in Triggers : Claim(a, t, g)
    \/ \E a \in Claimants : GiveUp(a) \/ Raise(a)
    \/ \E t \in Tickets, g \in Triggers : Tell(t, g)

Spec == Init /\ [][Next]_vars

=============================================================================
