--------------------------- MODULE MCAuthSession ---------------------------
(***************************************************************************)
(* AuthSession for TLC.  What goes on in the browser and in an enrolment   *)
(* hardly touch, so only states of three scenarios are explored: one tab   *)
(* and no second factor; two tabs of one sign-in; enrolments with sign-ins *)
(* beside them and no rotation.                                            *)
(***************************************************************************)
EXTENDS AuthSession, TLC

InUse(b) == memory[b] # NoToken
            \/ \E r \in Requests : call[r] # NoCall /\ call[r].tab = b

SignIns == {t \in Tokens : tokens[t].state # "unissued" /\ tokens[t].parent = NoToken}

Browsing ==
    /\ drawn = {}
    /\ \A u \in Users : account[u].active
    /\ \A t \in Tokens : tokens[t].state # "expired"
    /\ \A r \in Requests : txn[r] = NoTxn \/ call[r] # NoCall

OneTab == Cardinality({b \in Tabs : InUse(b)}) <= 1

Undisturbed == abandoned = {} /\ restored = {}

\* Bound on the states explored.
Scenarios ==
    \/ Browsing /\ OneTab
    \/ /\ Browsing /\ Undisturbed
       /\ Cardinality(SignIns) <= 1
       /\ \A r \in Requests : call[r] = NoCall \/ call[r].tab # NoTab
    \/ /\ OneTab /\ Undisturbed /\ storage = NoToken
       /\ \A t \in Tokens : tokens[t].parent = NoToken /\ tokens[t].state \in {"unissued", "live"}
       /\ Cardinality(SignIns) <= 2
       /\ \A r \in Requests : call[r] = NoCall \/ call[r].kind = "login"

\* Requests, tokens, secrets, code sets and tabs are interchangeable.
AuthSymmetry ==
    Permutations(Requests) \cup Permutations(Tokens)
        \cup Permutations(Secrets) \cup Permutations(CodeSets)
        \cup Permutations(Tabs)

=============================================================================
