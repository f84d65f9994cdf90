----------------------------- MODULE RateLimit -----------------------------
(***************************************************************************)
(* The limiter in front of the local model: at most Limit calls of a user  *)
(* in any Window seconds, counted in the memory of the process.            *)
(***************************************************************************)
EXTENDS Naturals, Sequences, FiniteSets

CONSTANTS
    Users,
    Limit,       \* AI_RATE_LIMIT_PER_MINUTE
    Window,      \* window_seconds
    MaxTracked,  \* _MAX_TRACKED_USERS
    MaxTime      \* bound: the seconds that pass

ASSUME LimiterBounds ==
    Limit \in Nat \ {0} /\ Window \in Nat /\ MaxTracked \in Nat /\ MaxTime \in Nat

VARIABLES
    now,        \* time.monotonic
    hits,       \* _HITS: the users it knows, and their recent calls, oldest first
    admitted    \* history: the calls let through since the process started

limiterVars == <<now, hits, admitted>>

LimiterInit ==
    /\ now = 0
    /\ hits = <<>>
    /\ admitted = [u \in Users |-> <<>>]

Tracked == DOMAIN hits

\* How many calls are popped: those at the head that are out of the window.
Popped(calls) ==
    CHOOSE k \in 0..Len(calls) :
        /\ \A i \in 1..k : calls[i] + Window < now
        /\ k < Len(calls) => calls[k + 1] + Window >= now

\* What popping the old calls leaves.
Recent(u) ==
    IF u \in Tracked THEN SubSeq(hits[u], Popped(hits[u]) + 1, Len(hits[u])) ELSE <<>>

WithUser(u, calls) == [v \in Tracked \cup {u} |-> IF v = u THEN calls ELSE hits[v]]

\* Mutant: a user is idle when the oldest call is out of the window.
IdleUser_Oldest(h, u) == h[u] = <<>> \/ Head(h[u]) + Window < now

IdleUser(h, u) == h[u] = <<>> \/ h[u][Len(h[u])] + Window < now

\* _evict_idle, once too many users are tracked.
Evicted(h) ==
    IF Cardinality(DOMAIN h) > MaxTracked
    THEN [u \in {v \in DOMAIN h : ~IdleUser(h, v)} |-> h[u]]
    ELSE h

\* check_rate_limit returns ...
Admit(u) ==
    /\ Len(Recent(u)) < Limit
    /\ hits' = Evicted(WithUser(u, Append(Recent(u), now)))
    /\ admitted' = [admitted EXCEPT ![u] = Append(@, now)]
    /\ UNCHANGED now

\* ... or raises.
Exceeded(u) ==
    /\ Len(Recent(u)) >= Limit
    /\ hits' = WithUser(u, Recent(u))
    /\ UNCHANGED <<now, admitted>>

Tick ==
    /\ now < MaxTime
    /\ now' = now + 1
    /\ UNCHANGED <<hits, admitted>>

\* A restarted process has forgotten everything, by design.
Forget ==
    /\ hits' = <<>>
    /\ admitted' = [u \in Users |-> <<>>]
    /\ UNCHANGED now

---------------------------------------------------------------------------

LimiterTypeOK ==
    /\ now \in 0..MaxTime
    /\ Tracked \subseteq Users
    /\ \A u \in Tracked : hits[u] \in Seq(0..MaxTime)
    /\ admitted \in [Users -> Seq(0..MaxTime)]

\* No Window seconds ever see more than Limit calls of a user, although the
\* window slides and idle users are forgotten (core/ratelimit.py: a fixed
\* window would let 2 * limit through across a boundary).
WindowBounded ==
    \A u \in Users : \A i \in 1..Len(admitted[u]) :
        i + Limit <= Len(admitted[u]) => admitted[u][i + Limit] > admitted[u][i] + Window

=============================================================================
