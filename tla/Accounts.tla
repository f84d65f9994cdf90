------------------------------ MODULE Accounts ------------------------------
(***************************************************************************)
(* User accounts and their second factor: the rows behind signing in.      *)
(*                                                                         *)
(* As with tickets, a handler works on the row its request loaded and the  *)
(* commit writes the columns it changed.  Recovery codes are rows of their *)
(* own, deleted and inserted in bulk when a set is issued.  Ten codes are  *)
(* issued together and spent apart, so one code stands for each set.       *)
(*                                                                         *)
(* Failed attempts are not here: login raises after counting one, and      *)
(* get_db rolls the counters, the lock and the attempt row back with it,   *)
(* so no committed row ever differs because of one.  locked_until is       *)
(* therefore never found set.                                              *)
(***************************************************************************)
EXTENDS Naturals, TicketLifecycle

CONSTANTS
    Users,      \* the accounts followed
    Requests,   \* requests that may be in flight at the same time
    Secrets,    \* the secrets setup can draw
    CodeSets,   \* the sets of recovery codes that can be issued
    NoSecret,   \* mfa_secret IS NULL
    NoCode,     \* no recovery code selected
    NoTxn       \* no transaction open

ASSUME SentinelsApart == NoSecret \notin Secrets /\ NoCode \notin CodeSets

Account == [active: BOOLEAN, mfa: BOOLEAN, secret: Secrets \cup {NoSecret}]

\* forSecret is history: the secret enrolled when the set was issued.
CodeSet == [state: {"free", "unused", "used", "withdrawn"},
            owner: Users, forSecret: Secrets \cup {NoSecret}]

Txn == [user: Users, row: Account, code: CodeSets \cup {NoCode}]

VARIABLES
    account,    \* users: is_active, mfa_enabled, mfa_secret
    codes,      \* mfa_backup_codes
    txn,        \* the open transaction of each request
    drawn,      \* history: secrets handed out by setup
    confirmed,  \* history: secrets somebody has shown a valid code for
    overtaken   \* history: accounts whose enrolment changed under a request
                \* that then changed it too

accountVars == <<account, codes, txn, drawn, confirmed, overtaken>>

AccountsInit ==
    /\ account = [u \in Users |->
                    [active |-> TRUE, mfa |-> FALSE, secret |-> NoSecret]]
    /\ codes \in [CodeSets -> {[state |-> "free", owner |-> u, forSecret |-> NoSecret] : u \in Users}]
    /\ txn = [r \in Requests |-> NoTxn]
    /\ drawn = {}
    /\ confirmed = {}
    /\ overtaken = {}

---------------------------------------------------------------------------

\* Login asks for a second factor when one is enrolled.
SecondFactor(row) == row.mfa /\ row.secret # NoSecret

Merge(now, loaded, wanted) ==
    [active |-> Column(now.active, loaded.active, wanted.active),
     mfa    |-> Column(now.mfa, loaded.mfa, wanted.mfa),
     secret |-> Column(now.secret, loaded.secret, wanted.secret)]

\* get_current_user, or the lookup of the account an administrator names.
Read(r, u) ==
    /\ txn[r] = NoTxn
    /\ txn' = [txn EXCEPT ![r] = [user |-> u, row |-> account[u], code |-> NoCode]]

Save(r, wanted) ==
    /\ account' = [account EXCEPT ![txn[r].user] = Merge(@, txn[r].row, wanted)]
    /\ txn' = [txn EXCEPT ![r] = NoTxn]

\* The enrolment the request of r read is no longer the account's.
Outdated(r) ==
    LET now == account[txn[r].user]
    IN  now.mfa # txn[r].row.mfa \/ now.secret # txn[r].row.secret

\* Save, by a handler that changes the enrolment.
Enrol(r, wanted) ==
    /\ Save(r, wanted)
    /\ overtaken' = IF Outdated(r) THEN overtaken \cup {txn[r].user} ELSE overtaken

\* DELETE of every code the account has: it sees the rows then committed.
Withdrawn(u) ==
    [c \in CodeSets |->
        IF codes[c].owner = u /\ codes[c].state # "free"
        THEN [codes[c] EXCEPT !.state = "withdrawn"] ELSE codes[c]]

\* The delete, then the insert of a fresh set.
Reissued(u, c, s) ==
    [Withdrawn(u) EXCEPT ![c] = [state |-> "unused", owner |-> u, forSecret |-> s]]

LoadAccount(r, u) ==
    /\ Read(r, u)
    /\ UNCHANGED <<account, codes, drawn, confirmed, overtaken>>

Rollback(r) ==
    /\ txn[r] # NoTxn
    /\ txn' = [txn EXCEPT ![r] = NoTxn]
    /\ UNCHANGED <<account, codes, drawn, confirmed, overtaken>>

---------------------------------------------------------------------------

\* Mutant: an enrolled account may begin again and is left enrolled.
MfaSetup_Reenrols(r, s) ==
    /\ txn[r] # NoTxn
    /\ txn[r].row.active
    /\ s \notin drawn
    /\ drawn' = drawn \cup {s}
    /\ Enrol(r, [txn[r].row EXCEPT !.secret = s])
    /\ UNCHANGED <<codes, confirmed>>

\* POST /auth/mfa/setup: a fresh secret, not in force yet.
MfaSetup(r, s) ==
    /\ txn[r] # NoTxn
    /\ txn[r].row.active
    /\ ~txn[r].row.mfa
    /\ s \notin drawn
    /\ drawn' = drawn \cup {s}
    /\ Enrol(r, [txn[r].row EXCEPT !.secret = s, !.mfa = FALSE])
    /\ UNCHANGED <<codes, confirmed>>

\* Mutant: the codes of an earlier enrolment are left in place.
MfaEnable_KeepsCodes(r, c) ==
    /\ txn[r] # NoTxn
    /\ txn[r].row.active
    /\ txn[r].row.secret # NoSecret
    /\ codes[c].state = "free"
    /\ confirmed' = confirmed \cup {txn[r].row.secret}
    /\ Enrol(r, [txn[r].row EXCEPT !.mfa = TRUE])
    /\ codes' = [codes EXCEPT ![c] = [state |-> "unused", owner |-> txn[r].user,
                                      forSecret |-> txn[r].row.secret]]
    /\ UNCHANGED drawn

\* POST /auth/mfa/enable with a code that is valid for the loaded secret.
MfaEnable(r, c) ==
    /\ txn[r] # NoTxn
    /\ txn[r].row.active
    /\ txn[r].row.secret # NoSecret
    /\ codes[c].state = "free"
    /\ confirmed' = confirmed \cup {txn[r].row.secret}
    /\ Enrol(r, [txn[r].row EXCEPT !.mfa = TRUE])
    /\ codes' = Reissued(txn[r].user, c, txn[r].row.secret)
    /\ UNCHANGED drawn

\* POST /auth/mfa/backup-codes/regenerate, with the password.
RegenerateCodes(r, c) ==
    /\ txn[r] # NoTxn
    /\ txn[r].row.active
    /\ txn[r].row.mfa
    /\ codes[c].state = "free"
    /\ codes' = Reissued(txn[r].user, c, account[txn[r].user].secret)
    /\ txn' = [txn EXCEPT ![r] = NoTxn]
    /\ UNCHANGED <<account, drawn, confirmed, overtaken>>

\* POST /auth/mfa/disable, with the password.
MfaDisable(r) ==
    /\ txn[r] # NoTxn
    /\ txn[r].row.active
    /\ Enrol(r, [txn[r].row EXCEPT !.mfa = FALSE, !.secret = NoSecret])
    /\ codes' = Withdrawn(txn[r].user)
    /\ UNCHANGED <<drawn, confirmed>>

\* POST /users/{id}/mfa/reset by an administrator: the codes stay behind.
ResetMfa(r) ==
    /\ txn[r] # NoTxn
    /\ Enrol(r, [txn[r].row EXCEPT !.mfa = FALSE, !.secret = NoSecret])
    /\ UNCHANGED <<codes, drawn, confirmed>>

\* DELETE /users/{id}, and is_active in PATCH /users/{id}.
SetActive(r, b) ==
    /\ txn[r] # NoTxn
    /\ Save(r, [txn[r].row EXCEPT !.active = b])
    /\ UNCHANGED <<codes, drawn, confirmed, overtaken>>

---------------------------------------------------------------------------

AccountsTypeOK ==
    /\ account \in [Users -> Account]
    /\ codes \in [CodeSets -> CodeSet]
    /\ txn \in [Requests -> Txn \cup {NoTxn}]
    /\ drawn \subseteq Secrets
    /\ confirmed \subseteq Secrets
    /\ overtaken \subseteq Users

\* A second factor is in force only with a secret its owner has shown a valid
\* code for: the two steps of enrolment (routes/auth.py, mfa_setup and
\* mfa_enable), through a disable, an administrator's reset and a new setup,
\* in any overlap, until a request writes over an enrolment it has not seen.
ConfirmedSecret ==
    \A u \in Users \ overtaken : account[u].mfa => account[u].secret \in confirmed

\* While a second factor is in force every recovery code that still works was
\* issued for the secret in force, although a reset leaves old codes behind
\* (routes/users.py, reset_user_mfa) and a code may be reissued from a stale
\* row; with the same exemption.
CodesOfEnrolment ==
    \A u \in Users \ overtaken : account[u].mfa =>
        \A c \in CodeSets :
            codes[c].state = "unused" /\ codes[c].owner = u
                => codes[c].forSecret = account[u].secret

=============================================================================
