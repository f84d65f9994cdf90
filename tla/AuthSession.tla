---------------------------- MODULE AuthSession ----------------------------
(***************************************************************************)
(* Sessions: refresh tokens on the server, and the browser that holds one. *)
(*                                                                         *)
(* A refresh token works once: refreshing revokes it and issues the next.  *)
(* The browser keeps its token twice, in local storage, which every tab    *)
(* shares and a refresh rewrites, and in the memory of each tab, which a   *)
(* refresh does not touch.  A call is sent, served and answered in steps,  *)
(* and its answer may never arrive.                                        *)
(***************************************************************************)
EXTENDS Accounts, FiniteSets

CONSTANTS
    Tokens,     \* the refresh tokens that can be issued
    Tabs,       \* the tabs of one browser
    NoToken,
    NoTab,      \* a call whose tab is gone
    NoCall      \* no call of the browser in this request slot

ASSUME RequestsAreFinite == IsFiniteSet(Requests)
ASSUME BrowserSentinels == NoToken \notin Tokens /\ NoTab \notin Tabs

\* parent is history: the token whose refresh issued this one.
Token == [state: {"unissued", "live", "expired", "revoked"}, owner: Users,
          parent: Tokens \cup {NoToken}, replacedBy: Tokens \cup {NoToken}]

Call == [kind: {"login", "refresh", "logout"}, tab: Tabs \cup {NoTab},
         user: Users, token: Tokens \cup {NoToken},
         seen: {"unissued", "live", "expired", "revoked"},
         reply: {"pending", "refused", "done"}, new: Tokens \cup {NoToken}]

ASSUME NoCallApart == NoCall \notin Call

VARIABLES
    tokens,     \* refresh_tokens
    bought,     \* history: tokens issued for each recovery code
    call,       \* the browser's calls in flight
    storage,    \* localStorage['success-auth']: the refresh token
    memory,     \* the refresh token in each tab's store
    abandoned,  \* history: tokens of calls a reload gave up on
    restored    \* history: tokens a tab's store wrote back over a newer one

browserVars == <<call, storage, memory, abandoned, restored>>
vars == <<accountVars, tokens, bought, browserVars>>

Init ==
    /\ AccountsInit
    /\ tokens \in [Tokens -> {[state |-> "unissued", owner |-> u,
                    parent |-> NoToken, replacedBy |-> NoToken] : u \in Users}]
    /\ bought = [c \in CodeSets |-> {}]
    /\ call = [r \in Requests |-> NoCall]
    /\ storage = NoToken
    /\ memory = [b \in Tabs |-> NoToken]
    /\ abandoned = {}
    /\ restored = {}

---------------------------------------------------------------------------
(* The server.                                                             *)

Pending(r, kind) ==
    call[r] # NoCall /\ call[r].kind = kind /\ call[r].reply = "pending"

\* A reply to a tab that is gone is dropped with the connection.
Reply(r, reply, t) ==
    call' = [call EXCEPT ![r] =
        IF @.tab = NoTab THEN NoCall ELSE [@ EXCEPT !.reply = reply, !.new = t]]

\* POST /auth/login (and /auth/mfa/verify, the same account by its challenge).
ServeLogin(r) ==
    /\ Pending(r, "login")
    /\ LoadAccount(r, call[r].user)
    /\ UNCHANGED <<tokens, bought, browserVars>>

Fresh(t, u, parent) ==
    [state |-> "live", owner |-> u, parent |-> parent, replacedBy |-> NoToken]

Issue(r, t) ==
    /\ tokens[t].state = "unissued"
    /\ tokens' = [tokens EXCEPT ![t] = Fresh(t, txn[r].user, NoToken)]
    /\ Reply(r, "done", t)
    /\ txn' = [txn EXCEPT ![r] = NoTxn]
    /\ UNCHANGED <<account, drawn, confirmed, overtaken, storage, memory, abandoned, restored>>

\* The password alone, or with a code of the authenticator when one is enrolled.
Login(r, t) ==
    /\ Pending(r, "login") /\ txn[r] # NoTxn
    /\ txn[r].row.active
    /\ txn[r].code = NoCode
    /\ Issue(r, t)
    /\ UNCHANGED <<codes, bought>>

\* Mutant: a spent code is accepted too.
SelectCode_AnyCode(r, c) ==
    /\ Pending(r, "login") /\ txn[r] # NoTxn
    /\ txn[r].row.active /\ SecondFactor(txn[r].row)
    /\ codes[c].state \in {"unused", "used"} /\ codes[c].owner = txn[r].user
    /\ txn' = [txn EXCEPT ![r].code = c]
    /\ UNCHANGED <<account, codes, drawn, confirmed, overtaken, tokens, bought, browserVars>>

\* _consume_backup_code: the row is selected while it is unused ...
SelectCode(r, c) ==
    /\ Pending(r, "login") /\ txn[r] # NoTxn
    /\ txn[r].row.active /\ SecondFactor(txn[r].row)
    /\ codes[c].state = "unused" /\ codes[c].owner = txn[r].user
    /\ txn' = [txn EXCEPT ![r].code = c]
    /\ UNCHANGED <<account, codes, drawn, confirmed, overtaken, tokens, bought, browserVars>>

\* ... and marked with the new session.  The flush fails (and Refuse follows)
\* when a withdrawal has deleted the row since.
LoginByCode(r, t) ==
    /\ Pending(r, "login") /\ txn[r] # NoTxn
    /\ txn[r].code # NoCode
    /\ codes[txn[r].code].state # "withdrawn"
    /\ codes' = [codes EXCEPT ![txn[r].code].state = "used"]
    /\ bought' = [bought EXCEPT ![txn[r].code] = @ \cup {t}]
    /\ Issue(r, t)

\* POST /auth/refresh: the token's row, then its owner's.
ServeRefresh(r) ==
    /\ Pending(r, "refresh")
    /\ Read(r, tokens[call[r].token].owner)
    /\ call' = [call EXCEPT ![r].seen = tokens[call[r].token].state]
    /\ UNCHANGED <<account, codes, drawn, confirmed, overtaken, tokens, bought,
                   storage, memory, abandoned, restored>>

\* Mutant: the successor is issued and the old token left as it was.
Refresh_KeepsOld(r, t) ==
    /\ Pending(r, "refresh") /\ txn[r] # NoTxn
    /\ call[r].seen = "live" /\ txn[r].row.active
    /\ tokens[t].state = "unissued"
    /\ tokens' = [tokens EXCEPT ![t] = Fresh(t, txn[r].user, call[r].token)]
    /\ Reply(r, "done", t)
    /\ txn' = [txn EXCEPT ![r] = NoTxn]
    /\ UNCHANGED <<account, codes, drawn, confirmed, overtaken, bought,
                   storage, memory, abandoned, restored>>

\* Rotation: the successor is inserted and the old token revoked, in one commit.
Refresh(r, t) ==
    /\ Pending(r, "refresh") /\ txn[r] # NoTxn
    /\ call[r].seen = "live" /\ txn[r].row.active
    /\ tokens[t].state = "unissued"
    /\ tokens' = [tokens EXCEPT ![t] = Fresh(t, txn[r].user, call[r].token),
                                ![call[r].token].state = "revoked",
                                ![call[r].token].replacedBy = t]
    /\ Reply(r, "done", t)
    /\ txn' = [txn EXCEPT ![r] = NoTxn]
    /\ UNCHANGED <<account, codes, drawn, confirmed, overtaken, bought,
                   storage, memory, abandoned, restored>>

\* A raised error rolls back whatever was written before it: a wrong password
\* or code, a withdrawn recovery code, an inactive account, and a revoked or
\* expired token, for which the revocation of all the account's tokens is
\* rolled back as well.
Refuse(r) ==
    /\ call[r] # NoCall /\ call[r].reply = "pending" /\ txn[r] # NoTxn
    /\ Rollback(r)
    /\ Reply(r, "refused", NoToken)
    /\ UNCHANGED <<tokens, bought, storage, memory, abandoned, restored>>

\* POST /auth/logout.  Revocation is final, so the read and the write are one
\* step: nothing in between could change what the commit leaves.
Logout(r) ==
    /\ Pending(r, "logout")
    /\ tokens' = [tokens EXCEPT ![call[r].token].state = "revoked"]
    /\ Reply(r, "done", NoToken)
    /\ UNCHANGED <<accountVars, bought, storage, memory, abandoned, restored>>

Expire(t) ==
    /\ tokens[t].state = "live"
    /\ tokens' = [tokens EXCEPT ![t].state = "expired"]
    /\ UNCHANGED <<accountVars, bought, browserVars>>

---------------------------------------------------------------------------
(* The browser.                                                            *)

Send(r, kind, b, u, t) ==
    /\ call[r] = NoCall /\ txn[r] = NoTxn
    /\ call' = [call EXCEPT ![r] = [kind |-> kind, tab |-> b, user |-> u, token |-> t,
                   seen |-> "unissued", reply |-> "pending", new |-> NoToken]]

Waiting(b, kind) == \E r \in Requests : /\ call[r] # NoCall
                                        /\ call[r].tab = b
                                        /\ call[r].kind = kind

SendLogin(r, b, u) ==
    /\ memory[b] = NoToken
    /\ ~Waiting(b, "login")
    /\ Send(r, "login", b, u, NoToken)
    /\ UNCHANGED <<accountVars, tokens, bought, storage, memory, abandoned, restored>>

\* LoginPage.finish: setSession writes memory, and persist the storage.
SignedIn(r) ==
    /\ call[r] # NoCall /\ call[r].kind = "login" /\ call[r].reply = "done"
    /\ memory' = [memory EXCEPT ![call[r].tab] = call[r].new]
    /\ storage' = call[r].new
    /\ call' = [call EXCEPT ![r] = NoCall]
    /\ UNCHANGED <<accountVars, tokens, bought, abandoned, restored>>

\* refreshAccessToken: one refresh in flight per tab, with the stored token.
SendRefresh(r, b) ==
    /\ storage # NoToken
    /\ ~Waiting(b, "refresh")
    /\ \E u \in Users : Send(r, "refresh", b, u, storage)
    /\ UNCHANGED <<accountVars, tokens, bought, storage, memory, abandoned, restored>>

\* Mutant: the rotated token is not stored.
Refreshed_KeepsOld(r) ==
    /\ call[r] # NoCall /\ call[r].kind = "refresh" /\ call[r].reply = "done"
    /\ call' = [call EXCEPT ![r] = NoCall]
    /\ UNCHANGED <<accountVars, tokens, bought, storage, memory, abandoned, restored>>

\* attemptRefresh stores the new token; the tabs' stores are not told.
Refreshed(r) ==
    /\ call[r] # NoCall /\ call[r].kind = "refresh" /\ call[r].reply = "done"
    /\ storage' = call[r].new
    /\ call' = [call EXCEPT ![r] = NoCall]
    /\ UNCHANGED <<accountVars, tokens, bought, memory, abandoned, restored>>

\* The call of r ends for its tab: answered, or (the network failed) given up
\* while the server may still be serving it.
GiveUp(r) ==
    call' = [call EXCEPT ![r] = IF @.reply = "pending" THEN [@ EXCEPT !.tab = NoTab]
                                                       ELSE NoCall]

\* A failed refresh clears the storage, and auth:logout the tab's store.  A
\* logout that has been answered, or has failed, ends in the same clear().
Cleared(r) ==
    /\ call[r] # NoCall /\ call[r].tab # NoTab
    /\ \/ call[r].kind = "refresh" /\ call[r].reply # "done"
       \/ call[r].kind = "logout"
    /\ storage' = NoToken
    /\ memory' = [memory EXCEPT ![call[r].tab] = NoToken]
    /\ GiveUp(r)
    /\ UNCHANGED <<accountVars, tokens, bought, abandoned, restored>>

\* The login page shows the error and stays.
LoginFailed(r) ==
    /\ call[r] # NoCall /\ call[r].tab # NoTab /\ call[r].kind = "login"
    /\ call[r].reply # "done"
    /\ GiveUp(r)
    /\ UNCHANGED <<accountVars, tokens, bought, storage, memory, abandoned, restored>>

\* Another tab has cleared the storage: the next 401 clears this tab's store.
NothingStored(b) ==
    /\ storage = NoToken /\ memory[b] # NoToken
    /\ memory' = [memory EXCEPT ![b] = NoToken]
    /\ UNCHANGED <<accountVars, tokens, bought, call, storage, abandoned, restored>>

\* onLogout sends the token in the tab's store.
SendLogout(r, b) ==
    /\ memory[b] # NoToken
    /\ ~Waiting(b, "logout")
    /\ \E u \in Users : Send(r, "logout", b, u, memory[b])
    /\ UNCHANGED <<accountVars, tokens, bought, storage, memory, abandoned, restored>>

\* A reload gives up the tab's calls and reads its store from the storage.
Reload(b) ==
    /\ memory' = [memory EXCEPT ![b] = storage]
    /\ abandoned' = abandoned \cup {call[r].token : r \in {q \in Requests :
                        call[q] # NoCall /\ call[q].tab = b /\ call[q].token # NoToken}}
    /\ call' = [r \in Requests |->
                  IF call[r] # NoCall /\ call[r].tab = b
                  THEN IF call[r].reply = "pending" THEN [call[r] EXCEPT !.tab = NoTab]
                                                    ELSE NoCall
                  ELSE call[r]]
    /\ UNCHANGED <<accountVars, tokens, bought, storage, restored>>

\* SecurityPage.syncUser, once an enable or a disable it sent has been
\* answered: setSession with the store's own tokens, which persist writes out.
SyncUser(b) ==
    /\ memory[b] # NoToken
    /\ storage' = memory[b]
    /\ restored' = IF storage = memory[b] THEN restored ELSE restored \cup {memory[b]}
    /\ UNCHANGED <<accountVars, tokens, bought, call, memory, abandoned>>

---------------------------------------------------------------------------

\* Requests that are not the browser's: they leave its sessions alone.
Beside(r) == call[r] = NoCall /\ UNCHANGED <<tokens, bought, browserVars>>

Administer(r) ==
    \/ \E u \in Users : LoadAccount(r, u) /\ Beside(r)
    \/ \E s \in Secrets : MfaSetup(r, s) /\ Beside(r)
    \/ \E c \in CodeSets : MfaEnable(r, c) /\ Beside(r)
    \/ \E c \in CodeSets : RegenerateCodes(r, c) /\ Beside(r)
    \/ MfaDisable(r) /\ Beside(r)
    \/ ResetMfa(r) /\ Beside(r)
    \/ \E b \in BOOLEAN : SetActive(r, b) /\ Beside(r)
    \/ Rollback(r) /\ Beside(r)

Serve(r) ==
    \/ ServeLogin(r)
    \/ \E t \in Tokens : Login(r, t)
    \/ \E c \in CodeSets : SelectCode(r, c)
    \/ \E t \in Tokens : LoginByCode(r, t)
    \/ ServeRefresh(r)
    \/ \E t \in Tokens : Refresh(r, t)
    \/ Refuse(r)
    \/ Logout(r)

Browse(r) ==
    \/ \E b \in Tabs, u \in Users : SendLogin(r, b, u)
    \/ SignedIn(r)
    \/ \E b \in Tabs : SendRefresh(r, b)
    \/ Refreshed(r)
    \/ Cleared(r)
    \/ LoginFailed(r)
    \/ \E b \in Tabs : SendLogout(r, b)

Next ==
    \/ \E r \in Requests : Administer(r) \/ Serve(r) \/ Browse(r)
    \/ \E t \in Tokens : Expire(t)
    \/ \E b \in Tabs : NothingStored(b) \/ Reload(b) \/ SyncUser(b)

Spec == Init /\ [][Next]_vars

---------------------------------------------------------------------------

TypeOK ==
    /\ AccountsTypeOK
    /\ tokens \in [Tokens -> Token]
    /\ bought \in [CodeSets -> SUBSET Tokens]
    /\ call \in [Requests -> Call \cup {NoCall}]
    /\ storage \in Tokens \cup {NoToken}
    /\ memory \in [Tabs -> Tokens \cup {NoToken}]
    /\ abandoned \subseteq Tokens
    /\ restored \subseteq Tokens

\* A token that has a successor is revoked and names one of its successors,
\* and both belong to one account, however many refreshes were served at once
\* (services/auth_service.py, refresh and _issue_refresh).
RotatedIsRevoked ==
    \A t \in Tokens : tokens[t].parent # NoToken =>
        LET old == tokens[tokens[t].parent]
        IN  /\ old.state = "revoked"
            /\ old.owner = tokens[t].owner
            /\ old.replacedBy # NoToken
            /\ tokens[old.replacedBy].parent = tokens[t].parent

\* Sign-ins that have selected a recovery code and can still spend it.
Spending(c) == {r \in Requests : /\ txn[r] # NoTxn /\ txn[r].code = c
                                 /\ codes[c].state # "withdrawn"}

\* Two sign-ins that select a recovery code together both spend it, but a code
\* never buys more sessions than there are requests in flight: one that is
\* spent is not selected again, and a withdrawn one is refused at the flush
\* (services/auth_service.py, _consume_backup_code).
CodeBuysFewSessions ==
    \A c \in CodeSets :
        Cardinality(bought[c]) + Cardinality(Spending(c)) <= Cardinality(Requests)

InStep(t) ==
    \/ tokens[t].state \in {"live", "expired"}
    \/ \E r \in Requests : call[r] # NoCall /\ call[r].tab # NoTab /\ call[r].token = t

\* The token a browser has stored still works, or a call that carries it is on
\* its way, whatever two tabs do at once (src/frontend/src/lib/api.ts); but a
\* reload in the middle of a call and the security page may leave a dead one.
HeldTokenWorks ==
    storage # NoToken => InStep(storage) \/ storage \in abandoned \cup restored

=============================================================================
