-------------------------- MODULE AuthSession_proofs --------------------------
(***************************************************************************)
(* For any accounts, tabs, tokens and any number of requests in flight:    *)
(* rotation leaves one chain of revoked tokens; the token a browser holds  *)
(* still works or a call with it is on its way, but for the two ways the   *)
(* client loses one; a second factor is confirmed and its codes are its    *)
(* own unless an enrolment was written over unseen; and a recovery code    *)
(* buys no more sessions than there are requests.                          *)
(***************************************************************************)
EXTENDS AuthSession, FiniteSetTheorems, TLAPS

Calls(r) == call[r] # NoCall

Issued(t) == tokens[t].state # "unissued"

\* Rotation, and tokens that are not issued yet stand alone.
TreeOK ==
    /\ RotatedIsRevoked
    /\ \A t \in Tokens : ~Issued(t) => tokens[t].parent = NoToken

\* Whatever the browser holds or sends has been issued; a refresh works on the
\* account of its token.
IssuedOK ==
    /\ storage # NoToken => Issued(storage)
    /\ \A b \in Tabs : memory[b] # NoToken => Issued(memory[b])
    /\ \A r \in Requests : Calls(r) =>
          /\ call[r].new # NoToken => Issued(call[r].new)
          /\ call[r].kind = "login" => call[r].token = NoToken
          /\ call[r].kind # "login" => call[r].token \in Tokens /\ Issued(call[r].token)
          /\ call[r].reply # "pending" => call[r].tab # NoTab
          /\ call[r].reply = "pending" => call[r].new = NoToken
          /\ call[r].kind = "refresh" /\ call[r].reply = "pending" /\ txn[r] # NoTxn =>
                txn[r].user = tokens[call[r].token].owner

\* A token on its way to the browser is known to its call alone.
Unheard(t, r) ==
    /\ tokens[t].state \in {"live", "expired"}
    /\ t # storage
    /\ \A b \in Tabs : memory[b] # t
    /\ \A q \in Requests : Calls(q) => call[q].token # t /\ (q # r => call[q].new # t)

NewsOK ==
    \A r \in Requests : Calls(r) /\ call[r].new # NoToken => Unheard(call[r].new, r)

\* A call that nobody waits for does not carry the token in the storage.
LostOK ==
    \A r \in Requests : Calls(r) /\ call[r].tab = NoTab /\ call[r].token # NoToken =>
        call[r].token # storage \/ storage \in abandoned \cup restored

\* An answer with a token is that of a sign-in or a refresh.
AnswersOK ==
    \A r \in Requests : Calls(r) /\ call[r].reply = "done" =>
        /\ call[r].kind # "logout" => call[r].new # NoToken
        /\ call[r].kind = "logout" => call[r].new = NoToken

IInv == TypeOK /\ TreeOK /\ IssuedOK /\ NewsOK /\ LostOK /\ AnswersOK /\ HeldTokenWorks

---------------------------------------------------------------------------
(* Types.                                                                  *)

LEMMA Typed ==
    ASSUME TypeOK
    PROVE  /\ \A r \in Requests : txn[r] # NoTxn =>
                 /\ txn[r] \in Txn /\ txn[r].user \in Users /\ txn[r].row \in Account
                 /\ txn[r].code \in CodeSets \cup {NoCode}
                 /\ txn[r].row.secret \in Secrets \cup {NoSecret}
           /\ \A r \in Requests : Calls(r) =>
                 /\ call[r] \in Call /\ call[r].token \in Tokens \cup {NoToken}
                 /\ call[r].new \in Tokens \cup {NoToken} /\ call[r].tab \in Tabs \cup {NoTab}
                 /\ call[r].user \in Users
           /\ \A t \in Tokens : tokens[t] \in Token /\ tokens[t].owner \in Users
           /\ \A u \in Users : account[u] \in Account /\ account[u].secret \in Secrets \cup {NoSecret}
           /\ \A c \in CodeSets : codes[c] \in CodeSet
BY DEF TypeOK, AccountsTypeOK, Txn, Call, Token, Account, Calls

LEMMA ReadTyped ==
    ASSUME TypeOK, NEW r \in Requests, NEW u \in Users, Read(r, u)
    PROVE  /\ txn' \in [Requests -> Txn \cup {NoTxn}]
           /\ txn[r] = NoTxn
           /\ \A q \in Requests : q # r => txn'[q] = txn[q]
           /\ txn'[r] = [user |-> u, row |-> account[u], code |-> NoCode]
<1>1. [user |-> u, row |-> account[u], code |-> NoCode] \in Txn
  BY Typed DEF Txn
<1> QED
  BY <1>1 DEF Read, TypeOK, AccountsTypeOK

LEMMA SaveTyped ==
    ASSUME TypeOK, NEW r \in Requests, txn[r] # NoTxn, NEW w \in Account, Save(r, w)
    PROVE  /\ account' \in [Users -> Account]
           /\ txn' \in [Requests -> Txn \cup {NoTxn}]
           /\ \A q \in Requests : q # r => txn'[q] = txn[q]
           /\ \A u \in Users : u # txn[r].user => account'[u] = account[u]
           /\ account'[txn[r].user] = Merge(account[txn[r].user], txn[r].row, w)
           /\ txn'[r] = NoTxn
<1>1. txn[r].user \in Users /\ txn[r].row \in Account /\ account[txn[r].user] \in Account
  BY Typed
<1>2. Merge(account[txn[r].user], txn[r].row, w) \in Account
  BY <1>1 DEF Merge, Column, Account
<1> QED
  BY <1>1, <1>2 DEF Save, TypeOK, AccountsTypeOK

LEMMA EnrolTyped ==
    ASSUME TypeOK, NEW r \in Requests, txn[r] # NoTxn, NEW w \in Account, Enrol(r, w)
    PROVE  /\ account' \in [Users -> Account]
           /\ txn' \in [Requests -> Txn \cup {NoTxn}]
           /\ overtaken' \subseteq Users
           /\ \A q \in Requests : q # r => txn'[q] = txn[q]
<1>1. txn[r].user \in Users /\ overtaken \subseteq Users
  BY Typed DEF TypeOK, AccountsTypeOK
<1>2. overtaken' \subseteq Users
  BY <1>1 DEF Enrol
<1> QED
  BY <1>2, SaveTyped DEF Enrol

LEMMA CodesTyped ==
    ASSUME TypeOK, NEW u \in Users, NEW c \in CodeSets, NEW s \in Secrets \cup {NoSecret}
    PROVE  /\ Withdrawn(u) \in [CodeSets -> CodeSet]
           /\ Reissued(u, c, s) \in [CodeSets -> CodeSet]
<1>1. \A d \in CodeSets : [codes[d] EXCEPT !.state = "withdrawn"] \in CodeSet
  BY Typed DEF CodeSet
<1>2. Withdrawn(u) \in [CodeSets -> CodeSet]
  BY <1>1, Typed DEF Withdrawn
<1>3. [state |-> "unused", owner |-> u, forSecret |-> s] \in CodeSet
  BY DEF CodeSet
<1> QED
  BY <1>2, <1>3 DEF Reissued

\* What an account's handler leaves: the accounts' variables in their types,
\* and the transactions of other requests as they were.
LEMMA AdministerTyped ==
    ASSUME TypeOK, NEW r \in Requests, Administer(r)
    PROVE  /\ AccountsTypeOK'
           /\ \A q \in Requests : q # r => txn'[q] = txn[q]
           /\ ~Calls(r)
           /\ UNCHANGED <<tokens, bought, browserVars>>
<1>0. ~Calls(r) /\ UNCHANGED <<tokens, bought, browserVars>>
  BY DEF Administer, Beside, Calls
<1>1. ASSUME NEW u \in Users, LoadAccount(r, u)
      PROVE  AccountsTypeOK' /\ \A q \in Requests : q # r => txn'[q] = txn[q]
  BY <1>1, ReadTyped DEF LoadAccount, TypeOK, AccountsTypeOK
<1>2. ASSUME NEW s \in Secrets, MfaSetup(r, s)
      PROVE  AccountsTypeOK' /\ \A q \in Requests : q # r => txn'[q] = txn[q]
  <2>1. [txn[r].row EXCEPT !.secret = s, !.mfa = FALSE] \in Account
    BY <1>2, Typed DEF MfaSetup, Account
  <2> QED
    BY <1>2, <2>1, EnrolTyped DEF MfaSetup, TypeOK, AccountsTypeOK
<1>3. ASSUME NEW c \in CodeSets, MfaEnable(r, c)
      PROVE  AccountsTypeOK' /\ \A q \in Requests : q # r => txn'[q] = txn[q]
  <2>1. [txn[r].row EXCEPT !.mfa = TRUE] \in Account
    BY <1>3, Typed DEF MfaEnable, Account
  <2>2. txn[r].user \in Users /\ txn[r].row.secret \in Secrets
    BY <1>3, Typed DEF MfaEnable
  <2>3. codes' \in [CodeSets -> CodeSet]
    BY <1>3, <2>2, CodesTyped DEF MfaEnable
  <2>4. account' \in [Users -> Account] /\ txn' \in [Requests -> Txn \cup {NoTxn}]
        /\ overtaken' \subseteq Users
        /\ \A q \in Requests : q # r => txn'[q] = txn[q]
    BY <1>3, <2>1, EnrolTyped DEF MfaEnable
  <2> QED
    BY <1>3, <2>2, <2>3, <2>4 DEF MfaEnable, TypeOK, AccountsTypeOK
<1>4. ASSUME NEW c \in CodeSets, RegenerateCodes(r, c)
      PROVE  AccountsTypeOK' /\ \A q \in Requests : q # r => txn'[q] = txn[q]
  <2>1. txn[r].user \in Users /\ account[txn[r].user].secret \in Secrets \cup {NoSecret}
    BY <1>4, Typed DEF RegenerateCodes
  <2>2. codes' \in [CodeSets -> CodeSet]
    BY <1>4, <2>1, CodesTyped DEF RegenerateCodes
  <2> QED
    BY <1>4, <2>2 DEF RegenerateCodes, TypeOK, AccountsTypeOK
<1>5. ASSUME MfaDisable(r)
      PROVE  AccountsTypeOK' /\ \A q \in Requests : q # r => txn'[q] = txn[q]
  <2>1. [txn[r].row EXCEPT !.mfa = FALSE, !.secret = NoSecret] \in Account
    BY <1>5, Typed DEF MfaDisable, Account
  <2>2. codes' \in [CodeSets -> CodeSet]
    <3>1. txn[r].user \in Users
      BY <1>5, Typed DEF MfaDisable
    <3>2. \A d \in CodeSets : [codes[d] EXCEPT !.state = "withdrawn"] \in CodeSet
      BY Typed DEF CodeSet
    <3> QED
      BY <1>5, <3>2, Typed DEF MfaDisable, Withdrawn
  <2> QED
    BY <1>5, <2>1, <2>2, EnrolTyped DEF MfaDisable, TypeOK, AccountsTypeOK
<1>6. ASSUME ResetMfa(r)
      PROVE  AccountsTypeOK' /\ \A q \in Requests : q # r => txn'[q] = txn[q]
  <2>1. [txn[r].row EXCEPT !.mfa = FALSE, !.secret = NoSecret] \in Account
    BY <1>6, Typed DEF ResetMfa, Account
  <2> QED
    BY <1>6, <2>1, EnrolTyped DEF ResetMfa, TypeOK, AccountsTypeOK
<1>7. ASSUME NEW b \in BOOLEAN, SetActive(r, b)
      PROVE  AccountsTypeOK' /\ \A q \in Requests : q # r => txn'[q] = txn[q]
  <2>1. [txn[r].row EXCEPT !.active = b] \in Account
    BY <1>7, Typed DEF SetActive, Account
  <2> QED
    BY <1>7, <2>1, SaveTyped DEF SetActive, TypeOK, AccountsTypeOK
<1>8. ASSUME Rollback(r)
      PROVE  AccountsTypeOK' /\ \A q \in Requests : q # r => txn'[q] = txn[q]
  BY <1>8 DEF Rollback, TypeOK, AccountsTypeOK
<1> QED
  BY <1>0, <1>1, <1>2, <1>3, <1>4, <1>5, <1>6, <1>7, <1>8 DEF Administer

---------------------------------------------------------------------------
(* Steps that leave the browser and its tokens alone.                      *)

LEMMA BesideKeeps ==
    ASSUME IInv, TypeOK', UNCHANGED <<tokens, call, storage, memory, abandoned, restored>>,
           \A q \in Requests : Calls(q) /\ call[q].kind = "refresh" =>
                 txn'[q] = txn[q] \/ txn'[q] = NoTxn
    PROVE  IInv'
<1>1. TreeOK'
  BY DEF IInv, TreeOK, RotatedIsRevoked, Issued
<1>2. IssuedOK'
  BY DEF IInv, IssuedOK, Issued, Calls
<1>3. NewsOK' /\ LostOK' /\ AnswersOK'
  BY DEF IInv, NewsOK, Unheard, LostOK, AnswersOK, Calls
<1>4. HeldTokenWorks'
  BY DEF IInv, HeldTokenWorks, InStep
<1> QED
  BY <1>1, <1>2, <1>3, <1>4 DEF IInv

LEMMA AdministerKeeps ==
    ASSUME IInv, NEW r \in Requests, Administer(r)
    PROVE  IInv'
<1>1. /\ AccountsTypeOK'
      /\ \A q \in Requests : q # r => txn'[q] = txn[q]
      /\ ~Calls(r)
      /\ UNCHANGED <<tokens, bought, call, storage, memory, abandoned, restored>>
  BY AdministerTyped DEF IInv, browserVars
<1>2. TypeOK'
  BY <1>1 DEF IInv, TypeOK
<1> QED
  BY <1>1, <1>2, BesideKeeps

LEMMA ServeLoginKeeps ==
    ASSUME IInv, NEW r \in Requests, ServeLogin(r) \/ \E c \in CodeSets : SelectCode(r, c)
    PROVE  IInv'
<1>1. /\ UNCHANGED <<tokens, bought, call, storage, memory, abandoned, restored>>
      /\ UNCHANGED <<account, codes, drawn, confirmed, overtaken>>
      /\ Calls(r) /\ call[r].kind = "login"
  BY DEF ServeLogin, SelectCode, LoadAccount, Pending, browserVars, Calls
<1>2. txn' \in [Requests -> Txn \cup {NoTxn}] /\ \A q \in Requests : q # r => txn'[q] = txn[q]
  <2>1. CASE ServeLogin(r)
    <3>1. call[r].user \in Users /\ Read(r, call[r].user)
      BY <1>1, <2>1, Typed DEF IInv, ServeLogin, LoadAccount
    <3> QED
      BY <3>1, ReadTyped DEF IInv
  <2>2. ASSUME NEW c \in CodeSets, SelectCode(r, c)
        PROVE  txn' \in [Requests -> Txn \cup {NoTxn}] /\ \A q \in Requests : q # r => txn'[q] = txn[q]
    <3>1. txn[r] \in Txn
      BY <2>2, Typed DEF IInv, SelectCode
    <3>2. [txn[r] EXCEPT !.code = c] \in Txn
      BY <3>1 DEF Txn
    <3> QED
      BY <2>2, <3>2 DEF SelectCode, IInv, TypeOK, AccountsTypeOK
  <2> QED
    BY <2>1, <2>2
<1>3. TypeOK'
  BY <1>1, <1>2 DEF IInv, TypeOK, AccountsTypeOK
<1> QED
  BY <1>1, <1>2, <1>3, BesideKeeps

LEMMA ServeRefreshKeeps ==
    ASSUME IInv, NEW r \in Requests, ServeRefresh(r)
    PROVE  IInv'
<1> DEFINE t == call[r].token
           x == [call[r] EXCEPT !.seen = tokens[t].state]
<1>1. /\ Calls(r) /\ call[r].kind = "refresh" /\ call[r].reply = "pending"
      /\ Read(r, tokens[t].owner)
      /\ call' = [call EXCEPT ![r] = x]
      /\ UNCHANGED <<account, codes, drawn, confirmed, overtaken, tokens, bought,
                     storage, memory, abandoned, restored>>
  BY DEF ServeRefresh, Pending, Calls
<1>2. t \in Tokens /\ tokens[t] \in Token /\ tokens[t].owner \in Users /\ call[r] \in Call
  BY <1>1, Typed DEF IInv, IssuedOK
<1>3. /\ txn' \in [Requests -> Txn \cup {NoTxn}]
      /\ \A q \in Requests : q # r => txn'[q] = txn[q]
      /\ txn'[r].user = tokens[t].owner
  <2> DEFINE u == tokens[t].owner
  <2>1. u \in Users /\ Read(r, u) /\ TypeOK
    BY <1>1, <1>2 DEF IInv
  <2> HIDE DEF u
  <2>2. /\ txn' \in [Requests -> Txn \cup {NoTxn}]
        /\ \A q \in Requests : q # r => txn'[q] = txn[q]
        /\ txn'[r] = [user |-> u, row |-> account[u], code |-> NoCode]
    BY <2>1, ReadTyped
  <2> QED
    BY <2>2 DEF u
<1>4. /\ x \in Call /\ x.kind = "refresh" /\ x.reply = "pending" /\ x.token = t
      /\ x.new = call[r].new /\ x.tab = call[r].tab
  <2>1. tokens[t].state \in {"unissued", "live", "expired", "revoked"}
    BY <1>2 DEF Token
  <2> QED
    BY <1>1, <1>2, <2>1 DEF Call
<1> HIDE DEF x
<1>5. /\ call' \in [Requests -> Call \cup {NoCall}]
      /\ call'[r] = x
      /\ \A q \in Requests : q # r => call'[q] = call[q]
  BY <1>1, <1>4 DEF IInv, TypeOK
<1>6. \A q \in Requests : Calls(q)' =>
        /\ Calls(q) /\ call'[q].kind = call[q].kind /\ call'[q].reply = call[q].reply
        /\ call'[q].token = call[q].token /\ call'[q].new = call[q].new /\ call'[q].tab = call[q].tab
  BY <1>1, <1>4, <1>5 DEF Calls
<1>7. TypeOK'
  BY <1>1, <1>3, <1>5 DEF IInv, TypeOK, AccountsTypeOK
<1>8. TreeOK'
  BY <1>1 DEF IInv, TreeOK, RotatedIsRevoked, Issued
<1>9. IssuedOK'
  <2>1. ASSUME NEW q \in Requests, Calls(q)', call[q].kind = "refresh", call[q].reply = "pending",
               txn'[q] # NoTxn
        PROVE  txn'[q].user = tokens[call[q].token].owner
    BY <1>3, <1>6, <2>1 DEF IInv, IssuedOK
  <2> QED
    BY <1>1, <1>6, <2>1 DEF IInv, IssuedOK, Issued
<1>10. NewsOK' /\ LostOK' /\ AnswersOK'
  BY <1>1, <1>6 DEF IInv, NewsOK, Unheard, LostOK, AnswersOK
<1>11. HeldTokenWorks'
  <2>1. \A q \in Requests : call'[q] # NoCall \/ call[q] = NoCall \/ q = r
    BY <1>5
  <2> QED
    BY <1>1, <1>4, <1>5, <2>1, NoCallApart DEF IInv, HeldTokenWorks, InStep
<1> QED
  BY <1>7, <1>8, <1>9, <1>10, <1>11 DEF IInv

---------------------------------------------------------------------------
(* Answers of the server.                                                  *)

\* A call is answered, with a new token or without; its own token may be
\* revoked with the answer.
LEMMA Replied ==
    ASSUME IInv, NEW r \in Requests, NEW reply \in {"refused", "done"},
           NEW n \in Tokens \cup {NoToken},
           Calls(r), call[r].reply = "pending", Reply(r, reply, n),
           \A q \in Requests : q # r => txn'[q] = txn[q],
           UNCHANGED <<storage, memory, abandoned, restored>>,
           tokens' \in [Tokens -> Token],
           n # NoToken => /\ ~Issued(n) /\ call[r].kind # "logout" /\ tokens'[n].state = "live",
           reply = "done" => (n = NoToken <=> call[r].kind = "logout"),
           \A x \in Tokens : x # n =>
              /\ tokens'[x].owner = tokens[x].owner
              /\ tokens'[x].state = tokens[x].state
                    \/ (x = call[r].token /\ tokens'[x].state = "revoked")
    PROVE  /\ call' \in [Requests -> Call \cup {NoCall}]
           /\ IssuedOK' /\ NewsOK' /\ LostOK' /\ AnswersOK' /\ HeldTokenWorks'
<1> DEFINE x == [call[r] EXCEPT !.reply = reply, !.new = n]
           issued(t) == tokens'[t].state # "unissued"
<1>1. call[r] \in Call /\ call[r].token \in Tokens \cup {NoToken} /\ call[r].new = NoToken
  BY Typed DEF IInv, IssuedOK
<1>2. /\ x \in Call /\ x.kind = call[r].kind /\ x.token = call[r].token /\ x.tab = call[r].tab
      /\ x.reply = reply /\ x.new = n
  BY <1>1 DEF Call
<1>3. call' = [call EXCEPT ![r] = IF call[r].tab = NoTab THEN NoCall ELSE x]
  BY DEF Reply, IInv, TypeOK
<1> HIDE DEF x
<1>4. /\ call' \in [Requests -> Call \cup {NoCall}]
      /\ \A q \in Requests : q # r => call'[q] = call[q]
      /\ call'[r] = IF call[r].tab = NoTab THEN NoCall ELSE x
  BY <1>2, <1>3 DEF IInv, TypeOK
<1>5. /\ \A q \in Requests : q # r => Calls(q)' = Calls(q)
      /\ Calls(r)' => call[r].tab # NoTab /\ call'[r] = x
  BY <1>4 DEF Calls
<1>6. \A t \in Tokens : Issued(t) => t # n /\ issued(t)
  BY BrowserSentinels DEF Issued
<1>7. n # NoToken => n \in Tokens /\ issued(n)
  BY DEF Issued
<1>8. IssuedOK'
  <2>1. storage' # NoToken => issued(storage')
    BY <1>6 DEF IInv, IssuedOK, TypeOK
  <2>2. \A b \in Tabs : memory'[b] # NoToken => issued(memory'[b])
    BY <1>6 DEF IInv, IssuedOK, TypeOK
  <2>3. ASSUME NEW q \in Requests, Calls(q)', q # r
        PROVE  /\ call'[q].new # NoToken => issued(call'[q].new)
               /\ call'[q].kind = "login" => call'[q].token = NoToken
               /\ call'[q].kind # "login" => call'[q].token \in Tokens /\ issued(call'[q].token)
               /\ call'[q].reply # "pending" => call'[q].tab # NoTab
               /\ call'[q].reply = "pending" => call'[q].new = NoToken
               /\ call'[q].kind = "refresh" /\ call'[q].reply = "pending" /\ txn'[q] # NoTxn =>
                     txn'[q].user = tokens'[call'[q].token].owner
    <3>1. Calls(q) /\ call'[q] = call[q] /\ txn'[q] = txn[q] /\ call[q].new \in Tokens \cup {NoToken}
      BY <2>3, <1>4, <1>5, Typed DEF IInv
    <3>2. call[q].kind # "login" => /\ call[q].token \in Tokens /\ Issued(call[q].token)
                                    /\ call[q].token # n
      BY <3>1, <1>6 DEF IInv, IssuedOK
    <3> QED
      BY <3>1, <3>2, <1>6 DEF IInv, IssuedOK
  <2>4. ASSUME Calls(r)'
        PROVE  /\ call'[r].new # NoToken => issued(call'[r].new)
               /\ call'[r].kind = "login" => call'[r].token = NoToken
               /\ call'[r].kind # "login" => call'[r].token \in Tokens /\ issued(call'[r].token)
               /\ call'[r].tab # NoTab /\ call'[r].reply # "pending"
    BY <2>4, <1>2, <1>5, <1>6, <1>7 DEF IInv, IssuedOK
  <2> QED
    BY <2>1, <2>2, <2>3, <2>4 DEF IssuedOK, Issued
<1>9. \A q \in Requests : Calls(q) /\ call[q].new # NoToken =>
         call[q].new # n /\ call[q].new \in Tokens
  BY <1>6, Typed DEF IInv, IssuedOK
<1>10. \A q \in Requests : Calls(q) /\ n # NoToken => call[q].token # n
  BY <1>6, Typed DEF IInv, IssuedOK
<1>11. NewsOK'
  <2>1. ASSUME NEW q \in Requests, Calls(q)', call'[q].new # NoToken, q # r
        PROVE  Unheard(call[q].new, q)'
    <3>1. Calls(q) /\ call'[q] = call[q] /\ call[q].new \in Tokens /\ call[q].new # n
      BY <2>1, <1>4, <1>5, <1>9
    <3>2. call[r].token # call[q].new /\ Unheard(call[q].new, q)
      BY <3>1, <2>1 DEF IInv, NewsOK, Unheard
    <3>3. tokens'[call[q].new].state = tokens[call[q].new].state
      BY <3>1, <3>2
    <3>4. \A p \in Requests : Calls(p)' => /\ call'[p].token # call[q].new
                                           /\ p # q => call'[p].new # call[q].new
      BY <3>1, <3>2, <2>1, <1>2, <1>4, <1>5 DEF Unheard
    <3> QED
      BY <3>1, <3>2, <3>3, <3>4 DEF Unheard
  <2>2. ASSUME Calls(r)', call'[r].new # NoToken
        PROVE  Unheard(call[r].new, r)'
    <3>1. call'[r].new = n /\ n # NoToken
      BY <2>2, <1>2, <1>5
    <3>2. n # storage /\ \A b \in Tabs : memory[b] # n
      BY <3>1 DEF IInv, IssuedOK
    <3>3. \A p \in Requests : p # r /\ Calls(p)' => call'[p].token # n /\ call'[p].new # n
      BY <3>1, <1>4, <1>5, <1>9, <1>10
    <3>4. call'[r].token # n
      BY <2>2, <3>1, <1>2, <1>5, <1>10
    <3> QED
      BY <3>1, <3>2, <3>3, <3>4 DEF Unheard
  <2> QED
    BY <2>1, <2>2 DEF NewsOK
<1>12. LostOK'
  <2>1. \A q \in Requests : Calls(q)' /\ call'[q].tab = NoTab => Calls(q) /\ call'[q] = call[q]
    BY <1>2, <1>4, <1>5
  <2> QED
    BY <2>1 DEF IInv, LostOK
<1>13. AnswersOK'
  <2>1. ASSUME NEW q \in Requests, Calls(q)', call'[q].reply = "done"
        PROVE  /\ call'[q].kind # "logout" => call'[q].new # NoToken
               /\ call'[q].kind = "logout" => call'[q].new = NoToken
    <3>1. CASE q = r
      BY <2>1, <3>1, <1>2, <1>5
    <3>2. CASE q # r
      BY <2>1, <3>2, <1>4, <1>5 DEF IInv, AnswersOK
    <3> QED
      BY <3>1, <3>2
  <2> QED
    BY <2>1 DEF AnswersOK
<1>14. HeldTokenWorks'
  <2> SUFFICES ASSUME storage # NoToken, storage \notin abandoned \cup restored
               PROVE  InStep(storage)'
    BY DEF HeldTokenWorks
  <2>1. storage \in Tokens /\ storage # n /\ InStep(storage)
    BY <1>6 DEF IInv, IssuedOK, HeldTokenWorks, TypeOK
  <2>2. CASE call[r].token = storage
    <3>1. call[r].tab # NoTab
      BY <2>2 DEF IInv, LostOK
    <3>2. call'[r] # NoCall /\ call'[r].tab # NoTab /\ call'[r].token = storage
      BY <3>1, <2>2, <1>2, <1>4, NoCallApart
    <3> QED
      BY <3>2 DEF InStep
  <2>3. CASE call[r].token # storage
    <3>1. tokens'[storage].state = tokens[storage].state
      BY <2>1, <2>3
    <3>2. \A q \in Requests : call[q] # NoCall /\ call[q].token = storage => call'[q] = call[q]
      BY <2>3, <1>4
    <3> QED
      BY <2>1, <3>1, <3>2 DEF InStep
  <2> QED
    BY <2>2, <2>3
<1> QED
  BY <1>4, <1>8, <1>11, <1>12, <1>13, <1>14

LEMMA LoginKeeps ==
    ASSUME IInv, NEW r \in Requests, NEW t \in Tokens, Login(r, t) \/ LoginByCode(r, t)
    PROVE  IInv'
<1> DEFINE f == Fresh(t, txn[r].user, NoToken)
<1>1. /\ Calls(r) /\ call[r].kind = "login" /\ call[r].reply = "pending" /\ txn[r] # NoTxn
      /\ tokens[t].state = "unissued" /\ tokens' = [tokens EXCEPT ![t] = f]
      /\ Reply(r, "done", t)
      /\ txn' = [txn EXCEPT ![r] = NoTxn]
      /\ UNCHANGED <<account, drawn, confirmed, overtaken, storage, memory, abandoned, restored>>
  BY DEF Login, LoginByCode, Issue, Pending, Calls
<1>2. f \in Token /\ f.state = "live" /\ f.parent = NoToken
  BY <1>1, Typed DEF IInv, Fresh, Token
<1> HIDE DEF f
<1>3. /\ tokens' \in [Tokens -> Token] /\ tokens'[t] = f
      /\ \A x \in Tokens : x # t => tokens'[x] = tokens[x]
  BY <1>1, <1>2 DEF IInv, TypeOK
<1>4. \A q \in Requests : q # r => txn'[q] = txn[q]
  BY <1>1 DEF IInv, TypeOK, AccountsTypeOK
<1>5. /\ call' \in [Requests -> Call \cup {NoCall}]
      /\ IssuedOK' /\ NewsOK' /\ LostOK' /\ AnswersOK' /\ HeldTokenWorks'
  <2>1. t # NoToken /\ ~Issued(t)
    BY <1>1, BrowserSentinels DEF Issued
  <2> QED
    BY <1>1, <1>2, <1>3, <1>4, <2>1, Replied
<1>6. codes' \in [CodeSets -> CodeSet] /\ bought' \in [CodeSets -> SUBSET Tokens]
  <2>1. CASE Login(r, t)
    BY <2>1 DEF Login, IInv, TypeOK, AccountsTypeOK
  <2>2. CASE LoginByCode(r, t)
    <3>1. \A c \in CodeSets : [codes[c] EXCEPT !.state = "used"] \in CodeSet
      BY Typed DEF IInv, CodeSet
    <3> QED
      BY <2>2, <3>1 DEF LoginByCode, IInv, TypeOK, AccountsTypeOK
  <2> QED
    BY <2>1, <2>2
<1>7. TypeOK'
  BY <1>1, <1>3, <1>5, <1>6 DEF IInv, TypeOK, AccountsTypeOK
<1>8. TreeOK'
  <2>1. \A x \in Tokens : tokens'[x].parent # NoToken => x # t /\ tokens[x].parent # NoToken
    BY <1>2, <1>3
  <2>2. \A x \in Tokens : tokens[x].parent # NoToken =>
           /\ tokens[x].parent \in Tokens /\ tokens[x].parent # t
           /\ tokens[tokens[x].parent].replacedBy \in Tokens
           /\ tokens[tokens[x].parent].replacedBy # t
    <3>1. tokens[t].parent = NoToken
      BY <1>1 DEF IInv, TreeOK, Issued
    <3>2. \A x \in Tokens : /\ tokens[x].parent \in Tokens \cup {NoToken}
                            /\ tokens[x].replacedBy \in Tokens \cup {NoToken}
      BY DEF IInv, TypeOK, Token
    <3> QED
      BY <1>1, <3>1, <3>2 DEF IInv, TreeOK, RotatedIsRevoked
  <2>3. RotatedIsRevoked'
    BY <1>3, <2>1, <2>2 DEF IInv, TreeOK, RotatedIsRevoked
  <2> QED
    BY <1>2, <1>3, <2>3 DEF IInv, TreeOK, Issued
<1> QED
  BY <1>5, <1>7, <1>8 DEF IInv

LEMMA RefreshKeeps ==
    ASSUME IInv, NEW r \in Requests, NEW t \in Tokens, Refresh(r, t)
    PROVE  IInv'
<1> DEFINE old == call[r].token
           f == Fresh(t, txn[r].user, old)
           g == [tokens[old] EXCEPT !.state = "revoked", !.replacedBy = t]
<1>1. /\ Calls(r) /\ call[r].kind = "refresh" /\ call[r].reply = "pending" /\ txn[r] # NoTxn
      /\ tokens[t].state = "unissued"
      /\ Reply(r, "done", t)
      /\ txn' = [txn EXCEPT ![r] = NoTxn]
      /\ UNCHANGED <<account, codes, drawn, confirmed, overtaken, bought, storage, memory, abandoned, restored>>
  BY DEF Refresh, Pending, Calls
<1>2. /\ old \in Tokens /\ Issued(old) /\ old # t /\ old # NoToken
      /\ txn[r].user = tokens[old].owner /\ tokens[old] \in Token /\ txn[r].user \in Users
  BY <1>1, Typed, BrowserSentinels DEF IInv, IssuedOK, Issued
<1>3. /\ f \in Token /\ f.state = "live" /\ f.parent = old /\ f.owner = tokens[old].owner
      /\ g \in Token /\ g.state = "revoked" /\ g.replacedBy = t
      /\ g.parent = tokens[old].parent /\ g.owner = tokens[old].owner
  BY <1>2 DEF Fresh, Token
<1>4. tokens' = [tokens EXCEPT ![t] = f, ![old] = g]
  BY <1>2 DEF Refresh, IInv, TypeOK
<1> HIDE DEF f, g
<1>5. /\ tokens' \in [Tokens -> Token] /\ tokens'[t] = f /\ tokens'[old] = g
      /\ \A x \in Tokens : x # t /\ x # old => tokens'[x] = tokens[x]
  BY <1>2, <1>3, <1>4 DEF IInv, TypeOK
<1> HIDE DEF old
<1>6. \A q \in Requests : q # r => txn'[q] = txn[q]
  BY <1>1 DEF IInv, TypeOK, AccountsTypeOK
<1>7. /\ call' \in [Requests -> Call \cup {NoCall}]
      /\ IssuedOK' /\ NewsOK' /\ LostOK' /\ AnswersOK' /\ HeldTokenWorks'
  <2>1. t # NoToken /\ ~Issued(t)
    BY <1>1, BrowserSentinels DEF Issued
  <2>2. \A x \in Tokens : x # t =>
           /\ tokens'[x].owner = tokens[x].owner
           /\ tokens'[x].state = tokens[x].state \/ (x = call[r].token /\ tokens'[x].state = "revoked")
    BY <1>3, <1>5 DEF old
  <2> QED
    BY <1>1, <1>3, <1>5, <1>6, <2>1, <2>2, Replied
<1>8. TypeOK'
  BY <1>1, <1>5, <1>7 DEF IInv, TypeOK, AccountsTypeOK
<1>9. TreeOK'
  <2>1. ASSUME NEW x \in Tokens, x # t, tokens'[x].parent # NoToken
        PROVE  /\ tokens'[tokens'[x].parent].state = "revoked"
               /\ tokens'[tokens'[x].parent].owner = tokens'[x].owner
               /\ tokens'[tokens'[x].parent].replacedBy # NoToken
               /\ tokens'[tokens'[tokens'[x].parent].replacedBy].parent = tokens'[x].parent
    <3> DEFINE p == tokens[x].parent
               z == tokens[p].replacedBy
    <3>1. tokens'[x].parent = p /\ tokens'[x].owner = tokens[x].owner
      BY <1>3, <1>5, <2>1
    <3>2. tokens[t].parent = NoToken
      BY <1>1 DEF IInv, TreeOK, Issued
    <3>3. /\ p \in Tokens /\ p # t /\ tokens[p].state = "revoked" /\ tokens[p].owner = tokens[x].owner
          /\ z \in Tokens /\ tokens[z].parent = p /\ z # t
      BY <1>1, <2>1, <3>1, <3>2 DEF IInv, TreeOK, RotatedIsRevoked, TypeOK, Token
    <3>4. tokens'[z].parent = p
      BY <1>3, <1>5, <3>3
    <3>5. CASE p = old
      BY <1>2, <1>3, <1>5, <3>1, <3>3, <3>5, BrowserSentinels
    <3>6. CASE p # old
      BY <1>5, <3>1, <3>3, <3>4, <3>6, BrowserSentinels
    <3> QED
      BY <3>5, <3>6
  <2>2. /\ tokens'[tokens'[t].parent].state = "revoked"
        /\ tokens'[tokens'[t].parent].owner = tokens'[t].owner
        /\ tokens'[tokens'[t].parent].replacedBy # NoToken
        /\ tokens'[tokens'[tokens'[t].parent].replacedBy].parent = tokens'[t].parent
    BY <1>3, <1>5, BrowserSentinels
  <2>3. RotatedIsRevoked'
    BY <2>1, <2>2 DEF RotatedIsRevoked
  <2>4. \A x \in Tokens : ~Issued(x)' => tokens'[x].parent = NoToken
    BY <1>3, <1>5 DEF IInv, TreeOK, Issued
  <2> QED
    BY <2>3, <2>4 DEF TreeOK
<1> QED
  BY <1>7, <1>8, <1>9 DEF IInv

LEMMA RefuseKeeps ==
    ASSUME IInv, NEW r \in Requests, Refuse(r)
    PROVE  IInv'
<1>1. /\ Calls(r) /\ call[r].reply = "pending" /\ Reply(r, "refused", NoToken)
      /\ txn' = [txn EXCEPT ![r] = NoTxn]
      /\ UNCHANGED <<account, codes, drawn, confirmed, overtaken, tokens, bought,
                     storage, memory, abandoned, restored>>
  BY DEF Refuse, Rollback, Calls
<1>2. /\ txn' \in [Requests -> Txn \cup {NoTxn}]
      /\ \A q \in Requests : q # r => txn'[q] = txn[q]
      /\ tokens' \in [Tokens -> Token]
  BY <1>1 DEF IInv, TypeOK, AccountsTypeOK
<1>3. /\ call' \in [Requests -> Call \cup {NoCall}]
      /\ IssuedOK' /\ NewsOK' /\ LostOK' /\ AnswersOK' /\ HeldTokenWorks'
  BY <1>1, <1>2, Replied
<1>4. TypeOK' /\ TreeOK'
  BY <1>1, <1>2, <1>3 DEF IInv, TypeOK, AccountsTypeOK, TreeOK, RotatedIsRevoked, Issued
<1> QED
  BY <1>3, <1>4 DEF IInv

LEMMA LogoutKeeps ==
    ASSUME IInv, NEW r \in Requests, Logout(r)
    PROVE  IInv'
<1> DEFINE old == call[r].token
           g == [tokens[old] EXCEPT !.state = "revoked"]
<1>1. /\ Calls(r) /\ call[r].kind = "logout" /\ call[r].reply = "pending"
      /\ tokens' = [tokens EXCEPT ![old] = g]
      /\ Reply(r, "done", NoToken)
      /\ UNCHANGED <<account, codes, txn, drawn, confirmed, overtaken, bought,
                     storage, memory, abandoned, restored>>
  BY DEF Logout, Pending, Calls, accountVars
<1>2. old \in Tokens /\ Issued(old) /\ tokens[old] \in Token
  BY <1>1, Typed DEF IInv, IssuedOK
<1>3. /\ g \in Token /\ g.state = "revoked" /\ g.replacedBy = tokens[old].replacedBy
      /\ g.parent = tokens[old].parent /\ g.owner = tokens[old].owner
  BY <1>2 DEF Token
<1> HIDE DEF g
<1>4. /\ tokens' \in [Tokens -> Token] /\ tokens'[old] = g
      /\ \A x \in Tokens : x # old => tokens'[x] = tokens[x]
  BY <1>1, <1>2, <1>3 DEF IInv, TypeOK
<1>5. /\ call' \in [Requests -> Call \cup {NoCall}]
      /\ IssuedOK' /\ NewsOK' /\ LostOK' /\ AnswersOK' /\ HeldTokenWorks'
  BY <1>1, <1>3, <1>4, Replied
<1>6. TypeOK'
  BY <1>1, <1>4, <1>5 DEF IInv, TypeOK, AccountsTypeOK
<1>7. TreeOK'
  <2>1. \A x \in Tokens :
          /\ tokens'[x].parent = tokens[x].parent /\ tokens'[x].owner = tokens[x].owner
          /\ tokens'[x].replacedBy = tokens[x].replacedBy
          /\ tokens[x].state = "revoked" => tokens'[x].state = "revoked"
          /\ ~Issued(x)' => ~Issued(x)
    BY <1>2, <1>3, <1>4 DEF Issued
  <2>2. \A x \in Tokens : /\ tokens[x].parent \in Tokens \cup {NoToken}
                          /\ tokens[x].replacedBy \in Tokens \cup {NoToken}
    BY DEF IInv, TypeOK, Token
  <2>3. RotatedIsRevoked'
    BY <2>1, <2>2 DEF IInv, TreeOK, RotatedIsRevoked
  <2> QED
    BY <2>1, <2>3 DEF IInv, TreeOK
<1> QED
  BY <1>5, <1>6, <1>7 DEF IInv

LEMMA ExpireKeeps ==
    ASSUME IInv, NEW t \in Tokens, Expire(t)
    PROVE  IInv'
<1> DEFINE g == [tokens[t] EXCEPT !.state = "expired"]
<1>1. /\ tokens[t].state = "live" /\ tokens' = [tokens EXCEPT ![t] = g]
      /\ UNCHANGED <<account, codes, txn, drawn, confirmed, overtaken, bought, call,
                     storage, memory, abandoned, restored>>
  BY DEF Expire, accountVars, browserVars
<1>2. /\ g \in Token /\ g.state = "expired" /\ g.replacedBy = tokens[t].replacedBy
      /\ g.parent = tokens[t].parent /\ g.owner = tokens[t].owner
  BY <1>1 DEF IInv, TypeOK, Token
<1> HIDE DEF g
<1>3. /\ tokens' \in [Tokens -> Token] /\ tokens'[t] = g
      /\ \A x \in Tokens : x # t => tokens'[x] = tokens[x]
  BY <1>1, <1>2 DEF IInv, TypeOK
<1>4. \A x \in Tokens :
          /\ tokens'[x].parent = tokens[x].parent /\ tokens'[x].owner = tokens[x].owner
          /\ tokens'[x].replacedBy = tokens[x].replacedBy
          /\ tokens[x].state = "revoked" => tokens'[x].state = "revoked"
          /\ tokens[x].state \in {"live", "expired"} => tokens'[x].state \in {"live", "expired"}
          /\ Issued(x)' <=> Issued(x)
  BY <1>1, <1>2, <1>3 DEF Issued
<1>5. TypeOK'
  BY <1>1, <1>3 DEF IInv, TypeOK, AccountsTypeOK
<1>6. TreeOK'
  <2>1. \A x \in Tokens : /\ tokens[x].parent \in Tokens \cup {NoToken}
                          /\ tokens[x].replacedBy \in Tokens \cup {NoToken}
    BY DEF IInv, TypeOK, Token
  <2>2. RotatedIsRevoked'
    BY <1>4, <2>1 DEF IInv, TreeOK, RotatedIsRevoked
  <2> QED
    BY <1>4, <2>2 DEF IInv, TreeOK
<1>7. IssuedOK'
  BY <1>1, <1>4, Typed DEF IInv, TypeOK, IssuedOK, Calls
<1>8. NewsOK' /\ LostOK' /\ AnswersOK'
  BY <1>1, <1>4, Typed DEF IInv, NewsOK, Unheard, LostOK, AnswersOK, Calls
<1>9. HeldTokenWorks'
  BY <1>1, <1>4 DEF IInv, TypeOK, HeldTokenWorks, InStep
<1> QED
  BY <1>5, <1>6, <1>7, <1>8, <1>9 DEF IInv

---------------------------------------------------------------------------
(* The browser.                                                            *)

\* The conjuncts about tokens and accounts, when both stay as they are.
LEMMA ServerKeeps ==
    ASSUME IInv, UNCHANGED <<accountVars, tokens, bought>>,
           call' \in [Requests -> Call \cup {NoCall}],
           storage' \in Tokens \cup {NoToken}, memory' \in [Tabs -> Tokens \cup {NoToken}],
           abandoned' \subseteq Tokens, restored' \subseteq Tokens
    PROVE  TypeOK' /\ TreeOK'
BY DEF IInv, TypeOK, AccountsTypeOK, accountVars, TreeOK, RotatedIsRevoked, Issued

\* A new call carries no token or one the browser holds.
LEMMA SendKeeps ==
    ASSUME IInv, NEW r \in Requests, NEW kind \in {"login", "refresh", "logout"},
           NEW b \in Tabs, NEW u \in Users, NEW t \in Tokens \cup {NoToken},
           Send(r, kind, b, u, t), kind = "login" <=> t = NoToken,
           t # NoToken => t = storage \/ t = memory[b],
           UNCHANGED <<accountVars, tokens, bought, storage, memory, abandoned, restored>>
    PROVE  IInv'
<1> DEFINE x == [kind |-> kind, tab |-> b, user |-> u, token |-> t,
                 seen |-> "unissued", reply |-> "pending", new |-> NoToken]
<1>1. x \in Call /\ call[r] = NoCall /\ txn[r] = NoTxn /\ call' = [call EXCEPT ![r] = x]
  BY DEF Send, Call
<1>2. /\ call' \in [Requests -> Call \cup {NoCall}] /\ call'[r] = x
      /\ \A q \in Requests : q # r => call'[q] = call[q]
  BY <1>1 DEF IInv, TypeOK
<1>3. \A q \in Requests : Calls(q)' => q = r \/ (Calls(q) /\ call'[q] = call[q])
  BY <1>2 DEF Calls
<1>4. /\ call'[r].kind = kind /\ call'[r].tab = b /\ call'[r].token = t
      /\ call'[r].reply = "pending" /\ call'[r].new = NoToken
  BY <1>2
<1> HIDE DEF x
<1>5. t # NoToken => Issued(t)
  BY DEF IInv, IssuedOK
<1>6. TypeOK' /\ TreeOK'
  BY <1>2, ServerKeeps DEF IInv, TypeOK
<1>7. b # NoTab /\ txn' = txn
  BY BrowserSentinels DEF accountVars
<1>8. IssuedOK'
  BY <1>1, <1>3, <1>4, <1>5, <1>7 DEF IInv, IssuedOK, Issued
<1>9. NewsOK'
  <2>1. ASSUME NEW q \in Requests, Calls(q)', call'[q].new # NoToken
        PROVE  Unheard(call[q].new, q)' /\ call'[q].new = call[q].new
    <3>1. Calls(q) /\ call'[q] = call[q] /\ Unheard(call[q].new, q)
      BY <2>1, <1>3, <1>4 DEF IInv, NewsOK
    <3>2. t # call[q].new
      BY <3>1, <2>1 DEF Unheard
    <3> QED
      BY <3>1, <3>2, <2>1, <1>3, <1>4 DEF Unheard
  <2> QED
    BY <2>1 DEF NewsOK
<1>10. LostOK' /\ AnswersOK'
  BY <1>3, <1>4, <1>7 DEF IInv, LostOK, AnswersOK
<1>11. HeldTokenWorks'
  BY <1>1, <1>2 DEF IInv, HeldTokenWorks, InStep
<1> QED
  BY <1>6, <1>8, <1>9, <1>10, <1>11 DEF IInv

\* An answered call ends, and its token is stored, in a tab's store or not.
LEMMA StoredKeeps ==
    ASSUME IInv, NEW r \in Requests, Calls(r), call[r].reply = "done", call[r].kind # "logout",
           call' = [call EXCEPT ![r] = NoCall], storage' = call[r].new,
           memory' = memory \/ memory' = [memory EXCEPT ![call[r].tab] = call[r].new],
           UNCHANGED <<accountVars, tokens, bought, abandoned, restored>>
    PROVE  IInv'
<1> DEFINE n == call[r].new
<1>1. n # NoToken /\ n \in Tokens /\ Issued(n) /\ Unheard(n, r)
  BY Typed DEF IInv, AnswersOK, IssuedOK, NewsOK
<1>2. /\ call' \in [Requests -> Call \cup {NoCall}] /\ call'[r] = NoCall
      /\ \A q \in Requests : q # r => call'[q] = call[q]
  BY DEF IInv, TypeOK
<1>3. \A q \in Requests : Calls(q)' => Calls(q) /\ call'[q] = call[q] /\ q # r
  BY <1>2 DEF Calls
<1>4. /\ memory' \in [Tabs -> Tokens \cup {NoToken}]
      /\ \A b \in Tabs : memory'[b] = memory[b] \/ memory'[b] = n
  BY <1>1 DEF IInv, TypeOK
<1>5. storage' = n
  OBVIOUS
<1> HIDE DEF n
<1>6. TypeOK' /\ TreeOK'
  BY <1>1, <1>2, <1>4, <1>5, ServerKeeps DEF IInv, TypeOK
<1>7. IssuedOK'
  BY <1>1, <1>3, <1>4, <1>5 DEF IInv, IssuedOK, Issued, accountVars
<1>8. NewsOK'
  <2>1. ASSUME NEW q \in Requests, Calls(q)', call'[q].new # NoToken
        PROVE  Unheard(call[q].new, q)' /\ call'[q].new = call[q].new
    <3>1. Calls(q) /\ call'[q] = call[q] /\ Unheard(call[q].new, q) /\ q # r
      BY <2>1, <1>3 DEF IInv, NewsOK
    <3>2. n # call[q].new
      BY <3>1, <1>1 DEF Unheard
    <3> QED
      BY <3>1, <3>2, <1>3, <1>4, <1>5 DEF Unheard
  <2> QED
    BY <2>1 DEF NewsOK
<1>9. LostOK'
  BY <1>1, <1>3, <1>5 DEF IInv, LostOK, Unheard
<1>10. AnswersOK'
  BY <1>3 DEF IInv, AnswersOK
<1>11. HeldTokenWorks'
  BY <1>1, <1>5 DEF HeldTokenWorks, InStep, Unheard
<1> QED
  BY <1>6, <1>7, <1>8, <1>9, <1>10, <1>11 DEF IInv

\* A call the tab no longer waits for, with the tab's sessions cleared or not.
LEMMA GivenUpKeeps ==
    ASSUME IInv, NEW r \in Requests, Calls(r), call[r].tab # NoTab, GiveUp(r),
           \/ /\ storage' = NoToken
              /\ memory' = [memory EXCEPT ![call[r].tab] = NoToken]
           \/ call[r].kind = "login" /\ UNCHANGED <<storage, memory>>,
           UNCHANGED <<accountVars, tokens, bought, abandoned, restored>>
    PROVE  IInv'
<1> DEFINE x == [call[r] EXCEPT !.tab = NoTab]
<1>1. call[r] \in Call /\ call[r].tab \in Tabs
  BY Typed DEF IInv
<1>2. /\ x \in Call /\ x.kind = call[r].kind /\ x.token = call[r].token /\ x.tab = NoTab
      /\ x.reply = call[r].reply /\ x.new = call[r].new
  BY <1>1 DEF Call
<1>3. call' = [call EXCEPT ![r] = IF call[r].reply = "pending" THEN x ELSE NoCall]
  BY DEF GiveUp, IInv, TypeOK
<1> HIDE DEF x
<1>4. /\ call' \in [Requests -> Call \cup {NoCall}]
      /\ \A q \in Requests : q # r => call'[q] = call[q]
      /\ call'[r] = IF call[r].reply = "pending" THEN x ELSE NoCall
  BY <1>2, <1>3 DEF IInv, TypeOK
<1>5. \A q \in Requests : Calls(q)' =>
         /\ Calls(q) /\ call'[q].kind = call[q].kind /\ call'[q].token = call[q].token
         /\ call'[q].reply = call[q].reply /\ call'[q].new = call[q].new
         /\ q # r => call'[q] = call[q]
         /\ q = r => call[r].reply = "pending" /\ call'[q].tab = NoTab
  BY <1>2, <1>4 DEF Calls
<1>6. /\ memory' \in [Tabs -> Tokens \cup {NoToken}]
      /\ storage' \in Tokens \cup {NoToken}
      /\ storage' = storage \/ storage' = NoToken
      /\ \A b \in Tabs : memory'[b] = memory[b] \/ memory'[b] = NoToken
  BY <1>1 DEF IInv, TypeOK
<1>7. TypeOK' /\ TreeOK'
  BY <1>4, <1>6, ServerKeeps DEF IInv, TypeOK
<1>8. IssuedOK'
  BY <1>5, <1>6 DEF IInv, IssuedOK, Issued, accountVars
<1>9. NewsOK'
  <2>1. ASSUME NEW q \in Requests, Calls(q)', call'[q].new # NoToken
        PROVE  Unheard(call[q].new, q)' /\ call'[q].new = call[q].new
    <3>1. Calls(q) /\ call'[q].new = call[q].new /\ Unheard(call[q].new, q)
      BY <2>1, <1>5 DEF IInv, NewsOK
    <3> QED
      BY <3>1, <2>1, <1>5, <1>6 DEF Unheard
  <2> QED
    BY <2>1 DEF NewsOK
<1>10. LostOK' /\ AnswersOK'
  <2>1. call[r].kind = "login" => call[r].token = NoToken
    BY DEF IInv, IssuedOK
  <2>2. LostOK'
    <3>1. CASE storage' = NoToken
      BY <3>1 DEF LostOK
    <3>2. CASE storage' # NoToken
      BY <3>2, <2>1, <1>5 DEF IInv, LostOK
    <3> QED
      BY <3>1, <3>2
  <2> QED
    BY <2>2, <1>5 DEF IInv, AnswersOK
<1>11. HeldTokenWorks'
  <2>1. CASE storage' = NoToken
    BY <2>1 DEF HeldTokenWorks
  <2>2. CASE storage' # NoToken
    <3>1. call[r].token = NoToken /\ storage' = storage
      BY <2>2 DEF IInv, IssuedOK
    <3>2. \A q \in Requests : call[q] # NoCall /\ call[q].token = storage => call'[q] = call[q]
      BY <2>2, <3>1, <1>4
    <3> QED
      BY <2>2, <3>1, <3>2 DEF IInv, HeldTokenWorks, InStep
  <2> QED
    BY <2>1, <2>2
<1> QED
  BY <1>7, <1>8, <1>9, <1>10, <1>11 DEF IInv

LEMMA NothingStoredKeeps ==
    ASSUME IInv, NEW b \in Tabs, NothingStored(b)
    PROVE  IInv'
<1>1. /\ UNCHANGED <<accountVars, tokens, bought, call, storage, abandoned, restored>>
      /\ memory' \in [Tabs -> Tokens \cup {NoToken}]
      /\ \A d \in Tabs : memory'[d] = memory[d] \/ memory'[d] = NoToken
  BY DEF NothingStored, IInv, TypeOK
<1>2. TypeOK' /\ TreeOK'
  BY <1>1, ServerKeeps DEF IInv, TypeOK
<1>3. IssuedOK'
  BY <1>1 DEF IInv, IssuedOK, Issued, Calls, accountVars
<1>4. NewsOK'
  BY <1>1 DEF IInv, NewsOK, Unheard, Calls
<1>5. LostOK' /\ AnswersOK' /\ HeldTokenWorks'
  BY <1>1 DEF IInv, LostOK, AnswersOK, HeldTokenWorks, InStep, Calls
<1> QED
  BY <1>2, <1>3, <1>4, <1>5 DEF IInv

LEMMA ReloadKeeps ==
    ASSUME IInv, NEW b \in Tabs, Reload(b)
    PROVE  IInv'
<1> DEFINE lost(q) == [call[q] EXCEPT !.tab = NoTab]
<1>1. \A q \in Requests : Calls(q) =>
         /\ lost(q) \in Call /\ lost(q).kind = call[q].kind /\ lost(q).token = call[q].token
         /\ lost(q).reply = call[q].reply /\ lost(q).new = call[q].new /\ lost(q).tab = NoTab
  BY Typed DEF IInv, Call
<1>2. /\ \A q \in Requests : call'[q] =
              IF Calls(q) /\ call[q].tab = b
              THEN IF call[q].reply = "pending" THEN lost(q) ELSE NoCall
              ELSE call[q]
      /\ DOMAIN call' = Requests /\ call' = [q \in Requests |-> call'[q]]
  BY DEF Reload, Calls
<1> HIDE DEF lost
<1>3. call' \in [Requests -> Call \cup {NoCall}]
  BY <1>1, <1>2 DEF IInv, TypeOK, Calls
<1>4. \A q \in Requests : Calls(q)' =>
         /\ Calls(q) /\ call'[q].kind = call[q].kind /\ call'[q].token = call[q].token
         /\ call'[q].reply = call[q].reply /\ call'[q].new = call[q].new
         /\ call'[q].tab = call[q].tab
               \/ (call[q].tab = b /\ call'[q].tab = NoTab /\ call[q].reply = "pending")
  BY <1>1, <1>2 DEF Calls
<1>5. /\ UNCHANGED <<accountVars, tokens, bought, storage, restored>>
      /\ memory' \in [Tabs -> Tokens \cup {NoToken}]
      /\ \A d \in Tabs : memory'[d] = memory[d] \/ memory'[d] = storage
  BY DEF Reload, IInv, TypeOK
<1>6. /\ abandoned \subseteq abandoned' /\ abandoned' \subseteq Tokens
      /\ \A q \in Requests : Calls(q) /\ call[q].tab = b /\ call[q].token # NoToken =>
            call[q].token \in abandoned'
  BY Typed DEF Reload, Calls, IInv, TypeOK
<1>7. TypeOK' /\ TreeOK'
  BY <1>3, <1>5, <1>6, ServerKeeps DEF IInv, TypeOK
<1>8. IssuedOK'
  BY <1>4, <1>5 DEF IInv, IssuedOK, Issued, accountVars
<1>9. NewsOK'
  <2>1. ASSUME NEW q \in Requests, Calls(q)', call'[q].new # NoToken
        PROVE  Unheard(call[q].new, q)' /\ call'[q].new = call[q].new
    <3>1. Calls(q) /\ call'[q].new = call[q].new /\ Unheard(call[q].new, q)
      BY <2>1, <1>4 DEF IInv, NewsOK
    <3> QED
      BY <3>1, <2>1, <1>4, <1>5 DEF Unheard
  <2> QED
    BY <2>1 DEF NewsOK
<1>10. LostOK'
  BY <1>4, <1>5, <1>6 DEF IInv, LostOK
<1>11. AnswersOK'
  BY <1>4 DEF IInv, AnswersOK
<1>12. HeldTokenWorks'
  <2> SUFFICES ASSUME storage # NoToken, storage \notin abandoned' \cup restored
               PROVE  InStep(storage)'
    BY <1>5 DEF HeldTokenWorks
  <2>1. InStep(storage)
    BY <1>6 DEF IInv, HeldTokenWorks
  <2>2. \A q \in Requests : call[q] # NoCall /\ call[q].token = storage /\ call[q].tab # NoTab =>
           call'[q] = call[q]
    BY <1>2, <1>6 DEF Calls
  <2> QED
    BY <1>5, <2>1, <2>2 DEF InStep
<1> QED
  BY <1>7, <1>8, <1>9, <1>10, <1>11, <1>12 DEF IInv

LEMMA SyncUserKeeps ==
    ASSUME IInv, NEW b \in Tabs, SyncUser(b)
    PROVE  IInv'
<1>1. /\ UNCHANGED <<accountVars, tokens, bought, call, memory, abandoned>>
      /\ memory[b] # NoToken /\ memory[b] \in Tokens /\ storage' = memory[b]
      /\ restored \subseteq restored' /\ restored' \subseteq Tokens
      /\ storage' = storage \/ storage' \in restored'
  BY DEF SyncUser, IInv, TypeOK
<1>2. TypeOK' /\ TreeOK'
  BY <1>1, ServerKeeps DEF IInv, TypeOK
<1>3. IssuedOK'
  BY <1>1 DEF IInv, IssuedOK, Issued, Calls, accountVars
<1>4. NewsOK'
  BY <1>1 DEF IInv, NewsOK, Unheard, Calls
<1>5. LostOK' /\ AnswersOK' /\ HeldTokenWorks'
  BY <1>1 DEF IInv, LostOK, AnswersOK, HeldTokenWorks, InStep, Calls
<1> QED
  BY <1>2, <1>3, <1>4, <1>5 DEF IInv

LEMMA BrowseKeeps ==
    ASSUME IInv, NEW r \in Requests, Browse(r)
    PROVE  IInv'
<1>1. ASSUME NEW b \in Tabs, NEW u \in Users, SendLogin(r, b, u)
      PROVE  IInv'
  BY <1>1, SendKeeps DEF SendLogin
<1>2. ASSUME NEW b \in Tabs, SendRefresh(r, b)
      PROVE  IInv'
  <2>1. PICK u \in Users : Send(r, "refresh", b, u, storage)
    BY <1>2 DEF SendRefresh
  <2>2. storage \in Tokens \cup {NoToken} /\ storage # NoToken
    BY <1>2 DEF SendRefresh, IInv, TypeOK
  <2> QED
    BY <1>2, <2>1, <2>2, SendKeeps DEF SendRefresh
<1>3. ASSUME NEW b \in Tabs, SendLogout(r, b)
      PROVE  IInv'
  <2>1. PICK u \in Users : Send(r, "logout", b, u, memory[b])
    BY <1>3 DEF SendLogout
  <2>2. memory[b] \in Tokens \cup {NoToken} /\ memory[b] # NoToken
    BY <1>3 DEF SendLogout, IInv, TypeOK
  <2> QED
    BY <1>3, <2>1, <2>2, SendKeeps DEF SendLogout
<1>4. CASE SignedIn(r)
  BY <1>4, StoredKeeps DEF SignedIn, Calls
<1>5. CASE Refreshed(r)
  BY <1>5, StoredKeeps DEF Refreshed, Calls
<1>6. CASE Cleared(r)
  BY <1>6, GivenUpKeeps DEF Cleared, Calls
<1>7. CASE LoginFailed(r)
  BY <1>7, GivenUpKeeps DEF LoginFailed, Calls
<1> QED
  BY <1>1, <1>2, <1>3, <1>4, <1>5, <1>6, <1>7 DEF Browse

---------------------------------------------------------------------------

LEMMA InitInvariant ==
    ASSUME Init PROVE IInv
<1>1. \A t \in Tokens : tokens[t] \in Token /\ tokens[t].parent = NoToken
  BY DEF Init, Token
<1>2. TypeOK
  <2>1. AccountsTypeOK
    BY DEF Init, AccountsInit, AccountsTypeOK, Account, CodeSet
  <2> QED
    BY <1>1, <2>1 DEF Init, TypeOK
<1>3. TreeOK
  BY <1>1 DEF TreeOK, RotatedIsRevoked
<1> QED
  BY <1>2, <1>3 DEF Init, IInv, IssuedOK, NewsOK, LostOK, AnswersOK, HeldTokenWorks, Calls

LEMMA StepInvariant ==
    ASSUME IInv, [Next]_vars PROVE IInv'
<1>1. ASSUME NEW r \in Requests, Serve(r)
      PROVE  IInv'
  BY <1>1, ServeLoginKeeps, LoginKeeps, ServeRefreshKeeps, RefreshKeeps, RefuseKeeps,
     LogoutKeeps DEF Serve
<1>2. CASE UNCHANGED vars
  <2>1. TypeOK'
    BY <1>2 DEF IInv, TypeOK, AccountsTypeOK, vars, accountVars, browserVars
  <2> QED
    BY <1>2, <2>1, BesideKeeps DEF vars, accountVars, browserVars
<1> QED
  BY <1>1, <1>2, AdministerKeeps, BrowseKeeps, ExpireKeeps, NothingStoredKeeps, ReloadKeeps,
     SyncUserKeeps DEF Next

\* The invariant holds in every state of every run, however many tabs, tokens
\* and requests there are.
THEOREM InvariantHolds == Spec => []IInv
<1>1. Init => IInv
  BY InitInvariant
<1>2. IInv /\ [Next]_vars => IInv'
  BY StepInvariant
<1> QED
  BY <1>1, <1>2, PTL DEF Spec

\* The accounts, tokens, calls and the browser's copies keep their types.
THEOREM TypeCorrect == Spec => []TypeOK
<1>1. IInv => TypeOK
  BY DEF IInv
<1> QED
  BY <1>1, InvariantHolds, PTL

\* However many refreshes of one token are served at once, a token that has a
\* successor is revoked, names one of its successors, and has the same owner
\* (services/auth_service.py, refresh and _issue_refresh).
THEOREM RotationIsFinal == Spec => []RotatedIsRevoked
<1>1. IInv => RotatedIsRevoked
  BY DEF IInv, TreeOK
<1> QED
  BY <1>1, InvariantHolds, PTL

\* Whatever the tabs of a browser do at once, the token in its storage still
\* works or a call that carries it is on its way, unless a reload gave up such
\* a call or the security page wrote an older one back (src/frontend/src/lib/
\* api.ts and SecurityPage.tsx).
THEOREM StoredTokenWorks == Spec => []HeldTokenWorks
<1>1. IInv => HeldTokenWorks
  BY DEF IInv
<1> QED
  BY <1>1, InvariantHolds, PTL

---------------------------------------------------------------------------
(* Enrolment.                                                              *)

EnrolmentOK == ConfirmedSecret /\ CodesOfEnrolment

\* What a step on the sessions may do to an open transaction and to the codes.
LEMMA ServeEffect ==
    ASSUME TypeOK, NEW r \in Requests, Serve(r)
    PROVE  /\ UNCHANGED <<account, drawn, confirmed, overtaken>>
           /\ \A q \in Requests : q # r => txn'[q] = txn[q]
           /\ txn'[r] # NoTxn => \/ txn'[r].row = account[txn'[r].user] /\ txn'[r].code = NoCode
                                 \/ /\ txn[r] # NoTxn /\ txn'[r].row = txn[r].row
                                    /\ txn'[r].user = txn[r].user
           /\ \A c \in CodeSets : codes'[c].state = "unused" => codes'[c] = codes[c]
<1> DEFINE Effect == /\ UNCHANGED <<account, drawn, confirmed, overtaken>>
                     /\ \A q \in Requests : q # r => txn'[q] = txn[q]
                     /\ txn'[r] # NoTxn =>
                           \/ txn'[r].row = account[txn'[r].user] /\ txn'[r].code = NoCode
                           \/ /\ txn[r] # NoTxn /\ txn'[r].row = txn[r].row
                              /\ txn'[r].user = txn[r].user
                     /\ \A c \in CodeSets : codes'[c].state = "unused" => codes'[c] = codes[c]
<1>0. txn \in [Requests -> Txn \cup {NoTxn}] /\ codes \in [CodeSets -> CodeSet]
  BY DEF TypeOK, AccountsTypeOK
<1>1. CASE ServeLogin(r)
  BY <1>0, <1>1 DEF ServeLogin, LoadAccount, Read
<1>2. ASSUME NEW t \in Tokens, Login(r, t)
      PROVE  Effect
  BY <1>0, <1>2 DEF Login, Issue
<1>3. ASSUME NEW c \in CodeSets, SelectCode(r, c)
      PROVE  Effect
  BY <1>0, <1>3 DEF SelectCode, Txn
<1>4. ASSUME NEW t \in Tokens, LoginByCode(r, t)
      PROVE  Effect
  <2>1. \A c \in CodeSets : codes'[c] = codes[c] \/ codes'[c].state = "used"
    <3>1. \A c \in CodeSets : [codes[c] EXCEPT !.state = "used"].state = "used"
      BY <1>0 DEF CodeSet
    <3> QED
      BY <1>0, <1>4, <3>1 DEF LoginByCode
  <2>2. /\ UNCHANGED <<account, drawn, confirmed, overtaken>>
        /\ \A q \in Requests : q # r => txn'[q] = txn[q]
        /\ txn'[r] = NoTxn
    BY <1>0, <1>4 DEF LoginByCode, Issue
  <2> QED
    BY <2>1, <2>2
<1>5. CASE ServeRefresh(r)
  BY <1>0, <1>5 DEF ServeRefresh, Read
<1>6. ASSUME NEW t \in Tokens, Refresh(r, t)
      PROVE  Effect
  BY <1>0, <1>6 DEF Refresh
<1>7. CASE Refuse(r)
  BY <1>0, <1>7 DEF Refuse, Rollback
<1>8. CASE Logout(r)
  BY <1>0, <1>8 DEF Logout, accountVars
<1> QED
  BY <1>1, <1>2, <1>3, <1>4, <1>5, <1>6, <1>7, <1>8 DEF Serve

\* A step that is neither a handler of accounts nor one of sessions leaves the
\* accounts alone.
LEMMA OtherSteps ==
    ASSUME [Next]_vars
    PROVE  \/ \E r \in Requests : Administer(r) \/ Serve(r)
           \/ UNCHANGED <<accountVars, bought>>
BY DEF Next, Browse, SendLogin, SignedIn, SendRefresh, Refreshed, Cleared, LoginFailed, SendLogout,
       Expire, NothingStored, Reload, SyncUser, vars

LEMMA InitEnrolment ==
    ASSUME Init PROVE EnrolmentOK
<1>1. \A u \in Users : account[u].mfa = FALSE
  BY DEF Init, AccountsInit
<1> QED
  BY <1>1 DEF EnrolmentOK, ConfirmedSecret, CodesOfEnrolment

LEMMA EnrolmentKept ==
    ASSUME EnrolmentOK, UNCHANGED <<confirmed, overtaken>>,
           \A u \in Users : /\ account'[u].mfa = account[u].mfa
                            /\ account'[u].secret = account[u].secret,
           \A c \in CodeSets : codes'[c].state = "unused" => codes'[c] = codes[c]
    PROVE  EnrolmentOK'
BY DEF EnrolmentOK, ConfirmedSecret, CodesOfEnrolment

\* One account's enrolment, or its codes, may change: what has to be seen is
\* that account, when nothing was written over unseen.
LEMMA EnrolmentChanged ==
    ASSUME EnrolmentOK, NEW u \in Users,
           \A v \in Users : v # u => account'[v] = account[v],
           overtaken \subseteq overtaken', confirmed \subseteq confirmed',
           \A c \in CodeSets : codes'[c].state = "unused" =>
                                  codes'[c] = codes[c] \/ codes'[c].owner = u,
           u \notin overtaken' /\ account'[u].mfa =>
              /\ account'[u].secret \in confirmed'
              /\ \A c \in CodeSets : codes'[c].state = "unused" /\ codes'[c].owner = u =>
                                        codes'[c].forSecret = account'[u].secret
    PROVE  EnrolmentOK'
<1>1. ConfirmedSecret'
  BY DEF EnrolmentOK, ConfirmedSecret
<1>2. CodesOfEnrolment'
  BY DEF EnrolmentOK, CodesOfEnrolment
<1> QED
  BY <1>1, <1>2 DEF EnrolmentOK

\* A commit that has seen the enrolment it changes leaves what it wanted.
LEMMA EnrolLeaves ==
    ASSUME TypeOK, NEW r \in Requests, txn[r] # NoTxn, NEW x \in Account, Enrol(r, x)
    PROVE  /\ \A v \in Users : v # txn[r].user => account'[v] = account[v]
           /\ overtaken \subseteq overtaken'
           /\ txn[r].user \notin overtaken' =>
                 /\ account'[txn[r].user].mfa = x.mfa
                 /\ account'[txn[r].user].secret = x.secret
<1> DEFINE u == txn[r].user
           w == txn[r].row
<1>1. /\ \A v \in Users : v # u => account'[v] = account[v]
      /\ account'[u] = Merge(account[u], w, x)
      /\ account[u] \in Account /\ w \in Account
  BY SaveTyped, Typed DEF Enrol
<1>2. ASSUME account[u].mfa = w.mfa, account[u].secret = w.secret
      PROVE  account'[u].mfa = x.mfa /\ account'[u].secret = x.secret
  BY <1>1, <1>2 DEF Merge, Column, Account
<1>3. overtaken' = IF Outdated(r) THEN overtaken \cup {u} ELSE overtaken
  BY DEF Enrol
<1>4. ~Outdated(r) => account[u].mfa = w.mfa /\ account[u].secret = w.secret
  BY DEF Outdated
<1> QED
  BY <1>1, <1>2, <1>3, <1>4

\* The codes that work after a fresh set is issued to v.
LEMMA ReissueLeaves ==
    ASSUME TypeOK, NEW v \in Users, NEW c \in CodeSets, NEW s, codes' = Reissued(v, c, s)
    PROVE  \A d \in CodeSets : codes'[d].state = "unused" =>
              \/ codes'[d].owner = v /\ codes'[d].forSecret = s
              \/ codes'[d] = codes[d] /\ codes[d].owner # v
<1>1. \A d \in CodeSets : /\ [codes[d] EXCEPT !.state = "withdrawn"].state = "withdrawn"
                          /\ codes[d].owner = v =>
                                codes[d].state = "free" \/ Withdrawn(v)[d].state = "withdrawn"
  BY Typed DEF CodeSet, Withdrawn
<1>2. \A d \in CodeSets : codes'[d] = IF d = c THEN [state |-> "unused", owner |-> v, forSecret |-> s]
                                               ELSE Withdrawn(v)[d]
  BY DEF Reissued, Withdrawn
<1>3. \A d \in CodeSets : Withdrawn(v)[d].state = "unused" =>
         Withdrawn(v)[d] = codes[d] /\ codes[d].owner # v
  BY <1>1 DEF Withdrawn
<1> QED
  BY <1>2, <1>3

LEMMA AdministerEnrolment ==
    ASSUME TypeOK, EnrolmentOK, NEW r \in Requests, Administer(r)
    PROVE  EnrolmentOK'
<1> DEFINE u == txn[r].user
           w == txn[r].row
<1>0. txn[r] # NoTxn => /\ u \in Users /\ w \in Account /\ account[u] \in Account
                        /\ w.secret \in Secrets \cup {NoSecret}
  BY Typed
<1>1. CASE \/ \E v \in Users : LoadAccount(r, v)
           \/ Rollback(r)
  BY <1>1, EnrolmentKept DEF LoadAccount, Rollback
<1>2. ASSUME NEW s \in Secrets, MfaSetup(r, s)
      PROVE  EnrolmentOK'
  <2> DEFINE x == [w EXCEPT !.secret = s, !.mfa = FALSE]
  <2>1. /\ txn[r] # NoTxn /\ u \in Users /\ x \in Account /\ x.mfa = FALSE
        /\ Enrol(r, x) /\ UNCHANGED <<codes, confirmed>>
    BY <1>0, <1>2 DEF MfaSetup, Account
  <2> HIDE DEF x
  <2>2. /\ \A v \in Users : v # u => account'[v] = account[v]
        /\ overtaken \subseteq overtaken'
        /\ u \notin overtaken' => account'[u].mfa = FALSE
    BY <2>1, EnrolLeaves
  <2> HIDE DEF u
  <2> QED
    BY <2>1, <2>2, EnrolmentChanged
<1>3. ASSUME NEW c \in CodeSets, MfaEnable(r, c)
      PROVE  EnrolmentOK'
  <2> DEFINE x == [w EXCEPT !.mfa = TRUE]
  <2>1. /\ txn[r] # NoTxn /\ u \in Users /\ x \in Account /\ x.mfa = TRUE /\ x.secret = w.secret
        /\ Enrol(r, x)
    BY <1>0, <1>3 DEF MfaEnable, Account
  <2> HIDE DEF x
  <2>2. /\ \A v \in Users : v # u => account'[v] = account[v]
        /\ overtaken \subseteq overtaken'
        /\ u \notin overtaken' => account'[u].secret = w.secret
    BY <2>1, EnrolLeaves
  <2>3. w.secret \in confirmed' /\ confirmed \subseteq confirmed'
    BY <1>3 DEF MfaEnable
  <2>4. \A d \in CodeSets : codes'[d].state = "unused" =>
           \/ codes'[d].owner = u /\ codes'[d].forSecret = w.secret
           \/ codes'[d] = codes[d] /\ codes[d].owner # u
    BY <1>3, <2>1, ReissueLeaves DEF MfaEnable
  <2> HIDE DEF u, w
  <2> QED
    BY <2>1, <2>2, <2>3, <2>4, EnrolmentChanged
<1>4. ASSUME NEW c \in CodeSets, RegenerateCodes(r, c)
      PROVE  EnrolmentOK'
  <2>1. u \in Users /\ UNCHANGED <<account, confirmed, overtaken>>
    BY <1>0, <1>4 DEF RegenerateCodes
  <2>2. \A d \in CodeSets : codes'[d].state = "unused" =>
           \/ codes'[d].owner = u /\ codes'[d].forSecret = account[u].secret
           \/ codes'[d] = codes[d] /\ codes[d].owner # u
    BY <1>4, <2>1, ReissueLeaves DEF RegenerateCodes
  <2>3. u \notin overtaken /\ account[u].mfa => account[u].secret \in confirmed
    BY <2>1 DEF EnrolmentOK, ConfirmedSecret
  <2> HIDE DEF u
  <2> QED
    BY <2>1, <2>2, <2>3, EnrolmentChanged
<1>5. CASE MfaDisable(r) \/ ResetMfa(r)
  <2> DEFINE x == [w EXCEPT !.mfa = FALSE, !.secret = NoSecret]
  <2>1. /\ txn[r] # NoTxn /\ u \in Users /\ x \in Account /\ x.mfa = FALSE
        /\ Enrol(r, x) /\ confirmed' = confirmed
    BY <1>0, <1>5 DEF MfaDisable, ResetMfa, Account
  <2> HIDE DEF x
  <2>2. /\ \A v \in Users : v # u => account'[v] = account[v]
        /\ overtaken \subseteq overtaken'
        /\ u \notin overtaken' => account'[u].mfa = FALSE
    BY <2>1, EnrolLeaves
  <2>3. \A c \in CodeSets : codes'[c].state = "unused" => codes'[c] = codes[c]
    <3>1. \A c \in CodeSets : [codes[c] EXCEPT !.state = "withdrawn"].state = "withdrawn"
      BY Typed DEF CodeSet
    <3> QED
      BY <1>5, <3>1 DEF MfaDisable, ResetMfa, Withdrawn
  <2> HIDE DEF u
  <2> QED
    BY <2>1, <2>2, <2>3, EnrolmentChanged
<1>6. ASSUME NEW b \in BOOLEAN, SetActive(r, b)
      PROVE  EnrolmentOK'
  <2> DEFINE x == [w EXCEPT !.active = b]
  <2>1. txn[r] # NoTxn /\ x \in Account /\ x.mfa = w.mfa /\ x.secret = w.secret /\ u \in Users
    BY <1>0, <1>6 DEF SetActive, Account
  <2>2. Save(r, x) /\ UNCHANGED <<codes, confirmed, overtaken>>
    BY <1>6 DEF SetActive
  <2> HIDE DEF x
  <2>3. /\ \A v \in Users : v # u => account'[v] = account[v]
        /\ account'[u] = Merge(account[u], w, x)
    BY <2>1, <2>2, SaveTyped
  <2>4. \A v \in Users : account'[v].mfa = account[v].mfa /\ account'[v].secret = account[v].secret
    BY <2>1, <2>3 DEF Merge, Column
  <2> QED
    BY <2>2, <2>4, EnrolmentKept
<1> QED
  BY <1>1, <1>2, <1>3, <1>4, <1>5, <1>6 DEF Administer

LEMMA StepEnrolment ==
    ASSUME TypeOK, EnrolmentOK, [Next]_vars
    PROVE  EnrolmentOK'
<1>1. ASSUME NEW r \in Requests, Serve(r)
      PROVE  EnrolmentOK'
  BY <1>1, ServeEffect, EnrolmentKept
<1>2. CASE UNCHANGED accountVars
  BY <1>2, EnrolmentKept DEF accountVars
<1> QED
  BY <1>1, <1>2, AdministerEnrolment, OtherSteps

---------------------------------------------------------------------------
(* Recovery codes.                                                         *)

\* A code on offer has bought nothing yet, and one that is not issued yet has
\* not been selected.
CodesOK ==
    /\ CodeBuysFewSessions
    /\ \A c \in CodeSets : /\ IsFiniteSet(bought[c])
                           /\ codes[c].state \in {"free", "unused"} => bought[c] = {}
    /\ \A r \in Requests : txn[r] # NoTxn /\ txn[r].code # NoCode =>
                              codes[txn[r].code].state # "free"

\* A sign-in leaves the ones that can still spend a code, or spends it.
LEMMA Budget ==
    ASSUME NEW B, NEW C, NEW S \in SUBSET Requests, NEW T \in SUBSET Requests,
           IsFiniteSet(B), Cardinality(B) + Cardinality(S) <= Cardinality(Requests),
           \/ C = B /\ T \subseteq S
           \/ C = {}
           \/ \E t, r : C = B \cup {t} /\ r \in S /\ T \subseteq S \ {r}
    PROVE  IsFiniteSet(C) /\ Cardinality(C) + Cardinality(T) <= Cardinality(Requests)
<1>1. IsFiniteSet(S) /\ IsFiniteSet(T) /\ Cardinality(T) <= Cardinality(Requests)
  BY RequestsAreFinite, FS_Subset
<1>2. PICK b, s, d, n : /\ b = Cardinality(B) /\ s = Cardinality(S)
                        /\ d = Cardinality(T) /\ n = Cardinality(Requests)
  OBVIOUS
<1>3. b \in Nat /\ s \in Nat /\ d \in Nat /\ n \in Nat /\ d <= n /\ b + s <= n
  BY <1>1, <1>2, RequestsAreFinite, FS_CardinalityType
<1>4. CASE C = B /\ T \subseteq S
  <2>1. d <= s
    BY <1>1, <1>2, <1>4, FS_Subset
  <2>2. b + d <= n
    BY <1>3, <2>1
  <2> QED
    BY <1>2, <1>4, <2>2
<1>5. CASE C = {}
  <2>1. IsFiniteSet(C) /\ Cardinality(C) = 0
    BY <1>5, FS_EmptySet
  <2>2. 0 + d <= n
    BY <1>3
  <2> QED
    BY <1>2, <2>1, <2>2
<1>6. ASSUME NEW t, NEW r, C = B \cup {t}, r \in S, T \subseteq S \ {r}
      PROVE  IsFiniteSet(C) /\ Cardinality(C) + Cardinality(T) <= Cardinality(Requests)
  <2>1. PICK c : c = Cardinality(C)
    OBVIOUS
  <2>2. IsFiniteSet(C) /\ (c = b \/ c = b + 1)
    BY <1>2, <1>6, <2>1, FS_AddElement
  <2>3. PICK R, e : R = S \ {r} /\ e = Cardinality(R)
    OBVIOUS
  <2>4. IsFiniteSet(R) /\ e = s - 1
    BY <1>1, <1>2, <1>6, <2>3, FS_RemoveElement
  <2>5. T \in SUBSET R
    BY <1>6, <2>3
  <2>6. Cardinality(T) <= Cardinality(R)
    BY <2>4, <2>5, FS_Subset
  <2>7. d <= e
    BY <1>2, <2>3, <2>6
  <2>8. c + d <= n
    BY <1>3, <2>2, <2>4, <2>7
  <2> QED
    BY <1>2, <2>1, <2>2, <2>8
<1> QED
  BY <1>4, <1>5, <1>6

LEMMA CodesKept ==
    ASSUME CodesOK, UNCHANGED bought,
           \A c \in CodeSets :
              /\ codes'[c].state \in {"free", "unused"} => bought[c] = {}
              /\ codes[c].state # "free" => codes'[c].state # "free"
              /\ codes[c].state = "withdrawn" => codes'[c].state = "withdrawn",
           \A r \in Requests : txn'[r] # NoTxn =>
              \/ txn'[r].code = NoCode
              \/ /\ txn[r] # NoTxn /\ txn'[r].code = txn[r].code /\ txn[r].code \in CodeSets
    PROVE  CodesOK'
<1>1. ASSUME NEW r \in Requests, txn'[r] # NoTxn, txn'[r].code # NoCode
      PROVE  codes'[txn'[r].code].state # "free"
  BY <1>1 DEF CodesOK
<1>2. ASSUME NEW c \in CodeSets
      PROVE  /\ IsFiniteSet(bought[c])
             /\ Cardinality(bought[c]) + Cardinality(Spending(c)') <= Cardinality(Requests)
  <2>1. Spending(c)' \subseteq Spending(c) /\ Spending(c) \in SUBSET Requests
    BY <1>2, SentinelsApart DEF Spending
  <2>2. IsFiniteSet(bought[c])
        /\ Cardinality(bought[c]) + Cardinality(Spending(c)) <= Cardinality(Requests)
    BY DEF CodesOK, CodeBuysFewSessions
  <2> DEFINE S == Spending(c)
             T == Spending(c)'
  <2>3. S \in SUBSET Requests /\ T \in SUBSET Requests /\ T \subseteq S
    BY <2>1
  <2> HIDE DEF S, T
  <2> QED
    BY <2>2, <2>3, Budget DEF S, T
<1> QED
  BY <1>1, <1>2 DEF CodesOK, CodeBuysFewSessions

LEMMA AdministerCodes ==
    ASSUME TypeOK, CodesOK, NEW r \in Requests, Administer(r)
    PROVE  CodesOK'
<1> DEFINE Safe == \A c \in CodeSets :
                      /\ codes'[c].state \in {"free", "unused"} => bought[c] = {}
                      /\ codes[c].state # "free" => codes'[c].state # "free"
                      /\ codes[c].state = "withdrawn" => codes'[c].state = "withdrawn"
           Kept == Safe /\ (txn'[r] # NoTxn => txn'[r].code = NoCode)
\* A withdrawal, with or without a fresh set.
<1>1. ASSUME NEW v, codes' = Withdrawn(v) \/ \E c \in CodeSets, s \in Secrets \cup {NoSecret} :
                                               codes[c].state = "free" /\ codes' = Reissued(v, c, s)
      PROVE  Safe
  <2>1. \A c \in CodeSets : [codes[c] EXCEPT !.state = "withdrawn"].state = "withdrawn"
    BY Typed DEF CodeSet
  <2>2. \A c \in CodeSets : Withdrawn(v)[c] = codes[c] \/ Withdrawn(v)[c].state = "withdrawn"
    BY <2>1 DEF Withdrawn
  <2>3. CASE codes' = Withdrawn(v)
    BY <2>2, <2>3 DEF CodesOK
  <2>4. ASSUME NEW c \in CodeSets, NEW s, codes[c].state = "free", codes' = Reissued(v, c, s)
        PROVE  /\ codes'[c].state = "unused" /\ bought[c] = {}
               /\ \A d \in CodeSets : d # c => codes'[d] = codes[d] \/ codes'[d].state = "withdrawn"
    <3>1. codes'[c] = [state |-> "unused", owner |-> v, forSecret |-> s]
          /\ \A d \in CodeSets : d # c => codes'[d] = Withdrawn(v)[d]
      BY <2>4 DEF Reissued, Withdrawn
    <3> QED
      BY <2>2, <2>4, <3>1 DEF CodesOK
  <2> QED
    BY <1>1, <2>3, <2>4 DEF CodesOK
<1>2. codes' = codes => Safe
  BY DEF CodesOK
<1> HIDE DEF Safe
<1>3. ASSUME NEW v \in Users, LoadAccount(r, v)
      PROVE  Kept
  <2>1. txn'[r] = [user |-> v, row |-> account[v], code |-> NoCode]
    BY <1>3, ReadTyped DEF LoadAccount
  <2>2. txn'[r].code = NoCode
    BY <2>1
  <2> QED
    BY <1>2, <1>3, <2>2 DEF LoadAccount
<1>4. ASSUME NEW s \in Secrets, MfaSetup(r, s)
      PROVE  Kept
  BY <1>2, <1>4 DEF MfaSetup, Enrol, Save, TypeOK, AccountsTypeOK
<1>5. ASSUME NEW c \in CodeSets, MfaEnable(r, c)
      PROVE  Kept
  <2>1. txn[r].row.secret \in Secrets \cup {NoSecret} /\ txn'[r] = NoTxn
    BY <1>5, Typed DEF MfaEnable, Enrol, Save, TypeOK, AccountsTypeOK
  <2> QED
    BY <1>1, <1>5, <2>1 DEF MfaEnable
<1>6. ASSUME NEW c \in CodeSets, RegenerateCodes(r, c)
      PROVE  Kept
  <2>1. account[txn[r].user].secret \in Secrets \cup {NoSecret} /\ txn'[r] = NoTxn
    BY <1>6, Typed DEF RegenerateCodes, TypeOK, AccountsTypeOK
  <2> QED
    BY <1>1, <1>6, <2>1 DEF RegenerateCodes
<1>7. ASSUME MfaDisable(r)
      PROVE  Kept
  BY <1>1, <1>7 DEF MfaDisable, Enrol, Save, TypeOK, AccountsTypeOK
<1>8. ASSUME ResetMfa(r)
      PROVE  Kept
  BY <1>2, <1>8 DEF ResetMfa, Enrol, Save, TypeOK, AccountsTypeOK
<1>9. ASSUME NEW b \in BOOLEAN, SetActive(r, b)
      PROVE  Kept
  BY <1>2, <1>9 DEF SetActive, Save, TypeOK, AccountsTypeOK
<1>10. ASSUME Rollback(r)
       PROVE  Kept
  BY <1>2, <1>10 DEF Rollback, TypeOK, AccountsTypeOK
<1>11. Kept
  BY <1>3, <1>4, <1>5, <1>6, <1>7, <1>8, <1>9, <1>10 DEF Administer
<1>12. bought' = bought /\ \A q \in Requests : q # r => txn'[q] = txn[q]
  BY AdministerTyped
<1> QED
  BY <1>11, <1>12, Typed, CodesKept DEF Safe

LEMMA ServeCodes ==
    ASSUME TypeOK, CodesOK, NEW r \in Requests, Serve(r)
    PROVE  CodesOK'
<1>0. /\ txn \in [Requests -> Txn \cup {NoTxn}] /\ codes \in [CodeSets -> CodeSet]
      /\ bought \in [CodeSets -> SUBSET Tokens]
  BY DEF TypeOK, AccountsTypeOK
<1>1. CASE \/ ServeLogin(r) \/ ServeRefresh(r) \/ Refuse(r) \/ Logout(r)
           \/ \E t \in Tokens : Login(r, t) \/ Refresh(r, t)
  <2>1. UNCHANGED <<codes, bought>>
    BY <1>1 DEF ServeLogin, LoadAccount, ServeRefresh, Refuse, Rollback, Logout, Login, Refresh,
       accountVars
  <2>2. /\ \A q \in Requests : q # r => txn'[q] = txn[q]
        /\ txn'[r] # NoTxn => txn'[r].code = NoCode \/ txn'[r] = txn[r]
    <3>1. CASE ServeLogin(r) \/ ServeRefresh(r)
      <4>1. \E x \in {call[r].user, tokens[call[r].token].owner} : Read(r, x)
        BY <3>1 DEF ServeLogin, LoadAccount, ServeRefresh
      <4> QED
        BY <1>0, <4>1 DEF Read
    <3>2. CASE Refuse(r) \/ Logout(r)
      BY <1>0, <3>2 DEF Refuse, Rollback, Logout, accountVars
    <3>3. CASE \E t \in Tokens : Login(r, t) \/ Refresh(r, t)
      BY <1>0, <3>3 DEF Login, Issue, Refresh
    <3> QED
      BY <1>1, <3>1, <3>2, <3>3
  <2> QED
    BY <2>1, <2>2, Typed, CodesKept DEF CodesOK
<1>2. ASSUME NEW c \in CodeSets, SelectCode(r, c)
      PROVE  CodesOK'
  <2>1. /\ codes[c].state = "unused" /\ UNCHANGED <<codes, bought>>
        /\ txn'[r].code = c /\ \A q \in Requests : q # r => txn'[q] = txn[q]
    BY <1>0, <1>2 DEF SelectCode, Txn
  <2>2. bought[c] = {}
    BY <2>1 DEF CodesOK
  <2>3. ASSUME NEW q \in Requests, txn'[q] # NoTxn, txn'[q].code # NoCode
        PROVE  codes[txn'[q].code].state # "free"
    BY <2>1, <2>3 DEF CodesOK
  <2>4. ASSUME NEW d \in CodeSets
        PROVE  Cardinality(bought[d]) + Cardinality(Spending(d)') <= Cardinality(Requests)
    <3> DEFINE S == Spending(d)
               T == Spending(d)'
    <3>1. /\ S \in SUBSET Requests /\ T \in SUBSET Requests
          /\ IsFiniteSet(bought[d])
          /\ Cardinality(bought[d]) + Cardinality(S) <= Cardinality(Requests)
      BY DEF Spending, CodesOK, CodeBuysFewSessions
    <3>2. T \subseteq S \/ bought[d] = {}
      BY <2>1, <2>2 DEF Spending
    <3> HIDE DEF S, T
    <3> QED
      BY <3>1, <3>2, Budget DEF T
  <2> QED
    BY <2>1, <2>3, <2>4 DEF CodesOK, CodeBuysFewSessions
<1>3. ASSUME NEW t \in Tokens, LoginByCode(r, t)
      PROVE  CodesOK'
  <2> DEFINE c == txn[r].code
  <2>1. /\ txn[r] # NoTxn /\ c # NoCode /\ c \in CodeSets
        /\ codes[c].state # "withdrawn"
    BY <1>3, Typed DEF LoginByCode
  <2>2. /\ txn'[r] = NoTxn /\ \A q \in Requests : q # r => txn'[q] = txn[q]
        /\ bought' = [bought EXCEPT ![c] = @ \cup {t}]
        /\ codes' = [codes EXCEPT ![c] = [codes[c] EXCEPT !.state = "used"]]
    BY <1>0, <1>3 DEF LoginByCode, Issue
  <2>3. [codes[c] EXCEPT !.state = "used"].state = "used"
    BY <1>0, <2>1 DEF CodeSet
  <2>4. r \in Spending(c)
    BY <2>1 DEF Spending
  <2> HIDE DEF c
  <2>5. /\ bought'[c] = bought[c] \cup {t} /\ codes'[c].state = "used"
        /\ \A d \in CodeSets : d # c => bought'[d] = bought[d] /\ codes'[d] = codes[d]
    BY <1>0, <2>1, <2>2, <2>3
  <2>6. ASSUME NEW d \in CodeSets
        PROVE  /\ IsFiniteSet(bought'[d])
               /\ Cardinality(bought'[d]) + Cardinality(Spending(d)') <= Cardinality(Requests)
    <3> DEFINE S == Spending(d)
               T == Spending(d)'
               B == bought'[d]
    <3>1. /\ S \in SUBSET Requests /\ T \in SUBSET Requests
          /\ IsFiniteSet(bought[d])
          /\ Cardinality(bought[d]) + Cardinality(S) <= Cardinality(Requests)
      BY DEF Spending, CodesOK, CodeBuysFewSessions
    <3>2. T \subseteq S \ {r}
      <4>1. T \subseteq S
        BY <2>1, <2>2, <2>5 DEF Spending
      <4>2. r \notin T
        BY <2>2 DEF Spending
      <4> QED
        BY <4>1, <4>2
    <3>3. (B = bought[d] /\ T \subseteq S) \/ (B = bought[d] \cup {t} /\ r \in S)
      BY <2>4, <2>5, <3>2
    <3> HIDE DEF S, T, B
    <3> QED
      BY <3>1, <3>2, <3>3, Budget DEF T, B
  <2>7. ASSUME NEW q \in Requests, txn'[q] # NoTxn, txn'[q].code # NoCode
        PROVE  codes'[txn'[q].code].state # "free"
    <3>1. q # r /\ txn[q] # NoTxn /\ txn'[q] = txn[q] /\ txn[q].code \in CodeSets
      BY <2>2, <2>7, Typed
    <3>2. codes[txn[q].code].state # "free"
      BY <2>7, <3>1 DEF CodesOK
    <3> QED
      BY <2>5, <3>1, <3>2
  <2>8. \A d \in CodeSets : codes'[d].state \in {"free", "unused"} => bought'[d] = {}
    BY <2>5 DEF CodesOK
  <2> QED
    BY <2>6, <2>7, <2>8 DEF CodesOK, CodeBuysFewSessions
<1> QED
  BY <1>1, <1>2, <1>3 DEF Serve

LEMMA StepCodes ==
    ASSUME TypeOK, CodesOK, [Next]_vars
    PROVE  CodesOK'
<1>1. CASE UNCHANGED <<accountVars, bought>>
  BY <1>1, Typed, CodesKept DEF accountVars, CodesOK
<1> QED
  BY <1>1, AdministerCodes, ServeCodes, OtherSteps

LEMMA InitCodes ==
    ASSUME Init PROVE CodesOK
<1>1. /\ \A c \in CodeSets : bought[c] = {}
      /\ \A r \in Requests : txn[r] = NoTxn
  BY DEF Init, AccountsInit
<1>2. \A c \in CodeSets : Spending(c) = {}
  BY <1>1 DEF Spending
<1>3. IsFiniteSet({}) /\ Cardinality({}) = 0 /\ Cardinality(Requests) \in Nat
  BY RequestsAreFinite, FS_EmptySet, FS_CardinalityType
<1>4. 0 + 0 <= Cardinality(Requests)
  BY <1>3
<1> QED
  BY <1>1, <1>2, <1>3, <1>4 DEF CodesOK, CodeBuysFewSessions

\* A second factor in force has a secret its owner has confirmed, with any
\* number of requests at once on one account, unless one of them wrote over an
\* enrolment it had not seen (routes/auth.py, mfa_setup and mfa_enable).
THEOREM EnrolmentIsConfirmed == Spec => []ConfirmedSecret
<1>1. Init => IInv /\ EnrolmentOK
  BY InitInvariant, InitEnrolment
<1>2. IInv /\ EnrolmentOK /\ [Next]_vars => IInv' /\ EnrolmentOK'
  BY StepInvariant, StepEnrolment DEF IInv
<1>3. EnrolmentOK => ConfirmedSecret
  BY DEF EnrolmentOK
<1> QED
  BY <1>1, <1>2, <1>3, PTL DEF Spec

\* ... and the recovery codes that still work are of that enrolment, whatever a
\* reset has left behind (routes/users.py, reset_user_mfa).
THEOREM CodesFollowEnrolment == Spec => []CodesOfEnrolment
<1>1. Init => IInv /\ EnrolmentOK
  BY InitInvariant, InitEnrolment
<1>2. IInv /\ EnrolmentOK /\ [Next]_vars => IInv' /\ EnrolmentOK'
  BY StepInvariant, StepEnrolment DEF IInv
<1>3. EnrolmentOK => CodesOfEnrolment
  BY DEF EnrolmentOK
<1> QED
  BY <1>1, <1>2, <1>3, PTL DEF Spec

\* A recovery code buys no more sessions than there are requests in flight,
\* however its selections and its withdrawal overlap
\* (services/auth_service.py, _consume_backup_code).
THEOREM CodeIsSpentByFew == Spec => []CodeBuysFewSessions
<1>1. Init => IInv /\ CodesOK
  BY InitInvariant, InitCodes
<1>2. IInv /\ CodesOK /\ [Next]_vars => IInv' /\ CodesOK'
  BY StepInvariant, StepCodes DEF IInv
<1>3. CodesOK => CodeBuysFewSessions
  BY DEF CodesOK
<1> QED
  BY <1>1, <1>2, <1>3, PTL DEF Spec

=============================================================================
