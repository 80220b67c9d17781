------------------------------ MODULE Sessions ------------------------------
(***************************************************************************)
(* Accounts and their sessions: AuthService, and the deletion of an        *)
(* account by UsersService, over users, user_roles, refresh_tokens and     *)
(* verification_tokens.  Each await that reads or writes a table is a      *)
(* step; requests interleave between them, and stop at any of them.        *)
(*                                                                         *)
(* A transaction here is one step: closing every session may run beside    *)
(* the insertion of another, which it then does not see, and the outcome   *)
(* is that of the insertion coming second.                                 *)
(*                                                                         *)
(* Hashes, cookies, e-mails and the attribution of a registration are left *)
(* out.  A password is the number of times it has been changed; whoever    *)
(* presents a wrong one is refused before anything is written.  Nothing in *)
(* the API sets the status BLOCKED, and nothing reads replacedBy.          *)
(***************************************************************************)
EXTENDS Integers, FiniteSets

CONSTANTS
    User,           \* e-mail addresses, normalised
    Token,          \* bound: ids that may be drawn for refresh_tokens
    Link,           \* bound: ids that may be drawn for verification_tokens
    Request,        \* HTTP requests served at the same time
    MaxChanges,     \* bound: changes of one password
    MaxExpired      \* bound: tokens and links that expire

ASSUME BoundsAssumption == MaxChanges \in Nat /\ MaxExpired \in Nat

VARIABLES
    account,        \* users with user_roles and wallets, by e-mail
    token,          \* refresh_tokens
    revoked,        \* those with a revokedAt
    expired,        \* tokens and links past their expiresAt
    link,           \* verification_tokens
    used,           \* those with a usedAt
    req,            \* what each request is doing
    left,           \* history: sessions that have been closed
    respent,        \* history: links spent by a request that came after their use
    partial         \* history: accounts whose registration stopped half-way

accountVars == <<account, partial>>
tokenVars == <<token, revoked, left>>
linkVars == <<link, used, respent>>
vars == <<accountVars, tokenVars, linkVars, expired, req>>

-----------------------------------------------------------------------------
NoAccount == [status |-> "absent"]

Accounts == {NoAccount} \cup
    [status : {"ACTIVE", "DELETED"}, password : 0..MaxChanges, verified : BOOLEAN,
     role : BOOLEAN, wallet : BOOLEAN]

NoToken == [user |-> {}]

\* The rest of a row is history. password: what the session was opened with;
\* session: its first token; overtaken: see Request.
Tokens == {NoToken} \cup
    [user : {{u} : u \in User}, password : 0..MaxChanges, session : Token,
     overtaken : BOOLEAN]

NoLink == [user |-> {}]

Links == {NoLink} \cup
    [user : {{u} : u \in User}, purpose : {"EMAIL_VERIFICATION", "PASSWORD_RESET"}]

NoRequest == [pc |-> "idle"]

\* password: the one that was read or is to be set. of: the token or the link it
\* presents. overtaken: history, another request has since closed the sessions
\* this one goes by, or spent its token or its link.
Requests == {NoRequest} \cup
    [pc : {"create", "role", "wallet", "issue", "send", "forgot", "family", "user",
           "rotate", "verify", "owner", "reset", "check", "change", "delete"},
     first : BOOLEAN, user : User, password : 0..MaxChanges, of : SUBSET (Token \cup Link),
     overtaken : BOOLEAN]

Issued == {t \in Token : token[t] # NoToken}
Live == Issued \ revoked
Of(u) == {t \in Issued : token[t].user = {u}}
Sent == {l \in Link : link[l] # NoLink}

Active(u) == account[u].status = "ACTIVE"

Init ==
    /\ account = [u \in User |-> NoAccount]
    /\ token = [t \in Token |-> NoToken]
    /\ link = [l \in Link |-> NoLink]
    /\ revoked = {} /\ expired = {} /\ used = {}
    /\ req = [q \in Request |-> NoRequest]
    /\ left = {} /\ respent = {} /\ partial = {}

-----------------------------------------------------------------------------
\* Requests

At(q, pc) == req[q].pc = pc
Idle(q) == req[q] = NoRequest

Begin(q, pc, u, p, of) ==
    req' = [req EXCEPT ![q] = [pc |-> pc, first |-> FALSE, user |-> u, password |-> p,
                               of |-> of, overtaken |-> FALSE]]

Step(q, pc) == req' = [req EXCEPT ![q].pc = pc]

End(q) == req' = [req EXCEPT ![q] = NoRequest]

\* q ends, and overtakes the requests that are in some(r).
EndOvertaking(q, some(_)) ==
    req' = [r \in Request |->
              IF r = q \/ req[r] = NoRequest THEN (IF r = q THEN NoRequest ELSE req[r])
              ELSE [req[r] EXCEPT !.overtaken = @ \/ some(r)]]

\* The process stops, the database fails, or the caller is refused.
Stop(q) ==
    /\ ~Idle(q)
    /\ partial' = IF req[q].pc \in {"role", "wallet"} THEN partial \cup {req[q].user} ELSE partial
    /\ End(q)
    /\ UNCHANGED <<account, tokenVars, linkVars, expired>>

-----------------------------------------------------------------------------
\* Tokens

\* A token that opens a session.
Open(t, u, p, overtaken) ==
    token' = [token EXCEPT ![t] = [user |-> {u}, password |-> p, session |-> t,
                                   overtaken |-> overtaken]]

\* Revokes all the tokens of u; the requests of u go by what is no longer so.
CloseAll(q, u) ==
    /\ revoked' = revoked \cup Of(u)
    /\ left' = left \cup {token[t].session : t \in Of(u)}
    /\ EndOvertaking(q, LAMBDA r : req[r].user = u)
    /\ UNCHANGED token

IssueTokens(q) ==
    /\ At(q, "issue")
    /\ \E t \in Token \ Issued : Open(t, req[q].user, req[q].password, req[q].overtaken)
    /\ IF req[q].first /\ ~account[req[q].user].verified THEN Step(q, "send") ELSE End(q)
    /\ UNCHANGED <<accountVars, revoked, left, linkVars, expired>>

-----------------------------------------------------------------------------
\* register

BeginRegister(q, u) ==
    /\ Idle(q) /\ account[u] = NoAccount
    /\ Begin(q, "create", u, 0, {})
    /\ UNCHANGED <<accountVars, tokenVars, linkVars, expired>>

\* The e-mail is unique: of two registrations the second fails.
CreateUser(q) ==
    /\ At(q, "create")
    /\ IF account[req[q].user] = NoAccount
       THEN /\ account' = [account EXCEPT ![req[q].user] =
                             [status |-> "ACTIVE", password |-> 0, verified |-> FALSE,
                              role |-> FALSE, wallet |-> FALSE]]
            /\ Step(q, "role")
       ELSE /\ UNCHANGED account
            /\ End(q)
    /\ UNCHANGED <<partial, tokenVars, linkVars, expired>>

\* Mutant: the wallet is forgotten.
AssignRoleOnly(q) ==
    /\ At(q, "role")
    /\ account' = [account EXCEPT ![req[q].user].role = TRUE]
    /\ req' = [req EXCEPT ![q].pc = "issue", ![q].first = TRUE]
    /\ UNCHANGED <<partial, tokenVars, linkVars, expired>>

AssignRole(q) ==
    /\ At(q, "role")
    /\ account' = [account EXCEPT ![req[q].user].role = TRUE]
    /\ Step(q, "wallet")
    /\ UNCHANGED <<partial, tokenVars, linkVars, expired>>

GiveWallet(q) ==
    /\ At(q, "wallet")
    /\ account' = [account EXCEPT ![req[q].user].wallet = TRUE]
    /\ req' = [req EXCEPT ![q].pc = "issue", ![q].first = TRUE]
    /\ UNCHANGED <<partial, tokenVars, linkVars, expired>>

SendLink(q, purpose) ==
    /\ \E l \in Link \ Sent :
         link' = [link EXCEPT ![l] = [user |-> {req[q].user}, purpose |-> purpose]]
    /\ End(q)
    /\ UNCHANGED <<accountVars, tokenVars, used, respent, expired>>

SendVerificationEmail(q) == At(q, "send") /\ SendLink(q, "EMAIL_VERIFICATION")

-----------------------------------------------------------------------------
\* login, refresh, logout

\* The password is verified against the row that was read.
Login(q, u) ==
    /\ Idle(q) /\ Active(u)
    /\ Begin(q, "issue", u, account[u].password, {})
    /\ UNCHANGED <<accountVars, tokenVars, linkVars, expired>>

Refresh(q, t) ==
    /\ Idle(q) /\ t \in Issued \ expired
    /\ \E u \in token[t].user :
         Begin(q, IF t \in revoked THEN "family" ELSE "user", u, token[t].password, {t})
    /\ UNCHANGED <<accountVars, tokenVars, linkVars, expired>>

\* A token that was already rotated or revoked has come back.
RevokeFamily(q) ==
    /\ At(q, "family")
    /\ CloseAll(q, req[q].user)
    /\ UNCHANGED <<accountVars, linkVars, expired>>

ReadOwner(q) ==
    /\ At(q, "user")
    /\ IF Active(req[q].user) THEN Step(q, "rotate") ELSE End(q)
    /\ UNCHANGED <<accountVars, tokenVars, linkVars, expired>>

\* Mutant: the old token is not revoked.
AddToken(q) ==
    /\ At(q, "rotate")
    /\ \E old \in req[q].of, t \in Token \ Issued :
         token' = [token EXCEPT ![t] =
                     [token[old] EXCEPT !.overtaken = @ \/ req[q].overtaken]]
    /\ EndOvertaking(q, LAMBDA r : req[r].of = req[q].of)
    /\ UNCHANGED <<accountVars, revoked, left, linkVars, expired>>

\* The old token is updated by its id, whatever has happened to it.
RotateTokens(q) ==
    /\ At(q, "rotate")
    /\ \E old \in req[q].of, t \in Token \ Issued :
         token' = [token EXCEPT ![t] =
                     [token[old] EXCEPT !.overtaken = @ \/ req[q].overtaken]]
    /\ revoked' = revoked \cup req[q].of
    /\ EndOvertaking(q, LAMBDA r : req[r].of = req[q].of)
    /\ UNCHANGED <<accountVars, left, linkVars, expired>>

\* Only a token that is not revoked matches. What it leaves is its session; a
\* token that was overtaken leaves its own branch of one.
Logout(q, t) ==
    /\ Idle(q) /\ t \in Issued
    /\ revoked' = revoked \cup {t}
    /\ left' = left \cup {token[s].session : s \in {x \in {t} \ revoked : ~token[x].overtaken}}
    /\ EndOvertaking(q, LAMBDA r : req[r].of = {t} /\ t \notin revoked)
    /\ UNCHANGED <<accountVars, token, linkVars, expired>>

-----------------------------------------------------------------------------
\* verifyEmail, forgotPassword, resetPassword

\* Mutant: usedAt is not looked at.
ValidUsedOrNot(l, purpose) ==
    l \in Sent \ expired /\ link[l].purpose = purpose

Valid(l, purpose) ==
    l \in Sent \ (used \cup expired) /\ link[l].purpose = purpose

\* The links a request spends, and those spent a second time by a request that
\* could have seen it.
Spend(q) ==
    /\ used' = used \cup req[q].of
    /\ respent' = respent \cup IF req[q].overtaken THEN {} ELSE req[q].of \cap used
    /\ UNCHANGED link

BeginVerify(q, l) ==
    /\ Idle(q) /\ Valid(l, "EMAIL_VERIFICATION")
    /\ \E u \in link[l].user : Begin(q, "verify", u, 0, {l})
    /\ UNCHANGED <<accountVars, tokenVars, linkVars, expired>>

VerifyEmail(q) ==
    /\ At(q, "verify")
    /\ Spend(q)
    /\ account' = [account EXCEPT ![req[q].user].verified = TRUE]
    /\ EndOvertaking(q, LAMBDA r : req[r].of = req[q].of)
    /\ UNCHANGED <<partial, tokenVars, expired>>

BeginForgot(q, u) ==
    /\ Idle(q) /\ Active(u)
    /\ Begin(q, "forgot", u, 0, {})
    /\ UNCHANGED <<accountVars, tokenVars, linkVars, expired>>

ForgotPassword(q) == At(q, "forgot") /\ SendLink(q, "PASSWORD_RESET")

\* Bound on the changes of a password: those made and those under way.
MayChange(u) ==
    LET changing == {r \in Request : req[r].pc \in {"owner", "reset", "check", "change"}}
    IN account[u].password + Cardinality(changing) < MaxChanges

BeginReset(q, l) ==
    /\ Idle(q) /\ Valid(l, "PASSWORD_RESET")
    /\ \E u \in link[l].user : MayChange(u) /\ Begin(q, "owner", u, 0, {l})
    /\ UNCHANGED <<accountVars, tokenVars, linkVars, expired>>

ReadResetOwner(q) ==
    /\ At(q, "owner")
    /\ IF Active(req[q].user) THEN Step(q, "reset") ELSE End(q)
    /\ UNCHANGED <<accountVars, tokenVars, linkVars, expired>>

SetPassword(u) == account' = [account EXCEPT ![u].password = @ + 1]

\* Mutant: the sessions go on.
ResetPasswordOnly(q) ==
    /\ At(q, "reset")
    /\ Spend(q)
    /\ SetPassword(req[q].user)
    /\ EndOvertaking(q, LAMBDA r : req[r].of = req[q].of)
    /\ UNCHANGED <<partial, tokenVars, expired>>

ResetPassword(q) ==
    /\ At(q, "reset")
    /\ Spend(q)
    /\ SetPassword(req[q].user)
    /\ CloseAll(q, req[q].user)
    /\ UNCHANGED <<partial, expired>>

-----------------------------------------------------------------------------
\* changePassword, deletion: behind JwtAuthGuard

\* An access token comes with every refresh token and does not depend on it
\* afterwards; the guard reads the user.
Authenticated(u) == Active(u) /\ Of(u) # {}

BeginChange(q, u) ==
    /\ Idle(q) /\ Authenticated(u) /\ MayChange(u)
    /\ Begin(q, "check", u, 0, {})
    /\ UNCHANGED <<accountVars, tokenVars, linkVars, expired>>

\* The present password is verified against the row that is read here.
CheckPassword(q) ==
    /\ At(q, "check")
    /\ Step(q, "change")
    /\ UNCHANGED <<accountVars, tokenVars, linkVars, expired>>

ChangePassword(q) ==
    /\ At(q, "change")
    /\ SetPassword(req[q].user)
    /\ CloseAll(q, req[q].user)
    /\ UNCHANGED <<partial, linkVars, expired>>

BeginDelete(q, u) ==
    /\ Idle(q) /\ Authenticated(u)
    /\ Begin(q, "delete", u, 0, {})
    /\ UNCHANGED <<accountVars, tokenVars, linkVars, expired>>

SoftDeleteAndRevokeSessions(q) ==
    /\ At(q, "delete")
    /\ account' = [account EXCEPT ![req[q].user].status = "DELETED"]
    /\ CloseAll(q, req[q].user)
    /\ UNCHANGED <<partial, linkVars, expired>>

-----------------------------------------------------------------------------
\* Time passes: 30 days, 24 hours or one hour.
Expire(x) ==
    /\ x \in (Issued \cup Sent) \ expired
    /\ Cardinality(expired) < MaxExpired
    /\ expired' = expired \cup {x}
    /\ UNCHANGED <<accountVars, tokenVars, linkVars, req>>

RequestNext(q) ==
    \/ \E u \in User : \/ BeginRegister(q, u) \/ Login(q, u) \/ BeginForgot(q, u)
                       \/ BeginChange(q, u) \/ BeginDelete(q, u)
    \/ \E t \in Token : Refresh(q, t) \/ Logout(q, t)
    \/ \E l \in Link : BeginVerify(q, l) \/ BeginReset(q, l)
    \/ CreateUser(q) \/ AssignRole(q) \/ GiveWallet(q) \/ IssueTokens(q)
    \/ SendVerificationEmail(q) \/ RevokeFamily(q) \/ ReadOwner(q) \/ RotateTokens(q)
    \/ VerifyEmail(q) \/ ForgotPassword(q) \/ ReadResetOwner(q) \/ ResetPassword(q)
    \/ CheckPassword(q) \/ ChangePassword(q) \/ SoftDeleteAndRevokeSessions(q)
    \/ Stop(q)

Next ==
    \/ \E q \in Request : RequestNext(q)
    \/ \E x \in Token \cup Link : Expire(x)

Spec == Init /\ [][Next]_vars

-----------------------------------------------------------------------------
\* Values the tables can hold; what is revoked or used has a row.
TypeOK ==
    /\ account \in [User -> Accounts]
    /\ token \in [Token -> Tokens]
    /\ link \in [Link -> Links]
    /\ revoked \subseteq Issued /\ used \subseteq Sent
    /\ expired \subseteq Issued \cup Sent
    /\ req \in [Request -> Requests]
    /\ left \subseteq Issued /\ respent \subseteq Sent /\ partial \subseteq User

\* A change of password closes all the existing sessions (auth.service.ts:310, 343),
\* and so do a deleted account, a logout and the return of a revoked
\* token: a session that can go on belongs to an ACTIVE account, was opened
\* with its present password and has not been closed, unless the request that
\* continued it ran beside the one that closed it.
SessionsAreCurrent ==
    \A t \in Live : \/ token[t].overtaken
                    \/ \A u \in token[t].user :
                         /\ Active(u)
                         /\ token[t].password = account[u].password
                         /\ token[t].session \notin left

\* refresh rotates: one token carries a session on at a time, unless two
\* requests refreshed the same one at once.
OneTokenASession ==
    \A s, t \in Live : \/ s = t
                       \/ token[s].session # token[t].session
                       \/ token[s].overtaken \/ token[t].overtaken

\* A link of verification or recovery that has been used is refused: nobody
\* who comes after its use can spend it (auth.service.ts:221, 284).
SpentLinksStaySpent == respent = {}

\* register makes the user, the role and the wallet in three commits: an
\* account without one of them is being registered, or its registration
\* stopped half-way.
AccountsAreWhole ==
    \A u \in User : \/ account[u] = NoAccount
                    \/ account[u].role /\ account[u].wallet
                    \/ u \in partial
                    \/ \E q \in Request : /\ req[q].pc \in {"role", "wallet"}
                                          /\ req[q].user = u
=============================================================================
