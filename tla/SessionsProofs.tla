--------------------------- MODULE SessionsProofs ---------------------------
(***************************************************************************)
(* Theorems of Sessions for every set of accounts, tokens, links and       *)
(* requests, and any number of changes of a password.                      *)
(***************************************************************************)
EXTENDS Sessions, TLAPS

\* Rows and requests without the bound on the changes of a password.
UserRow == [status : {"ACTIVE", "DELETED"}, password : Nat, verified : BOOLEAN,
            role : BOOLEAN, wallet : BOOLEAN]

TokenRow == [user : {{u} : u \in User}, password : Nat, session : Token, overtaken : BOOLEAN]

Serving ==
    [pc : {"create", "role", "wallet", "issue", "send", "forgot", "family", "user",
           "rotate", "verify", "owner", "reset", "check", "change", "delete"},
     first : BOOLEAN, user : User, password : Nat, of : SUBSET (Token \cup Link),
     overtaken : BOOLEAN]

\* The part of TypeOK the arguments need.
Typed ==
    /\ account \in [User -> {NoAccount} \cup UserRow]
    /\ token \in [Token -> {NoToken} \cup TokenRow]
    /\ link \in [Link -> Links]
    /\ req \in [Request -> {NoRequest} \cup Serving]
    /\ revoked \subseteq Issued /\ left \subseteq Issued

Known(u) == account[u] \in UserRow

\* Rows refer to rows: a foreign key, and the session of a token.
Rooted ==
    /\ \A t \in Issued : token[t].session \in Issued /\ \A u \in token[t].user : Known(u)
    /\ \A l \in Sent : \A u \in link[l].user : Known(u)
    /\ \A s, t \in Issued :
         token[s].session = token[t].session => token[s].user = token[t].user

\* What a request that was not overtaken still goes by.
Fine(r) ==
    /\ r.pc \notin {"idle", "create"} => Known(r.user)
    /\ r.pc = "create" => r.password = 0
    /\ r.pc \in {"role", "wallet", "issue"} /\ ~r.overtaken =>
         Active(r.user) /\ r.password = account[r.user].password
    /\ r.pc \in {"user", "rotate"} =>
         \E old \in Issued : /\ r.of = {old} /\ token[old].user = {r.user}
                             /\ ~r.overtaken => old \notin revoked

\* The properties are not inductive: a session is opened and continued by requests
\* that read the account or the token some steps before.
IInv ==
    /\ Typed /\ Rooted
    /\ \A q \in Request : Fine(req[q])
    /\ SessionsAreCurrent /\ OneTokenASession

-----------------------------------------------------------------------------
\* A row is told from no row by its user, an account by its status.
LEMMA Rows ==
    ASSUME Typed
    PROVE  /\ \A t \in Token : t \in Issued <=> token[t] \in TokenRow
           /\ \A t \in Issued : \E u \in User : token[t].user = {u}
           /\ \A u \in User : account[u] = NoAccount <=> account[u] \notin UserRow
           /\ \A u \in User : Active(u) => Known(u)
           /\ \A q \in Request : req[q].pc # "idle" => req[q] \in Serving
           /\ \A q \in Request : req[q] = NoRequest <=> req[q].pc = "idle"
           /\ \A l \in Link : \A u \in link[l].user : u \in User /\ l \in Sent
<1>1. \A x \in TokenRow : x # NoToken
  <2> SUFFICES ASSUME NEW x \in TokenRow PROVE x.user # {}
    BY DEF NoToken
  <2> QED
    BY DEF TokenRow
<1>2. \A t \in Token : t \in Issued <=> token[t] \in TokenRow
  BY <1>1 DEF Typed, Issued
<1>3. \A t \in Issued : \E u \in User : token[t].user = {u}
  BY <1>2 DEF TokenRow, Issued
<1>4. \A u \in User : account[u] = NoAccount <=> account[u] \notin UserRow
  BY DEF Typed, NoAccount, UserRow
<1>5. \A u \in User : Active(u) => Known(u)
  BY DEF Typed, NoAccount, Active, Known
<1>6. \A q \in Request : req[q].pc # "idle" => req[q] \in Serving
  BY DEF Typed, NoRequest
<1>7. \A q \in Request : req[q] = NoRequest <=> req[q].pc = "idle"
  BY DEF Typed, NoRequest, Serving
<1>8. \A l \in Link : \A u \in link[l].user : u \in User /\ l \in Sent
  BY DEF Typed, Links, NoLink, Sent
<1> QED
  BY <1>2, <1>3, <1>4, <1>5, <1>6, <1>7, <1>8

\* There are no accounts.
LEMMA InitiallyFine == Init => IInv
<1> SUFFICES ASSUME Init PROVE IInv
  OBVIOUS
<1>1. Issued = {} /\ Sent = {}
  BY DEF Init, Issued, Sent
<1>2. Typed
  BY <1>1 DEF Init, Typed, Links
<1>3. Rooted /\ SessionsAreCurrent /\ OneTokenASession
  BY <1>1 DEF Rooted, SessionsAreCurrent, OneTokenASession, Live
<1>4. \A q \in Request : Fine(req[q])
  BY DEF Init, Fine, NoRequest
<1> QED
  BY <1>2, <1>3, <1>4 DEF IInv

\* A request that reads, begins or ends.
LEMMA GoingOn ==
    ASSUME IInv, NEW q \in Request, NEW r \in {NoRequest} \cup Serving, Fine(r),
           req' = [req EXCEPT ![q] = r],
           UNCHANGED <<account, token, link, revoked, left>>
    PROVE  IInv'
<1>1. UNCHANGED <<Issued, Sent, Live>>
  BY DEF Issued, Sent, Live
<1>2. Typed'
  BY <1>1 DEF IInv, Typed
<1>3. Rooted' /\ SessionsAreCurrent' /\ OneTokenASession'
  BY <1>1 DEF IInv, Rooted, Known, SessionsAreCurrent, OneTokenASession, Active
<1>4. \A x \in {NoRequest} \cup Serving : Fine(x)' <=> Fine(x)
  BY <1>1 DEF Fine, Known, Active
<1>5. \A p \in Request : Fine(req[p])'
  <2> SUFFICES ASSUME NEW p \in Request PROVE Fine(req[p])'
    OBVIOUS
  <2>1. CASE p = q
    BY <1>1, <2>1 DEF IInv, Typed, Fine, Known, Active
  <2>2. CASE p # q
    BY <1>1, <2>2 DEF IInv, Typed, Fine, Known, Active
  <2> QED
    BY <2>1, <2>2
<1> QED
  BY <1>2, <1>3, <1>5 DEF IInv

\* What EndOvertaking comes to: q ends, the requests of S are overtaken.
Overtakes(q, S) ==
    req' = [r \in Request |->
              IF r = q THEN NoRequest
              ELSE IF req[r] = NoRequest \/ r \notin S THEN req[r]
              ELSE [req[r] EXCEPT !.overtaken = TRUE]]

\* The others go on as before, or know less.
LEMMA Others ==
    ASSUME Typed, NEW q \in Request, NEW S \in SUBSET Request, Overtakes(q, S)
    PROVE  /\ req' \in [Request -> {NoRequest} \cup Serving]
           /\ req'[q] = NoRequest
           /\ \A p \in Request : p # q =>
                /\ req'[p].pc = req[p].pc
                /\ req[p].pc # "idle" =>
                     /\ req'[p].user = req[p].user
                     /\ req'[p].password = req[p].password
                     /\ req'[p].of = req[p].of
                     /\ ~req'[p].overtaken => ~req[p].overtaken /\ p \notin S
<1>1. \A r \in Serving : [r EXCEPT !.overtaken = TRUE] \in Serving
  BY DEF Serving
<1>2. \A p \in Request : req[p] \in {NoRequest} \cup Serving
  BY DEF Typed
<1>3. \A p \in Request : req'[p] \in {NoRequest} \cup Serving
  BY <1>1, <1>2 DEF Overtakes
<1>4. req' \in [Request -> {NoRequest} \cup Serving] /\ req'[q] = NoRequest
  BY <1>3 DEF Overtakes
<1>5. ASSUME NEW p \in Request, p # q
      PROVE  /\ req'[p].pc = req[p].pc
             /\ req[p].pc # "idle" =>
                  /\ req'[p].user = req[p].user
                  /\ req'[p].password = req[p].password
                  /\ req'[p].of = req[p].of
                  /\ ~req'[p].overtaken => ~req[p].overtaken /\ p \notin S
  <2>1. CASE req[p] = NoRequest
    BY <1>5, <2>1 DEF Overtakes, NoRequest
  <2>2. CASE req[p] # NoRequest /\ p \notin S
    BY <1>5, <2>2 DEF Overtakes
  <2>3. CASE req[p] # NoRequest /\ p \in S
    <3>1. req[p] \in Serving /\ req'[p] = [req[p] EXCEPT !.overtaken = TRUE]
      BY <1>2, <1>5, <2>3 DEF Overtakes
    <3> QED
      BY <3>1 DEF Serving
  <2> QED
    BY <2>1, <2>2, <2>3
<1> QED
  BY <1>4, <1>5

\* The requests that each action overtakes.
LEMMA Overtaking ==
    ASSUME Typed, NEW q \in Request
    PROVE  /\ VerifyEmail(q) \/ RotateTokens(q) =>
                Overtakes(q, {r \in Request : req[r].of = req[q].of})
           /\ \A t \in Token : Logout(q, t) =>
                Overtakes(q, {r \in Request : req[r].of = {t} /\ t \notin revoked})
           /\ \A u : CloseAll(q, u) => Overtakes(q, {r \in Request : req[r].user = u})
<1>1. ASSUME VerifyEmail(q) \/ RotateTokens(q)
      PROVE  Overtakes(q, {r \in Request : req[r].of = req[q].of})
  <2>1. req' = [r \in Request |->
                 IF r = q \/ req[r] = NoRequest THEN (IF r = q THEN NoRequest ELSE req[r])
                 ELSE [req[r] EXCEPT !.overtaken = @ \/ req[r].of = req[q].of]]
    BY <1>1 DEF VerifyEmail, RotateTokens, EndOvertaking
  <2> QED
    BY <2>1 DEF Overtakes, Typed, Serving
<1>2. ASSUME NEW t \in Token, Logout(q, t)
      PROVE  Overtakes(q, {r \in Request : req[r].of = {t} /\ t \notin revoked})
  <2>1. req' = [r \in Request |->
                 IF r = q \/ req[r] = NoRequest THEN (IF r = q THEN NoRequest ELSE req[r])
                 ELSE [req[r] EXCEPT !.overtaken = @ \/ (req[r].of = {t} /\ t \notin revoked)]]
    BY <1>2 DEF Logout, EndOvertaking
  <2> QED
    BY <2>1 DEF Overtakes, Typed, Serving
<1>3. ASSUME NEW u, CloseAll(q, u)
      PROVE  Overtakes(q, {r \in Request : req[r].user = u})
  <2>1. req' = [r \in Request |->
                 IF r = q \/ req[r] = NoRequest THEN (IF r = q THEN NoRequest ELSE req[r])
                 ELSE [req[r] EXCEPT !.overtaken = @ \/ req[r].user = u]]
    BY <1>3 DEF CloseAll, EndOvertaking
  <2> QED
    BY <2>1 DEF Overtakes, Typed, Serving
<1> QED
  BY <1>1, <1>2, <1>3

\* A row of users is made, or changed in what no session goes by.
LEMMA AccountGoesOn ==
    ASSUME IInv, NEW u \in User, NEW row \in UserRow,
           Active(u) => row.status = "ACTIVE" /\ row.password = account[u].password,
           account' = [account EXCEPT ![u] = row],
           req' \in [Request -> {NoRequest} \cup Serving],
           \A p \in Request : Fine(req[p])' \/ Fine(req'[p]),
           UNCHANGED <<token, link, revoked, left>>
    PROVE  IInv'
<1>1. UNCHANGED <<Issued, Sent, Live>>
  BY DEF Issued, Sent, Live
<1>2. Typed'
  BY <1>1 DEF IInv, Typed
<1>3. \A v \in User : /\ account[v] \in UserRow => account'[v] \in UserRow
                      /\ account[v].status = "ACTIVE" =>
                           /\ account'[v].status = "ACTIVE"
                           /\ account'[v].password = account[v].password
  BY DEF IInv, Typed, Active
<1>4. Rooted'
  <2>1. \A t \in Issued : \A v \in token[t].user : v \in User
    BY Rows DEF IInv
  <2>2. \A l \in Sent : \A v \in link[l].user : v \in User
    BY Rows DEF IInv, Sent
  <2> QED
    BY <1>1, <1>3, <2>1, <2>2 DEF IInv, Rooted, Known
<1>5. SessionsAreCurrent' /\ OneTokenASession'
  <2>1. \A t \in Issued : \A v \in token[t].user : v \in User
    BY Rows DEF IInv
  <2> QED
    BY <1>1, <1>3, <2>1 DEF IInv, SessionsAreCurrent, OneTokenASession, Live, Active
<1>7. \A p \in Request : Fine(req[p])'
  <2> SUFFICES ASSUME NEW p \in Request PROVE Fine(req[p])'
    OBVIOUS
  <2>1. req'[p] \in {NoRequest} \cup Serving
    OBVIOUS
  <2>2. CASE Fine(req'[p])
    BY <1>1, <1>3, <2>1, <2>2 DEF Fine, Serving, NoRequest, Known, Active
  <2> QED
    BY <2>2
<1> QED
  BY <1>2, <1>4, <1>5, <1>7 DEF IInv

\* Closing every session of u, whose row may change with it.
LEMMA Closing ==
    ASSUME IInv, NEW q \in Request, NEW u \in User, NEW row \in UserRow, Known(u),
           account' = [account EXCEPT ![u] = row],
           revoked' = revoked \cup Of(u),
           left' = left \cup {token[t].session : t \in Of(u)},
           Overtakes(q, {r \in Request : req[r].user = u}),
           UNCHANGED token, link' = link
    PROVE  IInv'
<1>1. UNCHANGED <<Issued, Sent>>
  BY DEF Issued, Sent
<1>2. /\ req' \in [Request -> {NoRequest} \cup Serving]
      /\ req'[q] = NoRequest
      /\ \A p \in Request : p # q =>
           /\ req'[p].pc = req[p].pc
           /\ req[p].pc # "idle" =>
                /\ req'[p].user = req[p].user
                /\ req'[p].password = req[p].password
                /\ req'[p].of = req[p].of
                /\ ~req'[p].overtaken => ~req[p].overtaken /\ req[p].user # u
  BY Others DEF IInv
<1>3. Typed'
  <2>1. \A t \in Of(u) : token[t].session \in Issued
    BY DEF IInv, Rooted, Of
  <2> QED
    BY <1>1, <1>2, <2>1 DEF IInv, Typed, Of
<1>4. \A v \in User : /\ account[v] \in UserRow => account'[v] \in UserRow
                      /\ v # u => account'[v] = account[v]
  BY DEF IInv, Typed
<1>5. \A t \in Issued : \E v \in User : token[t].user = {v}
  BY Rows DEF IInv
<1>6. Rooted'
  <2>1. \A l \in Sent : \A v \in link[l].user : v \in User
    BY Rows DEF IInv, Sent
  <2> QED
    BY <1>1, <1>4, <1>5, <2>1 DEF IInv, Rooted, Known
<1>7. \A t \in Live' : t \in Live /\ token[t].user # {u} /\ token[t].session \notin left' \ left
  <2> SUFFICES ASSUME NEW t \in Live'
               PROVE  t \in Live /\ token[t].user # {u} /\ token[t].session \notin left' \ left
    OBVIOUS
  <2>1. t \in Live /\ t \in Issued /\ token[t].user # {u}
    BY <1>1 DEF Live, Of
  <2>2. \A s \in Of(u) : token[s].session # token[t].session
    BY <2>1 DEF IInv, Rooted, Of
  <2> QED
    BY <2>1, <2>2
<1>8. SessionsAreCurrent' /\ OneTokenASession'
  <2>1. OneTokenASession'
    BY <1>7 DEF IInv, OneTokenASession
  <2>2. SessionsAreCurrent'
    <3> SUFFICES ASSUME NEW t \in Live', ~token[t].overtaken, NEW v \in token[t].user
                 PROVE  /\ account'[v].status = "ACTIVE"
                        /\ token[t].password = account'[v].password
                        /\ token[t].session \notin left'
      BY DEF SessionsAreCurrent, Active
    <3>1. t \in Live /\ t \in Issued /\ token[t].user # {u}
      BY <1>7 DEF Live
    <3>2. v \in User /\ v # u
      BY <1>5, <3>1
    <3>3. /\ account[v].status = "ACTIVE" /\ token[t].password = account[v].password
          /\ token[t].session \notin left
      BY <3>1 DEF IInv, SessionsAreCurrent, Active
    <3> QED
      BY <1>4, <1>7, <3>2, <3>3
  <2> QED
    BY <2>1, <2>2
<1>9. ASSUME NEW p \in Request PROVE Fine(req[p])'
  <2>1. CASE req'[p].pc = "idle"
    BY <2>1 DEF Fine
  <2>2. CASE req'[p].pc # "idle"
    <3>1. p # q /\ req[p] \in Serving /\ req'[p].pc = req[p].pc
      BY <1>2, <2>2, Rows DEF IInv, NoRequest
    <3>2. /\ req'[p].user = req[p].user /\ req'[p].password = req[p].password
          /\ req'[p].of = req[p].of /\ req[p].user \in User
          /\ ~req'[p].overtaken => ~req[p].overtaken /\ req[p].user # u
      BY <1>2, <2>2, <3>1 DEF Serving
    <3>3. Fine(req[p])
      BY DEF IInv
    <3>4. \A old \in Issued : token[old].user = {req[p].user} /\ req[p].user # u => old \notin Of(u)
      BY DEF Of
    <3> QED
      BY <1>1, <1>4, <3>1, <3>2, <3>3, <3>4 DEF Fine, Known, Active
  <2> QED
    BY <2>1, <2>2
<1> QED
  BY <1>3, <1>6, <1>8, <1>9 DEF IInv

\* A request that opens a session or continues one, by the token t.
LEMMA Adding ==
    ASSUME IInv, NEW q \in Request, NEW t \in Token \ Issued, NEW row \in TokenRow,
           token' = [token EXCEPT ![t] = row],
           revoked \subseteq revoked', revoked' \subseteq Issued,
           row.session = t \/ (\E old \in Issued : /\ row.session = token[old].session
                                                   /\ row.user = token[old].user),
           \A u \in row.user : Known(u),
           ~row.overtaken =>
             /\ row.session \notin left
             /\ \A u \in row.user : Active(u) /\ row.password = account[u].password
             /\ \A s \in Live \ revoked' :
                  token[s].session = row.session => token[s].overtaken,
           req' \in [Request -> {NoRequest} \cup Serving],
           \A p \in Request : Fine(req'[p]),
           \A p \in Request : /\ req'[p].pc \in {"user", "rotate"} /\ ~req'[p].overtaken
                            => req'[p].of \cap revoked' = {},
           UNCHANGED <<account, link, left>>
    PROVE  IInv'
<1>1. row # NoToken
  <2> SUFFICES row.user # {}
    BY DEF NoToken
  <2> QED
    BY DEF TokenRow
<1>2. /\ Issued' = Issued \cup {t} /\ UNCHANGED Sent
      /\ \A s \in Issued : token'[s] = token[s]
      /\ token'[t] = row
  BY <1>1 DEF IInv, Typed, Issued, Sent
<1>3. Typed'
  BY <1>2 DEF IInv, Typed
<1>4. \A s \in Issued : token[s].session \in Issued
  BY DEF IInv, Rooted
<1>5. Rooted'
  BY <1>2, <1>4 DEF IInv, Rooted, Known
<1>6. t \notin revoked' /\ Live' = (Live \ revoked') \cup {t}
  BY <1>2 DEF Live
<1>7. SessionsAreCurrent'
  BY <1>2, <1>6 DEF IInv, SessionsAreCurrent, Active, Live
<1>8. OneTokenASession'
  BY <1>2, <1>6 DEF IInv, OneTokenASession, Live
<1>9. ASSUME NEW p \in Request PROVE Fine(req[p])'
  <2>1. Fine(req'[p])
    OBVIOUS
  <2> QED
    BY <1>2, <2>1 DEF Fine, Known, Active
<1> QED
  BY <1>3, <1>5, <1>7, <1>8, <1>9 DEF IInv

-----------------------------------------------------------------------------
\* One lemma for the actions that read, those that write an account, a link, a
\* token, and those that close sessions.

\* Requests that begin, that stop, and those that only read.
LEMMA Reading ==
    ASSUME IInv, NEW q \in Request,
           \/ \E u \in User : \/ BeginRegister(q, u) \/ Login(q, u) \/ BeginForgot(q, u)
                              \/ BeginChange(q, u) \/ BeginDelete(q, u)
           \/ \E t \in Token : Refresh(q, t)
           \/ \E l \in Link : BeginVerify(q, l) \/ BeginReset(q, l)
           \/ ReadOwner(q) \/ ReadResetOwner(q) \/ CheckPassword(q) \/ Stop(q)
    PROVE  IInv'
<1> USE DEF accountVars, tokenVars, linkVars
<1>1. Fine(NoRequest)
  BY DEF Fine, NoRequest
<1>2. /\ \A u \in User : Active(u) => Known(u) /\ account[u].password \in Nat
      /\ \A t \in Issued : \A u \in token[t].user : u \in User /\ Known(u)
      /\ \A l \in Sent : \A u \in link[l].user : u \in User /\ Known(u)
      /\ req[q].pc # "idle" => req[q] \in Serving
      /\ Fine(req[q])
  <2>1. \A u \in User : Known(u) => account[u].password \in Nat
    BY DEF Known, UserRow
  <2>2. \A t \in Issued : \A u \in token[t].user : u \in User /\ Known(u)
    BY Rows DEF IInv, Rooted
  <2>3. \A l \in Sent : l \in Link /\ \A u \in link[l].user : Known(u)
    BY DEF IInv, Rooted, Sent
  <2> QED
    BY <2>1, <2>2, <2>3, Rows DEF IInv
<1>3. ASSUME End(q), UNCHANGED <<account, token, link, revoked, left>>
      PROVE  IInv'
  BY <1>1, <1>3, GoingOn DEF End
<1>4. ASSUME NEW u \in User, NEW pc \in {"create", "forgot", "check", "delete", "verify", "owner"},
             NEW of \in SUBSET (Token \cup Link), pc # "create" => Known(u), Begin(q, pc, u, 0, of),
             UNCHANGED <<account, token, link, revoked, left>>
      PROVE  IInv'
  <2> DEFINE r == [pc |-> pc, first |-> FALSE, user |-> u, password |-> 0, of |-> of,
                   overtaken |-> FALSE]
  <2>1. r \in Serving
    BY DEF Serving
  <2>2. Fine(r)
    BY <1>4 DEF Fine
  <2> HIDE DEF r
  <2>3. req' = [req EXCEPT ![q] = r]
    BY <1>4 DEF Begin, r
  <2> QED
    BY <1>4, <2>1, <2>2, <2>3, GoingOn
<1>5. CASE \E u \in User : \/ BeginRegister(q, u) \/ BeginForgot(q, u)
                          \/ BeginChange(q, u) \/ BeginDelete(q, u)
  BY <1>2, <1>4, <1>5 DEF BeginRegister, BeginForgot, BeginChange, BeginDelete, Authenticated
<1>6. CASE \E l \in Link : BeginVerify(q, l) \/ BeginReset(q, l)
  BY <1>2, <1>4, <1>6 DEF BeginVerify, BeginReset, Valid
<1>7. ASSUME NEW u \in User, Login(q, u) PROVE IInv'
  <2> DEFINE r == [pc |-> "issue", first |-> FALSE, user |-> u,
                   password |-> account[u].password, of |-> {}, overtaken |-> FALSE]
  <2>1. r \in Serving
    BY <1>2, <1>7 DEF Serving, Login
  <2>2. Fine(r)
    BY <1>2, <1>7 DEF Fine, Login
  <2> HIDE DEF r
  <2>3. req' = [req EXCEPT ![q] = r]
    BY <1>7 DEF Login, Begin, r
  <2> QED
    BY <1>7, <2>1, <2>2, <2>3, GoingOn DEF Login
<1>8. ASSUME NEW t \in Token, Refresh(q, t) PROVE IInv'
  <2>1. t \in Issued /\ token[t].password \in Nat
    BY <1>8, Rows DEF IInv, Refresh, TokenRow
  <2>2. PICK u \in token[t].user :
          Begin(q, IF t \in revoked THEN "family" ELSE "user", u, token[t].password, {t})
    BY <1>8 DEF Refresh
  <2>3. u \in User /\ Known(u) /\ token[t].user = {u}
    BY <1>2, <2>1, <2>2, Rows DEF IInv
  <2> DEFINE r == [pc |-> IF t \in revoked THEN "family" ELSE "user", first |-> FALSE, user |-> u,
                   password |-> token[t].password, of |-> {t}, overtaken |-> FALSE]
  <2>4. r \in Serving
    BY <2>1, <2>3 DEF Serving
  <2>5. Fine(r)
    BY <2>1, <2>3 DEF Fine
  <2> HIDE DEF r
  <2>6. req' = [req EXCEPT ![q] = r]
    BY <2>2 DEF Begin, r
  <2> QED
    BY <1>8, <2>4, <2>5, <2>6, GoingOn DEF Refresh
<1>9. ASSUME NEW pc \in {"rotate", "reset", "change"}, Step(q, pc), req[q].pc # "idle",
             pc = "rotate" => req[q].pc = "user", req[q].pc # "create",
             UNCHANGED <<account, token, link, revoked, left>>
      PROVE  IInv'
  <2> DEFINE r == [req[q] EXCEPT !.pc = pc]
  <2>1. r \in Serving
    BY <1>2, <1>9 DEF Serving
  <2>2. Fine(r)
    BY <1>2, <1>9 DEF Fine, Serving
  <2> HIDE DEF r
  <2>3. req' = [req EXCEPT ![q] = r]
    BY <1>9 DEF Step, r
  <2> QED
    BY <1>9, <2>1, <2>2, <2>3, GoingOn
<1>10. CASE ReadOwner(q) \/ ReadResetOwner(q) \/ CheckPassword(q)
  BY <1>3, <1>9, <1>10 DEF ReadOwner, ReadResetOwner, CheckPassword, At
<1>11. CASE Stop(q)
  BY <1>3, <1>11 DEF Stop
<1> QED
  BY <1>5, <1>6, <1>7, <1>8, <1>10, <1>11

\* The rows of register, and the links that are sent.
LEMMA Registering ==
    ASSUME IInv, NEW q \in Request,
           CreateUser(q) \/ AssignRole(q) \/ GiveWallet(q)
    PROVE  IInv'
<1> USE DEF accountVars, tokenVars, linkVars
<1>1. /\ req[q].pc # "idle" => req[q] \in Serving
      /\ \A p \in Request : Fine(req[p]) /\ req[p] \in {NoRequest} \cup Serving
      /\ Typed
  BY Rows DEF IInv, Typed
<1>2. ASSUME NEW u \in User, NEW row \in UserRow, NEW r \in Serving,
             Active(u) => row.status = "ACTIVE" /\ row.password = account[u].password,
             account' = [account EXCEPT ![u] = row],
             req' = [req EXCEPT ![q] = r], Fine(r)',
             UNCHANGED <<token, link, revoked, left>>
      PROVE  IInv'
  <2>1. req' \in [Request -> {NoRequest} \cup Serving]
    BY <1>1, <1>2 DEF Typed
  <2>2. \A p \in Request : Fine(req[p])' \/ Fine(req'[p])
    <3> SUFFICES ASSUME NEW p \in Request PROVE Fine(req[p])' \/ Fine(req'[p])
      OBVIOUS
    <3>1. CASE p = q
      <4>1. req'[p] = r
        BY <1>1, <1>2, <3>1 DEF Typed
      <4> QED
        BY <1>2, <4>1 DEF Fine, Known, Active
    <3>2. CASE p # q
      BY <1>1, <1>2, <3>2 DEF Typed
    <3> QED
      BY <3>1, <3>2
  <2> QED
    BY <1>2, <2>1, <2>2, AccountGoesOn
<1>3. CASE CreateUser(q)
  <2>1. PICK u \in User : u = req[q].user
    BY <1>1, <1>3 DEF CreateUser, At, Serving
  <2>2. req[q] \in Serving /\ req[q].pc = "create" /\ req[q].password = 0
    BY <1>1, <1>3 DEF CreateUser, At, Fine
  <2>3. CASE account[u] = NoAccount
    <3>1. PICK row \in UserRow : row = [status |-> "ACTIVE", password |-> 0, verified |-> FALSE,
                                      role |-> FALSE, wallet |-> FALSE]
      BY DEF UserRow
    <3>2. PICK r \in Serving : r = [req[q] EXCEPT !.pc = "role"]
      BY <2>2 DEF Serving
    <3>3. ~Active(u)
      BY <2>3 DEF Active, NoAccount
    <3>4. account' = [account EXCEPT ![u] = row] /\ req' = [req EXCEPT ![q] = r]
      BY <1>3, <2>1, <2>3, <3>1, <3>2 DEF CreateUser, Step
    <3>5. r.pc = "role" /\ r.user = u /\ r.password = 0
      BY <2>1, <2>2, <3>2 DEF Serving
    <3>6. account'[u] = row /\ row.status = "ACTIVE" /\ row.password = 0
      BY <1>1, <3>1, <3>4 DEF Typed
    <3>7. Fine(r)'
      BY <3>5, <3>6 DEF Fine, Known, Active
    <3> QED
      BY <1>2, <1>3, <3>3, <3>4, <3>7 DEF CreateUser
  <2>4. CASE account[u] # NoAccount
    <3>1. Fine(NoRequest)
      BY DEF Fine, NoRequest
    <3> QED
      BY <1>3, <2>1, <2>4, <3>1, GoingOn DEF CreateUser, End
  <2> QED
    BY <2>3, <2>4
<1>4. ASSUME NEW row \in UserRow, NEW r \in Serving, req[q] \in Serving,
             req[q].pc \in {"role", "wallet"},
             row.status = account[req[q].user].status,
             row.password = account[req[q].user].password,
             account' = [account EXCEPT ![req[q].user] = row],
             req' = [req EXCEPT ![q] = r], r.pc \in {"wallet", "issue"},
             r.user = req[q].user, r.password = req[q].password, r.overtaken = req[q].overtaken,
             UNCHANGED <<token, link, revoked, left>>
      PROVE  IInv'
  <2>1. req[q].user \in User /\ Fine(req[q])
    BY <1>1, <1>4 DEF Serving
  <2>2. account'[req[q].user] = row
    BY <1>1, <1>4, <2>1 DEF Typed
  <2>3. Fine(r)'
    BY <1>4, <2>1, <2>2 DEF Fine, Known, Active
  <2> QED
    BY <1>2, <1>4, <2>1, <2>3 DEF Active
<1>5. CASE AssignRole(q) \/ GiveWallet(q)
  <2> DEFINE u == req[q].user
  <2>1. req[q] \in Serving /\ req[q].pc \in {"role", "wallet"} /\ account[u] \in UserRow
    BY <1>1, <1>5 DEF AssignRole, GiveWallet, At, Fine, Known
  <2>2. CASE AssignRole(q)
    <3> DEFINE row == [account[u] EXCEPT !.role = TRUE]
               r == [req[q] EXCEPT !.pc = "wallet"]
    <3>1. /\ row \in UserRow /\ row.status = account[u].status
          /\ row.password = account[u].password
      BY <2>1 DEF UserRow
    <3>2. /\ r \in Serving /\ r.pc = "wallet" /\ r.user = u
          /\ r.password = req[q].password /\ r.overtaken = req[q].overtaken
      BY <2>1 DEF Serving
    <3>3. account' = [account EXCEPT ![u] = row] /\ req' = [req EXCEPT ![q] = r]
      BY <2>2 DEF AssignRole, Step
    <3> HIDE DEF row, r
    <3> QED
      BY <1>4, <2>1, <2>2, <3>1, <3>2, <3>3 DEF AssignRole
  <2>3. CASE GiveWallet(q)
    <3> DEFINE row == [account[u] EXCEPT !.wallet = TRUE]
               r == [req[q] EXCEPT !.pc = "issue", !.first = TRUE]
    <3>1. /\ row \in UserRow /\ row.status = account[u].status
          /\ row.password = account[u].password
      BY <2>1 DEF UserRow
    <3>2. /\ r \in Serving /\ r.pc = "issue" /\ r.user = u
          /\ r.password = req[q].password /\ r.overtaken = req[q].overtaken
      BY <2>1 DEF Serving
    <3>3. account' = [account EXCEPT ![u] = row] /\ req' = [req EXCEPT ![q] = r]
      BY <1>1, <2>3 DEF GiveWallet, Typed
    <3> HIDE DEF row, r
    <3> QED
      BY <1>4, <2>1, <2>3, <3>1, <3>2, <3>3 DEF GiveWallet
  <2> QED
    BY <1>5, <2>2, <2>3
<1> QED
  BY <1>3, <1>5

\* A link goes to an account there is.
LEMMA Sending ==
    ASSUME IInv, NEW q \in Request, SendVerificationEmail(q) \/ ForgotPassword(q)
    PROVE  IInv'
<1> USE DEF accountVars, tokenVars, linkVars
<1>1. req[q] \in Serving /\ req[q].user \in User /\ Known(req[q].user)
  <2>1. req[q].pc \in {"send", "forgot"}
    BY DEF SendVerificationEmail, ForgotPassword, At
  <2>2. req[q] \in Serving /\ Fine(req[q])
    BY <2>1, Rows DEF IInv
  <2> QED
    BY <2>1, <2>2 DEF Serving, Fine
<1>2. PICK purpose \in {"EMAIL_VERIFICATION", "PASSWORD_RESET"} : SendLink(q, purpose)
  BY DEF SendVerificationEmail, ForgotPassword
<1>3. PICK l \in Link \ Sent :
        link' = [link EXCEPT ![l] = [user |-> {req[q].user}, purpose |-> purpose]]
  BY <1>2 DEF SendLink
<1>4. UNCHANGED <<account, token, revoked, left>> /\ req' = [req EXCEPT ![q] = NoRequest]
  BY <1>2 DEF SendLink, End
<1>5. UNCHANGED <<Issued, Live>>
  BY <1>4 DEF Issued, Live
<1>6. Typed'
  <2>1. [user |-> {req[q].user}, purpose |-> purpose] \in Links
    BY <1>1 DEF Links
  <2>2. link' \in [Link -> Links]
    BY <1>3, <2>1 DEF IInv, Typed
  <2> QED
    BY <1>4, <1>5, <2>2 DEF IInv, Typed
<1>7. Rooted'
  <2>1. \A k \in Sent' : \A u \in link'[k].user : Known(u)
    <3> SUFFICES ASSUME NEW k \in Sent', NEW u \in link'[k].user PROVE Known(u)
      OBVIOUS
    <3>1. CASE k = l
      BY <1>1, <1>3, <3>1 DEF IInv, Typed
    <3>2. CASE k # l
      BY <1>3, <3>2 DEF IInv, Typed, Rooted, Sent
    <3> QED
      BY <3>1, <3>2
  <2> QED
    BY <1>4, <1>5, <2>1 DEF IInv, Rooted, Known
<1>8. SessionsAreCurrent' /\ OneTokenASession'
  BY <1>4, <1>5 DEF IInv, SessionsAreCurrent, OneTokenASession, Active
<1>9. ASSUME NEW p \in Request PROVE Fine(req[p])'
  <2>1. Fine(req'[p])
    <3>1. Fine(NoRequest)
      BY DEF Fine, NoRequest
    <3> QED
      BY <1>4, <3>1 DEF IInv, Typed
  <2> QED
    BY <1>4, <1>5, <2>1 DEF Fine, Known, Active
<1> QED
  BY <1>6, <1>7, <1>8, <1>9 DEF IInv

\* Requests that are overtaken go on by less.
LEMMA StillFine ==
    ASSUME IInv, NEW q \in Request, NEW S \in SUBSET Request, Overtakes(q, S)
    PROVE  \A p \in Request : Fine(req'[p])
<1> SUFFICES ASSUME NEW p \in Request PROVE Fine(req'[p])
  OBVIOUS
<1>1. Fine(NoRequest)
  BY DEF Fine, NoRequest
<1>2. Fine(req[p]) /\ req'[q] = NoRequest
  BY Others DEF IInv
<1>3. CASE p = q \/ req'[p].pc = "idle"
  BY <1>1, <1>2, <1>3 DEF Fine
<1>4. CASE p # q /\ req'[p].pc # "idle"
  BY <1>2, <1>4, Others DEF IInv, Fine
<1> QED
  BY <1>3, <1>4

\* A verified account is as it was.
LEMMA Verifying ==
    ASSUME IInv, NEW q \in Request, VerifyEmail(q)
    PROVE  IInv'
<1> USE DEF accountVars, tokenVars, linkVars
<1> DEFINE S == {r \in Request : req[r].of = req[q].of}
<1>1. req[q] \in Serving /\ req[q].user \in User /\ Known(req[q].user)
  <2>1. req[q].pc = "verify"
    BY DEF VerifyEmail, At
  <2>2. req[q] \in Serving /\ Fine(req[q])
    BY <2>1, Rows DEF IInv
  <2> QED
    BY <2>1, <2>2 DEF Serving, Fine
<1>2. Overtakes(q, S)
  BY Overtaking DEF IInv
<1>3. PICK row \in UserRow : row = [account[req[q].user] EXCEPT !.verified = TRUE]
  BY <1>1 DEF Known, UserRow
<1>4. /\ row.status = account[req[q].user].status
      /\ row.password = account[req[q].user].password
  BY <1>1, <1>3 DEF Known, UserRow
<1>5. account' = [account EXCEPT ![req[q].user] = row]
  BY <1>3 DEF VerifyEmail
<1>6. \A p \in Request : Fine(req'[p])
  BY <1>2, StillFine
<1>7. req' \in [Request -> {NoRequest} \cup Serving]
  BY <1>2, Others DEF IInv
<1>8. UNCHANGED <<token, link, revoked, left>>
  BY DEF VerifyEmail, Spend
<1> QED
  BY <1>1, <1>4, <1>5, <1>6, <1>7, <1>8, AccountGoesOn DEF Active

\* A session opens with the present password, unless it was overtaken.
LEMMA Issuing ==
    ASSUME IInv, NEW q \in Request, IssueTokens(q)
    PROVE  IInv'
<1> USE DEF accountVars, tokenVars, linkVars
<1>1. req[q] \in Serving /\ req[q].pc = "issue" /\ Fine(req[q])
  BY Rows DEF IInv, IssueTokens, At
<1>2. PICK u \in User : u = req[q].user /\ Known(u)
  BY <1>1 DEF Serving, Fine
<1>3. PICK t \in Token \ Issued : Open(t, req[q].user, req[q].password, req[q].overtaken)
  BY DEF IssueTokens
<1>4. PICK row \in TokenRow :
        row = [user |-> {u}, password |-> req[q].password, session |-> t,
               overtaken |-> req[q].overtaken]
  BY <1>1, <1>2 DEF Serving, TokenRow
<1>5. token' = [token EXCEPT ![t] = row] /\ revoked' = revoked /\ revoked \subseteq Issued
      /\ UNCHANGED <<account, link, left>>
  BY <1>2, <1>3, <1>4 DEF Open, IssueTokens, IInv, Typed
<1>6. row.session = t /\ row.user = {u} /\ t \notin left
  BY <1>4 DEF IInv, Typed
<1>7. ~row.overtaken => Active(u) /\ row.password = account[u].password
  BY <1>1, <1>2, <1>4 DEF Fine
<1>8. \A s \in Live : token[s].session # t
  BY DEF IInv, Rooted, Live
<1>9. PICK r \in {NoRequest} \cup Serving : r.pc \in {"idle", "send"} /\ Fine(r) /\ req' = [req EXCEPT ![q] = r]
  <2>1. CASE End(q)
    BY <2>1 DEF End, NoRequest, Fine
  <2>2. CASE Step(q, "send")
    <3>1. [req[q] EXCEPT !.pc = "send"] \in Serving
      BY <1>1 DEF Serving
    <3>2. Fine([req[q] EXCEPT !.pc = "send"])
      BY <1>1, <1>2 DEF Fine, Serving
    <3> QED
      BY <1>1, <2>2, <3>1, <3>2 DEF Step, Serving
  <2> QED
    BY <2>1, <2>2 DEF IssueTokens
<1>10. /\ req' \in [Request -> {NoRequest} \cup Serving]
       /\ \A p \in Request : Fine(req'[p])
  BY <1>9 DEF IInv, Typed
<1>11. ASSUME NEW p \in Request, req'[p].pc \in {"user", "rotate"}, ~req'[p].overtaken
       PROVE  req'[p].of \cap revoked' = {}
  BY <1>5, <1>10, <1>11 DEF Fine
<1>12. \A v \in row.user : Known(v)
  BY <1>2, <1>6
<1>13. ~row.overtaken =>
         /\ row.session \notin left
         /\ \A v \in row.user : Active(v) /\ row.password = account[v].password
         /\ \A s \in Live \ revoked' :
              token[s].session = row.session => token[s].overtaken
  BY <1>5, <1>6, <1>7, <1>8
<1>14. revoked \subseteq revoked' /\ revoked' \subseteq Issued
  BY <1>5
<1>15. \A p \in Request : /\ req'[p].pc \in {"user", "rotate"} /\ ~req'[p].overtaken
                          => req'[p].of \cap revoked' = {}
  BY <1>11
<1> QED
  BY <1>5, <1>6, <1>10, <1>12, <1>13, <1>14, <1>15, Adding

\* A session goes on by a token that was live when it was read; the requests
\* that read the same token are overtaken.
LEMMA Rotating ==
    ASSUME IInv, NEW q \in Request, RotateTokens(q)
    PROVE  IInv'
<1> USE DEF accountVars, tokenVars, linkVars
<1>1. req[q] \in Serving /\ req[q].pc = "rotate" /\ Fine(req[q])
  BY Rows DEF IInv, RotateTokens, At
<1>2. PICK old \in Issued : /\ req[q].of = {old} /\ token[old].user = {req[q].user}
                            /\ ~req[q].overtaken => old \notin revoked
  BY <1>1 DEF Fine
<1>3. PICK t \in Token \ Issued :
        token' = [token EXCEPT ![t] = [token[old] EXCEPT !.overtaken = @ \/ req[q].overtaken]]
  BY <1>2 DEF RotateTokens
<1>4. token[old] \in TokenRow
  BY Rows DEF IInv, Issued
<1>5. PICK row \in TokenRow : row = [token[old] EXCEPT !.overtaken = @ \/ req[q].overtaken]
  BY <1>1, <1>4 DEF TokenRow, Serving
<1>6. /\ row.user = token[old].user /\ row.session = token[old].session
      /\ row.password = token[old].password
      /\ ~row.overtaken => ~token[old].overtaken /\ ~req[q].overtaken
  BY <1>4, <1>5 DEF TokenRow
<1>7. /\ token' = [token EXCEPT ![t] = row] /\ revoked' = revoked \cup {old}
      /\ UNCHANGED <<account, link, left>>
  BY <1>2, <1>3, <1>5 DEF RotateTokens
<1>8. revoked \subseteq revoked' /\ revoked' \subseteq Issued
  BY <1>7 DEF IInv, Typed
<1>9. \A u \in row.user : Known(u)
  BY <1>6 DEF IInv, Rooted
<1>10. ASSUME ~row.overtaken
       PROVE  /\ row.session \notin left
              /\ \A u \in row.user : Active(u) /\ row.password = account[u].password
              /\ \A s \in Live \ revoked' :
                   token[s].session = row.session => token[s].overtaken
  <2>1. old \in Live /\ ~token[old].overtaken
    BY <1>2, <1>6, <1>10 DEF Live
  <2>2. \E u \in User : token[old].user = {u}
    BY Rows DEF IInv
  <2>3. /\ \A u \in token[old].user : Active(u) /\ token[old].password = account[u].password
        /\ token[old].session \notin left
    BY <2>1, <2>2 DEF IInv, SessionsAreCurrent
  <2>4. \A s \in Live \ {old} : token[s].session = token[old].session => token[s].overtaken
    BY <2>1 DEF IInv, OneTokenASession
  <2> QED
    BY <1>6, <1>7, <2>3, <2>4
<1> DEFINE S == {r \in Request : req[r].of = req[q].of}
<1>11. Overtakes(q, S)
  BY Overtaking DEF IInv
<1>12. /\ req' \in [Request -> {NoRequest} \cup Serving]
       /\ \A p \in Request : Fine(req'[p])
  BY <1>11, Others, StillFine DEF IInv
<1>13. ASSUME NEW p \in Request, req'[p].pc \in {"user", "rotate"}, ~req'[p].overtaken
       PROVE  req'[p].of \cap revoked' = {}
  <2>1. p # q /\ req'[p].of = req[p].of /\ p \notin S
    BY <1>11, <1>13, Others DEF IInv, NoRequest
  <2>2. PICK o \in Issued : req'[p].of = {o} /\ o \notin revoked
    BY <1>12, <1>13 DEF Fine
  <2> QED
    BY <1>2, <1>7, <2>1, <2>2
<1> HIDE DEF S
<1> QED
  BY <1>6, <1>7, <1>8, <1>9, <1>10, <1>12, <1>13, Adding

\* A token that is revoked closes its session, for it is the only one.
LEMMA LoggingOut ==
    ASSUME IInv, NEW q \in Request, NEW t \in Token, Logout(q, t)
    PROVE  IInv'
<1> USE DEF accountVars, tokenVars, linkVars
<1> DEFINE S == {r \in Request : req[r].of = {t} /\ t \notin revoked}
<1>1. Overtakes(q, S)
  BY Overtaking DEF IInv
<1>2. /\ req' \in [Request -> {NoRequest} \cup Serving]
      /\ \A p \in Request : Fine(req'[p])
  BY <1>1, Others, StillFine DEF IInv
<1>3. t \in Issued /\ revoked' = revoked \cup {t} /\ UNCHANGED <<account, token, link>>
  BY DEF Logout
<1>4. UNCHANGED <<Issued, Sent>> /\ Live' = Live \ {t}
  BY <1>3 DEF Issued, Sent, Live
<1>5. left' = left \cup {token[s].session : s \in {x \in {t} \ revoked : ~token[x].overtaken}}
  BY DEF Logout
<1>6. Typed'
  <2>1. left' \subseteq Issued
    BY <1>3, <1>5 DEF IInv, Typed, Rooted
  <2> QED
    BY <1>2, <1>3, <1>4, <2>1 DEF IInv, Typed
<1>7. Rooted' /\ OneTokenASession'
  BY <1>3, <1>4 DEF IInv, Rooted, Known, OneTokenASession
<1>8. SessionsAreCurrent'
  <2> SUFFICES ASSUME NEW s \in Live \ {t}, ~token[s].overtaken,
                      token[s].session \in left' \ left
               PROVE  FALSE
    BY <1>3, <1>4 DEF IInv, SessionsAreCurrent, Active
  <2>1. t \notin revoked /\ ~token[t].overtaken /\ token[t].session = token[s].session
    BY <1>5
  <2> QED
    BY <1>3, <2>1 DEF IInv, OneTokenASession, Live
<1>9. ASSUME NEW p \in Request PROVE Fine(req[p])'
  <2>1. Fine(req'[p])
    BY <1>2
  <2>2. ASSUME req'[p].pc \in {"user", "rotate"}, ~req'[p].overtaken
        PROVE  req'[p].of \cap revoked' = {}
    <3>1. p # q /\ req'[p].of = req[p].of /\ p \notin S
      BY <1>1, <2>2, Others DEF IInv, NoRequest
    <3>2. PICK o \in Issued : req'[p].of = {o} /\ o \notin revoked
      BY <2>1, <2>2 DEF Fine
    <3> QED
      BY <1>3, <3>1, <3>2
  <2> HIDE DEF S
  <2> QED
    BY <1>3, <1>4, <2>1, <2>2 DEF Fine, Known, Active
<1> QED
  BY <1>6, <1>7, <1>8, <1>9 DEF IInv

\* What a reset, a change of password, a deletion and a revoked token close.
LEMMA ClosingAll ==
    ASSUME IInv, NEW q \in Request,
           RevokeFamily(q) \/ ResetPassword(q) \/ ChangePassword(q) \/ SoftDeleteAndRevokeSessions(q)
    PROVE  IInv'
<1> USE DEF accountVars, tokenVars, linkVars
<1>1. PICK u \in User : u = req[q].user /\ Known(u)
  <2>1. req[q].pc \in {"family", "reset", "change", "delete"}
    BY DEF RevokeFamily, ResetPassword, ChangePassword, SoftDeleteAndRevokeSessions, At
  <2>2. req[q] \in Serving /\ Fine(req[q])
    BY <2>1, Rows DEF IInv
  <2> QED
    BY <2>1, <2>2 DEF Serving, Fine
<1>2. CloseAll(q, u) /\ link' = link
  BY <1>1 DEF RevokeFamily, ResetPassword, ChangePassword, SoftDeleteAndRevokeSessions, Spend
<1>3. Overtakes(q, {r \in Request : req[r].user = u})
  BY <1>2, Overtaking DEF IInv
<1>4. PICK row \in UserRow : account' = [account EXCEPT ![u] = row]
  <2>1. CASE RevokeFamily(q)
    BY <1>1, <2>1 DEF RevokeFamily, IInv, Typed, Known
  <2>2. CASE ResetPassword(q) \/ ChangePassword(q)
    <3>1. account' = [account EXCEPT ![u] = [account[u] EXCEPT !.password = @ + 1]]
      BY <1>1, <2>2 DEF ResetPassword, ChangePassword, SetPassword
    <3>2. [account[u] EXCEPT !.password = @ + 1] \in UserRow
      BY <1>1 DEF Known, UserRow
    <3> QED
      BY <3>1, <3>2
  <2>3. CASE SoftDeleteAndRevokeSessions(q)
    <3>1. account' = [account EXCEPT ![u] = [account[u] EXCEPT !.status = "DELETED"]]
      BY <1>1, <2>3 DEF SoftDeleteAndRevokeSessions
    <3>2. [account[u] EXCEPT !.status = "DELETED"] \in UserRow
      BY <1>1 DEF Known, UserRow
    <3> QED
      BY <3>1, <3>2
  <2> QED
    BY <2>1, <2>2, <2>3
<1>5. /\ revoked' = revoked \cup Of(u)
      /\ left' = left \cup {token[t].session : t \in Of(u)}
      /\ UNCHANGED token
  BY <1>2 DEF CloseAll
<1> QED
  BY <1>1, <1>2, <1>3, <1>4, <1>5, Closing

\* Nothing that the invariant names changes: a stutter, or time passing.
LEMMA Waiting ==
    ASSUME IInv, UNCHANGED <<account, token, link, revoked, left, req>>
    PROVE  IInv'
<1>1. UNCHANGED <<Issued, Sent, Live>>
  BY DEF Issued, Sent, Live
<1>2. Typed' /\ Rooted'
  BY <1>1 DEF IInv, Typed, Rooted, Known
<1>3. SessionsAreCurrent' /\ OneTokenASession'
  BY <1>1 DEF IInv, SessionsAreCurrent, OneTokenASession, Active
<1>4. ASSUME NEW p \in Request PROVE Fine(req[p])'
  <2>1. Fine(req[p])
    BY DEF IInv
  <2> QED
    BY <1>1, <2>1 DEF Fine, Known, Active
<1> QED
  BY <1>2, <1>3, <1>4 DEF IInv

\* Every step keeps what the requests go by.
LEMMA StepPreserves == IInv /\ [Next]_vars => IInv'
<1> SUFFICES ASSUME IInv, [Next]_vars PROVE IInv'
  OBVIOUS
<1> USE DEF vars, accountVars, tokenVars, linkVars
<1>1. CASE \E x \in Token \cup Link : Expire(x)
  BY <1>1, Waiting DEF Expire
<1>2. CASE UNCHANGED vars
  BY <1>2, Waiting
<1>3. ASSUME NEW q \in Request, RequestNext(q) PROVE IInv'
  <2>1. CASE CreateUser(q) \/ AssignRole(q) \/ GiveWallet(q)
    BY <2>1, Registering
  <2>2. CASE IssueTokens(q)
    BY <2>2, Issuing
  <2>3. CASE SendVerificationEmail(q) \/ ForgotPassword(q)
    BY <2>3, Sending
  <2>4. CASE RotateTokens(q)
    BY <2>4, Rotating
  <2>5. CASE VerifyEmail(q)
    BY <2>5, Verifying
  <2>6. CASE RevokeFamily(q) \/ ResetPassword(q) \/ ChangePassword(q)
             \/ SoftDeleteAndRevokeSessions(q)
    BY <2>6, ClosingAll
  <2>7. CASE \E t \in Token : Logout(q, t)
    BY <2>7, LoggingOut
  <2>8. CASE \/ \E u \in User : \/ BeginRegister(q, u) \/ Login(q, u) \/ BeginForgot(q, u)
                                \/ BeginChange(q, u) \/ BeginDelete(q, u)
             \/ \E t \in Token : Refresh(q, t)
             \/ \E l \in Link : BeginVerify(q, l) \/ BeginReset(q, l)
             \/ ReadOwner(q) \/ ReadResetOwner(q) \/ CheckPassword(q) \/ Stop(q)
    BY <2>8, Reading
  <2> QED
    BY <1>3, <2>1, <2>2, <2>3, <2>4, <2>5, <2>6, <2>7, <2>8 DEF RequestNext
<1> QED
  BY <1>1, <1>2, <1>3 DEF Next

\* The invariant the theorems of the sessions rest on.
LEMMA AlwaysFine == Spec => []IInv
<1>1. Init => IInv
  BY InitiallyFine
<1>2. IInv /\ [Next]_vars => IInv'
  BY StepPreserves
<1> QED
  BY <1>1, <1>2, PTL DEF Spec

-----------------------------------------------------------------------------
\* A request that is to spend a link and was not overtaken found it unused.
Spending(r) ==
    r.pc \in {"verify", "owner", "reset"} =>
      \E l \in Sent : /\ r.of = {l} /\ link[l].user = {r.user}
                      /\ ~r.overtaken => l \notin used

SInv == respent = {} /\ \A q \in Request : Spending(req[q])

\* The links that are sent stay as they are, and no request spends one.
LEMMA NothingSpent ==
    ASSUME IInv, SInv, UNCHANGED <<used, respent>>,
           \A l \in Sent : link'[l] = link[l],
           \A q \in Request : Spending(req'[q])
    PROVE  SInv'
<1>1. \A l \in Sent : l \in Sent'
  BY DEF Sent
<1>2. ASSUME NEW q \in Request PROVE Spending(req[q])'
  <2>1. Spending(req'[q])
    OBVIOUS
  <2> QED
    BY <1>1, <2>1 DEF Spending
<1> QED
  BY <1>2 DEF SInv

\* Requests that are overtaken may be so by less.
LEMMA StillSpending ==
    ASSUME IInv, SInv, NEW q \in Request, NEW S \in SUBSET Request, Overtakes(q, S)
    PROVE  \A p \in Request : /\ Spending(req'[p])
                              /\ ~req'[p].overtaken /\ p # q /\ req[p].pc # "idle" => p \notin S
<1> SUFFICES ASSUME NEW p \in Request
             PROVE  /\ Spending(req'[p])
                    /\ ~req'[p].overtaken /\ p # q /\ req[p].pc # "idle" => p \notin S
  OBVIOUS
<1>1. Spending(req[p]) /\ req'[q] = NoRequest
  BY Others DEF IInv, SInv
<1>2. CASE p = q \/ req'[p].pc = "idle"
  BY <1>1, <1>2, Others DEF IInv, Spending, NoRequest
<1>3. CASE p # q /\ req'[p].pc # "idle"
  BY <1>1, <1>3, Others DEF IInv, Spending
<1> QED
  BY <1>2, <1>3

\* One request changes, to one that spends nothing it did not before.
LEMMA OneRequest ==
    ASSUME IInv, SInv, NEW q \in Request, NEW r, req' = [req EXCEPT ![q] = r], Spending(r)
    PROVE  \A p \in Request : Spending(req'[p])
BY DEF IInv, Typed, SInv

\* A link is spent, and every request that goes by it is overtaken.
LEMMA SpendingOnce ==
    ASSUME IInv, SInv, NEW q \in Request, NEW S \in SUBSET Request, Overtakes(q, S),
           req[q].pc \in {"verify", "reset"}, Spend(q),
           \A p \in Request :
             req[p].of = req[q].of /\ req[p].user = req[q].user => p \in S
    PROVE  SInv'
<1>1. PICK l \in Sent : /\ req[q].of = {l} /\ link[l].user = {req[q].user}
                        /\ ~req[q].overtaken => l \notin used
  BY DEF SInv, Spending
<1>2. respent' = {} /\ used' = used \cup {l} /\ UNCHANGED <<link, Sent>>
  BY <1>1 DEF Spend, SInv, Sent
<1>3. ASSUME NEW p \in Request PROVE Spending(req[p])'
  <2>1. Spending(req'[p])
    BY StillSpending
  <2>2. CASE req'[p].pc \notin {"verify", "owner", "reset"}
    BY <2>2 DEF Spending
  <2>3. CASE req'[p].pc \in {"verify", "owner", "reset"}
    <3>1. PICK k \in Sent : /\ req'[p].of = {k} /\ link[k].user = {req'[p].user}
                            /\ ~req'[p].overtaken => k \notin used
      BY <2>1, <2>3 DEF Spending
    <3>2. p # q /\ req[p].pc # "idle" /\ req'[p].of = req[p].of /\ req'[p].user = req[p].user
      BY <2>3, Others DEF IInv, NoRequest
    <3>3. ~req'[p].overtaken => k # l
      <4> SUFFICES ASSUME ~req'[p].overtaken, k = l PROVE FALSE
        OBVIOUS
      <4>1. p \in S
        BY <1>1, <3>1, <3>2
      <4> QED
        BY <3>2, <4>1, StillSpending
    <3> QED
      BY <1>2, <3>1, <3>3 DEF Spending
  <2> QED
    BY <2>2, <2>3
<1> QED
  BY <1>2, <1>3 DEF SInv

\* A link is spent by one request among those that could have seen it used.
LEMMA StepSpendsOnce == IInv /\ SInv /\ [Next]_vars => SInv'
<1> SUFFICES ASSUME IInv, SInv, [Next]_vars PROVE SInv'
  OBVIOUS
<1> USE DEF vars, accountVars, tokenVars, linkVars
<1>1. CASE (\E x \in Token \cup Link : Expire(x)) \/ UNCHANGED vars
  BY <1>1, NothingSpent DEF Expire, SInv
<1>2. ASSUME NEW q \in Request, RequestNext(q) PROVE SInv'
  <2>1. Spending(req[q]) /\ Spending(NoRequest)
    BY DEF SInv, Spending, NoRequest
  <2>2. \A pc : pc \notin {"verify", "owner", "reset"} => Spending([req[q] EXCEPT !.pc = pc])
    <3>1. CASE req[q] = NoRequest
      BY <3>1 DEF Spending, NoRequest
    <3>2. CASE req[q] \in Serving
      BY <3>2 DEF Spending, Serving
    <3> QED
      BY <3>1, <3>2 DEF IInv, Typed
  <2>3. ASSUME NEW pc, pc \notin {"verify", "owner", "reset"}, NEW u, NEW p, NEW of,
               Begin(q, pc, u, p, of)
        PROVE  \A x \in Request : Spending(req'[x])
    <3>1. Spending([pc |-> pc, first |-> FALSE, user |-> u, password |-> p, of |-> of,
                    overtaken |-> FALSE])
      BY <2>3 DEF Spending
    <3> QED
      BY <2>3, <3>1, OneRequest DEF Begin
  <2>4. CASE \/ \E u \in User : \/ BeginRegister(q, u) \/ Login(q, u) \/ BeginForgot(q, u)
                                \/ BeginChange(q, u) \/ BeginDelete(q, u)
             \/ \E t \in Token : Refresh(q, t)
    <3>1. \A x \in Request : Spending(req'[x])
      BY <2>3, <2>4 DEF BeginRegister, Login, BeginForgot, BeginChange, BeginDelete, Refresh
    <3> QED
      BY <2>4, <3>1, NothingSpent
         DEF BeginRegister, Login, BeginForgot, BeginChange, BeginDelete, Refresh
  <2>5. CASE \E l \in Link : BeginVerify(q, l) \/ BeginReset(q, l)
    <3>1. PICK l \in Sent \ used, u \in User, pc \in {"verify", "owner"} :
            u \in link[l].user /\ Begin(q, pc, u, 0, {l})
      BY <2>5, Rows DEF IInv, BeginVerify, BeginReset, Valid
    <3>2. link[l].user = {u}
      BY <3>1 DEF IInv, Typed, Links, Sent, NoLink
    <3>3. Spending([pc |-> pc, first |-> FALSE, user |-> u, password |-> 0, of |-> {l},
                    overtaken |-> FALSE])
      BY <3>2 DEF Spending
    <3>4. \A x \in Request : Spending(req'[x])
      BY <3>1, <3>3, OneRequest DEF Begin
    <3> QED
      BY <2>5, <3>4, NothingSpent DEF BeginVerify, BeginReset
  <2>6. CASE CreateUser(q) \/ AssignRole(q) \/ ReadOwner(q) \/ CheckPassword(q)
             \/ IssueTokens(q) \/ Stop(q)
    <3>1. \A x \in Request : Spending(req'[x])
      BY <2>1, <2>2, <2>6, OneRequest
         DEF CreateUser, AssignRole, ReadOwner, CheckPassword, IssueTokens, Stop, Step, End
    <3> QED
      BY <2>6, <3>1, NothingSpent
         DEF CreateUser, AssignRole, ReadOwner, CheckPassword, IssueTokens, Stop
  <2>7. CASE ReadResetOwner(q)
    <3>1. Spending([req[q] EXCEPT !.pc = "reset"])
      <4>1. req[q] \in Serving /\ req[q].pc = "owner"
        BY <2>7, Rows DEF IInv, ReadResetOwner, At
      <4> QED
        BY <2>1, <4>1 DEF Spending, Serving
    <3>2. \A x \in Request : Spending(req'[x])
      BY <2>1, <2>7, <3>1, OneRequest DEF ReadResetOwner, Step, End
    <3> QED
      BY <2>7, <3>2, NothingSpent DEF ReadResetOwner
  <2>8. CASE GiveWallet(q)
    <3>1. \A x \in Request : x # q => req'[x] = req[x]
      BY <2>8 DEF GiveWallet, IInv, Typed
    <3>2. Spending(req'[q])
      <4>1. req'[q].pc = "issue"
        BY <2>8, Rows DEF GiveWallet, At, IInv, Typed, Serving
      <4> QED
        BY <4>1 DEF Spending
    <3> QED
      BY <2>8, <3>1, <3>2, NothingSpent DEF GiveWallet, SInv
  <2>9. CASE SendVerificationEmail(q) \/ ForgotPassword(q)
    <3>1. PICK purpose \in {"EMAIL_VERIFICATION", "PASSWORD_RESET"} : SendLink(q, purpose)
      BY <2>9 DEF SendVerificationEmail, ForgotPassword
    <3>2. \A x \in Request : Spending(req'[x])
      BY <2>1, <3>1, OneRequest DEF SendLink, End
    <3>3. \A l \in Sent : link'[l] = link[l]
      BY <3>1 DEF SendLink, IInv, Typed, Sent
    <3> QED
      BY <3>1, <3>2, <3>3, NothingSpent DEF SendLink
  <2>10. CASE RotateTokens(q) \/ \E t \in Token : Logout(q, t)
    <3>1. PICK S \in SUBSET Request : Overtakes(q, S)
      BY <2>10, Overtaking DEF IInv
    <3>2. \A x \in Request : Spending(req'[x])
      BY <3>1, StillSpending
    <3> QED
      BY <2>10, <3>2, NothingSpent DEF RotateTokens, Logout
  <2>11. CASE RevokeFamily(q) \/ ChangePassword(q) \/ SoftDeleteAndRevokeSessions(q)
    <3>1. PICK S \in SUBSET Request : Overtakes(q, S)
      BY <2>11, Overtaking DEF IInv, RevokeFamily, ChangePassword, SoftDeleteAndRevokeSessions
    <3>2. \A x \in Request : Spending(req'[x])
      BY <3>1, StillSpending
    <3> QED
      BY <2>11, <3>2, NothingSpent DEF RevokeFamily, ChangePassword, SoftDeleteAndRevokeSessions
  <2>12. CASE VerifyEmail(q)
    <3>1. Overtakes(q, {r \in Request : req[r].of = req[q].of})
      BY <2>12, Overtaking DEF IInv
    <3> QED
      BY <2>12, <3>1, SpendingOnce DEF VerifyEmail, At
  <2>13. CASE ResetPassword(q)
    <3>1. Overtakes(q, {r \in Request : req[r].user = req[q].user})
      BY <2>13, Overtaking DEF IInv, ResetPassword
    <3> QED
      BY <2>13, <3>1, SpendingOnce DEF ResetPassword, At
  <2> QED
    BY <1>2, <2>4, <2>5, <2>6, <2>7, <2>8, <2>9, <2>10, <2>11, <2>12, <2>13 DEF RequestNext
<1> QED
  BY <1>1, <1>2 DEF Next

-----------------------------------------------------------------------------
\* A request that is making the account of u.
Making(r, u) == r.pc \in {"role", "wallet"} /\ r.user = u

\* The wallet is the last part to be made: whoever is about to make it has
\* assigned the role some steps before.
WInv ==
    /\ AccountsAreWhole
    /\ \A q \in Request : req[q].pc = "wallet" => account[req[q].user].role

\* The accounts keep their parts, and a request that makes one goes on unless it
\* leaves it partial.
LEMMA PartsStay ==
    ASSUME IInv, WInv, partial \subseteq partial',
           \A u \in User : \/ account'[u] = account[u]
                           \/ /\ Known(u)
                              /\ account'[u].role = account[u].role
                              /\ account'[u].wallet = account[u].wallet,
           \A p \in Request : \A u \in User :
             Making(req[p], u) => Making(req'[p], u) \/ u \in partial',
           \A p \in Request : req'[p].pc = "wallet" =>
             req[p].pc = "wallet" /\ req'[p].user = req[p].user
    PROVE  WInv'
<1>1. AccountsAreWhole'
  <2> SUFFICES ASSUME NEW u \in User
               PROVE  \/ account'[u] = NoAccount
                      \/ account'[u].role /\ account'[u].wallet
                      \/ u \in partial'
                      \/ \E p \in Request : Making(req'[p], u)
    BY DEF AccountsAreWhole, Making
  <2>1. \/ account[u] = NoAccount
        \/ account[u].role /\ account[u].wallet
        \/ u \in partial
        \/ \E p \in Request : Making(req[p], u)
    BY DEF WInv, AccountsAreWhole, Making
  <2>2. CASE account[u] = NoAccount
    <3>1. ~Known(u)
      BY <2>2, Rows DEF IInv, Known
    <3> QED
      BY <2>2, <3>1
  <2>3. CASE account[u].role /\ account[u].wallet
    BY <2>3
  <2>4. CASE u \in partial
    BY <2>4
  <2>5. CASE \E p \in Request : Making(req[p], u)
    BY <2>5
  <2> QED
    BY <2>1, <2>2, <2>3, <2>4, <2>5
<1>2. ASSUME NEW p \in Request, req'[p].pc = "wallet"
      PROVE  account'[req'[p].user].role
  <2>1. /\ req[p].pc = "wallet" /\ req'[p].user = req[p].user
        /\ account[req[p].user].role
    BY <1>2 DEF WInv
  <2>2. req[p].user \in User
    <3>1. req[p] \in Serving
      BY <2>1, Rows DEF IInv
    <3> QED
      BY <3>1 DEF Serving
  <2> QED
    BY <2>1, <2>2
<1> QED
  BY <1>1, <1>2 DEF WInv

\* One request changes, that makes no account.
LEMMA OneOther ==
    ASSUME IInv, NEW q \in Request, req[q].pc \notin {"role", "wallet"},
           NEW r, r.pc # "wallet", req' = [req EXCEPT ![q] = r]
    PROVE  /\ \A p \in Request : \A u \in User : Making(req[p], u) => Making(req'[p], u)
           /\ \A p \in Request : req'[p].pc = "wallet" =>
                req[p].pc = "wallet" /\ req'[p].user = req[p].user
<1>1. req'[q] = r /\ \A p \in Request : p # q => req'[p] = req[p]
  BY DEF IInv, Typed
<1> QED
  BY <1>1 DEF Making

\* A request that makes no account overtakes others, which go on.
LEMMA OvertakenMakers ==
    ASSUME IInv, NEW q \in Request, req[q].pc \notin {"role", "wallet"},
           NEW S \in SUBSET Request, Overtakes(q, S)
    PROVE  /\ \A p \in Request : \A u \in User : Making(req[p], u) => Making(req'[p], u)
           /\ \A p \in Request : req'[p].pc = "wallet" =>
                req[p].pc = "wallet" /\ req'[p].user = req[p].user
<1>1. req'[q].pc = "idle"
  BY Others DEF IInv, NoRequest
<1>2. \A p \in Request : p # q =>
        /\ req'[p].pc = req[p].pc
        /\ req[p].pc # "idle" => req'[p].user = req[p].user
  BY Others DEF IInv
<1>3. ASSUME NEW p \in Request, NEW u \in User, Making(req[p], u) PROVE Making(req'[p], u)
  BY <1>2, <1>3 DEF Making
<1>4. ASSUME NEW p \in Request, req'[p].pc = "wallet"
      PROVE  req[p].pc = "wallet" /\ req'[p].user = req[p].user
  BY <1>1, <1>2, <1>4
<1> QED
  BY <1>3, <1>4

\* The rows of the account that a step changes keep their role and their wallet.
LEMMA OtherColumns ==
    ASSUME IInv, NEW u \in User, Known(u),
           \/ UNCHANGED account
           \/ account' = [account EXCEPT ![u].password = @ + 1]
           \/ account' = [account EXCEPT ![u].verified = TRUE]
           \/ account' = [account EXCEPT ![u].status = "DELETED"]
    PROVE  \A v \in User : \/ account'[v] = account[v]
                           \/ /\ Known(v)
                              /\ account'[v].role = account[v].role
                              /\ account'[v].wallet = account[v].wallet
<1> SUFFICES ASSUME NEW v \in User
             PROVE  \/ account'[v] = account[v]
                    \/ /\ Known(v)
                       /\ account'[v].role = account[v].role
                       /\ account'[v].wallet = account[v].wallet
  OBVIOUS
<1>1. account \in [User -> {NoAccount} \cup UserRow]
  BY DEF IInv, Typed
<1>2. CASE v # u
  BY <1>1, <1>2
<1>3. CASE v = u
  <2>1. \/ account'[u] = account[u]
        \/ account'[u] = [account[u] EXCEPT !.password = @ + 1]
        \/ account'[u] = [account[u] EXCEPT !.verified = TRUE]
        \/ account'[u] = [account[u] EXCEPT !.status = "DELETED"]
    BY <1>1
  <2>2. account[u] \in UserRow
    BY DEF Known
  <2>3. /\ [account[u] EXCEPT !.password = @ + 1].role = account[u].role
        /\ [account[u] EXCEPT !.password = @ + 1].wallet = account[u].wallet
    BY <2>2 DEF UserRow
  <2>4. /\ [account[u] EXCEPT !.verified = TRUE].role = account[u].role
        /\ [account[u] EXCEPT !.verified = TRUE].wallet = account[u].wallet
    BY <2>2 DEF UserRow
  <2>5. /\ [account[u] EXCEPT !.status = "DELETED"].role = account[u].role
        /\ [account[u] EXCEPT !.status = "DELETED"].wallet = account[u].wallet
    BY <2>2 DEF UserRow
  <2> QED
    BY <1>3, <2>1, <2>3, <2>4, <2>5
<1> QED
  BY <1>2, <1>3

\* The three commits of register, each of which leaves the next to be made.
LEMMA MakingAnAccount ==
    ASSUME IInv, WInv, NEW q \in Request, CreateUser(q) \/ AssignRole(q) \/ GiveWallet(q)
    PROVE  WInv'
<1>1. /\ req[q].pc \in {"create", "role", "wallet"} /\ req[q] \in Serving
      /\ req[q].user \in User /\ partial' = partial
  <2>1. req[q].pc \in {"create", "role", "wallet"} /\ partial' = partial
    BY DEF CreateUser, AssignRole, GiveWallet, At, accountVars
  <2>2. req[q] \in Serving
    BY <2>1, Rows DEF IInv
  <2> QED
    BY <2>1, <2>2 DEF Serving
<1> DEFINE u == req[q].user
<1>2. \A p \in Request : req[p].pc # "idle" => req[p] \in Serving
  BY Rows DEF IInv
<1>3. \A p \in Request : req[p].pc = "wallet" => req[p].user \in User
  BY <1>2 DEF Serving
<1>4. account \in [User -> {NoAccount} \cup UserRow] /\ req \in [Request -> {NoRequest} \cup Serving]
  BY DEF IInv, Typed
<1> HIDE DEF u
<1>5. u \in User /\ req[q].user = u
  BY <1>1 DEF u
<1>6. CASE CreateUser(q) /\ account[u] = NoAccount
  <2>1. /\ account' = [account EXCEPT ![u] = [status |-> "ACTIVE", password |-> 0,
                         verified |-> FALSE, role |-> FALSE, wallet |-> FALSE]]
        /\ req' = [req EXCEPT ![q].pc = "role"]
        /\ req[q].pc = "create"
    BY <1>5, <1>6 DEF CreateUser, Step, At
  <2>2. Making(req'[q], u)
    BY <1>1, <1>4, <1>5, <2>1 DEF Making, Serving
  <2>3. \A p \in Request : p # q => req'[p] = req[p]
    BY <1>4, <2>1
  <2>4. \A v \in User : v # u => account'[v] = account[v]
    BY <1>4, <2>1
  <2>5. AccountsAreWhole'
    <3> SUFFICES ASSUME NEW v \in User
                 PROVE  \/ account'[v] = NoAccount
                        \/ account'[v].role /\ account'[v].wallet
                        \/ v \in partial'
                        \/ \E p \in Request : Making(req'[p], v)
      BY DEF AccountsAreWhole, Making
    <3>1. CASE v = u
      BY <2>2, <3>1
    <3>2. CASE v # u
      <4>1. \/ account[v] = NoAccount
            \/ account[v].role /\ account[v].wallet
            \/ v \in partial
            \/ \E p \in Request : Making(req[p], v)
        BY DEF WInv, AccountsAreWhole, Making
      <4>2. \A p \in Request : Making(req[p], v) => p # q
        BY <2>1 DEF Making
      <4> QED
        BY <1>1, <2>3, <2>4, <3>2, <4>1, <4>2
    <3> QED
      BY <3>1, <3>2
  <2>6. ASSUME NEW p \in Request, req'[p].pc = "wallet"
        PROVE  account'[req'[p].user].role
    <3>1. p # q /\ req'[p] = req[p]
      <4>1. req'[q].pc = "role"
        BY <1>1, <1>4, <2>1 DEF Serving
      <4> QED
        BY <2>3, <2>6, <4>1
    <3>2. req[p].user \in User /\ account[req[p].user].role
      BY <1>3, <2>6, <3>1 DEF WInv
    <3>3. req[p].user # u
      <4>1. Known(req[p].user)
        BY <2>6, <3>1 DEF IInv, Fine
      <4> QED
        BY <1>5, <1>6, <4>1, Rows DEF IInv, Known
    <3> QED
      BY <2>4, <3>1, <3>2, <3>3
  <2> QED
    BY <2>5, <2>6 DEF WInv
<1>7. CASE CreateUser(q) /\ account[u] # NoAccount
  <2>1. UNCHANGED account /\ req' = [req EXCEPT ![q] = NoRequest] /\ req[q].pc = "create"
    BY <1>5, <1>7 DEF CreateUser, End, At
  <2> QED
    BY <1>1, <2>1, OneOther, PartsStay DEF NoRequest
<1>8. CASE AssignRole(q) \/ GiveWallet(q)
  <2>1. Known(u)
    BY <1>5, <1>8 DEF IInv, Fine, AssignRole, GiveWallet, At
  <2>2. \A p \in Request : p # q => req'[p] = req[p]
    BY <1>4, <1>8 DEF AssignRole, GiveWallet, Step
  <2>3. \A v \in User : v # u => account'[v] = account[v]
    BY <1>4, <1>5, <1>8 DEF AssignRole, GiveWallet
  <2>4. account'[u].role /\ (account'[u].wallet \/ Making(req'[q], u))
    <3>1. CASE AssignRole(q)
      <4>1. account'[u] = [account[u] EXCEPT !.role = TRUE]
        BY <1>4, <1>5, <3>1 DEF AssignRole
      <4>2. req'[q] = [req[q] EXCEPT !.pc = "wallet"]
        BY <1>4, <3>1 DEF AssignRole, Step
      <4>3. account'[u].role
        BY <2>1, <4>1 DEF Known, UserRow
      <4>4. Making(req'[q], u)
        BY <1>1, <1>5, <4>2 DEF Making, Serving
      <4> QED
        BY <4>3, <4>4
    <3>2. CASE GiveWallet(q)
      <4>1. account'[u] = [account[u] EXCEPT !.wallet = TRUE]
        BY <1>4, <1>5, <3>2 DEF GiveWallet
      <4>2. account[u].role
        BY <1>5, <3>2 DEF WInv, GiveWallet, At
      <4> QED
        BY <2>1, <4>1, <4>2 DEF Known, UserRow
    <3> QED
      BY <1>8, <3>1, <3>2
  <2>5. AccountsAreWhole'
    <3> SUFFICES ASSUME NEW v \in User
                 PROVE  \/ account'[v] = NoAccount
                        \/ account'[v].role /\ account'[v].wallet
                        \/ v \in partial'
                        \/ \E p \in Request : Making(req'[p], v)
      BY DEF AccountsAreWhole, Making
    <3>1. CASE v = u
      BY <2>4, <3>1
    <3>2. CASE v # u
      <4>1. \/ account[v] = NoAccount
            \/ account[v].role /\ account[v].wallet
            \/ v \in partial
            \/ \E p \in Request : Making(req[p], v)
        BY DEF WInv, AccountsAreWhole, Making
      <4>2. \A p \in Request : Making(req[p], v) => p # q
        BY <1>5, <3>2 DEF Making
      <4> QED
        BY <1>1, <2>2, <2>3, <3>2, <4>1, <4>2
    <3> QED
      BY <3>1, <3>2
  <2>6. ASSUME NEW p \in Request, req'[p].pc = "wallet"
        PROVE  account'[req'[p].user].role
    <3>1. CASE p = q
      <4>1. req'[q].user = u
        <5>1. \/ req'[q] = [req[q] EXCEPT !.pc = "wallet"]
              \/ req'[q] = [req[q] EXCEPT !.pc = "issue", !.first = TRUE]
          BY <1>4, <1>8 DEF AssignRole, GiveWallet, Step
        <5> QED
          BY <1>1, <1>5, <5>1 DEF Serving
      <4> QED
        BY <2>4, <3>1, <4>1
    <3>2. CASE p # q
      <4>1. req'[p] = req[p] /\ req[p].user \in User /\ account[req[p].user].role
        BY <1>3, <2>2, <2>6, <3>2 DEF WInv
      <4> QED
        BY <2>3, <2>4, <4>1
    <3> QED
      BY <3>1, <3>2
  <2> QED
    BY <2>5, <2>6 DEF WInv
<1> QED
  BY <1>6, <1>7, <1>8

\* Every step leaves an account whole, being made or partial.
LEMMA StepKeepsWhole == IInv /\ WInv /\ [Next]_vars => WInv'
<1> SUFFICES ASSUME IInv, WInv, [Next]_vars PROVE WInv'
  OBVIOUS
<1> USE DEF vars, accountVars, tokenVars, linkVars
<1>1. CASE (\E x \in Token \cup Link : Expire(x)) \/ UNCHANGED vars
  BY <1>1, PartsStay DEF Expire
<1>2. ASSUME NEW q \in Request, RequestNext(q) PROVE WInv'
  <2>1. ASSUME NEW r, r.pc # "wallet", req' = [req EXCEPT ![q] = r],
               req[q].pc \notin {"role", "wallet"}, UNCHANGED <<account, partial>>
        PROVE  WInv'
    BY <2>1, OneOther, PartsStay
  <2>2. ASSUME End(q), req[q].pc \notin {"role", "wallet"}, UNCHANGED <<account, partial>>
        PROVE  WInv'
    BY <2>1, <2>2 DEF End, NoRequest
  <2>3. ASSUME NEW pc, pc # "wallet", NEW u, NEW p, NEW of, Begin(q, pc, u, p, of),
               Idle(q), UNCHANGED <<account, partial>>
        PROVE  WInv'
    <3> DEFINE r == [pc |-> pc, first |-> FALSE, user |-> u, password |-> p, of |-> of,
                     overtaken |-> FALSE]
    <3>1. r.pc # "wallet" /\ req[q].pc \notin {"role", "wallet"}
      BY <2>3 DEF Idle, NoRequest
    <3>2. req' = [req EXCEPT ![q] = r]
      BY <2>3 DEF Begin
    <3> HIDE DEF r
    <3> QED
      BY <2>1, <2>3, <3>1, <3>2
  <2>4. ASSUME NEW pc, pc # "wallet", Step(q, pc), req[q].pc \notin {"idle", "role", "wallet"},
               UNCHANGED <<account, partial>>
        PROVE  WInv'
    <3> DEFINE r == [req[q] EXCEPT !.pc = pc]
    <3>1. r.pc # "wallet"
      <4>1. req[q] \in Serving
        BY <2>4, Rows DEF IInv
      <4> QED
        BY <2>4, <4>1 DEF Serving
    <3>2. req' = [req EXCEPT ![q] = r]
      BY <2>4 DEF Step
    <3> HIDE DEF r
    <3> QED
      BY <2>1, <2>4, <3>1, <3>2
  <2>5. ASSUME NEW S \in SUBSET Request, Overtakes(q, S),
               req[q].pc \notin {"role", "wallet"}, partial' = partial,
               \A v \in User : \/ account'[v] = account[v]
                               \/ /\ Known(v)
                                  /\ account'[v].role = account[v].role
                                  /\ account'[v].wallet = account[v].wallet
        PROVE  WInv'
    BY <2>5, OvertakenMakers, PartsStay
  <2>6. CASE \/ \E u \in User : \/ BeginRegister(q, u) \/ Login(q, u) \/ BeginForgot(q, u)
                                \/ BeginChange(q, u) \/ BeginDelete(q, u)
             \/ \E l \in Link : BeginVerify(q, l) \/ BeginReset(q, l)
    BY <2>3, <2>6 DEF BeginRegister, Login, BeginForgot, BeginChange, BeginDelete,
                      BeginVerify, BeginReset
  <2>7. CASE \E t \in Token : Refresh(q, t)
    <3>1. PICK pc, u, p, of : pc \in {"family", "user"} /\ Begin(q, pc, u, p, of)
      BY <2>7 DEF Refresh
    <3> QED
      BY <2>3, <2>7, <3>1 DEF Refresh
  <2>8. CASE CreateUser(q) \/ AssignRole(q) \/ GiveWallet(q)
    BY <2>8, MakingAnAccount
  <2>9. CASE ReadOwner(q) \/ ReadResetOwner(q) \/ CheckPassword(q)
    BY <2>2, <2>4, <2>9 DEF ReadOwner, ReadResetOwner, CheckPassword, At
  <2>10. CASE IssueTokens(q)
    BY <2>2, <2>4, <2>10 DEF IssueTokens, At
  <2>11. CASE SendVerificationEmail(q) \/ ForgotPassword(q)
    BY <2>2, <2>11 DEF SendVerificationEmail, ForgotPassword, SendLink, At
  <2>12. CASE Stop(q)
    <3>1. /\ req' = [req EXCEPT ![q] = NoRequest] /\ UNCHANGED account
          /\ partial' = IF req[q].pc \in {"role", "wallet"} THEN partial \cup {req[q].user}
                        ELSE partial
      BY <2>12 DEF Stop, End
    <3>2. req'[q] = NoRequest /\ \A p \in Request : p # q => req'[p] = req[p]
      BY <3>1 DEF IInv, Typed
    <3>3. \A p \in Request : \A u \in User :
            Making(req[p], u) => Making(req'[p], u) \/ u \in partial'
      BY <3>1, <3>2 DEF Making
    <3>4. \A p \in Request : req'[p].pc = "wallet" =>
            req[p].pc = "wallet" /\ req'[p].user = req[p].user
      BY <3>2 DEF NoRequest
    <3> QED
      BY <3>1, <3>3, <3>4, PartsStay
  <2>13. CASE RotateTokens(q)
    <3>1. PICK S \in SUBSET Request : Overtakes(q, S)
      BY <2>13, Overtaking DEF IInv
    <3> QED
      BY <2>5, <2>13, <3>1 DEF RotateTokens, At
  <2>14. CASE \E t \in Token : Logout(q, t)
    <3>1. PICK S \in SUBSET Request : Overtakes(q, S)
      BY <2>14, Overtaking DEF IInv
    <3>2. UNCHANGED <<account, partial>> /\ req[q].pc \notin {"role", "wallet"}
      BY <2>14 DEF Logout, Idle, NoRequest
    <3> QED
      BY <2>5, <3>1, <3>2
  <2>15. CASE RevokeFamily(q) \/ ChangePassword(q) \/ SoftDeleteAndRevokeSessions(q)
              \/ ResetPassword(q) \/ VerifyEmail(q)
    <3>1. PICK S \in SUBSET Request : Overtakes(q, S)
      BY <2>15, Overtaking
         DEF IInv, RevokeFamily, ChangePassword, SoftDeleteAndRevokeSessions, ResetPassword
    <3>2. req[q].pc \in {"family", "change", "delete", "reset", "verify"} /\ partial' = partial
      BY <2>15 DEF RevokeFamily, ChangePassword, SoftDeleteAndRevokeSessions, ResetPassword,
                   VerifyEmail, At
    <3>3. req[q].user \in User /\ Known(req[q].user)
      <4>1. req[q] \in Serving /\ Fine(req[q])
        BY <3>2, Rows DEF IInv
      <4> QED
        BY <3>2, <4>1 DEF Serving, Fine
    <3>4. \/ UNCHANGED account
          \/ account' = [account EXCEPT ![req[q].user].password = @ + 1]
          \/ account' = [account EXCEPT ![req[q].user].verified = TRUE]
          \/ account' = [account EXCEPT ![req[q].user].status = "DELETED"]
      BY <2>15 DEF RevokeFamily, ChangePassword, SoftDeleteAndRevokeSessions, ResetPassword,
                   VerifyEmail, SetPassword
    <3> QED
      BY <2>5, <3>1, <3>2, <3>3, <3>4, OtherColumns
  <2> QED
    BY <1>2, <2>6, <2>7, <2>8, <2>9, <2>10, <2>11, <2>12, <2>13, <2>14, <2>15 DEF RequestNext
<1> QED
  BY <1>1, <1>2 DEF Next

-----------------------------------------------------------------------------
\* A reset, a change of password, a deletion, a logout and the return of a
\* revoked token close what they should (auth.service.ts:310, 343), for every set
\* of accounts and of requests that overlap, and every number of changes.
THEOREM SessionsStayCurrent == Spec => []SessionsAreCurrent
<1>1. IInv => SessionsAreCurrent
  BY DEF IInv
<1> QED
  BY <1>1, AlwaysFine, PTL

\* refresh leaves one token of a session, for every number of tokens.
THEOREM SessionsGoOnOnce == Spec => []OneTokenASession
<1>1. IInv => OneTokenASession
  BY DEF IInv
<1> QED
  BY <1>1, AlwaysFine, PTL

\* What has been used is refused to whoever comes after (auth.service.ts:221, 284),
\* for every number of links and of requests that present them.
THEOREM LinksAreSpentOnce == Spec => []SpentLinksStaySpent
<1>1. Init => IInv /\ SInv
  BY InitiallyFine DEF Init, SInv, Spending, NoRequest
<1>2. IInv /\ SInv /\ [Next]_vars => (IInv /\ SInv)'
  BY StepPreserves, StepSpendsOnce
<1>3. SInv => SpentLinksStaySpent
  BY DEF SInv, SpentLinksStaySpent
<1> QED
  BY <1>1, <1>2, <1>3, PTL DEF Spec

\* register makes an account in three commits (auth.service.ts:74-80): one that lacks
\* its role or its wallet is being registered or its registration stopped
\* half-way, for every number of registrations of an e-mail at a time.
THEOREM AccountsStayWhole == Spec => []AccountsAreWhole
<1>1. Init => IInv /\ WInv
  BY InitiallyFine DEF Init, WInv, AccountsAreWhole, NoRequest
<1>2. IInv /\ WInv /\ [Next]_vars => (IInv /\ WInv)'
  BY StepPreserves, StepKeepsWhole
<1>3. WInv => AccountsAreWhole
  BY DEF WInv
<1> QED
  BY <1>1, <1>2, <1>3, PTL DEF Spec
=============================================================================
