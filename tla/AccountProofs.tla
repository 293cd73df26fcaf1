--------------------------- MODULE AccountProofs ---------------------------
(***************************************************************************)
(* Theorems about Accounts, for any number of users, e-mails and requests, *)
(* overlapping and interrupted at will: the type invariant and all of the  *)
(* properties of the module.                                               *)
(***************************************************************************)
EXTENDS Accounts, TLAPS

(***************************************************************************)
(* The strengthening.                                                      *)
(***************************************************************************)

\* A request that has drawn or read a secret has one of its user.
Fine(q) ==
  /\ Sound(q)
  /\ q.pc \in {"mail", "verify"} =>
       secrets[q.secret].user = q.user /\ secrets[q.secret].kind = "code"
  /\ q.pc = "reset" =>
       secrets[q.secret].user = q.user /\ secrets[q.secret].kind = "token"

\* What a request that has missed nothing may rely on: nobody has the e-mail it is about
\* to write, its secret is not taken and is of this era, and the row is not there.
Informed(q) ==
  /\ q.pc = "insert" /\ q.email # Null => Holders(q.email) = {}
  /\ q.pc = "update" /\ q.email # Null => Holders(q.email) \subseteq {q.user}
  /\ q.pc \in {"verify", "reset"} => secrets[q.secret].uses = 0
  /\ q.pc = "verify" /\ Listed(q.user) => secrets[q.secret].era = users[q.user].resets
  /\ q.pc = "single" => singles[q.table] = <<>>

RequestsFine == \A r \in Requests : Fine(req[r]) /\ (r \notin missed => Informed(req[r]))

\* The stored code and token are not taken, and are of this era.
UserFine(u) ==
  /\ users[u].otp # 0 => /\ secrets[users[u].otp].uses = 0
                         /\ secrets[users[u].otp].era = users[u].resets
  /\ users[u].token # 0 => /\ secrets[users[u].token].uses = 0
                           /\ \/ secrets[users[u].token].raced
                              \/ secrets[users[u].token].era = users[u].resets

\* What was drawn for a user works, or has an excuse not to.
Works(n) ==
  LET u == secrets[n].user
  IN IF secrets[n].kind = "code" THEN users[u].otp = n /\ users[u].otpFresh
     ELSE users[u].token = n /\ users[u].tokenFresh

Excused(n) == \/ Later(secrets[n].user, n, secrets[n].kind)
              \/ secrets[n].uses > 0 \/ secrets[n].expired \/ secrets[n].raced
              \/ secrets[n].era < users[secrets[n].user].resets

SecretFine(n) ==
  /\ users[secrets[n].user].status # "UNISSUED"
  /\ secrets[n].uses <= 1 \/ secrets[n].raced
  /\ Listed(secrets[n].user) => Works(n) \/ Excused(n)

IInv == /\ TypeOK /\ RequestsFine
        /\ \A u \in Users : UserFine(u)
        /\ \A n \in DOMAIN secrets : SecretFine(n)
        /\ EmailsAreUnique /\ SingletonsStand

\* The same, but for the requests.
DataOK ==
  /\ users \in [Users -> User]
  /\ singles \in [Singles -> Seq(BOOLEAN)]
  /\ secrets \in Seq(Secret)
  /\ \A u \in Users : Drawn(u, users[u].otp, "code") /\ Drawn(u, users[u].token, "token")
  /\ told \in [Users -> [code : Nat, token : Nat]]
  /\ \A u \in Users : Drawn(u, told[u].code, "code") /\ Drawn(u, told[u].token, "token")
  /\ calls \in Nat

DataFine == /\ \A u \in Users : UserFine(u)
            /\ \A n \in DOMAIN secrets : SecretFine(n)
            /\ EmailsAreUnique /\ SingletonsStand

RequestsOK == req \in [Requests -> Request] /\ missed \subseteq Requests /\ RequestsFine

LEMMA Parts == IInv <=> DataOK /\ DataFine /\ RequestsOK
  BY DEF IInv, DataOK, DataFine, RequestsOK, RequestsFine, Fine, TypeOK

LEMMA PartsNext == DataOK' /\ DataFine' /\ RequestsOK' => IInv'
  BY DEF IInv, DataOK, DataFine, RequestsOK, RequestsFine, Fine, TypeOK

LEMMA UserFields ==
  ASSUME NEW w \in User
  PROVE  /\ w.status \in {"UNISSUED", "LISTED", "DELETED"} /\ w.email \in Emails \cup {Null}
         /\ w.otp \in Nat /\ w.otpFresh \in BOOLEAN /\ w.token \in Nat
         /\ w.tokenFresh \in BOOLEAN /\ w.resets \in Nat /\ w.raced \in BOOLEAN
  BY DEF User

LEMMA SecretFields ==
  ASSUME NEW s \in Secret
  PROVE  /\ s.user \in Users /\ s.kind \in {"code", "token"} /\ s.uses \in Nat
         /\ s.expired \in BOOLEAN /\ s.era \in Nat /\ s.raced \in BOOLEAN
  BY DEF Secret

LEMMA SecretTypes ==
  ASSUME DataOK
  PROVE  /\ Len(secrets) \in Nat /\ DOMAIN secrets = 1..Len(secrets)
         /\ \A n \in DOMAIN secrets : secrets[n] \in Secret
  BY DEF DataOK

LEMMA RequestFields ==
  ASSUME NEW q \in Request
  PROVE  /\ q.pc \in Pc /\ q.user \in Users \cup {Null} /\ q.email \in Emails \cup {Null}
         /\ q.secret \in Nat /\ q.table \in Singles
  BY DEF Request

LEMMA IdleFine ==
  /\ Idle \in Request /\ Fine(Idle) /\ Informed(Idle) /\ Idle.pc = "idle"
  BY DEF Idle, Request, Pc, Singles, Fine, Sound, Informed

LEMMA Acting ==
  ASSUME IInv, NEW r \in Requests
  PROVE  /\ req[r] \in Request /\ Fine(req[r])
         /\ req[r].pc \notin {"idle", "insert", "single"} => req[r].user \in Users
         /\ req[r].pc \in {"mail", "verify", "reset"} => req[r].secret \in DOMAIN secrets
         /\ r \notin missed => Informed(req[r])
  BY Parts DEF RequestsOK, RequestsFine, Fine, Sound

\* A step of one request: its new state, and what the others may still rely on.
LEMMA RequestStep ==
  ASSUME IInv, NEW r \in Requests, NEW state \in Request, Go(r, state), missed' \subseteq Requests,
         DataOK', DataFine', Fine(req[r])', r \notin missed' => Informed(req[r])',
         \A p \in Requests \ {r} : Fine(req[p])' /\ (p \notin missed' => Informed(req[p])')
  PROVE  IInv'
<1>1. req' \in [Requests -> Request] BY Parts DEF Go, RequestsOK
<1>2. RequestsFine' BY DEF RequestsFine
<1>. QED BY <1>1, <1>2, PartsNext DEF RequestsOK

\* A step that writes nothing.
LEMMA QuietStep ==
  ASSUME IInv, NEW r \in Requests, NEW state \in Request, Go(r, state), Quiet, calls' \in Nat,
         missed' \subseteq Requests, \A p \in Requests \ {r} : p \in missed => p \in missed',
         Fine(state), r \notin missed' => Informed(state)
  PROVE  IInv'
<1>1. /\ req' \in [Requests -> Request]
      /\ \A p \in Requests : req'[p] = IF p = r THEN state ELSE req[p]
  BY Parts DEF Go, RequestsOK
<1>2. DataOK' BY Parts DEF DataOK, Quiet, Drawn
<1>3. DataFine'
  BY Parts
  DEF DataFine, Quiet, UserFine, SecretFine, Works, Excused, Later, Listed, EmailsAreUnique,
      SingletonsStand
<1>4. ASSUME NEW p \in Requests PROVE Fine(req[p])'
  BY <1>1, Acting DEF Fine, Sound, Quiet
<1>5. ASSUME NEW p \in Requests, p \notin missed' PROVE Informed(req[p])'
  <2>1. p = r \/ Informed(req[p]) BY <1>5, Acting
  <2>. QED BY <1>1, <1>5, <2>1 DEF Informed, Quiet, Holders, Listed
<1>6. RequestsOK' BY <1>1, <1>4, <1>5 DEF RequestsOK, RequestsFine
<1>. QED BY <1>2, <1>3, <1>6, PartsNext

LEMMA Ends ==
  ASSUME IInv, NEW r \in Requests, Go(r, Idle), Quiet, UNCHANGED <<missed, calls>> PROVE IInv'
  BY IdleFine, QuietStep, Parts DEF RequestsOK, DataOK

-----------------------------------------------------------------------------
LEMMA CallsType == ASSUME IInv, NEW r, MayStart(r) PROVE calls' \in Nat
  BY Parts DEF MayStart, DataOK

\* The looks: what a request finds is what it may rely on.
LEMMA LookInv ==
  ASSUME IInv, NEW r \in Requests,
         \/ \E email \in Emails \cup {Null} : CreateLook(r, email)
         \/ \E u \in Users : \E email \in Emails \cup {Null} : UpdateFind(r, u, email)
         \/ \E t \in Singles : SingleFind(r, t)
  PROVE  IInv'
<1>1. MayStart(r) /\ Quiet /\ missed' = missed \ {r}
  BY DEF CreateLook, UpdateFind, SingleFind
<1>2. calls' \in Nat /\ missed' \subseteq Requests BY <1>1, CallsType, Parts DEF RequestsOK
<1>3. ASSUME NEW state \in Request, Go(r, state), Fine(state), Informed(state) PROVE IInv'
  BY <1>1, <1>2, <1>3, QuietStep
<1>4. CASE Go(r, Idle) BY <1>3, <1>4, IdleFine
<1>5. ASSUME NEW email \in Emails \cup {Null}, CreateLook(r, email), ~Go(r, Idle) PROVE IInv'
  <2>. DEFINE state == [Idle EXCEPT !.pc = "insert", !.email = email]
  <2>1. Go(r, state) /\ (email # Null => Holders(email) = {}) BY <1>5 DEF CreateLook
  <2>2. state \in Request /\ state.pc = "insert" /\ state.email = email
    BY DEF Idle, Request, Pc, Singles
  <2>. HIDE DEF state
  <2>. QED BY <1>3, <2>1, <2>2 DEF Fine, Sound, Informed
<1>6. ASSUME NEW u \in Users, NEW email \in Emails \cup {Null}, UpdateFind(r, u, email)
      PROVE  IInv'
  <2>. DEFINE pc == IF email = Null THEN "update" ELSE "look"
              state == [Idle EXCEPT !.pc = pc, !.user = u, !.email = email]
  <2>1. Go(r, state) BY <1>6 DEF UpdateFind
  <2>2. /\ state \in Request /\ state.pc = pc /\ state.user = u /\ state.email = email
    BY DEF Idle, Request, Pc, Singles
  <2>. HIDE DEF state
  <2>. QED BY <1>3, <2>1, <2>2 DEF Fine, Sound, Informed
<1>7. ASSUME NEW t \in Singles, SingleFind(r, t), ~Go(r, Idle) PROVE IInv'
  <2>. DEFINE state == [Idle EXCEPT !.pc = "single", !.table = t]
  <2>1. Go(r, state) /\ singles[t] = <<>> BY <1>7 DEF SingleFind
  <2>2. state \in Request /\ state.pc = "single" /\ state.table = t
    BY DEF Idle, Request, Pc, Singles
  <2>. HIDE DEF state
  <2>. QED BY <1>3, <2>1, <2>2 DEF Fine, Sound, Informed
<1>. QED BY <1>4, <1>5, <1>6, <1>7

LEMMA FindInv ==
  ASSUME IInv, NEW r \in Requests, NEW u \in Users,
         \/ ChangeFind(r, u) \/ DeleteFind(r, u)
         \/ \E email \in Emails : ForgotFind(r, email, u)
  PROVE  IInv'
<1>1. MayStart(r) /\ Quiet /\ missed' = missed BY DEF ChangeFind, DeleteFind, ForgotFind
<1>2. calls' \in Nat /\ missed' \subseteq Requests BY <1>1, CallsType, Parts DEF RequestsOK
<1>3. PICK pc \in {"change", "delete", "forgot"} : Go(r, [Idle EXCEPT !.pc = pc, !.user = u])
  BY DEF ChangeFind, DeleteFind, ForgotFind
<1>. DEFINE state == [Idle EXCEPT !.pc = pc, !.user = u]
<1>4. Go(r, state) BY <1>3
<1>5. state \in Request /\ state.pc = pc /\ state.user = u
  BY DEF Idle, Request, Pc, Singles
<1>. HIDE DEF state
<1>6. Fine(state) /\ Informed(state) BY <1>5 DEF Fine, Sound, Informed
<1>. QED BY <1>1, <1>2, <1>4, <1>5, <1>6, QuietStep

\* A code, or a token, that is stored may be taken.
LEMMA SecretFindInv ==
  ASSUME IInv, NEW r \in Requests, NEW u \in Users,
         ResetFind(r, u) \/ \E email \in Emails : VerifyFind(r, email, u)
  PROVE  IInv'
<1>1. MayStart(r) /\ Quiet /\ missed' = missed \ {r} BY DEF ResetFind, VerifyFind
<1>2. calls' \in Nat /\ missed' \subseteq Requests BY <1>1, CallsType, Parts DEF RequestsOK
<1>3. /\ users[u] \in User /\ UserFine(u)
      /\ Drawn(u, users[u].otp, "code") /\ Drawn(u, users[u].token, "token")
  BY Parts DEF DataOK, DataFine
<1>4. users[u].otp \in Nat /\ users[u].token \in Nat BY <1>3, UserFields
<1>5. CASE ResetFind(r, u)
  <2>. DEFINE n == users[u].token
              state == [Idle EXCEPT !.pc = "reset", !.user = u, !.secret = n]
  <2>1. Go(r, state) /\ n # 0 BY <1>5 DEF ResetFind
  <2>2. state \in Request /\ state.pc = "reset" /\ state.user = u /\ state.secret = n
    BY <1>4 DEF Idle, Request, Pc, Singles
  <2>3. n \in DOMAIN secrets /\ secrets[n].user = u /\ secrets[n].kind = "token" /\ secrets[n].uses = 0
    BY <1>3, <2>1 DEF Drawn, UserFine
  <2>. HIDE DEF state, n
  <2>4. Fine(state) /\ Informed(state) BY <2>2, <2>3 DEF Fine, Sound, Informed
  <2>. QED BY <1>1, <1>2, <2>1, <2>2, <2>4, QuietStep
<1>6. ASSUME NEW email \in Emails, VerifyFind(r, email, u) PROVE IInv'
  <2>. DEFINE n == users[u].otp
              state == [Idle EXCEPT !.pc = "verify", !.user = u, !.secret = n]
  <2>1. Go(r, state) /\ n # 0 BY <1>6 DEF VerifyFind
  <2>2. state \in Request /\ state.pc = "verify" /\ state.user = u /\ state.secret = n
    BY <1>4 DEF Idle, Request, Pc, Singles
  <2>3. /\ n \in DOMAIN secrets /\ secrets[n].user = u /\ secrets[n].kind = "code"
        /\ secrets[n].uses = 0 /\ secrets[n].era = users[u].resets
    BY <1>3, <2>1 DEF Drawn, UserFine
  <2>. HIDE DEF state, n
  <2>4. Fine(state) /\ Informed(state) BY <2>2, <2>3 DEF Fine, Sound, Informed
  <2>. QED BY <1>1, <1>2, <2>1, <2>2, <2>4, QuietStep
<1>. QED BY <1>5, <1>6

LEMMA UpdateLookInv ==
  ASSUME IInv, NEW r \in Requests, UpdateLook(r), UNCHANGED calls PROVE IInv'
<1>. DEFINE q == req[r]
            state == [q EXCEPT !.pc = "update"]
<1>1. /\ q.pc = "look" /\ Quiet /\ (Go(r, Idle) \/ Go(r, state))
      /\ missed' = IF Holders(q.email) \subseteq {q.user} THEN missed \ {r} ELSE missed \cup {r}
  BY DEF UpdateLook
<1>2. calls' \in Nat /\ missed' \subseteq Requests /\ \A p \in Requests \ {r} : p \in missed => p \in missed'
  BY <1>1, Parts DEF RequestsOK, DataOK
<1>3. CASE Go(r, Idle) BY <1>1, <1>2, <1>3, IdleFine, QuietStep
<1>4. CASE Go(r, state)
  <2>1. q \in Request /\ q.user \in Users BY <1>1, Acting
  <2>2. state \in Request /\ state.pc = "update" /\ state.user = q.user /\ state.email = q.email
    BY <2>1 DEF Request, Pc
  <2>. HIDE DEF state
  <2>3. Fine(state) /\ (r \notin missed' => Informed(state))
    BY <1>1, <2>1, <2>2 DEF Fine, Sound, Informed
  <2>. QED BY <1>1, <1>2, <1>4, <2>2, <2>3, QuietStep
<1>. QED BY <1>1, <1>3, <1>4

-----------------------------------------------------------------------------
(***************************************************************************)
(* Users.                                                                  *)
(***************************************************************************)

\* User u becomes w: with the secrets as they were, or with none, when there were none or
\* the user is gone.
LEMMA UserWritten ==
  ASSUME IInv, NEW u \in Users, NEW w \in User, users' = [users EXCEPT ![u] = w],
         UNCHANGED <<singles, secrets, told, calls>>,
         \/ /\ w.status = users[u].status /\ w.resets = users[u].resets
            /\ w.otp = users[u].otp /\ w.otpFresh = users[u].otpFresh
            /\ w.token = users[u].token /\ w.tokenFresh = users[u].tokenFresh
         \/ /\ w.otp = 0 /\ w.token = 0
            /\ \/ users[u].status = "UNISSUED" /\ w.status = "LISTED"
               \/ w.status = "DELETED"
  PROVE  /\ DataOK' /\ SingletonsStand'
         /\ \A v \in Users : UserFine(v)'
         /\ \A n \in DOMAIN secrets' : SecretFine(n)'
<1>1. DataOK /\ DataFine BY Parts
<1>2. users' \in [Users -> User] /\ \A v \in Users : users'[v] = IF v = u THEN w ELSE users[v]
  BY <1>1 DEF DataOK
<1>3. DataOK' BY <1>1, <1>2 DEF DataOK, Drawn
<1>4. SingletonsStand' BY <1>1 DEF DataFine, SingletonsStand
<1>5. ASSUME NEW v \in Users PROVE UserFine(v)' BY <1>1, <1>2 DEF DataFine, UserFine
<1>6. ASSUME NEW n \in DOMAIN secrets PROVE SecretFine(n)'
  <2>1. SecretFine(n) /\ secrets[n].user \in Users
    BY <1>1, SecretTypes, SecretFields DEF DataFine
  <2>2. CASE secrets[n].user # u
    BY <1>2, <2>1, <2>2 DEF SecretFine, Works, Excused, Later, Listed
  <2>3. CASE secrets[n].user = u
    BY <1>2, <2>1, <2>3 DEF SecretFine, Works, Excused, Later, Listed
  <2>. QED BY <2>2, <2>3
<1>. QED BY <1>3, <1>4, <1>5, <1>6

\* What another request relies on stands, when it notices that its e-mail is written.
LEMMA OthersAfterUser ==
  ASSUME IInv, NEW r \in Requests, NEW u \in Users, NEW w \in User,
         users' = [users EXCEPT ![u] = w], UNCHANGED <<singles, secrets>>,
         w.resets = users[u].resets \/ users[u].status = "UNISSUED" \/ w.status # "LISTED",
         w.status = "LISTED" => users[u].status \in {"UNISSUED", "LISTED"},
         \/ w.status # "LISTED" \/ w.email = Null
         \/ w.email = users[u].email /\ users[u].status = "LISTED"
         \/ Writers(r, w.email) \subseteq missed',
         NEW p \in Requests \ {r}, req'[p] = req[p], missed \subseteq missed'
  PROVE  Fine(req[p])' /\ (p \notin missed' => Informed(req[p])')
<1>. DEFINE q == req[p]
<1>1. users' \in [Users -> User] /\ \A v \in Users : users'[v] = IF v = u THEN w ELSE users[v]
  BY Parts DEF DataOK
<1>2. Fine(req[p])' BY Acting DEF Fine, Sound
<1>3. ASSUME p \notin missed' PROVE Informed(req[p])'
  <2>1. Informed(q) /\ q \in Request /\ Fine(q) BY <1>3, Acting
  <2>2. \A e \in Emails : (q.pc \in {"insert", "update"} /\ q.email = e) =>
          Holders(e)' \subseteq Holders(e)
    <3>1. ASSUME NEW e \in Emails, q.pc \in {"insert", "update"}, q.email = e,
                 w.status = "LISTED", w.email = e
          PROVE  u \in Holders(e)
      <4>1. e # Null BY AccountAssumption
      <4>2. p \in Writers(r, e) BY <3>1, <4>1 DEF Writers
      <4>. QED BY <1>3, <3>1, <4>1, <4>2 DEF Holders, Listed
    <3>. QED BY <1>1, <3>1 DEF Holders, Listed
  <2>3. q.email \in Emails \cup {Null} BY <2>1, RequestFields
  <2>4. q.pc = "verify" /\ (Listed(q.user))' => secrets[q.secret].era = users'[q.user].resets
    <3>1. ASSUME q.pc = "verify", users'[q.user].status = "LISTED"
          PROVE  secrets[q.secret].era = users'[q.user].resets
      <4>1. /\ q.user \in Users /\ q.secret \in DOMAIN secrets /\ secrets[q.secret].user = q.user
            /\ users[q.user].status # "UNISSUED"
        BY <3>1, Acting, Parts DEF Fine, DataFine, SecretFine
      <4>2. CASE q.user # u BY <1>1, <2>1, <3>1, <4>1, <4>2 DEF Informed, Listed
      <4>3. CASE q.user = u BY <1>1, <2>1, <3>1, <4>1, <4>3 DEF Informed, Listed
      <4>. QED BY <4>2, <4>3
    <3>. QED BY <3>1, <1>1 DEF Listed
  <2>. QED BY <2>1, <2>2, <2>3, <2>4 DEF Informed
<1>. QED BY <1>2, <1>3

\* An e-mail is written by a request that has missed nothing, or the user is raced.
LEMMA EmailsWritten ==
  ASSUME IInv, NEW u \in Users, NEW w \in User, users' = [users EXCEPT ![u] = w],
         \/ w.status # "LISTED" \/ w.email = Null \/ w.raced
         \/ Holders(w.email) \subseteq {u}
         \/ w.email = users[u].email /\ w.raced = users[u].raced /\ users[u].status = "LISTED"
  PROVE  EmailsAreUnique'
<1>1. \A v \in Users : users'[v] = IF v = u THEN w ELSE users[v] BY Parts DEF DataOK
<1>2. EmailsAreUnique BY DEF IInv
<1>. QED BY <1>1, <1>2 DEF EmailsAreUnique, Holders, Listed

LEMMA InsertInv ==
  ASSUME IInv, NEW r \in Requests, NEW u \in Users, Insert(r, u), UNCHANGED calls PROVE IInv'
<1>. DEFINE q == req[r]
            late == r \in missed
            w == [NewUser(q.email) EXCEPT !.raced = late]
            state == [Idle EXCEPT !.pc = "slug", !.user = u]
<1>1. /\ q.pc = "insert" /\ users[u].status = "UNISSUED" /\ users' = [users EXCEPT ![u] = w]
      /\ missed' = missed \cup Writers(r, q.email) /\ Go(r, state)
      /\ UNCHANGED <<singles, secrets, told>>
  BY DEF Insert
<1>2. q \in Request /\ q.email \in Emails \cup {Null} BY Acting, RequestFields
<1>3. late \/ q.email = Null \/ Holders(q.email) = {} BY <1>1, Acting DEF Informed
<1>4. late \in BOOLEAN OBVIOUS
<1>. HIDE DEF late
<1>5. /\ w \in User /\ w.status = "LISTED" /\ w.email = q.email /\ w.raced = late
      /\ w.otp = 0 /\ w.token = 0
  BY <1>2, <1>4 DEF NewUser, User
<1>6. state \in Request /\ state.pc = "slug" /\ state.user = u
  BY DEF Idle, Request, Pc, Singles
<1>. HIDE DEF w, state
<1>7. /\ DataOK' /\ SingletonsStand' /\ \A v \in Users : UserFine(v)'
      /\ \A n \in DOMAIN secrets' : SecretFine(n)'
  BY <1>1, <1>5, UserWritten
<1>8. EmailsAreUnique' BY <1>1, <1>3, <1>5, EmailsWritten
<1>9. DataFine' BY <1>7, <1>8 DEF DataFine
<1>10. /\ req' \in [Requests -> Request]
       /\ \A p \in Requests : req'[p] = IF p = r THEN state ELSE req[p]
       /\ missed \subseteq missed' /\ missed' \subseteq Requests
  BY <1>1, <1>6, Parts DEF Go, RequestsOK, Writers
<1>11. ASSUME NEW p \in Requests \ {r}
       PROVE  Fine(req[p])' /\ (p \notin missed' => Informed(req[p])')
  <2>1. req'[p] = req[p] /\ Writers(r, w.email) \subseteq missed' BY <1>1, <1>5, <1>10
  <2>. QED BY <1>1, <1>5, <1>10, <2>1, OthersAfterUser
<1>12. Fine(req[r])' /\ Informed(req[r])' BY <1>6, <1>10 DEF Fine, Sound, Informed
<1>. QED BY <1>1, <1>6, <1>7, <1>9, <1>10, <1>11, <1>12, RequestStep

\* A write of one user by the request that ends with it.
LEMMA UserEnds ==
  ASSUME IInv, NEW r \in Requests, NEW u \in Users, NEW w \in User,
         users' = [users EXCEPT ![u] = w], UNCHANGED <<singles, secrets, told, calls>>,
         users[u].status = "LISTED", Go(r, Idle),
         missed \subseteq missed', missed' \subseteq Requests,
         \/ w.status = "DELETED" /\ w.otp = 0 /\ w.token = 0
         \/ /\ w.status = "LISTED" /\ w.resets = users[u].resets
            /\ w.otp = users[u].otp /\ w.otpFresh = users[u].otpFresh
            /\ w.token = users[u].token /\ w.tokenFresh = users[u].tokenFresh
            /\ w.email = Null \/ w.raced \/ Holders(w.email) \subseteq {u}
            /\ Writers(r, w.email) \subseteq missed'
  PROVE  IInv'
<1>1. /\ DataOK' /\ SingletonsStand' /\ \A v \in Users : UserFine(v)'
      /\ \A n \in DOMAIN secrets' : SecretFine(n)'
  BY UserWritten
<1>2. EmailsAreUnique' BY EmailsWritten
<1>3. DataFine' BY <1>1, <1>2 DEF DataFine
<1>4. \A p \in Requests : req'[p] = IF p = r THEN Idle ELSE req[p]
  BY Parts DEF Go, RequestsOK
<1>5. ASSUME NEW p \in Requests \ {r}
      PROVE  Fine(req[p])' /\ (p \notin missed' => Informed(req[p])')
  <2>1. req'[p] = req[p] BY <1>4
  <2>. QED BY <2>1, OthersAfterUser
<1>6. Fine(req[r])' /\ Informed(req[r])' BY <1>4 DEF Idle, Fine, Sound, Informed
<1>. QED BY <1>1, <1>3, <1>5, <1>6, IdleFine, RequestStep

LEMMA UpdateWriteInv ==
  ASSUME IInv, NEW r \in Requests, UpdateWrite(r), UNCHANGED calls PROVE IInv'
<1>. DEFINE q == req[r]
            u == q.user
            late == r \in missed
            w == [users[u] EXCEPT !.email = q.email, !.raced = late]
<1>1. /\ q.pc = "update" /\ users[u].status = "LISTED" /\ Go(r, Idle)
      /\ missed' = missed \cup Writers(r, q.email) /\ UNCHANGED <<singles, secrets, told>>
  BY DEF UpdateWrite, Listed
<1>2. q \in Request /\ q.email \in Emails \cup {Null} /\ u \in Users
  BY <1>1, Acting, RequestFields
<1>3. users[u] \in User BY <1>2, Parts DEF DataOK
<1>4. CASE q.email = Null
  <2>1. Quiet /\ missed' = missed BY <1>1, <1>4 DEF UpdateWrite, Quiet, Writers
  <2>. QED BY <1>1, <2>1, Ends
<1>5. CASE q.email # Null
  <2>1. users' = [users EXCEPT ![u] = w]
    <3>1. users' = [users EXCEPT ![u].email = q.email, ![u].raced = late]
      BY <1>5 DEF UpdateWrite
    <3>. QED BY <1>2, <1>3, <3>1, Parts DEF DataOK, User
  <2>2. late \/ Holders(q.email) \subseteq {u} BY <1>1, <1>5, Acting DEF Informed
  <2>3. late \in BOOLEAN OBVIOUS
  <2>. HIDE DEF late
  <2>4. /\ w \in User /\ w.status = "LISTED" /\ w.resets = users[u].resets
        /\ w.otp = users[u].otp /\ w.otpFresh = users[u].otpFresh
        /\ w.token = users[u].token /\ w.tokenFresh = users[u].tokenFresh
        /\ w.email = q.email /\ w.raced = late
    BY <1>1, <1>2, <1>3, <2>3 DEF User
  <2>. HIDE DEF w
  <2>5. missed \subseteq missed' /\ missed' \subseteq Requests /\ Writers(r, w.email) \subseteq missed'
    BY <1>1, <2>4, Parts DEF RequestsOK, Writers
  <2>. QED BY <1>1, <1>2, <2>1, <2>2, <2>4, <2>5, UserEnds
<1>. QED BY <1>4, <1>5

LEMMA DeleteWriteInv ==
  ASSUME IInv, NEW r \in Requests, DeleteWrite(r), UNCHANGED calls PROVE IInv'
<1>. DEFINE u == req[r].user
            w == [Unissued EXCEPT !.status = "DELETED"]
<1>1. /\ req[r].pc = "delete" /\ users[u].status = "LISTED" /\ Go(r, Idle)
      /\ users' = [users EXCEPT ![u] = w] /\ UNCHANGED <<singles, secrets, told, missed>>
  BY DEF DeleteWrite, Listed
<1>2. u \in Users BY <1>1, Acting
<1>3. w \in User /\ w.status = "DELETED" /\ w.otp = 0 /\ w.token = 0
  BY DEF Unissued, NewUser, User
<1>. HIDE DEF w
<1>. QED BY <1>1, <1>2, <1>3, UserEnds, Parts DEF RequestsOK

-----------------------------------------------------------------------------
(***************************************************************************)
(* Codes and tokens.                                                       *)
(***************************************************************************)

\* What is drawn stays, and only user u's secrets change: they are taken, expire or are lost.
Grows(u) ==
  /\ secrets' \in Seq(Secret) /\ DOMAIN secrets \subseteq DOMAIN secrets'
  /\ \A n \in DOMAIN secrets :
       /\ secrets'[n].user = secrets[n].user /\ secrets'[n].kind = secrets[n].kind
       /\ secrets'[n].era = secrets[n].era /\ secrets'[n].uses >= secrets[n].uses
       /\ secrets[n].raced => secrets'[n].raced
       /\ secrets[n].expired => secrets'[n].expired
       /\ secrets[n].user # u => secrets'[n] = secrets[n]
  /\ \A n \in DOMAIN secrets' \ DOMAIN secrets : secrets'[n].user = u

\* User u becomes w, and only the code, the token and the number of resets change.
Recovers(u, w) ==
  /\ users' = [users EXCEPT ![u] = w]
  /\ users[u].status = "LISTED" /\ w.status = "LISTED"
  /\ w.email = users[u].email /\ w.raced = users[u].raced /\ w.resets >= users[u].resets

\* What excuses a secret is not taken back.
LEMMA StillExcused ==
  ASSUME IInv, NEW u \in Users, NEW w \in User, Recovers(u, w), Grows(u),
         NEW n \in DOMAIN secrets, Excused(n)
  PROVE  Excused(n)'
<1>1. DataOK /\ users[u] \in User BY Parts DEF DataOK
<1>2. secrets[n] \in Secret /\ secrets'[n] \in Secret /\ secrets[n].user \in Users
  BY <1>1, SecretTypes, SecretFields DEF Grows
<1>3. /\ secrets[n].uses \in Nat /\ secrets'[n].uses \in Nat /\ secrets[n].era \in Nat
      /\ w.resets \in Nat /\ users[u].resets \in Nat
  BY <1>1, <1>2, SecretFields, UserFields
<1>4. users'[secrets[n].user].resets =
        IF secrets[n].user = u THEN w.resets ELSE users[secrets[n].user].resets
  BY <1>1, <1>2 DEF Recovers, DataOK
<1>5. secrets[n].era < users[secrets[n].user].resets =>
        secrets'[n].era < users'[secrets'[n].user].resets
  <2>1. secrets'[n].user = secrets[n].user /\ secrets'[n].era = secrets[n].era BY DEF Grows
  <2>2. CASE secrets[n].user = u BY <1>3, <1>4, <2>1, <2>2 DEF Recovers
  <2>3. CASE secrets[n].user # u BY <1>4, <2>1, <2>3
  <2>. QED BY <2>2, <2>3
<1>6. secrets[n].uses > 0 => secrets'[n].uses > 0 BY <1>3 DEF Grows
<1>7. Later(secrets[n].user, n, secrets[n].kind) =>
        \E k \in DOMAIN secrets' : /\ k > n /\ secrets'[k].user = secrets'[n].user
                                   /\ secrets'[k].kind = secrets'[n].kind
  BY DEF Later, Grows
<1>. QED BY <1>5, <1>6, <1>7 DEF Excused, Later, Grows

\* What is to be shown of such a step is about user u only.
LEMMA RecoveryStep ==
  ASSUME IInv, NEW u \in Users, NEW w \in User, Recovers(u, w), Grows(u),
         UNCHANGED singles, calls' \in Nat,
         told' \in [Users -> [code : Nat, token : Nat]],
         \A v \in Users : v # u => told'[v] = told[v],
         \A n \in {w.otp, told'[u].code} \ {0} :
           n \in DOMAIN secrets' /\ secrets'[n].user = u /\ secrets'[n].kind = "code",
         \A n \in {w.token, told'[u].token} \ {0} :
           n \in DOMAIN secrets' /\ secrets'[n].user = u /\ secrets'[n].kind = "token",
         UserFine(u)',
         \A n \in DOMAIN secrets' : secrets'[n].user = u => SecretFine(n)'
  PROVE  DataOK' /\ DataFine'
<1>1. DataOK /\ DataFine BY Parts
<1>2. users' \in [Users -> User] /\ \A v \in Users : users'[v] = IF v = u THEN w ELSE users[v]
  BY <1>1 DEF DataOK, Recovers
<1>3. ASSUME NEW v \in Users
      PROVE  /\ Drawn(v, users[v].otp, "code")' /\ Drawn(v, users[v].token, "token")'
             /\ Drawn(v, told[v].code, "code")' /\ Drawn(v, told[v].token, "token")'
  <2>1. CASE v = u BY <1>2, <2>1 DEF Drawn
  <2>2. CASE v # u
    <3>1. /\ Drawn(v, users[v].otp, "code") /\ Drawn(v, users[v].token, "token")
          /\ Drawn(v, told[v].code, "code") /\ Drawn(v, told[v].token, "token")
      BY <1>1 DEF DataOK
    <3>2. users'[v] = users[v] /\ told'[v] = told[v] BY <1>2, <2>2
    <3>. QED BY <3>1, <3>2 DEF Drawn, Grows
  <2>. QED BY <2>1, <2>2
<1>4. DataOK' BY <1>1, <1>2, <1>3 DEF DataOK, Grows
<1>5. ASSUME NEW v \in Users, v # u PROVE UserFine(v)'
  <2>1. /\ UserFine(v) /\ users'[v] = users[v]
        /\ Drawn(v, users[v].otp, "code") /\ Drawn(v, users[v].token, "token")
    BY <1>1, <1>2, <1>5 DEF DataOK, DataFine
  <2>. QED BY <1>5, <2>1 DEF UserFine, Drawn, Grows
<1>6. ASSUME NEW n \in DOMAIN secrets', secrets'[n].user # u PROVE SecretFine(n)'
  <2>1. n \in DOMAIN secrets /\ secrets'[n] = secrets[n] /\ secrets[n].user # u
    BY <1>6 DEF Grows
  <2>2. SecretFine(n) /\ secrets[n].user \in Users
    BY <1>1, <2>1, SecretTypes, SecretFields DEF DataFine
  <2>3. users'[secrets[n].user] = users[secrets[n].user] BY <1>2, <2>1, <2>2
  <2>4. Excused(n) => Excused(n)' BY <2>1, StillExcused
  <2>. QED BY <2>1, <2>2, <2>3, <2>4 DEF SecretFine, Works, Listed
<1>7. EmailsAreUnique' BY EmailsWritten DEF Recovers
<1>8. SingletonsStand' BY <1>1 DEF DataFine, SingletonsStand
<1>. QED BY <1>4, <1>5, <1>6, <1>7, <1>8 DEF DataFine

\* What another request relies on stands, or it notices that its secret may be taken.
LEMMA OthersAfterRecovery ==
  ASSUME IInv, NEW u \in Users, NEW w \in User, Recovers(u, w), Grows(u), UNCHANGED singles,
         NEW p \in Requests, req'[p] = req[p], missed \subseteq missed',
         \/ /\ w.resets = users[u].resets
            /\ \A n \in DOMAIN secrets : secrets'[n].uses = secrets[n].uses
         \/ req[p].pc \in {"verify", "reset"} /\ req[p].user = u => p \in missed'
  PROVE  Fine(req[p])' /\ (p \notin missed' => Informed(req[p])')
<1>. DEFINE q == req[p]
<1>1. \A v \in Users : users'[v] = IF v = u THEN w ELSE users[v] BY Parts DEF DataOK, Recovers
<1>2. Fine(q) BY Acting
<1>3. Fine(req[p])' BY <1>2 DEF Fine, Sound, Grows
<1>4. ASSUME p \notin missed' PROVE Informed(req[p])'
  <2>1. Informed(q) /\ q \in Request BY <1>4, Acting
  <2>2. \A e \in Emails \cup {Null} : Holders(e)' = Holders(e)
    BY <1>1 DEF Recovers, Holders, Listed
  <2>3. q.email \in Emails \cup {Null} BY <2>1, RequestFields
  <2>4. ASSUME q.pc \in {"verify", "reset"}
        PROVE  /\ secrets'[q.secret].uses = 0
               /\ q.pc = "verify" /\ users'[q.user].status = "LISTED" =>
                    secrets'[q.secret].era = users'[q.user].resets
    <3>1. q.user \in Users /\ q.secret \in DOMAIN secrets /\ secrets[q.secret].user = q.user
      BY <1>2, <2>4 DEF Fine, Sound
    <3>2. CASE q.user # u BY <1>1, <2>1, <2>4, <3>1, <3>2 DEF Informed, Grows, Listed
    <3>3. CASE q.user = u
      <4>1. w.resets = users[u].resets /\ \A n \in DOMAIN secrets : secrets'[n].uses = secrets[n].uses
        BY <1>4, <2>4, <3>3
      <4>. QED BY <1>1, <2>1, <2>4, <3>1, <3>3, <4>1 DEF Informed, Grows, Listed, Recovers
    <3>. QED BY <3>2, <3>3
  <2>. QED BY <2>1, <2>2, <2>3, <2>4 DEF Informed, Listed
<1>. QED BY <1>3, <1>4

\* The secrets of a request.
LEMMA Belongs ==
  ASSUME IInv, NEW u \in Users
  PROVE  /\ users[u] \in User /\ UserFine(u)
         /\ users[u].otp \in Nat /\ users[u].token \in Nat /\ users[u].resets \in Nat
         /\ told[u].code \in Nat /\ told[u].token \in Nat
         /\ \A n \in {users[u].otp, told[u].code} \ {0} :
              n \in DOMAIN secrets /\ secrets[n].user = u /\ secrets[n].kind = "code"
         /\ \A n \in {users[u].token, told[u].token} \ {0} :
              n \in DOMAIN secrets /\ secrets[n].user = u /\ secrets[n].kind = "token"
<1>1. users[u] \in User /\ UserFine(u) /\ told[u] \in [code : Nat, token : Nat]
  BY Parts DEF DataOK, DataFine
<1>2. /\ Drawn(u, users[u].otp, "code") /\ Drawn(u, users[u].token, "token")
      /\ Drawn(u, told[u].code, "code") /\ Drawn(u, told[u].token, "token")
  BY Parts DEF DataOK
<1>. QED BY <1>1, <1>2, UserFields DEF Drawn

LEMMA ForgotWriteInv ==
  ASSUME IInv, NEW r \in Requests, NEW u \in Users, u = req[r].user, ForgotWrite(r),
         UNCHANGED calls
  PROVE  IInv'
<1>. DEFINE q == req[r]
            m == Len(secrets) + 1
            s == [user |-> u, kind |-> "code", uses |-> 0, expired |-> FALSE,
                  era |-> users[u].resets, raced |-> FALSE]
            w == [users[u] EXCEPT !.otp = m, !.otpFresh = TRUE]
            state == [q EXCEPT !.pc = "mail", !.secret = m]
<1>1. /\ q.pc = "forgot" /\ users[u].status = "LISTED" /\ secrets' = Append(secrets, s)
      /\ missed' = missed \cup Others(r, {"verify"}, u)
      /\ UNCHANGED <<singles, told>>
  BY DEF ForgotWrite, Draw, Listed
<1>2. q \in Request /\ u \in Users BY <1>1, Acting
<1>3. /\ Len(secrets) \in Nat /\ DOMAIN secrets = 1..Len(secrets) /\ secrets \in Seq(Secret)
      /\ \A n \in DOMAIN secrets : secrets[n] \in Secret
  BY SecretTypes, Parts DEF DataOK
<1>4. /\ users[u] \in User /\ UserFine(u) /\ users[u].resets \in Nat
  BY <1>2, Belongs
<1>5. s \in Secret BY <1>2, <1>4 DEF Secret
<1>6. /\ Len(secrets') = m /\ m \in Nat /\ m # 0 /\ m \notin DOMAIN secrets
      /\ DOMAIN secrets' = 1..m
      /\ secrets' \in Seq(Secret) /\ secrets'[m] = s
      /\ \A n \in DOMAIN secrets : secrets'[n] = secrets[n]
  BY <1>1, <1>3, <1>5
<1>7. DOMAIN secrets' = DOMAIN secrets \cup {m} BY <1>3, <1>6
<1>8. users' = [users EXCEPT ![u] = w] /\ Go(r, state)
  <2>1. /\ users' = [users EXCEPT ![u].otp = m, ![u].otpFresh = TRUE]
        /\ Go(r, [q EXCEPT !.pc = "mail", !.secret = m])
    BY <1>6 DEF ForgotWrite
  <2>. QED BY <1>2, <1>4, <2>1, Parts DEF DataOK, User
<1>9. /\ w \in User /\ w.status = "LISTED" /\ w.email = users[u].email
      /\ w.raced = users[u].raced /\ w.resets = users[u].resets
      /\ w.otp = m /\ w.otpFresh = TRUE
      /\ w.token = users[u].token /\ w.tokenFresh = users[u].tokenFresh
  BY <1>1, <1>4, <1>6 DEF User
<1>10. /\ state \in Request /\ state.pc = "mail" /\ state.user = u /\ state.secret = m
  BY <1>2, <1>6 DEF Request, Pc
<1>11. /\ s.user = u /\ s.kind = "code" /\ s.uses = 0 /\ s.era = users[u].resets
  OBVIOUS
<1>. HIDE DEF state, w, s, m
<1>12. Recovers(u, w) BY <1>1, <1>4, <1>8, <1>9 DEF Recovers
<1>13. Grows(u)
  <2>1. \A n \in DOMAIN secrets : secrets'[n].uses >= secrets[n].uses
    BY <1>3, <1>6, SecretFields
  <2>2. \A n \in DOMAIN secrets : secrets'[n] = secrets[n] BY <1>6
  <2>3. \A n \in DOMAIN secrets' \ DOMAIN secrets : secrets'[n].user = u BY <1>6, <1>7, <1>11
  <2>. QED BY <1>6, <1>7, <2>1, <2>2, <2>3 DEF Grows
<1>14. users'[u] = w BY <1>2, <1>8, Parts DEF DataOK
<1>15. UserFine(u)'
  <2>1. w.token # 0 => secrets'[w.token] = secrets[w.token] BY <1>2, <1>6, <1>9, Belongs
  <2>2. secrets'[w.otp].uses = 0 /\ secrets'[w.otp].era = w.resets BY <1>6, <1>9, <1>11
  <2>. QED BY <1>4, <1>9, <1>14, <2>1, <2>2 DEF UserFine
<1>16. ASSUME NEW n \in DOMAIN secrets', secrets'[n].user = u PROVE SecretFine(n)'
  <2>1. CASE n = m BY <1>6, <1>9, <1>11, <1>14, <2>1 DEF SecretFine, Works
  <2>2. CASE n \in DOMAIN secrets
    <3>1. SecretFine(n) /\ secrets'[n] = secrets[n] /\ secrets[n].kind \in {"code", "token"}
      BY <1>3, <1>6, <2>2, Parts, SecretFields DEF DataFine
    <3>2. Excused(n) => Excused(n)' BY <1>2, <1>9, <1>12, <1>13, <2>2, StillExcused
    <3>3. secrets[n].kind = "code" => Excused(n)'
      BY <1>3, <1>6, <1>7, <1>11, <1>16, <2>2, <3>1 DEF Excused, Later
    <3>4. secrets[n].kind = "token" /\ Works(n) => Works(n)'
      BY <1>9, <1>14, <1>16, <3>1 DEF Works
    <3>. QED BY <1>1, <1>9, <1>14, <1>16, <3>1, <3>2, <3>3, <3>4 DEF SecretFine, Listed
  <2>. QED BY <1>7, <2>1, <2>2
<1>17. DataOK' /\ DataFine'
  <2>1. told' \in [Users -> [code : Nat, token : Nat]] /\ calls' \in Nat
    BY <1>1, Parts DEF DataOK
  <2>2. \A n \in {w.otp, told'[u].code} \ {0} :
          n \in DOMAIN secrets' /\ secrets'[n].user = u /\ secrets'[n].kind = "code"
    BY <1>1, <1>2, <1>6, <1>7, <1>9, <1>11, Belongs
  <2>3. \A n \in {w.token, told'[u].token} \ {0} :
          n \in DOMAIN secrets' /\ secrets'[n].user = u /\ secrets'[n].kind = "token"
    BY <1>1, <1>2, <1>6, <1>7, <1>9, Belongs
  <2>4. \A v \in Users : v # u => told'[v] = told[v] BY <1>1
  <2>. QED BY <1>1, <1>2, <1>9, <1>12, <1>13, <1>15, <1>16, <2>1, <2>2, <2>3, <2>4, RecoveryStep
<1>18. /\ \A p \in Requests : req'[p] = IF p = r THEN state ELSE req[p]
       /\ missed \subseteq missed' /\ missed' \subseteq Requests
  BY <1>1, <1>8, Parts DEF Go, RequestsOK, Others
<1>19. ASSUME NEW p \in Requests \ {r}
       PROVE  Fine(req[p])' /\ (p \notin missed' => Informed(req[p])')
  BY <1>1, <1>2, <1>6, <1>9, <1>12, <1>13, <1>18, OthersAfterRecovery
<1>20. Fine(req[r])' /\ Informed(req[r])'
  BY <1>2, <1>6, <1>7, <1>10, <1>11, <1>18 DEF Fine, Sound, Informed
<1>. QED BY <1>8, <1>10, <1>17, <1>18, <1>19, <1>20, RequestStep

LEMMA MailInv ==
  ASSUME IInv, NEW r \in Requests, Mail(r), UNCHANGED calls PROVE IInv'
<1>. DEFINE u == req[r].user
            n == req[r].secret
<1>1. /\ req[r].pc = "mail" /\ told' = [told EXCEPT ![u].code = n] /\ Go(r, Idle)
      /\ UNCHANGED <<users, singles, secrets, missed>>
  BY DEF Mail
<1>2. /\ u \in Users /\ n \in Nat /\ n \in DOMAIN secrets
      /\ secrets[n].user = u /\ secrets[n].kind = "code"
  BY <1>1, Acting, RequestFields DEF Fine
<1>3. told \in [Users -> [code : Nat, token : Nat]] BY Parts DEF DataOK
<1>. HIDE DEF u, n
<1>4. /\ told' \in [Users -> [code : Nat, token : Nat]]
      /\ \A v \in Users : /\ told'[v].token = told[v].token
                          /\ told'[v].code = IF v = u THEN n ELSE told[v].code
  BY <1>1, <1>2, <1>3
<1>5. DataOK' BY <1>1, <1>2, <1>4, Parts DEF DataOK, Drawn
<1>6. DataFine'
  BY <1>1, Parts
  DEF DataFine, UserFine, SecretFine, Works, Excused, Later, Listed, EmailsAreUnique,
      SingletonsStand
<1>7. \A p \in Requests : req'[p] = IF p = r THEN Idle ELSE req[p]
  BY <1>1, Parts DEF Go, RequestsOK
<1>8. ASSUME NEW p \in Requests \ {r}
      PROVE  Fine(req[p])' /\ (p \notin missed' => Informed(req[p])')
  BY <1>1, <1>7, Acting DEF Fine, Sound, Informed, Holders, Listed
<1>9. Fine(req[r])' /\ Informed(req[r])' BY <1>7 DEF Idle, Fine, Sound, Informed
<1>. QED BY <1>1, <1>5, <1>6, <1>8, <1>9, IdleFine, Parts, RequestStep DEF RequestsOK

\* What becomes of the secrets when r takes the n-th.
LEMMA TakenSecrets ==
  ASSUME IInv, NEW r \in Requests, NEW n \in DOMAIN secrets, NEW lost
  PROVE  /\ Taken(r, n, lost) \in Seq(Secret)
         /\ DOMAIN Taken(r, n, lost) = 1..Len(secrets)
         /\ Len(Taken(r, n, lost)) = Len(secrets)
         /\ \A k \in DOMAIN secrets :
              LET t == Taken(r, n, lost)[k]
              IN /\ t.user = secrets[k].user /\ t.kind = secrets[k].kind
                 /\ t.era = secrets[k].era /\ t.expired = secrets[k].expired
                 /\ t.uses = IF k = n THEN secrets[k].uses + 1 ELSE secrets[k].uses
                 /\ t.uses \in Nat /\ t.uses >= secrets[k].uses
                 /\ secrets[k].raced => t.raced
                 /\ k = n /\ r \in missed => t.raced
                 /\ k # n /\ k \in lost => t.raced
                 /\ k # n /\ k \notin lost => t = secrets[k]
<1>. DEFINE taken == Taken(r, n, lost)
            raced(k) == secrets[k].raced \/ (k = n /\ r \in missed) \/ (k # n /\ k \in lost)
            uses(k) == IF k = n THEN secrets[k].uses + 1 ELSE secrets[k].uses
            turned(k) == [secrets[k] EXCEPT !.uses = uses(k), !.raced = raced(k)]
<1>1. /\ Len(secrets) \in Nat /\ DOMAIN secrets = 1..Len(secrets)
      /\ \A k \in DOMAIN secrets : secrets[k] \in Secret
  BY SecretTypes, Parts
<1>2. DOMAIN taken = 1..Len(secrets) /\ \A k \in DOMAIN secrets : taken[k] = turned(k)
  BY <1>1 DEF Taken
<1>3. ASSUME NEW k \in DOMAIN secrets
      PROVE  /\ uses(k) \in Nat /\ uses(k) >= secrets[k].uses
             /\ raced(k) \in BOOLEAN
  <2>1. secrets[k].uses \in Nat /\ secrets[k].raced \in BOOLEAN BY <1>1, SecretFields
  <2>2. raced(k) \in BOOLEAN BY <2>1
  <2>3. uses(k) \in Nat /\ uses(k) >= secrets[k].uses BY <2>1
  <2>. QED BY <2>2, <2>3
<1>4. ASSUME NEW k \in DOMAIN secrets, k # n, k \notin lost PROVE turned(k) = secrets[k]
  <2>1. secrets[k] \in Secret /\ secrets[k].raced \in BOOLEAN BY <1>1, SecretFields
  <2>2. raced(k) = secrets[k].raced /\ uses(k) = secrets[k].uses BY <1>4, <2>1
  <2>. HIDE DEF raced, uses
  <2>. QED BY <2>1, <2>2 DEF Secret
<1>5. \A k \in DOMAIN secrets : /\ secrets[k].raced => raced(k)
                                /\ k = n /\ r \in missed => raced(k)
                                /\ k # n /\ k \in lost => raced(k)
  OBVIOUS
<1>6. \A k \in DOMAIN secrets : uses(k) = IF k = n THEN secrets[k].uses + 1 ELSE secrets[k].uses
  OBVIOUS
<1>. HIDE DEF raced, uses
<1>7. ASSUME NEW k \in DOMAIN secrets
      PROVE  /\ turned(k) \in Secret
             /\ turned(k).user = secrets[k].user /\ turned(k).kind = secrets[k].kind
             /\ turned(k).era = secrets[k].era /\ turned(k).expired = secrets[k].expired
             /\ turned(k).uses = uses(k) /\ turned(k).raced = raced(k)
  <2>1. secrets[k] \in Secret BY <1>1
  <2>. QED BY <2>1, <1>3 DEF Secret
<1>. HIDE DEF turned, taken
<1>8. taken \in Seq(Secret) /\ Len(taken) = Len(secrets)
  <2>1. taken = [k \in 1..Len(secrets) |-> turned(k)]
    BY <1>1, <1>2 DEF taken, Taken, turned, raced, uses
  <2>. QED BY <1>1, <1>7, <2>1
<1>. QED BY <1>1, <1>2, <1>3, <1>4, <1>5, <1>6, <1>7, <1>8 DEF taken

LEMMA VerifyWriteInv ==
  ASSUME IInv, NEW r \in Requests, NEW u \in Users, u = req[r].user, VerifyWrite(r),
         UNCHANGED calls
  PROVE  IInv'
<1>. DEFINE q == req[r]
            n == q.secret
            late == r \in missed
            m == Len(secrets) + 1
            lost == {users[u].otp, users[u].token}
            taken == Taken(r, n, lost)
            s == [user |-> u, kind |-> "token", uses |-> 0, expired |-> FALSE,
                  era |-> secrets[n].era, raced |-> late]
            w == [users[u] EXCEPT !.otp = 0, !.otpFresh = FALSE, !.token = m, !.tokenFresh = TRUE]
<1>1. /\ q.pc = "verify" /\ users[u].status = "LISTED" /\ secrets' = Append(taken, s)
      /\ missed' = missed \cup Others(r, {"verify", "reset"}, u)
      /\ Go(r, Idle) /\ UNCHANGED singles
  BY DEF VerifyWrite, Listed
<1>2. /\ q \in Request /\ n \in DOMAIN secrets /\ secrets[n].user = u /\ secrets[n].kind = "code"
  BY <1>1, Acting DEF Fine
<1>3. late \/ (secrets[n].uses = 0 /\ secrets[n].era = users[u].resets)
  BY <1>1, Acting DEF Informed, Listed
<1>4. late \in BOOLEAN OBVIOUS
<1>5. late => r \in missed OBVIOUS
<1>. HIDE DEF late
<1>6. /\ Len(secrets) \in Nat /\ DOMAIN secrets = 1..Len(secrets)
      /\ \A k \in DOMAIN secrets : secrets[k] \in Secret
  BY SecretTypes, Parts
<1>7. /\ users[u] \in User /\ users[u].otp \in lost /\ users[u].token \in lost
      /\ secrets[n].era \in Nat
  BY <1>2, <1>6, Belongs, SecretFields
<1>8. \A k \in lost \ {0} : k \in DOMAIN secrets /\ secrets[k].user = u BY Belongs
<1>. HIDE DEF lost
<1>9. /\ taken \in Seq(Secret) /\ DOMAIN taken = 1..Len(secrets) /\ Len(taken) = Len(secrets)
      /\ \A k \in DOMAIN secrets :
           /\ taken[k].user = secrets[k].user /\ taken[k].kind = secrets[k].kind
           /\ taken[k].era = secrets[k].era /\ taken[k].expired = secrets[k].expired
           /\ taken[k].uses = IF k = n THEN secrets[k].uses + 1 ELSE secrets[k].uses
           /\ taken[k].uses \in Nat /\ taken[k].uses >= secrets[k].uses
           /\ secrets[k].raced => taken[k].raced
           /\ k = n /\ r \in missed => taken[k].raced
           /\ k # n /\ k \in lost => taken[k].raced
           /\ k # n /\ k \notin lost => taken[k] = secrets[k]
  BY <1>2, TakenSecrets
<1>. HIDE DEF taken
<1>10. s \in Secret BY <1>4, <1>7 DEF Secret
<1>11. /\ Len(secrets') = m /\ m \in Nat /\ m # 0 /\ m \notin DOMAIN secrets
       /\ secrets' \in Seq(Secret) /\ secrets'[m] = s
       /\ \A k \in DOMAIN secrets : secrets'[k] = taken[k] /\ m > k
       /\ DOMAIN secrets' = DOMAIN secrets \cup {m}
  <2>1. /\ Len(secrets') = m /\ DOMAIN secrets' = 1..m /\ secrets' \in Seq(Secret)
        /\ secrets'[m] = s /\ \A k \in 1..Len(secrets) : secrets'[k] = taken[k]
    BY <1>1, <1>6, <1>9, <1>10
  <2>. QED BY <1>6, <2>1
<1>12. /\ users' = [users EXCEPT ![u] = w]
       /\ told' = [told EXCEPT ![u].token = m]
  BY <1>11 DEF VerifyWrite
<1>13. /\ w \in User /\ w.status = "LISTED" /\ w.email = users[u].email
       /\ w.raced = users[u].raced /\ w.resets = users[u].resets /\ w.resets \in Nat
       /\ w.otp = 0 /\ w.token = m /\ w.tokenFresh = TRUE
  BY <1>1, <1>7, <1>11 DEF User
<1>14. /\ s.user = u /\ s.kind = "token" /\ s.uses = 0 /\ s.era = secrets[n].era /\ s.raced = late
  OBVIOUS
<1>. HIDE DEF w, s, m
<1>15. Recovers(u, w) BY <1>1, <1>12, <1>13 DEF Recovers
<1>16. Grows(u)
  <2>1. \A k \in DOMAIN secrets : secrets[k].user # u => taken[k] = secrets[k]
    <3>1. ASSUME NEW k \in DOMAIN secrets, secrets[k].user # u PROVE k # n /\ k \notin lost
      <4>1. k # 0 BY <1>6
      <4>. QED BY <1>2, <1>8, <3>1, <4>1
    <3>. QED BY <1>9, <3>1
  <2>2. \A k \in DOMAIN secrets : secrets'[k] = taken[k] BY <1>11
  <2>3. \A k \in DOMAIN secrets' \ DOMAIN secrets : secrets'[k].user = u BY <1>11, <1>14
  <2>. QED BY <1>9, <1>11, <2>1, <2>2, <2>3 DEF Grows
<1>17. users'[u] = w BY <1>12, Parts DEF DataOK
<1>18. UserFine(u)'
  <2>1. secrets'[w.token].uses = 0 BY <1>11, <1>13, <1>14
  <2>2. secrets'[w.token].raced \/ secrets'[w.token].era = w.resets
    BY <1>3, <1>11, <1>13, <1>14
  <2>. QED BY <1>13, <1>17, <2>1, <2>2 DEF UserFine
<1>19. ASSUME NEW k \in DOMAIN secrets', secrets'[k].user = u PROVE SecretFine(k)'
  <2>1. CASE k = m BY <1>11, <1>13, <1>14, <1>17, <2>1 DEF SecretFine, Works
  <2>2. CASE k \in DOMAIN secrets
    <3>1. /\ SecretFine(k) /\ secrets'[k] = taken[k] /\ secrets[k].kind \in {"code", "token"}
          /\ secrets[k].uses \in Nat /\ secrets[k].user = u
      BY <1>6, <1>9, <1>11, <1>19, <2>2, Parts, SecretFields DEF DataFine
    <3>2. Excused(k) => Excused(k)' BY <1>13, <1>15, <1>16, <2>2, StillExcused
    <3>3. taken[k].uses <= 1 \/ taken[k].raced
      <4>1. CASE k = n BY <1>3, <1>5, <1>9, <2>2, <3>1, <4>1 DEF late
      <4>2. CASE k # n BY <1>9, <2>2, <3>1, <4>2 DEF SecretFine
      <4>. QED BY <4>1, <4>2
    <3>4. secrets[k].kind = "token" => Excused(k)'
      <4>1. /\ m \in DOMAIN secrets' /\ m > k /\ secrets'[m].user = u
            /\ secrets'[m].kind = "token" /\ taken[k].kind = secrets[k].kind
        BY <1>9, <1>11, <1>14, <2>2
      <4>. QED BY <1>19, <3>1, <4>1 DEF Excused, Later
    <3>5. secrets[k].kind = "code" /\ Works(k) => Excused(k)'
      <4>1. CASE k = n
        <5>1. taken[k].uses > 0 BY <1>9, <2>2, <3>1, <4>1
        <5>. QED BY <3>1, <5>1 DEF Excused
      <4>2. CASE k # n /\ secrets[k].kind = "code" /\ Works(k)
        <5>1. taken[k].raced BY <1>7, <1>9, <2>2, <3>1, <4>2 DEF Works
        <5>. QED BY <3>1, <5>1 DEF Excused
      <4>. QED BY <4>1, <4>2
    <3>. QED BY <1>1, <1>13, <1>17, <1>19, <3>1, <3>2, <3>3, <3>4, <3>5 DEF SecretFine, Listed
  <2>. QED BY <1>11, <2>1, <2>2
<1>20. DataOK' /\ DataFine'
  <2>1. told \in [Users -> [code : Nat, token : Nat]] /\ calls' \in Nat BY Parts DEF DataOK
  <2>2. /\ told' \in [Users -> [code : Nat, token : Nat]]
        /\ \A v \in Users : v # u => told'[v] = told[v]
        /\ told'[u].code = told[u].code /\ told'[u].token = m
    BY <1>11, <1>12, <2>1
  <2>3. \A k \in {w.otp, told'[u].code} \ {0} :
          k \in DOMAIN secrets' /\ secrets'[k].user = u /\ secrets'[k].kind = "code"
    <3>1. ASSUME NEW k \in {w.otp, told'[u].code} \ {0}
          PROVE  k \in DOMAIN secrets' /\ secrets'[k].user = u /\ secrets'[k].kind = "code"
      <4>1. k = told[u].code /\ k # 0 BY <1>13, <2>2
      <4>2. k \in DOMAIN secrets /\ secrets[k].user = u /\ secrets[k].kind = "code"
        BY <4>1, Belongs
      <4>. QED BY <1>9, <1>11, <4>2
    <3>. QED BY <3>1
  <2>4. \A k \in {w.token, told'[u].token} \ {0} :
          k \in DOMAIN secrets' /\ secrets'[k].user = u /\ secrets'[k].kind = "token"
    BY <1>11, <1>13, <1>14, <2>2
  <2>. QED BY <1>1, <1>13, <1>15, <1>16, <1>18, <1>19, <2>1, <2>2, <2>3, <2>4, RecoveryStep
<1>21. /\ \A p \in Requests : req'[p] = IF p = r THEN Idle ELSE req[p]
       /\ missed \subseteq missed' /\ missed' \subseteq Requests
  BY <1>1, Parts DEF Go, RequestsOK, Others
<1>22. ASSUME NEW p \in Requests \ {r}
       PROVE  Fine(req[p])' /\ (p \notin missed' => Informed(req[p])')
  <2>1. req[p].pc \in {"verify", "reset"} /\ req[p].user = u => p \in missed'
    BY <1>1 DEF Others
  <2>2. req'[p] = req[p] BY <1>21
  <2>. QED BY <1>1, <1>13, <1>15, <1>16, <1>21, <2>1, <2>2, OthersAfterRecovery
<1>23. Fine(req[r])' /\ Informed(req[r])' BY <1>21 DEF Idle, Fine, Sound, Informed
<1>. QED BY <1>1, <1>20, <1>21, <1>22, <1>23, IdleFine, RequestStep

LEMMA ResetWriteInv ==
  ASSUME IInv, NEW r \in Requests, NEW u \in Users, u = req[r].user, ResetWrite(r),
         UNCHANGED calls
  PROVE  IInv'
<1>. DEFINE q == req[r]
            n == q.secret
            lost == {users[u].token}
            taken == Taken(r, n, lost)
            more == users[u].resets + 1
            w == [users[u] EXCEPT !.otp = 0, !.otpFresh = FALSE, !.token = 0, !.tokenFresh = FALSE,
                                  !.resets = more]
<1>1. /\ q.pc = "reset" /\ users[u].status = "LISTED" /\ secrets' = taken
      /\ missed' = missed \cup Others(r, {"verify", "reset"}, u)
      /\ users' = [users EXCEPT ![u] = w]
      /\ Go(r, Idle) /\ UNCHANGED <<singles, told>>
  BY DEF ResetWrite, Listed
<1>2. n \in DOMAIN secrets /\ secrets[n].user = u BY <1>1, Acting DEF Fine
<1>3. r \in missed \/ secrets[n].uses = 0 BY <1>1, Acting DEF Informed
<1>4. /\ Len(secrets) \in Nat /\ DOMAIN secrets = 1..Len(secrets)
      /\ \A k \in DOMAIN secrets : secrets[k] \in Secret
  BY SecretTypes, Parts
<1>5. /\ users[u] \in User /\ UserFine(u) /\ users[u].token \in lost /\ users[u].resets \in Nat
  BY Belongs
<1>6. \A k \in lost \ {0} : k \in DOMAIN secrets /\ secrets[k].user = u BY Belongs
<1>. HIDE DEF lost
<1>7. /\ taken \in Seq(Secret) /\ DOMAIN taken = 1..Len(secrets) /\ Len(taken) = Len(secrets)
      /\ \A k \in DOMAIN secrets :
           /\ taken[k].user = secrets[k].user /\ taken[k].kind = secrets[k].kind
           /\ taken[k].era = secrets[k].era /\ taken[k].expired = secrets[k].expired
           /\ taken[k].uses = IF k = n THEN secrets[k].uses + 1 ELSE secrets[k].uses
           /\ taken[k].uses \in Nat /\ taken[k].uses >= secrets[k].uses
           /\ secrets[k].raced => taken[k].raced
           /\ k = n /\ r \in missed => taken[k].raced
           /\ k # n /\ k \in lost => taken[k].raced
           /\ k # n /\ k \notin lost => taken[k] = secrets[k]
  BY <1>2, TakenSecrets
<1>. HIDE DEF taken
<1>8. more \in Nat /\ more = users[u].resets + 1 BY <1>5
<1>. HIDE DEF more
<1>9. /\ w \in User /\ w.status = "LISTED" /\ w.email = users[u].email
      /\ w.raced = users[u].raced /\ w.resets = more
      /\ w.otp = 0 /\ w.token = 0
  BY <1>1, <1>5, <1>8 DEF User
<1>. HIDE DEF w
<1>10. Recovers(u, w)
  <2>1. w.resets >= users[u].resets BY <1>5, <1>9, <1>8
  <2>. QED BY <1>1, <1>9, <2>1 DEF Recovers
<1>11. Grows(u)
  <2>1. \A k \in DOMAIN secrets : secrets[k].user # u => taken[k] = secrets[k]
    <3>1. ASSUME NEW k \in DOMAIN secrets, secrets[k].user # u PROVE k # n /\ k \notin lost
      <4>1. k # 0 BY <1>4
      <4>. QED BY <1>2, <1>6, <3>1, <4>1
    <3>. QED BY <1>7, <3>1
  <2>. QED BY <1>1, <1>4, <1>7, <2>1 DEF Grows
<1>12. users'[u] = w BY <1>1, Parts DEF DataOK
<1>13. UserFine(u)' BY <1>9, <1>12 DEF UserFine
<1>14. ASSUME NEW k \in DOMAIN secrets', secrets'[k].user = u PROVE SecretFine(k)'
  <2>1. k \in DOMAIN secrets BY <1>1, <1>4, <1>7, <1>14
  <2>2. /\ SecretFine(k) /\ secrets'[k] = taken[k] /\ secrets[k].kind \in {"code", "token"}
        /\ secrets[k].uses \in Nat /\ secrets[k].user = u
    BY <1>1, <1>4, <1>7, <1>14, <2>1, Parts, SecretFields DEF DataFine
  <2>3. Excused(k) => Excused(k)' BY <1>9, <1>10, <1>11, <2>1, StillExcused
  <2>4. taken[k].uses <= 1 \/ taken[k].raced
    <3>1. CASE k = n BY <1>3, <1>7, <2>1, <2>2, <3>1
    <3>2. CASE k # n BY <1>7, <2>1, <2>2, <3>2 DEF SecretFine
    <3>. QED BY <3>1, <3>2
  <2>5. ASSUME secrets[k].kind = "code", Works(k) PROVE Excused(k)'
    <3>1. users[u].otp = k /\ k # 0 BY <1>4, <2>1, <2>2, <2>5 DEF Works
    <3>2. taken[k].era = users[u].resets BY <1>5, <1>7, <2>1, <3>1 DEF UserFine
    <3>3. taken[k].era < w.resets BY <1>5, <1>9, <1>8, <3>2
    <3>. QED BY <1>12, <1>14, <2>2, <3>3 DEF Excused
  <2>6. ASSUME secrets[k].kind = "token", Works(k) PROVE Excused(k)'
    <3>1. k \in lost BY <1>5, <2>2, <2>6 DEF Works
    <3>2. taken[k].uses > 0 \/ taken[k].raced BY <1>7, <2>1, <2>2, <3>1
    <3>. QED BY <2>2, <3>2 DEF Excused
  <2>. QED BY <1>1, <1>9, <1>12, <1>14, <2>2, <2>3, <2>4, <2>5, <2>6 DEF SecretFine, Listed
<1>15. DataOK' /\ DataFine'
  <2>1. told' \in [Users -> [code : Nat, token : Nat]] /\ calls' \in Nat
    BY <1>1, Parts DEF DataOK
  <2>2. ASSUME NEW k \in {w.otp, told'[u].code} \ {0}
        PROVE  k \in DOMAIN secrets' /\ secrets'[k].user = u /\ secrets'[k].kind = "code"
    <3>1. k = told[u].code /\ k # 0 BY <1>1, <1>9
    <3>2. k \in DOMAIN secrets /\ secrets[k].user = u /\ secrets[k].kind = "code"
      BY <3>1, Belongs
    <3>. QED BY <1>1, <1>4, <1>7, <3>2
  <2>3. ASSUME NEW k \in {w.token, told'[u].token} \ {0}
        PROVE  k \in DOMAIN secrets' /\ secrets'[k].user = u /\ secrets'[k].kind = "token"
    <3>1. k = told[u].token /\ k # 0 BY <1>1, <1>9
    <3>2. k \in DOMAIN secrets /\ secrets[k].user = u /\ secrets[k].kind = "token"
      BY <3>1, Belongs
    <3>. QED BY <1>1, <1>4, <1>7, <3>2
  <2>. QED BY <1>1, <1>9, <1>10, <1>11, <1>13, <1>14, <2>1, <2>2, <2>3, RecoveryStep
<1>16. /\ \A p \in Requests : req'[p] = IF p = r THEN Idle ELSE req[p]
       /\ missed \subseteq missed' /\ missed' \subseteq Requests
  BY <1>1, Parts DEF Go, RequestsOK, Others
<1>17. ASSUME NEW p \in Requests \ {r}
       PROVE  Fine(req[p])' /\ (p \notin missed' => Informed(req[p])')
  <2>1. req[p].pc \in {"verify", "reset"} /\ req[p].user = u => p \in missed'
    BY <1>1 DEF Others
  <2>2. req'[p] = req[p] BY <1>16
  <2>. QED BY <1>1, <1>9, <1>10, <1>11, <1>16, <2>1, <2>2, OthersAfterRecovery
<1>18. Fine(req[r])' /\ Informed(req[r])' BY <1>16 DEF Idle, Fine, Sound, Informed
<1>. QED BY <1>1, <1>15, <1>16, <1>17, <1>18, IdleFine, RequestStep

\* The expiry of the stored code, or token, passes.
LEMMA ExpireInv == ASSUME IInv, NEW u \in Users, Expire(u) PROVE IInv'
<1>1. /\ users[u].status = "LISTED" /\ UNCHANGED <<singles, req, told, missed, calls>>
      /\ users[u] \in User /\ UserFine(u)
      /\ \A k \in {users[u].otp, told[u].code} \ {0} :
           k \in DOMAIN secrets /\ secrets[k].user = u /\ secrets[k].kind = "code"
      /\ \A k \in {users[u].token, told[u].token} \ {0} :
           k \in DOMAIN secrets /\ secrets[k].user = u /\ secrets[k].kind = "token"
  BY Belongs DEF Expire, Listed
<1>2. /\ Len(secrets) \in Nat /\ DOMAIN secrets = 1..Len(secrets) /\ secrets \in Seq(Secret)
      /\ \A k \in DOMAIN secrets : secrets[k] \in Secret
  BY SecretTypes, Parts DEF DataOK
<1>3. PICK n \in {users[u].otp, users[u].token}, w \in User :
        /\ users' = [users EXCEPT ![u] = w] /\ secrets' = [secrets EXCEPT ![n].expired = TRUE]
        /\ w.status = "LISTED" /\ w.email = users[u].email /\ w.raced = users[u].raced
        /\ w.resets = users[u].resets /\ w.otp = users[u].otp /\ w.token = users[u].token
        /\ n # users[u].otp => w.otpFresh = users[u].otpFresh
        /\ n # users[u].token => w.tokenFresh = users[u].tokenFresh
  <2>1. CASE users[u].otpFresh /\ users' = [users EXCEPT ![u].otpFresh = FALSE]
             /\ secrets' = [secrets EXCEPT ![users[u].otp].expired = TRUE]
    <3>. DEFINE w == [users[u] EXCEPT !.otpFresh = FALSE]
    <3>1. users' = [users EXCEPT ![u] = w] BY <2>1, Parts DEF DataOK
    <3>2. /\ w \in User /\ w.status = "LISTED" /\ w.email = users[u].email
          /\ w.raced = users[u].raced
          /\ w.resets = users[u].resets /\ w.otp = users[u].otp /\ w.token = users[u].token
          /\ w.tokenFresh = users[u].tokenFresh
      BY <1>1 DEF User
    <3>. HIDE DEF w
    <3>. QED BY <2>1, <3>1, <3>2
  <2>2. CASE users[u].tokenFresh /\ users' = [users EXCEPT ![u].tokenFresh = FALSE]
             /\ secrets' = [secrets EXCEPT ![users[u].token].expired = TRUE]
    <3>. DEFINE w == [users[u] EXCEPT !.tokenFresh = FALSE]
    <3>1. users' = [users EXCEPT ![u] = w] BY <2>2, Parts DEF DataOK
    <3>2. /\ w \in User /\ w.status = "LISTED" /\ w.email = users[u].email
          /\ w.raced = users[u].raced
          /\ w.resets = users[u].resets /\ w.otp = users[u].otp /\ w.token = users[u].token
          /\ w.otpFresh = users[u].otpFresh
      BY <1>1 DEF User
    <3>. HIDE DEF w
    <3>. QED BY <2>2, <3>1, <3>2
  <2>. QED BY <2>1, <2>2 DEF Expire
<1>4. /\ DOMAIN secrets' = DOMAIN secrets
      /\ \A k \in DOMAIN secrets : k # n => secrets'[k] = secrets[k]
      /\ n \in DOMAIN secrets => secrets'[n] = [secrets[n] EXCEPT !.expired = TRUE]
  BY <1>2, <1>3
<1>5. ASSUME NEW k \in DOMAIN secrets
      PROVE  /\ secrets'[k] \in Secret /\ secrets'[k].user = secrets[k].user
             /\ secrets'[k].kind = secrets[k].kind /\ secrets'[k].era = secrets[k].era
             /\ secrets'[k].uses = secrets[k].uses /\ secrets'[k].raced = secrets[k].raced
             /\ secrets[k].expired => secrets'[k].expired
             /\ k = n => secrets'[k].expired
  <2>1. secrets[k] \in Secret BY <1>2
  <2>2. CASE k # n BY <1>4, <2>1, <2>2
  <2>3. CASE k = n BY <1>4, <2>1, <2>3 DEF Secret
  <2>. QED BY <2>2, <2>3
<1>6. Recovers(u, w)
  <2>1. w.resets >= users[u].resets BY <1>1, <1>3, UserFields
  <2>. QED BY <1>1, <1>3, <2>1 DEF Recovers
<1>7. Grows(u)
  <2>1. secrets' \in Seq(Secret)
    <3>1. secrets' = [k \in 1..Len(secrets) |-> secrets'[k]] BY <1>2, <1>3
    <3>. QED BY <1>2, <1>4, <1>5, <3>1
  <2>2. \A k \in DOMAIN secrets : secrets'[k].uses >= secrets[k].uses
    BY <1>2, <1>5, SecretFields
  <2>3. \A k \in DOMAIN secrets : secrets[k].user # u => secrets'[k] = secrets[k]
    <3>1. ASSUME NEW k \in DOMAIN secrets, secrets[k].user # u PROVE k # n
      <4>1. k # 0 BY <1>2
      <4>. QED BY <1>1, <3>1, <4>1
    <3>. QED BY <1>4, <3>1
  <2>. QED BY <1>4, <1>5, <2>1, <2>2, <2>3 DEF Grows
<1>8. users'[u] = w BY <1>3, Parts DEF DataOK
<1>9. UserFine(u)' BY <1>1, <1>3, <1>5, <1>8 DEF UserFine
<1>10. ASSUME NEW k \in DOMAIN secrets', secrets'[k].user = u PROVE SecretFine(k)'
  <2>1. SecretFine(k) /\ k \in DOMAIN secrets BY <1>4, Parts DEF DataFine
  <2>2. Excused(k) => Excused(k)' BY <1>6, <1>7, <2>1, StillExcused
  <2>3. k = n => Excused(k)' BY <1>5, <2>1 DEF Excused
  <2>4. k # n /\ Works(k) => Works(k)' BY <1>3, <1>5, <1>8, <1>10, <2>1 DEF Works
  <2>. QED BY <1>1, <1>3, <1>5, <1>8, <1>10, <2>1, <2>2, <2>3, <2>4 DEF SecretFine, Listed
<1>11. DataOK' /\ DataFine'
  <2>1. told' \in [Users -> [code : Nat, token : Nat]] /\ calls' \in Nat
    BY <1>1, Parts DEF DataOK
  <2>2. /\ \A k \in {w.otp, told'[u].code} \ {0} :
             k \in DOMAIN secrets' /\ secrets'[k].user = u /\ secrets'[k].kind = "code"
        /\ \A k \in {w.token, told'[u].token} \ {0} :
             k \in DOMAIN secrets' /\ secrets'[k].user = u /\ secrets'[k].kind = "token"
    BY <1>1, <1>3, <1>4, <1>5
  <2>. QED BY <1>1, <1>6, <1>7, <1>9, <1>10, <2>1, <2>2, RecoveryStep
<1>12. ASSUME NEW p \in Requests
       PROVE  Fine(req[p])' /\ (p \notin missed' => Informed(req[p])')
  BY <1>1, <1>3, <1>5, <1>6, <1>7, OthersAfterRecovery
<1>13. RequestsOK' BY <1>1, <1>12, Parts DEF RequestsOK, RequestsFine
<1>. QED BY <1>11, <1>13, PartsNext

-----------------------------------------------------------------------------
(***************************************************************************)
(* The single rows.                                                        *)
(***************************************************************************)
LEMMA SingleCreateInv ==
  ASSUME IInv, NEW r \in Requests, SingleCreate(r), UNCHANGED calls PROVE IInv'
<1>. DEFINE t == req[r].table
            late == r \in missed
<1>1. /\ req[r].pc = "single" /\ singles' = [singles EXCEPT ![t] = Append(singles[t], late)]
      /\ missed' = missed \cup {q \in Requests \ {r} : req[q].pc = "single" /\ req[q].table = t}
      /\ Go(r, Idle) /\ UNCHANGED <<users, secrets, told>>
  BY DEF SingleCreate
<1>2. t \in Singles BY Acting, RequestFields
<1>3. late \/ singles[t] = <<>> BY <1>1, Acting DEF Informed
<1>4. late \in BOOLEAN OBVIOUS
<1>. HIDE DEF late
<1>5. singles \in [Singles -> Seq(BOOLEAN)] /\ SingletonsStand
  BY Parts DEF DataOK, DataFine
<1>6. /\ singles' \in [Singles -> Seq(BOOLEAN)]
      /\ \A o \in Singles : singles'[o] = IF o = t THEN Append(singles[t], late) ELSE singles[o]
  <2>1. Append(singles[t], late) \in Seq(BOOLEAN) BY <1>2, <1>4, <1>5
  <2>. QED BY <1>1, <1>2, <1>5, <2>1
<1>7. SingletonsStand'
  <2>1. ASSUME NEW o \in Singles, NEW k \in 2..Len(singles'[o]) PROVE singles'[o][k]
    <3>1. CASE o # t BY <1>5, <1>6, <2>1, <3>1 DEF SingletonsStand
    <3>2. CASE o = t
      <4>. DEFINE list == singles[t]
      <4>1. list \in Seq(BOOLEAN) /\ singles'[o] = Append(list, late) BY <1>2, <1>5, <1>6, <3>2
      <4>2. k \in 2..(Len(list) + 1) BY <2>1, <4>1
      <4>3. CASE k \in 2..Len(list)
        <5>1. list[k] BY <1>2, <1>5, <4>3 DEF SingletonsStand
        <5>2. Append(list, late)[k] = list[k] BY <4>1, <4>3
        <5>. QED BY <4>1, <5>1, <5>2
      <4>4. CASE k = Len(list) + 1
        <5>1. list # <<>> BY <2>1, <4>4
        <5>2. Append(list, late)[k] = late BY <4>1, <4>4
        <5>. QED BY <1>3, <4>1, <5>1, <5>2
      <4>. QED BY <4>1, <4>2, <4>3, <4>4
    <3>. QED BY <3>1, <3>2
  <2>. QED BY <2>1 DEF SingletonsStand
<1>8. DataOK' BY <1>1, <1>6, Parts DEF DataOK, Drawn
<1>9. DataFine'
  <2>1. \A u \in Users : UserFine(u)' BY <1>1, Parts DEF DataFine, UserFine
  <2>2. \A n \in DOMAIN secrets' : SecretFine(n)'
    BY <1>1, Parts DEF DataFine, SecretFine, Works, Excused, Later, Listed
  <2>3. EmailsAreUnique' BY <1>1, Parts DEF DataFine, EmailsAreUnique, Listed
  <2>. QED BY <1>7, <2>1, <2>2, <2>3 DEF DataFine
<1>10. /\ \A p \in Requests : req'[p] = IF p = r THEN Idle ELSE req[p]
       /\ missed' \subseteq Requests
  BY <1>1, Parts DEF Go, RequestsOK
<1>11. ASSUME NEW p \in Requests \ {r}
       PROVE  Fine(req[p])' /\ (p \notin missed' => Informed(req[p])')
  <2>1. req'[p] = req[p] /\ req[p] \in Request /\ Fine(req[p]) /\ req[p].table \in Singles
    BY <1>10, Acting, RequestFields
  <2>2. Fine(req[p])' BY <1>1, <2>1 DEF Fine, Sound
  <2>3. ASSUME p \notin missed' PROVE Informed(req[p])'
    <3>1. Informed(req[p]) BY <1>1, <2>3, Acting
    <3>2. req[p].pc = "single" => singles'[req[p].table] = <<>>
      BY <1>1, <1>6, <2>1, <2>3, <3>1 DEF Informed
    <3>. QED BY <1>1, <2>1, <3>1, <3>2 DEF Informed, Holders, Listed
  <2>. QED BY <2>2, <2>3
<1>12. Fine(req[r])' /\ Informed(req[r])' BY <1>10 DEF Idle, Fine, Sound, Informed
<1>. QED BY <1>1, <1>8, <1>9, <1>10, <1>11, <1>12, IdleFine, RequestStep

-----------------------------------------------------------------------------
(***************************************************************************)
(* The invariant, and what follows from it.                                *)
(***************************************************************************)
LEMMA InitInv == Init => IInv
<1>. SUFFICES ASSUME Init PROVE IInv OBVIOUS
<1>1. ASSUME NEW u \in Users
      PROVE  /\ users[u] \in User /\ users[u].otp = 0 /\ users[u].token = 0
             /\ told[u].code = 0 /\ told[u].token = 0
  <2>1. PICK e \in Emails \cup {Null} : users[u] = Unissued \/ users[u] = NewUser(e)
    BY DEF Init
  <2>2. /\ NewUser(e) \in User /\ NewUser(e).otp = 0 /\ NewUser(e).token = 0
        /\ Unissued \in User /\ Unissued.otp = 0 /\ Unissued.token = 0
    BY DEF Unissued, NewUser, User
  <2>3. told[u].code = 0 /\ told[u].token = 0 BY DEF Init
  <2>. QED BY <2>1, <2>2, <2>3
<1>2. users \in [Users -> User]
  <2>1. DOMAIN users = Users /\ users = [u \in DOMAIN users |-> users[u]] BY DEF Init
  <2>. QED BY <1>1, <2>1
<1>3. secrets = <<>> /\ DOMAIN secrets = {} /\ secrets \in Seq(Secret) BY DEF Init
<1>4. DataOK BY <1>1, <1>2, <1>3 DEF Init, DataOK, Drawn
<1>5. EmailsAreUnique /\ SingletonsStand
  BY DEF Init, EmailsAreUnique, SingletonsStand
<1>6. DataFine BY <1>1, <1>3, <1>5 DEF DataFine, UserFine
<1>7. RequestsOK BY IdleFine DEF Init, RequestsOK, RequestsFine
<1>. QED BY <1>4, <1>6, <1>7, Parts

LEMMA StartInv == ASSUME IInv, NEW r \in Requests, Start(r) PROVE IInv'
<1>1. ASSUME \/ \E email \in Emails \cup {Null} : CreateLook(r, email)
             \/ \E u \in Users : \E email \in Emails \cup {Null} : UpdateFind(r, u, email)
             \/ \E t \in Singles : SingleFind(r, t)
      PROVE  IInv'
  BY <1>1, LookInv
<1>2. ASSUME NEW u \in Users,
             \/ ChangeFind(r, u) \/ DeleteFind(r, u) \/ \E email \in Emails : ForgotFind(r, email, u)
      PROVE  IInv'
  BY <1>2, FindInv
<1>3. ASSUME NEW u \in Users, ResetFind(r, u) \/ \E email \in Emails : VerifyFind(r, email, u)
      PROVE  IInv'
  BY <1>3, SecretFindInv
<1>. QED BY <1>1, <1>2, <1>3 DEF Start, GuestLogin

LEMMA StepInv == ASSUME IInv, NEW r \in Requests, Step(r), UNCHANGED calls PROVE IInv'
<1>1. ASSUME NEW u \in Users, Insert(r, u) PROVE IInv' BY <1>1, InsertInv
<1>2. CASE UpdateLook(r) BY <1>2, UpdateLookInv
<1>3. CASE UpdateWrite(r) BY <1>3, UpdateWriteInv
<1>4. CASE DeleteWrite(r) BY <1>4, DeleteWriteInv
<1>5. CASE ForgotWrite(r)
  <2>1. req[r].user \in Users BY <1>5, Acting DEF ForgotWrite
  <2>. QED BY <1>5, <2>1, ForgotWriteInv
<1>6. CASE Mail(r) BY <1>6, MailInv
<1>7. CASE VerifyWrite(r)
  <2>1. req[r].user \in Users BY <1>7, Acting DEF VerifyWrite
  <2>. QED BY <1>7, <2>1, VerifyWriteInv
<1>8. CASE ResetWrite(r)
  <2>1. req[r].user \in Users BY <1>8, Acting DEF ResetWrite
  <2>. QED BY <1>8, <2>1, ResetWriteInv
<1>9. CASE SingleCreate(r) BY <1>9, SingleCreateInv
<1>10. CASE AddSlug(r) \/ ChangeWrite(r) \/ UserGone(r) \/ Interrupt(r)
  <2>1. Go(r, Idle) /\ Quiet /\ UNCHANGED missed
    BY <1>10 DEF AddSlug, ChangeWrite, UserGone, Interrupt
  <2>. QED BY <2>1, Ends
<1>. QED BY <1>1, <1>2, <1>3, <1>4, <1>5, <1>6, <1>7, <1>8, <1>9, <1>10 DEF Step

LEMMA NextInv == IInv /\ [Next]_vars => IInv'
<1>. SUFFICES ASSUME IInv, [Next]_vars PROVE IInv' OBVIOUS
<1>1. ASSUME NEW r \in Requests, Start(r) PROVE IInv' BY <1>1, StartInv
<1>2. ASSUME NEW r \in Requests, Step(r), UNCHANGED calls PROVE IInv' BY <1>2, StepInv
<1>3. ASSUME NEW u \in Users, Expire(u) PROVE IInv' BY <1>3, ExpireInv
<1>4. CASE UNCHANGED vars
  <2>1. DataOK' BY <1>4, Parts DEF vars, DataOK, Drawn
  <2>2. DataFine'
    BY <1>4, Parts
    DEF vars, DataFine, UserFine, SecretFine, Works, Excused, Later, Listed, EmailsAreUnique,
        SingletonsStand
  <2>3. RequestsOK'
    BY <1>4, Parts DEF vars, RequestsOK, RequestsFine, Fine, Sound, Informed, Holders, Listed
  <2>. QED BY <2>1, <2>2, <2>3, PartsNext
<1>. QED BY <1>1, <1>2, <1>3, <1>4 DEF Next

\* Every state of the accounts is a state the strengthened invariant describes.
THEOREM Safety == Spec => []IInv
<1>. QED BY InitInv, NextInv, PTL DEF Spec

\* The variables keep their types, a request that acts for a user or with a secret has one,
\* and every stored or told code and token was drawn for that user.
THEOREM TypeCorrect == Spec => []TypeOK
<1>1. IInv => TypeOK BY DEF IInv
<1>. QED BY Safety, <1>1, PTL

\* No two users share an e-mail (createUser and updateUser look for it first), unless one
\* of them got it after another request had written it since its look.
THEOREM EmailsTheorem == Spec => []EmailsAreUnique
<1>1. IInv => EmailsAreUnique BY DEF IInv
<1>. QED BY Safety, <1>1, PTL

\* The business profile and the opening hours are one row each, unless two first requests
\* overlapped.
THEOREM SingletonsTheorem == Spec => []SingletonsStand
<1>1. IInv => SingletonsStand BY DEF IInv
<1>. QED BY Safety, <1>1, PTL

\* verifyOtp and resetPassword take a code or a token once, unless two of them overlapped.
THEOREM ServesOnceTheorem == Spec => []SecretServesOnce
<1>1. IInv => SecretServesOnce BY DEF IInv, SecretServesOnce, SecretFine
<1>. QED BY Safety, <1>1, PTL

\* What a user was last told works: forgotPassword's code and verifyOtp's token are not
\* lost but to what SecretsStand names.
THEOREM StandTheorem == Spec => []SecretsStand
<1>1. ASSUME IInv PROVE SecretsStand
  <2>1. ASSUME NEW u \in Users, NEW kind \in {"code", "token"}, Listed(u), told[u][kind] # 0
        PROVE  \/ IF kind = "code" THEN users[u].otp = told[u][kind] /\ users[u].otpFresh
                  ELSE users[u].token = told[u][kind] /\ users[u].tokenFresh
               \/ Later(u, told[u][kind], kind)
               \/ secrets[told[u][kind]].uses > 0 \/ secrets[told[u][kind]].expired
               \/ secrets[told[u][kind]].raced
               \/ secrets[told[u][kind]].era < users[u].resets
    <3>. DEFINE n == told[u][kind]
    <3>1. n \in DOMAIN secrets /\ secrets[n].user = u /\ secrets[n].kind = kind
      <4>1. CASE kind = "code" BY <1>1, <2>1, <4>1, Belongs
      <4>2. CASE kind = "token" BY <1>1, <2>1, <4>2, Belongs
      <4>. QED BY <4>1, <4>2
    <3>. HIDE DEF n
    <3>2. SecretFine(n) BY <1>1, <3>1, Parts DEF DataFine
    <3>3. Works(n) \/ Excused(n) BY <2>1, <3>1, <3>2 DEF SecretFine
    <3>4. \/ IF kind = "code" THEN users[u].otp = n /\ users[u].otpFresh
             ELSE users[u].token = n /\ users[u].tokenFresh
          \/ Later(u, n, kind) \/ secrets[n].uses > 0 \/ secrets[n].expired
          \/ secrets[n].raced \/ secrets[n].era < users[u].resets
      BY <3>1, <3>3 DEF Works, Excused
    <3>. QED BY <3>4 DEF n
  <2>. QED BY <2>1 DEF SecretsStand
<1>. QED BY Safety, <1>1, PTL

\* resetPassword ends the recovery: no older code, and no older token, is stored after it.
THEOREM RevokesTheorem == Spec => []ResetRevokes
<1>1. IInv => ResetRevokes BY DEF IInv, ResetRevokes, UserFine
<1>. QED BY Safety, <1>1, PTL
=============================================================================
