------------------------------ MODULE Accounts ------------------------------
(***************************************************************************)
(* Accounts: auth.service.ts, user.service.ts and the two settings that    *)
(* are meant to be one row each, the business profile (user.service.ts)    *)
(* and the opening hours (operating-hours.service.ts).                     *)
(*                                                                         *)
(* A forgotten password is set anew in three requests: a code is mailed,   *)
(* the code buys a token, the token a password.  Each request reads the    *)
(* user and writes it in a later query; each action is one query with the  *)
(* code up to the next await.  Hashing a password awaits too and is part   *)
(* of the query after it.  What a password is makes no difference here and *)
(* is left out; that it was reset is counted.  Codes and tokens are        *)
(* random; here they are the numbers of a list, in the order they were     *)
(* drawn, no two alike, and 0 is null.                                     *)
(***************************************************************************)
EXTENDS Integers, Sequences

CONSTANTS
  Users,          \* user ids; autoincrement never issues one twice
  Emails,         \* e-mail addresses
  Requests,       \* requests that can be under way at once
  Null,           \* no e-mail, no user
  Interruptions,  \* TRUE: a query may reject, or the process die, at any await
  MaxCalls        \* bound: the requests of one behaviour

ASSUME AccountAssumption ==
  /\ Null \notin Users /\ Null \notin Emails
  /\ Interruptions \in BOOLEAN /\ MaxCalls \in Nat

VARIABLES
  users,    \* the users table
  singles,  \* business_profiles and operating_hours: for each row, was its insert raced
  req,      \* the requests under way
  \* History variables: nothing in the code corresponds to them.
  secrets,  \* the codes and tokens that were drawn
  told,     \* the code last mailed, and the token last answered, for each user, or 0
  missed,   \* requests that do not know what others wrote since they read
  calls     \* how many requests there have been

vars == <<users, singles, req, secrets, told, missed, calls>>

-----------------------------------------------------------------------------
\* otpFresh, tokenFresh: the expiry that is stored has not passed.  History:
\* resets, how often the password was reset; raced, the e-mail was written after
\* another user had got it since the look for it, or shared it already.
User == [status : {"UNISSUED", "LISTED", "DELETED"}, email : Emails \cup {Null},
         otp : Nat, otpFresh : BOOLEAN, token : Nat, tokenFresh : BOOLEAN,
         resets : Nat, raced : BOOLEAN]

\* uses: how often it was taken; raced: by requests that overlapped, or it was
\* overwritten by one that had not read it; era: the resets before its code.
Secret == [user : Users, kind : {"code", "token"}, uses : Nat, expired : BOOLEAN,
           era : Nat, raced : BOOLEAN]

Pc == {"idle", "insert", "slug", "look", "update", "change", "delete",
       "forgot", "mail", "verify", "reset", "single"}

Singles == {"profile", "hours"}

Request == [pc : Pc, user : Users \cup {Null}, email : Emails \cup {Null}, secret : Nat,
            table : Singles]

Idle == [pc |-> "idle", user |-> Null, email |-> Null, secret |-> 0, table |-> "profile"]

NewUser(email) == [status |-> "LISTED", email |-> email, otp |-> 0, otpFresh |-> FALSE,
                   token |-> 0, tokenFresh |-> FALSE, resets |-> 0, raced |-> FALSE]

Unissued == [NewUser(Null) EXCEPT !.status = "UNISSUED"]

Sound(q) == /\ q.pc \notin {"idle", "insert", "single"} => q.user \in Users
            /\ q.pc \in {"mail", "verify", "reset"} => q.secret \in DOMAIN secrets

\* A user's code and token are among those drawn for that user.
Drawn(u, n, kind) == n # 0 => /\ n \in DOMAIN secrets
                              /\ secrets[n].user = u /\ secrets[n].kind = kind

TypeOK ==
  /\ users \in [Users -> User]
  /\ singles \in [Singles -> Seq(BOOLEAN)]
  /\ req \in [Requests -> Request]
  /\ \A r \in Requests : Sound(req[r])
  /\ secrets \in Seq(Secret)
  /\ \A u \in Users : Drawn(u, users[u].otp, "code") /\ Drawn(u, users[u].token, "token")
  /\ told \in [Users -> [code : Nat, token : Nat]]
  /\ \A u \in Users : Drawn(u, told[u].code, "code") /\ Drawn(u, told[u].token, "token")
  /\ missed \in SUBSET Requests
  /\ calls \in Nat

Listed(u) == users[u].status = "LISTED"

\* The users with an e-mail.  findFirst takes one of them, in no order.
Holders(email) == {u \in Users : Listed(u) /\ users[u].email = email}

\* Some users are there already, with e-mails of their own.
Init ==
  /\ users \in [Users -> {Unissued} \cup {NewUser(e) : e \in Emails \cup {Null}}]
  /\ \A u, v \in Users : u # v /\ users[u].email = users[v].email => users[u].email = Null
  /\ singles = [t \in Singles |-> <<>>]
  /\ req = [r \in Requests |-> Idle]
  /\ secrets = <<>> /\ told = [u \in Users |-> [code |-> 0, token |-> 0]]
  /\ missed = {} /\ calls = 0

-----------------------------------------------------------------------------
MayStart(r) == req[r].pc = "idle" /\ calls < MaxCalls /\ calls' = calls + 1

Go(r, state) == req' = [req EXCEPT ![r] = state]

\* Requests other than r with that pc, about that user.
Others(r, pcs, u) == {q \in Requests \ {r} : req[q].pc \in pcs /\ req[q].user = u}

\* Requests other than r that will write that e-mail.
Writers(r, email) ==
  {q \in Requests \ {r} : email # Null /\ req[q].pc \in {"insert", "update"} /\ req[q].email = email}

Quiet == UNCHANGED <<users, singles, secrets, told>>

-----------------------------------------------------------------------------
\* createUser: findFirst of the e-mail, if there is one.
CreateLook(r, email) ==
  /\ MayStart(r)
  /\ Go(r, IF email # Null /\ Holders(email) # {} THEN Idle
           ELSE [Idle EXCEPT !.pc = "insert", !.email = email])
  /\ missed' = missed \ {r}
  /\ Quiet

\* ... the password, and the row; userLogin without an id inserts one too.
Insert(r, u) ==
  /\ req[r].pc = "insert" /\ users[u].status = "UNISSUED"
  /\ users' = [users EXCEPT ![u] = [NewUser(req[r].email) EXCEPT !.raced = r \in missed]]
  /\ missed' = missed \cup Writers(r, req[r].email)
  /\ Go(r, [Idle EXCEPT !.pc = "slug", !.user = u])
  /\ UNCHANGED <<singles, secrets, told>>

\* userLogin without an id: a guest, who has neither e-mail nor password.
GuestLogin(r) == CreateLook(r, Null)

\* ... and the slug.
AddSlug(r) ==
  /\ req[r].pc = "slug" /\ Listed(req[r].user)
  /\ Go(r, Idle)
  /\ Quiet /\ UNCHANGED missed

\* updateUser: findUnique of the user, 404 ...
UpdateFind(r, u, email) ==
  /\ MayStart(r) /\ Listed(u)
  /\ Go(r, [Idle EXCEPT !.pc = IF email = Null THEN "update" ELSE "look",
                        !.user = u, !.email = email])
  /\ missed' = missed \ {r}
  /\ Quiet

UpdateLookMut(r) ==
  /\ req[r].pc = "look"
  /\ Go(r, [req[r] EXCEPT !.pc = "update"])
  /\ missed' = missed \ {r}
  /\ Quiet

\* ... findFirst of a new e-mail, refused when it is another user's ...
UpdateLook(r) ==
  LET q == req[r]
      holders == Holders(q.email)
  IN /\ q.pc = "look"
     /\ \/ (holders = {} \/ q.user \in holders) /\ Go(r, [q EXCEPT !.pc = "update"])
        \/ (\E v \in holders : v # q.user) /\ Go(r, Idle)
     /\ missed' = IF holders \subseteq {q.user} THEN missed \ {r} ELSE missed \cup {r}
     /\ Quiet

\* ... and the update.
UpdateWrite(r) ==
  LET q == req[r]
  IN /\ q.pc = "update" /\ Listed(q.user)
     /\ IF q.email = Null THEN UNCHANGED users
        ELSE users' = [users EXCEPT ![q.user].email = q.email,
                                    ![q.user].raced = r \in missed]
     /\ missed' = missed \cup Writers(r, q.email)
     /\ Go(r, Idle)
     /\ UNCHANGED <<singles, secrets, told>>

\* changePassword: findUnique, the hash, and the update, which leaves a code or a
\* token that is out as it is.
ChangeFind(r, u) ==
  /\ MayStart(r) /\ Listed(u)
  /\ Go(r, [Idle EXCEPT !.pc = "change", !.user = u])
  /\ Quiet /\ UNCHANGED missed

ChangeWrite(r) ==
  /\ req[r].pc = "change" /\ Listed(req[r].user)
  /\ Go(r, Idle)
  /\ Quiet /\ UNCHANGED missed

\* deleteUser.
DeleteFind(r, u) ==
  /\ MayStart(r) /\ Listed(u)
  /\ Go(r, [Idle EXCEPT !.pc = "delete", !.user = u])
  /\ Quiet /\ UNCHANGED missed

DeleteWrite(r) ==
  /\ req[r].pc = "delete" /\ Listed(req[r].user)
  /\ users' = [users EXCEPT ![req[r].user] = [Unissued EXCEPT !.status = "DELETED"]]
  /\ Go(r, Idle)
  /\ UNCHANGED <<singles, secrets, told, missed>>

-----------------------------------------------------------------------------
Draw(u, kind, era) ==
  Append(secrets, [user |-> u, kind |-> kind, uses |-> 0, expired |-> FALSE, era |-> era,
                   raced |-> FALSE])

ForgotFindMut(r, email, u) ==
  /\ MayStart(r) /\ (u \in Holders(email) \/ Holders(email) = {})
  /\ Go(r, [Idle EXCEPT !.pc = "forgot", !.user = IF u \in Holders(email) THEN u ELSE Null])
  /\ Quiet /\ UNCHANGED missed

\* forgotPassword: findFirst of the e-mail ...
ForgotFind(r, email, u) ==
  /\ MayStart(r) /\ u \in Holders(email)
  /\ Go(r, [Idle EXCEPT !.pc = "forgot", !.user = u])
  /\ Quiet /\ UNCHANGED missed

ForgotWriteMut(r) ==
  LET u == req[r].user
  IN /\ req[r].pc = "forgot" /\ Listed(u)
     /\ secrets' = Draw(u, "code", users[u].resets)
     /\ users' = [users EXCEPT ![u].otp = Len(secrets')]
     /\ missed' = missed \cup Others(r, {"verify"}, u)
     /\ Go(r, [req[r] EXCEPT !.pc = "mail", !.secret = Len(secrets')])
     /\ UNCHANGED <<singles, told>>

\* ... a new code, good for ten minutes ...
ForgotWrite(r) ==
  LET u == req[r].user
  IN /\ req[r].pc = "forgot" /\ Listed(u)
     /\ secrets' = Draw(u, "code", users[u].resets)
     /\ users' = [users EXCEPT ![u].otp = Len(secrets'), ![u].otpFresh = TRUE]
     /\ missed' = missed \cup Others(r, {"verify"}, u)
     /\ Go(r, [req[r] EXCEPT !.pc = "mail", !.secret = Len(secrets')])
     /\ UNCHANGED <<singles, told>>

\* ... and the mail.
Mail(r) ==
  /\ req[r].pc = "mail"
  /\ told' = [told EXCEPT ![req[r].user].code = req[r].secret]
  /\ Go(r, Idle)
  /\ UNCHANGED <<users, singles, secrets, missed>>

\* verifyOtp: findFirst of the e-mail; the code must be the one stored, and fresh.
VerifyFind(r, email, u) ==
  /\ MayStart(r) /\ u \in Holders(email)
  /\ users[u].otp # 0 /\ users[u].otpFresh
  /\ Go(r, [Idle EXCEPT !.pc = "verify", !.user = u, !.secret = users[u].otp])
  /\ missed' = missed \ {r}
  /\ Quiet

\* r has taken secret n: what it overwrites without having read it is raced too.
Taken(r, n, lost) ==
  [k \in DOMAIN secrets |->
     [secrets[k] EXCEPT !.uses = IF k = n THEN @ + 1 ELSE @,
                        !.raced = @ \/ (k = n /\ r \in missed) \/ (k # n /\ k \in lost)]]

VerifyWriteMut(r) ==
  LET u == req[r].user
      n == req[r].secret
      taken == Taken(r, n, {users[u].otp, users[u].token})
  IN /\ req[r].pc = "verify" /\ Listed(u)
     /\ secrets' = Append(taken, [user |-> u, kind |-> "token", uses |-> 0, expired |-> FALSE,
                                  era |-> secrets[n].era, raced |-> r \in missed])
     /\ users' = [users EXCEPT ![u] = [@ EXCEPT !.token = Len(secrets'), !.tokenFresh = TRUE]]
     /\ told' = [told EXCEPT ![u].token = Len(secrets')]
     /\ missed' = missed \cup Others(r, {"verify", "reset"}, u)
     /\ Go(r, Idle)
     /\ UNCHANGED singles

\* ... a token, good for fifteen minutes, in the place of the code; the answer.
VerifyWrite(r) ==
  LET u == req[r].user
      n == req[r].secret
      taken == Taken(r, n, {users[u].otp, users[u].token})
  IN /\ req[r].pc = "verify" /\ Listed(u)
     /\ secrets' = Append(taken, [user |-> u, kind |-> "token", uses |-> 0, expired |-> FALSE,
                                  era |-> secrets[n].era, raced |-> r \in missed])
     /\ users' = [users EXCEPT ![u] = [@ EXCEPT !.otp = 0, !.otpFresh = FALSE,
                                                !.token = Len(secrets'), !.tokenFresh = TRUE]]
     /\ told' = [told EXCEPT ![u].token = Len(secrets')]
     /\ missed' = missed \cup Others(r, {"verify", "reset"}, u)
     /\ Go(r, Idle)
     /\ UNCHANGED singles

\* resetPassword: findFirst of the token, which must be fresh ...
ResetFind(r, u) ==
  /\ MayStart(r) /\ Listed(u) /\ users[u].token # 0 /\ users[u].tokenFresh
  /\ Go(r, [Idle EXCEPT !.pc = "reset", !.user = u, !.secret = users[u].token])
  /\ missed' = missed \ {r}
  /\ Quiet

ResetWriteMut(r) ==
  LET u == req[r].user
  IN /\ req[r].pc = "reset" /\ Listed(u)
     /\ secrets' = Taken(r, req[r].secret, {users[u].token})
     /\ users' = [users EXCEPT ![u] = [@ EXCEPT !.token = 0, !.tokenFresh = FALSE,
                                                !.resets = users[u].resets + 1]]
     /\ missed' = missed \cup Others(r, {"verify", "reset"}, u)
     /\ Go(r, Idle)
     /\ UNCHANGED <<singles, told>>

\* ... and the new password, with every code and token cleared.
ResetWrite(r) ==
  LET u == req[r].user
  IN /\ req[r].pc = "reset" /\ Listed(u)
     /\ secrets' = Taken(r, req[r].secret, {users[u].token})
     /\ users' = [users EXCEPT ![u] = [@ EXCEPT !.otp = 0, !.otpFresh = FALSE,
                                                !.token = 0, !.tokenFresh = FALSE,
                                                !.resets = users[u].resets + 1]]
     /\ missed' = missed \cup Others(r, {"verify", "reset"}, u)
     /\ Go(r, Idle)
     /\ UNCHANGED <<singles, told>>

\* The expiry of the stored code, or token, passes.
Expire(u) ==
  /\ Listed(u)
  /\ \/ /\ users[u].otpFresh
        /\ users' = [users EXCEPT ![u].otpFresh = FALSE]
        /\ secrets' = [secrets EXCEPT ![users[u].otp].expired = TRUE]
     \/ /\ users[u].tokenFresh
        /\ users' = [users EXCEPT ![u].tokenFresh = FALSE]
        /\ secrets' = [secrets EXCEPT ![users[u].token].expired = TRUE]
  /\ UNCHANGED <<singles, req, told, missed, calls>>

-----------------------------------------------------------------------------
SingleFindMut(r, t) ==
  /\ MayStart(r)
  /\ Go(r, [Idle EXCEPT !.pc = "single", !.table = t])
  /\ missed' = missed \ {r}
  /\ Quiet

\* updateBusiness, getOperatingHours and updateOperatingHours: findFirst; a row
\* that is there is updated, or returned.
SingleFind(r, t) ==
  /\ MayStart(r)
  /\ Go(r, IF singles[t] = <<>> THEN [Idle EXCEPT !.pc = "single", !.table = t] ELSE Idle)
  /\ missed' = missed \ {r}
  /\ Quiet

\* ... and otherwise created.
SingleCreate(r) ==
  LET t == req[r].table
  IN /\ req[r].pc = "single"
     /\ singles' = [singles EXCEPT ![t] = Append(@, r \in missed)]
     /\ missed' = missed \cup {q \in Requests \ {r} : req[q].pc = "single" /\ req[q].table = t}
     /\ Go(r, Idle)
     /\ UNCHANGED <<users, secrets, told>>

-----------------------------------------------------------------------------
\* The user r was about to write has been deleted (P2025).
UserGone(r) ==
  /\ req[r].pc \in {"slug", "update", "change", "delete", "forgot", "verify", "reset"}
  /\ ~Listed(req[r].user)
  /\ Go(r, Idle)
  /\ Quiet /\ UNCHANGED missed

Interrupt(r) ==
  /\ Interruptions /\ req[r].pc # "idle"
  /\ Go(r, Idle)
  /\ Quiet /\ UNCHANGED missed

Start(r) ==
  \/ \E email \in Emails : CreateLook(r, email)
  \/ GuestLogin(r)
  \/ \E u \in Users : \/ \E email \in Emails \cup {Null} : UpdateFind(r, u, email)
                      \/ ChangeFind(r, u) \/ DeleteFind(r, u) \/ ResetFind(r, u)
  \/ \E email \in Emails, u \in Users : ForgotFind(r, email, u) \/ VerifyFind(r, email, u)
  \/ \E t \in Singles : SingleFind(r, t)

Step(r) ==
  \/ \E u \in Users : Insert(r, u)
  \/ AddSlug(r) \/ UpdateLook(r) \/ UpdateWrite(r) \/ ChangeWrite(r) \/ DeleteWrite(r)
  \/ ForgotWrite(r) \/ Mail(r) \/ VerifyWrite(r) \/ ResetWrite(r)
  \/ SingleCreate(r) \/ UserGone(r) \/ Interrupt(r)

Next == \/ \E r \in Requests : Start(r) \/ (Step(r) /\ UNCHANGED calls)
        \/ \E u \in Users : Expire(u)

Spec == Init /\ [][Next]_vars

-----------------------------------------------------------------------------
(***************************************************************************)
(* Correctness.                                                            *)
(***************************************************************************)

\* No two users have one e-mail, unless one of them got it after another request
\* had written it since the look for it (or from such a pair, which passes the look
\* when findFirst takes the user itself): no unique index backs that look.
EmailsAreUnique ==
  \A u, v \in Users : u # v /\ Listed(u) /\ Listed(v) /\ users[u].email = users[v].email =>
    users[u].email = Null \/ users[u].raced \/ users[v].raced

\* A mailed code buys one token, and a token one password, unless two requests
\* had both read it before either took it.
SecretServesOnce ==
  \A n \in DOMAIN secrets : secrets[n].uses <= 1 \/ secrets[n].raced

Later(u, n, kind) == \E k \in DOMAIN secrets : k > n /\ secrets[k].user = u /\ secrets[k].kind = kind

\* What a user was last told works: the code that was mailed and the token that
\* was answered are stored and fresh, unless taken, expired, followed by another,
\* cleared by a reset since, or overwritten by a request that had not read them.
SecretsStand ==
  \A u \in Users, kind \in {"code", "token"} :
    LET n     == told[u][kind]
        holds == IF kind = "code" THEN users[u].otp = n /\ users[u].otpFresh
                 ELSE users[u].token = n /\ users[u].tokenFresh
    IN Listed(u) /\ n # 0 =>
         \/ holds \/ Later(u, n, kind)
         \/ secrets[n].uses > 0 \/ secrets[n].expired \/ secrets[n].raced
         \/ secrets[n].era < users[u].resets

\* A reset ends the recovery: no code from before it, and no token bought with
\* one, is stored after it, unless the token was bought by a request that had
\* read the code before the reset.
ResetRevokes ==
  \A u \in Users :
    /\ users[u].otp # 0 => secrets[users[u].otp].era = users[u].resets
    /\ users[u].token # 0 => \/ secrets[users[u].token].raced
                             \/ secrets[users[u].token].era = users[u].resets

\* The business profile and the opening hours are one row each, unless a second
\* request had looked for the row before the first created it.
SingletonsStand ==
  \A t \in Singles : \A k \in 2..Len(singles[t]) : singles[t][k]

=============================================================================
