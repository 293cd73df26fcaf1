----------------------------- MODULE ShiftDesk -----------------------------
(***************************************************************************)
(* Shifts: shift.service.ts, and deleteUser of user.service.ts as far as   *)
(* shifts refer to users.                                                  *)
(*                                                                         *)
(* A row of shift_sessions is opened (type OPENING) and closed (CLOSING);  *)
(* openShift looks for today's session before it creates one, closeShift   *)
(* reads the row it is going to write.  Each action is one query of one    *)
(* request with the code up to the next await; a look at rows that are     *)
(* never deleted and fields that never change belongs to the next query.   *)
(* inventoryAccurate, promotionConfirmed and salesConfirmed are treated    *)
(* alike and are one flag here, and so are the three skipped... flags.     *)
(* Rows are numbered in the order they are created, as createdAt has it.   *)
(* The amounts of a body are in units of Money, those of a row in cents.   *)
(***************************************************************************)
EXTENDS Money, Sequences, SequencesExt, FiniteSetsExt

CONSTANTS
  Users,          \* user ids; all are there at first
  Requests,       \* requests that can be under way at once
  Closings,       \* the bodies of POST /shift/close
  Null,           \* a value not given, or a column never set
  Interruptions,  \* TRUE: a query may reject, or the process die, at any await
  MaxDay,         \* bound: the days of one behaviour
  MaxCalls        \* bound: the requests of one behaviour

Amount == Int \cup {Null}
Flag   == BOOLEAN \cup {Null}

\* skipped has a default of false in the schema of the body: it is always given.
Closing == [opening : Amount, closing : Amount, confirmed : Flag, skipped : BOOLEAN]

ASSUME ShiftAssumption ==
  /\ Null \notin Users /\ Null \notin Int /\ Null \notin BOOLEAN
  /\ Null \notin {"OPENING", "CLOSING"}
  /\ Closings \subseteq Closing
  /\ Interruptions \in BOOLEAN /\ MaxDay \in Nat /\ MaxCalls \in Nat

VARIABLES
  users,     \* the users that have not been deleted
  sessions,  \* the shift_sessions table
  proofs,    \* the cash_proofs table
  day,       \* today
  req,       \* the requests under way
  \* History variables: nothing in the code corresponds to them.
  missed,    \* requests that do not know what others wrote since they read
  answer,    \* the session each user's last openShift was answered with, or 0
  calls      \* how many requests there have been

vars == <<users, sessions, proofs, day, req, missed, answer, calls>>

-----------------------------------------------------------------------------
\* History: raced says that another of the user's sessions was created between
\* the look for one and this row; zero, that the last close gave an amount of 0,
\* and whole, that it gave whole cents; counted and said are the last opening amount
\* (other than 0) and the last confirmation given, and mixed that a close wrote back
\* older ones.
Session == [user : Users \cup {Null}, day : Nat, type : {"OPENING", "CLOSING"},
            opening : Amount, closing : Amount, discrepancy : Amount,
            confirmed : Flag, skipped : BOOLEAN,
            raced : BOOLEAN, zero : BOOLEAN, whole : BOOLEAN, counted : Amount,
            said : Flag, mixed : BOOLEAN]

Proof == [session : Nat, uploadedBy : Users \cup {Null}, verifiedBy : Users \cup {Null},
          verified : BOOLEAN]

Pc == {"idle", "look", "create", "close", "upload", "verify"}

\* on: the session, or the proof, a request is about; body and read are what a
\* close was given and the opening amount and confirmation it has read.
Request == [pc : Pc, user : Users \cup {Null}, on : Nat, body : Closing,
            opening : Amount, confirmed : Flag]

NoBody == [opening |-> Null, closing |-> Null, confirmed |-> Null, skipped |-> FALSE]
Idle   == [pc |-> "idle", user |-> Null, on |-> 0, body |-> NoBody,
           opening |-> Null, confirmed |-> Null]

Sound(q) == /\ q.pc \in {"look", "create", "upload", "verify"} => q.user \in Users
            /\ q.pc \in {"close", "upload"} => q.on \in DOMAIN sessions
            /\ q.pc = "verify" => q.on \in DOMAIN proofs

\* Rows refer to rows that are there.
TypeOK ==
  /\ users \in SUBSET Users
  /\ sessions \in Seq(Session)
  /\ proofs \in Seq(Proof)
  /\ \A n \in DOMAIN sessions : sessions[n].user \in users \cup {Null}
  /\ \A n \in DOMAIN proofs : /\ proofs[n].session \in DOMAIN sessions
                              /\ proofs[n].uploadedBy \in users \cup {Null}
                              /\ proofs[n].verifiedBy \in users \cup {Null}
  /\ day \in Nat
  /\ req \in [Requests -> Request]
  /\ \A r \in Requests : Sound(req[r])
  /\ missed \in SUBSET Requests
  /\ answer \in [Users -> Nat]
  /\ \A u \in Users : answer[u] = 0 \/ answer[u] \in DOMAIN sessions
  /\ calls \in Nat

Init ==
  /\ users = Users /\ sessions = <<>> /\ proofs = <<>> /\ day = 1
  /\ req = [r \in Requests |-> Idle]
  /\ missed = {} /\ answer = [u \in Users |-> 0] /\ calls = 0

-----------------------------------------------------------------------------
MayStart(r) == req[r].pc = "idle" /\ calls < MaxCalls /\ calls' = calls + 1

Go(r, state) == req' = [req EXCEPT ![r] = state]

Mine(u) == {n \in DOMAIN sessions : sessions[n].user = u}
Latest(S) == CHOOSE n \in S : \A m \in S : m <= n

\* Ordered by createdAt, newest first, and createdAt at or after midnight.
Todays(u) == {n \in Mine(u) : sessions[n].day >= day}

-----------------------------------------------------------------------------
\* openShift: findUnique of the user.
OpenFind(r, u) ==
  /\ MayStart(r) /\ u \in users
  /\ Go(r, [Idle EXCEPT !.pc = "look", !.user = u])
  /\ UNCHANGED <<users, sessions, proofs, day, missed, answer>>

OpenLookMut(r) ==
  LET u == req[r].user
  IN /\ req[r].pc = "look"
     /\ IF Todays(u) # {} /\ sessions[CHOOSE n \in Todays(u) : \A m \in Todays(u) : n <= m].type = "OPENING"
        THEN /\ Go(r, Idle)
             /\ answer' = [answer EXCEPT ![u] = CHOOSE n \in Todays(u) : \A m \in Todays(u) : n <= m]
        ELSE /\ Go(r, [req[r] EXCEPT !.pc = "create"])
             /\ UNCHANGED answer
     /\ missed' = missed \ {r}
     /\ UNCHANGED <<users, sessions, proofs, day>>

\* findFirst of today's latest session: the answer, if it is still open.
OpenLook(r) ==
  LET u == req[r].user
  IN /\ req[r].pc = "look"
     /\ IF Todays(u) # {} /\ sessions[Latest(Todays(u))].type = "OPENING"
        THEN Go(r, Idle) /\ answer' = [answer EXCEPT ![u] = Latest(Todays(u))]
        ELSE Go(r, [req[r] EXCEPT !.pc = "create"]) /\ UNCHANGED answer
     /\ missed' = missed \ {r}
     /\ UNCHANGED <<users, sessions, proofs, day>>

\* Otherwise a new one, which the foreign key refuses for a user deleted since.
OpenCreate(r) ==
  LET u == req[r].user
  IN /\ req[r].pc = "create"
     /\ IF u \in users
        THEN /\ sessions' = Append(sessions,
                  [user |-> u, day |-> day, type |-> "OPENING", opening |-> Null,
                   closing |-> Null, discrepancy |-> Null, confirmed |-> Null,
                   skipped |-> FALSE, raced |-> r \in missed, zero |-> FALSE,
                   whole |-> TRUE, counted |-> Null, said |-> Null, mixed |-> FALSE])
             /\ answer' = [answer EXCEPT ![u] = Len(sessions')]
             /\ missed' = missed \cup {s \in Requests \ {r} :
                                         req[s].pc = "create" /\ req[s].user = u}
        ELSE UNCHANGED <<sessions, answer, missed>>
     /\ Go(r, Idle)
     /\ UNCHANGED <<users, proofs, day>>

-----------------------------------------------------------------------------
\* closeShift: findUnique of the session, whatever its type or its day.
CloseRead(r, n, body) ==
  /\ MayStart(r) /\ n \in DOMAIN sessions
  /\ Go(r, [Idle EXCEPT !.pc = "close", !.on = n, !.body = body,
                        !.opening = sessions[n].opening, !.confirmed = sessions[n].confirmed])
  /\ missed' = missed \ {r}
  /\ UNCHANGED <<users, sessions, proofs, day, answer>>

\* Only when both are given; and null is stored otherwise.
Discrepancy(body) ==
  IF body.opening # Null /\ body.closing # Null THEN body.closing - body.opening ELSE Null

\* An amount of 0 is falsy; one of less than half a cent is not, but is stored as 0.
Truthy(amount) == amount \notin {Null, 0}

Stored(amount) == IF amount = Null THEN Null ELSE ToCents(amount)

ClosedMut(session, body, opening, confirmed) ==
  [session EXCEPT
     !.type = "CLOSING",
     !.opening = IF Truthy(body.opening) THEN Stored(body.opening) ELSE opening,
     !.closing = IF Truthy(body.closing) THEN Stored(body.closing) ELSE @,
     !.discrepancy = IF Discrepancy(body) = Null THEN @ ELSE Stored(Discrepancy(body)),
     !.confirmed = IF body.confirmed # Null THEN body.confirmed ELSE confirmed,
     !.skipped = body.skipped]

ClosedOverwrites(session, body, opening, confirmed) ==
  [session EXCEPT
     !.type = "CLOSING",
     !.opening = IF Truthy(body.opening) THEN Stored(body.opening) ELSE opening,
     !.closing = IF Truthy(body.closing) THEN Stored(body.closing) ELSE @,
     !.discrepancy = Stored(Discrepancy(body)),
     !.confirmed = body.confirmed,
     !.skipped = body.skipped]

\* The row closeShift writes: an amount not given, or 0, is the one it read
\* (opening) or the one that is there (closing).  The discrepancy is taken of the amounts
\* given, and each of the three is rounded by its column.
Closed(session, body, opening, confirmed) ==
  [session EXCEPT
     !.type = "CLOSING",
     !.opening = IF Truthy(body.opening) THEN Stored(body.opening) ELSE opening,
     !.closing = IF Truthy(body.closing) THEN Stored(body.closing) ELSE @,
     !.discrepancy = Stored(Discrepancy(body)),
     !.confirmed = IF body.confirmed # Null THEN body.confirmed ELSE confirmed,
     !.skipped = body.skipped]

WholeCents(amount) == amount = Null \/ amount % Scale = 0

\* History of a close.
Noted(session, body, stale) ==
  [session EXCEPT
     !.zero = 0 \in {body.opening, body.closing},
     !.whole = WholeCents(body.opening) /\ WholeCents(body.closing),
     !.counted = IF Truthy(body.opening) THEN Stored(body.opening) ELSE @,
     !.said = IF body.confirmed # Null THEN body.confirmed ELSE @,
     !.mixed = @ \/ stale]

CloseWrite(r) ==
  LET q == req[r]
  IN /\ q.pc = "close"
     /\ sessions' = [sessions EXCEPT ![q.on] =
                       Noted(Closed(@, q.body, q.opening, q.confirmed), q.body, r \in missed)]
     /\ missed' = missed \cup {s \in Requests \ {r} : req[s].pc = "close" /\ req[s].on = q.on}
     /\ Go(r, Idle)
     /\ UNCHANGED <<users, proofs, day, answer>>

-----------------------------------------------------------------------------
\* uploadCashProof: findUnique of the session and of the user ...
UploadFind(r, n, u) ==
  /\ MayStart(r) /\ n \in DOMAIN sessions /\ u \in users
  /\ Go(r, [Idle EXCEPT !.pc = "upload", !.on = n, !.user = u])
  /\ UNCHANGED <<users, sessions, proofs, day, missed, answer>>

\* ... the upload of the file, and then the row.
UploadProof(r) ==
  LET q == req[r]
  IN /\ q.pc = "upload"
     /\ IF q.user \in users
        THEN proofs' = Append(proofs, [session |-> q.on, uploadedBy |-> q.user,
                                       verifiedBy |-> Null, verified |-> FALSE])
        ELSE UNCHANGED proofs
     /\ Go(r, Idle)
     /\ UNCHANGED <<users, sessions, day, missed, answer>>

\* verifyCashProof: the session, its proof and the verifier ...
VerifyFind(r, n, p, u) ==
  /\ MayStart(r)
  /\ n \in DOMAIN sessions /\ p \in DOMAIN proofs /\ proofs[p].session = n /\ u \in users
  /\ Go(r, [Idle EXCEPT !.pc = "verify", !.on = p, !.user = u])
  /\ UNCHANGED <<users, sessions, proofs, day, missed, answer>>

\* ... and the update, also of a proof that is verified already.
VerifyProof(r) ==
  LET q == req[r]
  IN /\ q.pc = "verify"
     /\ IF q.user \in users
        THEN proofs' = [proofs EXCEPT ![q.on].verifiedBy = q.user, ![q.on].verified = TRUE]
        ELSE UNCHANGED proofs
     /\ Go(r, Idle)
     /\ UNCHANGED <<users, sessions, day, missed, answer>>

-----------------------------------------------------------------------------
DeleteUserMut(u) ==
  /\ calls < MaxCalls /\ calls' = calls + 1
  /\ u \in users
  /\ users' = users \ {u}
  /\ sessions' = [n \in DOMAIN sessions |->
                    [sessions[n] EXCEPT !.user = IF @ = u THEN Null ELSE @]]
  /\ proofs' = [n \in DOMAIN proofs |->
                  [proofs[n] EXCEPT !.uploadedBy = IF @ = u THEN Null ELSE @]]
  /\ UNCHANGED <<day, req, missed, answer>>

\* deleteUser: the rows that refer to the user stay and refer to nobody.
DeleteUser(u) ==
  /\ calls < MaxCalls /\ calls' = calls + 1
  /\ u \in users
  /\ users' = users \ {u}
  /\ sessions' = [n \in DOMAIN sessions |->
                    [sessions[n] EXCEPT !.user = IF @ = u THEN Null ELSE @]]
  /\ proofs' = [n \in DOMAIN proofs |->
                  [proofs[n] EXCEPT !.uploadedBy = IF @ = u THEN Null ELSE @,
                                    !.verifiedBy = IF @ = u THEN Null ELSE @]]
  /\ UNCHANGED <<day, req, missed, answer>>

NextDay ==
  /\ day < MaxDay /\ day' = day + 1
  /\ UNCHANGED <<users, sessions, proofs, req, missed, answer, calls>>

Interrupt(r) ==
  /\ Interruptions /\ req[r].pc # "idle"
  /\ Go(r, Idle)
  /\ UNCHANGED <<users, sessions, proofs, day, missed, answer>>

Start(r) ==
  \/ \E u \in Users : OpenFind(r, u)
  \/ \E n \in DOMAIN sessions, body \in Closings : CloseRead(r, n, body)
  \/ \E n \in DOMAIN sessions, u \in Users : UploadFind(r, n, u)
  \/ \E n \in DOMAIN sessions, p \in DOMAIN proofs, u \in Users : VerifyFind(r, n, p, u)

Step(r) == \/ OpenLook(r) \/ OpenCreate(r) \/ CloseWrite(r)
           \/ UploadProof(r) \/ VerifyProof(r) \/ Interrupt(r)

Next == \/ \E r \in Requests : Start(r) \/ (Step(r) /\ UNCHANGED calls)
        \/ \E u \in Users : DeleteUser(u)
        \/ NextDay

Spec == Init /\ [][Next]_vars

-----------------------------------------------------------------------------
CurrentMut(u) ==
  LET open == {n \in Mine(u) : sessions[n].type = "OPENING"}
  IN IF open = {} THEN 0 ELSE CHOOSE n \in open : \A m \in open : n <= m

\* getCurrentShift: the latest open session, of whatever day; 0 for none.
Current(u) ==
  LET open == {n \in Mine(u) : sessions[n].type = "OPENING"}
  IN IF open = {} THEN 0 ELSE Latest(open)

Matching(u, type, from, to) ==
  {n \in Mine(u) : /\ type # Null => sessions[n].type = type
                   /\ from # Null => sessions[n].day >= from
                   /\ to # Null => sessions[n].day <= to}

\* createdAt descending: k - 1 of the rows are newer than the k-th.
NewestFirst(S) ==
  [k \in 1..Cardinality(S) |-> CHOOSE n \in S : Cardinality({m \in S : m > n}) = k - 1]

\* getShiftHistory: one page of a user's sessions, newest first ...
HistoryPage(u, type, from, to, page, limit) ==
  LET rows == NewestFirst(Matching(u, type, from, to))
      skip == (page - 1) * limit
  IN SubSeq(rows, skip + 1, IF skip + limit < Len(rows) THEN skip + limit ELSE Len(rows))

\* ... and the number of pages the route tells: ceil(total / limit).
TotalPages(u, type, from, to, limit) ==
  (Cardinality(Matching(u, type, from, to)) + limit - 1) \div limit

-----------------------------------------------------------------------------
(***************************************************************************)
(* Correctness.                                                            *)
(***************************************************************************)

\* A user has at most one open shift a day, unless on that day two requests of
\* the user looked before either had created one.  (After such a race a close of
\* the later session lets a third be opened beside the first.)
OneOpenShiftADay ==
  \A u \in Users : \A m, n \in Mine(u) :
    (/\ m < n /\ sessions[m].day = sessions[n].day
     /\ sessions[m].type = "OPENING" /\ sessions[n].type = "OPENING")
    => \E k \in Mine(u) : sessions[k].day = sessions[n].day /\ sessions[k].raced

\* The pages of a user's history, of limit rows each, one after the other.
History(u, type, from, to, limit) ==
  FlattenSeq([p \in 1..TotalPages(u, type, from, to, limit) |->
                HistoryPage(u, type, from, to, p, limit)])

\* The screens agree on a user's shifts: the one the user was last told to be open is,
\* until somebody closes it, the one GET /shift/current shows; that is the first row
\* of the history of open shifts; and the pages of the history, here of two rows each,
\* hold each session that matches once, newest first, whatever the filter.
CurrentIsTheOneOpened ==
  \A u \in users :
    /\ answer[u] # 0 => sessions[answer[u]].type = "CLOSING" \/ Current(u) = answer[u]
    /\ LET open == History(u, "OPENING", Null, Null, 2)
       IN Current(u) = IF open = <<>> THEN 0 ELSE Head(open)
    /\ \A type \in {Null, "OPENING", "CLOSING"}, from, to \in {Null} \cup 1..MaxDay :
         History(u, type, from, to, 2) = NewestFirst(Matching(u, type, from, to))

\* A stored discrepancy is that of the stored amounts if the last close gave whole
\* cents, and else within a cent of it: the two amounts and their difference are rounded
\* one by one.  Unless that close gave a 0: it enters the discrepancy but is not stored.
DiscrepancyHolds ==
  \A n \in DOMAIN sessions :
    LET s == sessions[n]
    IN s.discrepancy # Null /\ ~s.zero =>
         /\ s.opening # Null /\ s.closing # Null
         /\ s.discrepancy - (s.closing - s.opening) \in {-1, 0, 1}
         /\ s.whole => s.discrepancy = s.closing - s.opening

\* A close keeps what it is not given: the opening amount and the confirmations
\* are the last ones any close gave, unless two closes of the session overlapped.
CountsStand ==
  \A n \in DOMAIN sessions :
    LET s == sessions[n]
    IN s.mixed \/ (s.opening = s.counted /\ s.confirmed = s.said)
=============================================================================
