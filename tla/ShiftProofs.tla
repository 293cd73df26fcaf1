---------------------------- MODULE ShiftProofs ----------------------------
(***************************************************************************)
(* Theorems about ShiftDesk, for any number of users, requests and days,   *)
(* any bodies of a close, overlapping and interrupted at will.             *)
(***************************************************************************)
EXTENDS ShiftDesk, FiniteSetTheorems, WellFoundedInduction, TLAPS

(***************************************************************************)
(* What the columns make of amounts.                                       *)
(***************************************************************************)

LEMMA TimesLess ==
  ASSUME NEW d \in Nat, d > 0, NEW x \in Int, NEW y \in Int, d * x < d * y
  PROVE  x < y
<1>. SUFFICES ASSUME ~(x < y) PROVE FALSE OBVIOUS
<1>1. PICK z \in Nat : x = y + z
  <2>1. x - y \in Nat /\ x = y + (x - y) OBVIOUS
  <2>. QED BY <2>1
<1>2. d * x = d * y + d * z BY <1>1
<1>3. d * z >= 0 OBVIOUS
<1>4. d * x \in Int /\ d * y \in Int /\ d * z \in Int OBVIOUS
<1>. QED BY <1>2, <1>3, <1>4

LEMMA Quotient ==
  ASSUME NEW a \in Int, NEW d \in Nat, d > 0
  PROVE  /\ a \div d \in Int
         /\ d * (a \div d) <= a /\ a < d * (a \div d) + d
  OBVIOUS

\* The column is off by half a cent at most ...
LEMMA Rounding ==
  ASSUME NEW a \in Int
  PROVE  /\ ToCents(a) \in Int /\ Units(ToCents(a)) \in Int
         /\ -Scale <= 2 * (Units(ToCents(a)) - a) /\ 2 * (Units(ToCents(a)) - a) <= Scale
<1>. DEFINE s == Scale
            d == 2 * s
            up == (2 * a + s) \div d
            down == (s - 2 * a) \div d
<1>1. s \in Nat /\ s > 0 /\ d \in Nat /\ d > 0 BY MoneyAssumption
<1>2. up \in Int /\ d * up <= 2 * a + s /\ 2 * a + s < d * up + d
  <2>. HIDE DEF d, s
  <2>. QED BY <1>1, Quotient
<1>3. down \in Int /\ d * down <= s - 2 * a /\ s - 2 * a < d * down + d
  <2>. HIDE DEF d, s
  <2>. QED BY <1>1, Quotient
<1>4. CASE a >= 0
  <2>1. ToCents(a) = up BY <1>4 DEF ToCents
  <2>. HIDE DEF s, up
  <2>2. d * up = 2 * (up * s) /\ up * s \in Int BY <1>1, <1>2
  <2>. HIDE DEF d
  <2>3. Units(ToCents(a)) = up * s BY <2>1 DEF Units, s
  <2>. QED BY <1>1, <1>2, <2>1, <2>2, <2>3 DEF s, d
<1>5. CASE ~(a >= 0)
  <2>1. ToCents(a) = -down BY <1>5 DEF ToCents
  <2>. HIDE DEF s, down
  <2>2. d * down = 2 * (down * s) /\ down * s \in Int /\ (-down) * s = -(down * s) BY <1>1, <1>3
  <2>. HIDE DEF d
  <2>3. Units(ToCents(a)) = -(down * s) BY <2>1, <2>2 DEF Units, s
  <2>. QED BY <1>1, <1>3, <2>1, <2>2, <2>3 DEF s, d
<1>. QED BY <1>4, <1>5

\* ... and holds whole cents as they are.
LEMMA WholeStored ==
  ASSUME NEW a \in Int, a % Scale = 0 PROVE Units(ToCents(a)) = a
<1>. DEFINE s == Scale
            k == a \div s
            t == ToCents(a)
<1>1. s \in Nat /\ s > 0 BY MoneyAssumption
<1>2. k \in Int /\ a = s * k
  <2>1. k \in Int BY <1>1, Quotient
  <2>2. a % s = 0 OBVIOUS
  <2>. HIDE DEF s
  <2>. QED BY <1>1, <2>1, <2>2
<1>3. t \in Int /\ Units(t) \in Int /\ -s <= 2 * (Units(t) - a) /\ 2 * (Units(t) - a) <= s
  BY Rounding
<1>. HIDE DEF k, t
<1>4. Units(t) = s * t BY <1>1, <1>3 DEF Units
<1>. HIDE DEF s
<1>5. /\ s * (t + 1) = s * t + s /\ s * (k + 1) = s * k + s
      /\ s * t \in Int /\ s * k \in Int
  BY <1>1, <1>2, <1>3
<1>6. s * t < s * (k + 1) /\ s * k < s * (t + 1) BY <1>1, <1>2, <1>3, <1>4, <1>5
<1>7. t < k + 1 /\ k < t + 1 BY <1>1, <1>2, <1>3, <1>6, TimesLess
<1>8. t = k BY <1>2, <1>3, <1>7
<1>. QED BY <1>2, <1>4, <1>8 DEF t

\* Two amounts and their difference, each rounded: at most a cent is lost, and none of
\* whole cents.
LEMMA DifferenceStored ==
  ASSUME NEW a \in Int, NEW b \in Int
  PROVE  /\ ToCents(b - a) - (ToCents(b) - ToCents(a)) \in {-1, 0, 1}
         /\ a % Scale = 0 /\ b % Scale = 0 => ToCents(b - a) = ToCents(b) - ToCents(a)
<1>. DEFINE s == Scale
            c == b - a
            x == ToCents(a)
            y == ToCents(b)
            z == ToCents(c)
            e == z - (y - x)
<1>1. s \in Nat /\ s > 0 /\ c \in Int BY MoneyAssumption
<1>2. /\ x \in Int /\ Units(x) \in Int /\ -s <= 2 * (Units(x) - a) /\ 2 * (Units(x) - a) <= s
      /\ y \in Int /\ Units(y) \in Int /\ -s <= 2 * (Units(y) - b) /\ 2 * (Units(y) - b) <= s
      /\ z \in Int /\ Units(z) \in Int /\ -s <= 2 * (Units(z) - c) /\ 2 * (Units(z) - c) <= s
  BY <1>1, Rounding
<1>. HIDE DEF x, y, z
<1>3. e \in Int /\ s * e = Units(z) - (Units(y) - Units(x))
  <2>1. Units(x) = s * x /\ Units(y) = s * y /\ Units(z) = s * z BY <1>1, <1>2 DEF Units
  <2>. HIDE DEF s
  <2>. QED BY <1>1, <1>2, <2>1
<1>4. 2 * (s * e) <= 3 * s /\ -(3 * s) <= 2 * (s * e)
  <2>. HIDE DEF s, e
  <2>. QED BY <1>1, <1>2, <1>3
<1>5. e \in {-1, 0, 1}
  <2>. HIDE DEF s, e
  <2>1. s * e < s * 2 /\ s * (-2) < s * e
    <3>1. s * 2 = 2 * s /\ s * (-2) = -(2 * s) /\ s * e \in Int BY <1>1, <1>3
    <3>. QED BY <1>1, <1>4, <3>1
  <2>2. e < 2 /\ -2 < e BY <1>1, <1>3, <2>1, TimesLess
  <2>. QED BY <1>3, <2>2
<1>6. ASSUME a % Scale = 0, b % Scale = 0 PROVE e = 0
  <2>1. Units(x) = a /\ Units(y) = b BY <1>6, WholeStored DEF x, y
  <2>2. -s <= 2 * (s * e) /\ 2 * (s * e) <= s
    <3>. HIDE DEF s, e
    <3>. QED BY <1>1, <1>2, <1>3, <2>1
  <2>. HIDE DEF s, e
  <2>3. s * e < s * 1 /\ s * (-1) < s * e
    <3>1. s * 1 = s /\ s * (-1) = -s /\ s * e \in Int BY <1>1, <1>3
    <3>. QED BY <1>1, <2>2, <3>1
  <2>4. e < 1 /\ -1 < e BY <1>1, <1>3, <2>3, TimesLess
  <2>. QED BY <1>3, <2>4
<1>7. /\ e \in {-1, 0, 1}
      /\ a % Scale = 0 /\ b % Scale = 0 => e = 0
  <2>. HIDE DEF e, s
  <2>. QED BY <1>5, <1>6
<1>8. e = z - (y - x) OBVIOUS
<1>9. /\ z - (y - x) \in {-1, 0, 1}
      /\ a % Scale = 0 /\ b % Scale = 0 => z = y - x
  <2>. DEFINE whole == a % Scale = 0 /\ b % Scale = 0
  <2>1. e \in {-1, 0, 1} /\ (whole => e = 0) BY <1>7
  <2>. HIDE DEF whole, e
  <2>2. z - (y - x) \in {-1, 0, 1} BY <2>1, <1>8
  <2>3. whole => z = y - x BY <2>1, <1>8, <1>2
  <2>. USE DEF whole
  <2>. QED BY <2>2, <2>3
<1>. QED BY <1>9 DEF x, y, z

-----------------------------------------------------------------------------
(***************************************************************************)
(* Type correctness.                                                       *)
(***************************************************************************)

LEMMA IdleType == Idle \in Request
  BY DEF Idle, NoBody, Request, Pc, Closing, Amount, Flag

\* What a request, a session and a body look like to the actions.
LEMMA RequestFields ==
  ASSUME NEW q \in Request
  PROVE  /\ q.pc \in Pc /\ q.user \in Users \cup {Null} /\ q.on \in Nat /\ q.body \in Closing
         /\ q.opening \in Amount /\ q.confirmed \in Flag
  BY DEF Request

LEMMA SessionFields ==
  ASSUME NEW s \in Session
  PROVE  /\ s.user \in Users \cup {Null} /\ s.day \in Nat /\ s.type \in {"OPENING", "CLOSING"}
         /\ s.opening \in Amount /\ s.closing \in Amount /\ s.discrepancy \in Amount
         /\ s.confirmed \in Flag /\ s.skipped \in BOOLEAN /\ s.raced \in BOOLEAN
         /\ s.zero \in BOOLEAN /\ s.whole \in BOOLEAN /\ s.counted \in Amount /\ s.said \in Flag
         /\ s.mixed \in BOOLEAN
  BY DEF Session

LEMMA BodyFields ==
  ASSUME NEW b \in Closing
  PROVE  /\ b.opening \in Amount /\ b.closing \in Amount /\ b.confirmed \in Flag
         /\ b.skipped \in BOOLEAN
  BY DEF Closing

LEMMA ProofFields ==
  ASSUME NEW p \in Proof
  PROVE  /\ p.session \in Nat /\ p.verified \in BOOLEAN
         /\ p.uploadedBy \in Users \cup {Null} /\ p.verifiedBy \in Users \cup {Null}
  BY DEF Proof

LEMMA DiscrepancyType ==
  ASSUME NEW b \in Closing PROVE Discrepancy(b) \in Amount
  BY BodyFields DEF Discrepancy, Amount

LEMMA StoredType ==
  ASSUME NEW a \in Amount PROVE Stored(a) \in Amount /\ (Stored(a) = Null <=> a = Null)
  BY Rounding, ShiftAssumption DEF Stored, Amount

\* The tables and the requests, apart from the history.
TablesOK ==
  /\ users \in SUBSET Users
  /\ sessions \in Seq(Session)
  /\ proofs \in Seq(Proof)
  /\ \A n \in DOMAIN sessions : sessions[n].user \in users \cup {Null}
  /\ \A n \in DOMAIN proofs : /\ proofs[n].session \in DOMAIN sessions
                              /\ proofs[n].uploadedBy \in users \cup {Null}
                              /\ proofs[n].verifiedBy \in users \cup {Null}

RequestsOK == /\ req \in [Requests -> Request]
              /\ \A r \in Requests : Sound(req[r])

HistoryOK ==
  /\ day \in Nat /\ missed \in SUBSET Requests /\ calls \in Nat
  /\ answer \in [Users -> Nat]
  /\ \A u \in Users : answer[u] = 0 \/ answer[u] \in DOMAIN sessions

LEMMA TypeParts == TypeOK <=> TablesOK /\ RequestsOK /\ HistoryOK
  BY DEF TypeOK, TablesOK, RequestsOK, HistoryOK

LEMMA TypePartsNext == TablesOK' /\ RequestsOK' /\ HistoryOK' => TypeOK'
  BY DEF TypeOK, TablesOK, RequestsOK, HistoryOK

LEMMA InitType == Init => TypeOK
<1>. SUFFICES ASSUME Init PROVE TypeOK OBVIOUS
<1>1. RequestsOK
  BY IdleType DEF Init, RequestsOK, Sound, Idle
<1>2. TablesOK BY DEF Init, TablesOK
<1>3. HistoryOK BY DEF Init, HistoryOK
<1>. QED BY <1>1, <1>2, <1>3, TypeParts

\* A request goes on to a typed state; rows may have been added.
LEMMA GoType ==
  ASSUME TypeOK, NEW r \in Requests, NEW state \in Request, Go(r, state),
         DOMAIN sessions \subseteq DOMAIN sessions', DOMAIN proofs \subseteq DOMAIN proofs',
         state.pc \in {"look", "create", "upload", "verify"} => state.user \in Users,
         state.pc \in {"close", "upload"} => state.on \in DOMAIN sessions,
         state.pc = "verify" => state.on \in DOMAIN proofs
  PROVE  RequestsOK'
<1>1. req' = [req EXCEPT ![r] = state] /\ req \in [Requests -> Request] BY DEF Go, TypeOK
<1>2. req' \in [Requests -> Request] BY <1>1
<1>3. ASSUME NEW q \in Requests PROVE Sound(req[q])'
  <2>1. Sound(req[q]) BY DEF TypeOK
  <2>2. CASE q = r
    <3>1. req'[q] = state BY <1>1, <2>2
    <3>. QED BY <3>1 DEF Sound
  <2>3. CASE q # r
    <3>1. req'[q] = req[q] BY <1>1, <2>3
    <3>. QED BY <2>1, <3>1 DEF Sound
  <2>. QED BY <2>2, <2>3
<1>. QED BY <1>2, <1>3 DEF RequestsOK

LEMMA EndType ==
  ASSUME TypeOK, NEW r \in Requests, Go(r, Idle),
         DOMAIN sessions \subseteq DOMAIN sessions', DOMAIN proofs \subseteq DOMAIN proofs'
  PROVE  RequestsOK'
<1>1. Idle.pc = "idle" BY DEF Idle
<1>. QED BY <1>1, IdleType, GoType

\* The start of a request: it reads, and nothing else changes.
LEMMA StartType ==
  ASSUME TypeOK, NEW r \in Requests, Start(r) PROVE TypeOK'
<1>1. UNCHANGED <<users, sessions, proofs, day, answer>>
  BY DEF Start, OpenFind, CloseRead, UploadFind, VerifyFind
<1>2. missed' \in SUBSET Requests /\ calls' \in Nat
  <2>1. missed' = missed \/ missed' = missed \ {r}
    BY DEF Start, OpenFind, CloseRead, UploadFind, VerifyFind
  <2>2. calls' = calls + 1
    BY DEF Start, OpenFind, CloseRead, UploadFind, VerifyFind, MayStart
  <2>. QED BY <2>1, <2>2 DEF TypeOK
<1>3. TablesOK' BY <1>1 DEF TypeOK, TablesOK
<1>4. HistoryOK' BY <1>1, <1>2 DEF TypeOK, HistoryOK
<1>5. ASSUME NEW u \in Users, OpenFind(r, u) PROVE RequestsOK'
  <2>. DEFINE state == [Idle EXCEPT !.pc = "look", !.user = u]
  <2>1. state \in Request /\ state.pc = "look" /\ state.user = u
    BY IdleType DEF Idle, Request, Pc
  <2>2. Go(r, state) BY <1>5 DEF OpenFind
  <2>. HIDE DEF state
  <2>. QED BY <1>1, <2>1, <2>2, GoType
<1>6. ASSUME NEW n \in DOMAIN sessions, NEW body \in Closings, CloseRead(r, n, body)
      PROVE  RequestsOK'
  <2>. DEFINE state == [Idle EXCEPT !.pc = "close", !.on = n, !.body = body,
                          !.opening = sessions[n].opening, !.confirmed = sessions[n].confirmed]
  <2>1. sessions[n] \in Session /\ n \in Nat BY DEF TypeOK
  <2>2. sessions[n].opening \in Amount /\ sessions[n].confirmed \in Flag /\ body \in Closing
    BY <2>1, SessionFields, ShiftAssumption
  <2>3. state \in Request /\ state.pc = "close" /\ state.on = n
    BY <2>1, <2>2, IdleType DEF Idle, Request, Pc
  <2>4. Go(r, state) BY <1>6 DEF CloseRead
  <2>. HIDE DEF state
  <2>. QED BY <1>1, <2>3, <2>4, GoType
<1>7. ASSUME NEW n \in DOMAIN sessions, NEW u \in Users, UploadFind(r, n, u) PROVE RequestsOK'
  <2>. DEFINE state == [Idle EXCEPT !.pc = "upload", !.on = n, !.user = u]
  <2>1. n \in Nat BY DEF TypeOK
  <2>2. state \in Request /\ state.pc = "upload" /\ state.on = n /\ state.user = u
    BY <2>1, IdleType DEF Idle, Request, Pc
  <2>3. Go(r, state) BY <1>7 DEF UploadFind
  <2>. HIDE DEF state
  <2>. QED BY <1>1, <2>2, <2>3, GoType
<1>8. ASSUME NEW n \in DOMAIN sessions, NEW p \in DOMAIN proofs, NEW u \in Users,
             VerifyFind(r, n, p, u)
      PROVE  RequestsOK'
  <2>. DEFINE state == [Idle EXCEPT !.pc = "verify", !.on = p, !.user = u]
  <2>1. p \in Nat BY DEF TypeOK
  <2>2. state \in Request /\ state.pc = "verify" /\ state.on = p /\ state.user = u
    BY <2>1, IdleType DEF Idle, Request, Pc
  <2>3. Go(r, state) BY <1>8 DEF VerifyFind
  <2>. HIDE DEF state
  <2>. QED BY <1>1, <2>2, <2>3, GoType
<1>9. RequestsOK' BY <1>5, <1>6, <1>7, <1>8 DEF Start
<1>. QED BY <1>3, <1>4, <1>9, TypePartsNext

-----------------------------------------------------------------------------
\* The steps of a request under way.
LEMMA OpenLookType ==
  ASSUME TypeOK, NEW r \in Requests, OpenLook(r), UNCHANGED calls,
         Todays(req[r].user) # {} => Latest(Todays(req[r].user)) \in Todays(req[r].user)
  PROVE  TypeOK'
<1>. DEFINE u == req[r].user
            state == [req[r] EXCEPT !.pc = "create"]
<1>1. req[r] \in Request /\ u \in Users BY DEF OpenLook, TypeOK, Sound
<1>2. state \in Request /\ state.pc = "create" /\ state.user = u BY <1>1 DEF Request, Pc
<1>3. UNCHANGED <<users, sessions, proofs, day>> BY DEF OpenLook
<1>4. Go(r, Idle) \/ Go(r, state) BY DEF OpenLook
<1>5. RequestsOK'
  <2>1. CASE Go(r, Idle) BY <1>3, <2>1, EndType
  <2>2. CASE Go(r, state)
    <3>. HIDE DEF state
    <3>. QED BY <1>1, <1>2, <1>3, <2>2, GoType
  <2>. QED BY <1>4, <2>1, <2>2
<1>6. TablesOK' BY <1>3 DEF TypeOK, TablesOK
<1>7. HistoryOK'
  <2>1. \/ answer' = answer
        \/ Todays(u) # {} /\ answer' = [answer EXCEPT ![u] = Latest(Todays(u))]
    BY DEF OpenLook
  <2>2. Todays(u) # {} => Latest(Todays(u)) \in DOMAIN sessions BY DEF Todays, Mine
  <2>3. DOMAIN sessions \subseteq Nat BY DEF TypeOK
  <2>4. /\ answer' \in [Users -> Nat]
        /\ \A v \in Users : answer'[v] = 0 \/ answer'[v] \in DOMAIN sessions
    BY <1>1, <2>1, <2>2, <2>3 DEF TypeOK
  <2>5. missed' \in SUBSET Requests BY DEF OpenLook, TypeOK
  <2>. QED BY <1>3, <2>4, <2>5 DEF HistoryOK, TypeOK
<1>. QED BY <1>5, <1>6, <1>7, TypePartsNext

\* The row openShift creates.
Opened(r) ==
  [user |-> req[r].user, day |-> day, type |-> "OPENING", opening |-> Null,
   closing |-> Null, discrepancy |-> Null, confirmed |-> Null,
   skipped |-> FALSE, raced |-> r \in missed, zero |-> FALSE,
   whole |-> TRUE, counted |-> Null, said |-> Null, mixed |-> FALSE]

\* One row more: where it is, and that the others stay.
LEMMA Appended ==
  ASSUME NEW S, NEW s \in Seq(S), NEW x \in S
  PROVE  /\ Append(s, x) \in Seq(S) /\ Len(Append(s, x)) = Len(s) + 1
         /\ DOMAIN s \subseteq DOMAIN Append(s, x)
         /\ DOMAIN Append(s, x) = DOMAIN s \cup {Len(s) + 1}
         /\ Len(s) + 1 \notin DOMAIN s /\ Len(s) + 1 \in Nat
         /\ \A n \in DOMAIN s : Append(s, x)[n] = s[n] /\ n \in Nat /\ n < Len(s) + 1
         /\ Append(s, x)[Len(s) + 1] = x
  OBVIOUS

LEMMA OpenCreateType ==
  ASSUME TypeOK, NEW r \in Requests, OpenCreate(r), UNCHANGED calls PROVE TypeOK'
<1>. DEFINE u == req[r].user
<1>1. u \in Users BY DEF OpenCreate, TypeOK, Sound
<1>2. UNCHANGED <<users, proofs, day>> /\ Go(r, Idle) BY DEF OpenCreate
<1>3. CASE u \in users
  <2>1. sessions' = Append(sessions, Opened(r)) BY <1>3 DEF OpenCreate, Opened
  <2>2. Opened(r) \in Session /\ Opened(r).user = u
    BY <1>1 DEF Opened, Session, Amount, Flag, TypeOK
  <2>3. sessions \in Seq(Session) BY DEF TypeOK
  <2>4. /\ sessions' \in Seq(Session) /\ DOMAIN sessions \subseteq DOMAIN sessions'
        /\ DOMAIN sessions' = DOMAIN sessions \cup {Len(sessions')} /\ Len(sessions') \in Nat
        /\ \A n \in DOMAIN sessions : sessions'[n] = sessions[n]
        /\ sessions'[Len(sessions')] = Opened(r)
    BY <2>1, <2>2, <2>3, Appended
  <2>5. TablesOK' BY <1>2, <1>3, <2>2, <2>4 DEF TablesOK, TypeOK
  <2>6. RequestsOK' BY <1>2, <2>4, EndType
  <2>7. answer' = [answer EXCEPT ![u] = Len(sessions')] /\ missed' \in SUBSET Requests
    BY <1>3 DEF OpenCreate, TypeOK
  <2>8. HistoryOK' BY <1>1, <1>2, <2>4, <2>7 DEF HistoryOK, TypeOK
  <2>. QED BY <2>5, <2>6, <2>8, TypePartsNext
<1>4. CASE u \notin users
  <2>1. UNCHANGED <<sessions, answer, missed>> BY <1>4 DEF OpenCreate
  <2>2. RequestsOK' BY <1>2, <2>1, EndType
  <2>. QED BY <1>2, <2>1, <2>2 DEF TypeOK, RequestsOK
<1>. QED BY <1>3, <1>4

\* What a close makes of its session.
LEMMA CloseEffect ==
  ASSUME TypeOK, NEW r \in Requests, CloseWrite(r)
  PROVE  LET n == req[r].on
             s == sessions[n]
             t == sessions'[n]
             b == req[r].body
             o == req[r].opening
             c == req[r].confirmed
         IN /\ n \in DOMAIN sessions /\ s \in Session /\ t \in Session /\ b \in Closing
            /\ sessions' \in Seq(Session) /\ DOMAIN sessions' = DOMAIN sessions
            /\ \A m \in DOMAIN sessions : m # n => sessions'[m] = sessions[m]
            /\ t.user = s.user /\ t.day = s.day /\ t.raced = s.raced
            /\ t.type = "CLOSING" /\ t.discrepancy = Stored(Discrepancy(b))
            /\ t.opening = (IF Truthy(b.opening) THEN Stored(b.opening) ELSE o)
            /\ t.closing = (IF Truthy(b.closing) THEN Stored(b.closing) ELSE s.closing)
            /\ t.confirmed = (IF b.confirmed # Null THEN b.confirmed ELSE c)
            /\ t.zero = (0 \in {b.opening, b.closing})
            /\ t.whole = (WholeCents(b.opening) /\ WholeCents(b.closing))
            /\ t.counted = (IF Truthy(b.opening) THEN Stored(b.opening) ELSE s.counted)
            /\ t.said = (IF b.confirmed # Null THEN b.confirmed ELSE s.said)
            /\ t.mixed = (s.mixed \/ r \in missed)
<1>. DEFINE n == req[r].on
            s == sessions[n]
            b == req[r].body
            o == req[r].opening
            c == req[r].confirmed
            d == Closed(s, b, o, c)
            t == Noted(d, b, r \in missed)
<1>1. /\ n \in DOMAIN sessions /\ s \in Session /\ sessions \in Seq(Session)
      /\ b \in Closing /\ o \in Amount /\ c \in Flag
  <2>1. req[r] \in Request /\ n \in DOMAIN sessions BY DEF CloseWrite, TypeOK, Sound
  <2>. QED BY <2>1, RequestFields DEF TypeOK
<1>2. sessions' = [sessions EXCEPT ![n] = t] BY DEF CloseWrite
<1>3. Stored(Discrepancy(b)) \in Amount BY <1>1, DiscrepancyType, StoredType
<1>4. /\ (IF Truthy(b.opening) THEN Stored(b.opening) ELSE o) \in Amount
      /\ (IF Truthy(b.closing) THEN Stored(b.closing) ELSE s.closing) \in Amount
      /\ (IF b.confirmed # Null THEN b.confirmed ELSE c) \in Flag
      /\ (IF Truthy(b.opening) THEN Stored(b.opening) ELSE s.counted) \in Amount
      /\ (IF b.confirmed # Null THEN b.confirmed ELSE s.said) \in Flag
      /\ b.skipped \in BOOLEAN /\ (s.mixed \/ r \in missed) \in BOOLEAN
      /\ (0 \in {b.opening, b.closing}) \in BOOLEAN
      /\ (WholeCents(b.opening) /\ WholeCents(b.closing)) \in BOOLEAN
  <2>. HIDE DEF s, b, o, c
  <2>1. Stored(b.opening) \in Amount /\ Stored(b.closing) \in Amount
    BY <1>1, BodyFields, StoredType
  <2>. QED BY <1>1, <2>1, SessionFields, BodyFields
<1>5. /\ d.user = s.user /\ d.day = s.day /\ d.raced = s.raced /\ d.type = "CLOSING"
      /\ d.discrepancy = Stored(Discrepancy(b)) /\ d.skipped = b.skipped
      /\ d.opening = (IF Truthy(b.opening) THEN Stored(b.opening) ELSE o)
      /\ d.closing = (IF Truthy(b.closing) THEN Stored(b.closing) ELSE s.closing)
      /\ d.confirmed = (IF b.confirmed # Null THEN b.confirmed ELSE c)
      /\ d.counted = s.counted /\ d.said = s.said /\ d.mixed = s.mixed
  <2>. HIDE DEF Truthy, Stored, Discrepancy, s, b, o, c
  <2>. QED BY <1>1 DEF Session, Closed
<1>6. d \in Session
  <2>. HIDE DEF Truthy, Stored, Discrepancy, s, b, o, c
  <2>. QED BY <1>1, <1>3, <1>4, <1>5, SessionFields DEF Session, Closed
<1>. HIDE DEF d, s, b, o, c
<1>7. t = Noted(d, b, r \in missed) OBVIOUS
<1>. HIDE DEF t
<1>8. /\ t.user = d.user /\ t.day = d.day /\ t.raced = d.raced /\ t.type = d.type
      /\ t.discrepancy = d.discrepancy /\ t.skipped = d.skipped /\ t.opening = d.opening
      /\ t.closing = d.closing /\ t.confirmed = d.confirmed
      /\ t.counted = (IF Truthy(b.opening) THEN Stored(b.opening) ELSE d.counted)
      /\ t.said = (IF b.confirmed # Null THEN b.confirmed ELSE d.said)
  <2>. HIDE DEF Truthy, Stored, WholeCents
  <2>. QED BY <1>6, <1>7 DEF Session, Noted
<1>9. /\ t.zero = (0 \in {b.opening, b.closing}) /\ t.mixed = (d.mixed \/ r \in missed)
      /\ t.whole = (WholeCents(b.opening) /\ WholeCents(b.closing))
  BY <1>6, <1>7 DEF Session, Noted
<1>10. t \in Session
  <2>1. t.counted \in Amount /\ t.said \in Flag BY <1>4, <1>5, <1>8
  <2>2. t.zero \in BOOLEAN /\ t.whole \in BOOLEAN /\ t.mixed \in BOOLEAN BY <1>9
  <2>3. t = [d EXCEPT !.zero = t.zero, !.whole = t.whole, !.counted = t.counted,
                      !.said = t.said, !.mixed = t.mixed]
    BY <1>6, <1>7 DEF Session, Noted
  <2>. QED BY <1>6, <2>1, <2>2, <2>3 DEF Session
<1>11. /\ sessions' \in Seq(Session) /\ DOMAIN sessions' = DOMAIN sessions
       /\ sessions'[n] = t
       /\ \A m \in DOMAIN sessions : m # n => sessions'[m] = sessions[m]
  BY <1>1, <1>2, <1>10
<1>. QED BY <1>1, <1>5, <1>8, <1>9, <1>10, <1>11 DEF s, b, o, c

LEMMA CloseWriteType ==
  ASSUME TypeOK, NEW r \in Requests, CloseWrite(r), UNCHANGED calls PROVE TypeOK'
<1>1. /\ sessions' \in Seq(Session) /\ DOMAIN sessions' = DOMAIN sessions
      /\ \A m \in DOMAIN sessions : sessions'[m].user = sessions[m].user
  BY CloseEffect
<1>2. UNCHANGED <<users, proofs, day, answer>> /\ Go(r, Idle) BY DEF CloseWrite
<1>3. TablesOK' BY <1>1, <1>2 DEF TablesOK, TypeOK
<1>4. RequestsOK' BY <1>1, <1>2, EndType
<1>5. missed' \in SUBSET Requests BY DEF CloseWrite, TypeOK
<1>6. HistoryOK' BY <1>1, <1>2, <1>5 DEF HistoryOK, TypeOK
<1>. QED BY <1>3, <1>4, <1>6, TypePartsNext

\* The rows of cash_proofs that a request adds or verifies.
LEMMA ProofStepType ==
  ASSUME TypeOK, NEW r \in Requests, UploadProof(r) \/ VerifyProof(r), UNCHANGED calls
  PROVE  TypeOK'
<1>. DEFINE q == req[r]
            new == [session |-> q.on, uploadedBy |-> q.user, verifiedBy |-> Null,
                    verified |-> FALSE]
            p == [proofs[q.on] EXCEPT !.verifiedBy = q.user, !.verified = TRUE]
<1>1. UNCHANGED <<users, sessions, day, missed, answer>> /\ Go(r, Idle)
  BY DEF UploadProof, VerifyProof
<1>2. proofs \in Seq(Proof) /\ DOMAIN sessions \subseteq Nat BY DEF TypeOK
<1>3. CASE proofs' = proofs
  <2>1. RequestsOK' BY <1>1, <1>3, EndType
  <2>. QED BY <1>1, <1>3, <2>1 DEF TypeOK, RequestsOK
<1>4. CASE UploadProof(r) /\ q.user \in users
  <2>1. q.on \in DOMAIN sessions /\ q.user \in Users
    BY <1>4 DEF UploadProof, TypeOK, Sound
  <2>2. new \in Proof BY <1>2, <2>1 DEF Proof
  <2>3. proofs' = Append(proofs, new) BY <1>4 DEF UploadProof
  <2>4. new.session = q.on /\ new.uploadedBy = q.user /\ new.verifiedBy = Null OBVIOUS
  <2>. HIDE DEF new
  <2>5. /\ proofs' \in Seq(Proof) /\ DOMAIN proofs \subseteq DOMAIN proofs'
        /\ \A m \in DOMAIN proofs' : proofs'[m] = new \/ (m \in DOMAIN proofs /\ proofs'[m] = proofs[m])
    BY <1>2, <2>2, <2>3, Appended
  <2>6. TablesOK' BY <1>1, <1>4, <2>1, <2>4, <2>5 DEF TablesOK, TypeOK
  <2>7. RequestsOK' BY <1>1, <2>5, EndType
  <2>. QED BY <1>1, <2>6, <2>7, TypePartsNext DEF TypeOK, HistoryOK
<1>5. CASE VerifyProof(r) /\ q.user \in users
  <2>1. q.on \in DOMAIN proofs /\ q.user \in Users
    BY <1>5 DEF VerifyProof, TypeOK, Sound
  <2>2. proofs[q.on] \in Proof BY <1>2, <2>1
  <2>3. p \in Proof /\ p.session = proofs[q.on].session
        /\ p.uploadedBy = proofs[q.on].uploadedBy /\ p.verifiedBy = q.user
    BY <2>1, <2>2 DEF Proof
  <2>4. proofs' = [proofs EXCEPT ![q.on] = p]
    BY <1>2, <1>5, <2>1 DEF VerifyProof
  <2>. HIDE DEF p
  <2>5. /\ proofs' \in Seq(Proof) /\ DOMAIN proofs' = DOMAIN proofs
        /\ \A m \in DOMAIN proofs : m # q.on => proofs'[m] = proofs[m]
        /\ proofs'[q.on] = p
    BY <1>2, <2>1, <2>3, <2>4
  <2>6. TablesOK' BY <1>1, <1>5, <2>1, <2>3, <2>5 DEF TablesOK, TypeOK
  <2>7. RequestsOK' BY <1>1, <2>5, EndType
  <2>. QED BY <1>1, <2>6, <2>7, TypePartsNext DEF TypeOK, HistoryOK
<1>6. \/ proofs' = proofs
      \/ UploadProof(r) /\ q.user \in users
      \/ VerifyProof(r) /\ q.user \in users
  BY DEF UploadProof, VerifyProof
<1>. QED BY <1>3, <1>4, <1>5, <1>6

\* The user of a row, or nobody once u is deleted.
Left(x, u) == IF x = u THEN Null ELSE x

LEMMA DeleteUserType ==
  ASSUME TypeOK, NEW u \in Users, DeleteUser(u) PROVE TypeOK'
<1>1. /\ users' = users \ {u} /\ calls' \in Nat /\ UNCHANGED <<day, req, missed, answer>>
      /\ sessions' = [n \in DOMAIN sessions |->
                        [sessions[n] EXCEPT !.user = Left(sessions[n].user, u)]]
      /\ proofs' = [n \in DOMAIN proofs |->
                      [proofs[n] EXCEPT !.uploadedBy = Left(proofs[n].uploadedBy, u),
                                        !.verifiedBy = Left(proofs[n].verifiedBy, u)]]
  <2>1. calls' \in Nat
    <3>1. calls' = calls + 1 BY DEF DeleteUser
    <3>. QED BY <3>1 DEF TypeOK
  <2>2. users' = users \ {u} /\ UNCHANGED <<day, req, missed, answer>> BY DEF DeleteUser
  <2>3. sessions' = [n \in DOMAIN sessions |->
                       [sessions[n] EXCEPT !.user = Left(sessions[n].user, u)]]
    BY DEF DeleteUser, Left
  <2>4. proofs' = [n \in DOMAIN proofs |->
                     [proofs[n] EXCEPT !.uploadedBy = Left(proofs[n].uploadedBy, u),
                                       !.verifiedBy = Left(proofs[n].verifiedBy, u)]]
    BY DEF DeleteUser, Left
  <2>. QED BY <2>1, <2>2, <2>3, <2>4
<1>2. ASSUME NEW n \in DOMAIN sessions
      PROVE  sessions'[n] \in Session /\ sessions'[n].user = Left(sessions[n].user, u)
  <2>1. sessions[n] \in Session BY DEF TypeOK
  <2>2. Left(sessions[n].user, u) \in Users \cup {Null} BY <2>1, SessionFields DEF Left
  <2>3. sessions'[n] = [sessions[n] EXCEPT !.user = Left(sessions[n].user, u)] BY <1>1
  <2>. HIDE DEF Left
  <2>. QED BY <2>1, <2>2, <2>3 DEF Session
<1>3. ASSUME NEW n \in DOMAIN proofs
      PROVE  /\ proofs'[n] \in Proof /\ proofs'[n].session = proofs[n].session
             /\ proofs'[n].uploadedBy = Left(proofs[n].uploadedBy, u)
             /\ proofs'[n].verifiedBy = Left(proofs[n].verifiedBy, u)
  <2>1. proofs[n] \in Proof BY DEF TypeOK
  <2>2. /\ Left(proofs[n].uploadedBy, u) \in Users \cup {Null}
        /\ Left(proofs[n].verifiedBy, u) \in Users \cup {Null}
    BY <2>1, ProofFields DEF Left
  <2>3. proofs'[n] = [proofs[n] EXCEPT !.uploadedBy = Left(proofs[n].uploadedBy, u),
                                       !.verifiedBy = Left(proofs[n].verifiedBy, u)] BY <1>1
  <2>. HIDE DEF Left
  <2>. QED BY <2>1, <2>2, <2>3 DEF Proof
<1>4. DOMAIN sessions' = DOMAIN sessions /\ DOMAIN proofs' = DOMAIN proofs BY <1>1
<1>5. sessions' \in Seq(Session)
  <2>1. PICK k \in Nat : DOMAIN sessions = 1..k BY DEF TypeOK
  <2>2. sessions' \in [1..k -> Session] BY <1>1, <1>2, <2>1
  <2>. QED BY <2>2
<1>6. proofs' \in Seq(Proof)
  <2>1. PICK k \in Nat : DOMAIN proofs = 1..k BY DEF TypeOK
  <2>2. proofs' \in [1..k -> Proof] BY <1>1, <1>3, <2>1
  <2>. QED BY <2>2
<1>7. TablesOK'
  <2>1. users' \in SUBSET Users BY <1>1 DEF TypeOK
  <2>2. \A x \in users \cup {Null} : Left(x, u) \in users' \cup {Null}
    BY <1>1, ShiftAssumption DEF Left
  <2>3. \A n \in DOMAIN sessions : sessions'[n].user \in users' \cup {Null}
    BY <1>2, <2>2 DEF TypeOK
  <2>4. \A n \in DOMAIN proofs : /\ proofs'[n].session \in DOMAIN sessions
                                 /\ proofs'[n].uploadedBy \in users' \cup {Null}
                                 /\ proofs'[n].verifiedBy \in users' \cup {Null}
    BY <1>3, <2>2 DEF TypeOK
  <2>. QED BY <1>4, <1>5, <1>6, <2>1, <2>3, <2>4 DEF TablesOK
<1>8. RequestsOK' BY <1>1, <1>4 DEF RequestsOK, TypeOK, Sound
<1>9. HistoryOK' BY <1>1, <1>4 DEF HistoryOK, TypeOK
<1>. QED BY <1>7, <1>8, <1>9, TypePartsNext

LEMMA InterruptType ==
  ASSUME TypeOK, NEW r \in Requests, Interrupt(r), UNCHANGED calls PROVE TypeOK'
<1>1. UNCHANGED <<users, sessions, proofs, day, missed, answer>> /\ Go(r, Idle)
  BY DEF Interrupt
<1>2. RequestsOK' BY <1>1, EndType
<1>. QED BY <1>1, <1>2 DEF TypeOK, RequestsOK

\* Of some numbers one is the smallest.
LEMMA SmallestNumber ==
  ASSUME NEW T \in SUBSET Nat, T # {}
  PROVE  \E x \in T : \A y \in T : ~(y < x)
<1>1. \E x \in T : \A y \in T : ~(<<y, x>> \in OpToRel(<, Nat))
  BY WFMin, NatLessThanWellFounded, Zenon
<1>. QED BY <1>1 DEF OpToRel

\* The last of some numbers up to N is one of them, and none comes after it.
LEMMA LatestIsLast ==
  ASSUME NEW N \in Nat, NEW S \in SUBSET (1..N), S # {}
  PROVE  Latest(S) \in S /\ \A m \in S : m <= Latest(S)
<1>. DEFINE T == {N - n : n \in S}
<1>1. T \subseteq Nat /\ T # {}
  <2>1. \A n \in S : N - n \in Nat OBVIOUS
  <2>2. PICK n \in S : TRUE OBVIOUS
  <2>3. N - n \in T OBVIOUS
  <2>. QED BY <2>1, <2>3
<1>2. PICK x \in T : \A y \in T : ~(y < x)
  <2>. HIDE DEF T
  <2>. QED BY <1>1, SmallestNumber
<1>4. PICK n \in S : x = N - n OBVIOUS
<1>5. \A m \in S : N - m \in T OBVIOUS
<1>6. \A m \in S : m <= n
  <2>1. \A m \in S : ~(N - m < x) BY <1>2, <1>5
  <2>. QED BY <1>4, <2>1
<1>. QED BY <1>6 DEF Latest

LEMMA LatestToday ==
  ASSUME TypeOK, NEW u, Todays(u) # {}
  PROVE  Latest(Todays(u)) \in Todays(u) /\ \A m \in Todays(u) : m <= Latest(Todays(u))
<1>1. PICK k \in Nat : DOMAIN sessions = 1..k BY DEF TypeOK
<1>2. Todays(u) \in SUBSET (1..k) BY <1>1 DEF Todays, Mine
<1>. QED BY <1>2, LatestIsLast

LEMMA NextType == TypeOK /\ [Next]_vars => TypeOK'
<1>1. ASSUME TypeOK, NEW r \in Requests, Step(r), UNCHANGED calls PROVE TypeOK'
  BY <1>1, OpenLookType, LatestToday, OpenCreateType, CloseWriteType, ProofStepType,
     InterruptType DEF Step
<1>2. ASSUME TypeOK, NextDay PROVE TypeOK'
  <2>1. day' \in Nat BY <1>2 DEF NextDay, TypeOK
  <2>. QED BY <1>2, <2>1 DEF NextDay, TypeOK, Sound
<1>3. ASSUME TypeOK, UNCHANGED vars PROVE TypeOK'
  BY <1>3 DEF TypeOK, vars, Sound
<1>. QED BY <1>1, <1>2, <1>3, StartType, DeleteUserType DEF Next

\* The rows refer to rows that are there, whoever is deleted when, and the requests
\* to rows of their kind (shift.service.ts, onDelete of the foreign keys).
THEOREM TypeCorrect == Spec => []TypeOK
  BY InitType, NextType, PTL DEF Spec

-----------------------------------------------------------------------------
(***************************************************************************)
(* Safety.  That a user has one open shift a day is not inductive: a look  *)
(* that finds the last session of the day closed decides about all of      *)
(* them, so that all but the last must be closed (OnlyLastOpen), and what  *)
(* a request found must still hold when it creates (LookStands).           *)
(***************************************************************************)

RacedOn(u, d) == \E k \in Mine(u) : sessions[k].day = d /\ sessions[k].raced

DaysPast == \A n \in DOMAIN sessions : sessions[n].day <= day

OnlyLastOpen ==
  \A u \in Users : \A m, n \in Mine(u) :
    m < n /\ sessions[m].day = sessions[n].day /\ sessions[m].type = "OPENING"
      => RacedOn(u, sessions[n].day)

LookStands ==
  \A r \in Requests : req[r].pc = "create" /\ r \notin missed =>
    \/ \A n \in Todays(req[r].user) : sessions[n].type = "CLOSING"
    \/ RacedOn(req[r].user, day)

\* closeShift writes back what it read, and it is still there.
ReadStands ==
  \A r \in Requests : req[r].pc = "close" /\ r \notin missed =>
    /\ req[r].opening = sessions[req[r].on].opening
    /\ req[r].confirmed = sessions[req[r].on].confirmed

IInv == /\ TypeOK /\ DaysPast /\ OnlyLastOpen /\ LookStands /\ ReadStands
        /\ DiscrepancyHolds /\ CountsStand

LEMMA InitInv == Init => IInv
<1>. SUFFICES ASSUME Init PROVE IInv OBVIOUS
<1>1. \A r \in Requests : req[r].pc = "idle" BY DEF Init, Idle
<1>2. LookStands /\ ReadStands BY <1>1 DEF LookStands, ReadStands
<1>3. DOMAIN sessions = {} BY DEF Init
<1>. QED
  BY <1>2, <1>3, InitType
  DEF IInv, DaysPast, OnlyLastOpen, DiscrepancyHolds, CountsStand, Mine

\* A step that leaves the sessions alone keeps what is said of them and of the other
\* requests.
LEMMA QuietInv ==
  ASSUME IInv, TypeOK', NEW r \in Requests, NEW state, Go(r, state),
         UNCHANGED <<sessions, day>>, \A q \in Requests \ {r} : q \in missed => q \in missed',
         state.pc = "create" /\ r \notin missed' =>
           \/ \A n \in Todays(state.user) : sessions[n].type = "CLOSING"
           \/ RacedOn(state.user, day),
         state.pc = "close" /\ r \notin missed' =>
           /\ state.opening = sessions[state.on].opening
           /\ state.confirmed = sessions[state.on].confirmed
  PROVE  IInv'
<1>1. /\ req'[r] = state
      /\ \A q \in Requests \ {r} : req'[q] = req[q]
  BY DEF IInv, TypeOK, Go
<1>2. DaysPast' /\ OnlyLastOpen' /\ DiscrepancyHolds' /\ CountsStand'
  BY DEF IInv, DaysPast, OnlyLastOpen, DiscrepancyHolds, CountsStand, Mine, RacedOn
<1>3. LookStands'
  BY <1>1 DEF IInv, LookStands, Todays, Mine, RacedOn
<1>4. ReadStands'
  BY <1>1 DEF IInv, ReadStands
<1>. QED BY <1>2, <1>3, <1>4 DEF IInv

LEMMA StartInv ==
  ASSUME IInv, NEW r \in Requests, Start(r) PROVE IInv'
<1>1. TypeOK' BY StartType DEF IInv
<1>2. ASSUME NEW u \in Users, OpenFind(r, u) PROVE IInv'
  <2>. DEFINE state == [Idle EXCEPT !.pc = "look", !.user = u]
  <2>1. Go(r, state) /\ state.pc = "look" BY <1>2 DEF OpenFind, Idle
  <2>. HIDE DEF state
  <2>. QED BY <1>1, <1>2, <2>1, QuietInv DEF OpenFind
<1>3. ASSUME NEW n \in DOMAIN sessions, NEW body \in Closings, CloseRead(r, n, body)
      PROVE  IInv'
  <2>. DEFINE state == [Idle EXCEPT !.pc = "close", !.on = n, !.body = body,
                          !.opening = sessions[n].opening, !.confirmed = sessions[n].confirmed]
  <2>1. /\ state.pc = "close" /\ state.on = n /\ state.opening = sessions[n].opening
        /\ state.confirmed = sessions[n].confirmed
    BY DEF Idle
  <2>2. Go(r, state) BY <1>3 DEF CloseRead
  <2>. HIDE DEF state
  <2>. QED BY <1>1, <1>3, <2>1, <2>2, QuietInv DEF CloseRead
<1>4. ASSUME NEW n \in DOMAIN sessions, NEW u \in Users, UploadFind(r, n, u) PROVE IInv'
  <2>. DEFINE state == [Idle EXCEPT !.pc = "upload", !.on = n, !.user = u]
  <2>1. Go(r, state) /\ state.pc = "upload" BY <1>4 DEF UploadFind, Idle
  <2>. HIDE DEF state
  <2>. QED BY <1>1, <1>4, <2>1, QuietInv DEF UploadFind
<1>5. ASSUME NEW n \in DOMAIN sessions, NEW p \in DOMAIN proofs, NEW u \in Users,
             VerifyFind(r, n, p, u)
      PROVE  IInv'
  <2>. DEFINE state == [Idle EXCEPT !.pc = "verify", !.on = p, !.user = u]
  <2>1. Go(r, state) /\ state.pc = "verify" BY <1>5 DEF VerifyFind, Idle
  <2>. HIDE DEF state
  <2>. QED BY <1>1, <1>5, <2>1, QuietInv DEF VerifyFind
<1>. QED BY <1>2, <1>3, <1>4, <1>5 DEF Start

\* A request that ends without a write to the sessions.
LEMMA EndInv ==
  ASSUME IInv, TypeOK', NEW r \in Requests, UNCHANGED <<sessions, day, missed>>, Go(r, Idle)
  PROVE  IInv'
<1>1. Idle.pc = "idle" BY DEF Idle
<1>. QED BY <1>1, QuietInv

LEMMA OpenLookInv ==
  ASSUME IInv, TypeOK', NEW r \in Requests, OpenLook(r) PROVE IInv'
<1>. DEFINE u == req[r].user
            state == [req[r] EXCEPT !.pc = "create"]
<1>1. /\ UNCHANGED <<sessions, day>> /\ missed' = missed \ {r}
      /\ TypeOK /\ u \in Users /\ req[r] \in Request
  BY DEF OpenLook, IInv, TypeOK, Sound
<1>2. CASE Go(r, Idle)
  <2>1. Idle.pc = "idle" BY DEF Idle
  <2>. QED BY <1>1, <1>2, <2>1, QuietInv
<1>3. CASE /\ Go(r, state)
           /\ ~(Todays(u) # {} /\ sessions[Latest(Todays(u))].type = "OPENING")
  <2>1. state.pc = "create" /\ state.user = u BY <1>1 DEF Request
  <2>2. ASSUME NEW n \in Todays(u), sessions[n].type # "CLOSING" PROVE RacedOn(u, day)
    <3>. DEFINE last == Latest(Todays(u))
    <3>1. last \in Todays(u) /\ n <= last BY <1>1, LatestToday
    <3>2. Todays(u) = {k \in Mine(u) : sessions[k].day = day} /\ Todays(u) \subseteq Mine(u)
      <4>1. \A k \in DOMAIN sessions : sessions[k].day <= day /\ sessions[k].day \in Nat
        BY <1>1, SessionFields DEF IInv, DaysPast, TypeOK
      <4>2. day \in Nat BY <1>1 DEF TypeOK
      <4>. QED BY <4>1, <4>2 DEF Todays, Mine
    <3>3. sessions[n] \in Session /\ n \in Nat /\ last \in Nat
      BY <1>1, <3>1, <3>2 DEF TypeOK, Mine
    <3>4. sessions[n].type = "OPENING" BY <2>2, <3>3, SessionFields
    <3>5. n # last BY <1>3, <3>4
    <3>6. n < last /\ n \in Mine(u) /\ last \in Mine(u)
          /\ sessions[n].day = day /\ sessions[last].day = day
      BY <3>1, <3>2, <3>3, <3>5
    <3>. HIDE DEF last
    <3>. QED BY <1>1, <3>4, <3>6 DEF IInv, OnlyLastOpen
  <2>. HIDE DEF state
  <2>. QED BY <1>1, <1>3, <2>1, <2>2, QuietInv
<1>. QED BY <1>2, <1>3 DEF OpenLook

LEMMA OpenCreateInv ==
  ASSUME IInv, TypeOK', NEW r \in Requests, OpenCreate(r) PROVE IInv'
<1>. DEFINE u == req[r].user
            new == Len(sessions) + 1
<1>1. /\ TypeOK /\ u \in Users /\ UNCHANGED day /\ Go(r, Idle)
      /\ sessions \in Seq(Session) /\ day \in Nat
  BY DEF OpenCreate, IInv, TypeOK, Sound
<1>2. CASE u \notin users
  BY <1>1, <1>2, EndInv DEF OpenCreate
<1>3. CASE u \in users
  <2>1. sessions' = Append(sessions, Opened(r)) BY <1>3 DEF OpenCreate, Opened
  <2>2. /\ Opened(r) \in Session /\ Opened(r).user = u /\ Opened(r).day = day
        /\ Opened(r).raced = (r \in missed) /\ Opened(r).opening = Null
        /\ Opened(r).discrepancy = Null /\ Opened(r).counted = Null
        /\ Opened(r).confirmed = Null /\ Opened(r).said = Null
    BY <1>1 DEF Opened, Session, Amount, Flag
  <2>3. /\ DOMAIN sessions' = DOMAIN sessions \cup {new} /\ new \notin DOMAIN sessions
        /\ \A n \in DOMAIN sessions : sessions'[n] = sessions[n] /\ n \in Nat /\ n < new
        /\ sessions'[new] = Opened(r) /\ new \in Nat
    BY <1>1, <2>1, <2>2, Appended
  <2>. HIDE DEF new
  <2>4. missed' = missed \cup {q \in Requests \ {r} : req[q].pc = "create" /\ req[q].user = u}
    BY <1>3 DEF OpenCreate
  <2>5. /\ req'[r] = Idle
        /\ \A q \in Requests \ {r} : req'[q] = req[q]
    BY <1>1 DEF Go, TypeOK
  <2>6. DaysPast' BY <1>1, <2>2, <2>3 DEF IInv, DaysPast
  <2>7. DiscrepancyHolds'
    <3>1. DiscrepancyHolds BY DEF IInv
    <3>. QED BY <2>2, <2>3, <3>1 DEF DiscrepancyHolds
  <2>8. CountsStand'
    <3>1. CountsStand BY DEF IInv
    <3>. QED BY <2>2, <2>3, <3>1 DEF CountsStand
  <2>9. \A v, d : RacedOn(v, d) => RacedOn(v, d)'
    BY <2>3 DEF RacedOn, Mine
  <2>10. ASSUME NEW v \in Users, NEW m \in Mine(v)', NEW n \in Mine(v)', m < n,
               sessions'[m].day = sessions'[n].day, sessions'[m].type = "OPENING"
         PROVE  RacedOn(v, sessions[n].day)'
    <3>1. m \in DOMAIN sessions BY <2>3, <2>10 DEF Mine
    <3>2. CASE n \in DOMAIN sessions
      <4>1. RacedOn(v, sessions[n].day)
        BY <2>3, <2>10, <3>1, <3>2 DEF IInv, OnlyLastOpen, Mine
      <4>. QED BY <2>3, <2>9, <3>2, <4>1
    <3>3. CASE n = new
      <4>1. v = u /\ sessions'[n].day = day BY <2>2, <2>3, <2>10, <3>3 DEF Mine
      <4>2. CASE r \in missed
        <5>1. sessions'[new].raced = TRUE BY <2>2, <2>3, <4>2
        <5>. QED BY <2>10, <3>3, <5>1 DEF RacedOn
      <4>3. CASE r \notin missed
        <5>1. m \in Todays(u) /\ sessions[m].type = "OPENING"
          BY <1>1, <2>3, <2>10, <3>1, <4>1 DEF Todays, Mine
        <5>2. RacedOn(u, day)
          BY <4>3, <5>1 DEF IInv, LookStands, OpenCreate
        <5>. QED BY <2>9, <4>1, <5>2
      <4>. QED BY <4>2, <4>3
    <3>. QED BY <2>3, <3>2, <3>3 DEF Mine
  <2>11. OnlyLastOpen' BY <2>10 DEF OnlyLastOpen
  <2>12. LookStands'
    <3>1. ASSUME NEW q \in Requests, req'[q].pc = "create", q \notin missed'
          PROVE  \/ \A n \in Todays(req[q].user)' : sessions'[n].type = "CLOSING"
                 \/ RacedOn(req[q].user, day)'
      <4>1. q # r BY <2>5, <3>1 DEF Idle
      <4>2. req'[q] = req[q] /\ q \notin missed /\ req[q].user # u
        BY <2>4, <2>5, <3>1, <4>1
      <4>3. Todays(req[q].user)' = Todays(req[q].user)
            /\ Todays(req[q].user) \subseteq DOMAIN sessions
        BY <1>1, <2>2, <2>3, <4>2 DEF Todays, Mine
      <4>. QED BY <1>1, <2>3, <2>9, <3>1, <4>2, <4>3 DEF IInv, LookStands
    <3>. QED BY <3>1 DEF LookStands
  <2>13. ReadStands'
    <3>1. ASSUME NEW q \in Requests, req'[q].pc = "close", q \notin missed'
          PROVE  /\ req'[q].opening = sessions'[req'[q].on].opening
                 /\ req'[q].confirmed = sessions'[req'[q].on].confirmed
      <4>1. q # r BY <2>5, <3>1 DEF Idle
      <4>2. req'[q] = req[q] /\ q \notin missed BY <2>4, <2>5, <4>1, <3>1
      <4>3. req[q].on \in DOMAIN sessions BY <1>1, <3>1, <4>2 DEF TypeOK, Sound
      <4>. QED BY <2>3, <3>1, <4>2, <4>3 DEF IInv, ReadStands
    <3>. QED BY <3>1 DEF ReadStands
  <2>. QED BY <2>6, <2>7, <2>8, <2>11, <2>12, <2>13 DEF IInv
<1>. QED BY <1>2, <1>3

\* Where a step keeps whose a session is, of which day, raced or not, and reopens
\* none, what is said of the days stands.
LEMMA DaysKeep ==
  ASSUME IInv, NEW S \in SUBSET Users,
         day' = day, DOMAIN sessions' = DOMAIN sessions,
         \A n \in DOMAIN sessions :
           /\ sessions'[n].day = sessions[n].day /\ sessions'[n].raced = sessions[n].raced
           /\ sessions[n].type = "CLOSING" => sessions'[n].type = "CLOSING"
           /\ sessions'[n].type \in {"OPENING", "CLOSING"}
           /\ sessions[n].type \in {"OPENING", "CLOSING"},
         \A v \in S : Mine(v)' = Mine(v), \A v \in Users \ S : Mine(v)' = {}
  PROVE  /\ DaysPast' /\ OnlyLastOpen'
         /\ \A v \in Users :
              \/ \A n \in Todays(v) : sessions[n].type = "CLOSING"
              \/ RacedOn(v, day)
              => \/ \A n \in Todays(v)' : sessions'[n].type = "CLOSING"
                 \/ RacedOn(v, day)'
<1>1. DaysPast' BY DEF IInv, DaysPast
<1>2. ASSUME NEW v \in S, NEW d PROVE RacedOn(v, d) => RacedOn(v, d)'
  BY DEF RacedOn, Mine
<1>3. OnlyLastOpen'
  <2>1. ASSUME NEW v \in Users, NEW m \in Mine(v)', NEW n \in Mine(v)', m < n,
               sessions'[m].day = sessions'[n].day, sessions'[m].type = "OPENING"
        PROVE  RacedOn(v, sessions[n].day)'
    <3>1. v \in S /\ m \in Mine(v) /\ n \in Mine(v) BY <2>1
    <3>2. m \in DOMAIN sessions /\ n \in DOMAIN sessions BY <3>1 DEF Mine
    <3>3. sessions[m].day = sessions[n].day /\ sessions[m].type = "OPENING" BY <2>1, <3>2
    <3>4. RacedOn(v, sessions[n].day) BY <2>1, <3>1, <3>3 DEF IInv, OnlyLastOpen
    <3>. QED BY <3>1, <3>2, <3>4 DEF RacedOn, Mine
  <2>. QED BY <2>1 DEF OnlyLastOpen
<1>4. ASSUME NEW v \in Users,
             (\A n \in Todays(v) : sessions[n].type = "CLOSING") \/ RacedOn(v, day)
      PROVE  (\A n \in Todays(v)' : sessions'[n].type = "CLOSING") \/ RacedOn(v, day)'
  <2>1. CASE v \in S
    <3>1. Todays(v)' = Todays(v) /\ Todays(v) \subseteq DOMAIN sessions
      BY <2>1 DEF Todays, Mine
    <3>2. RacedOn(v, day) => RacedOn(v, day)' BY <2>1 DEF RacedOn, Mine
    <3>. QED BY <1>4, <3>1, <3>2
  <2>2. CASE v \notin S
    BY <2>2 DEF Todays
  <2>. QED BY <2>1, <2>2
<1>. QED BY <1>1, <1>3, <1>4

LEMMA CloseWriteInv ==
  ASSUME IInv, TypeOK', NEW r \in Requests, CloseWrite(r) PROVE IInv'
<1>. DEFINE n == req[r].on
            s == sessions[n]
            t == sessions'[n]
            b == req[r].body
<1>1. /\ TypeOK /\ UNCHANGED day /\ Go(r, Idle)
      /\ missed' = missed \cup {q \in Requests \ {r} : req[q].pc = "close" /\ req[q].on = n}
  BY DEF CloseWrite, IInv
<1>2. /\ req'[r] = Idle
      /\ \A q \in Requests \ {r} : req'[q] = req[q]
  BY <1>1 DEF Go, TypeOK
<1>3. /\ n \in DOMAIN sessions /\ s \in Session /\ b \in Closing
      /\ DOMAIN sessions' = DOMAIN sessions
      /\ \A m \in DOMAIN sessions : m # n => sessions'[m] = sessions[m]
      /\ t.user = s.user /\ t.day = s.day /\ t.raced = s.raced /\ t.type = "CLOSING"
  BY <1>1, CloseEffect
<1>4. \A m \in DOMAIN sessions : sessions[m].type \in {"OPENING", "CLOSING"}
  BY <1>1, SessionFields DEF TypeOK
<1>5. \A v \in Users : Mine(v)' = Mine(v) BY <1>3 DEF Mine
<1>6. /\ DaysPast' /\ OnlyLastOpen'
      /\ \A v \in Users :
           \/ \A m \in Todays(v) : sessions[m].type = "CLOSING"
           \/ RacedOn(v, day)
           => \/ \A m \in Todays(v)' : sessions'[m].type = "CLOSING"
              \/ RacedOn(v, day)'
  <2>1. \A m \in DOMAIN sessions :
          /\ sessions'[m].day = sessions[m].day /\ sessions'[m].raced = sessions[m].raced
          /\ sessions[m].type = "CLOSING" => sessions'[m].type = "CLOSING"
          /\ sessions'[m].type \in {"OPENING", "CLOSING"}
    BY <1>3, <1>4
  <2>. HIDE DEF n
  <2>. QED BY <1>1, <1>3, <1>4, <1>5, <2>1, DaysKeep
<1>7. LookStands'
  <2>1. ASSUME NEW q \in Requests, req'[q].pc = "create", q \notin missed'
        PROVE  \/ \A m \in Todays(req[q].user)' : sessions'[m].type = "CLOSING"
               \/ RacedOn(req[q].user, day)'
    <3>1. q # r BY <1>2, <2>1 DEF Idle
    <3>2. req'[q] = req[q] /\ q \notin missed BY <1>1, <1>2, <2>1, <3>1
    <3>3. req[q].user \in Users BY <1>1, <2>1, <3>2 DEF TypeOK, Sound
    <3>4. \/ \A m \in Todays(req[q].user) : sessions[m].type = "CLOSING"
          \/ RacedOn(req[q].user, day)
      BY <2>1, <3>2 DEF IInv, LookStands
    <3>. DEFINE v == req[q].user
    <3>5. req'[q].user = v BY <3>2
    <3>6. (\A m \in Todays(v)' : sessions'[m].type = "CLOSING") \/ RacedOn(v, day)'
      BY <1>6, <3>3, <3>4, <3>5 DEF Todays, Mine, RacedOn
    <3>. QED BY <3>6
  <2>. QED BY <2>1 DEF LookStands
<1>8. ReadStands'
  <2>1. ASSUME NEW q \in Requests, req'[q].pc = "close", q \notin missed'
        PROVE  /\ req'[q].opening = sessions'[req'[q].on].opening
               /\ req'[q].confirmed = sessions'[req'[q].on].confirmed
    <3>1. q # r BY <1>2, <2>1 DEF Idle
    <3>2. req'[q] = req[q] /\ q \notin missed /\ req[q].on # n BY <1>1, <1>2, <2>1, <3>1
    <3>3. req[q].on \in DOMAIN sessions BY <1>1, <2>1, <3>2 DEF TypeOK, Sound
    <3>4. sessions'[req[q].on] = sessions[req[q].on] BY <1>3, <3>2, <3>3
    <3>. QED BY <2>1, <3>2, <3>4 DEF IInv, ReadStands
  <2>. QED BY <2>1 DEF ReadStands
<1>9. DiscrepancyHolds'
  <2>1. ASSUME t.discrepancy # Null, ~t.zero
        PROVE  /\ t.opening # Null /\ t.closing # Null
               /\ t.discrepancy - (t.closing - t.opening) \in {-1, 0, 1}
               /\ t.whole => t.discrepancy = t.closing - t.opening
    <3>1. t.discrepancy = Stored(Discrepancy(b)) /\ 0 \notin {b.opening, b.closing}
      BY <1>1, <2>1, CloseEffect
    <3>2. b.opening # Null /\ b.closing # Null /\ Discrepancy(b) = b.closing - b.opening
      BY <2>1, <3>1 DEF Discrepancy, Stored
    <3>3. b.opening \in Int /\ b.closing \in Int /\ b.closing - b.opening # Null
      BY <1>3, <3>2, BodyFields, ShiftAssumption DEF Amount
    <3>4. Truthy(b.opening) /\ Truthy(b.closing) BY <3>1, <3>2 DEF Truthy
    <3>5. t.opening = Stored(b.opening) /\ t.closing = Stored(b.closing)
      BY <1>1, <3>4, CloseEffect
    <3>6. /\ t.opening = ToCents(b.opening) /\ t.closing = ToCents(b.closing)
          /\ t.discrepancy = ToCents(b.closing - b.opening)
      BY <3>1, <3>2, <3>3, <3>5 DEF Stored
    <3>7. t.opening # Null /\ t.closing # Null BY <3>3, <3>6, Rounding, ShiftAssumption
    <3>8. t.whole => b.opening % Scale = 0 /\ b.closing % Scale = 0
      BY <1>1, <3>2, CloseEffect DEF WholeCents
    <3>. QED BY <3>3, <3>6, <3>7, <3>8, DifferenceStored
  <2>2. DiscrepancyHolds BY DEF IInv
  <2>. QED BY <1>3, <2>1, <2>2 DEF DiscrepancyHolds
<1>10. CountsStand'
  <2>1. t.mixed \/ (t.opening = t.counted /\ t.confirmed = t.said)
    <3>1. t.mixed = (s.mixed \/ r \in missed) BY <1>1, CloseEffect
    <3>2. CASE s.mixed \/ r \in missed BY <3>1, <3>2
    <3>3. CASE ~s.mixed /\ r \notin missed
      <4>1. req[r].opening = s.opening /\ req[r].confirmed = s.confirmed
        BY <3>3 DEF IInv, ReadStands, CloseWrite
      <4>2. s.opening = s.counted /\ s.confirmed = s.said
        BY <1>3, <3>3 DEF IInv, CountsStand
      <4>3. /\ t.opening = (IF Truthy(b.opening) THEN Stored(b.opening) ELSE req[r].opening)
            /\ t.counted = (IF Truthy(b.opening) THEN Stored(b.opening) ELSE s.counted)
            /\ t.confirmed = (IF b.confirmed # Null THEN b.confirmed ELSE req[r].confirmed)
            /\ t.said = (IF b.confirmed # Null THEN b.confirmed ELSE s.said)
        BY <1>1, CloseEffect
      <4>. QED BY <4>1, <4>2, <4>3
    <3>. QED BY <3>2, <3>3
  <2>2. CountsStand BY DEF IInv
  <2>. QED BY <1>3, <2>1, <2>2 DEF CountsStand
<1>. QED BY <1>6, <1>7, <1>8, <1>9, <1>10 DEF IInv

LEMMA DeleteUserInv ==
  ASSUME IInv, TypeOK', NEW u \in Users, DeleteUser(u) PROVE IInv'
<1>1. /\ UNCHANGED <<day, req, missed>> /\ TypeOK
      /\ sessions' = [n \in DOMAIN sessions |->
                        [sessions[n] EXCEPT !.user = Left(sessions[n].user, u)]]
  BY DEF DeleteUser, Left, IInv
<1>2. ASSUME NEW n \in DOMAIN sessions
      PROVE  LET s == sessions[n]  t == sessions'[n]
             IN /\ s.type \in {"OPENING", "CLOSING"} /\ t.user = Left(s.user, u)
                /\ t.day = s.day /\ t.type = s.type /\ t.raced = s.raced /\ t.zero = s.zero
                /\ t.opening = s.opening /\ t.closing = s.closing
                /\ t.discrepancy = s.discrepancy /\ t.confirmed = s.confirmed
                /\ t.whole = s.whole /\ t.mixed = s.mixed /\ t.counted = s.counted /\ t.said = s.said
  <2>1. sessions[n] \in Session BY <1>1 DEF TypeOK
  <2>2. sessions'[n] = [sessions[n] EXCEPT !.user = Left(sessions[n].user, u)] BY <1>1
  <2>. QED BY <2>1, <2>2 DEF Session
<1>3. DOMAIN sessions' = DOMAIN sessions BY <1>1
<1>4. /\ \A v \in Users \ {u} : Mine(v)' = Mine(v)
      /\ \A v \in Users \ (Users \ {u}) : Mine(v)' = {}
  BY <1>2, <1>3, ShiftAssumption DEF Mine, Left
<1>5. /\ DaysPast' /\ OnlyLastOpen'
      /\ \A v \in Users :
           \/ \A m \in Todays(v) : sessions[m].type = "CLOSING"
           \/ RacedOn(v, day)
           => \/ \A m \in Todays(v)' : sessions'[m].type = "CLOSING"
              \/ RacedOn(v, day)'
  BY <1>1, <1>2, <1>3, <1>4, DaysKeep
<1>6. LookStands'
  <2>1. ASSUME NEW q \in Requests, req'[q].pc = "create", q \notin missed'
        PROVE  \/ \A m \in Todays(req[q].user)' : sessions'[m].type = "CLOSING"
               \/ RacedOn(req[q].user, day)'
    <3>1. req[q].user \in Users /\ req' = req BY <1>1, <2>1 DEF TypeOK, Sound
    <3>2. \/ \A m \in Todays(req[q].user) : sessions[m].type = "CLOSING"
          \/ RacedOn(req[q].user, day)
      BY <1>1, <2>1 DEF IInv, LookStands
    <3>. QED BY <1>5, <3>1, <3>2 DEF Todays, Mine, RacedOn
  <2>. QED BY <2>1 DEF LookStands
<1>7. ReadStands'
  BY <1>1, <1>2 DEF IInv, ReadStands, TypeOK, Sound
<1>8. DiscrepancyHolds'
  <2>1. DiscrepancyHolds BY DEF IInv
  <2>. QED BY <1>2, <1>3, <2>1 DEF DiscrepancyHolds
<1>9. CountsStand'
  <2>1. CountsStand BY DEF IInv
  <2>. QED BY <1>2, <1>3, <2>1 DEF CountsStand
<1>. QED BY <1>5, <1>6, <1>7, <1>8, <1>9 DEF IInv

\* On a new day no session has been opened yet.
LEMMA NextDayInv == ASSUME IInv, TypeOK', NextDay PROVE IInv'
<1>1. /\ UNCHANGED <<sessions, req, missed>> /\ day' = day + 1 /\ TypeOK
  BY DEF NextDay, IInv
<1>2. \A n \in DOMAIN sessions : sessions[n].day <= day /\ sessions[n].day \in Nat
  BY <1>1, SessionFields DEF IInv, DaysPast, TypeOK
<1>3. day \in Nat BY <1>1 DEF TypeOK
<1>4. DaysPast' BY <1>1, <1>2, <1>3 DEF DaysPast
<1>5. \A v : Todays(v)' = {} BY <1>1, <1>2, <1>3 DEF Todays, Mine
<1>6. LookStands' BY <1>5 DEF LookStands
<1>7. OnlyLastOpen' BY <1>1 DEF IInv, OnlyLastOpen, Mine, RacedOn
<1>8. ReadStands' /\ DiscrepancyHolds' /\ CountsStand'
  BY <1>1 DEF IInv, ReadStands, DiscrepancyHolds, CountsStand
<1>. QED BY <1>4, <1>6, <1>7, <1>8 DEF IInv

LEMMA StutterInv == ASSUME IInv, UNCHANGED vars PROVE IInv'
<1>1. UNCHANGED <<sessions, day, req, missed>> BY DEF vars
<1>2. TypeOK' BY NextType DEF IInv
<1>. QED BY <1>1, <1>2
  DEF IInv, DaysPast, OnlyLastOpen, LookStands, ReadStands, DiscrepancyHolds, CountsStand,
      Mine, Todays, RacedOn

LEMMA NextInv == IInv /\ [Next]_vars => IInv'
<1>. SUFFICES ASSUME IInv, [Next]_vars PROVE IInv' OBVIOUS
<1>1. TypeOK' BY NextType DEF IInv
<1>2. ASSUME NEW r \in Requests, Step(r) PROVE IInv'
  <2>1. CASE UploadProof(r) \/ VerifyProof(r) \/ Interrupt(r)
    BY <1>1, <2>1, EndInv DEF UploadProof, VerifyProof, Interrupt
  <2>. QED BY <1>1, <1>2, <2>1, OpenLookInv, OpenCreateInv, CloseWriteInv DEF Step
<1>. QED BY <1>1, <1>2, StartInv, DeleteUserInv, NextDayInv, StutterInv DEF Next

\* All that the invariant says holds in every reachable state.
THEOREM Safety == Spec => []IInv
  BY InitInv, NextInv, PTL DEF Spec

\* A user has one open shift a day, unless two requests of the user looked for one
\* before either had created it (openShift).
THEOREM OneOpenShiftTheorem == Spec => []OneOpenShiftADay
<1>1. IInv => OneOpenShiftADay
  BY DEF IInv, OnlyLastOpen, OneOpenShiftADay, RacedOn
<1>. QED BY <1>1, Safety, PTL

\* A stored discrepancy is within a cent of that of the stored amounts, each of the three
\* being rounded by its column, and is exactly that if whole cents were counted; unless
\* the close gave a 0 (closeShift).
THEOREM DiscrepancyTheorem == Spec => []DiscrepancyHolds
<1>1. IInv => DiscrepancyHolds BY DEF IInv
<1>. QED BY <1>1, Safety, PTL

\* A close that is given no opening amount, or no confirmation, keeps the last one,
\* unless two closes of the session overlapped (closeShift).
THEOREM CountsTheorem == Spec => []CountsStand
<1>1. IInv => CountsStand BY DEF IInv
<1>. QED BY <1>1, Safety, PTL

-----------------------------------------------------------------------------
(***************************************************************************)
(* The screens.                                                            *)
(***************************************************************************)

\* The newest of some rows is the first of them.
LEMMA FirstIsLatest ==
  ASSUME NEW N \in Nat, NEW S \in SUBSET (1..N)
  PROVE  /\ Cardinality(S) \in Nat /\ (S = {} <=> Cardinality(S) = 0)
         /\ S # {} => NewestFirst(S)[1] = Latest(S)
<1>1. IsFiniteSet(S)
  <2>1. IsFiniteSet(1..N) BY FS_Interval
  <2>. QED BY <2>1, FS_Subset
<1>2. Cardinality(S) \in Nat /\ (S = {} <=> Cardinality(S) = 0)
  BY <1>1, FS_CardinalityType, FS_EmptySet
<1>3. ASSUME S # {} PROVE NewestFirst(S)[1] = Latest(S)
  <2>. DEFINE Newer(n) == {m \in S : m > n}
  <2>0. \A m \in S : m \in Nat OBVIOUS
  <2>1. Latest(S) \in S /\ \A m \in S : m <= Latest(S) BY <1>3, LatestIsLast
  <2>2. ASSUME NEW n \in S PROVE Cardinality(Newer(n)) = 0 <=> \A m \in S : m <= n
    <3>1. IsFiniteSet(Newer(n)) BY <1>1, FS_Subset
    <3>2. Cardinality(Newer(n)) = 0 <=> Newer(n) = {} BY <3>1, FS_EmptySet
    <3>3. \A m \in S : m \in Newer(n) <=> ~(m <= n) BY <2>0
    <3>4. Newer(n) \subseteq S OBVIOUS
    <3>. HIDE DEF Newer
    <3>5. Newer(n) = {} <=> \A m \in S : m <= n BY <3>3, <3>4
    <3>. QED BY <3>2, <3>5
  <2>. DEFINE c == Cardinality(S)
  <2>3. 1 \in 1..c
    <3>1. c \in Nat /\ c # 0 BY <1>2, <1>3
    <3>. HIDE DEF c
    <3>. QED BY <3>1
  <2>4. NewestFirst(S)[1] = CHOOSE n \in S : Cardinality(Newer(n)) = 1 - 1
    BY <2>3 DEF NewestFirst
  <2>. HIDE DEF Newer
  <2>5. \A n \in S : Cardinality(Newer(n)) = 1 - 1 <=> n = Latest(S)
    <3>. DEFINE top == Latest(S)
    <3>1. top \in S /\ \A m \in S : m <= top BY <2>1
    <3>. HIDE DEF top
    <3>2. ASSUME NEW n \in S, \A m \in S : m <= n PROVE n = top
      <4>1. top <= n /\ n <= top /\ n \in Nat /\ top \in Nat BY <2>0, <3>1, <3>2
      <4>. QED BY <4>1
    <3>3. \A n \in S : (\A m \in S : m <= n) <=> n = top BY <3>1, <3>2
    <3>4. \A n \in S : Cardinality(Newer(n)) = 1 - 1 <=> n = top BY <2>2, <3>3
    <3>. QED BY <3>4 DEF top
  <2>. QED BY <2>1, <2>4, <2>5
<1>. QED BY <1>2, <1>3

\* The first k rows, all when there are not as many.
Rows(rows, k) == SubSeq(rows, 1, IF k < Len(rows) THEN k ELSE Len(rows))

Pages(rows) ==
  [p \in 1..((Len(rows) + 1) \div 2) |->
     SubSeq(rows, (p - 1) * 2 + 1, IF (p - 1) * 2 + 2 < Len(rows) THEN (p - 1) * 2 + 2 ELSE Len(rows))]

\* A page more is two rows more.
LEMMA PageAdds ==
  ASSUME NEW X, NEW rows \in Seq(X), NEW p \in 1..((Len(rows) + 1) \div 2)
  PROVE  /\ p = 1 => Pages(rows)[p] = Rows(rows, 2 * p)
         /\ p # 1 => Rows(rows, 2 * (p - 1)) \o Pages(rows)[p] = Rows(rows, 2 * p)
<1>. DEFINE low  == (p - 1) * 2
            high == IF low + 2 < Len(rows) THEN low + 2 ELSE Len(rows)
            P    == (Len(rows) + 1) \div 2
<1>1. /\ Len(rows) \in Nat /\ p \in Nat \ {0} /\ low = 2 * (p - 1) /\ low + 2 = 2 * p
      /\ low < Len(rows)
  OBVIOUS
<1>2. Pages(rows)[p] = SubSeq(rows, low + 1, high) /\ Rows(rows, 2 * p) = SubSeq(rows, 1, high)
  BY <1>1 DEF Pages, Rows
<1>3. Rows(rows, low) = SubSeq(rows, 1, low) BY <1>1 DEF Rows
<1>4. high \in Nat /\ low \in Nat /\ low < high /\ high <= Len(rows) BY <1>1
<1>. HIDE DEF low, high
<1>5. SubSeq(rows, 1, low) \o SubSeq(rows, low + 1, high) = SubSeq(rows, 1, high)
  BY <1>1, <1>4
<1>6. CASE p = 1
  <2>1. low + 1 = 1 BY <1>6 DEF low
  <2>. QED BY <1>2, <1>6, <2>1
<1>7. CASE p # 1 BY <1>1, <1>2, <1>3, <1>5, <1>7
<1>. QED BY <1>6, <1>7

\* The pages hold the rows, one after the other.
LEMMA PagesHoldRows ==
  ASSUME NEW X, NEW rows \in Seq(X)
  PROVE  FlattenSeq(Pages(rows)) = rows
<1>. DEFINE P == (Len(rows) + 1) \div 2
            pages == Pages(rows)
            Body(g) == g = [i \in 1..P |-> IF i = 1 THEN pages[i] ELSE g[i - 1] \o pages[i]]
            G == [i \in 1..P |-> Rows(rows, 2 * i)]
<1>1. Len(rows) \in Nat /\ P \in Nat /\ (P = 0 <=> Len(rows) = 0) OBVIOUS
<1>2. Len(pages) = P /\ DOMAIN pages = 1..P BY <1>1 DEF Pages
<1>3. CASE P = 0
  <2>1. rows = <<>> BY <1>1, <1>3
  <2>2. pages = <<>>
    <3>1. pages = [p \in 1..P |-> pages[p]] BY DEF Pages
    <3>. HIDE DEF pages, P
    <3>2. 1..P = {} BY <1>3
    <3>. QED BY <3>1, <3>2
  <2>3. FlattenSeq(pages) = pages BY <1>2, <1>3 DEF FlattenSeq
  <2>. QED BY <2>1, <2>2, <2>3
<1>4. CASE P # 0
  <2>1. FlattenSeq(pages) = (CHOOSE g : Body(g))[P] BY <1>2, <1>4 DEF FlattenSeq
  <2>. HIDE DEF P
  <2>2. \A i \in 1..P : /\ i = 1 => pages[i] = G[i]
                        /\ i # 1 => G[i - 1] \o pages[i] = G[i]
    <3>. SUFFICES ASSUME NEW i \in 1..P
                  PROVE  /\ i = 1 => pages[i] = G[i]
                         /\ i # 1 => G[i - 1] \o pages[i] = G[i]
      OBVIOUS
    <3>1. /\ i = 1 => pages[i] = Rows(rows, 2 * i)
          /\ i # 1 => Rows(rows, 2 * (i - 1)) \o pages[i] = Rows(rows, 2 * i)
      BY PageAdds DEF P
    <3>2. G[i] = Rows(rows, 2 * i) OBVIOUS
    <3>3. ASSUME i # 1 PROVE G[i - 1] = Rows(rows, 2 * (i - 1))
      <4>1. i - 1 \in 1..P BY <1>1, <3>3
      <4>. QED BY <4>1
    <3>. HIDE DEF G, pages
    <3>. QED BY <3>1, <3>2, <3>3
  <2>. HIDE DEF pages
  <2>3. Body(G)
    <3>1. \A i \in 1..P : G[i] = IF i = 1 THEN pages[i] ELSE G[i - 1] \o pages[i] BY <2>2
    <3>2. G = [i \in 1..P |-> G[i]] OBVIOUS
    <3>. HIDE DEF G
    <3>. QED BY <3>1, <3>2
  <2>. HIDE DEF G, Body
  <2>. DEFINE h == CHOOSE g : Body(g)
              T == {i \in 1..P : h[i] # G[i]}
  <2>4. Body(h) BY <2>3
  <2>. HIDE DEF h
  <2>5. ASSUME T # {} PROVE FALSE
    <3>1. T \in SUBSET Nat OBVIOUS
    <3>2. PICK x \in T : \A y \in T : ~(y < x)
      <4>. HIDE DEF T
      <4>. QED BY <2>5, <3>1, SmallestNumber
    <3>3. x \in 1..P /\ h[x] # G[x] OBVIOUS
    <3>4. h[x] = IF x = 1 THEN pages[x] ELSE h[x - 1] \o pages[x] BY <2>4, <3>3 DEF Body
    <3>5. CASE x = 1 BY <2>2, <3>3, <3>4, <3>5
    <3>6. CASE x # 1
      <4>1. x - 1 \in 1..P /\ x - 1 < x BY <1>1, <3>3, <3>6
      <4>2. h[x - 1] = G[x - 1] BY <3>2, <4>1
      <4>. QED BY <2>2, <3>3, <3>4, <3>6, <4>2
    <3>. QED BY <3>5, <3>6
  <2>6. h[P] = G[P] BY <1>1, <1>4, <2>5
  <2>7. G[P] = rows
    <3>1. G[P] = Rows(rows, 2 * P) BY <1>1, <1>4 DEF G
    <3>2. ~(2 * P < Len(rows)) BY <1>1 DEF P
    <3>3. Rows(rows, 2 * P) = SubSeq(rows, 1, Len(rows)) BY <3>2 DEF Rows
    <3>. QED BY <3>1, <3>3
  <2>. QED BY <2>1, <2>6, <2>7 DEF h, pages
<1>. QED BY <1>3, <1>4

\* So does the history, of any user and with any filter.
LEMMA HistoryIs ==
  ASSUME TypeOK, NEW u, NEW type, NEW from, NEW to
  PROVE  History(u, type, from, to, 2) = NewestFirst(Matching(u, type, from, to))
<1>. DEFINE S == Matching(u, type, from, to)
            rows == NewestFirst(S)
            X == {rows[k] : k \in 1..Cardinality(S)}
<1>1. PICK N \in Nat : DOMAIN sessions = 1..N BY DEF TypeOK
<1>2. S \in SUBSET (1..N) BY <1>1 DEF Matching, Mine
<1>. HIDE DEF S
<1>3. Cardinality(S) \in Nat BY <1>2, FirstIsLatest
<1>4. rows = [k \in 1..Cardinality(S) |-> rows[k]]
  <2>. DEFINE e(k) == CHOOSE n \in S : Cardinality({m \in S : m > n}) = k - 1
  <2>1. rows = [k \in 1..Cardinality(S) |-> e(k)] BY DEF NewestFirst
  <2>. HIDE DEF rows, e
  <2>. QED BY <2>1
<1>. HIDE DEF rows
<1>5. rows \in Seq(X) /\ Len(rows) = Cardinality(S) BY <1>3, <1>4
<1>6. TotalPages(u, type, from, to, 2) = (Len(rows) + 1) \div 2
  BY <1>3, <1>5 DEF TotalPages, S
<1>7. \A p \in 1..((Len(rows) + 1) \div 2) : HistoryPage(u, type, from, to, p, 2) = Pages(rows)[p]
  BY DEF HistoryPage, Pages, rows, S
<1>8. History(u, type, from, to, 2) = FlattenSeq(Pages(rows))
  BY <1>6, <1>7 DEF History, Pages
<1>. QED BY <1>5, <1>8, PagesHoldRows DEF rows, S
-----------------------------------------------------------------------------
(***************************************************************************)
(* The shift a user was told to be open.                                   *)
(***************************************************************************)

\* Rows are numbered in the order of their days.
DaysGrow ==
  \A m, n \in DOMAIN sessions : m < n => sessions[m].day <= sessions[n].day

\* A user was last answered with the user's last session, open or not by now.
Answered ==
  \A u \in users : answer[u] # 0 => answer[u] \in Mine(u) /\ \A m \in Mine(u) : m <= answer[u]

AInv == IInv /\ DaysGrow /\ Answered

LEMMA InitAnswered == Init => AInv
<1>. SUFFICES ASSUME Init PROVE AInv OBVIOUS
<1>1. IInv BY InitInv
<1>2. DOMAIN sessions = {} BY DEF Init
<1>3. DaysGrow BY <1>2 DEF DaysGrow
<1>4. \A u \in users : answer[u] = 0 BY DEF Init
<1>5. Answered BY <1>4 DEF Answered
<1>. QED BY <1>1, <1>3, <1>5 DEF AInv

\* Nobody is answered, and the sessions stay those of the same users and days.
LEMMA QuietAnswered ==
  ASSUME AInv, UNCHANGED answer, users' \subseteq users, DOMAIN sessions' = DOMAIN sessions,
         \A n \in DOMAIN sessions : sessions'[n].day = sessions[n].day,
         \A u \in users' : Mine(u)' = Mine(u)
  PROVE  DaysGrow' /\ Answered'
<1>1. DaysGrow' BY DEF AInv, DaysGrow
<1>2. Answered' BY DEF AInv, Answered
<1>. QED BY <1>1, <1>2

\* Today's last session of a user is the last of all of the user's.
LEMMA LookAnswered ==
  ASSUME AInv, NEW r \in Requests, OpenLook(r) PROVE DaysGrow' /\ Answered'
<1>. DEFINE u == req[r].user
            n == Latest(Todays(u))
<1>1. /\ TypeOK /\ DaysPast /\ DaysGrow /\ Answered /\ UNCHANGED <<users, sessions, day>>
      /\ day \in Nat /\ answer \in [Users -> Nat] /\ users \subseteq Users
      /\ DOMAIN sessions \subseteq Nat
      /\ \A m \in DOMAIN sessions : sessions[m].day \in Nat
  BY SessionFields DEF AInv, IInv, OpenLook, TypeOK
<1>2. DaysGrow' BY <1>1 DEF DaysGrow
<1>3. \A v : Mine(v)' = Mine(v) BY <1>1 DEF Mine
<1>4. CASE UNCHANGED answer BY <1>1, <1>3, <1>4, <1>2 DEF Answered
<1>5. CASE Todays(u) # {} /\ answer' = [answer EXCEPT ![u] = n]
  <2>1. n \in Todays(u) /\ \A m \in Todays(u) : m <= n BY <1>1, <1>5, LatestToday
  <2>. HIDE DEF n
  <2>2. n \in Mine(u) /\ n \in DOMAIN sessions /\ sessions[n].day >= day
    BY <2>1 DEF Todays, Mine
  <2>3. ASSUME NEW m \in Mine(u) PROVE m <= n
    <3>1. m \in DOMAIN sessions /\ m \in Nat /\ n \in Nat BY <1>1, <2>2 DEF Mine
    <3>2. ASSUME n < m PROVE FALSE
      <4>1. sessions[n].day <= sessions[m].day BY <1>1, <2>2, <3>1, <3>2 DEF DaysGrow
      <4>2. sessions[m].day >= day BY <1>1, <2>2, <3>1, <4>1
      <4>3. m \in Todays(u) BY <4>2 DEF Todays
      <4>4. m <= n BY <2>1, <4>3
      <4>. QED BY <3>1, <3>2, <4>4
    <3>. QED BY <3>1, <3>2
  <2>4. ASSUME NEW v \in users, answer'[v] # 0
        PROVE  answer'[v] \in Mine(v) /\ \A m \in Mine(v) : m <= answer'[v]
    <3>1. CASE v = u
      <4>1. answer'[v] = n BY <1>1, <1>5, <3>1
      <4>. QED BY <2>2, <2>3, <3>1, <4>1
    <3>2. CASE v # u
      <4>1. answer'[v] = answer[v] BY <1>1, <1>5, <3>2
      <4>. QED BY <1>1, <2>4, <4>1 DEF Answered
    <3>. QED BY <3>1, <3>2
  <2>5. Answered' BY <1>1, <1>3, <2>4 DEF Answered
  <2>. QED BY <1>2, <2>5
<1>. QED BY <1>2, <1>4, <1>5 DEF OpenLook

\* A new session is the user's last, and of today.
LEMMA CreateAnswered ==
  ASSUME AInv, TypeOK', NEW r \in Requests, OpenCreate(r) PROVE DaysGrow' /\ Answered'
<1>. DEFINE u == req[r].user
            new == Len(sessions) + 1
<1>1. /\ TypeOK /\ DaysPast /\ DaysGrow /\ Answered /\ u \in Users /\ UNCHANGED <<users, day>>
      /\ sessions \in Seq(Session) /\ day \in Nat /\ answer \in [Users -> Nat]
      /\ users \subseteq Users
  BY DEF OpenCreate, AInv, IInv, TypeOK, Sound
<1>2. CASE u \notin users
  <2>1. UNCHANGED <<sessions, answer>> BY <1>2 DEF OpenCreate
  <2>. QED BY <1>1, <2>1 DEF DaysGrow, Answered, Mine
<1>3. CASE u \in users
  <2>1. sessions' = Append(sessions, Opened(r)) BY <1>3 DEF OpenCreate, Opened
  <2>2. /\ Opened(r) \in Session /\ Opened(r).user = u /\ Opened(r).day = day
    BY <1>1 DEF Opened, Session, Amount, Flag
  <2>3. /\ DOMAIN sessions' = DOMAIN sessions \cup {new} /\ new \notin DOMAIN sessions
        /\ \A n \in DOMAIN sessions : sessions'[n] = sessions[n] /\ n \in Nat /\ n < new
        /\ sessions'[new] = Opened(r) /\ new \in Nat
    BY <1>1, <2>1, <2>2, Appended
  <2>4. answer' = [answer EXCEPT ![u] = new]
    <3>1. Len(sessions') = new BY <1>1, <2>1, <2>2
    <3>. QED BY <1>3, <3>1 DEF OpenCreate
  <2>. HIDE DEF new
  <2>5. DaysGrow'
    <3>. SUFFICES ASSUME NEW m \in DOMAIN sessions', NEW n \in DOMAIN sessions', m < n
                  PROVE  sessions'[m].day <= sessions'[n].day
      BY DEF DaysGrow
    <3>1. CASE n \in DOMAIN sessions
      <4>1. m # new BY <2>3, <3>1
      <4>. QED BY <1>1, <2>3, <3>1, <4>1 DEF DaysGrow
    <3>2. CASE n = new
      <4>1. m \in DOMAIN sessions BY <2>3, <3>2
      <4>2. sessions[m].day <= day BY <1>1, <4>1 DEF DaysPast
      <4>. QED BY <2>2, <2>3, <3>2, <4>1, <4>2
    <3>. QED BY <2>3, <3>1, <3>2
  <2>6. ASSUME NEW v \in users, answer'[v] # 0
        PROVE  answer'[v] \in Mine(v)' /\ \A m \in Mine(v)' : m <= answer'[v]
    <3>1. CASE v = u
      <4>1. answer'[v] = new BY <1>1, <2>4, <3>1
      <4>2. new \in Mine(v)' BY <2>2, <2>3, <3>1 DEF Mine
      <4>3. \A m \in Mine(v)' : m <= new BY <2>3 DEF Mine
      <4>. QED BY <4>1, <4>2, <4>3
    <3>2. CASE v # u
      <4>1. answer'[v] = answer[v] BY <1>1, <2>4, <3>2
      <4>2. Mine(v)' = Mine(v) BY <2>2, <2>3, <3>2 DEF Mine
      <4>. QED BY <1>1, <2>6, <4>1, <4>2 DEF Answered
    <3>. QED BY <3>1, <3>2
  <2>7. Answered' BY <1>1, <2>6 DEF Answered
  <2>. QED BY <2>5, <2>7
<1>. QED BY <1>2, <1>3

LEMMA CloseAnswered ==
  ASSUME AInv, NEW r \in Requests, CloseWrite(r) PROVE DaysGrow' /\ Answered'
<1>. DEFINE n == req[r].on
<1>1. TypeOK /\ UNCHANGED <<users, answer>> BY DEF AInv, IInv, CloseWrite
<1>2. /\ n \in DOMAIN sessions /\ DOMAIN sessions' = DOMAIN sessions
      /\ \A m \in DOMAIN sessions : m # n => sessions'[m] = sessions[m]
      /\ sessions'[n].user = sessions[n].user /\ sessions'[n].day = sessions[n].day
  BY <1>1, CloseEffect
<1>3. \A m \in DOMAIN sessions : /\ sessions'[m].user = sessions[m].user
                                 /\ sessions'[m].day = sessions[m].day
  BY <1>2
<1>4. \A v : Mine(v)' = Mine(v) BY <1>2, <1>3 DEF Mine
<1>. QED BY <1>1, <1>2, <1>3, <1>4, QuietAnswered

\* Only the sessions of the user that is deleted become nobody's.
LEMMA DeleteAnswered ==
  ASSUME AInv, NEW u \in Users, DeleteUser(u) PROVE DaysGrow' /\ Answered'
<1>1. /\ TypeOK /\ UNCHANGED answer /\ users' = users \ {u} /\ users \subseteq Users
      /\ sessions' = [n \in DOMAIN sessions |->
                        [sessions[n] EXCEPT !.user = Left(sessions[n].user, u)]]
  BY DEF AInv, IInv, DeleteUser, Left, TypeOK
<1>2. ASSUME NEW n \in DOMAIN sessions
      PROVE  /\ sessions'[n].user = Left(sessions[n].user, u)
             /\ sessions'[n].day = sessions[n].day
  <2>1. sessions[n] \in Session BY <1>1 DEF TypeOK
  <2>2. sessions'[n] = [sessions[n] EXCEPT !.user = Left(sessions[n].user, u)] BY <1>1
  <2>. QED BY <2>1, <2>2 DEF Session
<1>3. DOMAIN sessions' = DOMAIN sessions BY <1>1
<1>4. ASSUME NEW v \in users' PROVE Mine(v)' = Mine(v)
  <2>1. v # u /\ v # Null BY <1>1, <1>4, ShiftAssumption
  <2>. QED BY <1>2, <1>3, <2>1 DEF Mine, Left
<1>. QED BY <1>1, <1>2, <1>3, <1>4, QuietAnswered

LEMMA NextAnswered == AInv /\ [Next]_vars => AInv'
<1>. SUFFICES ASSUME AInv, [Next]_vars PROVE AInv' OBVIOUS
<1>1. IInv' BY NextInv DEF AInv
<1>2. ASSUME UNCHANGED <<users, sessions, answer>> PROVE DaysGrow' /\ Answered'
  BY <1>2 DEF AInv, DaysGrow, Answered, Mine
<1>3. ASSUME NEW r \in Requests, Start(r) PROVE DaysGrow' /\ Answered'
  BY <1>2, <1>3 DEF Start, OpenFind, CloseRead, UploadFind, VerifyFind
<1>4. ASSUME NEW r \in Requests, Step(r) PROVE DaysGrow' /\ Answered'
  <2>1. TypeOK' BY <1>1 DEF IInv
  <2>2. CASE UploadProof(r) \/ VerifyProof(r) \/ Interrupt(r)
    BY <1>2, <2>2 DEF UploadProof, VerifyProof, Interrupt
  <2>. QED BY <1>4, <2>1, <2>2, LookAnswered, CreateAnswered, CloseAnswered DEF Step
<1>5. ASSUME NextDay \/ UNCHANGED vars PROVE DaysGrow' /\ Answered'
  BY <1>2, <1>5 DEF NextDay, vars
<1>. QED BY <1>1, <1>3, <1>4, <1>5, DeleteAnswered DEF AInv, Next

\* The shift on the screen: the one answered, and the first of the open ones.
LEMMA AnsweredIsCurrent == AInv => CurrentIsTheOneOpened
<1>. SUFFICES ASSUME AInv, NEW u \in users PROVE
       /\ answer[u] # 0 => sessions[answer[u]].type = "CLOSING" \/ Current(u) = answer[u]
       /\ LET open == History(u, "OPENING", Null, Null, 2)
          IN Current(u) = IF open = <<>> THEN 0 ELSE Head(open)
       /\ \A type \in {Null, "OPENING", "CLOSING"}, from, to \in {Null} \cup 1..MaxDay :
            History(u, type, from, to, 2) = NewestFirst(Matching(u, type, from, to))
  BY DEF CurrentIsTheOneOpened
<1>. DEFINE open == {n \in Mine(u) : sessions[n].type = "OPENING"}
<1>1. TypeOK BY DEF AInv, IInv
<1>2. PICK N \in Nat : DOMAIN sessions = 1..N BY <1>1 DEF TypeOK
<1>3. open \in SUBSET (1..N) BY <1>2 DEF Mine
<1>4. Current(u) = IF open = {} THEN 0 ELSE Latest(open) BY DEF Current
<1>5. ASSUME answer[u] # 0, sessions[answer[u]].type # "CLOSING" PROVE Current(u) = answer[u]
  <2>1. answer[u] \in Mine(u) /\ \A m \in Mine(u) : m <= answer[u] BY <1>5 DEF AInv, Answered
  <2>2. answer[u] \in open
    <3>1. answer[u] \in DOMAIN sessions BY <2>1 DEF Mine
    <3>2. sessions[answer[u]].type \in {"OPENING", "CLOSING"}
      BY <1>1, <3>1, SessionFields DEF TypeOK
    <3>. QED BY <1>5, <2>1, <3>2
  <2>3. \A m \in open : m <= answer[u] BY <2>1
  <2>. HIDE DEF open
  <2>4. Latest(open) \in open /\ \A m \in open : m <= Latest(open) BY <1>3, <2>2, LatestIsLast
  <2>. DEFINE top == Latest(open)
  <2>5. top \in open /\ top <= answer[u] /\ answer[u] <= top BY <2>2, <2>3, <2>4
  <2>. HIDE DEF top
  <2>6. top \in Nat /\ answer[u] \in Nat
    <3>1. \A n \in 1..N : n \in Nat OBVIOUS
    <3>. QED BY <1>3, <2>2, <2>5, <3>1
  <2>7. top = answer[u] BY <2>5, <2>6
  <2>. QED BY <1>4, <2>2, <2>7 DEF top
<1>6. Matching(u, "OPENING", Null, Null) = open
  BY ShiftAssumption DEF Matching
<1>7. History(u, "OPENING", Null, Null, 2) = NewestFirst(open) BY <1>1, <1>6, HistoryIs
<1>8. Current(u) = IF NewestFirst(open) = <<>> THEN 0 ELSE Head(NewestFirst(open))
  <2>. HIDE DEF open
  <2>1. /\ Cardinality(open) \in Nat /\ (open = {} <=> Cardinality(open) = 0)
        /\ open # {} => NewestFirst(open)[1] = Latest(open)
    BY <1>3, FirstIsLatest
  <2>2. DOMAIN NewestFirst(open) = 1..Cardinality(open) BY DEF NewestFirst
  <2>. DEFINE rows == NewestFirst(open)
              c == Cardinality(open)
  <2>3. c \in Nat /\ (open = {} <=> c = 0) /\ DOMAIN rows = 1..c BY <2>1, <2>2
  <2>4. Head(rows) = rows[1] OBVIOUS
  <2>. HIDE DEF rows, c
  <2>5. rows = <<>> => c = 0
    <3>1. DOMAIN <<>> = {} OBVIOUS
    <3>. QED BY <2>3, <3>1
  <2>6. CASE open = {}
    <3>1. rows = <<>>
      <4>1. DOMAIN rows = {} BY <2>3, <2>6
      <4>2. rows = [k \in 1..c |-> rows[k]]
        <5>. DEFINE e(k) == CHOOSE n \in open : Cardinality({m \in open : m > n}) = k - 1
        <5>1. rows = [k \in 1..c |-> e(k)] BY DEF rows, c, NewestFirst
        <5>. HIDE DEF e
        <5>. QED BY <5>1
      <4>3. 1..c = {} BY <2>3, <2>6
      <4>. QED BY <4>2, <4>3
    <3>. QED BY <1>4, <2>6, <3>1 DEF rows
  <2>7. CASE open # {}
    <3>1. rows # <<>> BY <2>3, <2>5, <2>7
    <3>2. rows[1] = Latest(open) BY <2>1, <2>7 DEF rows
    <3>. QED BY <1>4, <2>4, <2>7, <3>1, <3>2 DEF rows
  <2>. QED BY <2>6, <2>7
<1>9. \A type \in {Null, "OPENING", "CLOSING"}, from, to \in {Null} \cup 1..MaxDay :
        History(u, type, from, to, 2) = NewestFirst(Matching(u, type, from, to))
  BY <1>1, HistoryIs
<1>. QED BY <1>5, <1>7, <1>8, <1>9

\* The shift openShift last answered a user with is the one getCurrentShift shows, it is the
\* first of the open shifts getShiftHistory lists, and the pages of a history hold the
\* sessions that match, newest first.
THEOREM CurrentTheorem == Spec => []CurrentIsTheOneOpened
<1>1. Spec => []AInv BY InitAnswered, NextAnswered, PTL DEF Spec
<1>. QED BY <1>1, AnsweredIsCurrent, PTL
=============================================================================
