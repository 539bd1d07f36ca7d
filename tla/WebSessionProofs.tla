-------------------------- MODULE WebSessionProofs --------------------------
(***************************************************************************)
(* Users and sessions, for any number of calls, users and sessions: who is *)
(* let in, how long, and that the browsers are clients as Auth allows.     *)
(***************************************************************************)
EXTENDS WebSession, TLAPS

\* A call's fields, for a table of n users and m sessions.
CallIn(n, m) ==
    [op : Ops, at : Stages, name : Names \cup {Null},
     password : Passwords \cup {Null}, next : Passwords \cup {Null},
     sid : 1..m \cup {0}, id : 1..n \cup {0}, status : Statuses,
     empty : BOOLEAN, former : SUBSET ((1..n) \X Passwords)]

\* What a call has learned by the stage it is in.
Staged(r, n) ==
    /\ r.at # "done" /\ r.op \in {"register", "login"} =>
           r.name \in Names /\ r.password \in Passwords
    /\ r.at # "done" /\ r.op = "password" =>
           r.password \in Passwords /\ r.next \in Passwords
    /\ r.at = "counted" => r.op = "register" /\ r.password \notin Short
    /\ r.at = "session" => r.op \in {"register", "login"} /\ r.id \in 1..n
    /\ r.at \in {"authenticated", "compared"} => r.op = "password" /\ r.id \in 1..n
    /\ r.at = "compared" => r.next \notin Short

\* Registration goes on only when it is open or there was no user at all.
Closed(r, u, open) ==
    /\ r.at = "start" /\ r.op = "register" /\ u = <<>> => r.empty
    /\ r.at = "counted" /\ ~ open => r.empty

Known(r, u) ==
    r.at \in {"session", "compared"} =>
        \/ u[r.id].password_hash = r.password
        \/ <<r.id, r.password>> \in r.former

Good(r, u, open, m) ==
    r \in CallIn(Len(u), m) /\ Staged(r, Len(u)) /\ Closed(r, u, open) /\ Known(r, u)

CallsGood ==
    /\ call = [c \in Calls |-> call[c]]
    /\ \A c \in Calls : Good(call[c], user, RegisterOpen, opened)

SessionRows ==
    \A s \in session :
        /\ s.expires_at = Expiry(s.created)
        /\ \A t \in session : s.token = t.token => s = t

TablesTyped ==
    /\ user \in Seq(UserRow)
    /\ session \subseteq SessionRow
    /\ opened \in Nat
    /\ now \in 0..MaxNow
    /\ RegisterOpen \in BOOLEAN

AuthInv == TablesTyped /\ CallsGood /\ SessionRows /\ NamesDistinct

-----------------------------------------------------------------------------
LEMMA TypesFit == AuthInv => AuthTypeOK /\ PasswordKnown
<1>1. ASSUME AuthInv PROVE call \in [Calls -> Call]
  <2>1. Call = CallIn(Len(user), opened)
    BY DEF Call, CallIn, Tokens, Ids
  <2>2. \A c \in Calls : call[c] \in Call
    BY <1>1, <2>1 DEF AuthInv, CallsGood, Good
  <2> QED BY <1>1, <2>2 DEF AuthInv, CallsGood
<1>2. ASSUME AuthInv PROVE PasswordKnown
  BY <1>2 DEF AuthInv, CallsGood, Good, Known, PasswordKnown
<1> QED BY <1>1, <1>2 DEF AuthInv, TablesTyped, AuthTypeOK

\* An answer says nothing about the tables.
LEMMA AnswersGood ==
  ASSUME NEW u, NEW open, NEW m \in Nat, Len(u) \in Nat,
         NEW op \in Ops, NEW status \in Statuses, NEW sid \in 1..m \cup {0},
         NEW name \in Names \cup {Null}
  PROVE  Good(Done(op, status, sid, name), u, open, m)
BY DEF Good, Done, CallIn, Staged, Closed, Known, Ops, Stages

LEMMA GoodGrows ==
  ASSUME NEW r, NEW u, NEW open, NEW m \in Nat, NEW k \in Nat, m <= k,
         Good(r, u, open, m)
  PROVE  Good(r, u, open, k)
<1>1. 1..m \subseteq 1..k
  OBVIOUS
<1> QED BY <1>1 DEF Good, CallIn

LEMMA RowsTyped ==
  ASSUME AuthInv
  PROVE  /\ Len(user) \in Nat /\ opened \in Nat
         /\ \A i \in Ids : /\ user[i] \in UserRow
                          /\ user[i].account \in Names
                          /\ user[i].password_hash \in Passwords
<1>1. user \in Seq(UserRow) /\ opened \in Nat
  BY DEF AuthInv, TablesTyped
<1>2. \A i \in Ids : user[i] \in UserRow
  BY <1>1 DEF Ids
<1>3. Len(user) \in Nat
  BY <1>1
<1> QED BY <1>1, <1>2, <1>3 DEF UserRow

\* One call moves on, and the users stay as they are.
LEMMA OneCallMoves ==
  ASSUME AuthInv, NEW c \in Calls,
         user' = user, RegisterOpen' = RegisterOpen,
         opened' \in Nat, opened <= opened',
         call' = [call EXCEPT ![c] = call'[c]],
         Good(call'[c], user, RegisterOpen, opened')
  PROVE  CallsGood' /\ NamesDistinct'
<1>1. \A d \in Calls : Good(call'[d], user, RegisterOpen, opened')
  <2> TAKE d \in Calls
  <2>1. CASE d = c
    BY <2>1
  <2>2. CASE d # c
    <3>1. call'[d] = call[d]
      BY <2>2 DEF AuthInv, CallsGood
    <3>2. Good(call[d], user, RegisterOpen, opened) /\ opened \in Nat
      BY DEF AuthInv, CallsGood, TablesTyped
    <3> QED BY <3>1, <3>2, GoodGrows
  <2> QED BY <2>1, <2>2
<1>2. call' = [d \in Calls |-> call'[d]]
  BY DEF AuthInv, CallsGood
<1>3. NamesDistinct'
  BY DEF AuthInv, NamesDistinct, Ids, UserRow
<1> QED BY <1>1, <1>2, <1>3 DEF CallsGood
-----------------------------------------------------------------------------
LEMMA AuthInit == Init => AuthInv
<1> SUFFICES ASSUME Init PROVE AuthInv
  OBVIOUS
<1>1. TablesTyped
  BY AuthAssumption DEF Init, TablesTyped
<1>2. CallsGood
  <2>1. Good(NoCall, user, RegisterOpen, opened)
    BY AnswersGood DEF Init, NoCall, Ops, Statuses
  <2> QED BY <2>1 DEF Init, CallsGood
<1>3. SessionRows /\ NamesDistinct
  BY DEF Init, SessionRows, NamesDistinct, Ids
<1> QED BY <1>1, <1>2, <1>3 DEF AuthInv

\* The steps that touch no table: a call only goes on, or is answered.
LEMMA OnlyTheCall ==
  ASSUME AuthInv, NEW c \in Calls,
         call' = [call EXCEPT ![c] = call'[c]],
         Good(call'[c], user, RegisterOpen, opened),
         UNCHANGED <<user, session, opened, now, RegisterOpen>>
  PROVE  AuthInv'
<1>1. TablesTyped' /\ SessionRows'
  BY DEF AuthInv, TablesTyped, SessionRows, SessionRow, Tokens, Ids, Expiry
<1>2. CallsGood' /\ NamesDistinct'
  BY OneCallMoves DEF AuthInv, TablesTyped
<1> QED BY <1>1, <1>2 DEF AuthInv

LEMMA BeginStep ==
  ASSUME AuthInv, NEW c \in Calls, BeginAny(c)
  PROVE  AuthInv'
<1> PICK asked \in Requests, sid \in Tokens \cup {0} : Begin(c, asked, sid)
  BY DEF BeginAny
<1>1. /\ asked \in [op : Ops, name : Names \cup {Null},
                    password : Passwords \cup {Null}, next : Passwords \cup {Null}]
      /\ asked.op \in {"register", "login"} =>
             asked.name \in Names /\ asked.password \in Passwords
      /\ asked.op = "password" => asked.password \in Passwords /\ asked.next \in Passwords
  BY DEF Requests, SignIns, Changes, Me, SignOut, Asked, Ops
<1>2. call' = [call EXCEPT ![c] = Started(asked, sid)] /\ call'[c] = Started(asked, sid)
  BY DEF Begin, AuthInv, CallsGood
<1>3. Good(Started(asked, sid), user, RegisterOpen, opened)
  BY <1>1 DEF Good, Started, CallIn, Staged, Closed, Known, Stages, Statuses, Tokens
<1> QED BY <1>2, <1>3, OnlyTheCall DEF Begin

\* An answer that writes nothing.
LEMMA AnswerStep ==
  ASSUME AuthInv, NEW c \in Calls, NEW status \in Statuses,
         NEW name \in Names \cup {Null},
         Answer(c, status, 0, name),
         UNCHANGED <<user, session, opened, now, RegisterOpen>>
  PROVE  AuthInv'
<1>1. call[c].op \in Ops /\ opened \in Nat /\ Len(user) \in Nat
  BY DEF AuthInv, CallsGood, Good, CallIn, TablesTyped
<1>2. /\ call' = [call EXCEPT ![c] = Done(call[c].op, status, 0, name)]
      /\ call'[c] = Done(call[c].op, status, 0, name)
  BY DEF Answer, AuthInv, CallsGood
<1>3. Good(call'[c], user, RegisterOpen, opened)
  BY <1>1, <1>2, AnswersGood
<1> QED BY <1>2, <1>3, OnlyTheCall

LEMMA RegisterCountStep ==
  ASSUME AuthInv, NEW c \in Calls, RegisterCount(c)
  PROVE  AuthInv'
<1>1. CASE Answer(c, "BAD_REQUEST", 0, Null) \/ Answer(c, "REGISTER_CLOSED", 0, Null)
  BY <1>1, AnswerStep DEF RegisterCount, Statuses
<1>2. CASE /\ call[c].password \notin Short
           /\ user = <<>> \/ RegisterOpen
           /\ call' = [call EXCEPT ![c] = [@ EXCEPT !.at = "counted"]]
  <2>1. Good(call[c], user, RegisterOpen, opened) /\ Len(user) \in Nat
    BY DEF AuthInv, CallsGood, TablesTyped
  <2>2. call'[c] = [call[c] EXCEPT !.at = "counted"]
    BY <1>2 DEF AuthInv, CallsGood
  <2>3. Good([call[c] EXCEPT !.at = "counted"], user, RegisterOpen, opened)
    BY <1>2, <2>1 DEF RegisterCount, Good, CallIn, Staged, Closed, Known, Stages
  <2> QED BY <1>2, <2>2, <2>3, OnlyTheCall DEF RegisterCount
<1> QED BY <1>1, <1>2 DEF RegisterCount

LEMMA LoginCompareStep ==
  ASSUME AuthInv, NEW c \in Calls, LoginCompare(c)
  PROVE  AuthInv'
<1>1. CASE Answer(c, "UNAUTHORIZED", 0, Null)
  BY <1>1, AnswerStep DEF LoginCompare, Statuses
<1>2. CASE \E i \in UserByAccount(call[c].name) :
             /\ user[i].password_hash = call[c].password
             /\ call' = [call EXCEPT ![c] = [@ EXCEPT !.at = "session", !.id = i]]
  <2> PICK i \in UserByAccount(call[c].name) :
             /\ user[i].password_hash = call[c].password
             /\ call' = [call EXCEPT ![c] = [@ EXCEPT !.at = "session", !.id = i]]
    BY <1>2
  <2>1. Good(call[c], user, RegisterOpen, opened) /\ i \in 1..Len(user)
    BY DEF AuthInv, CallsGood, UserByAccount, Ids
  <2>2. call'[c] = [call[c] EXCEPT !.at = "session", !.id = i]
    BY DEF AuthInv, CallsGood
  <2>3. Good([call[c] EXCEPT !.at = "session", !.id = i], user, RegisterOpen, opened)
    BY <2>1 DEF LoginCompare, Good, CallIn, Staged, Closed, Known, Stages
  <2> QED BY <2>2, <2>3, OnlyTheCall DEF LoginCompare
<1> QED BY <1>1, <1>2 DEF LoginCompare

LEMMA ForgetStep ==
  ASSUME AuthInv, NEW c \in Calls, Forget(c)
  PROVE  AuthInv'
<1>1. call' = [call EXCEPT ![c] = NoCall] /\ call'[c] = NoCall
  BY DEF Forget, AuthInv, CallsGood
<1>2. Good(NoCall, user, RegisterOpen, opened)
  BY RowsTyped, AnswersGood DEF NoCall, Ops, Statuses
<1> QED BY <1>1, <1>2, OnlyTheCall DEF Forget

LEMMA AuthenticateStep ==
  ASSUME AuthInv, NEW c \in Calls, Authenticate(c)
  PROVE  AuthInv'
<1>1. \A i \in UserBySession(call[c].sid) : i \in Ids
  BY DEF UserBySession, AuthInv, TablesTyped, SessionRow
<1>2. CASE Answer(c, "UNAUTHORIZED", 0, Null)
  BY <1>2, AnswerStep DEF Authenticate, Statuses
<1>3. ASSUME NEW i \in UserBySession(call[c].sid), Answer(c, "ok", 0, user[i].account)
      PROVE  AuthInv'
  <2>1. user[i].account \in Names
    BY <1>1, RowsTyped
  <2> QED BY <1>3, <2>1, AnswerStep DEF Authenticate, Statuses
<1>4. ASSUME NEW i \in UserBySession(call[c].sid), call[c].op # "me",
             call' = [call EXCEPT ![c] = [@ EXCEPT !.at = "authenticated", !.id = i]]
      PROVE  AuthInv'
  <2>1. Good(call[c], user, RegisterOpen, opened) /\ i \in 1..Len(user)
    BY <1>1 DEF AuthInv, CallsGood, Ids
  <2>2. call'[c] = [call[c] EXCEPT !.at = "authenticated", !.id = i]
    BY <1>4 DEF AuthInv, CallsGood
  <2>3. Good([call[c] EXCEPT !.at = "authenticated", !.id = i], user, RegisterOpen, opened)
    BY <2>1, <1>4 DEF Authenticate, Good, CallIn, Staged, Closed, Known, Stages
  <2> QED BY <1>4, <2>2, <2>3, OnlyTheCall DEF Authenticate
<1> QED BY <1>2, <1>3, <1>4 DEF Authenticate

LEMMA PasswordCompareStep ==
  ASSUME AuthInv, NEW c \in Calls, PasswordCompare(c)
  PROVE  AuthInv'
<1>1. CASE Answer(c, "BAD_REQUEST", 0, Null) \/ Answer(c, "UNAUTHORIZED", 0, Null)
  BY <1>1, AnswerStep DEF PasswordCompare, Statuses
<1>2. CASE /\ call[c].next \notin Short
           /\ user[call[c].id].password_hash = call[c].password
           /\ call' = [call EXCEPT ![c] = [@ EXCEPT !.at = "compared"]]
  <2>1. Good(call[c], user, RegisterOpen, opened)
    BY DEF AuthInv, CallsGood
  <2>2. call'[c] = [call[c] EXCEPT !.at = "compared"]
    BY <1>2 DEF AuthInv, CallsGood
  <2>3. Good([call[c] EXCEPT !.at = "compared"], user, RegisterOpen, opened)
    BY <1>2, <2>1 DEF PasswordCompare, Good, CallIn, Staged, Closed, Known, Stages
  <2> QED BY <1>2, <2>2, <2>3, OnlyTheCall DEF PasswordCompare
<1> QED BY <1>1, <1>2 DEF PasswordCompare

LEMMA StatementFailsStep ==
  ASSUME AuthInv, NEW c \in Calls, StatementFails(c)
  PROVE  AuthInv'
<1>1. \E status \in {"INTERNAL", "ACCOUNT_EXISTS", "UNAUTHORIZED"} : Answer(c, status, 0, Null)
  BY DEF StatementFails
<1>2. {"INTERNAL", "ACCOUNT_EXISTS", "UNAUTHORIZED"} \subseteq Statuses
  BY DEF Statuses
<1> QED BY <1>1, <1>2, AnswerStep DEF StatementFails

LEMMA LogoutStep ==
  ASSUME AuthInv, NEW c \in Calls, Logout(c)
  PROVE  AuthInv'
<1>1. session' \subseteq session
  BY DEF Logout
<1>2. TablesTyped' /\ SessionRows'
  BY <1>1 DEF Logout, AuthInv, TablesTyped, SessionRows, SessionRow, Tokens, Ids, Expiry
<1>3. call[c].op \in Ops /\ opened \in Nat /\ Len(user) \in Nat
  BY DEF AuthInv, CallsGood, Good, CallIn, TablesTyped
<1>4. /\ call' = [call EXCEPT ![c] = Done(call[c].op, "ok", 0, Null)]
      /\ call'[c] = Done(call[c].op, "ok", 0, Null)
  BY DEF Logout, Answer, AuthInv, CallsGood
<1>5. Good(call'[c], user, RegisterOpen, opened)
  BY <1>3, <1>4, AnswersGood DEF Statuses
<1>6. CallsGood' /\ NamesDistinct'
  <2>1. opened' = opened /\ user' = user /\ RegisterOpen' = RegisterOpen
    BY DEF Logout
  <2>2. opened' \in Nat /\ opened <= opened' /\ Good(call'[c], user, RegisterOpen, opened')
    BY <1>3, <1>5, <2>1
  <2>3. call' = [call EXCEPT ![c] = call'[c]]
    BY <1>4
  <2> QED BY <2>1, <2>2, <2>3, OneCallMoves
<1> QED BY <1>2, <1>6 DEF AuthInv

\* Every token is a new one, so that no two sessions have the same.
LEMMA CreateSessionStep ==
  ASSUME AuthInv, NEW c \in Calls, CreateSession(c)
  PROVE  AuthInv'
<1> DEFINE row == [token |-> opened + 1, user_id |-> call[c].id,
                   expires_at |-> Expiry(now), created |-> now]
<1>1. /\ call[c].op \in Ops /\ call[c].id \in Ids /\ user[call[c].id].account \in Names
      /\ opened \in Nat /\ now \in 0..MaxNow /\ Len(user) \in Nat
  <2>1. call[c].op \in Ops /\ call[c].id \in Ids
    BY DEF CreateSession, AuthInv, CallsGood, Good, Staged, CallIn, Ids
  <2> QED BY <2>1, RowsTyped DEF AuthInv, TablesTyped
<1>2. Expiry(now) \in Int
  BY <1>1, AuthAssumption DEF Expiry
<1>3. row \in SessionRow'
  BY <1>1, <1>2 DEF CreateSession, SessionRow, Tokens, Ids
<1>4. session \subseteq SessionRow'
  <2>1. Tokens \subseteq Tokens' /\ Ids' = Ids
    BY <1>1 DEF CreateSession, Tokens, Ids
  <2> QED BY <2>1 DEF AuthInv, TablesTyped, SessionRow
<1>5. TablesTyped'
  BY <1>1, <1>3, <1>4 DEF CreateSession, AuthInv, TablesTyped
<1>6. SessionRows'
  <2>1. \A s \in session : s.token \in 1..opened
    BY DEF AuthInv, TablesTyped, SessionRow, Tokens
  <2>2. \A s \in session : s.token # row.token
    BY <1>1, <2>1
  <2>3. session' = session \cup {row} /\ row.expires_at = Expiry(row.created)
    BY DEF CreateSession
  <2>4. \A s \in session : s.expires_at = Expiry(s.created)
                         /\ \A t \in session : s.token = t.token => s = t
    BY DEF AuthInv, SessionRows
  <2> HIDE DEF row
  <2>5. \A s \in session' : s.expires_at = Expiry(s.created)
                          /\ \A t \in session' : s.token = t.token => s = t
    BY <2>2, <2>3, <2>4
  <2> QED BY <2>5 DEF SessionRows, Expiry
<1>7. /\ call' = [call EXCEPT ![c] =
                   Done(call[c].op, "ok", opened + 1, user[call[c].id].account)]
      /\ call'[c] = Done(call[c].op, "ok", opened + 1, user[call[c].id].account)
  BY DEF CreateSession, Answer, AuthInv, CallsGood
<1>8. Good(call'[c], user, RegisterOpen, opened')
  <2>1. opened' = opened + 1 /\ opened' \in Nat /\ opened + 1 \in 1..opened' \cup {0}
    BY <1>1 DEF CreateSession
  <2>2. Good(Done(call[c].op, "ok", opened + 1, user[call[c].id].account),
             user, RegisterOpen, opened')
    BY <1>1, <2>1, AnswersGood DEF Statuses
  <2> QED BY <1>7, <2>2
<1>9. CallsGood' /\ NamesDistinct'
  <2>1. opened' \in Nat /\ opened <= opened'
    BY <1>1 DEF CreateSession
  <2>2. user' = user /\ RegisterOpen' = RegisterOpen
    BY DEF CreateSession
  <2>3. call' = [call EXCEPT ![c] = call'[c]]
    BY <1>7
  <2> QED BY <2>1, <2>2, <2>3, <1>8, OneCallMoves
<1> QED BY <1>5, <1>6, <1>9 DEF AuthInv

\* A user is added whose name no other user has in whatever case; what the
\* other calls know of users stays true.
LEMMA RegisterInsertStep ==
  ASSUME AuthInv, NEW c \in Calls, RegisterInsert(c)
  PROVE  AuthInv'
<1>1. CASE Answer(c, "ACCOUNT_EXISTS", 0, Null) /\ UNCHANGED user
  BY <1>1, AnswerStep DEF RegisterInsert, Statuses
<1>2. CASE /\ call[c].password \notin Long
           /\ UserByAccount(call[c].name) = {}
           /\ user' = Append(user, [account |-> call[c].name,
                                   password_hash |-> call[c].password])
           /\ call' = [call EXCEPT ![c] = [@ EXCEPT !.at = "session",
                                                   !.id = Len(user) + 1]]
  <2> DEFINE row == [account |-> call[c].name, password_hash |-> call[c].password]
             n == Len(user)
             k == Len(user')
  <2>1. Good(call[c], user, RegisterOpen, opened)
    BY DEF AuthInv, CallsGood
  <2>2. call[c].name \in Names /\ call[c].password \in Passwords \ (Short \cup Long)
    BY <2>1, <1>2 DEF RegisterInsert, Good, Staged
  <2>3. row \in UserRow
    BY <2>2 DEF UserRow
  <2>4. /\ user \in Seq(UserRow) /\ user' = Append(user, row) /\ n \in Nat
    BY <1>2 DEF AuthInv, TablesTyped
  <2>5. /\ user' \in Seq(UserRow) /\ k = n + 1 /\ user'[k] = row
        /\ \A i \in 1..n : user'[i] = user[i]
    <3> HIDE DEF row
    <3> QED BY <2>3, <2>4
  <2>6. 1..n \subseteq 1..k /\ k \in 1..k /\ user' # <<>> /\ k = Len(user) + 1
    BY <2>4, <2>5
  <2>7. TablesTyped'
    <3>1. Ids \subseteq Ids'
      BY <2>6 DEF Ids
    <3> QED BY <2>5, <3>1 DEF RegisterInsert, AuthInv, TablesTyped, SessionRow, Tokens
  <2>8. NamesDistinct'
    <3>1. \A i \in 1..n : Fold[user'[i].account] # Fold[user'[k].account]
      BY <1>2, <2>5 DEF UserByAccount, Ids
    <3>2. \A i, j \in 1..n : Fold[user'[i].account] = Fold[user'[j].account] => i = j
      BY <2>5 DEF AuthInv, NamesDistinct, Ids
    <3>3. \A i \in 1..k : i \in 1..n \/ i = k
      BY <2>4, <2>5
    <3>4. \A i, j \in 1..k : Fold[user'[i].account] = Fold[user'[j].account] => i = j
      <4> HIDE DEF n, k
      <4> QED BY <3>1, <3>2, <3>3
    <3> QED BY <3>4 DEF NamesDistinct, Ids
  <2>9. SessionRows'
    BY DEF RegisterInsert, AuthInv, SessionRows, Expiry
  <2>10. ASSUME NEW r, Good(r, user, RegisterOpen, opened)
         PROVE  Good(r, user', RegisterOpen, opened)
    <3>1. r \in CallIn(k, opened)
      BY <2>6, <2>10 DEF Good, CallIn
    <3>2. Staged(r, k)
      BY <2>6, <2>10 DEF Good, Staged
    <3>3. Closed(r, user', RegisterOpen)
      BY <2>6, <2>10 DEF Good, Closed
    <3>4. Known(r, user')
      BY <2>5, <2>10 DEF Good, Staged, Known
    <3> QED BY <3>1, <3>2, <3>3, <3>4 DEF Good
  <2>11. Good(call'[c], user', RegisterOpen, opened)
    <3>1. call'[c] = [call[c] EXCEPT !.at = "session", !.id = n + 1]
      BY <1>2 DEF AuthInv, CallsGood
    <3> DEFINE r == [call[c] EXCEPT !.at = "session", !.id = n + 1]
    <3>2. Good(call[c], user', RegisterOpen, opened) /\ call[c].op = "register"
      BY <2>1, <2>10 DEF RegisterInsert
    <3>3. /\ r.at = "session" /\ r.id = k /\ r.op = "register"
          /\ r.name = call[c].name /\ r.password = call[c].password
      BY <3>2, <2>5 DEF Good, CallIn
    <3>4. r \in CallIn(k, opened)
      BY <3>2, <2>5, <2>6 DEF Good, CallIn, Stages
    <3> HIDE DEF r
    <3>5. Staged(r, k) /\ Closed(r, user', RegisterOpen)
      BY <2>2, <2>6, <3>3 DEF Staged, Closed
    <3>6. Known(r, user')
      BY <2>5, <3>3 DEF Known
    <3> QED BY <3>1, <3>4, <3>5, <3>6 DEF Good, r
  <2>12. CallsGood'
    <3>1. /\ call' = [call EXCEPT ![c] = call'[c]]
          /\ UNCHANGED <<RegisterOpen, opened>>
      BY <1>2 DEF RegisterInsert, AuthInv, CallsGood
    <3>2. \A d \in Calls : Good(call'[d], user', RegisterOpen, opened)
      BY <2>10, <2>11, <3>1 DEF AuthInv, CallsGood
    <3> QED BY <3>1, <3>2 DEF AuthInv, CallsGood
  <2> QED BY <2>7, <2>8, <2>9, <2>12 DEF AuthInv
<1> QED BY <1>1, <1>2 DEF RegisterInsert

\* The calls under way know the password that is replaced.
LEMMA UpdatePasswordStep ==
  ASSUME AuthInv, NEW c \in Calls, UpdatePassword(c)
  PROVE  AuthInv'
<1>1. CASE Answer(c, "INTERNAL", 0, Null) /\ UNCHANGED user
  BY <1>1, AnswerStep DEF UpdatePassword, Statuses
<1> DEFINE i == call[c].id
           old == <<i, user[i].password_hash>>
           Kept(r) == [r EXCEPT !.former = @ \cup {old}]
<1>2. CASE /\ call[c].next \notin Long
           /\ user' = [user EXCEPT ![i] = [@ EXCEPT !.password_hash = call[c].next]]
           /\ call' = [d \in Calls |->
                 IF d = c THEN Done("password", "ok", 0, Null)
                 ELSE IF call[d].at = "done" THEN call[d] ELSE Kept(call[d])]
  <2>1. Good(call[c], user, RegisterOpen, opened)
    BY DEF AuthInv, CallsGood
  <2>2. /\ i \in 1..Len(user) /\ call[c].next \in Passwords \ (Short \cup Long)
    BY <2>1, <1>2 DEF UpdatePassword, Good, Staged
  <2>3. user \in Seq(UserRow) /\ user[i] \in UserRow /\ old \in (1..Len(user)) \X Passwords
    BY <2>2, RowsTyped DEF AuthInv, TablesTyped, Ids
  <2>4. [user[i] EXCEPT !.password_hash = call[c].next] \in UserRow
    BY <2>2, <2>3 DEF UserRow
  <2>5. /\ user' \in Seq(UserRow) /\ Len(user') = Len(user)
        /\ \A j \in 1..Len(user) : user'[j].account = user[j].account
        /\ \A j \in 1..Len(user) : j # i => user'[j] = user[j]
    <3>1. user' = [user EXCEPT ![i] = [user[i] EXCEPT !.password_hash = call[c].next]]
      BY <1>2
    <3>2. user'[i].account = user[i].account
      BY <2>2, <2>3, <3>1 DEF UserRow
    <3> HIDE DEF i
    <3> QED BY <2>2, <2>3, <2>4, <3>1, <3>2
  <2>6. TablesTyped' /\ SessionRows' /\ NamesDistinct'
    <3>1. Ids' = Ids /\ UNCHANGED <<session, opened, now, RegisterOpen>>
      BY <2>5 DEF UpdatePassword, Ids
    <3>2. TablesTyped'
      BY <2>5, <3>1 DEF AuthInv, TablesTyped, SessionRow, Tokens
    <3>3. SessionRows'
      BY <3>1 DEF AuthInv, SessionRows, Expiry
    <3>4. NamesDistinct'
      <4> HIDE DEF i, old, Kept
      <4>1. \A j \in Ids : user'[j].account = user[j].account
        BY <2>5 DEF Ids
      <4> QED BY <3>1, <4>1 DEF AuthInv, NamesDistinct
    <3> QED BY <3>2, <3>3, <3>4
  <2>7. ASSUME NEW r, Good(r, user, RegisterOpen, opened), r.at # "done"
        PROVE  Good(Kept(r), user', RegisterOpen, opened)
    <3>1. /\ Kept(r).at = r.at /\ Kept(r).op = r.op /\ Kept(r).name = r.name
          /\ Kept(r).password = r.password /\ Kept(r).next = r.next
          /\ Kept(r).id = r.id /\ Kept(r).empty = r.empty
          /\ Kept(r).former = r.former \cup {old}
      BY <2>7 DEF Good, CallIn
    <3>2. Kept(r) \in CallIn(Len(user'), opened)
      BY <2>3, <2>5, <2>7 DEF Good, CallIn
    <3> HIDE DEF Kept
    <3>3. Staged(Kept(r), Len(user'))
      BY <2>5, <2>7, <3>1 DEF Good, Staged
    <3>4. Closed(Kept(r), user', RegisterOpen)
      <4>1. user # <<>>
        BY <2>2
      <4>2. user' # <<>>
        BY <2>2, <2>5
      <4> QED BY <4>2, <2>7, <3>1 DEF Good, Closed
    <3>5. Known(Kept(r), user')
      <4>1. CASE r.at \in {"session", "compared"} /\ r.id = i
        <5>1. \/ old = <<r.id, r.password>>
              \/ <<r.id, r.password>> \in r.former
          BY <4>1, <2>7 DEF Good, Known
        <5>2. <<r.id, r.password>> \in Kept(r).former
          BY <3>1, <5>1
        <5> HIDE DEF old
        <5> QED BY <3>1, <5>2 DEF Known
      <4>2. CASE r.at \in {"session", "compared"} /\ r.id # i
        <5> HIDE DEF i, old
        <5>1. r.id \in 1..Len(user) /\ user'[r.id] = user[r.id]
          BY <4>2, <2>5, <2>7 DEF Good, Staged
        <5>2. \/ user[r.id].password_hash = r.password
              \/ <<r.id, r.password>> \in r.former
          BY <4>2, <2>7 DEF Good, Known
        <5> QED BY <5>1, <5>2, <3>1 DEF Known
      <4>3. CASE r.at \notin {"session", "compared"}
        BY <4>3, <3>1 DEF Known
      <4> QED BY <4>1, <4>2, <4>3
    <3> QED BY <3>2, <3>3, <3>4, <3>5 DEF Good
  <2>8. ASSUME NEW r, Good(r, user, RegisterOpen, opened), r.at = "done"
        PROVE  Good(r, user', RegisterOpen, opened)
    BY <2>5, <2>8 DEF Good, CallIn, Staged, Closed, Known
  <2>9. Good(Done("password", "ok", 0, Null), user', RegisterOpen, opened)
    BY <2>5, RowsTyped, AnswersGood DEF Ops, Statuses
  <2>10. CallsGood'
    <3>1. \A d \in Calls : Good(call'[d], user', RegisterOpen, opened)
      <4> TAKE d \in Calls
      <4>1. Good(call[d], user, RegisterOpen, opened)
        BY DEF AuthInv, CallsGood
      <4>2. call'[d] = IF d = c THEN Done("password", "ok", 0, Null)
                       ELSE IF call[d].at = "done" THEN call[d] ELSE Kept(call[d])
        BY <1>2
      <4> HIDE DEF Kept
      <4> QED BY <4>1, <4>2, <2>7, <2>8, <2>9
    <3>2. UNCHANGED <<RegisterOpen, opened>> /\ call' = [d \in Calls |-> call'[d]]
      BY <1>2 DEF UpdatePassword
    <3> QED BY <3>1, <3>2 DEF CallsGood
  <2> QED BY <2>6, <2>10 DEF AuthInv
<1> QED BY <1>1, <1>2 DEF UpdatePassword

LEMMA RestartStep ==
  ASSUME AuthInv, Restart
  PROVE  AuthInv'
<1>1. TablesTyped' /\ SessionRows' /\ NamesDistinct'
  BY DEF Restart, AuthInv, TablesTyped, SessionRows, NamesDistinct, SessionRow,
         Tokens, Ids, Expiry
<1>2. \A d \in Calls : Good(call'[d], user, RegisterOpen', opened)
  <2> TAKE d \in Calls
  <2>1. Good(call[d], user, RegisterOpen, opened) /\ call[d].op \in Ops
    BY DEF AuthInv, CallsGood, Good, CallIn
  <2>2. call'[d] = IF call[d].at = "done" THEN call[d]
                   ELSE Done(call[d].op, "lost", 0, Null)
    BY DEF Restart
  <2>3. Good(Done(call[d].op, "lost", 0, Null), user, RegisterOpen', opened)
    BY <2>1, RowsTyped, AnswersGood DEF Statuses
  <2>4. call[d].at = "done" => Good(call[d], user, RegisterOpen', opened)
    BY <2>1 DEF Good, Closed
  <2> QED BY <2>2, <2>3, <2>4
<1>3. UNCHANGED <<user, opened>> /\ call' = [d \in Calls |-> call'[d]]
  BY DEF Restart
<1> QED BY <1>1, <1>2, <1>3 DEF AuthInv, CallsGood

LEMMA TickStep ==
  ASSUME AuthInv, Tick
  PROVE  AuthInv'
BY AuthAssumption DEF Tick, AuthInv, TablesTyped, CallsGood, SessionRows, NamesDistinct,
       SessionRow, Tokens, Ids, Expiry

LEMMA AuthStep == AuthInv /\ [AuthNext]_authVars => AuthInv'
<1> SUFFICES ASSUME AuthInv, [AuthNext]_authVars PROVE AuthInv'
  OBVIOUS
<1>1. ASSUME NEW c \in Calls,
             BeginAny(c) \/ Forget(c) \/ Serve(c) \/ StatementFails(c)
      PROVE  AuthInv'
  BY <1>1, BeginStep, ForgetStep, StatementFailsStep, RegisterCountStep,
     RegisterInsertStep, LoginCompareStep, CreateSessionStep, LogoutStep,
     AuthenticateStep, PasswordCompareStep, UpdatePasswordStep DEF Serve
<1>2. CASE UNCHANGED authVars
  BY <1>2 DEF authVars, AuthInv, TablesTyped, CallsGood, SessionRows, NamesDistinct,
              SessionRow, Tokens, Ids, Expiry
<1> QED BY <1>1, <1>2, RestartStep, TickStep DEF AuthNext

LEMMA AuthInvAlways == AuthSpec => []AuthInv
BY AuthInit, AuthStep, PTL DEF AuthSpec

-----------------------------------------------------------------------------
\* Whoever calls, in whatever order: no two users have one name, and whoever
\* opens a session or changes a password has given the user's password.
THEOREM AuthCorrect == AuthSpec => [](AuthTypeOK /\ NamesDistinct /\ PasswordKnown)
<1>1. AuthInv => AuthTypeOK /\ NamesDistinct /\ PasswordKnown
  BY TypesFit DEF AuthInv
<1> QED BY <1>1, AuthInvAlways, PTL

\* Once there is a user, nobody who asks from then on gets in by registering
\* while registration is closed.
THEOREM RegistrationCloses == AuthSpec => ClosedAfterFirst
<1>1. AuthInv => (\A c \in Calls :
         ~ RegisterOpen /\ call[c].at = "counted" /\ call'[c].at = "session"
         => call[c].empty)
  BY DEF AuthInv, CallsGood, Good, Closed
<1> QED BY <1>1, AuthInvAlways, PTL DEF ClosedAfterFirst, AuthSpec

\* Whole seconds of a time: at most a second less.
LEMMA WholeSeconds ==
  ASSUME NEW t \in Nat
  PROVE  Expiry(t) \in Int /\ Expiry(t) <= t + TTL /\ t + TTL - Second < Expiry(t)
<1> USE AuthAssumption
<1> DEFINE x == t + TTL
           q == x \div Second
<1>1. x \in Nat /\ q \in Int /\ x = Second * q + (x % Second) /\ x % Second \in 0..(Second - 1)
  OBVIOUS
<1>2. Second * q \in Int /\ q * Second = Second * q
  BY <1>1
<1> HIDE DEF q
<1>3. Expiry(t) = q * Second
  BY DEF Expiry, q
<1> QED BY <1>1, <1>2, <1>3

\* For every length of a session and of a second: a session lasts its time, to
\* the second.
THEOREM SessionsLast == AuthSpec => []SessionLasts
<1>1. ASSUME AuthInv PROVE SessionLasts
  <2> SUFFICES ASSUME NEW s \in session
               PROVE  /\ UserBySession(s.token) # {} => now < s.created + TTL
                      /\ now <= s.created + TTL - Second =>
                             UserBySession(s.token) = {s.user_id}
    BY DEF SessionLasts
  <2>1. s.created \in Nat /\ now \in Nat /\ s.expires_at = Expiry(s.created)
    BY <1>1, AuthAssumption DEF AuthInv, TablesTyped, SessionRow, SessionRows
  <2>2. \A t \in session : t.token = s.token => t = s
    BY <1>1 DEF AuthInv, SessionRows
  <2>3. UserBySession(s.token) = IF s.expires_at > now THEN {s.user_id} ELSE {}
    BY <2>2 DEF UserBySession
  <2>4. s.expires_at \in Int /\ s.expires_at <= s.created + TTL
        /\ s.created + TTL - Second < s.expires_at
    BY <2>1, WholeSeconds
  <2> QED BY <2>1, <2>3, <2>4, AuthAssumption
<1> QED BY <1>1, AuthInvAlways, PTL

-----------------------------------------------------------------------------
\* The steps of the server, as they appear in the composition.
ServerStep ==
    \/ \E c \in Calls : Serve(c) \/ StatementFails(c)
    \/ Restart
    \/ Tick

LEMMA StepKinds ==
  ASSUME Next
  PROVE  \/ \E c \in Calls : \/ Reload(c)
                           \/ \E form \in Forms \cup {SignOut} : Submit(c, form)
                           \/ TakeForm(c)
                           \/ TakeRefresh(c)
         \/ ServerStep /\ UNCHANGED webVars
         \/ \E b \in Browsers : CookieExpires(b)
BY DEF Next, ServerStep, Serve

CookiesGiven == cookie \in [Browsers -> Tokens \cup {0}]

LEMMA TokensGrow ==
  ASSUME AuthInv, [AuthNext]_authVars
  PROVE  Tokens \subseteq Tokens'
<1>1. opened \in Nat /\ opened' \in {opened, opened + 1}
  BY DEF AuthInv, TablesTyped, AuthNext, BeginAny, Begin, Forget, Serve, RegisterCount,
         RegisterInsert, LoginCompare, CreateSession, Logout, Authenticate, PasswordCompare,
         UpdatePassword, StatementFails, Restart, Tick, authVars
<1> QED BY <1>1 DEF Tokens

\* A browser sends what Auth allows a client to send.
LEMMA BrowserIsClient ==
  ASSUME AuthInv, CookiesGiven, [Next]_vars
  PROVE  [AuthNext]_authVars /\ CookiesGiven'
<1> USE BrowserAssumption
<1>1. ASSUME NEW c \in Calls, Reload(c)
      PROVE  AuthNext /\ UNCHANGED cookie
  <2>1. Me \in Requests /\ cookie[Of[c]] \in Tokens \cup {0}
    BY DEF Requests, CookiesGiven
  <2> QED BY <1>1, <2>1 DEF Reload, AuthNext, BeginAny
<1>2. ASSUME NEW c \in Calls, NEW form \in Forms \cup {SignOut}, Submit(c, form)
      PROVE  AuthNext /\ UNCHANGED cookie
  <2>1. form \in Requests /\ cookie[Of[c]] \in Tokens \cup {0}
    BY DEF Requests, CookiesGiven
  <2> QED BY <1>2, <2>1 DEF Submit, AuthNext, BeginAny
<1>3. ASSUME NEW c \in Calls, TakeForm(c)
      PROVE  AuthNext /\ cookie' \in [Browsers -> Tokens \cup {0}]
  <2>1. Me \in Requests /\ call[c].sid \in Tokens \cup {0}
    BY DEF Requests, AuthInv, CallsGood, Good, CallIn, Tokens
  <2>2. AuthNext
    BY <1>3, <2>1 DEF TakeForm, AuthNext, BeginAny
  <2>3. cookie' \in {cookie, [cookie EXCEPT ![Of[c]] = call[c].sid]}
    BY <1>3 DEF TakeForm
  <2> QED BY <2>1, <2>2, <2>3 DEF CookiesGiven
<1>4. ASSUME NEW c \in Calls, TakeRefresh(c)
      PROVE  AuthNext /\ UNCHANGED cookie
  BY <1>4 DEF TakeRefresh, AuthNext
<1>5. ASSUME ServerStep, UNCHANGED webVars
      PROVE  AuthNext /\ UNCHANGED cookie
  BY <1>5 DEF ServerStep, AuthNext, webVars
<1>6. ASSUME NEW b \in Browsers, CookieExpires(b)
      PROVE  UNCHANGED authVars /\ cookie' \in [Browsers -> Tokens \cup {0}]
  BY <1>6 DEF CookieExpires, CookiesGiven
<1>7. CASE UNCHANGED vars
  BY <1>7 DEF vars, webVars, authVars, CookiesGiven, Tokens
<1>8. [AuthNext]_authVars /\ cookie' \in [Browsers -> Tokens \cup {0}]
  <2>1. UNCHANGED cookie => cookie' \in [Browsers -> Tokens \cup {0}]
    BY DEF CookiesGiven
  <2>2. UNCHANGED vars => UNCHANGED authVars /\ UNCHANGED cookie
    BY DEF vars, webVars
  <2> QED BY <1>1, <1>2, <1>3, <1>4, <1>5, <1>6, <2>1, <2>2, StepKinds
<1>9. cookie' \in [Browsers -> Tokens' \cup {0}]
  BY <1>8, TokensGrow
<1> QED BY <1>8, <1>9 DEF CookiesGiven

LEMMA BrowserInit == WebInit => Init /\ CookiesGiven
BY DEF WebInit, CookiesGiven

\* Browsers and server together do nothing that Auth does not allow: what is
\* proved of Auth for every client holds with these browsers.
THEOREM BrowsersAreClients == Spec => AuthSpec
<1>1. WebInit => AuthInv /\ CookiesGiven
  BY AuthInit, BrowserInit
<1>2. AuthInv /\ CookiesGiven /\ [Next]_vars
        => [AuthNext]_authVars /\ AuthInv' /\ CookiesGiven'
  BY AuthStep, BrowserIsClient
<1> QED BY <1>1, <1>2, BrowserInit, PTL DEF Spec, AuthSpec

-----------------------------------------------------------------------------
(* What a browser shows, against the account that the server acts for. *)

Flows == {"none", "register", "login", "logout", "password", "refresh"}

WebTyped ==
    /\ page \in [Browsers -> {"blank", "public", "inside"}]
    /\ account \in [Browsers -> Names \cup {Null}]
    /\ flow \in [Calls -> Flows]
    /\ crossed \in [Browsers -> BOOLEAN]

\* The cookie sid is that of no session but one of the user with this name.
ActsFor(sid, name, users, sessions) ==
    name # Null => \A s \in sessions :
                     s.token = sid => users[s.user_id].account = name

\* The store is being refreshed with the cookie that the browser has, or the
\* answer is that of the user with this cookie.
Refreshing(c) ==
    /\ call[c].at = "start" => cookie[Of[c]] \in {0, call[c].sid}
    /\ call[c].at = "done" /\ call[c].status = "ok" =>
         ActsFor(cookie[Of[c]], call[c].name, user, session)

\* A browser whose forms were sent one at a time has one request under way that
\* matters; unless it is the refresh, what is shown is what the server acts for.
OneAtATime(b) ==
    /\ \A c, d \in Under(b) : c = d
    /\ \A c \in Under(b) : flow[c] = "refresh" => Refreshing(c)
    /\ (\A c \in Under(b) : flow[c] # "refresh") =>
         ActsFor(cookie[b], account[b], user, session)

Shows(b) ==
    /\ (page[b] = "inside") <=> account[b] # Null
    /\ ~ crossed[b] => OneAtATime(b)

WebInv ==
    /\ WebTyped
    /\ \A c \in Calls : flow[c] = "refresh" => call[c].op = "me"
    /\ \A b \in Browsers : Shows(b)

\* A step of the server keeps what a refresh relies on: accounts keep their
\* names, a session is only added with a token not given before, and the answer
\* to /me is the name of a user of the session it was asked with.
ServerKeeps ==
    /\ \A s \in session' : s \in session \/ s.token = opened + 1
    /\ \A i \in Ids : user'[i].account = user[i].account
    /\ \A c \in Calls :
         /\ call'[c].op = call[c].op
         /\ call'[c].at = "start" => call[c].at = "start" /\ call'[c].sid = call[c].sid
         /\ call[c].op = "me" /\ call'[c].at = "done" /\ call'[c].status = "ok" =>
              \/ /\ call[c].at = "done" /\ call[c].status = "ok"
                 /\ call'[c].name = call[c].name
              \/ /\ call[c].at = "start" /\ session' = session
                 /\ \E i \in UserBySession(call[c].sid) :
                      call'[c].name = user[i].account

\* One call moves on and is not at its start any more.
LEMMA OneServed ==
  ASSUME AuthInv, NEW c \in Calls, NEW r,
         call' = [call EXCEPT ![c] = r], r.op = call[c].op, r.at # "start",
         \A s \in session' : s \in session \/ s.token = opened + 1,
         \A i \in Ids : user'[i].account = user[i].account,
         call[c].op = "me" /\ r.at = "done" /\ r.status = "ok" =>
           /\ call[c].at = "start" /\ session' = session
           /\ \E i \in UserBySession(call[c].sid) : r.name = user[i].account
  PROVE  ServerKeeps
<1>1. \A d \in Calls : call'[d] = IF d = c THEN r ELSE call[d]
  BY DEF AuthInv, CallsGood
<1> QED BY <1>1 DEF ServerKeeps

\* The answer to a call is of its kind.
LEMMA DoneFields ==
  ASSUME NEW op, NEW status, NEW sid, NEW name
  PROVE  LET r == Done(op, status, sid, name)
         IN r.op = op /\ r.at = "done" /\ r.status = status /\ r.name = name
BY DEF Done

LEMMA ServeKeeps ==
  ASSUME AuthInv, NEW c \in Calls, Serve(c) \/ StatementFails(c)
  PROVE  ServerKeeps
<1> DEFINE r == call[c]
<1>0. /\ r \in CallIn(Len(user), opened) /\ Staged(r, Len(user))
  BY DEF AuthInv, CallsGood, Good
<1>1. \A at \in Stages : /\ [r EXCEPT !.at = at].op = r.op
                        /\ [r EXCEPT !.at = at].at = at
  BY <1>0 DEF CallIn
<1>2. \A at \in Stages : \A id : /\ [r EXCEPT !.at = at, !.id = id].op = r.op
                            /\ [r EXCEPT !.at = at, !.id = id].at = at
  BY <1>0 DEF CallIn
<1>3. ASSUME NEW at \in Stages, at # "start", at # "done",
             call' = [call EXCEPT ![c] = [@ EXCEPT !.at = at]],
             user' = user, session' = session
      PROVE  ServerKeeps
  <2>1. call' = [call EXCEPT ![c] = [r EXCEPT !.at = at]]
    BY <1>3
  <2> DEFINE t == [r EXCEPT !.at = at]
  <2>2. t.op = r.op /\ t.at = at
    BY <1>1
  <2> HIDE DEF t
  <2>3. call' = [call EXCEPT ![c] = t]
    BY <2>1 DEF t
  <2> QED BY <1>3, <2>2, <2>3, OneServed
<1>4. ASSUME NEW at \in Stages, at # "start", at # "done", NEW id,
             call' = [call EXCEPT ![c] = [@ EXCEPT !.at = at, !.id = id]],
             \A i \in Ids : user'[i].account = user[i].account, session' = session
      PROVE  ServerKeeps
  <2> DEFINE t == [r EXCEPT !.at = at, !.id = id]
  <2>1. call' = [call EXCEPT ![c] = t]
    BY <1>4
  <2>2. t.op = r.op /\ t.at = at
    BY <1>2
  <2> HIDE DEF t
  <2> QED BY <1>4, <2>1, <2>2, OneServed
<1>5. ASSUME NEW status, NEW sid, NEW name, Answer(c, status, sid, name),
             status # "ok" \/ r.op # "me",
             \A s \in session' : s \in session \/ s.token = opened + 1,
             \A i \in Ids : user'[i].account = user[i].account
      PROVE  ServerKeeps
  <2> DEFINE t == Done(r.op, status, sid, name)
  <2>1. t.op = r.op /\ t.at = "done" /\ t.status = status
    BY DoneFields
  <2>2. call' = [call EXCEPT ![c] = t]
    BY <1>5 DEF Answer
  <2> HIDE DEF t
  <2> QED BY <1>5, <2>1, <2>2, OneServed
<1>6. CASE RegisterCount(c)
  BY <1>3, <1>5, <1>6 DEF RegisterCount, Stages
<1>7. CASE RegisterInsert(c)
  <2>1. user \in Seq(UserRow)
    BY DEF AuthInv, TablesTyped
  <2>2. \A row : \A i \in Ids : Append(user, row)[i] = user[i]
    BY <2>1 DEF Ids
  <2>3. CASE Answer(c, "ACCOUNT_EXISTS", 0, Null) /\ user' = user
    BY <1>5, <1>7, <2>3 DEF RegisterInsert
  <2>4. CASE /\ user' = Append(user, [account |-> r.name, password_hash |-> r.password])
             /\ call' = [call EXCEPT ![c] = [@ EXCEPT !.at = "session", !.id = Len(user) + 1]]
    <3>1. \A i \in Ids : user'[i].account = user[i].account
      BY <2>2, <2>4
    <3>2. session' = session
      BY <1>7 DEF RegisterInsert
    <3> QED BY <1>4, <2>4, <3>1, <3>2 DEF Stages
  <2> QED BY <1>7, <2>3, <2>4 DEF RegisterInsert
<1>8. CASE LoginCompare(c)
  BY <1>4, <1>5, <1>8 DEF LoginCompare, Stages
<1>9. CASE CreateSession(c)
  <2>1. r.op # "me"
    BY <1>0, <1>9 DEF CreateSession, Staged
  <2>2. \A s \in session' : s \in session \/ s.token = opened + 1
    BY <1>9 DEF CreateSession
  <2> QED BY <1>5, <1>9, <2>1, <2>2 DEF CreateSession
<1>10. CASE Logout(c)
  <2>1. \A s \in session' : s \in session
    BY <1>10 DEF Logout
  <2> QED BY <1>5, <1>10, <2>1 DEF Logout
<1>11. CASE Authenticate(c)
  <2>1. CASE Answer(c, "UNAUTHORIZED", 0, Null)
    BY <1>5, <1>11, <2>1 DEF Authenticate
  <2>2. ASSUME NEW i \in UserBySession(r.sid), r.op = "me",
               Answer(c, "ok", 0, user[i].account)
        PROVE  ServerKeeps
    <3> DEFINE t == Done(r.op, "ok", 0, user[i].account)
    <3>1. t.op = r.op /\ t.at = "done" /\ t.name = user[i].account
      BY DoneFields
    <3>2. call' = [call EXCEPT ![c] = t]
      BY <2>2 DEF Answer
    <3> HIDE DEF t
    <3>3. r.at = "start" /\ session' = session /\ user' = user
      BY <1>11 DEF Authenticate
    <3> QED BY <2>2, <3>1, <3>2, <3>3, OneServed
  <2>3. ASSUME NEW i \in UserBySession(r.sid),
               call' = [call EXCEPT ![c] = [@ EXCEPT !.at = "authenticated", !.id = i]]
        PROVE  ServerKeeps
    BY <1>4, <1>11, <2>3 DEF Authenticate, Stages
  <2> QED BY <1>11, <2>1, <2>2, <2>3 DEF Authenticate
<1>12. CASE PasswordCompare(c)
  BY <1>3, <1>5, <1>12 DEF PasswordCompare, Stages
<1>13. CASE UpdatePassword(c)
  <2>1. r.op = "password" /\ r.id \in Ids
    BY <1>0, <1>13 DEF UpdatePassword, Staged, Ids
  <2>2. CASE Answer(c, "INTERNAL", 0, Null) /\ user' = user
    BY <1>5, <1>13, <2>2 DEF UpdatePassword
  <2>3. CASE /\ user' = [user EXCEPT ![r.id] = [@ EXCEPT !.password_hash = r.next]]
             /\ call' = [d \in Calls |->
                   IF d = c THEN Done("password", "ok", 0, Null)
                   ELSE IF call[d].at = "done" THEN call[d]
                   ELSE [call[d] EXCEPT !.former =
                           @ \cup {<<r.id, user[r.id].password_hash>>}]]
    <3>1. \A i \in Ids : user'[i].account = user[i].account
      BY <2>1, <2>3, RowsTyped DEF UserRow, Ids
    <3>2. ASSUME NEW d \in Calls, d # c
          PROVE  /\ call'[d].op = call[d].op /\ call'[d].at = call[d].at
                 /\ call'[d].sid = call[d].sid /\ call'[d].status = call[d].status
                 /\ call'[d].name = call[d].name
      <4>1. call[d] \in CallIn(Len(user), opened)
        BY DEF AuthInv, CallsGood, Good
      <4> QED BY <2>3, <3>2, <4>1 DEF CallIn
    <3>3. call'[c].op = "password" /\ call'[c].at = "done"
      BY <2>3, DoneFields
    <3>4. session' = session
      BY <1>13 DEF UpdatePassword
    <3>5. ASSUME NEW d \in Calls
          PROVE  /\ call'[d].op = call[d].op
                 /\ call'[d].at = "start" => call[d].at = "start" /\ call'[d].sid = call[d].sid
                 /\ call[d].op = "me" /\ call'[d].at = "done" /\ call'[d].status = "ok" =>
                      /\ call[d].at = "done" /\ call[d].status = "ok"
                      /\ call'[d].name = call[d].name
      BY <2>1, <3>2, <3>3
    <3> QED BY <3>1, <3>4, <3>5 DEF ServerKeeps
  <2> QED BY <1>13, <2>2, <2>3 DEF UpdatePassword
<1>14. CASE StatementFails(c)
  BY <1>5, <1>14 DEF StatementFails
<1> QED BY <1>6, <1>7, <1>8, <1>9, <1>10, <1>11, <1>12, <1>13, <1>14 DEF Serve

LEMMA RestartKeeps ==
  ASSUME AuthInv, Restart \/ Tick
  PROVE  ServerKeeps
<1>1. CASE Tick
  BY <1>1 DEF Tick, ServerKeeps
<1>2. CASE Restart
  <2>1. ASSUME NEW c \in Calls
        PROVE  \/ call'[c] = call[c]
               \/ /\ call'[c].op = call[c].op /\ call'[c].at = "done"
                  /\ call'[c].status = "lost"
    BY <1>2, DoneFields DEF Restart
  <2>2. session' = session /\ user' = user
    BY <1>2 DEF Restart
  <2> QED BY <2>1, <2>2 DEF ServerKeeps
<1> QED BY <1>1, <1>2

\* Who a cookie acts for stays: no session gets a token given before.
LEMMA ActsForKept ==
  ASSUME AuthInv, ServerKeeps, NEW sid \in Tokens \cup {0}, NEW name,
         ActsFor(sid, name, user, session)
  PROVE  ActsFor(sid, name, user', session')
<1> SUFFICES ASSUME name # Null, NEW s \in session', s.token = sid
             PROVE  user'[s.user_id].account = name
  BY DEF ActsFor
<1>1. opened \in Nat /\ session \subseteq SessionRow
  BY DEF AuthInv, TablesTyped
<1>2. s \in session
  BY <1>1 DEF ServerKeeps, Tokens
<1>3. s.user_id \in Ids
  BY <1>1, <1>2 DEF SessionRow
<1> QED BY <1>2, <1>3 DEF ActsFor, ServerKeeps

\* The answer to /me names the user of the session it was asked with.
LEMMA MeActsFor ==
  ASSUME AuthInv, NEW sid \in Tokens, NEW i \in UserBySession(sid),
         NEW ck \in {0, sid}
  PROVE  ActsFor(ck, user[i].account, user, session)
<1> SUFFICES ASSUME NEW s \in session, s.token = ck
             PROVE  user[s.user_id].account = user[i].account
  BY DEF ActsFor
<1>1. session \subseteq SessionRow /\ opened \in Nat
  BY DEF AuthInv, TablesTyped
<1>2. s.token = sid
  BY <1>1 DEF SessionRow, Tokens
<1>3. PICK row \in session : row.token = sid /\ row.user_id = i
  BY DEF UserBySession
<1>4. s = row
  BY <1>2, <1>3 DEF AuthInv, SessionRows
<1> QED BY <1>3, <1>4

\* No cookie, no session.
LEMMA NoCookieActsFor ==
  ASSUME AuthInv, NEW name
  PROVE  /\ ActsFor(0, name, user, session)
         /\ UserBySession(0) = {}
<1>1. session \subseteq SessionRow /\ opened \in Nat
  BY DEF AuthInv, TablesTyped
<1>2. \A s \in session : s.token # 0
  BY <1>1 DEF SessionRow, Tokens
<1> QED BY <1>2 DEF ActsFor, UserBySession

\* A step of the server.
LEMMA ServerShows ==
  ASSUME AuthInv, CookiesGiven, WebInv, ServerKeeps, UNCHANGED webVars
  PROVE  WebInv'
<1> USE BrowserAssumption
<1>1. WebTyped'
  BY DEF WebInv, WebTyped, webVars
<1>2. \A c \in Calls : flow'[c] = "refresh" => call'[c].op = "me"
  BY DEF WebInv, ServerKeeps, webVars
<1>3. ASSUME NEW b \in Browsers PROVE Shows(b)'
  <2>1. Under(b)' = Under(b)
    BY DEF Under, webVars
  <2>2. /\ page' = page /\ account' = account /\ flow' = flow
        /\ crossed' = crossed /\ cookie' = cookie
    BY DEF webVars
  <2>3. cookie[b] \in Tokens \cup {0}
    BY DEF CookiesGiven
  <2>4. ASSUME ~ crossed[b] PROVE OneAtATime(b)'
    <3>0. OneAtATime(b)
      BY <2>4 DEF WebInv, Shows
    <3>1. ASSUME NEW c \in Under(b), flow[c] = "refresh" PROVE Refreshing(c)'
      <4>0. /\ Refreshing(c) /\ Of[c] = b /\ c \in Calls /\ call[c].op = "me"
        BY <3>0, <3>1 DEF OneAtATime, Under, WebInv
      <4>1. call'[c].at = "start" => cookie'[Of[c]] \in {0, call'[c].sid}
        BY <2>2, <4>0 DEF Refreshing, ServerKeeps
      <4>2. ASSUME call'[c].at = "done", call'[c].status = "ok"
            PROVE  ActsFor(cookie'[Of[c]], call'[c].name, user', session')
        <5>1. CASE /\ call[c].at = "done" /\ call[c].status = "ok"
                   /\ call'[c].name = call[c].name
          BY <2>2, <2>3, <4>0, <5>1, ActsForKept DEF Refreshing
        <5>2. ASSUME call[c].at = "start",
                     NEW i \in UserBySession(call[c].sid),
                     call'[c].name = user[i].account
              PROVE  ActsFor(cookie'[Of[c]], call'[c].name, user', session')
          <6>1. call[c].sid \in Tokens \cup {0}
            BY <4>0 DEF AuthInv, CallsGood, Good, CallIn, Tokens
          <6>2. call[c].sid \in Tokens
            BY <5>2, <6>1, NoCookieActsFor
          <6>3. cookie[b] \in {0, call[c].sid}
            BY <4>0, <5>2 DEF Refreshing
          <6>4. ActsFor(cookie[b], user[i].account, user, session)
            BY <5>2, <6>2, <6>3, MeActsFor
          <6> QED BY <2>2, <2>3, <4>0, <5>2, <6>4, ActsForKept
        <5> QED BY <4>0, <4>2, <5>1, <5>2 DEF ServerKeeps
      <4> QED BY <4>1, <4>2 DEF Refreshing
    <3>2. (\A c \in Under(b) : flow[c] # "refresh") =>
             ActsFor(cookie'[b], account'[b], user', session')
      BY <2>2, <2>3, <3>0, ActsForKept DEF OneAtATime
    <3> QED BY <2>1, <2>2, <3>0, <3>1, <3>2 DEF OneAtATime
  <2>5. (page[b] = "inside") <=> account[b] # Null
    BY DEF WebInv, Shows
  <2> QED BY <2>2, <2>4, <2>5 DEF Shows
<1> QED BY <1>1, <1>2, <1>3 DEF WebInv

\* What a step of the browser b with the call c leaves to other browsers.
BrowserStep(b, c) ==
    /\ user' = user /\ session' = session
    /\ \A d \in Calls : d # c => flow'[d] = flow[d] /\ call'[d] = call[d]
    /\ \A a \in Browsers : a # b =>
         /\ cookie'[a] = cookie[a] /\ account'[a] = account[a]
         /\ page'[a] = page[a] /\ crossed'[a] = crossed[a]

LEMMA OthersShow ==
  ASSUME WebInv, NEW c \in Calls, BrowserStep(Of[c], c),
         NEW a \in Browsers, a # Of[c]
  PROVE  Shows(a)'
<1>1. /\ \A d \in Calls : Of[d] = a => flow'[d] = flow[d] /\ call'[d] = call[d]
      /\ cookie'[a] = cookie[a] /\ account'[a] = account[a]
      /\ page'[a] = page[a] /\ crossed'[a] = crossed[a]
      /\ user' = user /\ session' = session
  BY DEF BrowserStep
<1>2. Under(a)' = Under(a) /\ \A d \in Under(a) : d \in Calls /\ Of[d] = a
  BY <1>1 DEF Under
<1>3. Shows(a)
  BY DEF WebInv
<1>4. ASSUME OneAtATime(a) PROVE OneAtATime(a)'
  <2>1. \A d \in Under(a) : flow[d] = "refresh" => Refreshing(d)'
    BY <1>1, <1>2, <1>4 DEF OneAtATime, Refreshing
  <2> QED BY <1>1, <1>2, <1>4, <2>1 DEF OneAtATime
<1> QED BY <1>1, <1>3, <1>4 DEF Shows

\* A call that a client sends.
LEMMA BeginFields ==
  ASSUME AuthInv, NEW c \in Calls, NEW asked, NEW sid, Begin(c, asked, sid)
  PROVE  /\ call'[c].op = asked.op /\ call'[c].at = "start" /\ call'[c].sid = sid
         /\ \A d \in Calls : d # c => call'[d] = call[d]
         /\ user' = user /\ session' = session
<1>1. call' = [call EXCEPT ![c] = Started(asked, sid)]
      /\ user' = user /\ session' = session
  BY DEF Begin
<1>2. call'[c] = Started(asked, sid) /\ \A d \in Calls : d # c => call'[d] = call[d]
  BY <1>1 DEF AuthInv, CallsGood
<1>3. LET r == Started(asked, sid) IN r.op = asked.op /\ r.at = "start" /\ r.sid = sid
  BY DEF Started
<1> QED BY <1>1, <1>2, <1>3

LEMMA ForgetFields ==
  ASSUME AuthInv, NEW c \in Calls, Forget(c)
  PROVE  /\ \A d \in Calls : d # c => call'[d] = call[d]
         /\ call'[c].op = "me" /\ call'[c].at = "done"
         /\ user' = user /\ session' = session
<1>1. call' = [call EXCEPT ![c] = NoCall] /\ user' = user /\ session' = session
  BY DEF Forget
<1>2. NoCall.op = "me" /\ NoCall.at = "done"
  BY DEF NoCall, Done
<1> QED BY <1>1, <1>2 DEF AuthInv, CallsGood

\* A refresh that is under way stays one as long as its call and the cookie do.
LEMMA RefreshKept ==
  ASSUME NEW d \in Calls, Refreshing(d), call'[d] = call[d],
         cookie'[Of[d]] = cookie[Of[d]], user' = user, session' = session
  PROVE  Refreshing(d)'
BY DEF Refreshing

\* A step of one call of a browser: enough that it keeps the types, that a
\* refresh asks /me, and what the browser itself shows.
LEMMA OneBrowserSteps ==
  ASSUME WebInv, NEW c \in Calls, BrowserStep(Of[c], c), WebTyped',
         flow'[c] = "refresh" => call'[c].op = "me", Shows(Of[c])'
  PROVE  WebInv'
<1>1. ASSUME NEW d \in Calls, flow'[d] = "refresh" PROVE call'[d].op = "me"
  BY <1>1 DEF WebInv, BrowserStep
<1>2. ASSUME NEW a \in Browsers PROVE Shows(a)'
  BY OthersShow
<1> QED BY <1>1, <1>2 DEF WebInv

LEMMA ReloadShows ==
  ASSUME AuthInv, WebInv, NEW c \in Calls, Reload(c)
  PROVE  WebInv'
<1> DEFINE b == Of[c]
<1>0. b \in Browsers /\ WebTyped
  BY BrowserAssumption DEF WebInv
<1>1. /\ call'[c].op = "me" /\ call'[c].at = "start" /\ call'[c].sid = cookie[b]
      /\ \A d \in Calls : d # c => call'[d] = call[d]
      /\ user' = user /\ session' = session
  BY BeginFields DEF Reload, Me
<1>2. /\ \A d \in Calls : Of[d] = b => flow[d] = "none"
      /\ page' = [page EXCEPT ![b] = "blank"]
      /\ account' = [account EXCEPT ![b] = Null]
      /\ flow' = [flow EXCEPT ![c] = "refresh"]
      /\ crossed' = [crossed EXCEPT ![b] = FALSE]
      /\ cookie' = cookie
  BY DEF Reload
<1>3. WebTyped'
  BY <1>0, <1>2 DEF WebTyped, Flows
<1>4. BrowserStep(b, c)
  BY <1>0, <1>1, <1>2 DEF BrowserStep, WebTyped
<1>5. /\ page'[b] = "blank" /\ account'[b] = Null /\ flow'[c] = "refresh"
      /\ \A d \in Calls : d # c => flow'[d] = flow[d]
  BY <1>0, <1>2 DEF WebTyped
<1>6. \A d \in Under(b)' : d = c
  BY <1>2, <1>5 DEF Under
<1>7. Refreshing(c)'
  BY <1>1, <1>2 DEF Refreshing
<1>8. OneAtATime(b)'
  <2>1. ActsFor(cookie'[b], account'[b], user', session')
    BY <1>5 DEF ActsFor
  <2> QED BY <1>6, <1>7, <2>1 DEF OneAtATime
<1>9. Shows(b)'
  BY <1>5, <1>8 DEF Shows
<1> HIDE DEF b
<1> QED BY <1>1, <1>3, <1>4, <1>9, OneBrowserSteps DEF b

LEMMA SubmitShows ==
  ASSUME AuthInv, WebInv, NEW c \in Calls,
         NEW form \in Forms \cup {SignOut}, Submit(c, form)
  PROVE  WebInv'
<1> DEFINE b == Of[c]
<1>0. b \in Browsers /\ WebTyped
  BY BrowserAssumption DEF WebInv
<1>1. form.op \in {"register", "login", "logout", "password"}
  BY BrowserAssumption DEF SignIns, Changes, Asked, SignOut
<1>2. /\ \A d \in Calls : d # c => call'[d] = call[d]
      /\ user' = user /\ session' = session
  BY BeginFields DEF Submit
<1>3. /\ flow[c] = "none"
      /\ flow' = [flow EXCEPT ![c] = form.op]
      /\ crossed' = [crossed EXCEPT
                       ![b] = @ \/ (form.op # "password" /\ Under(b) # {})]
      /\ cookie' = cookie /\ account' = account /\ page' = page
  BY DEF Submit
<1>4. /\ crossed'[b] = (crossed[b] \/ (form.op # "password" /\ Under(b) # {}))
      /\ \A a \in Browsers : a # b => crossed'[a] = crossed[a]
      /\ crossed' \in [Browsers -> BOOLEAN]
  BY <1>0, <1>3 DEF WebTyped
<1>5. flow'[c] = form.op /\ \A d \in Calls : d # c => flow'[d] = flow[d]
  BY <1>0, <1>3 DEF WebTyped
<1>6. WebTyped'
  BY <1>0, <1>1, <1>3, <1>4 DEF WebTyped, Flows
<1>7. BrowserStep(b, c)
  BY <1>2, <1>3, <1>4, <1>5 DEF BrowserStep
<1>8. ASSUME ~ crossed'[b] PROVE OneAtATime(b)'
  <2>1. OneAtATime(b)
    BY <1>0, <1>4, <1>8 DEF WebInv, Shows
  <2>2. CASE form.op = "password"
    <3>1. Under(b)' = Under(b) /\ c \notin Under(b)
      BY <1>3, <1>5, <2>2 DEF Under
    <3>2. \A d \in Under(b) : flow'[d] = flow[d] /\ call'[d] = call[d] /\ d \in Calls
                              /\ Of[d] = b
      BY <1>2, <1>5, <3>1 DEF Under
    <3>3. \A d \in Under(b) : flow[d] = "refresh" => Refreshing(d)'
      BY <1>2, <1>3, <2>1, <3>2, RefreshKept DEF OneAtATime
    <3> QED BY <1>2, <1>3, <2>1, <3>1, <3>2, <3>3 DEF OneAtATime
  <2>3. CASE Under(b) = {}
    <3>1. \A d \in Under(b)' : d = c /\ flow'[d] # "refresh"
      BY <1>1, <1>5, <2>3 DEF Under
    <3>2. ActsFor(cookie[b], account[b], user, session)
      BY <2>1, <2>3 DEF OneAtATime
    <3> QED BY <1>2, <1>3, <3>1, <3>2 DEF OneAtATime
  <2> QED BY <1>4, <1>8, <2>2, <2>3
<1>9. Shows(b)'
  BY <1>0, <1>3, <1>8 DEF Shows, WebInv
<1> HIDE DEF b
<1> QED BY <1>1, <1>5, <1>6, <1>7, <1>9, OneBrowserSteps DEF b

\* The answer to a form: an account acts for nobody before its name is known.
LEMMA TakeFormShows ==
  ASSUME AuthInv, CookiesGiven, WebInv, NEW c \in Calls, TakeForm(c)
  PROVE  WebInv'
<1> DEFINE b == Of[c]
<1>1. b \in Browsers /\ WebTyped
  BY BrowserAssumption DEF WebInv
<1>2. /\ flow[c] \in {"register", "login", "logout", "password"}
      /\ account' = account /\ page' = page /\ crossed' = crossed
  BY DEF TakeForm
<1>3. Shows(b)
  BY <1>1 DEF WebInv
<1>4. CASE /\ flow[c] # "password"
           /\ cookie' = [cookie EXCEPT ![b] = call[c].sid]
           /\ Begin(c, Me, call[c].sid)
           /\ flow' = [flow EXCEPT ![c] = "refresh"]
  <2>1. /\ call'[c].op = "me" /\ call'[c].at = "start" /\ call'[c].sid = call[c].sid
        /\ \A d \in Calls : d # c => call'[d] = call[d]
        /\ user' = user /\ session' = session
    BY <1>4, BeginFields DEF Me
  <2>2. /\ flow'[c] = "refresh" /\ \A d \in Calls : d # c => flow'[d] = flow[d]
        /\ WebTyped'
    BY <1>1, <1>2, <1>4 DEF WebTyped, Flows
  <2>3. /\ cookie'[b] = call[c].sid
        /\ \A a \in Browsers : a # b => cookie'[a] = cookie[a]
    BY <1>1, <1>4 DEF CookiesGiven
  <2>4. BrowserStep(b, c)
    BY <1>2, <2>1, <2>2, <2>3 DEF BrowserStep
  <2>5. ASSUME ~ crossed[b] PROVE OneAtATime(b)'
    <3>1. OneAtATime(b)
      BY <1>3, <2>5 DEF Shows
    <3>2. c \in Under(b) /\ c \in Under(b)' /\ Under(b)' \subseteq Under(b)
      BY <1>2, <1>4, <2>2 DEF Under
    <3>3. Refreshing(c)'
      BY <2>1, <2>3 DEF Refreshing
    <3> QED BY <2>2, <3>1, <3>2, <3>3 DEF OneAtATime
  <2>6. Shows(b)'
    BY <1>2, <1>3, <2>5 DEF Shows
  <2> HIDE DEF b
  <2> QED BY <2>1, <2>2, <2>4, <2>6, OneBrowserSteps DEF b
<1>5. CASE /\ flow' = [flow EXCEPT ![c] = "none"]
           /\ Forget(c)
           /\ cookie' = cookie
  <2>1. /\ \A d \in Calls : d # c => call'[d] = call[d]
        /\ call'[c].op = "me" /\ call'[c].at = "done"
        /\ user' = user /\ session' = session
    BY <1>5, ForgetFields
  <2>2. /\ flow'[c] = "none" /\ \A d \in Calls : d # c => flow'[d] = flow[d]
        /\ WebTyped'
    BY <1>1, <1>2, <1>5 DEF WebTyped, Flows
  <2>3. BrowserStep(b, c)
    BY <1>2, <1>5, <2>1, <2>2 DEF BrowserStep
  <2>4. ASSUME ~ crossed[b] PROVE OneAtATime(b)'
    <3>1. OneAtATime(b)
      BY <1>3, <2>4 DEF Shows
    <3>2. /\ Under(b)' = Under(b) \ {c}
          /\ \A d \in Under(b)' : d \in Calls /\ d # c /\ flow'[d] = flow[d]
                                  /\ call'[d] = call[d] /\ Of[d] = b
      BY <2>1, <2>2 DEF Under
    <3>3. \A d \in Under(b)' : flow'[d] = "refresh" => Refreshing(d)'
      BY <1>5, <2>1, <3>1, <3>2, RefreshKept DEF OneAtATime
    <3>4. (\A d \in Under(b)' : flow'[d] # "refresh") =>
            \A d \in Under(b) : flow[d] # "refresh"
      BY <1>2, <3>2
    <3>5. (\A d \in Under(b)' : flow'[d] # "refresh") =>
            ActsFor(cookie'[b], account'[b], user', session')
      BY <1>2, <1>5, <2>1, <3>1, <3>4 DEF OneAtATime
    <3> QED BY <3>1, <3>2, <3>3, <3>5 DEF OneAtATime
  <2>5. Shows(b)'
    BY <1>2, <1>3, <2>4 DEF Shows
  <2> HIDE DEF b
  <2> QED BY <2>1, <2>2, <2>3, <2>5, OneBrowserSteps DEF b
<1> QED BY <1>4, <1>5 DEF TakeForm

\* The answer to the refresh of the store.
LEMMA TakeRefreshShows ==
  ASSUME AuthInv, WebInv, NEW c \in Calls, TakeRefresh(c)
  PROVE  WebInv'
<1> DEFINE b == Of[c]
<1>1. b \in Browsers /\ WebTyped
  BY BrowserAssumption DEF WebInv
<1>2. PICK status \in Statuses :
        /\ flow[c] = "refresh" /\ call[c].at = "done"
        /\ status \in {call[c].status, "lost"}
        /\ account' = [account EXCEPT ![b] = IF status = "ok" THEN call[c].name ELSE Null]
        /\ page' = [page EXCEPT
                      ![b] = Guard(IF status = "ok" THEN call[c].name ELSE Null)]
        /\ flow' = [flow EXCEPT ![c] = "none"]
        /\ Forget(c)
        /\ cookie' = cookie /\ crossed' = crossed
  BY DEF TakeRefresh, Arrives
<1> DEFINE name == IF status = "ok" THEN call[c].name ELSE Null
<1>3. name \in Names \cup {Null}
  BY DEF AuthInv, CallsGood, Good, CallIn
<1>4. /\ \A d \in Calls : d # c => call'[d] = call[d]
      /\ call'[c].op = "me" /\ call'[c].at = "done"
      /\ user' = user /\ session' = session
  BY <1>2, ForgetFields
<1>5. /\ Guard(name) \in {"public", "inside"}
      /\ Guard(name) = "inside" <=> name # Null
  BY DEF Guard
<1> HIDE DEF name
<1>6. /\ account' = [account EXCEPT ![b] = name]
      /\ page' = [page EXCEPT ![b] = Guard(name)]
  BY <1>2 DEF name
<1>7. /\ account'[b] = name /\ page'[b] = Guard(name)
      /\ \A a \in Browsers : a # b => account'[a] = account[a] /\ page'[a] = page[a]
      /\ flow'[c] = "none" /\ \A d \in Calls : d # c => flow'[d] = flow[d]
      /\ WebTyped'
  BY <1>1, <1>2, <1>3, <1>5, <1>6 DEF WebTyped, Flows
<1>8. BrowserStep(b, c)
  BY <1>2, <1>4, <1>7 DEF BrowserStep
<1>9. ASSUME ~ crossed[b] PROVE OneAtATime(b)'
  <2>1. OneAtATime(b)
    BY <1>1, <1>9 DEF WebInv, Shows
  <2>2. c \in Under(b)
    BY <1>2 DEF Under
  <2>3. Under(b)' = {}
    BY <1>7, <2>1, <2>2 DEF OneAtATime, Under
  <2>4. ActsFor(cookie[b], name, user, session)
    <3>1. CASE status = "ok"
      BY <1>2, <2>1, <2>2, <3>1 DEF OneAtATime, Refreshing, name
    <3>2. CASE status # "ok"
      BY <3>2 DEF ActsFor, name
    <3> QED BY <3>1, <3>2
  <2> QED BY <1>2, <1>4, <1>7, <2>3, <2>4 DEF OneAtATime
<1>10. Shows(b)'
  BY <1>2, <1>5, <1>7, <1>9 DEF Shows
<1> HIDE DEF b
<1> QED BY <1>4, <1>7, <1>8, <1>10, OneBrowserSteps DEF b

\* Without a cookie a browser acts for nobody.
LEMMA CookieExpiresShows ==
  ASSUME AuthInv, CookiesGiven, WebInv, NEW b \in Browsers, CookieExpires(b)
  PROVE  WebInv'
<1>1. /\ cookie' = [cookie EXCEPT ![b] = 0]
      /\ user' = user /\ session' = session /\ call' = call
      /\ account' = account /\ page' = page /\ flow' = flow /\ crossed' = crossed
  BY DEF CookieExpires, authVars
<1>2. cookie'[b] = 0 /\ \A a \in Browsers : a # b => cookie'[a] = cookie[a]
  BY <1>1 DEF CookiesGiven
<1>3. WebTyped' /\ \A c \in Calls : flow'[c] = "refresh" => call'[c].op = "me"
  BY <1>1 DEF WebInv, WebTyped
<1>4. ASSUME NEW a \in Browsers PROVE Shows(a)'
  <2>1. Under(a)' = Under(a) /\ \A d \in Under(a) : d \in Calls /\ Of[d] = a
    BY <1>1 DEF Under
  <2>2. Shows(a)
    BY DEF WebInv
  <2>3. ASSUME OneAtATime(a) PROVE OneAtATime(a)'
    <3>1. ASSUME NEW d \in Under(a), flow[d] = "refresh" PROVE Refreshing(d)'
      <4>1. CASE a = b
        BY <1>1, <1>2, <2>1, <4>1, NoCookieActsFor DEF Refreshing
      <4>2. CASE a # b
        BY <1>1, <1>2, <2>1, <2>3, <3>1, <4>2, RefreshKept DEF OneAtATime
      <4> QED BY <4>1, <4>2
    <3>2. ActsFor(cookie[a], account[a], user, session)
            => ActsFor(cookie'[a], account'[a], user', session')
      BY <1>1, <1>2, NoCookieActsFor
    <3> QED BY <1>1, <2>1, <2>3, <3>1, <3>2 DEF OneAtATime
  <2> QED BY <1>1, <2>2, <2>3 DEF Shows
<1> QED BY <1>3, <1>4 DEF WebInv

LEMMA WebInitShows == WebInit => WebInv
<1> SUFFICES ASSUME WebInit PROVE WebInv
  OBVIOUS
<1>1. /\ page = [b \in Browsers |-> "public"] /\ account = [b \in Browsers |-> Null]
      /\ flow = [c \in Calls |-> "none"] /\ crossed = [b \in Browsers |-> FALSE]
  BY DEF WebInit
<1>2. WebTyped
  BY <1>1 DEF WebTyped, Flows
<1>3. ASSUME NEW b \in Browsers PROVE Shows(b)
  <2>1. Under(b) = {}
    BY <1>1 DEF Under
  <2>2. ActsFor(cookie[b], account[b], user, session)
    BY <1>1 DEF ActsFor
  <2> QED BY <1>1, <2>1, <2>2 DEF Shows, OneAtATime
<1> QED BY <1>1, <1>2, <1>3 DEF WebInv

LEMMA WebStep ==
  ASSUME AuthInv, CookiesGiven, WebInv, [Next]_vars
  PROVE  WebInv'
<1>1. CASE \E c \in Calls : Reload(c)
  BY <1>1, ReloadShows
<1>2. CASE \E c \in Calls, form \in Forms \cup {SignOut} : Submit(c, form)
  BY <1>2, SubmitShows
<1>3. CASE \E c \in Calls : TakeForm(c)
  BY <1>3, TakeFormShows
<1>4. CASE \E c \in Calls : TakeRefresh(c)
  BY <1>4, TakeRefreshShows
<1>5. CASE \E b \in Browsers : CookieExpires(b)
  BY <1>5, CookieExpiresShows
<1>6. CASE (\E c \in Calls : Serve(c) \/ StatementFails(c)) /\ UNCHANGED webVars
  BY <1>6, ServeKeeps, ServerShows
<1>7. CASE (Restart \/ Tick) /\ UNCHANGED webVars
  BY <1>7, RestartKeeps, ServerShows
<1>8. CASE UNCHANGED vars
  <2>1. authVars' = authVars /\ webVars' = webVars
    BY <1>8 DEF vars
  <2>2. ServerKeeps
    BY <2>1 DEF ServerKeeps, authVars
  <2> QED BY <2>1, <2>2, ServerShows
<1> QED BY <1>1, <1>2, <1>3, <1>4, <1>5, <1>6, <1>7, <1>8 DEF Next, Serve

\* ShownIsActing: with no form under way, what the browser shows is what its
\* requests act for.
LEMMA ShowsIsActing == WebInv => ShownIsActing
<1> SUFFICES ASSUME WebInv, NEW b \in Browsers, Under(b) = {}, ~ crossed[b]
             PROVE  /\ (page[b] = "inside") <=> account[b] # Null
                    /\ \A s \in session : s.token = cookie[b] /\ account[b] # Null =>
                           user[s.user_id].account = account[b]
  BY DEF ShownIsActing
<1>1. Shows(b)
  BY DEF WebInv
<1>2. ActsFor(cookie[b], account[b], user, session)
  BY <1>1 DEF Shows, OneAtATime
<1> QED BY <1>1, <1>2 DEF Shows, ActsFor

\* ShownIsActing in every behaviour: a tab whose forms were sent one at a time
\* shows, once they are answered, the account that the server acts for, in
\* spite of other tabs, lost answers, sessions that end and restarts.
THEOREM ShownIsActingAlways == Spec => []ShownIsActing
<1>1. WebInit => AuthInv /\ CookiesGiven /\ WebInv
  BY AuthInit, BrowserInit, WebInitShows
<1>2. AuthInv /\ CookiesGiven /\ WebInv /\ [Next]_vars
        => AuthInv' /\ CookiesGiven' /\ WebInv'
  BY AuthStep, BrowserIsClient, WebStep
<1> QED BY <1>1, <1>2, ShowsIsActing, PTL DEF Spec

\* The tables and the calls keep their types: a session belongs to a user, and
\* no password is stored that is too short or that bcrypt refuses.
THEOREM AuthTypesAlways == AuthSpec => []AuthTypeOK
BY AuthCorrect, PTL

\* No two users have one name in letters of another case.
THEOREM NamesDistinctAlways == AuthSpec => []NamesDistinct
BY AuthCorrect, PTL
=============================================================================
