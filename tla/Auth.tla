-------------------------------- MODULE Auth --------------------------------
(***************************************************************************)
(* Users and sessions: the tables user and session, and the handlers that  *)
(* register, sign in, sign out, tell who is signed in, and change the      *)
(* password.  A handler runs one SQL statement at a time; the steps of     *)
(* several calls interleave between the statements.  A password is its own *)
(* hash, and a token is the number of the session.                         *)
(***************************************************************************)
EXTENDS Integers, Sequences, FiniteSets

CONSTANTS
    Calls,      \* requests that may be under way at once
    Names,      \* accounts as they are typed
    Fold,       \* Fold[n]: n without regard to the case of its letters
    Passwords,
    Short,      \* passwords of less than 6 bytes
    Long,       \* passwords that bcrypt refuses, of more than 72 bytes
    Null,       \* no name, no password
    Second,     \* clock ticks in a second
    TTL,        \* clock ticks that a session lasts: SessionHours
    MaxNow,     \* bound: time
    MaxSessions \* bound: sessions opened

ASSUME AuthAssumption ==
    /\ Short \subseteq Passwords
    /\ Long \subseteq Passwords
    /\ Null \notin Names \cup Passwords
    /\ Second \in Nat \ {0}
    /\ TTL \in Nat \ {0}
    /\ MaxNow \in Nat
    /\ MaxSessions \in Nat

VARIABLES
    user,         \* table user: the row with id i is user[i]
    session,      \* table session: a set of rows
    opened,       \* number of sessions opened
    now,          \* s.Now()
    RegisterOpen, \* Cfg.RegisterOpen, read when the server starts
    call          \* the calls under way, and the last answers

authVars == <<user, session, opened, now, RegisterOpen, call>>

Ops == {"register", "login", "logout", "me", "password"}
Stages == {"start", "counted", "compared", "session", "authenticated", "done"}
Statuses == {"none", "ok", "BAD_REQUEST", "UNAUTHORIZED", "REGISTER_CLOSED",
             "ACCOUNT_EXISTS", "INTERNAL", "lost"}

Ids == 1..Len(user)
Tokens == 1..opened

\* What a client asks for.
Asked(ops, names, passwords, nexts) ==
    [op : ops, name : names, password : passwords, next : nexts]

SignIns == Asked({"register", "login"}, Names, Passwords, {Null})
Changes == Asked({"password"}, {Null}, Passwords, Passwords)
Me == [op |-> "me", name |-> Null, password |-> Null, next |-> Null]
SignOut == [op |-> "logout", name |-> Null, password |-> Null, next |-> Null]
Requests == SignIns \cup Changes \cup {Me, SignOut}

\* A call with its request; sid is the cookie, 0 without one.
Started(asked, sid) ==
    [op |-> asked.op, at |-> "start", name |-> asked.name,
     password |-> asked.password, next |-> asked.next, sid |-> sid, id |-> 0,
     status |-> "none", empty |-> asked.op = "register" /\ user = <<>>,
     former |-> {}]

\* An answer: with the cookie it sets, and the account that /me names.
Done(op, status, sid, name) ==
    [op |-> op, at |-> "done", name |-> name, password |-> Null, next |-> Null,
     sid |-> sid, id |-> 0, status |-> status, empty |-> FALSE, former |-> {}]

NoCall == Done("me", "none", 0, Null)

-----------------------------------------------------------------------------
Init ==
    /\ user = <<>>
    /\ session = {}
    /\ opened = 0
    /\ now = 0
    /\ RegisterOpen \in BOOLEAN
    /\ call = [c \in Calls |-> NoCall]

OpensSession(c) == call[c].at # "done" /\ call[c].op \in {"register", "login"}

\* A client sends a request.
Begin(c, asked, sid) ==
    /\ call[c].at = "done"
    /\ asked \in SignIns =>
           opened + Cardinality({d \in Calls : OpensSession(d)}) < MaxSessions
    /\ call' = [call EXCEPT ![c] = Started(asked, sid)]
    /\ UNCHANGED <<user, session, opened, now, RegisterOpen>>

\* The client has no more use for the answer.
Forget(c) ==
    /\ call[c].at = "done"
    /\ call' = [call EXCEPT ![c] = NoCall]
    /\ UNCHANGED <<user, session, opened, now, RegisterOpen>>

Answer(c, status, sid, name) ==
    call' = [call EXCEPT ![c] = Done(call[c].op, status, sid, name)]

\* Mutant of UserByAccount: the collation of the column is the default one.
UserByExactAccount(name) == {i \in Ids : user[i].account = name}

\* The row of a user, by an account in whatever case.
UserByAccount(name) == {i \in Ids : Fold[user[i].account] = Fold[name]}

\* expires_at in whole seconds: RFC 3339 has no fractions.
Expiry(t) == ((t + TTL) \div Second) * Second

\* Mutant of UserBySession: the end of the session still belongs to it.
UserBySessionAtEnd(sid) ==
    {row.user_id : row \in {s \in session : s.token = sid /\ s.expires_at >= now}}

\* UserBySession: the users that a token stands for at this moment.
UserBySession(sid) ==
    {row.user_id : row \in {s \in session : s.token = sid /\ s.expires_at > now}}

-----------------------------------------------------------------------------
\* Mutant of RegisterCount: a password may be short.
RegisterShort(c) ==
    /\ call[c].op = "register"
    /\ call[c].at = "start"
    /\ IF user # <<>> /\ ~ RegisterOpen
       THEN Answer(c, "REGISTER_CLOSED", 0, Null)
       ELSE call' = [call EXCEPT ![c] = [@ EXCEPT !.at = "counted"]]
    /\ UNCHANGED <<user, session, opened, now, RegisterOpen>>

\* Mutant of RegisterCount: whether registration is open is not asked.
RegisterUncounted(c) ==
    /\ call[c].op = "register"
    /\ call[c].at = "start"
    /\ IF call[c].password \in Short THEN Answer(c, "BAD_REQUEST", 0, Null)
       ELSE call' = [call EXCEPT ![c] = [@ EXCEPT !.at = "counted"]]
    /\ UNCHANGED <<user, session, opened, now, RegisterOpen>>

\* handleRegister up to CountUsers and the check of its result.
RegisterCount(c) ==
    /\ call[c].op = "register"
    /\ call[c].at = "start"
    /\ IF call[c].password \in Short THEN Answer(c, "BAD_REQUEST", 0, Null)
       ELSE IF user # <<>> /\ ~ RegisterOpen
            THEN Answer(c, "REGISTER_CLOSED", 0, Null)
            ELSE call' = [call EXCEPT ![c] = [@ EXCEPT !.at = "counted"]]
    /\ UNCHANGED <<user, session, opened, now, RegisterOpen>>

\* CreateUser; account is UNIQUE without regard to case.
RegisterInsert(c) ==
    /\ call[c].op = "register"
    /\ call[c].at = "counted"
    /\ IF call[c].password \in Long \/ UserByAccount(call[c].name) # {}
       THEN Answer(c, "ACCOUNT_EXISTS", 0, Null) /\ UNCHANGED user
       ELSE /\ user' = Append(user, [account |-> call[c].name,
                                     password_hash |-> call[c].password])
            /\ call' = [call EXCEPT ![c] = [@ EXCEPT !.at = "session", !.id = Len(user) + 1]]
    /\ UNCHANGED <<session, opened, now, RegisterOpen>>

\* handleLogin up to the comparison.
LoginCompare(c) ==
    /\ call[c].op = "login"
    /\ call[c].at = "start"
    /\ \/ \E i \in UserByAccount(call[c].name) :
            /\ user[i].password_hash = call[c].password
            /\ call' = [call EXCEPT ![c] = [@ EXCEPT !.at = "session", !.id = i]]
       \/ /\ \A i \in UserByAccount(call[c].name) :
               user[i].password_hash # call[c].password
          /\ Answer(c, "UNAUTHORIZED", 0, Null)
    /\ UNCHANGED <<user, session, opened, now, RegisterOpen>>

\* CreateSession, the last step of both handlers, and setSession.
CreateSession(c) ==
    /\ call[c].at = "session"
    /\ opened' = opened + 1
    /\ session' = session \cup
           {[token |-> opened + 1, user_id |-> call[c].id,
             expires_at |-> Expiry(now), created |-> now]}
    /\ Answer(c, "ok", opened + 1, user[call[c].id].account)
    /\ UNCHANGED <<user, now, RegisterOpen>>

\* handleLogout; whether the row could be deleted is not asked.
Logout(c) ==
    /\ call[c].op = "logout"
    /\ call[c].at = "start"
    /\ session' \in {session, {s \in session : s.token # call[c].sid}}
    /\ Answer(c, "ok", 0, Null)
    /\ UNCHANGED <<user, opened, now, RegisterOpen>>

\* The middleware auth; handleMe has nothing more to ask of the database.
Authenticate(c) ==
    /\ call[c].op \in {"me", "password"}
    /\ call[c].at = "start"
    /\ \/ /\ UserBySession(call[c].sid) = {}
          /\ Answer(c, "UNAUTHORIZED", 0, Null)
       \/ \E i \in UserBySession(call[c].sid) :
            IF call[c].op = "me"
            THEN Answer(c, "ok", 0, user[i].account)
            ELSE call' = [call EXCEPT ![c] = [@ EXCEPT !.at = "authenticated", !.id = i]]
    /\ UNCHANGED <<user, session, opened, now, RegisterOpen>>

\* Mutant of PasswordCompare: the old password is not compared.
PasswordUncompared(c) ==
    /\ call[c].at = "authenticated"
    /\ IF call[c].next \in Short THEN Answer(c, "BAD_REQUEST", 0, Null)
       ELSE call' = [call EXCEPT ![c] = [@ EXCEPT !.at = "compared"]]
    /\ UNCHANGED <<user, session, opened, now, RegisterOpen>>

\* handlePassword up to the comparison with the old password.
PasswordCompare(c) ==
    /\ call[c].at = "authenticated"
    /\ IF call[c].next \in Short THEN Answer(c, "BAD_REQUEST", 0, Null)
       ELSE IF user[call[c].id].password_hash # call[c].password
            THEN Answer(c, "UNAUTHORIZED", 0, Null)
            ELSE call' = [call EXCEPT ![c] = [@ EXCEPT !.at = "compared"]]
    /\ UNCHANGED <<user, session, opened, now, RegisterOpen>>

\* UpdatePassword.  The calls under way remember the password replaced.
UpdatePassword(c) ==
    /\ call[c].at = "compared"
    /\ IF call[c].next \in Long
       THEN Answer(c, "INTERNAL", 0, Null) /\ UNCHANGED user
       ELSE LET i == call[c].id
            IN /\ user' = [user EXCEPT ![i] = [@ EXCEPT !.password_hash = call[c].next]]
               /\ call' = [d \in Calls |->
                     IF d = c THEN Done("password", "ok", 0, Null)
                     ELSE IF call[d].at = "done" THEN call[d]
                     ELSE [call[d] EXCEPT !.former =
                             @ \cup {<<i, user[i].password_hash>>}]]
    /\ UNCHANGED <<session, opened, now, RegisterOpen>>

\* The statement that comes next fails; nothing is written.
StatementFails(c) ==
    /\ \/ call[c].at = "start" /\ call[c].op = "register"
          /\ Answer(c, "INTERNAL", 0, Null)
       \/ call[c].at = "counted" /\ Answer(c, "ACCOUNT_EXISTS", 0, Null)
       \/ call[c].at \in {"session", "compared"} /\ Answer(c, "INTERNAL", 0, Null)
       \/ call[c].at = "start" /\ call[c].op \in {"login", "me", "password"}
          /\ Answer(c, "UNAUTHORIZED", 0, Null)
       \/ call[c].at = "authenticated" /\ Answer(c, "UNAUTHORIZED", 0, Null)
    /\ UNCHANGED <<user, session, opened, now, RegisterOpen>>

\* The server starts anew, with RegisterOpen as its environment then says.
Restart ==
    /\ call' = [c \in Calls |-> IF call[c].at = "done" THEN call[c]
                               ELSE Done(call[c].op, "lost", 0, Null)]
    /\ RegisterOpen' \in BOOLEAN
    /\ UNCHANGED <<user, session, opened, now>>

Tick ==
    /\ now < MaxNow
    /\ now' = now + 1
    /\ UNCHANGED <<user, session, opened, RegisterOpen, call>>

Serve(c) ==
    \/ RegisterCount(c)
    \/ RegisterInsert(c)
    \/ LoginCompare(c)
    \/ CreateSession(c)
    \/ Logout(c)
    \/ Authenticate(c)
    \/ PasswordCompare(c)
    \/ UpdatePassword(c)

\* Any client, with any cookie that it may have been given.
BeginAny(c) == \E asked \in Requests, sid \in Tokens \cup {0} : Begin(c, asked, sid)

AuthNext ==
    \/ \E c \in Calls :
         BeginAny(c) \/ Forget(c) \/ Serve(c) \/ StatementFails(c)
    \/ Restart
    \/ Tick

AuthSpec == Init /\ [][AuthNext]_authVars

-----------------------------------------------------------------------------
UserRow == [account : Names, password_hash : Passwords \ (Short \cup Long)]

SessionRow == [token : Tokens, user_id : Ids, expires_at : Int, created : 0..MaxNow]

Call == [op : Ops, at : Stages, name : Names \cup {Null},
         password : Passwords \cup {Null}, next : Passwords \cup {Null},
         sid : Tokens \cup {0}, id : Ids \cup {0}, status : Statuses,
         empty : BOOLEAN, former : SUBSET (Ids \X Passwords)]

\* Type invariant; a session belongs to a user, and no password is stored that
\* is too short or that bcrypt refuses.
AuthTypeOK ==
    /\ user \in Seq(UserRow)
    /\ session \subseteq SessionRow
    /\ opened \in Nat
    /\ now \in 0..MaxNow
    /\ RegisterOpen \in BOOLEAN
    /\ call \in [Calls -> Call]

\* No two users have the same name in letters of another case, however many
\* register at once.
NamesDistinct ==
    \A i, j \in Ids : Fold[user[i].account] = Fold[user[j].account] => i = j

\* A call that is about to open a session for a user, or to replace the user's
\* password, gave a password that the user has, or had when the call was
\* already under way.
PasswordKnown ==
    \A c \in Calls : call[c].at \in {"session", "compared"} =>
        LET i == call[c].id
        IN \/ user[i].password_hash = call[c].password
           \/ <<i, call[c].password>> \in call[c].former

\* With registration closed a user is added only by a call that was sent when
\* there was none.
ClosedAfterFirst ==
    [][\A c \in Calls :
         ~ RegisterOpen /\ call[c].at = "counted" /\ call'[c].at = "session"
         => call[c].empty]_authVars

\* A session ends when its time is over, and at most a second earlier.
SessionLasts ==
    \A s \in session :
        /\ UserBySession(s.token) # {} => now < s.created + TTL
        /\ now <= s.created + TTL - Second => UserBySession(s.token) = {s.user_id}
=============================================================================
