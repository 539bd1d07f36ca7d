---------------------------- MODULE MCWebSession ----------------------------
(* A browser that may have two requests under way; two names that differ in *)
(* case and another one.                                                    *)
EXTENDS WebSession, TLC

CONSTANTS c1, c2, b1, ann, Ann, bob, p, q, short, long

MCCalls == {c1, c2}
MCBrowsers == {b1}
MCOf == [c \in MCCalls |-> b1]
MCNames == {ann, Ann, bob}
MCFold == [n \in MCNames |-> IF n = bob THEN bob ELSE ann]
MCPasswords == {p, q, short, long}

SignIn(op, name, password) ==
    [op |-> op, name |-> name, password |-> password, next |-> Null]
Change(password, next) ==
    [op |-> "password", name |-> Null, password |-> password, next |-> next]

MCForms ==
    {SignIn("register", ann, p), SignIn("register", Ann, p),
     SignIn("register", bob, q), SignIn("register", bob, short),
     SignIn("register", ann, long),
     SignIn("login", Ann, p), SignIn("login", ann, q),
     Change(p, q)}

MCSymmetry == Permutations(MCCalls)
=============================================================================
