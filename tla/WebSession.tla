----------------------------- MODULE WebSession -----------------------------
(***************************************************************************)
(* Browsers that use Auth: the cookie sid, the store session.ts, the       *)
(* router's guard, and the pages that register, sign in and out, and       *)
(* change the password.  Only whether a page is public is kept of a page:  *)
(* its links lead to the others of its kind.  Each action is one event     *)
(* with the code that runs until its next await.                           *)
(***************************************************************************)
EXTENDS Auth

CONSTANTS
    Browsers,
    Of,          \* Of[c]: the browser whose requests the call c carries
    Forms        \* what users type into the forms

ASSUME BrowserAssumption ==
    /\ Of \in [Calls -> Browsers]
    /\ Forms \subseteq SignIns \cup Changes

VARIABLES
    cookie,   \* token in the cookie sid, 0 without one
    account,  \* session.account
    page,     \* page shown; "blank" until the first guard has passed
    flow,     \* what goes on with the answer of a call
    crossed   \* history: a form was sent while another one was under way

webVars == <<cookie, account, page, flow, crossed>>
vars == <<authVars, webVars>>

Under(b) == {c \in Calls : Of[c] = b /\ flow[c] \notin {"none", "password"}}

-----------------------------------------------------------------------------
WebInit ==
    /\ Init
    /\ cookie = [b \in Browsers |-> 0]
    /\ account = [b \in Browsers |-> Null]
    /\ page = [b \in Browsers |-> "public"]
    /\ flow = [c \in Calls |-> "none"]
    /\ crossed = [b \in Browsers |-> FALSE]

\* Mutant of Guard: nobody is kept out.
GuardOpen(name) == "inside"

\* router.beforeEach, once the store is loaded, for whatever page is asked.
Guard(name) == IF name = Null THEN "public" ELSE "inside"

\* The page is loaded anew: the guard refreshes the store first.  Bound: all
\* requests of the browser have been answered.
Reload(c) ==
    LET b == Of[c] IN
    /\ \A d \in Calls : Of[d] = b => flow[d] = "none"
    /\ Begin(c, Me, cookie[b])
    /\ page' = [page EXCEPT ![b] = "blank"]
    /\ account' = [account EXCEPT ![b] = Null]
    /\ flow' = [flow EXCEPT ![c] = "refresh"]
    /\ crossed' = [crossed EXCEPT ![b] = FALSE]
    /\ UNCHANGED cookie

\* The kind of the page whose form it is.
Page(op) == IF op \in {"register", "login"} THEN "public" ELSE "inside"

\* submit, save or logout of a page; nothing keeps a form from being sent twice.
Submit(c, form) ==
    LET b == Of[c] IN
    /\ page[b] = Page(form.op)
    /\ flow[c] = "none"
    /\ Begin(c, form, cookie[b])
    /\ flow' = [flow EXCEPT ![c] = form.op]
    /\ crossed' = [crossed EXCEPT ![b] = @ \/ (form.op # "password" /\ Under(b) # {})]
    /\ UNCHANGED <<cookie, account, page>>

\* The answer arrives, or it is lost although the server gave one.
Arrives(c, status) ==
    /\ flow[c] # "none"
    /\ call[c].at = "done"
    /\ status \in {call[c].status, "lost"}

\* What comes after the await of a form.
TakeForm(c) ==
    \E status \in Statuses :
      LET b == Of[c]
          sid == call[c].sid
      IN /\ flow[c] \in {"register", "login", "logout", "password"}
         /\ Arrives(c, status)
         /\ IF status = "ok" /\ flow[c] # "password"
            THEN /\ cookie' = [cookie EXCEPT ![b] = sid]
                 /\ Begin(c, Me, sid)
                 /\ flow' = [flow EXCEPT ![c] = "refresh"]
            ELSE /\ flow' = [flow EXCEPT ![c] = "none"]
                 /\ Forget(c)
                 /\ UNCHANGED cookie
         /\ UNCHANGED <<account, page, crossed>>

\* session.refresh after its await, and router.push or the waiting guard.
TakeRefresh(c) ==
    \E status \in Statuses :
      LET b == Of[c]
          name == IF status = "ok" THEN call[c].name ELSE Null
      IN /\ flow[c] = "refresh"
         /\ Arrives(c, status)
         /\ account' = [account EXCEPT ![b] = name]
         /\ page' = [page EXCEPT ![b] = Guard(name)]
         /\ flow' = [flow EXCEPT ![c] = "none"]
         /\ Forget(c)
         /\ UNCHANGED <<cookie, crossed>>

\* MaxAge of the cookie counts from its arrival, no earlier than the session.
CookieExpires(b) ==
    /\ \E s \in session : s.token = cookie[b] /\ now >= s.created + TTL
    /\ cookie' = [cookie EXCEPT ![b] = 0]
    /\ UNCHANGED <<authVars, account, page, flow, crossed>>

Next ==
    \/ \E c \in Calls :
         \/ Reload(c)
         \/ \E form \in Forms \cup {SignOut} : Submit(c, form)
         \/ TakeForm(c)
         \/ TakeRefresh(c)
         \/ RegisterCount(c) /\ UNCHANGED webVars
         \/ RegisterInsert(c) /\ UNCHANGED webVars
         \/ LoginCompare(c) /\ UNCHANGED webVars
         \/ CreateSession(c) /\ UNCHANGED webVars
         \/ Logout(c) /\ UNCHANGED webVars
         \/ Authenticate(c) /\ UNCHANGED webVars
         \/ PasswordCompare(c) /\ UNCHANGED webVars
         \/ UpdatePassword(c) /\ UNCHANGED webVars
         \/ StatementFails(c) /\ UNCHANGED webVars
    \/ \E b \in Browsers : CookieExpires(b)
    \/ Restart /\ UNCHANGED webVars
    \/ Tick /\ UNCHANGED webVars

Spec == WebInit /\ [][Next]_vars

-----------------------------------------------------------------------------
\* A tab whose forms were sent one at a time, once all of them are answered, is
\* inside exactly when it shows an account, and the account that it shows is
\* the one that its requests act for, as long as their session is there.
ShownIsActing ==
    \A b \in Browsers : Under(b) = {} /\ ~ crossed[b] =>
        /\ (page[b] = "inside") <=> account[b] # Null
        /\ \A s \in session : s.token = cookie[b] /\ account[b] # Null =>
               user[s.user_id].account = account[b]
=============================================================================
