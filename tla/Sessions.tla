------------------------------ MODULE Sessions ------------------------------
(***************************************************************************)
(* Who a visitor is: the pages of one browser (pkg/web), its cookies, and  *)
(* the endpoints and middlewares of pkg/http/http.go that read and write   *)
(* them.  The pages share the cookies; other people reach this browser     *)
(* only through the users table, by registering accounts that push older   *)
(* ones out.                                                               *)
(*                                                                         *)
(* A fetch of a page is a call that is sent with the cookies of that       *)
(* moment, is served, changes the cookies when its answer arrives, and     *)
(* only then continues the page's script: other pages act in between.      *)
(* A page has at most two calls under way, one of its loading and one of   *)
(* a click.                                                                *)
(*                                                                         *)
(* A user's token is identified with the user's row id, as in Catalog.     *)
(***************************************************************************)
EXTENDS TableLimits, Functions

CONSTANTS
  Tabs,            \* pages of the browser
  Names, Passwords,
  Known,           \* passwords that the visitor knows
  GlobalUsername,
  SeedAccounts,    \* SeedAccounts[i]: [name, password] of seeded user i
  FixedUsers, MaxUsers,
  Nonces,          \* CSRF tokens
  None,            \* no cookie, an empty field
  UserBound,       \* largest row id explored
  MaxFailures      \* bound on the authentications that fail

Accounts == [name : Names \cup {GlobalUsername}, password : Passwords]

ASSUME SessionAssumption ==
  /\ FixedUsers \in Int /\ MaxUsers \in Int /\ UserBound \in Nat
  /\ MaxFailures \in Nat
  /\ Known \subseteq Passwords
  /\ None \notin Nat \cup Nonces \cup Tabs
  /\ \E n \in 1..UserBound : SeedAccounts \in [1..n -> Accounts]
  /\ \A i \in DOMAIN SeedAccounts : SeedAccounts[i].name = GlobalUsername <=> i = 1

VARIABLES
  users,      \* row id -> account
  lastUser,   \* AUTOINCREMENT counter
  jar,        \* the browser's cookies: [token, csrf]
  page,       \* tab -> [at, loggedIn, form]; form is the hidden csrf field
  call,       \* <<tab, slot>> -> the call under way
  holder,     \* the tab for which the CSRF cookie was last set, for LastFormWorks
  failures    \* how often an authentication could not be carried out

vars == <<users, lastUser, jar, page, call, holder, failures>>

Slots == {"load", "click"}

\* The 16 characters that a page makes up; no row has this token.
AnonymousToken == 0

NoAccount == [name |-> GlobalUsername, password |-> None]

\* Of the cookies, a call keeps the one that its handler reads or sets.
Call(kind, stage, cookie, anonymous, field, account, status) ==
  [kind |-> kind, stage |-> stage, cookie |-> cookie, anonymous |-> anonymous,
   field |-> field, account |-> account, status |-> status]

NoCall == Call("none", "none", None, FALSE, None, NoAccount, 0)

AsUser(kind, anonymous) == Call(kind, "sent", jar.token, anonymous, None, NoAccount, 0)
FetchCsrf == Call("csrf", "sent", None, FALSE, None, NoAccount, 0)
Login(field, account) == Call("login", "sent", jar.csrf, FALSE, field, account, 0)

\* Answer(...) is what is left of a call when it has been served.
Answer(kind, cookie, account, status) ==
  Call(kind, "served", cookie, FALSE, None, account, status)

Init ==
  /\ users = SeedAccounts
  /\ lastUser = Cardinality(DOMAIN SeedAccounts)
  /\ jar = [token |-> None, csrf |-> None]
  /\ page = [t \in Tabs |-> [at |-> "closed", loggedIn |-> FALSE, form |-> None]]
  /\ call = [c \in Tabs \X Slots |-> NoCall]
  /\ holder = None
  /\ failures = 0

Becomes(c, record) == call' = [call EXCEPT ![c] = record]

IsAt(c, kind, stage) == call[c].kind = kind /\ call[c].stage = stage

-----------------------------------------------------------------------------
(* The pages *)

\* onMount: without a token cookie, verifyUserLoggedIn answers at once.
Loading(where) ==
  CASE jar.token # None -> AsUser("verify", FALSE)
    [] jar.token = None /\ where = "login" -> FetchCsrf
    [] OTHER -> NoCall

\* Opening, reloading or leaving a page aborts the calls of the one before.
Open(t, where) ==
  /\ page' = [page EXCEPT ![t] = [at |-> where, loggedIn |-> FALSE, form |-> None]]
  /\ call' = [call EXCEPT ![<<t, "load">>] = Loading(where), ![<<t, "click">>] = NoCall]
  /\ UNCHANGED <<users, lastUser, jar, holder, failures>>

\* verifyUserLoggedIn has its answer; the login page without a user fetches a
\* CSRF token.
Verified(t, ok) ==
  /\ page' = [page EXCEPT ![t].loggedIn = ok]
  /\ Becomes(<<t, "load">>, IF ~ok /\ page[t].at = "login" THEN FetchCsrf ELSE NoCall)
  /\ UNCHANGED <<users, lastUser, jar, holder, failures>>

\* handleSubmit of the login page, whose form is there from the beginning.
SubmitLogin(t) ==
  /\ page[t].at = "login" /\ ~page[t].loggedIn
  /\ call[<<t, "click">>] = NoCall
  /\ \E name \in Names \cup {GlobalUsername}, password \in Known :
       Becomes(<<t, "click">>, Login(page[t].form, [name |-> name, password |-> password]))
  /\ UNCHANGED <<users, lastUser, jar, page, holder, failures>>

\* handleLogout: the token cookie goes, and the browser loads the first page.
Logout(t) ==
  /\ page[t].at = "login" /\ page[t].loggedIn
  /\ jar' = [jar EXCEPT !.token = None]
  /\ page' = [page EXCEPT ![t] = [at |-> "main", loggedIn |-> FALSE, form |-> None]]
  /\ call' = [call EXCEPT ![<<t, "load">>] = NoCall, ![<<t, "click">>] = NoCall]
  /\ UNCHANGED <<users, lastUser, holder, failures>>

\* getFood, on a page that is rendered when its loading is over.  A page that
\* believes nobody is logged in adds its own token.
GetFood(t) ==
  /\ page[t].at = "main"
  /\ call[<<t, "load">>] = NoCall /\ call[<<t, "click">>] = NoCall
  /\ Becomes(<<t, "click">>, AsUser("food", ~page[t].loggedIn))
  /\ UNCHANGED <<users, lastUser, jar, page, holder, failures>>

\* rateFood, with the cookie alone.
Rate(t) ==
  /\ page[t].at = "main"
  /\ call[<<t, "load">>] = NoCall /\ call[<<t, "click">>] = NoCall
  /\ Becomes(<<t, "click">>, AsUser("rate", FALSE))
  /\ UNCHANGED <<users, lastUser, jar, page, holder, failures>>

-----------------------------------------------------------------------------
(* The services *)

\* getRequestToken of the catalog: the cookie, or else the header.
RequestToken(cookie, header) == IF cookie # None THEN cookie ELSE header

\* The recommendations service passes a cookie on to the catalog as a header.
ForwardedToken(cookie, header) == RequestToken(None, IF cookie # None THEN cookie ELSE header)

\* The user of a token: user 1 for a token that no row has.
Authenticated(token) == IF token \in DOMAIN users THEN token ELSE 1

Header(anonymous) == IF anonymous THEN AnonymousToken ELSE None

TokenOf(r) ==
  IF r.kind = "food" THEN ForwardedToken(r.cookie, Header(r.anonymous))
                     ELSE RequestToken(r.cookie, Header(r.anonymous))

\* AuthMiddleware and the endpoint that verifies: 200 and the caller's account,
\* or 401.
ServeUser(c) ==
  /\ \E kind \in {"verify", "food", "rate"} : IsAt(c, kind, "sent")
  /\ LET token == TokenOf(call[c])
     IN IF token # None /\ Authenticated(token) \in DOMAIN users
        THEN Becomes(c, Answer(call[c].kind, None, users[Authenticated(token)], 200))
        ELSE Becomes(c, Answer(call[c].kind, None, NoAccount, 401))
  /\ UNCHANGED <<users, lastUser, jar, page, holder, failures>>

NoncesInUse ==
  {jar.csrf} \cup {page[t].form : t \in Tabs} \cup {r.field : r \in Range(call)}
             \cup {r.cookie : r \in Range(call)}

\* POST /api/csrf-token
ServeCsrf(c) ==
  /\ IsAt(c, "csrf", "sent")
  /\ \E nonce \in Nonces \ NoncesInUse : Becomes(c, Answer("csrf", nonce, NoAccount, 200))
  /\ UNCHANGED <<users, lastUser, jar, page, holder, failures>>

UsernameExists(name) == \E u \in DOMAIN users : users[u].name = name

\* LoginUser's test of a password, and its mutant that takes any.
AnyPassword(u, password) == TRUE
PasswordMatches(u, password) ==
  users[u].name = GlobalUsername \/ users[u].password = password

\* POST /api/users/token/login?set_cookie=true; without a cookie, the CSRF
\* token is the empty string, as is the field that no script has filled.
ServeLogin(c) ==
  /\ IsAt(c, "login", "sent")
  /\ \/ /\ call[c].cookie # call[c].field
        /\ Becomes(c, Answer("login", None, NoAccount, 401))
     \/ /\ call[c].cookie = call[c].field
        /\ ~UsernameExists(call[c].account.name)
        /\ Becomes(c, Answer("login", None, NoAccount, 401))
     \/ /\ call[c].cookie = call[c].field
        /\ \E u \in DOMAIN users :
             /\ users[u].name = call[c].account.name
             /\ Becomes(c, IF PasswordMatches(u, call[c].account.password)
                           THEN Answer("login", u, NoAccount, 200)
                           ELSE Answer("login", None, NoAccount, 401))
  /\ UNCHANGED <<users, lastUser, jar, page, holder, failures>>

\* A query of the authentication fails, or the call with which the
\* recommendations service asks the catalog for it.  The middlewares answer 401
\* for any error, as for a missing token, and LoginUser ends as for a wrong
\* password; only the endpoint that verifies answers 500.
FailAuthentication(c) ==
  /\ failures < MaxFailures
  /\ \/ \E kind \in {"verify", "food", "rate"} : IsAt(c, kind, "sent")
     \/ IsAt(c, "login", "sent") /\ call[c].cookie = call[c].field
  /\ Becomes(c, Answer(call[c].kind, None, NoAccount,
                       IF call[c].kind = "verify" THEN 500 ELSE 401))
  /\ failures' = failures + 1
  /\ UNCHANGED <<users, lastUser, jar, page, holder>>

\* POST /api/users: somebody registers; Catalog has its interleavings.
NextToken == lastUser + 1

Register ==
  /\ lastUser < UserBound
  /\ \E account \in Accounts :
       LET all == [u \in DOMAIN users \cup {NextToken} |->
                     IF u = NextToken THEN account ELSE users[u]]
       IN /\ account.name # GlobalUsername
          /\ ~UsernameExists(account.name)
          /\ users' = Restrict(all, Kept(DOMAIN all, FixedUsers, MaxUsers))
  /\ lastUser' = lastUser + 1
  /\ UNCHANGED <<jar, page, call, holder, failures>>

-----------------------------------------------------------------------------
(* The answers *)

\* The cookies after an answer, and their mutants: the two cookies of a login
\* are swapped; any answer to a login spends the CSRF token.
JarSwapped(r) ==
  IF r.kind = "csrf" THEN [jar EXCEPT !.csrf = r.cookie]
                     ELSE [token |-> None, csrf |-> r.cookie]
JarSpent(r) ==
  [token |-> IF r.kind = "login" /\ r.status = 200 THEN r.cookie ELSE jar.token,
   csrf |-> IF r.kind = "login" THEN None ELSE r.cookie]
JarAfter(r) ==
  CASE r.kind = "csrf" -> [jar EXCEPT !.csrf = r.cookie]
    [] r.kind = "login" /\ r.status = 200 -> [token |-> r.cookie, csrf |-> None]
    [] r.kind = "login" /\ r.status # 200 -> jar

\* The answers that may set cookies arrive; the others go to the script.
Arrive(c) ==
  /\ \E kind \in {"csrf", "login"} : IsAt(c, kind, "served")
  /\ Becomes(c, [call[c] EXCEPT !.stage = "arrived", !.cookie = None])
  /\ jar' = JarAfter(call[c])
  /\ holder' = CASE call[c].kind = "csrf" -> c[1]
                 [] call[c].kind = "login" /\ call[c].status = 200 -> None
                 [] OTHER -> holder
  /\ UNCHANGED <<users, lastUser, page, failures>>

ContinueVerify(t) ==
  /\ IsAt(<<t, "load">>, "verify", "served")
  /\ Verified(t, call[<<t, "load">>].status = 200)

\* fetchCSRFToken reads the cookie, not the answer; there is no field to set
\* when a login has replaced the form.
ContinueCsrf(t) ==
  /\ IsAt(<<t, "load">>, "csrf", "arrived")
  /\ page' = [page EXCEPT ![t].form = IF page[t].loggedIn THEN None ELSE jar.csrf]
  /\ Becomes(<<t, "load">>, NoCall)
  /\ UNCHANGED <<users, lastUser, jar, holder, failures>>

\* After a login the page looks for the cookie, which another page may have
\* removed meanwhile.
ContinueClick(t) ==
  /\ \/ IsAt(<<t, "click">>, "login", "arrived")
     \/ \E kind \in {"food", "rate"} : IsAt(<<t, "click">>, kind, "served")
  /\ LET r == call[<<t, "click">>]
         in == jar.token # None
     IN page' = IF r.kind = "login" /\ r.status = 200
                THEN [page EXCEPT ![t].loggedIn = in, ![t].form = IF in THEN None ELSE @]
                ELSE page
  /\ Becomes(<<t, "click">>, NoCall)
  /\ UNCHANGED <<users, lastUser, jar, holder, failures>>

\* The fetch fails, or is refused for a reason other than who the caller is:
\* verifyUserLoggedIn says no, and the other calls leave the page as it was.
Lose(c) ==
  /\ call[c].stage \in {"sent", "served"}
  /\ IF call[c].kind = "verify"
     THEN Verified(c[1], FALSE)
     ELSE /\ Becomes(c, NoCall)
          /\ UNCHANGED <<users, lastUser, jar, page, holder, failures>>

Next ==
  \/ Register
  \/ \E t \in Tabs :
       \/ \E where \in {"main", "login"} : Open(t, where)
       \/ SubmitLogin(t)
       \/ Logout(t)
       \/ GetFood(t)
       \/ Rate(t)
       \/ ContinueVerify(t)
       \/ ContinueCsrf(t)
       \/ ContinueClick(t)
  \/ \E c \in Tabs \X Slots :
       \/ ServeUser(c) \/ ServeCsrf(c) \/ ServeLogin(c) \/ FailAuthentication(c)
       \/ Arrive(c) \/ Lose(c)

Spec == Init /\ [][Next]_vars

-----------------------------------------------------------------------------
(* Properties *)

Jars == [token : 1..UserBound \cup {None}, csrf : Nonces \cup {None}]

Pages == [at : {"closed", "main", "login"}, loggedIn : BOOLEAN, form : Nonces \cup {None}]

Kinds == {"none", "verify", "csrf", "login", "food", "rate"}
Stages == {"none", "sent", "served", "arrived"}
Statuses == {0, 200, 401, 500}

Calls == [kind : Kinds, stage : Stages, cookie : 1..UserBound \cup Nonces \cup {None},
          anonymous : BOOLEAN, field : Nonces \cup {None}, account : Accounts \cup {NoAccount},
          status : Statuses]

\* Every variable has its type: in particular the jar only ever holds tokens
\* of users that have existed and CSRF tokens that the service has made.
TypeOK ==
  /\ lastUser \in 1..UserBound
  /\ DOMAIN users \subseteq 1..lastUser /\ users \in [DOMAIN users -> Accounts]
  /\ jar \in Jars /\ holder \in Tabs \cup {None}
  /\ page \in [Tabs -> Pages]
  /\ call \in [Tabs \X Slots -> Calls]
  /\ failures \in 0..MaxFailures

\* Whatever accounts are pruned and registered again under the same name while
\* the browser keeps its cookie: a request is served as an account whose
\* password the visitor knows, or as the default user.
NeverSomebodyElse ==
  \A c \in Tabs \X Slots :
    call[c].kind \in {"verify", "food", "rate"} /\ call[c].status = 200
      => call[c].account.name = GlobalUsername \/ call[c].account.password \in Known

Served(c) == call[c].stage = "sent" /\ call'[c].stage = "served"

\* "This function will always return a user, unless it returns a non-nil error"
\* (catalog.go:261): a page that adds its made-up token is refused only by an
\* authentication that fails, however the users are pruned and the other pages
\* log in and out; without one, only a page that takes itself for logged in is
\* refused, when another page has logged out.
VisitorsServed ==
  [][\A c \in Tabs \X Slots :
       Served(c) /\ call[c].kind = "food" /\ call[c].anonymous /\ call'[c].status # 200
         => failures' = failures + 1]_vars

\* The last page that has fetched a CSRF token can log in with it, however
\* many attempts with wrong passwords were made before and by whatever page.
LastFormWorks ==
  \A t \in Tabs : holder = t /\ page[t].form # None => page[t].form = jar.csrf

\* The comment of verifyUserLoggedIn: "Returns true if the user's session is
\* valid, false otherwise" (auth.ts:28); a session of a deleted user is not.
VerifiedIsValid ==
  [][\A c \in Tabs \X Slots :
       Served(c) /\ call[c].kind = "verify" /\ call[c].cookie \notin DOMAIN users
         => call'[c].status # 200]_vars

=============================================================================
