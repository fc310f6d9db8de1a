--------------------------- MODULE SessionsProofs ---------------------------
(***************************************************************************)
(* The visitor of a browser, for any number of its pages, any accounts and *)
(* limits of the users table: nobody is served as somebody else, the last  *)
(* page to fetch a CSRF token can use it, and made-up tokens are refused   *)
(* by failures alone as long as the default user is fixed.                 *)
(*                                                                         *)
(* The inductive invariant SesInv follows a user's token from the answer   *)
(* to a login to the cookie, and from there to the calls that carry it,    *)
(* while other people's registrations push users out of the table.         *)
(***************************************************************************)
EXTENDS Sessions, TableLimitsProofs

-----------------------------------------------------------------------------
(* The invariant *)

\* The visitor's own token: that of a user whose password the visitor knows,
\* or of the default user, as long as the user exists.  No later user gets it.
Harmless(account) == account.name = GlobalUsername \/ account.password \in Known

Own(token) ==
  token \in 1..lastUser /\ (token \in DOMAIN users => Harmless(users[token]))

\* What is known of a call, from where it has got to.
Sound(r) ==
  /\ r.kind \in {"verify", "food", "rate"} /\ r.stage = "sent" =>
       r.status # 200 /\ (r.cookie # None => Own(r.cookie))
  /\ r.kind \in {"verify", "food", "rate"} /\ r.status = 200 => Harmless(r.account)
  /\ r.kind = "login" /\ r.stage = "sent" => r.account.password \in Known
  /\ r.kind = "login" /\ r.stage = "served" /\ r.status = 200 => Own(r.cookie)
  /\ r.kind = "csrf" /\ r.stage = "served" => r.cookie \in Nonces

\* A page that is loading has not filled its form yet.
Filled(t, slot) ==
  call[<<t, slot>>].kind \in {"verify", "csrf"} => slot = "load" /\ page[t].form = None

\* The default user is the first, and keeps its row or leaves it empty.
DefaultFirst == \A u \in DOMAIN users : users[u].name = GlobalUsername <=> u = 1

SesInv ==
  /\ TypeOK /\ DefaultFirst
  /\ jar.token # None => Own(jar.token)
  /\ \A c \in Tabs \X Slots : Sound(call[c])
  /\ \A t \in Tabs, slot \in Slots : Filled(t, slot)

-----------------------------------------------------------------------------
(* Calls *)

\* The fields of a new call.
LEMMA CallFields ==
  ASSUME NEW kind, NEW stage, NEW cookie, NEW anonymous, NEW field, NEW account, NEW status
  PROVE  LET r == Call(kind, stage, cookie, anonymous, field, account, status)
         IN /\ r.kind = kind /\ r.stage = stage /\ r.cookie = cookie /\ r.anonymous = anonymous
            /\ r.field = field /\ r.account = account /\ r.status = status
BY DEF Call

\* The type of a new call.
LEMMA CallType ==
  ASSUME NEW kind \in Kinds, NEW stage \in Stages,
         NEW cookie \in 1..UserBound \cup Nonces \cup {None},
         NEW anonymous \in BOOLEAN, NEW field \in Nonces \cup {None},
         NEW account \in Accounts \cup {NoAccount}, NEW status \in Statuses
  PROVE  Call(kind, stage, cookie, anonymous, field, account, status) \in Calls
BY DEF Call, Calls

\* The words of the types.
LEMMA Words ==
  /\ "none" \in Kinds /\ "verify" \in Kinds /\ "csrf" \in Kinds /\ "login" \in Kinds
  /\ "food" \in Kinds /\ "rate" \in Kinds
  /\ "none" \in Stages /\ "sent" \in Stages /\ "served" \in Stages /\ "arrived" \in Stages
  /\ 0 \in Statuses /\ 200 \in Statuses /\ 401 \in Statuses /\ 500 \in Statuses
BY DEF Kinds, Stages, Statuses

\* No call: nothing is known of it, nothing need be.
LEMMA NoCallSound == NoCall \in Calls /\ Sound(NoCall) /\ NoCall.kind = "none"
<1>1. NoCall \in Calls
  BY CallType, Words DEF NoCall
<1>2. NoCall.kind = "none"
  BY DEF NoCall, Call
<1> QED
  BY <1>1, <1>2 DEF Sound

\* A call for a CSRF token carries nothing.
LEMMA FetchCsrfSound == FetchCsrf \in Calls /\ Sound(FetchCsrf) /\ FetchCsrf.kind = "csrf"
<1>1. FetchCsrf \in Calls
  BY CallType, Words DEF FetchCsrf
<1>2. FetchCsrf.kind = "csrf" /\ FetchCsrf.stage = "sent"
  BY DEF FetchCsrf, Call
<1> QED
  BY <1>1, <1>2 DEF Sound

\* A call on behalf of the user carries the cookie of that moment.
LEMMA AsUserSound ==
  ASSUME SesInv, NEW kind \in {"verify", "food", "rate"}, NEW anonymous \in BOOLEAN
  PROVE  /\ AsUser(kind, anonymous) \in Calls /\ Sound(AsUser(kind, anonymous))
         /\ AsUser(kind, anonymous).kind = kind
<1>1. jar.token \in 1..UserBound \cup {None} /\ (jar.token # None => Own(jar.token))
  BY DEF SesInv, TypeOK, Jars
<1>2. kind \in Kinds
  BY DEF Kinds
<1>3. AsUser(kind, anonymous) \in Calls
  BY <1>1, <1>2, CallType, Words DEF AsUser
<1>4. /\ AsUser(kind, anonymous).kind = kind /\ AsUser(kind, anonymous).status = 0
      /\ AsUser(kind, anonymous).cookie = jar.token
  BY CallFields DEF AsUser
<1> QED
  BY <1>1, <1>3, <1>4 DEF Sound

\* Where the users stay as they are, so does what is known of tokens and calls.
LEMMA SameUsers ==
  ASSUME users' = users, lastUser' = lastUser
  PROVE  /\ \A token : Own(token)' <=> Own(token)
         /\ \A r : Sound(r)' <=> Sound(r)
<1>1. \A token : Own(token)' <=> Own(token)
  BY DEF Own
<1> QED
  BY <1>1 DEF Sound

\* A step of the browser or of a service, but for registration, preserves the
\* invariant if it preserves the types, and what is known of the calls.
LEMMA BrowserStep ==
  ASSUME SesInv, users' = users, lastUser' = lastUser,
         jar' \in Jars, jar'.token # None => Own(jar'.token),
         holder' \in Tabs \cup {None}, failures' \in 0..MaxFailures, page' \in [Tabs -> Pages],
         call' \in [Tabs \X Slots -> Calls],
         \A c \in Tabs \X Slots : Sound(call'[c]),
         \A t \in Tabs, slot \in Slots :
           call'[<<t, slot>>].kind \in {"verify", "csrf"} => slot = "load" /\ page'[t].form = None
  PROVE  SesInv'
<1>1. TypeOK'
  BY DEF SesInv, TypeOK
<1>2. DefaultFirst'
  BY DEF SesInv, DefaultFirst
<1>3. (jar.token # None => Own(jar.token))'
  BY SameUsers
<1>4. (\A c \in Tabs \X Slots : Sound(call[c]))'
  BY SameUsers
<1>5. (\A t \in Tabs, slot \in Slots : Filled(t, slot))'
  BY DEF Filled
<1> QED
  BY <1>1, <1>2, <1>3, <1>4, <1>5 DEF SesInv

\* A step that moves one call on, and may change the cookies.
LEMMA MovedCall ==
  ASSUME SesInv, NEW c \in Tabs \X Slots, NEW r \in Calls, Sound(r),
         r.kind = call[c].kind \/ r.kind \notin {"verify", "csrf"},
         call' = [call EXCEPT ![c] = r], UNCHANGED <<users, lastUser, page>>,
         failures' \in 0..MaxFailures, jar' \in Jars, jar'.token # None => Own(jar'.token), holder' \in Tabs \cup {None}
  PROVE  SesInv'
<1>1. call' \in [Tabs \X Slots -> Calls]
  BY DEF SesInv, TypeOK
<1>2. \A d \in Tabs \X Slots : call'[d] = IF d = c THEN r ELSE call[d]
  BY DEF SesInv, TypeOK
<1>3. \A d \in Tabs \X Slots : Sound(call'[d])
  BY <1>2 DEF SesInv
<1>4. ASSUME NEW t \in Tabs, NEW slot \in Slots, call'[<<t, slot>>].kind \in {"verify", "csrf"}
      PROVE  slot = "load" /\ page'[t].form = None
  <2>1. <<t, slot>> \in Tabs \X Slots
    OBVIOUS
  <2>2. call[<<t, slot>>].kind \in {"verify", "csrf"}
    BY <1>2, <1>4, <2>1
  <2> QED
    BY <2>2 DEF SesInv, Filled
<1>5. page' \in [Tabs -> Pages]
  BY DEF SesInv, TypeOK
<1> QED
  BY <1>1, <1>3, <1>4, <1>5, BrowserStep

\* A step that moves one call on and does nothing else.
LEMMA OneCall ==
  ASSUME SesInv, NEW c \in Tabs \X Slots, NEW r \in Calls, Sound(r),
         r.kind = call[c].kind \/ r.kind \notin {"verify", "csrf"},
         call' = [call EXCEPT ![c] = r], UNCHANGED <<users, lastUser, jar, page, holder, failures>>
  PROVE  SesInv'
<1>1. jar' \in Jars /\ holder' \in Tabs \cup {None} /\ (jar'.token # None => Own(jar'.token))
  BY DEF SesInv, TypeOK
<1>2. failures' \in 0..MaxFailures
  BY DEF SesInv, TypeOK
<1> QED
  BY <1>1, <1>2, MovedCall

-----------------------------------------------------------------------------
(* The browser's steps *)

\* The type of a page that has just been opened.
LEMMA PageType ==
  ASSUME NEW at \in {"closed", "main", "login"}, NEW loggedIn \in BOOLEAN,
         NEW form \in Nonces \cup {None}
  PROVE  [at |-> at, loggedIn |-> loggedIn, form |-> form] \in Pages
BY DEF Pages

\* A page that is opened, or left, has an empty form and no old calls.
LEMMA FreshPage ==
  ASSUME SesInv, NEW t \in Tabs, NEW at \in {"main", "login"}, NEW r \in Calls, Sound(r),
         page' = [page EXCEPT ![t] = [at |-> at, loggedIn |-> FALSE, form |-> None]],
         call' = [call EXCEPT ![<<t, "load">>] = r, ![<<t, "click">>] = NoCall],
         jar' \in Jars, jar'.token # None => Own(jar'.token),
         UNCHANGED <<users, lastUser, holder, failures>>
  PROVE  SesInv'
<1> DEFINE blank == [at |-> at, loggedIn |-> FALSE, form |-> None]
<1>1. page' \in [Tabs -> Pages] /\ page'[t].form = None
  <2>1. blank \in Pages /\ blank.form = None
    BY PageType
  <2> HIDE DEF blank
  <2>2. page' = [page EXCEPT ![t] = blank]
    BY DEF blank
  <2> QED
    BY <2>1, <2>2 DEF SesInv, TypeOK
<1>2. /\ <<t, "load">> \in Tabs \X Slots /\ <<t, "click">> \in Tabs \X Slots
      /\ <<t, "load">> # <<t, "click">>
  BY DEF Slots
<1>3. call' \in [Tabs \X Slots -> Calls]
  BY <1>2, NoCallSound DEF SesInv, TypeOK
<1>4. \A d \in Tabs \X Slots :
        call'[d] = IF d = <<t, "click">> THEN NoCall ELSE IF d = <<t, "load">> THEN r ELSE call[d]
  BY <1>2 DEF SesInv, TypeOK
<1>5. \A d \in Tabs \X Slots : Sound(call'[d])
  BY <1>4, NoCallSound DEF SesInv
<1>6. ASSUME NEW u \in Tabs, NEW slot \in Slots, call'[<<u, slot>>].kind \in {"verify", "csrf"}
      PROVE  slot = "load" /\ page'[u].form = None
  <2>1. <<u, slot>> \in Tabs \X Slots /\ slot \in {"load", "click"}
    BY DEF Slots
  <2>2. CASE u = t
    BY <1>1, <1>4, <1>6, <2>1, <2>2, NoCallSound
  <2>3. CASE u # t
    <3>1. call'[<<u, slot>>] = call[<<u, slot>>]
      BY <1>4, <2>1, <2>3
    <3>2. page'[u] = page[u]
      BY <2>3 DEF SesInv, TypeOK
    <3> QED
      BY <1>6, <3>1, <3>2 DEF SesInv, Filled
  <2> QED
    BY <2>2, <2>3
<1>7. holder' \in Tabs \cup {None} /\ failures' \in 0..MaxFailures
  BY DEF SesInv, TypeOK
<1> QED
  BY <1>1, <1>3, <1>5, <1>6, <1>7, BrowserStep

\* Opening a page, and logging out, which opens the first.
LEMMA OpenSes ==
  ASSUME SesInv, NEW t \in Tabs,
         Logout(t) \/ \E where \in {"main", "login"} : Open(t, where)
  PROVE  SesInv'
<1>1. ASSUME NEW where \in {"main", "login"}, Open(t, where)
      PROVE  SesInv'
  <2>1. Loading(where) \in {AsUser("verify", FALSE), FetchCsrf, NoCall}
    BY DEF Loading
  <2>2. Loading(where) \in Calls /\ Sound(Loading(where))
    BY <2>1, AsUserSound, FetchCsrfSound, NoCallSound
  <2>3. jar' \in Jars /\ (jar'.token # None => Own(jar'.token))
    BY <1>1 DEF Open, SesInv, TypeOK
  <2> QED
    BY <1>1, <2>2, <2>3, FreshPage DEF Open
<1>2. CASE Logout(t)
  <2>1. jar' = [jar EXCEPT !.token = None] /\ jar \in Jars
    BY <1>2 DEF Logout, SesInv, TypeOK
  <2>2. jar' \in Jars /\ jar'.token = None
    BY <2>1 DEF Jars
  <2> QED
    BY <1>2, <2>2, NoCallSound, FreshPage DEF Logout
<1> QED
  BY <1>1, <1>2

\* A page that has its user verified goes on with an empty form.
LEMMA VerifiedSes ==
  ASSUME SesInv, NEW t \in Tabs, NEW ok \in BOOLEAN, Verified(t, ok),
         call[<<t, "load">>].kind = "verify"
  PROVE  SesInv'
<1>1. <<t, "load">> \in Tabs \X Slots /\ "load" \in Slots
  BY DEF Slots
<1>2. page[t].form = None
  BY <1>1 DEF SesInv, Filled
<1>3. page' \in [Tabs -> Pages] /\ page'[t].form = None
  BY <1>2 DEF Verified, SesInv, TypeOK, Pages
<1>4. PICK r \in {FetchCsrf, NoCall} : call' = [call EXCEPT ![<<t, "load">>] = r]
  BY DEF Verified, Becomes
<1>5. r \in Calls /\ Sound(r)
  BY <1>4, FetchCsrfSound, NoCallSound
<1>6. \A d \in Tabs \X Slots : call'[d] = IF d = <<t, "load">> THEN r ELSE call[d]
  BY <1>1, <1>4 DEF SesInv, TypeOK
<1>7. call' \in [Tabs \X Slots -> Calls]
  BY <1>4, <1>5 DEF SesInv, TypeOK
<1>8. \A d \in Tabs \X Slots : Sound(call'[d])
  BY <1>5, <1>6 DEF SesInv
<1>9. ASSUME NEW u \in Tabs, NEW slot \in Slots, call'[<<u, slot>>].kind \in {"verify", "csrf"}
      PROVE  slot = "load" /\ page'[u].form = None
  <2>1. <<u, slot>> \in Tabs \X Slots
    OBVIOUS
  <2>2. u # t => page'[u] = page[u]
    BY DEF Verified, SesInv, TypeOK
  <2> QED
    BY <1>3, <1>6, <1>9, <2>1, <2>2 DEF SesInv, Filled
<1>10. jar' \in Jars /\ holder' \in Tabs \cup {None} /\ (jar'.token # None => Own(jar'.token))
  BY DEF Verified, SesInv, TypeOK
<1>11. users' = users /\ lastUser' = lastUser /\ failures' \in 0..MaxFailures
  BY DEF Verified, SesInv, TypeOK
<1> QED
  BY <1>3, <1>7, <1>8, <1>9, <1>10, <1>11, BrowserStep

\* A click starts a call with the cookies of the moment.
LEMMA ClickSes ==
  ASSUME SesInv, NEW t \in Tabs, SubmitLogin(t) \/ GetFood(t) \/ Rate(t)
  PROVE  SesInv'
<1>1. <<t, "click">> \in Tabs \X Slots
  BY DEF Slots
<1>2. CASE SubmitLogin(t)
  <2>1. PICK name \in Names \cup {GlobalUsername}, password \in Known :
          call' = [call EXCEPT ![<<t, "click">>] =
                     Login(page[t].form, [name |-> name, password |-> password])]
    BY <1>2 DEF SubmitLogin, Becomes
  <2> DEFINE account == [name |-> name, password |-> password]
             r == Login(page[t].form, account)
  <2>2. account \in Accounts /\ account.password \in Known
    BY SessionAssumption DEF Accounts
  <2> HIDE DEF account
  <2>3. page[t].form \in Nonces \cup {None} /\ jar.csrf \in Nonces \cup {None}
    BY DEF SesInv, TypeOK, Pages, Jars
  <2>4. r \in Calls
    BY <2>2, <2>3, CallType, Words DEF Login
  <2>5. r.kind = "login" /\ r.stage = "sent" /\ r.account = account
    BY DEF Login, Call
  <2>6. Sound(r)
    BY <2>2, <2>5 DEF Sound
  <2>7. call' = [call EXCEPT ![<<t, "click">>] = r]
    BY <2>1 DEF account
  <2> HIDE DEF r
  <2> QED
    BY <1>1, <1>2, <2>4, <2>5, <2>6, <2>7, OneCall DEF SubmitLogin
<1>3. CASE GetFood(t) \/ Rate(t)
  <2>1. PICK kind \in {"food", "rate"}, anonymous \in BOOLEAN :
          call' = [call EXCEPT ![<<t, "click">>] = AsUser(kind, anonymous)]
    <3>1. (~page[t].loggedIn) \in BOOLEAN
      OBVIOUS
    <3> QED
      BY <1>3, <3>1 DEF GetFood, Rate, Becomes
  <2>2. /\ AsUser(kind, anonymous) \in Calls /\ Sound(AsUser(kind, anonymous))
        /\ AsUser(kind, anonymous).kind = kind
    BY AsUserSound
  <2> QED
    BY <1>1, <1>3, <2>1, <2>2, OneCall DEF GetFood, Rate
<1> QED
  BY <1>2, <1>3

-----------------------------------------------------------------------------
(* The services' steps *)

\* The type of an answer.
LEMMA AnswerType ==
  ASSUME NEW kind \in Kinds, NEW cookie \in 1..UserBound \cup Nonces \cup {None},
         NEW account \in Accounts \cup {NoAccount}, NEW status \in Statuses
  PROVE  Answer(kind, cookie, account, status) \in Calls
<1>1. FALSE \in BOOLEAN /\ None \in Nonces \cup {None}
  OBVIOUS
<1> QED
  BY <1>1, CallType, Words DEF Answer

\* The type of a refusal.
LEMMA RefusalType ==
  ASSUME NEW kind \in Kinds, NEW status \in Statuses
  PROVE  Answer(kind, None, NoAccount, status) \in Calls
<1>1. None \in 1..UserBound \cup Nonces \cup {None}
  OBVIOUS
<1>2. NoAccount \in Accounts \cup {NoAccount}
  OBVIOUS
<1> QED
  BY <1>1, <1>2, AnswerType

\* The user that a call is served as is the visitor, or the default user.
LEMMA ServedAsVisitor ==
  ASSUME SesInv, NEW c \in Tabs \X Slots, call[c].kind \in {"verify", "food", "rate"},
         call[c].stage = "sent", NEW u \in DOMAIN users, u = Authenticated(TokenOf(call[c]))
  PROVE  users[u] \in Accounts /\ Harmless(users[u])
<1> DEFINE r == call[c]
           token == TokenOf(r)
<1>1. users[u] \in Accounts
  BY DEF SesInv, TypeOK
<1>2. CASE token \in DOMAIN users
  <2>1. token \in 1..lastUser /\ lastUser \in Nat
    BY <1>2 DEF SesInv, TypeOK
  <2>2. token # None /\ token # AnonymousToken
    BY <2>1, SessionAssumption DEF AnonymousToken
  <2>3. token = r.cookie
    BY <2>2 DEF TokenOf, ForwardedToken, RequestToken, Header
  <2>4. Own(r.cookie)
    BY <2>2, <2>3 DEF SesInv, Sound
  <2>5. u = token
    BY <1>2 DEF Authenticated
  <2> QED
    BY <1>1, <1>2, <2>3, <2>4, <2>5 DEF Own
<1>3. CASE token \notin DOMAIN users
  <2>1. u = 1
    BY <1>3 DEF Authenticated
  <2> QED
    BY <1>1, <2>1 DEF SesInv, DefaultFirst, Harmless
<1> QED
  BY <1>2, <1>3

\* Authentication answers with the visitor's account, or refuses.
LEMMA ServeUserSes ==
  ASSUME SesInv, NEW c \in Tabs \X Slots, ServeUser(c)
  PROVE  SesInv'
<1> DEFINE kind == call[c].kind
           u == Authenticated(TokenOf(call[c]))
<1>1. kind \in {"verify", "food", "rate"} /\ call[c].stage = "sent" /\ kind \in Kinds
  BY DEF ServeUser, IsAt, Kinds
<1>2. UNCHANGED <<users, lastUser, jar, page, holder, failures>>
  BY DEF ServeUser
<1>3. None \in 1..UserBound \cup Nonces \cup {None} /\ NoAccount \in Accounts \cup {NoAccount}
  OBVIOUS
<1>4. CASE /\ u \in DOMAIN users
           /\ call' = [call EXCEPT ![c] = Answer(kind, None, users[u], 200)]
  <2>1. users[u] \in Accounts /\ Harmless(users[u])
    BY <1>1, <1>4, ServedAsVisitor
  <2> DEFINE r == Answer(kind, None, users[u], 200)
  <2>2. r.kind = kind /\ r.stage = "served" /\ r.account = users[u]
    BY DEF Answer, Call
  <2>5. users[u] \in Accounts \cup {NoAccount}
    BY <2>1
  <2>6. r \in Calls
    BY <1>1, <1>3, <2>5, AnswerType, Words
  <2>3. call' = [call EXCEPT ![c] = r]
    BY <1>4
  <2> HIDE DEF r
  <2>4. Sound(r)
    BY <1>1, <2>1, <2>2 DEF Sound
  <2> QED
    BY <1>2, <2>2, <2>3, <2>4, <2>6, OneCall
<1>5. CASE call' = [call EXCEPT ![c] = Answer(kind, None, NoAccount, 401)]
  <2> DEFINE r == Answer(kind, None, NoAccount, 401)
  <2>1. r.kind = kind /\ r.stage = "served" /\ r.status = 401
    BY DEF Answer, Call
  <2>4. r \in Calls
    BY <1>1, RefusalType, Words
  <2>2. call' = [call EXCEPT ![c] = r]
    BY <1>5
  <2> HIDE DEF r
  <2>3. Sound(r)
    BY <1>1, <2>1 DEF Sound
  <2> QED
    BY <1>2, <2>1, <2>2, <2>3, <2>4, OneCall
<1> QED
  BY <1>4, <1>5 DEF ServeUser, Becomes

\* A CSRF token is made.
LEMMA ServeCsrfSes ==
  ASSUME SesInv, NEW c \in Tabs \X Slots, ServeCsrf(c)
  PROVE  SesInv'
<1>1. PICK nonce \in Nonces : call' = [call EXCEPT ![c] = Answer("csrf", nonce, NoAccount, 200)]
  BY DEF ServeCsrf, Becomes
<1>2. call[c].kind = "csrf" /\ UNCHANGED <<users, lastUser, jar, page, holder, failures>>
  BY DEF ServeCsrf, IsAt
<1> DEFINE r == Answer("csrf", nonce, NoAccount, 200)
<1>3. r.kind = "csrf" /\ r.stage = "served" /\ r.cookie = nonce
  BY DEF Answer, Call
<1>6. r \in Calls
  <2>1. nonce \in 1..UserBound \cup Nonces \cup {None} /\ NoAccount \in Accounts \cup {NoAccount}
    OBVIOUS
  <2> QED
    BY <2>1, AnswerType, Words
<1>4. call' = [call EXCEPT ![c] = r]
  BY <1>1
<1> HIDE DEF r
<1>5. Sound(r)
  BY <1>3 DEF Sound
<1> QED
  BY <1>2, <1>3, <1>4, <1>5, <1>6, OneCall

\* A login gives away the token of a user whose password was right.
LEMMA ServeLoginSes ==
  ASSUME SesInv, NEW c \in Tabs \X Slots, ServeLogin(c)
  PROVE  SesInv'
<1>1. call[c].kind = "login" /\ call[c].stage = "sent"
      /\ UNCHANGED <<users, lastUser, jar, page, holder, failures>>
  BY DEF ServeLogin, IsAt
<1>2. None \in 1..UserBound \cup Nonces \cup {None} /\ NoAccount \in Accounts \cup {NoAccount}
  OBVIOUS
<1>3. CASE call' = [call EXCEPT ![c] = Answer("login", None, NoAccount, 401)]
  <2> DEFINE r == Answer("login", None, NoAccount, 401)
  <2>1. r.kind = "login" /\ r.stage = "served" /\ r.status = 401
    BY DEF Answer, Call
  <2>4. r \in Calls
    BY RefusalType, Words
  <2>2. call' = [call EXCEPT ![c] = r]
    BY <1>3
  <2> HIDE DEF r
  <2>3. Sound(r)
    BY <2>1 DEF Sound
  <2> QED
    BY <1>1, <2>1, <2>2, <2>3, <2>4, OneCall
<1>4. ASSUME NEW u \in DOMAIN users, users[u].name = call[c].account.name,
             PasswordMatches(u, call[c].account.password),
             call' = [call EXCEPT ![c] = Answer("login", u, NoAccount, 200)]
      PROVE  SesInv'
  <2>1. u \in 1..lastUser /\ u \in 1..UserBound
    BY SessionAssumption DEF SesInv, TypeOK
  <2>2. call[c].account.password \in Known
    BY <1>1 DEF SesInv, Sound
  <2>3. Own(u)
    BY <1>4, <2>1, <2>2 DEF Own, Harmless, PasswordMatches
  <2> DEFINE r == Answer("login", u, NoAccount, 200)
  <2>4. r.kind = "login" /\ r.stage = "served" /\ r.cookie = u
    BY DEF Answer, Call
  <2>7. u \in 1..UserBound \cup Nonces \cup {None}
    BY <2>1
  <2>8. r \in Calls
    BY <1>2, <2>7, AnswerType, Words
  <2>5. call' = [call EXCEPT ![c] = r]
    BY <1>4
  <2> HIDE DEF r
  <2>6. Sound(r)
    BY <2>3, <2>4 DEF Sound
  <2> QED
    BY <1>1, <2>4, <2>5, <2>6, <2>8, OneCall
<1> QED
  BY <1>3, <1>4 DEF ServeLogin, Becomes

\* An authentication that fails gives nothing away.
LEMMA FailAuthenticationSes ==
  ASSUME SesInv, NEW c \in Tabs \X Slots, FailAuthentication(c)
  PROVE  SesInv'
<1> DEFINE status == IF call[c].kind = "verify" THEN 500 ELSE 401
           r == Answer(call[c].kind, None, NoAccount, status)
<1>1. /\ call[c].kind \in {"verify", "food", "rate", "login"}
      /\ call' = [call EXCEPT ![c] = r]
      /\ UNCHANGED <<users, lastUser, jar, page, holder>>
  BY DEF FailAuthentication, IsAt, Becomes
<1>2. call[c].kind \in Kinds /\ status \in Statuses /\ status # 200
  BY <1>1 DEF Kinds, Statuses
<1>3. failures' \in 0..MaxFailures
  BY SessionAssumption DEF FailAuthentication, SesInv, TypeOK
<1> HIDE DEF status
<1>4. r \in Calls
  BY <1>2, RefusalType
<1>5. r.kind = call[c].kind /\ r.stage = "served" /\ r.status # 200
  BY <1>2 DEF Answer, Call
<1> HIDE DEF r
<1>6. Sound(r)
  BY <1>1, <1>5 DEF Sound
<1>7. jar' \in Jars /\ holder' \in Tabs \cup {None} /\ (jar'.token # None => Own(jar'.token))
  BY <1>1 DEF SesInv, TypeOK
<1> QED
  BY <1>1, <1>3, <1>4, <1>5, <1>6, <1>7, MovedCall

\* Somebody registers: nobody gets an id that was used before, so a token
\* stays the visitor's, or nobody's.
LEMMA RegisterSes == ASSUME SesInv, Register PROVE SesInv'
<1>1. PICK account \in Accounts :
        LET all == [u \in DOMAIN users \cup {NextToken} |->
                      IF u = NextToken THEN account ELSE users[u]]
        IN /\ account.name # GlobalUsername
           /\ users' = Restrict(all, Kept(DOMAIN all, FixedUsers, MaxUsers))
  BY DEF Register
<1> DEFINE new == lastUser + 1
           kept == Kept(DOMAIN users \cup {new}, FixedUsers, MaxUsers)
<1>2. /\ lastUser' = new /\ lastUser \in 1..UserBound /\ lastUser < UserBound
      /\ UNCHANGED <<jar, page, call, holder, failures>> /\ UserBound \in Nat
  BY SessionAssumption DEF Register, SesInv, TypeOK
<1>3. kept \subseteq DOMAIN users \cup {new}
  BY DEF Kept
<1>4. users' = [u \in kept |-> IF u = new THEN account ELSE users[u]]
  BY <1>1, <1>3 DEF Restrict, NextToken
<1> HIDE DEF kept
<1>5. /\ DOMAIN users' = kept
      /\ \A u \in kept : users'[u] = IF u = new THEN account ELSE users[u]
  BY <1>4
<1>6. lastUser' \in 1..UserBound /\ lastUser \in Int /\ new \in Int /\ new # 1 /\ new \notin 1..lastUser
      /\ 1..lastUser \subseteq 1..lastUser'
  BY <1>2
<1>7. TypeOK'
  <2>1. DOMAIN users' \subseteq 1..lastUser'
    BY <1>2, <1>3, <1>5, <1>6 DEF SesInv, TypeOK
  <2>2. users' \in [DOMAIN users' -> Accounts]
    <3>1. \A u \in kept : users'[u] \in Accounts
      BY <1>3, <1>5 DEF SesInv, TypeOK
    <3> QED
      BY <1>4, <1>5, <3>1
  <2> QED
    BY <1>2, <1>6, <2>1, <2>2 DEF SesInv, TypeOK
<1>8. DefaultFirst'
  <2> SUFFICES ASSUME NEW u \in kept
               PROVE  users'[u].name = GlobalUsername <=> u = 1
    BY <1>5 DEF DefaultFirst
  <2>1. CASE u = new
    BY <1>1, <1>5, <1>6, <2>1
  <2>2. CASE u # new
    <3>1. u \in DOMAIN users /\ users'[u] = users[u]
      BY <1>3, <1>5, <2>2
    <3> QED
      BY <3>1 DEF SesInv, DefaultFirst
  <2> QED
    BY <2>1, <2>2
<1>9. \A token : Own(token) => Own(token)'
  <2> SUFFICES ASSUME NEW token, Own(token) PROVE Own(token)'
    OBVIOUS
  <2>1. token \in 1..lastUser /\ token # new /\ token \in 1..lastUser'
    BY <1>6 DEF Own
  <2> QED
    BY <1>3, <1>5, <2>1 DEF Own
<1>10. \A r : Sound(r) => Sound(r)'
  BY <1>9 DEF Sound
<1> QED
  BY <1>2, <1>7, <1>8, <1>9, <1>10 DEF SesInv, Filled

\* A cookie arrives with the answer that sets it.
LEMMA ArriveSes ==
  ASSUME SesInv, NEW c \in Tabs \X Slots, Arrive(c)
  PROVE  SesInv'
<1> DEFINE r == [call[c] EXCEPT !.stage = "arrived", !.cookie = None]
<1>1. /\ call[c] \in Calls /\ Sound(call[c]) /\ call[c].stage = "served"
      /\ call[c].kind \in {"csrf", "login"} /\ jar \in Jars
  BY DEF Arrive, IsAt, SesInv, TypeOK
<1>2. call' = [call EXCEPT ![c] = r] /\ UNCHANGED <<users, lastUser, page, failures>>
  BY DEF Arrive, Becomes
<1>3. r \in Calls /\ r.kind = call[c].kind /\ r.stage = "arrived"
  BY <1>1, Words DEF Calls
<1>4. Sound(r)
  BY <1>1, <1>3 DEF Sound
<1>5. c[1] \in Tabs
  OBVIOUS
<1>6. holder' \in Tabs \cup {None} /\ failures' \in 0..MaxFailures
  BY <1>5 DEF Arrive, SesInv, TypeOK
<1>7. CASE call[c].kind = "csrf"
  <2>1. jar' = [jar EXCEPT !.csrf = call[c].cookie] /\ call[c].cookie \in Nonces
    BY <1>1, <1>7 DEF Arrive, JarAfter, Sound
  <2>2. jar' \in Jars /\ jar'.token = jar.token
    BY <1>1, <2>1 DEF Jars
  <2>3. jar'.token # None => Own(jar'.token)
    BY <2>2 DEF SesInv
  <2> HIDE DEF r
  <2> QED
    BY <1>2, <1>3, <1>4, <1>6, <2>2, <2>3, MovedCall
<1>8. CASE call[c].kind = "login" /\ call[c].status = 200
  <2>1. jar' = [token |-> call[c].cookie, csrf |-> None] /\ Own(call[c].cookie)
    BY <1>1, <1>8 DEF Arrive, JarAfter, Sound
  <2>2. call[c].cookie \in 1..UserBound
    BY <2>1, SessionAssumption DEF Own, SesInv, TypeOK
  <2>3. jar' \in Jars /\ jar'.token = call[c].cookie
    BY <2>1, <2>2 DEF Jars
  <2> HIDE DEF r
  <2> QED
    BY <1>2, <1>3, <1>4, <1>6, <2>1, <2>3, MovedCall
<1>9. CASE call[c].kind = "login" /\ call[c].status # 200
  <2>1. jar' = jar
    BY <1>9 DEF Arrive, JarAfter
  <2> HIDE DEF r
  <2> QED
    BY <1>1, <1>2, <1>3, <1>4, <1>6, <2>1, MovedCall DEF SesInv
<1> QED
  BY <1>1, <1>7, <1>8, <1>9

-----------------------------------------------------------------------------
(* The scripts go on *)

\* A call of a page ends, and the page may fill or empty its form: it is not
\* loading any more.
LEMMA EndCall ==
  ASSUME SesInv, NEW t \in Tabs, NEW slot \in Slots,
         call' = [call EXCEPT ![<<t, slot>>] = NoCall],
         page' \in [Tabs -> Pages], \A u \in Tabs : u # t => page'[u] = page[u],
         slot = "click" => page'[t].form \in {None, page[t].form},
         UNCHANGED <<users, lastUser, jar, holder, failures>>
  PROVE  SesInv'
<1>1. <<t, slot>> \in Tabs \X Slots
  OBVIOUS
<1>2. call' \in [Tabs \X Slots -> Calls]
  BY NoCallSound DEF SesInv, TypeOK
<1>3. \A d \in Tabs \X Slots : call'[d] = IF d = <<t, slot>> THEN NoCall ELSE call[d]
  BY <1>1 DEF SesInv, TypeOK
<1>4. \A d \in Tabs \X Slots : Sound(call'[d])
  BY <1>3, NoCallSound DEF SesInv
<1>5. ASSUME NEW u \in Tabs, NEW s \in Slots, call'[<<u, s>>].kind \in {"verify", "csrf"}
      PROVE  s = "load" /\ page'[u].form = None
  <2>1. <<u, s>> \in Tabs \X Slots
    OBVIOUS
  <2>2. call'[<<u, s>>] = call[<<u, s>>] /\ <<u, s>> # <<t, slot>>
    BY <1>3, <1>5, <2>1, NoCallSound
  <2>3. s = "load" /\ page[u].form = None
    BY <1>5, <2>2 DEF SesInv, Filled
  <2>4. CASE u = t
    BY <2>2, <2>3, <2>4 DEF Slots
  <2> QED
    BY <2>3, <2>4
<1>6. /\ jar' \in Jars /\ holder' \in Tabs \cup {None} /\ (jar'.token # None => Own(jar'.token))
      /\ failures' \in 0..MaxFailures
  BY DEF SesInv, TypeOK
<1> QED
  BY <1>2, <1>4, <1>5, <1>6, BrowserStep

\* A page fills its form with the CSRF cookie.
LEMMA ContinueCsrfSes == ASSUME SesInv, NEW t \in Tabs, ContinueCsrf(t) PROVE SesInv'
<1>1. jar.csrf \in Nonces \cup {None}
  BY DEF SesInv, TypeOK, Jars
<1>2. page' \in [Tabs -> Pages] /\ \A u \in Tabs : u # t => page'[u] = page[u]
  BY <1>1 DEF ContinueCsrf, SesInv, TypeOK, Pages
<1>3. "load" \in Slots
  BY DEF Slots
<1> QED
  BY <1>2, <1>3, EndCall DEF ContinueCsrf, Becomes

\* A page has the answer to a click.
LEMMA ContinueClickSes == ASSUME SesInv, NEW t \in Tabs, ContinueClick(t) PROVE SesInv'
<1> DEFINE in == jar.token # None
<1>1. page' \in {page, [page EXCEPT ![t].loggedIn = in,
                                    ![t].form = IF in THEN None ELSE page[t].form]}
  BY DEF ContinueClick
<1>2. page \in [Tabs -> Pages] /\ page[t] \in Pages
  BY DEF SesInv, TypeOK
<1>3. page' \in [Tabs -> Pages]
  <2>1. in \in BOOLEAN /\ (IF in THEN None ELSE page[t].form) \in Nonces \cup {None}
    BY <1>2 DEF Pages
  <2> HIDE DEF in
  <2> QED
    BY <1>1, <1>2, <2>1 DEF Pages
<1>4. /\ \A u \in Tabs : u # t => page'[u] = page[u]
      /\ page'[t].form \in {None, page[t].form}
  <2> HIDE DEF in
  <2> QED
    BY <1>1, <1>2 DEF Pages
<1>5. "click" \in Slots
  BY DEF Slots
<1> QED
  BY <1>3, <1>4, <1>5, EndCall DEF ContinueClick, Becomes

\* A call is lost.
LEMMA LoseSes == ASSUME SesInv, NEW c \in Tabs \X Slots, Lose(c) PROVE SesInv'
<1>1. PICK t \in Tabs, slot \in Slots : c = <<t, slot>>
  OBVIOUS
<1>2. CASE call[c].kind = "verify"
  <2>1. slot = "load" /\ c[1] = t
    BY <1>1, <1>2 DEF SesInv, Filled
  <2>2. Verified(t, FALSE)
    BY <1>2, <2>1 DEF Lose
  <2> QED
    BY <1>1, <1>2, <2>1, <2>2, VerifiedSes
<1>3. CASE call[c].kind # "verify"
  BY <1>3, NoCallSound, OneCall DEF Lose, Becomes
<1> QED
  BY <1>2, <1>3

-----------------------------------------------------------------------------
(* The theorems *)

\* Initially nobody has a cookie, and no call is under way.
LEMMA InitSes == Init => SesInv
<1> SUFFICES ASSUME Init PROVE SesInv
  OBVIOUS
<1>1. PICK n \in 1..UserBound : SeedAccounts \in [1..n -> Accounts]
  BY SessionAssumption
<1>2. n \in Nat /\ UserBound \in Nat /\ Cardinality(1..n) = n
  BY <1>1, SessionAssumption, FS_Interval
<1>3. users = SeedAccounts /\ lastUser = n /\ DOMAIN users = 1..n
  BY <1>1, <1>2 DEF Init
<1>4. jar \in Jars /\ jar.token = None
  BY DEF Init, Jars
<1>5. page \in [Tabs -> Pages]
  <2>1. [at |-> "closed", loggedIn |-> FALSE, form |-> None] \in Pages
    BY PageType
  <2> QED
    BY <2>1 DEF Init
<1>6. call \in [Tabs \X Slots -> Calls] /\ \A c \in Tabs \X Slots : call[c] = NoCall
  BY NoCallSound DEF Init
<1>7. TypeOK
  <2>1. failures \in 0..MaxFailures
    BY SessionAssumption DEF Init
  <2> QED
    BY <1>1, <1>2, <1>3, <1>4, <1>5, <1>6, <2>1 DEF Init, TypeOK
<1>8. DefaultFirst
  BY <1>1, <1>3, SessionAssumption DEF DefaultFirst
<1>9. \A c \in Tabs \X Slots : Sound(call[c])
  BY <1>6, NoCallSound
<1>10. \A t \in Tabs, slot \in Slots : Filled(t, slot)
  BY <1>6, NoCallSound DEF Filled
<1> QED
  BY <1>4, <1>7, <1>8, <1>9, <1>10 DEF SesInv

\* Every step preserves the invariant.
LEMMA StepSes == SesInv /\ [Next]_vars => SesInv'
<1> SUFFICES ASSUME SesInv, [Next]_vars PROVE SesInv'
  OBVIOUS
<1>1. CASE UNCHANGED vars
  BY <1>1 DEF vars, SesInv, TypeOK, DefaultFirst, Own, Sound, Filled
<1>2. CASE Register
  BY <1>2, RegisterSes
<1>3. ASSUME NEW t \in Tabs,
             \/ \E where \in {"main", "login"} : Open(t, where)
             \/ SubmitLogin(t) \/ Logout(t) \/ GetFood(t) \/ Rate(t)
             \/ ContinueVerify(t) \/ ContinueCsrf(t) \/ ContinueClick(t)
      PROVE  SesInv'
  <2>1. CASE ContinueVerify(t)
    BY <2>1, VerifiedSes DEF ContinueVerify, IsAt
  <2> QED
    BY <1>3, <2>1, OpenSes, ClickSes, ContinueCsrfSes, ContinueClickSes
<1>4. ASSUME NEW c \in Tabs \X Slots,
             \/ ServeUser(c) \/ ServeCsrf(c) \/ ServeLogin(c) \/ FailAuthentication(c)
             \/ Arrive(c) \/ Lose(c)
      PROVE  SesInv'
  BY <1>4, ServeUserSes, ServeCsrfSes, ServeLoginSes, FailAuthenticationSes, ArriveSes, LoseSes
<1> QED
  BY <1>1, <1>2, <1>3, <1>4 DEF Next

\* SesInv is an invariant of the visitor's sessions.
LEMMA SesInvariant == Spec => []SesInv
BY InitSes, StepSes, PTL DEF Spec

\* Every variable keeps its type: the jar only ever holds tokens of users that
\* have existed and CSRF tokens that the service has made.
THEOREM TypeCorrect == Spec => []TypeOK
<1>1. SesInv => TypeOK
  BY DEF SesInv
<1> QED
  BY <1>1, SesInvariant, PTL

\* A request is served as an account whose password the visitor knows, or as
\* the default user, whoever registers under whatever name meanwhile.
THEOREM ServedAsOneself == Spec => []NeverSomebodyElse
<1>1. SesInv => NeverSomebodyElse
  BY DEF SesInv, Sound, Harmless, NeverSomebodyElse
<1> QED
  BY <1>1, SesInvariant, PTL

\* The form of the page that was the last to fetch a CSRF token has the value
\* of the cookie.
THEOREM LastFormHolds == Spec => []LastFormWorks
<1>1. Init => LastFormWorks
  BY SessionAssumption DEF Init, LastFormWorks
<1>2. SesInv /\ SesInv' /\ LastFormWorks /\ [Next]_vars => LastFormWorks'
  <2> SUFFICES ASSUME SesInv, LastFormWorks, [Next]_vars,
                      NEW t \in Tabs, holder' = t, page'[t].form # None
               PROVE  page'[t].form = jar'.csrf
    BY DEF LastFormWorks
  <2>1. page[t] \in Pages /\ page \in [Tabs -> Pages] /\ jar \in Jars
    BY DEF SesInv, TypeOK
  <2>2. CASE page'[t].form = page[t].form /\ jar'.csrf = jar.csrf /\ holder' = holder
    BY <2>2 DEF LastFormWorks
  <2>3. CASE UNCHANGED <<page, jar, holder>>
    BY <2>2, <2>3
  <2>4. ASSUME NEW u \in Tabs,
               \/ \E where \in {"main", "login"} : Open(u, where)
               \/ Logout(u) \/ ContinueCsrf(u)
        PROVE  page'[t].form = jar'.csrf
    <3>1. holder' = holder /\ jar'.csrf = jar.csrf
      BY <2>1, <2>4 DEF Open, Logout, ContinueCsrf, Jars
    <3>2. u # t => page'[t] = page[t]
      BY <2>1, <2>4 DEF Open, Logout, ContinueCsrf
    <3>3. u = t => page'[t].form \in {None, jar.csrf}
      BY <2>1, <2>4 DEF Open, Logout, ContinueCsrf, Pages
    <3> QED
      BY <2>2, <3>1, <3>2, <3>3
  <2>5. ASSUME NEW u \in Tabs, (\E ok \in BOOLEAN : Verified(u, ok)) \/ ContinueClick(u)
        PROVE  page'[t].form = jar'.csrf
    <3>1. holder' = holder /\ jar' = jar
      BY <2>5 DEF Verified, ContinueClick
    <3>2. page'[t].form \in {None, page[t].form}
      BY <2>1, <2>5 DEF Verified, ContinueClick, Pages
    <3> QED
      BY <2>2, <3>1, <3>2
  <2>6. ASSUME NEW c \in Tabs \X Slots, Arrive(c)
        PROVE  page'[t].form = jar'.csrf
    <3>1. PICK u \in Tabs, slot \in Slots : c = <<u, slot>>
      OBVIOUS
    <3>2. page' = page
      BY <2>6 DEF Arrive
    <3>3. CASE call[c].kind = "csrf"
      <4>1. t = u
        BY <2>6, <3>1, <3>3 DEF Arrive
      <4>2. page[u].form = None
        BY <3>1, <3>3 DEF SesInv, Filled
      <4> QED
        BY <3>2, <4>1, <4>2
    <3>4. CASE call[c].kind = "login" /\ call[c].status = 200
      BY <2>6, <3>4, SessionAssumption DEF Arrive
    <3>5. CASE call[c].kind = "login" /\ call[c].status # 200
      BY <2>2, <2>6, <3>2, <3>5 DEF Arrive, JarAfter
    <3> QED
      BY <2>6, <3>3, <3>4, <3>5 DEF Arrive, IsAt
  <2>7. ASSUME NEW c \in Tabs \X Slots, Lose(c)
        PROVE  page'[t].form = jar'.csrf
    <3>1. c[1] \in Tabs /\ FALSE \in BOOLEAN
      OBVIOUS
    <3> QED
      BY <2>3, <2>5, <2>7, <3>1 DEF Lose
  <2>8. CASE UNCHANGED vars
    BY <2>3, <2>8 DEF vars
  <2>9. CASE Register
    BY <2>3, <2>9 DEF Register
  <2>10. ASSUME NEW u \in Tabs,
                SubmitLogin(u) \/ GetFood(u) \/ Rate(u) \/ ContinueVerify(u)
         PROVE  page'[t].form = jar'.csrf
    <3>1. CASE SubmitLogin(u) \/ GetFood(u) \/ Rate(u)
      BY <2>3, <3>1 DEF SubmitLogin, GetFood, Rate
    <3>2. CASE ContinueVerify(u)
      BY <2>5, <3>2 DEF ContinueVerify
    <3> QED
      BY <2>10, <3>1, <3>2
  <2>11. ASSUME NEW c \in Tabs \X Slots,
                ServeUser(c) \/ ServeCsrf(c) \/ ServeLogin(c) \/ FailAuthentication(c)
         PROVE  page'[t].form = jar'.csrf
    BY <2>3, <2>11 DEF ServeUser, ServeCsrf, ServeLogin, FailAuthentication
  <2>12. ASSUME NEW u \in Tabs,
                \/ \E where \in {"main", "login"} : Open(u, where)
                \/ SubmitLogin(u) \/ Logout(u) \/ GetFood(u) \/ Rate(u)
                \/ ContinueVerify(u) \/ ContinueCsrf(u) \/ ContinueClick(u)
         PROVE  page'[t].form = jar'.csrf
    BY <2>4, <2>5, <2>10, <2>12
  <2> QED
    BY <2>6, <2>7, <2>8, <2>9, <2>11, <2>12 DEF Next
<1> QED
  BY <1>1, <1>2, SesInvariant, PTL DEF Spec

-----------------------------------------------------------------------------
(* Made-up tokens *)

DefaultIsFixed == 1 <= FixedUsers \/ MaxUsers <= 0

\* The default user stays, if it is fixed or the table is not limited.
LEMMA DefaultStays ==
  ASSUME DefaultIsFixed, SesInv, 1 \in DOMAIN users, [Next]_vars
  PROVE  1 \in DOMAIN users'
<1>1. CASE users' = users
  BY <1>1
<1>2. CASE Register
  <2>1. PICK account \in Accounts :
          LET all == [u \in DOMAIN users \cup {NextToken} |->
                        IF u = NextToken THEN account ELSE users[u]]
          IN users' = Restrict(all, Kept(DOMAIN all, FixedUsers, MaxUsers))
    BY <1>2 DEF Register
  <2>2. 1 \in Kept(DOMAIN users \cup {NextToken}, FixedUsers, MaxUsers)
    BY DEF Kept, DefaultIsFixed
  <2> QED
    BY <2>1, <2>2 DEF Restrict
<1> QED
  BY <1>1, <1>2 DEF Next, vars, Open, SubmitLogin, Logout, GetFood, Rate, ContinueVerify,
       ContinueCsrf, ContinueClick, Verified, ServeUser, ServeCsrf, ServeLogin, FailAuthentication, Arrive, Lose

\* The steps of a page, and of a service for another kind of call, serve no
\* food: the call is authenticated, or its authentication fails.
LEMMA ServedByCatalog ==
  ASSUME SesInv, [Next]_vars, NEW c \in Tabs \X Slots, Served(c), call[c].kind = "food"
  PROVE  ServeUser(c) \/ failures' = failures + 1
<1>1. call \in [Tabs \X Slots -> Calls] /\ call[c].stage = "sent" /\ call'[c].stage = "served"
  BY DEF SesInv, TypeOK, Served
<1>2. ASSUME NEW d \in Tabs \X Slots, NEW r, call' = [call EXCEPT ![d] = r],
             r.stage # "served" \/ d # c
      PROVE  FALSE
  BY <1>1, <1>2
<1>3. call' # call
  BY <1>1
<1>4. NoCall.stage = "none" /\ FetchCsrf.stage = "sent"
      /\ \A kind, anonymous : AsUser(kind, anonymous).stage = "sent"
      /\ \A field, account : Login(field, account).stage = "sent"
  BY DEF NoCall, FetchCsrf, AsUser, Login, Call
<1>5. "load" \in Slots /\ "click" \in Slots
  BY DEF Slots
<1>6. ASSUME NEW t \in Tabs, NEW ok \in BOOLEAN, Verified(t, ok) PROVE FALSE
  BY <1>2, <1>4, <1>5, <1>6 DEF Verified, Becomes
<1>7. ASSUME NEW t \in Tabs, NEW r, r.stage # "served",
             call' = [call EXCEPT ![<<t, "load">>] = r, ![<<t, "click">>] = NoCall]
      PROVE  FALSE
  BY <1>1, <1>4, <1>5, <1>7
<1>8. ASSUME NEW t \in Tabs,
             \/ \E where \in {"main", "login"} : Open(t, where)
             \/ Logout(t)
      PROVE  FALSE
  <2>1. \A where : Loading(where).stage # "served"
    BY <1>4 DEF Loading
  <2> QED
    BY <1>4, <1>7, <1>8, <2>1 DEF Open, Logout
<1>9. ASSUME NEW t \in Tabs, SubmitLogin(t) \/ GetFood(t) \/ Rate(t) PROVE FALSE
  <2>1. PICK r : call' = [call EXCEPT ![<<t, "click">>] = r] /\ r.stage = "sent"
    <3>1. CASE SubmitLogin(t)
      <4>1. PICK name, password :
              call' = [call EXCEPT ![<<t, "click">>] =
                         Login(page[t].form, [name |-> name, password |-> password])]
        BY <3>1 DEF SubmitLogin, Becomes
      <4> DEFINE r == Login(page[t].form, [name |-> name, password |-> password])
      <4>2. r.stage = "sent"
        BY <1>4
      <4>3. call' = [call EXCEPT ![<<t, "click">>] = r]
        BY <4>1
      <4> HIDE DEF r
      <4> QED
        BY <4>2, <4>3
    <3>2. CASE GetFood(t)
      BY <1>4, <3>2 DEF GetFood, Becomes
    <3>3. CASE Rate(t)
      BY <1>4, <3>3 DEF Rate, Becomes
    <3> QED
      BY <1>9, <3>1, <3>2, <3>3
  <2> QED
    BY <1>2, <1>5, <2>1
<1>10. ASSUME NEW t \in Tabs, ContinueVerify(t) \/ ContinueCsrf(t) \/ ContinueClick(t)
       PROVE  FALSE
  <2>1. CASE ContinueVerify(t)
    BY <1>6, <2>1 DEF ContinueVerify
  <2>2. CASE ContinueCsrf(t) \/ ContinueClick(t)
    BY <1>2, <1>4, <1>5, <2>2 DEF ContinueCsrf, ContinueClick, Becomes
  <2> QED
    BY <1>10, <2>1, <2>2
<1>11. ASSUME NEW d \in Tabs \X Slots, Lose(d) PROVE FALSE
  <2>1. d[1] \in Tabs /\ FALSE \in BOOLEAN
    OBVIOUS
  <2> QED
    BY <1>2, <1>4, <1>6, <1>11, <2>1 DEF Lose, Becomes
<1>12. ASSUME NEW d \in Tabs \X Slots, Arrive(d) PROVE FALSE
  <2>1. [call[d] EXCEPT !.stage = "arrived", !.cookie = None].stage = "arrived"
    BY <1>1 DEF Calls
  <2> QED
    BY <1>2, <1>12, <2>1 DEF Arrive, Becomes
<1>13. ASSUME NEW d \in Tabs \X Slots, ServeUser(d) \/ ServeCsrf(d) \/ ServeLogin(d)
       PROVE  ServeUser(c)
  <2>1. d = c
    BY <1>2, <1>13 DEF ServeUser, ServeCsrf, ServeLogin, Becomes
  <2> QED
    BY <1>13, <2>1 DEF ServeCsrf, ServeLogin, IsAt
<1>14. ASSUME NEW d \in Tabs \X Slots, FailAuthentication(d) PROVE failures' = failures + 1
  BY <1>14 DEF FailAuthentication
<1> QED
  BY <1>3, <1>6, <1>8, <1>9, <1>10, <1>11, <1>12, <1>13, <1>14 DEF Next, vars, Register

\* A page that adds a made-up token is refused only by an authentication that
\* fails, as long as the default user is fixed or the table of users is not
\* limited.
THEOREM MadeUpTokensWork == ASSUME DefaultIsFixed PROVE Spec => VisitorsServed
<1>1. Init => 1 \in DOMAIN users
  <2> SUFFICES ASSUME Init PROVE 1 \in DOMAIN users
    OBVIOUS
  <2>1. PICK n \in 1..UserBound : SeedAccounts \in [1..n -> Accounts]
    BY SessionAssumption
  <2> QED
    BY <2>1, SessionAssumption DEF Init
<1>2. SesInv /\ 1 \in DOMAIN users /\ [Next]_vars => (1 \in DOMAIN users)'
  BY DefaultStays
<1>3. SesInv /\ 1 \in DOMAIN users /\ [Next]_vars
        => [\A c \in Tabs \X Slots :
              Served(c) /\ call[c].kind = "food" /\ call[c].anonymous /\ call'[c].status # 200
                => failures' = failures + 1]_vars
  <2> SUFFICES ASSUME SesInv, 1 \in DOMAIN users, [Next]_vars, NEW c \in Tabs \X Slots,
                      Served(c), call[c].kind = "food", call[c].anonymous,
                      failures' # failures + 1
               PROVE  call'[c].status = 200
    OBVIOUS
  <2>1. ServeUser(c)
    BY ServedByCatalog
  <2> DEFINE token == TokenOf(call[c])
             r == Answer(call[c].kind, None, users[Authenticated(token)], 200)
  <2>2. token # None /\ Authenticated(token) \in DOMAIN users
    BY SessionAssumption
       DEF TokenOf, ForwardedToken, RequestToken, Header, AnonymousToken, Authenticated
  <2>3. call' = [call EXCEPT ![c] = r]
    BY <2>1, <2>2 DEF ServeUser, Becomes
  <2>4. r.status = 200
    BY DEF Answer, Call
  <2> HIDE DEF r
  <2> QED
    BY <2>3, <2>4 DEF SesInv, TypeOK
<1> QED
  BY <1>1, <1>2, <1>3, SesInvariant, PTL DEF Spec, VisitorsServed

=============================================================================
