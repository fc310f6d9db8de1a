------------------------------ MODULE Catalog ------------------------------
(***************************************************************************)
(* The catalog service: the users, foods and ratings tables of             *)
(* pkg/database/catalog.go and the HTTP handlers of pkg/http/http.go that  *)
(* change them.                                                            *)
(*                                                                         *)
(* Every request is served by a goroutine of its own, and a handler makes  *)
(* several trips to the database: it authenticates the caller, looks a row *)
(* up, and only then writes.  Each trip is one step here, because other    *)
(* handlers run between them; a transaction (RunInTx) is one step, as it   *)
(* is on SQLite, where write transactions exclude each other.  What        *)
(* PostgreSQL adds is in PgTables, what the SQLite connection pool takes   *)
(* away is in SqlitePool.                                                  *)
(*                                                                         *)
(* A user's token is identified with the user's row id: both are unique    *)
(* and neither ever changes.  Token 0 is one that no row has.              *)
(***************************************************************************)
EXTENDS TableLimits, Functions

CONSTANTS
  Handlers,        \* request goroutines that may be active at the same time
  Names,           \* usernames that clients ask for
  GlobalUsername,  \* "default", the name of user 1
  NoName,
  Ingredients,
  StarInputs,      \* values clients send as stars, the invalid ones included
  FoodIdInputs,    \* ids in the bodies of recorded foods; 0 where there is none
  FixedUsers, FixedFoods, FixedRatings,
  MaxUsers, MaxFoods, MaxRatings,
  SeedUsers,       \* number of seeded users
  SeedNames,       \* SeedNames[i]: username of seeded user i
  SeedFoods,       \* number of seeded foods; user 1 has rated the first ones
  SeedRatings,
  FKModes,         \* {TRUE}: every connection enforces foreign keys
  UserBound, FoodBound, RatingBound   \* largest row ids explored

Stars == 1..5
NoUser == 0

ASSUME LimitsAssumption ==
  /\ FixedUsers \in Int /\ FixedFoods \in Int /\ FixedRatings \in Int
  /\ MaxUsers \in Int /\ MaxFoods \in Int /\ MaxRatings \in Int
  /\ UserBound \in Nat /\ FoodBound \in Nat /\ RatingBound \in Nat
  /\ FoodIdInputs \subseteq Int

ASSUME SeedAssumption ==
  /\ SeedFoods \in Nat /\ SeedRatings \in Nat /\ SeedRatings <= SeedFoods
  /\ SeedUsers \in Nat \ {0}
  /\ SeedNames \in [1..SeedUsers -> Names \cup {GlobalUsername}]
  /\ \A i, j \in 1..SeedUsers : SeedNames[i] = SeedNames[j] => i = j
  /\ SeedNames[1] = GlobalUsername
  /\ NoName \notin Names \cup {GlobalUsername}

ASSUME FKAssumption == FKModes \in {{TRUE}, {FALSE}, {TRUE, FALSE}}

VARIABLES
  users,              \* row id -> username
  foods,              \* row ids
  foodToIngredients,  \* rows <<food id, ingredient id>>
  ratings,            \* row id -> [user, food, stars]
  lastUser, lastFood, lastRating,  \* AUTOINCREMENT counters
  handler             \* handler -> its local variables and last response

tables == <<users, foods, foodToIngredients, ratings,
            lastUser, lastFood, lastRating>>
vars == <<tables, handler>>

\* The local variables of a handler between two trips to the database, and
\* its last response when it is idle.
Locals(pc, user, name, target, stars, status) ==
  [pc |-> pc, user |-> user, name |-> name, target |-> target,
   stars |-> stars, status |-> status]

Idle == Locals("idle", NoUser, NoName, 0, 0, 0)

Init ==
  /\ users = SeedNames
  /\ foods = 1..SeedFoods
  /\ foodToIngredients = foods \X Ingredients
  /\ ratings = [i \in 1..SeedRatings |-> [user |-> 1, food |-> i, stars |-> 5]]
  /\ lastUser = SeedUsers
  /\ lastFood = SeedFoods
  /\ lastRating = SeedRatings
  /\ handler = [h \in Handlers |-> Idle]

-----------------------------------------------------------------------------
(* Steps of a handler *)

At(h, label) == handler[h].pc = label

Become(h, locals) == handler' = [handler EXCEPT ![h] = locals]

\* The response is written; target is the id of the row it returns, if any.
Reply(h, code, id) == Become(h, Locals("idle", NoUser, NoName, id, 0, code))

\* The handler goes on to its next trip to the database.
Continue(h, label, id, stars) ==
  Become(h, Locals(label, handler[h].user, handler[h].name, id, stars, 0))

IsGlobal(h) == handler[h].name = GlobalUsername

\* SELECT ... WHERE id = ? AND user_id = ?
Owns(h, id) == id \in DOMAIN ratings /\ ratings[id].user = handler[h].user

UsernameExists(name) == \E u \in DOMAIN users : users[u] = name

\* The UNIQUE index on users.username, and its mutant without the index.
NoUniqueIndex(name) == FALSE
UsernameConflict(name) == UsernameExists(name)

\* Rating.Validate, and its mutant that lets 0 through.
ValidStarsFromZero(stars) == stars \in 0..5
ValidStars(stars) == stars \in Stars

-----------------------------------------------------------------------------
(* Row ids, and what a DELETE on one table does to the others: ON DELETE   *)
(* CASCADE, on a connection that enforces foreign keys (fk).               *)

\* AUTOINCREMENT never hands out an id twice; the mutant is a plain rowid.
MaxPlusOne(last, ids) == IF ids = {} THEN 1
                         ELSE 1 + CHOOSE i \in ids : \A j \in ids : j <= i
NextId(last, ids) == last + 1

\* The counter after a row was inserted under an id.
Counter(last, id) == IF id > last THEN id ELSE last

\* Mutant of KeepUsers: ratings.user_id without ON DELETE CASCADE.
KeepUsersNoCascade(kept, all, fk) == users' = Restrict(all, kept) /\ ratings' = ratings

KeepUsers(kept, all, fk) ==
  LET gone == DOMAIN all \ kept
  IN /\ users' = Restrict(all, kept)
     /\ ratings' = IF fk THEN Restrict(ratings, {i \in DOMAIN ratings : ratings[i].user \notin gone})
                         ELSE ratings

KeepFoods(kept, all, rows, fk) ==
  LET gone == all \ kept
  IN /\ foods' = kept
     /\ foodToIngredients' = IF fk THEN {row \in rows : row[1] \notin gone} ELSE rows
     /\ ratings' = IF fk THEN Restrict(ratings, {i \in DOMAIN ratings : ratings[i].food \notin gone})
                         ELSE ratings

-----------------------------------------------------------------------------
(* Users *)

\* AuthMiddleware: a token nobody has is the default user's.
Authenticate(h) ==
  /\ At(h, "idle")
  /\ \E token \in 0..lastUser :
       LET user == IF token \in DOMAIN users THEN token ELSE 1
       IN IF user \in DOMAIN users
          THEN Become(h, Locals("authenticated", user, users[user], 0, 0, 0))
          ELSE Reply(h, 401, 0)
  /\ UNCHANGED tables

\* POST /api/users up to the SELECT that looks for the username.
PostUser(h) ==
  /\ At(h, "idle")
  /\ \E name \in Names \cup {GlobalUsername} :
       IF name = GlobalUsername \/ UsernameExists(name)
       THEN Reply(h, 400, 0)
       ELSE Become(h, Locals("recordUser", NoUser, name, 0, 0, 0))
  /\ UNCHANGED tables

\* The transaction of RecordUser.  The username column is UNIQUE: the loser
\* of a race gets the database's error, not ErrUsernameTaken.
RecordUser(h, fk) ==
  /\ At(h, "recordUser")
  /\ \/ /\ UsernameConflict(handler[h].name)
        /\ Reply(h, 500, 0)
        /\ UNCHANGED tables
     \/ /\ ~UsernameConflict(handler[h].name)
        /\ lastUser < UserBound
        /\ LET id == NextId(lastUser, DOMAIN users)
               all == [u \in DOMAIN users \cup {id} |->
                         IF u = id THEN handler[h].name ELSE users[u]]
           IN /\ KeepUsers(Kept(DOMAIN all, FixedUsers, MaxUsers), all, fk)
              /\ lastUser' = id
              /\ Reply(h, 201, id)
        /\ UNCHANGED <<foods, foodToIngredients, lastFood, lastRating>>

-----------------------------------------------------------------------------
(* Foods *)

\* POST /api/internal/recommendations without X-Is-Internal, or with a body
\* that is not a food.
RefuseRecommendation(h) ==
  /\ At(h, "idle")
  /\ \E code \in {401, 400} : Reply(h, code, 0)
  /\ UNCHANGED tables

\* A recorded food keeps the id of its body, whatever it is, and takes the next
\* one where the body has none: unlike RecordUser and RecordRating, nothing
\* resets it.
FoodId(asked) == IF asked = 0 THEN NextId(lastFood, foods) ELSE asked

\* POST /api/internal/recommendations: one transaction.  An id that is taken, or
\* an ingredient row that a deleted food left behind, is a primary key conflict.
RecordRecommendation(h, fk) ==
  /\ At(h, "idle")
  /\ \E asked \in FoodIdInputs, used \in SUBSET Ingredients :
       LET id == FoodId(asked)
           all == foods \cup {id}
           new == {id} \X used
           conflict == id \in foods \/ new \cap foodToIngredients # {}
       IN \/ /\ conflict
             /\ Reply(h, 500, 0)
             /\ UNCHANGED <<foods, foodToIngredients, ratings, lastFood>>
          \/ /\ ~conflict
             /\ id <= FoodBound
             /\ KeepFoods(Kept(all, FixedFoods, MaxFoods), all, foodToIngredients \cup new, fk)
             /\ lastFood' = Counter(lastFood, id)
             /\ Reply(h, 201, id)
  /\ UNCHANGED <<users, lastUser, lastRating>>

-----------------------------------------------------------------------------
(* Ratings *)

\* POST /api/ratings up to the lookup of the food.
PostRating(h) ==
  /\ At(h, "authenticated")
  /\ \E stars \in StarInputs, food \in FoodIdInputs \cup 1..FoodBound :
       IF ValidStars(stars) /\ food \in foods
       THEN Continue(h, "recordRating", food, stars)
       ELSE Reply(h, 400, 0)
  /\ UNCHANGED tables

\* The transaction of RecordRating.
RecordRating(h, fk) ==
  /\ At(h, "recordRating")
  /\ LET user == handler[h].user
         food == handler[h].target
         id == NextId(lastRating, DOMAIN ratings)
         all == [i \in DOMAIN ratings \cup {id} |->
                   IF i = id THEN [user |-> user, food |-> food, stars |-> handler[h].stars]
                             ELSE ratings[i]]
     IN \/ /\ fk
           /\ user \notin DOMAIN users \/ food \notin foods
           /\ Reply(h, 400, 0)
           /\ UNCHANGED <<ratings, lastRating>>
        \/ /\ fk => user \in DOMAIN users /\ food \in foods
           /\ lastRating < RatingBound
           /\ ratings' = Restrict(all, Kept(DOMAIN all, FixedRatings, MaxRatings))
           /\ lastRating' = id
           /\ Reply(h, 201, id)
  /\ UNCHANGED <<users, foods, foodToIngredients, lastUser, lastFood>>

\* PUT or PATCH /api/ratings/{id} up to the lookup of the rating.
PutRating(h) ==
  /\ At(h, "authenticated")
  /\ \E stars \in StarInputs, id \in 1..RatingBound :
       \/ ~ValidStars(stars) /\ Reply(h, 400, 0)
       \/ ValidStars(stars) /\ IsGlobal(h) /\ Reply(h, 403, 0)
       \/ ValidStars(stars) /\ ~IsGlobal(h) /\ ~Owns(h, id) /\ Reply(h, 400, 0)
       \/ ValidStars(stars) /\ ~IsGlobal(h) /\ Owns(h, id)
            /\ Continue(h, "updateRating", id, stars)
  /\ UNCHANGED tables

\* UPDATE ... SET stars WHERE id = ?: no error when the row is gone.
UpdateRating(h) ==
  /\ At(h, "updateRating")
  /\ LET id == handler[h].target
     IN /\ ratings' = [i \in DOMAIN ratings |->
                         IF i = id THEN [ratings[i] EXCEPT !.stars = handler[h].stars]
                                   ELSE ratings[i]]
        /\ Reply(h, 200, id)
  /\ UNCHANGED <<users, foods, foodToIngredients, lastUser, lastFood, lastRating>>

\* DELETE /api/ratings
DeleteRatings(h) ==
  /\ At(h, "authenticated")
  /\ IF IsGlobal(h)
     THEN Reply(h, 403, 0) /\ UNCHANGED ratings
     ELSE /\ ratings' = Restrict(ratings, {i \in DOMAIN ratings : ~Owns(h, i)})
          /\ Reply(h, 204, 0)
  /\ UNCHANGED <<users, foods, foodToIngredients, lastUser, lastFood, lastRating>>

\* DELETE /api/ratings/{id} up to the lookup of the rating.
FindRatingToDelete(h) ==
  /\ At(h, "authenticated")
  /\ \E id \in 1..RatingBound :
       \/ IsGlobal(h) /\ Reply(h, 403, 0)
       \/ ~IsGlobal(h) /\ ~Owns(h, id) /\ Reply(h, 400, 0)
       \/ ~IsGlobal(h) /\ Owns(h, id) /\ Continue(h, "deleteRating", id, 0)
  /\ UNCHANGED tables

\* DELETE ... WHERE id = ?: no error when the row is gone.
DeleteRating(h) ==
  /\ At(h, "deleteRating")
  /\ ratings' = Restrict(ratings, DOMAIN ratings \ {handler[h].target})
  /\ Reply(h, 204, 0)
  /\ UNCHANGED <<users, foods, foodToIngredients, lastUser, lastFood, lastRating>>

-----------------------------------------------------------------------------

\* Any trip to the database may fail instead (a locked SQLite table, a lost
\* connection, the client's disconnection): the transaction is rolled back.
\* Failed authentication is a 401, failed rating operations are a 400.
DatabaseError(h) ==
  /\ \/ At(h, "idle") /\ \E code \in {401, 500} : Reply(h, code, 0)
     \/ At(h, "recordUser") /\ Reply(h, 500, 0)
     \/ handler[h].pc \notin {"idle", "recordUser"} /\ Reply(h, 400, 0)
  /\ UNCHANGED tables

\* A step of h; fk says whether the connection that its trip uses enforces
\* foreign keys.
Step(h, fk) ==
  \/ Authenticate(h)
  \/ PostUser(h)
  \/ RecordUser(h, fk)
  \/ RefuseRecommendation(h)
  \/ RecordRecommendation(h, fk)
  \/ PostRating(h)
  \/ RecordRating(h, fk)
  \/ PutRating(h)
  \/ UpdateRating(h)
  \/ DeleteRatings(h)
  \/ FindRatingToDelete(h)
  \/ DeleteRating(h)
  \/ DatabaseError(h)

Next == \E h \in Handlers, fk \in FKModes : Step(h, fk)

Spec == Init /\ [][Next]_vars

-----------------------------------------------------------------------------
(* Properties *)

UserNames == Names \cup {GlobalUsername}

Labels == {"idle", "authenticated", "recordUser", "recordRating",
           "updateRating", "deleteRating"}

HandlerType ==
  [pc : Labels, user : Nat, name : UserNames \cup {NoName},
   target : Int, stars : Stars \cup {0}, status : {0, 200, 201, 204, 400, 401, 403, 500}]

TablesType ==
  /\ lastUser \in Nat \ {0} /\ lastFood \in Nat /\ lastRating \in Nat
  /\ DOMAIN users \subseteq 1..lastUser
  /\ users \in [DOMAIN users -> UserNames]
  /\ foods \subseteq Int /\ \A f \in foods : f <= lastFood
  /\ foodToIngredients \subseteq Int \X Ingredients
  /\ DOMAIN ratings \subseteq 1..lastRating
  /\ ratings \in [DOMAIN ratings -> [user : Nat, food : Int, stars : Stars]]

\* Every variable has its type: in particular a stored rating has 1 to 5 stars
\* whatever the clients send, and no row id is above its table's counter, not
\* even that of a food that came with an id of its own.
TypeOK == TablesType /\ handler \in [Handlers -> HandlerType]

\* When every connection enforces foreign keys, no rating outlives its user or
\* its food and no ingredient row outlives its food, although handlers write
\* rows for users and foods they looked up before other handlers pruned them.
ReferentialIntegrity ==
  /\ \A i \in DOMAIN ratings :
       ratings[i].user \in DOMAIN users /\ ratings[i].food \in foods
  /\ \A row \in foodToIngredients : row[1] \in foods

\* Two concurrent registrations of a username never both succeed.
UniqueUsernames ==
  \A u, v \in DOMAIN users : users[u] = users[v] => u = v

\* enforceTableSizeLimits: a table with a limit never holds more than its limit
\* and its fixed rows.  Fixed rows of foods are not counted: they are those
\* with an id up to FixedFoods, and a body may bring any number of ids below 0.
TableSizes ==
  /\ MaxUsers > 0 => Cardinality(DOMAIN users) <= MaxUsers + FixedUsers
  /\ MaxFoods > 0 => Cardinality({f \in foods : f > FixedFoods}) <= MaxFoods
  /\ MaxRatings > 0 => Cardinality(DOMAIN ratings) <= MaxRatings + FixedRatings

\* A user can log in until MaxUsers others have registered: only age removes one.
NewestKept ==
  \A u \in 1..lastUser :
    MaxUsers <= 0 \/ u > lastUser - MaxUsers \/ u <= FixedUsers => u \in DOMAIN users

\* Authenticate "will always return a user" (catalog.go:262-265) and the
\* operations refused to the default user are refused to nobody else: pruning
\* never removes user 1, and no registration takes its name.
DefaultUserKept ==
  /\ FixedUsers >= 1 => 1 \in DOMAIN users
  /\ \A u \in DOMAIN users : users[u] = GlobalUsername <=> u = 1

\* Newer foods remain, or f is one that nothing removes.
Outnumbered(f) ==
  /\ MaxFoods > 0 /\ f > FixedFoods
  /\ Cardinality({g \in foods' : g > f}) >= MaxFoods

\* A food can be rated until as many with higher ids are there as the table may
\* hold.  That is all a recording promises: one under an id that is low already
\* is answered with 201 and may be gone.
OnlyOldFoodsLeave == [][\A f \in foods \ foods' : Outnumbered(f)]_vars

\* h takes this step.
Steps(h) == handler'[h] # handler[h]

\* Rating i goes because a table is pruned: its user's, its food's or its own.
Pruned(i) ==
  /\ i \notin DOMAIN ratings'
  /\ \/ ratings[i].user \notin DOMAIN users'
     \/ ratings[i].food \notin foods'
     \/ i > FixedRatings /\ lastRating' > lastRating

WrittenByOwners ==
  \A i \in DOMAIN ratings :
    \/ i \in DOMAIN ratings' /\ ratings'[i] = ratings[i]
    \/ Pruned(i)
    \/ \E h \in Handlers : Steps(h) /\ handler[h].user = ratings[i].user /\ ~IsGlobal(h)

\* A rating changes or disappears only by the hand of its owner, and never by
\* the default user's, or because a table is pruned: the row that DeleteRating
\* and UpdateRating looked up is still the row that they write.
OnlyOwnersWrite == [][WrittenByOwners]_vars

StoredWhenCreated ==
  \A h \in Handlers :
    Steps(h) /\ At(h, "recordRating") /\ handler'[h].status = 201
      => handler'[h].target \in DOMAIN ratings'

\* A rating answered with 201 is stored: pruning spares the row just inserted.
RatingStored == [][StoredWhenCreated]_vars

\* The comment of enforceTableSizeLimits: rows with the first K ids are never
\* deleted, here by the handlers that prune, and for the ratings table.
FixedRatingsKept ==
  [][\A h \in Handlers, i \in DOMAIN ratings :
       Steps(h) /\ handler'[h].status = 201 /\ i <= FixedRatings
         => i \in DOMAIN ratings']_vars

=============================================================================
