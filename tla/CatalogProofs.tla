--------------------------- MODULE CatalogProofs ---------------------------
(***************************************************************************)
(* The invariants of Catalog, for any number of handlers, any limits and   *)
(* any bounds.                                                             *)
(*                                                                         *)
(* What a handler remembers of a row may be stale, so the invariants are   *)
(* not inductive by themselves.  LocalOK adds what does stay true of it:   *)
(* a rating it has found to be its caller's, if still there, is still its  *)
(* caller's.  That survives the other handlers' steps because tables only  *)
(* evolve (Evolves): ids are not reused and a rating's user never changes. *)
(*                                                                         *)
(* The last section puts the catalog behind the connection pool of SQLite. *)
(***************************************************************************)
EXTENDS SqlitePool, TableLimitsProofs, SequenceTheorems

LocalOK(r) ==
  /\ r \in HandlerType
  /\ r.pc = "recordUser" => r.name \in Names \ {GlobalUsername}
  /\ r.pc = "recordRating" => r.stars \in Stars
  /\ r.pc = "updateRating" => r.stars \in Stars
  /\ r.pc \in {"updateRating", "deleteRating"} =>
       /\ r.name # GlobalUsername
       /\ r.target \in 1..lastRating
       /\ r.target \in DOMAIN ratings => ratings[r.target].user = r.user

HandlersOK ==
  /\ handler \in [Handlers -> HandlerType]
  /\ \A h \in Handlers : LocalOK(handler[h])

TypeInv == TablesType /\ HandlersOK

\* What every step does to the ratings a handler may remember.
Evolves ==
  /\ lastRating' \in Nat /\ lastRating <= lastRating'
  /\ \A i \in DOMAIN ratings' : i <= lastRating =>
       i \in DOMAIN ratings /\ ratings'[i].user = ratings[i].user

-----------------------------------------------------------------------------

\* The initial tables and handlers have their types.
LEMMA InitTypeInv == Init => TypeInv
<1> SUFFICES ASSUME Init
             PROVE  TypeInv
  OBVIOUS
<1> USE LimitsAssumption, SeedAssumption
<1>1. TablesType
  BY DEF Init, TablesType, Stars, UserNames
<1>2. Idle \in HandlerType /\ Idle.pc = "idle"
  BY DEF Idle, Locals, HandlerType, Labels, NoUser
<1>3. \A h \in Handlers : handler[h] = Idle
  BY DEF Init
<1>4. HandlersOK
  BY <1>2, <1>3 DEF Init, HandlersOK, LocalOK
<1> QED
  BY <1>1, <1>4 DEF TypeInv

\* What a handler remembers stays right when the tables evolve.
LEMMA LocalStable ==
  ASSUME NEW r, LocalOK(r), Evolves, lastRating \in Nat
  PROVE  LocalOK(r)'
BY DEF LocalOK, Evolves, HandlerType

\* A step that leaves handler h with a record that is right, and the tables
\* evolved, leaves every handler right.
LEMMA HandlersStep ==
  ASSUME TypeInv, NEW h \in Handlers, NEW r, Evolves, LocalOK(r)',
         handler' = [handler EXCEPT ![h] = r]
  PROVE  HandlersOK'
<1>1. \A k \in Handlers : LocalOK(handler[k])'
  BY LocalStable DEF TypeInv, TablesType, HandlersOK
<1>2. handler' \in [Handlers -> HandlerType]
  BY DEF TypeInv, HandlersOK, LocalOK, HandlerType
<1> QED
  BY <1>1, <1>2 DEF HandlersOK, TypeInv


\* Nothing is done to the tables.
LEMMA TablesUnchanged ==
  ASSUME TypeInv, UNCHANGED tables
  PROVE  TablesType' /\ Evolves
BY DEF TypeInv, TablesType, Evolves, tables, UserNames

\* A finished handler remembers nothing.
LEMMA ReplyOK ==
  ASSUME NEW code \in {200, 201, 204, 400, 401, 403, 500}, NEW id \in Int
  PROVE  LocalOK(Locals("idle", NoUser, NoName, id, 0, code))'
BY DEF LocalOK, HandlerType, Locals, Labels, NoUser

\* Answering a request, with the tables evolved.
LEMMA ReplyStep ==
  ASSUME TypeInv, NEW h \in Handlers, Evolves,
         NEW code \in {200, 201, 204, 400, 401, 403, 500}, NEW id \in Int,
         Reply(h, code, id)
  PROVE  HandlersOK'
<1> DEFINE r == Locals("idle", NoUser, NoName, id, 0, code)
<1>1. LocalOK(r)'
  BY ReplyOK
<1> HIDE DEF r
<1> QED
  BY <1>1, HandlersStep DEF Reply, Become, r

\* Pruning deletes rows and adds none.
LEMMA KeptSubset ==
  ASSUME NEW ids, NEW fixed, NEW maximum
  PROVE  Kept(ids, fixed, maximum) \subseteq ids
BY DEF Kept

\* The same, with what the handler remembers given as expressions of the state.
LEMMA BecomeStep ==
  ASSUME TypeInv, NEW h \in Handlers, Evolves,
         NEW pc \in Labels, NEW user \in Nat, NEW name \in UserNames \cup {NoName},
         NEW target \in Int, NEW stars \in Stars \cup {0},
         pc = "recordUser" => name \in Names \ {GlobalUsername},
         pc \in {"recordRating", "updateRating"} => stars \in Stars,
         pc \in {"updateRating", "deleteRating"} =>
           /\ name # GlobalUsername
           /\ target \in 1..lastRating'
           /\ target \in DOMAIN ratings' => ratings'[target].user = user,
         Become(h, Locals(pc, user, name, target, stars, 0))
  PROVE  HandlersOK'
<1> DEFINE r == Locals(pc, user, name, target, stars, 0)
<1>1. LocalOK(r)'
  BY DEF LocalOK, HandlerType, Locals
<1> HIDE DEF r
<1>2. HandlersOK'
  BY <1>1, HandlersStep DEF Become, r
<1> QED
  BY <1>2

-----------------------------------------------------------------------------
(* The actions that only read the tables. *)

\* A handler learns its user from a row that has that user's name.
LEMMA AuthenticateOK ==
  ASSUME TypeInv, NEW h \in Handlers, Authenticate(h)
  PROVE  TypeInv'
<1>1. TablesType' /\ Evolves
  BY TablesUnchanged DEF Authenticate
<1>2. PICK token \in 0..lastUser :
        LET user == IF token \in DOMAIN users THEN token ELSE 1
        IN IF user \in DOMAIN users
           THEN Become(h, Locals("authenticated", user, users[user], 0, 0, 0))
           ELSE Reply(h, 401, 0)
  BY DEF Authenticate
<1>3. ASSUME NEW user \in DOMAIN users,
             Become(h, Locals("authenticated", user, users[user], 0, 0, 0))
      PROVE  HandlersOK'
  <2>1. user \in Nat /\ users[user] \in UserNames
    BY DEF TypeInv, TablesType
  <2> QED
    BY <1>1, <1>3, <2>1, BecomeStep DEF Labels
<1>4. ASSUME Reply(h, 401, 0)
      PROVE  HandlersOK'
  BY <1>1, <1>4, ReplyStep
<1> QED
  BY <1>1, <1>2, <1>3, <1>4 DEF TypeInv

\* Checking a new username touches no table.
LEMMA PostUserOK ==
  ASSUME TypeInv, NEW h \in Handlers, PostUser(h)
  PROVE  TypeInv'
<1>1. TablesType' /\ Evolves
  BY TablesUnchanged DEF PostUser
<1>2. PICK name \in Names \cup {GlobalUsername} :
        IF name = GlobalUsername \/ UsernameExists(name)
        THEN Reply(h, 400, 0)
        ELSE Become(h, Locals("recordUser", NoUser, name, 0, 0, 0))
  BY DEF PostUser
<1>3. ASSUME name \in Names \ {GlobalUsername},
             Become(h, Locals("recordUser", NoUser, name, 0, 0, 0))
      PROVE  HandlersOK'
  BY <1>1, <1>3, BecomeStep DEF Labels, NoUser, UserNames
<1>4. ASSUME Reply(h, 400, 0)
      PROVE  HandlersOK'
  BY <1>1, <1>4, ReplyStep
<1> QED
  BY <1>1, <1>2, <1>3, <1>4 DEF TypeInv

\* A refused recording ends its handler and leaves the tables alone.
LEMMA RefuseRecommendationOK ==
  ASSUME TypeInv, NEW h \in Handlers, RefuseRecommendation(h)
  PROVE  TypeInv'
<1>1. TablesType' /\ Evolves
  BY TablesUnchanged DEF RefuseRecommendation
<1>2. HandlersOK'
  BY <1>1, ReplyStep DEF RefuseRecommendation
<1> QED
  BY <1>1, <1>2 DEF TypeInv

\* Stars are validated before a handler carries them to the table.
LEMMA PostRatingOK ==
  ASSUME TypeInv, NEW h \in Handlers, PostRating(h)
  PROVE  TypeInv'
<1>1. TablesType' /\ Evolves
  BY TablesUnchanged DEF PostRating
<1>2. PICK stars \in StarInputs, food \in FoodIdInputs \cup 1..FoodBound :
        IF ValidStars(stars) /\ food \in foods
        THEN Continue(h, "recordRating", food, stars)
        ELSE Reply(h, 400, 0)
  BY DEF PostRating
<1>3. ASSUME ValidStars(stars), Continue(h, "recordRating", food, stars)
      PROVE  HandlersOK'
  <2>1. /\ handler[h].user \in Nat /\ handler[h].name \in UserNames \cup {NoName}
        /\ food \in Int /\ stars \in Stars
    BY <1>3, LimitsAssumption DEF TypeInv, HandlersOK, HandlerType, ValidStars
  <2> QED
    BY <1>1, <1>3, <2>1, BecomeStep DEF Labels, Continue
<1>4. ASSUME Reply(h, 400, 0)
      PROVE  HandlersOK'
  BY <1>1, <1>4, ReplyStep
<1> QED
  BY <1>1, <1>2, <1>3, <1>4 DEF TypeInv

\* The two handlers that look a rating up before they write it.
LEMMA FoundRatingStep ==
  ASSUME TypeInv, NEW h \in Handlers, UNCHANGED tables,
         NEW label \in {"updateRating", "deleteRating"}, NEW id \in Nat,
         NEW stars \in Stars \cup {0}, label = "updateRating" => stars \in Stars,
         ~IsGlobal(h), Owns(h, id), Continue(h, label, id, stars)
  PROVE  HandlersOK'
<1>1. Evolves
  BY TablesUnchanged
<1>2. /\ handler[h].user \in Nat /\ handler[h].name \in UserNames \cup {NoName}
      /\ handler[h].name # GlobalUsername
  BY DEF TypeInv, HandlersOK, HandlerType, IsGlobal
<1>3. id \in 1..lastRating' /\ ratings'[id].user = handler[h].user
  BY DEF Owns, tables, TypeInv, TablesType
<1>4. label \in Labels /\ label # "recordUser" /\ label # "recordRating"
  BY DEF Labels
<1> QED
  BY <1>1, <1>2, <1>3, <1>4, BecomeStep DEF Continue

\* The same, for the stars of an update.
LEMMA PutRatingOK ==
  ASSUME TypeInv, NEW h \in Handlers, PutRating(h)
  PROVE  TypeInv'
<1>1. TablesType' /\ Evolves /\ UNCHANGED tables
  BY TablesUnchanged DEF PutRating
<1>2. PICK stars \in StarInputs, id \in 1..RatingBound :
        \/ Reply(h, 400, 0)
        \/ Reply(h, 403, 0)
        \/ ValidStars(stars) /\ ~IsGlobal(h) /\ Owns(h, id)
             /\ Continue(h, "updateRating", id, stars)
  BY DEF PutRating
<1>3. ASSUME ValidStars(stars), ~IsGlobal(h), Owns(h, id),
             Continue(h, "updateRating", id, stars)
      PROVE  HandlersOK'
  <2>1. stars \in Stars /\ id \in Nat
    BY <1>3 DEF ValidStars
  <2> QED
    BY <1>1, <1>3, <2>1, FoundRatingStep
<1>4. ASSUME Reply(h, 400, 0) \/ Reply(h, 403, 0)
      PROVE  HandlersOK'
  BY <1>1, <1>4, ReplyStep
<1> QED
  BY <1>1, <1>2, <1>3, <1>4 DEF TypeInv

\* A lookup before a deletion refuses, or finds a rating of the handler's user.
LEMMA FindRatingToDeleteOK ==
  ASSUME TypeInv, NEW h \in Handlers, FindRatingToDelete(h)
  PROVE  TypeInv'
<1>1. TablesType' /\ Evolves /\ UNCHANGED tables
  BY TablesUnchanged DEF FindRatingToDelete
<1>2. PICK id \in 1..RatingBound :
        \/ Reply(h, 400, 0)
        \/ Reply(h, 403, 0)
        \/ ~IsGlobal(h) /\ Owns(h, id) /\ Continue(h, "deleteRating", id, 0)
  BY DEF FindRatingToDelete
<1>3. ASSUME ~IsGlobal(h), Owns(h, id), Continue(h, "deleteRating", id, 0)
      PROVE  HandlersOK'
  BY <1>1, <1>3, FoundRatingStep
<1>4. ASSUME Reply(h, 400, 0) \/ Reply(h, 403, 0)
      PROVE  HandlersOK'
  BY <1>1, <1>4, ReplyStep
<1> QED
  BY <1>1, <1>2, <1>3, <1>4 DEF TypeInv

\* A failed trip ends its handler and leaves the tables alone.
LEMMA DatabaseErrorOK ==
  ASSUME TypeInv, NEW h \in Handlers, DatabaseError(h)
  PROVE  TypeInv'
<1>1. TablesType' /\ Evolves
  BY TablesUnchanged DEF DatabaseError
<1>2. HandlersOK'
  BY <1>1, ReplyStep DEF DatabaseError
<1> QED
  BY <1>1, <1>2 DEF TypeInv

-----------------------------------------------------------------------------
(* The transactions. *)

\* Replacing ratings by a part of it.
LEMMA RatingsShrink ==
  ASSUME TypeInv, NEW S \in SUBSET DOMAIN ratings,
         ratings' = Restrict(ratings, S), lastRating' = lastRating
  PROVE  /\ Evolves
         /\ DOMAIN ratings' \subseteq 1..lastRating'
         /\ ratings' \in [DOMAIN ratings' -> [user : Nat, food : Int, stars : Stars]]
BY DEF TypeInv, TablesType, Evolves, Restrict

\* Deleting all of a user's ratings only shrinks the table.
LEMMA DeleteRatingsOK ==
  ASSUME TypeInv, NEW h \in Handlers, DeleteRatings(h)
  PROVE  TypeInv'
<1>1. CASE IsGlobal(h)
  <2>1. UNCHANGED tables /\ Reply(h, 403, 0)
    BY <1>1 DEF DeleteRatings, tables
  <2>2. TablesType' /\ HandlersOK'
    BY <2>1, TablesUnchanged, ReplyStep
  <2> QED
    BY <2>2 DEF TypeInv
<1>2. CASE ~IsGlobal(h)
  <2>1. /\ ratings' = Restrict(ratings, {i \in DOMAIN ratings : ~Owns(h, i)})
        /\ UNCHANGED <<users, foods, foodToIngredients, lastUser, lastFood, lastRating>>
        /\ Reply(h, 204, 0)
    BY <1>2 DEF DeleteRatings
  <2>2. /\ Evolves
        /\ DOMAIN ratings' \subseteq 1..lastRating'
        /\ ratings' \in [DOMAIN ratings' -> [user : Nat, food : Int, stars : Stars]]
    BY <2>1, RatingsShrink
  <2>3. TablesType' /\ HandlersOK'
    BY <2>1, <2>2, ReplyStep DEF TypeInv, TablesType, UserNames
  <2> QED
    BY <2>3 DEF TypeInv
<1> QED
  BY <1>1, <1>2

\* Deleting one rating only shrinks the table.
LEMMA DeleteRatingOK ==
  ASSUME TypeInv, NEW h \in Handlers, DeleteRating(h)
  PROVE  TypeInv'
<1>1. /\ ratings' = Restrict(ratings, DOMAIN ratings \ {handler[h].target})
      /\ UNCHANGED <<users, foods, foodToIngredients, lastUser, lastFood, lastRating>>
      /\ Reply(h, 204, 0)
  BY DEF DeleteRating
<1>2. /\ Evolves
      /\ DOMAIN ratings' \subseteq 1..lastRating'
      /\ ratings' \in [DOMAIN ratings' -> [user : Nat, food : Int, stars : Stars]]
  BY <1>1, RatingsShrink
<1>3. TablesType'
  BY <1>1, <1>2 DEF TypeInv, TablesType, UserNames
<1>4. HandlersOK'
  BY <1>1, <1>2, ReplyStep
<1> QED
  BY <1>3, <1>4 DEF TypeInv

\* An update writes validated stars to a row that is there, or nothing.
LEMMA UpdateRatingOK ==
  ASSUME TypeInv, NEW h \in Handlers, UpdateRating(h)
  PROVE  TypeInv'
<1>1. /\ ratings' = [i \in DOMAIN ratings |->
                       IF i = handler[h].target
                       THEN [ratings[i] EXCEPT !.stars = handler[h].stars] ELSE ratings[i]]
      /\ UNCHANGED <<users, foods, foodToIngredients, lastUser, lastFood, lastRating>>
      /\ Reply(h, 200, handler[h].target)
  BY DEF UpdateRating
<1>2. handler[h].stars \in Stars /\ handler[h].target \in Int
  BY DEF UpdateRating, At, TypeInv, HandlersOK, LocalOK, HandlerType
<1>3. /\ Evolves
      /\ DOMAIN ratings' \subseteq 1..lastRating'
      /\ ratings' \in [DOMAIN ratings' -> [user : Nat, food : Int, stars : Stars]]
  BY <1>1, <1>2 DEF TypeInv, TablesType, Evolves
<1>4. TablesType'
  BY <1>1, <1>3 DEF TypeInv, TablesType, UserNames
<1>5. HandlersOK'
  BY <1>1, <1>2, <1>3, ReplyStep
<1> QED
  BY <1>4, <1>5 DEF TypeInv

\* A new rating has the next id, validated stars and its caller as owner.
LEMMA RecordRatingOK ==
  ASSUME TypeInv, NEW h \in Handlers, NEW fk \in BOOLEAN, RecordRating(h, fk)
  PROVE  TypeInv'
<1> DEFINE id == lastRating + 1
           row == [user |-> handler[h].user, food |-> handler[h].target,
                   stars |-> handler[h].stars]
           all == [i \in DOMAIN ratings \cup {id} |-> IF i = id THEN row ELSE ratings[i]]
           kept == Kept(DOMAIN all, FixedRatings, MaxRatings)
<1>1. UNCHANGED <<users, foods, foodToIngredients, lastUser, lastFood>>
  BY DEF RecordRating
<1>2. CASE Reply(h, 400, 0) /\ UNCHANGED <<ratings, lastRating>>
  <2>1. UNCHANGED tables
    BY <1>1, <1>2 DEF tables
  <2>2. TablesType' /\ HandlersOK'
    BY <1>2, <2>1, TablesUnchanged, ReplyStep
  <2> QED
    BY <2>2 DEF TypeInv
<1>3. CASE ratings' = Restrict(all, kept) /\ lastRating' = id /\ Reply(h, 201, id)
  <2>1. row \in [user : Nat, food : Int, stars : Stars] /\ lastRating \in Nat
    BY DEF RecordRating, At, TypeInv, TablesType, HandlersOK, LocalOK, HandlerType
  <2>2. kept \subseteq DOMAIN all
    BY KeptSubset
  <2>3. DOMAIN ratings' = kept /\ kept \subseteq DOMAIN ratings \cup {id}
    BY <1>3, <2>2 DEF Restrict
  <2>4. \A i \in kept : ratings'[i] = IF i = id THEN row ELSE ratings[i]
    BY <1>3, <2>2 DEF Restrict
  <2>5. ratings' = [i \in kept |-> ratings'[i]]
    BY <1>3, <2>4 DEF Restrict
  <2> HIDE DEF kept, all, row
  <2>6. DOMAIN ratings \subseteq 1..lastRating
        /\ \A i \in DOMAIN ratings : ratings[i] \in [user : Nat, food : Int, stars : Stars]
    BY DEF TypeInv, TablesType
  <2>7. Evolves
    BY <1>3, <2>1, <2>3, <2>4, <2>6 DEF Evolves
  <2>8. DOMAIN ratings' \subseteq 1..lastRating'
    BY <1>3, <2>1, <2>3, <2>6
  <2>9. ratings' \in [DOMAIN ratings' -> [user : Nat, food : Int, stars : Stars]]
    BY <2>1, <2>3, <2>4, <2>5, <2>6
  <2>10. TablesType'
    BY <1>1, <1>3, <2>1, <2>8, <2>9 DEF TypeInv, TablesType, UserNames
  <2>11. HandlersOK'
    BY <1>3, <2>1, <2>7, ReplyStep
  <2> QED
    BY <2>10, <2>11 DEF TypeInv
<1> QED
  BY <1>2, <1>3 DEF RecordRating, NextId

\* A new user has the next id and a name that nobody has.
LEMMA RecordUserOK ==
  ASSUME TypeInv, NEW h \in Handlers, NEW fk \in BOOLEAN, RecordUser(h, fk)
  PROVE  TypeInv'
<1> DEFINE id == lastUser + 1
           all == [u \in DOMAIN users \cup {id} |->
                     IF u = id THEN handler[h].name ELSE users[u]]
           kept == Kept(DOMAIN all, FixedUsers, MaxUsers)
<1>1. CASE Reply(h, 500, 0) /\ UNCHANGED tables
  <2>1. TablesType' /\ HandlersOK'
    BY <1>1, TablesUnchanged, ReplyStep
  <2> QED
    BY <2>1 DEF TypeInv
<1>2. ASSUME KeepUsers(kept, all, fk), lastUser' = id, Reply(h, 201, id),
             UNCHANGED <<foods, foodToIngredients, lastFood, lastRating>>
      PROVE  TypeInv'
  <2>1. handler[h].name \in UserNames /\ lastUser \in Nat
    BY DEF RecordUser, At, TypeInv, TablesType, HandlersOK, LocalOK, UserNames
  <2>2. kept \subseteq DOMAIN all
    BY KeptSubset
  <2>3. DOMAIN users' = kept /\ kept \subseteq DOMAIN users \cup {id}
    BY <1>2, <2>2 DEF Restrict, KeepUsers
  <2>4. \A u \in kept : users'[u] = IF u = id THEN handler[h].name ELSE users[u]
    BY <1>2, <2>2 DEF Restrict, KeepUsers
  <2>5. users' = [u \in kept |-> users'[u]]
    BY <1>2, <2>4 DEF Restrict, KeepUsers
  <2>6. \E S \in SUBSET DOMAIN ratings : ratings' = Restrict(ratings, S)
    <3>1. CASE fk
      BY <1>2, <3>1 DEF KeepUsers
    <3>2. CASE ~fk
      BY <1>2, <3>2 DEF KeepUsers, Restrict, TypeInv, TablesType
    <3> QED
      BY <3>1, <3>2
  <2> HIDE DEF kept, all
  <2>7. /\ Evolves
        /\ DOMAIN ratings' \subseteq 1..lastRating'
        /\ ratings' \in [DOMAIN ratings' -> [user : Nat, food : Int, stars : Stars]]
    BY <1>2, <2>6, RatingsShrink
  <2>8. DOMAIN users \subseteq 1..lastUser /\ \A u \in DOMAIN users : users[u] \in UserNames
    BY DEF TypeInv, TablesType
  <2>9. lastUser' \in Nat \ {0} /\ DOMAIN users' \subseteq 1..lastUser'
    BY <1>2, <2>1, <2>3, <2>8
  <2>10. users' \in [DOMAIN users' -> UserNames]
    BY <2>1, <2>3, <2>4, <2>5, <2>8
  <2>11. TablesType'
    BY <1>2, <2>7, <2>9, <2>10 DEF TypeInv, TablesType, UserNames
  <2>12. HandlersOK'
    BY <1>2, <2>1, <2>7, ReplyStep
  <2> QED
    BY <2>11, <2>12 DEF TypeInv
<1> QED
  BY <1>1, <1>2 DEF RecordUser, NextId

\* A new food has the id of its body or the next one, and no table but foods,
\* its ingredients and the ratings is touched.
LEMMA RecordRecommendationOK ==
  ASSUME TypeInv, NEW h \in Handlers, NEW fk \in BOOLEAN, RecordRecommendation(h, fk)
  PROVE  TypeInv'
<1>1. PICK asked \in FoodIdInputs, used \in SUBSET Ingredients :
        LET id == FoodId(asked)
            all == foods \cup {id}
            new == {id} \X used
        IN \/ /\ Reply(h, 500, 0)
              /\ UNCHANGED <<foods, foodToIngredients, ratings, lastFood>>
           \/ /\ KeepFoods(Kept(all, FixedFoods, MaxFoods), all,
                           foodToIngredients \cup new, fk)
              /\ lastFood' = Counter(lastFood, id)
              /\ Reply(h, 201, id)
  BY DEF RecordRecommendation
<1>2. UNCHANGED <<users, lastUser, lastRating>>
  BY DEF RecordRecommendation
<1> DEFINE id == FoodId(asked)
           all == foods \cup {id}
           kept == Kept(all, FixedFoods, MaxFoods)
           new == {id} \X used
<1>3. CASE Reply(h, 500, 0) /\ UNCHANGED <<foods, foodToIngredients, ratings, lastFood>>
  <2>1. UNCHANGED tables
    BY <1>2, <1>3 DEF tables
  <2>2. TablesType' /\ HandlersOK'
    BY <1>3, <2>1, TablesUnchanged, ReplyStep
  <2> QED
    BY <2>2 DEF TypeInv
<1>4. CASE /\ KeepFoods(kept, all, foodToIngredients \cup new, fk)
           /\ lastFood' = Counter(lastFood, id)
           /\ Reply(h, 201, id)
  <2>1. id \in Int /\ lastFood \in Nat
    BY LimitsAssumption DEF FoodId, NextId, TypeInv, TablesType
  <2>2. foods \subseteq Int /\ (\A f \in foods : f <= lastFood)
        /\ foodToIngredients \subseteq Int \X Ingredients
    BY DEF TypeInv, TablesType
  <2>3. foods' \subseteq foods \cup {id}
        /\ foodToIngredients' \subseteq foodToIngredients \cup ({id} \X used)
    BY <1>4, KeptSubset DEF KeepFoods
  <2>4. \E S \in SUBSET DOMAIN ratings : ratings' = Restrict(ratings, S)
    <3>1. CASE fk
      BY <1>4, <3>1 DEF KeepFoods
    <3>2. CASE ~fk
      BY <1>4, <3>2 DEF KeepFoods, Restrict, TypeInv, TablesType
    <3> QED
      BY <3>1, <3>2
  <2>5. lastFood' \in Nat /\ lastFood <= lastFood' /\ id <= lastFood'
    BY <1>4, <2>1 DEF Counter
  <2> HIDE DEF id
  <2>6. foods' \subseteq Int /\ (\A f \in foods' : f <= lastFood')
    BY <2>1, <2>2, <2>3, <2>5
  <2>7. foodToIngredients' \subseteq Int \X Ingredients
    BY <2>1, <2>2, <2>3
  <2>8. /\ Evolves
        /\ DOMAIN ratings' \subseteq 1..lastRating'
        /\ ratings' \in [DOMAIN ratings' -> [user : Nat, food : Int, stars : Stars]]
    BY <1>2, <2>4, RatingsShrink
  <2>9. TablesType'
    BY <1>2, <2>5, <2>6, <2>7, <2>8 DEF TypeInv, TablesType, UserNames
  <2>10. HandlersOK'
    BY <1>4, <2>1, <2>8, ReplyStep
  <2> QED
    BY <2>9, <2>10 DEF TypeInv
<1> QED
  BY <1>1, <1>3, <1>4

-----------------------------------------------------------------------------

\* A step keeps TypeInv, on whatever connection.
LEMMA TypeInvKept ==
  ASSUME TypeInv, NEW h \in Handlers, NEW fk \in BOOLEAN, Step(h, fk)
  PROVE  TypeInv'
BY AuthenticateOK, PostUserOK, RecordUserOK, RecordRecommendationOK,
   RefuseRecommendationOK, PostRatingOK, RecordRatingOK, PutRatingOK, UpdateRatingOK, DeleteRatingsOK,
   FindRatingToDeleteOK, DeleteRatingOK, DatabaseErrorOK DEF Step

\* So does waiting.
LEMMA TypeInvUnchanged ==
  ASSUME TypeInv, UNCHANGED vars
  PROVE  TypeInv'
BY DEF vars, tables, TypeInv, TablesType, HandlersOK, LocalOK, HandlerType, UserNames

\* Every step keeps TypeInv.
LEMMA TypeInvStep == TypeInv /\ [Next]_vars => TypeInv'
BY TypeInvKept, TypeInvUnchanged, FKAssumption DEF Next

\* TypeInv is an invariant of the catalog.
LEMMA TypeInvAlways == Spec => []TypeInv
<1>1. Init => TypeInv
  BY InitTypeInv
<1>2. TypeInv /\ [Next]_vars => TypeInv'
  BY TypeInvStep
<1> QED
  BY <1>1, <1>2, PTL DEF Spec

\* Every variable keeps its type: a stored rating has 1 to 5 stars whatever the
\* clients send, and row ids never pass their table's counter.
THEOREM TypeCorrect == Spec => []TypeOK
<1>1. TypeInv => TypeOK
  BY DEF TypeInv, HandlersOK, TypeOK
<1> QED
  BY <1>1, TypeInvAlways, PTL

-----------------------------------------------------------------------------
(* Users *)

\* What a registration does to the users table.
Registers(h) ==
  /\ lastUser' = lastUser + 1
  /\ handler[h].name \in Names \ {GlobalUsername}
  /\ ~UsernameExists(handler[h].name)
  /\ DOMAIN users' = Kept(DOMAIN users \cup {lastUser + 1}, FixedUsers, MaxUsers)
  /\ \A u \in DOMAIN users' :
       users'[u] = IF u = lastUser + 1 THEN handler[h].name ELSE users[u]

\* What a step does to the users: nothing, or one registration.
LEMMA UsersStep ==
  ASSUME TypeInv, [Next]_vars
  PROVE  UNCHANGED <<users, lastUser>> \/ \E h \in Handlers : Registers(h)
<1>1. CASE UNCHANGED vars
  BY <1>1 DEF vars, tables
<1>2. ASSUME NEW h \in Handlers, NEW fk \in BOOLEAN, RecordUser(h, fk)
      PROVE  UNCHANGED <<users, lastUser>> \/ Registers(h)
  <2> DEFINE id == lastUser + 1
             all == [u \in DOMAIN users \cup {id} |->
                       IF u = id THEN handler[h].name ELSE users[u]]
             kept == Kept(DOMAIN all, FixedUsers, MaxUsers)
  <2>1. CASE UNCHANGED tables
    BY <2>1 DEF tables
  <2>2. ASSUME users' = Restrict(all, kept), lastUser' = id,
               ~UsernameConflict(handler[h].name)
        PROVE  Registers(h)
    <3>1. handler[h].name \in Names \ {GlobalUsername}
      BY <1>2 DEF RecordUser, At, TypeInv, HandlersOK, LocalOK
    <3>2. kept \subseteq DOMAIN all
      BY KeptSubset
    <3>3. DOMAIN users' = kept
          /\ \A u \in kept : users'[u] = IF u = id THEN handler[h].name ELSE users[u]
      BY <2>2, <3>2 DEF Restrict
    <3> QED
      BY <2>2, <3>1, <3>3 DEF Registers, UsernameConflict
  <2> QED
    BY <1>2, <2>1, <2>2 DEF RecordUser, KeepUsers, NextId
<1>3. ASSUME NEW h \in Handlers, NEW fk \in BOOLEAN, Step(h, fk), ~RecordUser(h, fk)
      PROVE  UNCHANGED <<users, lastUser>>
  BY <1>3 DEF Step, Authenticate, PostUser, RefuseRecommendation, RecordRecommendation,
     PostRating, RecordRating,
     PutRating, UpdateRating, DeleteRatings, FindRatingToDelete, DeleteRating,
     DatabaseError, tables
<1> QED
  BY <1>1, <1>2, <1>3, FKAssumption DEF Next

\* Of two racing registrations of a username at most one is stored.
THEOREM UsernamesUnique == Spec => []UniqueUsernames
<1>1. Init => UniqueUsernames
  BY SeedAssumption DEF Init, UniqueUsernames
<1>2. TypeInv /\ UniqueUsernames /\ [Next]_vars => UniqueUsernames'
  <2> SUFFICES ASSUME TypeInv, UniqueUsernames, [Next]_vars
               PROVE  UniqueUsernames'
    OBVIOUS
  <2>1. CASE UNCHANGED <<users, lastUser>>
    BY <2>1 DEF UniqueUsernames
  <2>2. ASSUME NEW h \in Handlers, Registers(h)
        PROVE  UniqueUsernames'
    <3>1. DOMAIN users' \subseteq DOMAIN users \cup {lastUser + 1}
      BY <2>2, KeptSubset DEF Registers
    <3>2. \A u \in DOMAIN users : users[u] # handler[h].name
      BY <2>2 DEF Registers, UsernameExists
    <3> QED
      BY <2>2, <3>1, <3>2 DEF UniqueUsernames, Registers
  <2> QED
    BY <2>1, <2>2, UsersStep
<1> QED
  BY <1>1, <1>2, TypeInvAlways, PTL DEF Spec

\* The default user is never pruned when at least one user row is fixed, and
\* nobody else ever bears its name.
THEOREM DefaultUserStays == Spec => []DefaultUserKept
<1>1. Init => DefaultUserKept
  BY SeedAssumption DEF Init, DefaultUserKept
<1>2. TypeInv /\ DefaultUserKept /\ [Next]_vars => DefaultUserKept'
  <2> SUFFICES ASSUME TypeInv, DefaultUserKept, [Next]_vars
               PROVE  DefaultUserKept'
    OBVIOUS
  <2>1. CASE UNCHANGED <<users, lastUser>>
    BY <2>1 DEF DefaultUserKept
  <2>2. ASSUME NEW h \in Handlers, Registers(h)
        PROVE  DefaultUserKept'
    <3>1. DOMAIN users' \subseteq DOMAIN users \cup {lastUser + 1}
      BY <2>2, KeptSubset DEF Registers
    <3>2. FixedUsers >= 1 => 1 \in DOMAIN users'
      BY <2>2, LimitsAssumption DEF DefaultUserKept, Registers, Kept
    <3>3. lastUser + 1 # 1
      BY DEF TypeInv, TablesType
    <3> QED
      BY <2>2, <3>1, <3>2, <3>3 DEF DefaultUserKept, Registers
  <2> QED
    BY <2>1, <2>2, UsersStep
<1> QED
  BY <1>1, <1>2, TypeInvAlways, PTL DEF Spec

-----------------------------------------------------------------------------
(* Foods, and what stays of foods and users *)

\* What a recording that is not refused does to the foods.
Adds(id) ==
  /\ id \in Int
  /\ foods' = Kept(foods \cup {id}, FixedFoods, MaxFoods)

\* What a step does to the foods: nothing, or one recording with its pruning.
LEMMA FoodsStep ==
  ASSUME TypeInv, [Next]_vars
  PROVE  foods' = foods \/ \E id \in Int : Adds(id)
<1>1. CASE UNCHANGED vars
  BY <1>1 DEF vars, tables
<1>2. ASSUME NEW h \in Handlers, NEW fk \in BOOLEAN, RecordRecommendation(h, fk)
      PROVE  foods' = foods \/ \E id \in Int : Adds(id)
  <2>1. PICK asked \in FoodIdInputs, used \in SUBSET Ingredients :
          \/ foods' = foods
          \/ foods' = Kept(foods \cup {FoodId(asked)}, FixedFoods, MaxFoods)
    BY <1>2 DEF RecordRecommendation, KeepFoods
  <2>2. FoodId(asked) \in Int
    BY LimitsAssumption DEF FoodId, NextId, TypeInv, TablesType
  <2> QED
    BY <2>1, <2>2 DEF Adds
<1>3. ASSUME NEW h \in Handlers, NEW fk \in BOOLEAN, Step(h, fk), ~RecordRecommendation(h, fk)
      PROVE  foods' = foods
  BY <1>3 DEF Step, Authenticate, PostUser, RecordUser, RefuseRecommendation, PostRating,
     RecordRating, PutRating, UpdateRating, DeleteRatings, FindRatingToDelete, DeleteRating,
     DatabaseError, KeepUsers, tables
<1> QED
  BY <1>1, <1>2, <1>3, FKAssumption DEF Next

\* The foods remain finitely many.
LEMMA FoodsFinite == Spec => []IsFiniteSet(foods)
<1>1. Init => IsFiniteSet(foods)
  <2>1. IsFiniteSet(1..SeedFoods)
    BY SeedAssumption, FS_Interval
  <2> QED
    BY <2>1 DEF Init
<1>2. TypeInv /\ IsFiniteSet(foods) /\ [Next]_vars => IsFiniteSet(foods)'
  <2> SUFFICES ASSUME TypeInv, IsFiniteSet(foods), [Next]_vars
               PROVE  IsFiniteSet(foods')
    OBVIOUS
  <2>1. ASSUME NEW id \in Int, Adds(id)
        PROVE  IsFiniteSet(foods')
    <3>1. foods' \in SUBSET (foods \cup {id})
      BY <2>1, KeptSubset DEF Adds
    <3> QED
      BY <3>1, FS_AddElement, FS_Subset
  <2> QED
    BY <2>1, FoodsStep
<1> QED
  BY <1>1, <1>2, TypeInvAlways, PTL DEF Spec

\* A food leaves only when as many with higher ids are there as the table may
\* hold, whatever ids the recordings bring.
THEOREM FoodsLeaveByAge == Spec => OnlyOldFoodsLeave
<1>1. TypeInv /\ IsFiniteSet(foods) /\ [Next]_vars
        => [\A f \in foods \ foods' : Outnumbered(f)]_vars
  <2> SUFFICES ASSUME TypeInv, IsFiniteSet(foods), [Next]_vars, NEW f \in foods \ foods'
               PROVE  Outnumbered(f)
    OBVIOUS
  <2>1. PICK id \in Int : Adds(id)
    BY FoodsStep
  <2>2. foods \cup {id} \in SUBSET Int /\ IsFiniteSet(foods \cup {id})
    BY FS_AddElement DEF TypeInv, TablesType
  <2>3. f \in foods \cup {id} /\ f \notin Kept(foods \cup {id}, FixedFoods, MaxFoods)
    BY <2>1 DEF Adds
  <2> QED
    BY <2>1, <2>2, <2>3, LimitsAssumption, DeletedIsOutnumbered DEF Adds, Outnumbered
<1> QED
  BY <1>1, TypeInvAlways, FoodsFinite, PTL DEF Spec, OnlyOldFoodsLeave

\* A user can log in until MaxUsers others have registered.
THEOREM NewestStay == Spec => []NewestKept
<1>1. Init => NewestKept
  BY SeedAssumption DEF Init, NewestKept
<1>2. TypeInv /\ NewestKept /\ [Next]_vars => NewestKept'
  <2> SUFFICES ASSUME TypeInv, NewestKept, [Next]_vars
               PROVE  NewestKept'
    OBVIOUS
  <2> USE LimitsAssumption
  <2>1. lastUser \in Nat /\ DOMAIN users \subseteq 1..lastUser
    BY DEF TypeInv, TablesType
  <2>2. CASE UNCHANGED <<users, lastUser>>
    BY <2>2 DEF NewestKept
  <2>3. ASSUME NEW h \in Handlers, Registers(h),
               NEW u \in 1..lastUser',
               MaxUsers <= 0 \/ u > lastUser' - MaxUsers \/ u <= FixedUsers
        PROVE  u \in DOMAIN users'
    <3>1. lastUser' = lastUser + 1
      BY <2>3 DEF Registers
    <3>2. u \in DOMAIN users \cup {lastUser + 1}
      BY <2>1, <2>3, <3>1 DEF NewestKept
    <3>3. DOMAIN users \cup {lastUser + 1} \in SUBSET (1..(lastUser + 1))
      BY <2>1
    <3>4. u \in Kept(DOMAIN users \cup {lastUser + 1}, FixedUsers, MaxUsers)
      BY <2>1, <2>3, <3>1, <3>2, <3>3, KeptRecent
    <3> QED
      BY <2>3, <3>4 DEF Registers
  <2> QED
    BY <2>2, <2>3, UsersStep DEF NewestKept
<1> QED
  BY <1>1, <1>2, TypeInvAlways, PTL DEF Spec

-----------------------------------------------------------------------------
(* Ratings *)

\* What the transaction of RecordRating does to the ratings table.
Records(h) ==
  LET id == lastRating + 1
      row == [user |-> handler[h].user, food |-> handler[h].target,
              stars |-> handler[h].stars]
  IN /\ At(h, "recordRating")
     /\ lastRating' = id
     /\ DOMAIN ratings' = Kept(DOMAIN ratings \cup {id}, FixedRatings, MaxRatings)
     /\ \A i \in DOMAIN ratings' : ratings'[i] = IF i = id THEN row ELSE ratings[i]
     /\ Reply(h, 201, id)

\* Recording a rating refuses it, or adds a row, with its references checked
\* where foreign keys are enforced, and prunes.
LEMMA RecordRatingStep ==
  ASSUME TypeInv, NEW h \in Handlers, NEW fk \in BOOLEAN, RecordRating(h, fk)
  PROVE  /\ UNCHANGED <<users, foods, foodToIngredients, lastUser, lastFood>>
         /\ \/ UNCHANGED <<ratings, lastRating>> /\ Reply(h, 400, 0)
            \/ /\ Records(h)
               /\ fk => handler[h].user \in DOMAIN users /\ handler[h].target \in foods
<1> DEFINE id == lastRating + 1
           row == [user |-> handler[h].user, food |-> handler[h].target,
                   stars |-> handler[h].stars]
           all == [i \in DOMAIN ratings \cup {id} |-> IF i = id THEN row ELSE ratings[i]]
           kept == Kept(DOMAIN all, FixedRatings, MaxRatings)
<1>1. ASSUME ratings' = Restrict(all, kept), lastRating' = id, Reply(h, 201, id)
      PROVE  Records(h)
  <2>1. kept \subseteq DOMAIN all
    BY KeptSubset
  <2>2. DOMAIN ratings' = kept
        /\ \A i \in kept : ratings'[i] = IF i = id THEN row ELSE ratings[i]
    BY <1>1, <2>1 DEF Restrict
  <2> QED
    BY <1>1, <2>2 DEF Records, RecordRating
<1>2. UNCHANGED <<users, foods, foodToIngredients, lastUser, lastFood>>
  BY DEF RecordRating
<1>3. \/ UNCHANGED <<ratings, lastRating>> /\ Reply(h, 400, 0)
      \/ /\ fk => handler[h].user \in DOMAIN users /\ handler[h].target \in foods
         /\ ratings' = Restrict(all, kept)
         /\ lastRating' = id
         /\ Reply(h, 201, id)
  BY DEF RecordRating, NextId
<1> QED
  BY <1>1, <1>2, <1>3

\* Every step keeps, restates or deletes the ratings there are, and may record one.
LEMMA RatingsStep ==
  ASSUME TypeInv, [Next]_vars
  PROVE  \/ DOMAIN ratings' \subseteq DOMAIN ratings /\ lastRating' = lastRating
         \/ \E h \in Handlers : Records(h)
<1>1. CASE UNCHANGED vars
  BY <1>1 DEF vars, tables
<1>2. ASSUME NEW h \in Handlers, NEW fk \in BOOLEAN, RecordRating(h, fk)
      PROVE  UNCHANGED <<ratings, lastRating>> \/ Records(h)
  BY <1>2, RecordRatingStep
<1>3. ASSUME NEW h \in Handlers, NEW fk \in BOOLEAN, RecordUser(h, fk) \/ RecordRecommendation(h, fk)
      PROVE  DOMAIN ratings' \subseteq DOMAIN ratings /\ lastRating' = lastRating
  <2>1. CASE UNCHANGED <<ratings, lastRating>>
    BY <2>1
  <2>2. ASSUME NEW S \in SUBSET DOMAIN ratings, ratings' = Restrict(ratings, S)
        PROVE  DOMAIN ratings' \subseteq DOMAIN ratings
    BY <2>2 DEF Restrict
  <2>3. CASE RecordUser(h, fk)
    BY <2>1, <2>2, <2>3 DEF RecordUser, KeepUsers, tables
  <2>4. CASE RecordRecommendation(h, fk)
    BY <2>1, <2>2, <2>4 DEF RecordRecommendation, KeepFoods
  <2> QED
    BY <1>3, <2>3, <2>4
<1>4. ASSUME NEW h \in Handlers,
             UpdateRating(h) \/ DeleteRatings(h) \/ DeleteRating(h)
      PROVE  DOMAIN ratings' \subseteq DOMAIN ratings /\ lastRating' = lastRating
  BY <1>4 DEF UpdateRating, DeleteRatings, DeleteRating, Restrict
<1>5. ASSUME NEW h \in Handlers,
             Authenticate(h) \/ PostUser(h) \/ RefuseRecommendation(h) \/ PostRating(h) \/ PutRating(h)
               \/ FindRatingToDelete(h) \/ DatabaseError(h)
      PROVE  UNCHANGED <<ratings, lastRating>>
  BY <1>5 DEF Authenticate, PostUser, RefuseRecommendation, PostRating, PutRating, FindRatingToDelete,
     DatabaseError, tables
<1> QED
  BY <1>1, <1>2, <1>3, <1>4, <1>5, FKAssumption DEF Next, Step

\* On a connection that enforces foreign keys no step leaves a rating without
\* its user or its food, whatever was pruned between a handler's lookups and its
\* insertion.
LEMMA EnforcedStep ==
  ASSUME TypeInv, ReferentialIntegrity, NEW h \in Handlers, Step(h, TRUE)
  PROVE  ReferentialIntegrity'
<1>1. ASSUME UNCHANGED tables
      PROVE  ReferentialIntegrity'
  BY <1>1 DEF ReferentialIntegrity, tables
<1>2. ASSUME RecordUser(h, TRUE)
      PROVE  ReferentialIntegrity'
  <2>1. CASE UNCHANGED tables
    BY <1>1, <2>1
  <2>2. ASSUME NEW kept, NEW id, NEW name,
               KeepUsers(kept, [u \in DOMAIN users \cup {id} |-> IF u = id THEN name ELSE users[u]],
                         TRUE),
               UNCHANGED <<foods, foodToIngredients>>
        PROVE  ReferentialIntegrity'
    BY <2>2 DEF KeepUsers, Restrict, ReferentialIntegrity
  <2> QED
    BY <1>2, <2>1, <2>2 DEF RecordUser
<1>3. ASSUME RecordRecommendation(h, TRUE)
      PROVE  ReferentialIntegrity'
  <2>1. CASE UNCHANGED <<foods, foodToIngredients, ratings, lastFood>>
    BY <1>1, <1>3, <2>1 DEF RecordRecommendation, tables
  <2>2. ASSUME NEW kept, NEW id, NEW used,
               KeepFoods(kept, foods \cup {id}, foodToIngredients \cup ({id} \X used), TRUE),
               UNCHANGED users
        PROVE  ReferentialIntegrity'
    BY <2>2 DEF KeepFoods, Restrict, ReferentialIntegrity
  <2> QED
    BY <1>3, <2>1, <2>2 DEF RecordRecommendation
<1>4. ASSUME RecordRating(h, TRUE)
      PROVE  ReferentialIntegrity'
  <2>1. CASE UNCHANGED <<ratings, lastRating>>
    BY <1>1, <1>4, <2>1, RecordRatingStep DEF tables
  <2>2. CASE Records(h) /\ handler[h].user \in DOMAIN users /\ handler[h].target \in foods
    <3>1. DOMAIN ratings' \subseteq DOMAIN ratings \cup {lastRating + 1}
      BY <2>2, KeptSubset DEF Records
    <3>2. \A i \in DOMAIN ratings' :
            \/ i \in DOMAIN ratings /\ ratings'[i] = ratings[i]
            \/ ratings'[i].user = handler[h].user /\ ratings'[i].food = handler[h].target
      BY <2>2, <3>1 DEF Records
    <3>3. UNCHANGED <<users, foods, foodToIngredients>>
      BY <1>4, RecordRatingStep
    <3> QED
      BY <2>2, <3>2, <3>3 DEF ReferentialIntegrity
  <2> QED
    BY <1>4, <2>1, <2>2, RecordRatingStep
<1>5. ASSUME UpdateRating(h) \/ DeleteRatings(h) \/ DeleteRating(h)
      PROVE  ReferentialIntegrity'
  <2>1. /\ UNCHANGED <<users, foods, foodToIngredients>>
        /\ DOMAIN ratings' \subseteq DOMAIN ratings
        /\ \A i \in DOMAIN ratings' :
             ratings'[i].user = ratings[i].user /\ ratings'[i].food = ratings[i].food
    BY <1>5 DEF UpdateRating, DeleteRatings, DeleteRating, Restrict, TypeInv, TablesType
  <2> QED
    BY <2>1 DEF ReferentialIntegrity
<1>6. ASSUME Authenticate(h) \/ PostUser(h) \/ RefuseRecommendation(h) \/ PostRating(h) \/ PutRating(h)
               \/ FindRatingToDelete(h) \/ DatabaseError(h)
      PROVE  UNCHANGED tables
  BY <1>6 DEF Authenticate, PostUser, RefuseRecommendation, PostRating, PutRating, FindRatingToDelete, DatabaseError
<1> QED
  BY <1>1, <1>2, <1>3, <1>4, <1>5, <1>6 DEF Step

\* When every connection enforces foreign keys no rating outlives its user or
\* its food.
THEOREM ReferencesHold ==
  ASSUME FKModes = {TRUE}
  PROVE  Spec => []ReferentialIntegrity
<1>1. Init => ReferentialIntegrity
  BY SeedAssumption DEF Init, ReferentialIntegrity
<1>2. TypeInv /\ ReferentialIntegrity /\ [Next]_vars => ReferentialIntegrity'
  <2> SUFFICES ASSUME TypeInv, ReferentialIntegrity, [Next]_vars
               PROVE  ReferentialIntegrity'
    OBVIOUS
  <2>1. CASE UNCHANGED vars
    BY <2>1 DEF ReferentialIntegrity, vars, tables
  <2>2. CASE Next
    BY <2>2, EnforcedStep DEF Next
  <2> QED
    BY <2>1, <2>2
<1> QED
  BY <1>1, <1>2, TypeInvAlways, PTL DEF Spec

\* The seeded rows fit the limits they are pruned to.
SeedsFit ==
  /\ FixedUsers \in Nat /\ FixedFoods \in Nat /\ FixedRatings \in Nat
  /\ MaxUsers > 0 => SeedUsers <= MaxUsers + FixedUsers
  /\ MaxFoods > 0 => SeedFoods <= MaxFoods + FixedFoods
  /\ MaxRatings > 0 => SeedRatings <= MaxRatings + FixedRatings

\* One table: pruning it after an insertion keeps it within its limit.
LEMMA PrunedTableFits ==
  ASSUME NEW last \in Nat, NEW ids \in SUBSET (1..last),
         NEW fixed \in Nat, NEW maximum \in Int, maximum > 0
  PROVE  Cardinality(Kept(ids \cup {last + 1}, fixed, maximum)) <= maximum + fixed
<1>1. ids \cup {last + 1} \in SUBSET (Nat \ {0})
  OBVIOUS
<1>2. IsFiniteSet(ids \cup {last + 1})
  <2>1. IsFiniteSet(1..(last + 1))
    BY FS_Interval
  <2>2. ids \cup {last + 1} \in SUBSET (1..(last + 1))
    OBVIOUS
  <2> QED
    BY <2>1, <2>2, FS_Subset
<1> QED
  BY <1>1, <1>2, KeptBounded

\* enforceTableSizeLimits keeps every table within its limit and its fixed rows,
\* for foods those with an id above the fixed ones.
THEOREM TablesFit ==
  ASSUME SeedsFit
  PROVE  Spec => []TableSizes
<1> USE LimitsAssumption, SeedAssumption
<1>1. Init => TableSizes
  <2> SUFFICES ASSUME Init
               PROVE  TableSizes
    OBVIOUS
  <2>1. DOMAIN users = 1..SeedUsers /\ foods = 1..SeedFoods /\ DOMAIN ratings = 1..SeedRatings
    BY DEF Init
  <2>2. \A n \in Nat : Cardinality(1..n) = n
    BY FS_Interval
  <2>3. MaxFoods > 0 => Cardinality({f \in foods : f > FixedFoods}) <= MaxFoods
    <3> SUFFICES ASSUME MaxFoods > 0
                 PROVE  Cardinality({f \in foods : f > FixedFoods}) <= MaxFoods
      OBVIOUS
    <3>1. FixedFoods \in Nat /\ SeedFoods \in Nat /\ SeedFoods <= MaxFoods + FixedFoods
      BY DEF SeedsFit
    <3>2. {f \in foods : f > FixedFoods} = (FixedFoods + 1)..SeedFoods
      BY <2>1, <3>1
    <3>3. Cardinality((FixedFoods + 1)..SeedFoods)
            = IF FixedFoods + 1 > SeedFoods THEN 0 ELSE SeedFoods - (FixedFoods + 1) + 1
      BY <3>1, FS_Interval
    <3>4. \A k, m, n \in Nat : n <= m + k =>
            (IF k + 1 > n THEN 0 ELSE n - (k + 1) + 1) <= m
      OBVIOUS
    <3>5. MaxFoods \in Nat
      OBVIOUS
    <3>6. (IF FixedFoods + 1 > SeedFoods THEN 0 ELSE SeedFoods - (FixedFoods + 1) + 1) <= MaxFoods
      BY <3>1, <3>4, <3>5
    <3> QED
      BY <3>2, <3>3, <3>6
  <2> QED
    BY <2>1, <2>2, <2>3 DEF TableSizes, SeedsFit
<1>2. TypeInv /\ IsFiniteSet(foods) /\ TableSizes /\ [Next]_vars => TableSizes'
  <2> SUFFICES ASSUME TypeInv, IsFiniteSet(foods), TableSizes, [Next]_vars
               PROVE  TableSizes'
    OBVIOUS
  <2>1. /\ lastUser \in Nat /\ DOMAIN users \in SUBSET (1..lastUser)
        /\ lastRating \in Nat /\ DOMAIN ratings \in SUBSET (1..lastRating)
    BY DEF TypeInv, TablesType
  <2>2. MaxUsers > 0 => Cardinality(DOMAIN users') <= MaxUsers + FixedUsers
    <3>1. CASE UNCHANGED <<users, lastUser>>
      BY <3>1 DEF TableSizes
    <3>2. CASE \E h \in Handlers : Registers(h)
      BY <2>1, <3>2, PrunedTableFits DEF Registers, SeedsFit
    <3> QED
      BY <3>1, <3>2, UsersStep
  <2>3. MaxFoods > 0 => Cardinality({f \in foods' : f > FixedFoods}) <= MaxFoods
    <3>1. CASE foods' = foods
      BY <3>1 DEF TableSizes
    <3>2. ASSUME NEW id \in Int, Adds(id), MaxFoods > 0
          PROVE  Cardinality({f \in foods' : f > FixedFoods}) <= MaxFoods
      <4>1. foods \cup {id} \in SUBSET Int /\ IsFiniteSet(foods \cup {id})
        BY FS_AddElement DEF TypeInv, TablesType
      <4>2. MaxFoods \in Nat
        BY <3>2
      <4> QED
        BY <3>2, <4>1, <4>2, UnfixedBounded DEF Adds
    <3> QED
      BY <3>1, <3>2, FoodsStep
  <2>4. MaxRatings > 0 => Cardinality(DOMAIN ratings') <= MaxRatings + FixedRatings
    <3>1. CASE DOMAIN ratings' \subseteq DOMAIN ratings
      <4>1. IsFiniteSet(DOMAIN ratings)
        <5>1. IsFiniteSet(1..lastRating)
          BY <2>1, FS_Interval
        <5> QED
          BY <2>1, <5>1, FS_Subset
      <4>2. /\ Cardinality(DOMAIN ratings') <= Cardinality(DOMAIN ratings)
            /\ Cardinality(DOMAIN ratings') \in Nat /\ Cardinality(DOMAIN ratings) \in Nat
        BY <3>1, <4>1, FS_Subset, FS_CardinalityType
      <4> QED
        BY <4>2 DEF TableSizes, SeedsFit
    <3>2. CASE \E h \in Handlers : Records(h)
      BY <2>1, <3>2, PrunedTableFits DEF Records, SeedsFit
    <3> QED
      BY <3>1, <3>2, RatingsStep
  <2> QED
    BY <2>2, <2>3, <2>4 DEF TableSizes
<1> QED
  BY <1>1, <1>2, TypeInvAlways, FoodsFinite, PTL DEF Spec

-----------------------------------------------------------------------------
(* Who writes ratings *)

\* The handler that writes a row it has looked up is its owner's.
LEMMA WriterIsOwner ==
  ASSUME TypeInv, NEW h \in Handlers, UpdateRating(h) \/ DeleteRating(h)
  PROVE  \A i \in DOMAIN ratings :
           \/ i \in DOMAIN ratings' /\ ratings'[i] = ratings[i]
           \/ Steps(h) /\ handler[h].user = ratings[i].user /\ ~IsGlobal(h)
<1> SUFFICES ASSUME NEW i \in DOMAIN ratings
             PROVE  \/ i \in DOMAIN ratings' /\ ratings'[i] = ratings[i]
                    \/ Steps(h) /\ handler[h].user = ratings[i].user /\ ~IsGlobal(h)
  OBVIOUS
<1>1. handler[h].pc \in {"updateRating", "deleteRating"}
  BY DEF UpdateRating, DeleteRating, At
<1>2. handler'[h].pc = "idle"
  BY DEF UpdateRating, DeleteRating, Reply, Become, Locals, TypeInv, HandlersOK
<1>3. CASE i = handler[h].target
  BY <1>1, <1>2, <1>3 DEF Steps, IsGlobal, TypeInv, HandlersOK, LocalOK
<1>4. CASE i # handler[h].target
  BY <1>4 DEF UpdateRating, DeleteRating, Restrict
<1> QED
  BY <1>3, <1>4

\* A rating is restated or withdrawn only for the user it belongs to, never for
\* the default user; otherwise it leaves only when a table is pruned.
THEOREM OwnersWrite == Spec => OnlyOwnersWrite
<1>1. TypeInv /\ [Next]_vars => [WrittenByOwners]_vars
  <2> SUFFICES ASSUME TypeInv, Next
               PROVE  WrittenByOwners
    BY DEF WrittenByOwners
  <2> SUFFICES ASSUME NEW i \in DOMAIN ratings, NEW h \in Handlers, NEW fk \in BOOLEAN, Step(h, fk)
               PROVE  \/ i \in DOMAIN ratings' /\ ratings'[i] = ratings[i]
                      \/ Pruned(i)
                      \/ Steps(h) /\ handler[h].user = ratings[i].user /\ ~IsGlobal(h)
    BY FKAssumption DEF WrittenByOwners, Next
  <2>1. CASE UpdateRating(h) \/ DeleteRating(h)
    BY <2>1, WriterIsOwner
  <2>2. CASE DeleteRatings(h)
    <3>1. CASE IsGlobal(h)
      BY <2>2, <3>1 DEF DeleteRatings
    <3>2. CASE ~IsGlobal(h) /\ Owns(h, i)
      <4>1. handler[h].pc = "authenticated" /\ handler'[h].pc = "idle"
        BY <2>2, <3>2 DEF DeleteRatings, At, Reply, Become, Locals, TypeInv, HandlersOK
      <4> QED
        BY <3>2, <4>1 DEF Steps, Owns
    <3>3. CASE ~IsGlobal(h) /\ ~Owns(h, i)
      BY <2>2, <3>3 DEF DeleteRatings, Restrict
    <3> QED
      BY <3>1, <3>2, <3>3
  <2>3. CASE RecordRating(h, fk)
    <3>1. CASE UNCHANGED <<ratings, lastRating>>
      BY <3>1
    <3>2. CASE Records(h)
      <4>1. i # lastRating + 1 /\ i \in Int /\ lastRating' > lastRating
        BY <3>2 DEF Records, TypeInv, TablesType
      <4>2. CASE i \in DOMAIN ratings'
        BY <3>2, <4>1, <4>2 DEF Records
      <4>3. CASE i \notin DOMAIN ratings'
        <5>1. ~(i <= FixedRatings)
          BY <3>2, <4>3 DEF Records, Kept
        <5> QED
          BY <4>1, <4>3, <5>1, LimitsAssumption DEF Pruned
      <4> QED
        BY <4>2, <4>3
    <3> QED
      BY <2>3, <3>1, <3>2, RecordRatingStep
  <2>4. CASE RecordUser(h, fk)
    <3>1. CASE UNCHANGED tables
      BY <3>1 DEF tables
    <3>2. ASSUME NEW kept, NEW all, KeepUsers(kept, all, fk)
          PROVE  (i \in DOMAIN ratings' /\ ratings'[i] = ratings[i]) \/ Pruned(i)
      BY <3>2 DEF KeepUsers, Restrict, Pruned
    <3> QED
      BY <2>4, <3>1, <3>2 DEF RecordUser
  <2>5. CASE RecordRecommendation(h, fk)
    <3>1. ASSUME NEW kept, NEW all, NEW rows, KeepFoods(kept, all, rows, fk)
          PROVE  (i \in DOMAIN ratings' /\ ratings'[i] = ratings[i]) \/ Pruned(i)
      BY <3>1 DEF KeepFoods, Restrict, Pruned
    <3>2. CASE UNCHANGED <<foods, foodToIngredients, ratings, lastFood>>
      BY <3>2
    <3> QED
      BY <2>5, <3>1, <3>2 DEF RecordRecommendation
  <2>6. CASE Authenticate(h) \/ PostUser(h) \/ RefuseRecommendation(h) \/ PostRating(h) \/ PutRating(h)
               \/ FindRatingToDelete(h) \/ DatabaseError(h)
    BY <2>6 DEF Authenticate, PostUser, RefuseRecommendation, PostRating, PutRating, FindRatingToDelete,
       DatabaseError, tables
  <2> QED
    BY <2>1, <2>2, <2>3, <2>4, <2>5, <2>6 DEF Step
<1> QED
  BY <1>1, TypeInvAlways, PTL DEF Spec, OnlyOwnersWrite

\* Whose step it is can be told from the locals that it changes.
LEMMA OneHandlerSteps ==
  ASSUME TypeInv, NEW k \in Handlers, NEW fk \in BOOLEAN, Step(k, fk), NEW h \in Handlers, Steps(h)
  PROVE  h = k
<1> DEFINE Moves == \E r : Become(k, r)
<1>1. \A code, id : Reply(k, code, id) => Moves
  BY DEF Reply
<1>2. \A label, id, stars : Continue(k, label, id, stars) => Moves
  BY DEF Continue
<1>3. Authenticate(k) \/ PostUser(k) => Moves
  <2>1. \A user, name : Become(k, Locals("authenticated", user, name, 0, 0, 0)) => Moves
    OBVIOUS
  <2>2. \A name : Become(k, Locals("recordUser", NoUser, name, 0, 0, 0)) => Moves
    OBVIOUS
  <2> HIDE DEF Moves
  <2> QED
    BY <1>1, <2>1, <2>2 DEF Authenticate, PostUser
<1> HIDE DEF Moves
<1>4. RecordUser(k, fk) \/ RecordRecommendation(k, fk) \/ RecordRating(k, fk)
        \/ RefuseRecommendation(k) => Moves
  BY <1>1 DEF RecordUser, RecordRecommendation, RecordRating, RefuseRecommendation
<1>5. PostRating(k) \/ PutRating(k) \/ FindRatingToDelete(k) => Moves
  BY <1>1, <1>2 DEF PostRating, PutRating, FindRatingToDelete
<1>6. UpdateRating(k) \/ DeleteRatings(k) \/ DeleteRating(k) \/ DatabaseError(k) => Moves
  BY <1>1 DEF UpdateRating, DeleteRatings, DeleteRating, DatabaseError
<1>7. Moves
  BY <1>3, <1>4, <1>5, <1>6 DEF Step
<1> QED
  BY <1>7 DEF Moves, Become, Steps, TypeInv, HandlersOK

\* A rating answered with 201 is in the table when the response is written.
THEOREM CreatedIsStored == Spec => RatingStored
<1>1. TypeInv /\ [Next]_vars => [StoredWhenCreated]_vars
  <2> SUFFICES ASSUME TypeInv, Next, NEW h \in Handlers, Steps(h),
                      At(h, "recordRating"), handler'[h].status = 201
               PROVE  handler'[h].target \in DOMAIN ratings'
    BY DEF StoredWhenCreated
  <2>1. PICK fk \in BOOLEAN : Step(h, fk)
    <3>1. PICK k \in Handlers, fk \in BOOLEAN : Step(k, fk)
      BY FKAssumption DEF Next
    <3>2. h = k
      BY <3>1, OneHandlerSteps
    <3> QED
      BY <3>1, <3>2
  <2>2. handler \in [Handlers -> HandlerType]
    BY DEF TypeInv, HandlersOK
  <2>3. ~DatabaseError(h)
    BY <2>2 DEF DatabaseError, At, Reply, Become, Locals
  <2>4. RecordRating(h, fk)
    BY <2>1, <2>3 DEF Step, At, Authenticate, PostUser, RecordUser, RecordRecommendation,
       RefuseRecommendation, PostRating, PutRating, UpdateRating, DeleteRatings, FindRatingToDelete, DeleteRating
  <2>5. ~Reply(h, 400, 0)
    BY <2>2 DEF Reply, Become, Locals
  <2>6. Records(h)
    BY <2>4, <2>5, RecordRatingStep
  <2>7. handler'[h].target = lastRating + 1
    BY <2>2, <2>6 DEF Records, Reply, Become, Locals
  <2>8. /\ lastRating + 1 \in Nat
        /\ DOMAIN ratings \cup {lastRating + 1} \in SUBSET (1..(lastRating + 1))
    BY DEF TypeInv, TablesType
  <2>9. MaxRatings <= 0 \/ lastRating + 1 > (lastRating + 1) - MaxRatings
    BY <2>8, LimitsAssumption
  <2>10. lastRating + 1 \in Kept(DOMAIN ratings \cup {lastRating + 1}, FixedRatings, MaxRatings)
    BY <2>8, <2>9, KeptRecent, LimitsAssumption
  <2> QED
    BY <2>6, <2>7, <2>10 DEF Records
<1> QED
  BY <1>1, TypeInvAlways, PTL DEF Spec, RatingStored

-----------------------------------------------------------------------------
(* Behind the connection pool *)

\* Until a client goes away some connection is open, and until two requests
\* overlap, too, every open one has run the PRAGMA.
StaysConnected == ~interrupted => Open # {}
AloneOnPragma == ~burst /\ ~interrupted => Open \subseteq enforces

PoolInv ==
  TypeInv /\ PoolTypeOK /\ StaysConnected /\ DatabaseSurvives /\ AloneOnPragma /\ AloneIsSafe

\* The pool starts with the connection that ran the PRAGMA.
LEMMA PoolInitOK ==
  ASSUME PoolInit
  PROVE  PoolInv
<1>1. TypeInv
  BY InitTypeInv DEF PoolInit
<1>2. PICK c \in Connections : free = <<c>> /\ enforces = {c}
  BY PoolAssumption DEF PoolInit, Pragma
<1>3. held = [h \in Handlers |-> None] /\ dropped = FALSE /\ burst = FALSE /\ interrupted = FALSE
  BY DEF PoolInit
<1>4. Idles = {c}
  BY <1>2 DEF Idles
<1>5. Open = {c}
  BY <1>3, <1>4 DEF Open
<1>6. PoolTypeOK
  <2>1. free \in Seq(Connections) /\ Len(free) = 1 /\ MaxIdle >= 1
    BY <1>2, PoolAssumption
  <2>2. held \in [Handlers -> Connections \cup {None}]
    BY <1>3
  <2> QED
    BY <1>2, <1>3, <2>1, <2>2 DEF PoolTypeOK
<1>7. ReferentialIntegrity
  BY SeedAssumption DEF PoolInit, Init, ReferentialIntegrity
<1> QED
  BY <1>1, <1>2, <1>3, <1>5, <1>6, <1>7
     DEF PoolInv, StaysConnected, DatabaseSurvives, AloneOnPragma, AloneIsSafe

\* What is idle, after a connection is taken from the pool or put back.
LEMMA IdleConnections ==
  ASSUME PoolTypeOK
  PROVE  /\ Len(free) \in Nat /\ Idles \subseteq Connections
         /\ (free = <<>>) = (Len(free) = 0)
         /\ Len(free) > 0 => Idles # {}
         /\ free # <<>> => free[Len(free)] \in Idles
<1>1. free \in Seq(Connections) /\ Len(free) \in Nat /\ DOMAIN free = 1..Len(free)
  BY DEF PoolTypeOK
<1>2. \A i \in 1..Len(free) : free[i] \in Connections
  BY <1>1
<1> QED
  BY <1>1, <1>2, EmptySeq DEF Idles

\* DB.conn hands out an idle connection, or opens one that does not enforce
\* foreign keys: then another is in use, or an interrupted one was closed.
LEMMA TakeOK ==
  ASSUME PoolInv, NEW h \in Handlers, Take(h)
  PROVE  PoolInv'
<1>1. UNCHANGED <<vars, dropped, interrupted>> /\ held[h] = None
  BY DEF Take
<1>2. TypeInv' /\ (ReferentialIntegrity => ReferentialIntegrity')
  BY <1>1, TypeInvUnchanged DEF PoolInv, vars, tables, ReferentialIntegrity
<1>3. CASE /\ free # <<>>
           /\ held' = [held EXCEPT ![h] = free[Len(free)]]
           /\ free' = SubSeq(free, 1, Len(free) - 1)
           /\ UNCHANGED <<enforces, burst>>
  <2>1. PICK c : c = free[Len(free)]
    OBVIOUS
  <2>2. c \in Idles /\ c \in Connections /\ c # None /\ Len(free) \in Nat /\ Len(free) >= 1
    <3>1. PoolTypeOK
      BY DEF PoolInv
    <3>2. Len(free) \in Nat /\ Len(free) # 0 /\ Idles \subseteq Connections /\ c \in Idles
      BY <1>3, <2>1, <3>1, IdleConnections
    <3> QED
      BY <3>2, PoolAssumption
  <2>3. /\ free' \in Seq(Connections) /\ Len(free') = Len(free) - 1
        /\ \A i \in 1..(Len(free) - 1) : free'[i] = free[i]
    <3>1. free \in Seq(Connections)
      BY DEF PoolInv, PoolTypeOK
    <3>2. 1 \in Int /\ Len(free) - 1 \in Int /\ \A i \in 1..(Len(free) - 1) : free[i] \in Connections
      BY <2>2, <3>1, ElementOfSeq
    <3>3. /\ free' \in Seq(Connections)
          /\ Len(free') = IF 1 <= Len(free) - 1 THEN Len(free) - 1 - 1 + 1 ELSE 0
          /\ \A i \in 1..(Len(free) - 1 - 1 + 1) : free'[i] = free[1 + i - 1]
      BY <1>3, <3>2, SubSeqProperties
    <3>4. Len(free') = Len(free) - 1
      <4>1. \A n \in Nat : n >= 1 => (IF 1 <= n - 1 THEN n - 1 - 1 + 1 ELSE 0) = n - 1
        OBVIOUS
      <4> QED
        BY <2>2, <3>3, <4>1
    <3>5. \A i \in 1..(Len(free) - 1) : i \in 1..(Len(free) - 1 - 1 + 1) /\ 1 + i - 1 = i
      BY <2>2
    <3>6. \A i \in 1..(Len(free) - 1) : free'[i] = free[i]
      <4> TAKE i \in 1..(Len(free) - 1)
      <4> QED
        BY <3>3, <3>5
    <3>7. free' \in Seq(Connections)
      BY <3>3
    <3> QED
      BY <3>4, <3>6, <3>7
  <2>4. held' \in [Handlers -> Connections \cup {None}] /\ held'[h] = c
        /\ \A k \in Handlers : k # h => held'[k] = held[k]
    BY <1>3, <2>1, <2>2 DEF PoolInv, PoolTypeOK
  <2>5. Idles' \subseteq Idles
    <3>1. DOMAIN free' = 1..(Len(free) - 1) /\ DOMAIN free = 1..Len(free)
      BY <2>3 DEF PoolInv, PoolTypeOK
    <3>2. \A i \in 1..(Len(free) - 1) : i \in 1..Len(free)
      BY <2>2
    <3> QED
      BY <2>3, <3>1, <3>2 DEF Idles
  <2>6. c \in Open' /\ Open' \subseteq Open
    BY <2>2, <2>4, <2>5 DEF Open
  <2>7. PoolTypeOK'
    BY <1>1, <1>3, <2>2, <2>3, <2>4, PoolAssumption DEF PoolInv, PoolTypeOK
  <2> QED
    BY <1>1, <1>2, <1>3, <2>6, <2>7
       DEF PoolInv, StaysConnected, DatabaseSurvives, AloneOnPragma, AloneIsSafe
<1>4. CASE /\ \E c \in Connections \ Open :
               /\ held' = [held EXCEPT ![h] = c]
               /\ enforces' = enforces \ {c}
           /\ burst' = (burst \/ \E k \in Handlers : held[k] # None)
           /\ free = <<>> /\ UNCHANGED free
  <2>1. PICK c \in Connections : held' = [held EXCEPT ![h] = c] /\ enforces' = enforces \ {c}
    BY <1>4
  <2>2. held' \in [Handlers -> Connections \cup {None}] /\ held'[h] = c /\ c # None
    BY <2>1, PoolAssumption DEF PoolInv, PoolTypeOK
  <2>3. c \in Open'
    BY <2>2 DEF Open
  <2>4. PoolTypeOK'
    BY <1>1, <1>4, <2>1, <2>2 DEF PoolInv, PoolTypeOK
  <2>5. interrupted \/ burst'
    <3>1. Idles = {}
      BY <1>4 DEF Idles
    <3>2. Open # {} => \E k \in Handlers : held[k] # None
      BY <3>1 DEF Open
    <3> QED
      BY <1>4, <3>2 DEF PoolInv, StaysConnected
  <2> QED
    BY <1>1, <1>2, <2>3, <2>4, <2>5
       DEF PoolInv, StaysConnected, DatabaseSurvives, AloneOnPragma, AloneIsSafe
<1> QED
  BY <1>3, <1>4 DEF Take

\* A trip is made on the connection that the handler holds; putConn closes it
\* only when others are idle.
LEMMA TripOK ==
  ASSUME PoolInv, NEW h \in Handlers, Trip(h)
  PROVE  PoolInv'
<1>1. PICK c : c = held[h]
  OBVIOUS
<1>2. (Step(h, TRUE) \/ Step(h, FALSE))
      /\ (~dropped /\ c \in enforces => Step(h, TRUE))
  BY <1>1 DEF Trip, Fails
<1>3. /\ c # None /\ held' = [held EXCEPT ![h] = None]
      /\ free' = IF StaysOpen(Len(free)) THEN Append(free, c) ELSE free
      /\ UNCHANGED <<enforces, burst, interrupted>>
      /\ dropped' = (dropped \/ Open' = {})
  BY <1>1 DEF Trip, Drop
<1>4. TypeInv'
  BY <1>2, TypeInvKept DEF PoolInv
<1>5. c \in Connections /\ c \in Open
  BY <1>1, <1>3 DEF PoolInv, PoolTypeOK, Open
<1>6. /\ held' \in [Handlers -> Connections \cup {None}]
      /\ \A k \in Handlers : held'[k] \in {held[k], None}
  BY <1>3 DEF PoolInv, PoolTypeOK
<1>7. free' \in Seq(Connections) /\ Len(free') <= MaxIdle /\ Len(free') > 0
      /\ Idles' \subseteq Idles \cup {c}
  <2>1. free \in Seq(Connections) /\ Len(free) \in Nat /\ Len(free) <= MaxIdle /\ MaxIdle \in Nat \ {0}
    BY PoolAssumption DEF PoolInv, PoolTypeOK
  <2>2. CASE Len(free) < MaxIdle
    <3>1. free' = Append(free, c)
      BY <1>3, <2>2 DEF StaysOpen, IdleLimit
    <3>2. /\ free' \in Seq(Connections) /\ Len(free') = Len(free) + 1
          /\ \A i \in 1..(Len(free) + 1) : free'[i] = IF i <= Len(free) THEN free[i] ELSE c
      BY <1>5, <2>1, <3>1
    <3> QED
      BY <2>1, <2>2, <3>2 DEF Idles
  <2>3. CASE ~(Len(free) < MaxIdle)
    <3>1. free' = free
      BY <1>3, <2>3 DEF StaysOpen, IdleLimit
    <3> QED
      BY <2>1, <2>3, <3>1 DEF Idles
  <2> QED
    BY <2>2, <2>3
<1>8. Open' \subseteq Open
  BY <1>5, <1>6, <1>7 DEF Open
<1>9. PoolTypeOK'
  BY <1>3, <1>6, <1>7 DEF PoolInv, PoolTypeOK
<1>10. Open' # {}
  <2>1. Idles' # {}
    <3>1. 1 \in DOMAIN free'
      BY <1>7
    <3> QED
      BY <3>1 DEF Idles
  <2> QED
    BY <2>1 DEF Open
<1>11. StaysConnected' /\ DatabaseSurvives' /\ AloneOnPragma'
  BY <1>3, <1>8, <1>10 DEF PoolInv, StaysConnected, DatabaseSurvives, AloneOnPragma
<1>12. AloneIsSafe'
  <2> SUFFICES ASSUME ~burst, ~interrupted PROVE ReferentialIntegrity'
    BY <1>3 DEF AloneIsSafe
  <2>1. ReferentialIntegrity /\ Step(h, TRUE)
    BY <1>2, <1>3, <1>5 DEF PoolInv, DatabaseSurvives, AloneOnPragma, AloneIsSafe
  <2> QED
    BY <2>1, EnforcedStep DEF PoolInv
<1> QED
  BY <1>4, <1>9, <1>11, <1>12 DEF PoolInv

\* What an interrupted trip does to the tables a trip that is not could do too.
LEMMA InterruptSteps ==
  ASSUME NEW h \in Handlers, Interrupt(h)
  PROVE  Step(h, FALSE)
BY DEF Interrupt, Step

\* An interrupted connection is closed, and nothing else happens to the pool.
LEMMA InterruptOK ==
  ASSUME PoolInv, NEW h \in Handlers, Interrupt(h)
  PROVE  PoolInv'
<1>1. TypeInv'
  BY InterruptSteps, TypeInvKept DEF PoolInv
<1>2. /\ held' = [held EXCEPT ![h] = None] /\ interrupted' = TRUE
      /\ dropped' = (dropped \/ Open' = {})
      /\ UNCHANGED <<free, enforces, burst>>
  BY DEF Interrupt, Drop
<1>3. PoolTypeOK'
  BY <1>2 DEF PoolInv, PoolTypeOK
<1> QED
  BY <1>1, <1>2, <1>3
     DEF PoolInv, StaysConnected, DatabaseSurvives, AloneOnPragma, AloneIsSafe

\* The pool's invariant, for every behaviour.
LEMMA PoolInvAlways == PoolSpec => []PoolInv
<1>1. PoolInit => PoolInv
  BY PoolInitOK
<1>2. PoolInv /\ [PoolNext]_<<vars, pool>> => PoolInv'
  <2> SUFFICES ASSUME PoolInv, [PoolNext]_<<vars, pool>>
               PROVE  PoolInv'
    OBVIOUS
  <2>1. CASE PoolNext
    BY <2>1, TakeOK, TripOK, InterruptOK DEF PoolNext
  <2>2. CASE UNCHANGED <<vars, pool>>
    <3>1. TypeInv' /\ (ReferentialIntegrity => ReferentialIntegrity')
      BY <2>2, TypeInvUnchanged DEF PoolInv, vars, tables, ReferentialIntegrity
    <3>2. PoolTypeOK' /\ Open' = Open
      BY <2>2 DEF PoolInv, pool, PoolTypeOK, Open, Idles
    <3> QED
      BY <2>2, <3>1, <3>2
         DEF PoolInv, pool, StaysConnected, DatabaseSurvives, AloneOnPragma, AloneIsSafe
  <2> QED
    BY <2>1, <2>2
<1> QED
  BY <1>1, <1>2, PTL DEF PoolSpec

\* The pool keeps its type, and no more idle connections than its limit.
THEOREM PoolTypeCorrect == PoolSpec => []PoolTypeOK
<1>1. PoolInv => PoolTypeOK
  BY DEF PoolInv
<1> QED
  BY <1>1, PoolInvAlways, PTL

\* However requests overlap, the in-memory database is dropped only after a
\* client has gone away during a trip.
THEOREM DatabaseStays == PoolSpec => []DatabaseSurvives
<1>1. PoolInv => DatabaseSurvives
  BY DEF PoolInv
<1> QED
  BY <1>1, PoolInvAlways, PTL

\* Foreign keys are enforced, and references hold, until two requests are at the
\* database at once or a client goes away during a trip.
THEOREM SafeWhileAlone == PoolSpec => []AloneIsSafe
<1>1. PoolInv => AloneIsSafe
  BY DEF PoolInv
<1> QED
  BY <1>1, PoolInvAlways, PTL

\* Behind the pool the handlers do what Catalog allows with connections of both
\* kinds, interrupted or not; once the database is dropped they only fail.
THEOREM PoolIsCatalog ==
  ASSUME FKModes = {TRUE, FALSE}
  PROVE  PoolSpec => Spec
<1>1. PoolInit => Init
  BY DEF PoolInit
<1>2. [PoolNext]_<<vars, pool>> => [Next]_vars
  <2>1. ASSUME NEW h \in Handlers, Trip(h)
        PROVE  Next
    <3>1. Step(h, TRUE) \/ Step(h, FALSE)
      BY <2>1 DEF Trip, Fails
    <3> QED
      BY <3>1 DEF Next
  <2>2. ASSUME NEW h \in Handlers, Take(h)
        PROVE  UNCHANGED vars
    BY <2>2 DEF Take
  <2>3. ASSUME NEW h \in Handlers, Interrupt(h)
        PROVE  Next
    BY <2>3, InterruptSteps DEF Next
  <2> QED
    BY <2>1, <2>2, <2>3 DEF PoolNext
<1> QED
  BY <1>1, <1>2, PTL DEF PoolSpec, Spec

\* So what holds whatever foreign keys do holds behind the pool, for as long as
\* there is a database: names are unique, the default user and new users stay,
\* foods leave by age, and ratings are only their owners' to change.
THEOREM PoolKeepsCatalog ==
  ASSUME FKModes = {TRUE, FALSE}
  PROVE  PoolSpec => /\ [](UniqueUsernames /\ DefaultUserKept /\ NewestKept)
                     /\ OnlyOwnersWrite /\ RatingStored /\ OnlyOldFoodsLeave
BY PoolIsCatalog, UsernamesUnique, DefaultUserStays, NewestStay, OwnersWrite, CreatedIsStored,
   FoodsLeaveByAge, PTL

\* And so do the limits of the tables, whichever connections the requests get.
THEOREM PoolTablesFit ==
  ASSUME FKModes = {TRUE, FALSE}, SeedsFit
  PROVE  PoolSpec => []TableSizes
BY PoolIsCatalog, TablesFit, PTL

=============================================================================
