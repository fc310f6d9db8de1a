-------------------------------- MODULE Api --------------------------------
(***************************************************************************)
(* What QuickFood promises whoever sends it a request, in any deployment:  *)
(* the answers of a single process, one food stored for each that is       *)
(* served, and errors only where the client has asked for them, unless a   *)
(* database or a connection has failed meanwhile.                          *)
(*                                                                         *)
(* Deployments differ in one respect: whether the recording of a food,     *)
(* meant for the services themselves, is open to everybody.                *)
(***************************************************************************)
EXTENDS Naturals, Routes, ErrorInjection

CONSTANTS FailRandomly   \* whether a fail rate is set for POST /api/food

VARIABLES
  offered,  \* the routes that can be reached from outside
  vouches,  \* whether a gateway calls every request for the catalog internal
  request,  \* [route, headers, token, internal] of the latest request
  pending,  \* whether it awaits its answer
  answer,   \* the status of its answer
  foods,    \* how many foods have been recorded
  stored,   \* how many of them since the request came
  faults    \* how many failures since the request came

avars == <<offered, vouches, request, pending, answer, foods, stored, faults>>

Failures == {400, 401, 500, 502}
Success == {200, 201}

NeedsToken(route) ==
  route \in CatalogGroup \cup RecommendationsGroup
            \cup {"login", "authenticate", "history", "admin-login"}

ById == {"recommendation", "food-by-id"}

\* What a share means: a chance, if it is not zero or unreadable; certainty, if
\* it is missing or 100.
Possible(share) == share \notin {"0", "unparsable"}
Certain(share) == share \in {"absent", "100"}

\* A food is recorded for whoever says that the request is internal, or has a
\* gateway say so.
Accepted == request.internal \/ vouches

\* The errors and the delays that a client gets by asking for them concern the
\* fetching of ingredients.  Those of docs/inject-errors.md:36-39, for the
\* recording of a food, never come: see RecordErrorsTriggered in Deployment.
ForIngredients == request.headers.action = "get-ingredients"
MayFail == ForIngredients /\ request.headers.error /\ Possible(request.headers.errorShare)
MustFail == MayFail /\ Certain(request.headers.errorShare)
MayStall ==
  /\ ForIngredients /\ ~MustFail
  /\ request.headers.delay = "long" /\ Possible(request.headers.delayShare)
MustStall == MayStall /\ Certain(request.headers.delayShare)

\* A request for a route that is offered may be answered with this status.
Expected(status) ==
  LET route == request.route
  IN \/ status = 101 /\ route = "ws"
     \/ status = 400 /\ route = "bad-status"
     \/ status = 400 /\ route = "unknown-ingredients" /\ ~MustFail
     \/ status = 401 /\ route = "record" /\ ~Accepted
     \/ status \in {400, 500} /\ route = "record" /\ Accepted /\ ~request.token
     \/ status = 201 /\ route = "record" /\ Accepted /\ request.token
     \/ status = 404 /\ route \in ById /\ foods = 0
     \/ status = 500 /\ route \in IngredientRoutes /\ MayFail
     \/ status = 500 /\ route = "food" /\ (MayFail \/ MayStall)
     \/ status = 503 /\ route = "food" /\ FailRandomly
     \/ /\ status = 200 /\ route \notin {"ws", "bad-status", "unknown-ingredients", "record"}
        /\ route \in ById => foods > 0
        /\ route = "ingredients" => ~MustFail
        /\ route = "food" => ~MustFail /\ ~MustStall

Promised(status) ==
  \/ request.route \notin offered /\ status = 404
  \/ request.route \in offered /\ NeedsToken(request.route) /\ ~request.token /\ status = 401
  \/ request.route \in offered /\ (NeedsToken(request.route) => request.token) /\ Expected(status)
  \/ faults > 0 /\ status \in Failures

AInit ==
  /\ offered \in SUBSET AllRoutes /\ vouches \in BOOLEAN
  /\ pending = FALSE
  /\ answer = 0 /\ foods = 0 /\ stored = 0 /\ faults = 0

Ask ==
  /\ ~pending /\ pending' = TRUE
  /\ request' \in [route : AllRoutes, headers : Headers, token : BOOLEAN, internal : BOOLEAN]
  /\ stored' = 0 /\ faults' = 0
  /\ UNCHANGED <<offered, vouches, answer, foods>>

\* A food is stored twice only if the first answer was lost.
Store ==
  /\ pending /\ request.token
  /\ request.route = "food" \/ (request.route = "record" /\ Accepted)
  /\ stored = 0 \/ faults > 0
  /\ foods' = foods + 1 /\ stored' = stored + 1
  /\ UNCHANGED <<offered, vouches, request, pending, answer, faults>>

Fail ==
  /\ pending /\ faults' = faults + 1
  /\ UNCHANGED <<offered, vouches, request, pending, answer, foods, stored>>

\* A food that is served or accepted is stored; if one is stored and nothing
\* fails, that is a success.
Reply ==
  /\ pending /\ pending' = FALSE
  /\ Promised(answer')
  /\ request.route \in {"food", "record"} /\ answer' \in Success => stored > 0
  /\ faults = 0 /\ stored > 0 => answer' \in Success
  /\ UNCHANGED <<offered, vouches, request, foods, stored, faults>>

ANext == Ask \/ Store \/ Fail \/ Reply

ASpec == AInit /\ [][ANext]_avars

=============================================================================
