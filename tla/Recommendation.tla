--------------------------- MODULE Recommendation ---------------------------
(***************************************************************************)
(* POST /api/food (pkg/http/http.go), end to end: the recommendations      *)
(* service authenticates the caller, fetches eight lists from the catalog  *)
(* and copy services, generates a food, and has the catalog record it.     *)
(*                                                                         *)
(* The services talk through an HTTP client that gives up on a slow call   *)
(* and may try again (pkg/http/client.go, clientFromEnv of cmd/main.go).   *)
(* The fetches are idempotent, and the lists never change, so all of them  *)
(* with their retries are one step.  Recording is not idempotent: each try *)
(* is a call of its own, which the catalog may serve long after the client *)
(* has given it up.                                                        *)
(***************************************************************************)
EXTENDS FoodGenerator, TableLimits

CONSTANTS
  Requests,      \* the requests of the run, each handled by its own goroutine
  Inputs,        \* restrictions that clients send
  RetryMax,      \* QUICKFOOD_RETRIES
  FixedFoods, MaxFoods, SeedFoods

GenerationAttempts == 10

ASSUME RecommendationAssumption ==
  /\ Inputs \subseteq Restrictions
  /\ RetryMax \in Nat /\ SeedFoods \in Nat
  /\ FixedFoods \in Int /\ MaxFoods \in Int

VARIABLES
  request,   \* request -> local variables of its handler, and its response
  calls,     \* calls to POST /api/internal/recommendations that are under way
  stored,    \* row id -> the food a call has recorded; the seeded rows left out
  lastFood   \* AUTOINCREMENT counter of the foods table

vars == <<request, calls, stored, lastFood>>

NoFood == [ingredients |-> {}, tool |-> "none"]

Init ==
  /\ \E input \in [Requests -> Inputs] :
       request = [r \in Requests |->
                    [pc |-> "received", restrictions |-> WithDefaults(input[r]),
                     attempt |-> 0, food |-> NoFood, tries |-> 0, status |-> 0, id |-> 0]]
  /\ calls = {}
  /\ stored = <<>>
  /\ lastFood = SeedFoods

At(r, label) == request[r].pc = label

Answer(r, code) == request' = [request EXCEPT ![r].pc = "answered", ![r].status = code]

-----------------------------------------------------------------------------
(* The handler, up to the food it generates *)

\* The middleware and the checks at the top of the handler: failed
\* authentication, a simulated failure, a body that does not parse.
Receive(r) ==
  /\ At(r, "received")
  /\ \/ request' = [request EXCEPT ![r].pc = "fetching"]
     \/ \E code \in {401, 503, 400} : Answer(r, code)
  /\ UNCHANGED <<calls, stored, lastFood>>

\* Four lists of ingredients, the tools, rices, adjectives and names, one after
\* the other, or an error once the client's tries for one of them are used up.
Fetch(r) ==
  /\ At(r, "fetching")
  /\ \/ request' = [request EXCEPT ![r].pc = "generating"]
     \/ Answer(r, 500)
  /\ UNCHANGED <<calls, stored, lastFood>>

\* Mutant of Round: the rounds are not counted.
SameRound(r) == request[r].attempt
Round(r) == request[r].attempt + 1

\* One round of the loop: a food above the calorie limit is kept only in the
\* last round.
Generate(r) ==
  /\ At(r, "generating")
  /\ \E food \in Generated(request[r].restrictions) :
       LET retry == /\ CalculateCalories(food) > request[r].restrictions.maxCalories
                    /\ Round(r) < GenerationAttempts
       IN request' = [request EXCEPT ![r].attempt = Round(r),
                                     ![r].food = IF retry THEN @ ELSE food,
                                     ![r].pc = IF retry THEN "generating" ELSE "sending"]
  /\ UNCHANGED <<calls, stored, lastFood>>

\* A draw from an empty list panics; the Recoverer middleware answers.
Panic(r) ==
  /\ At(r, "generating")
  /\ DrawsFromNothing(request[r].restrictions)
  /\ Answer(r, 500)
  /\ UNCHANGED <<calls, stored, lastFood>>

-----------------------------------------------------------------------------
(* Recording the food: the client's side *)

Call(r, try, food) == [request |-> r, try |-> try, food |-> food, pc |-> "sent", id |-> 0]

\* One try of RecordRecommendation leaves.
Send(r) ==
  /\ At(r, "sending")
  /\ LET try == request[r].tries + 1
     IN /\ request' = [request EXCEPT ![r].pc = "waiting", ![r].tries = try]
        /\ calls' = calls \cup {Call(r, try, request[r].food)}
  /\ UNCHANGED <<stored, lastFood>>

\* Mutant of MayRetry: the tries are not counted.
AlwaysRetry(r) == TRUE

\* The retries left to the client after its last try failed.
MayRetry(r) == request[r].tries <= RetryMax

GiveUpTry(r) ==
  \/ MayRetry(r) /\ request' = [request EXCEPT ![r].pc = "sending"]
  \/ ~MayRetry(r) /\ Answer(r, 500)

\* The try times out, or its connection is lost: nobody will read the answer,
\* but the catalog may still serve the call.
TimeOut(r) ==
  /\ At(r, "waiting")
  /\ GiveUpTry(r)
  /\ UNCHANGED <<calls, stored, lastFood>>

\* The caller of POST /api/food goes away: there is no retry.
Cancel(r) ==
  /\ request[r].pc \in {"sending", "waiting"}
  /\ Answer(r, 500)
  /\ UNCHANGED <<calls, stored, lastFood>>

\* The id in the answer is that of the row the call has inserted; the mutant
\* looks the newest row up instead.
LatestId(call) == lastFood
AnsweredId(call) == call.id

\* The answer to the last try arrives.
ReadAnswer(r) ==
  /\ At(r, "waiting")
  /\ \E call \in calls :
       /\ call.request = r /\ call.try = request[r].tries
       /\ calls' = calls \ {call}
       /\ \/ /\ call.pc = "created"
             /\ request' = [request EXCEPT ![r].pc = "answered", ![r].status = 200,
                                           ![r].id = AnsweredId(call)]
          \/ /\ call.pc = "failed"
             /\ GiveUpTry(r)
  /\ UNCHANGED <<stored, lastFood>>

-----------------------------------------------------------------------------
(* Recording the food: the catalog's side *)

\* Mutant of Settle: the call can be served once more.
SettleAgain(call, pc, id) == calls' = calls \cup {[call EXCEPT !.pc = pc, !.id = id]}

\* The catalog's handler writes its response.
Settle(call, pc, id) == calls' = (calls \ {call}) \cup {[call EXCEPT !.pc = pc, !.id = id]}

\* POST /api/internal/recommendations: insert and prune, then answer.
Record(call) ==
  /\ call.pc = "sent"
  /\ LET id  == lastFood + 1
         all == [i \in DOMAIN stored \cup {id} |-> IF i = id THEN call ELSE stored[i]]
     IN /\ stored' = Restrict(all, Kept((1..SeedFoods) \cup DOMAIN all, FixedFoods, MaxFoods)
                                     \cap DOMAIN all)
        /\ lastFood' = id
        /\ Settle(call, "created", id)
  /\ UNCHANGED request

\* The transaction is rolled back, or never starts.
FailToRecord(call) ==
  /\ call.pc = "sent"
  /\ Settle(call, "failed", 0)
  /\ UNCHANGED <<request, stored, lastFood>>

\* A call is lost on its way, or its answer is.
Lose(call) ==
  /\ calls' = calls \ {call}
  /\ UNCHANGED <<request, stored, lastFood>>

Step(r) ==
  Receive(r) \/ Fetch(r) \/ Generate(r) \/ Panic(r) \/ Send(r) \/ TimeOut(r) \/ Cancel(r)
    \/ ReadAnswer(r)

Next ==
  \/ \E r \in Requests : Step(r)
  \/ \E call \in calls : Record(call) \/ FailToRecord(call) \/ Lose(call)

Spec == Init /\ [][Next]_vars

\* A handler's goroutine goes on; a call it waits for is answered or times out.
FairSpec == Spec /\ \A r \in Requests : WF_vars(Step(r))

-----------------------------------------------------------------------------
(* Properties *)

Labels == {"received", "fetching", "generating", "sending", "waiting", "answered"}
Statuses == {0, 200, 400, 401, 500, 503}
AnyFood == Foods \cup {NoFood}

RequestType ==
  [pc : Labels, restrictions : Restrictions,
   attempt : 0..GenerationAttempts, food : AnyFood, tries : 0..(RetryMax + 1),
   status : Statuses, id : Nat]

CallType ==
  [request : Requests, try : 1..(RetryMax + 1), food : AnyFood,
   pc : {"sent", "created", "failed"}, id : Nat]

\* Every variable has its type: a request never makes more than RetryMax + 1
\* tries, nor more than ten rounds of generation.
TypeOK ==
  /\ request \in [Requests -> RequestType]
  /\ calls \subseteq CallType
  /\ lastFood \in Nat
  /\ DOMAIN stored \subseteq (SeedFoods + 1)..lastFood
  /\ stored \in [DOMAIN stored -> CallType]

\* The restrictions of the request that a row comes from.
Wanted(i) == request[stored[i].request].restrictions

\* No row, whichever try left it there, breaks what its client asked for: no
\* excluded ingredient or tool, no meat for a vegetarian, no more side dishes
\* than the maximum, and too many calories only after ten rounds.
StoredFoodsAllowed ==
  \A i \in DOMAIN stored :
    LET food == stored[i].food
    IN /\ food.ingredients \cap Wanted(i).excluded = {}
       /\ food.tool \notin Wanted(i).excludedTools
       /\ Wanted(i).vegetarian => IsVegetarian(food)
       /\ Wanted(i).maxToppings >= 0 => Cardinality(food.ingredients) <= 3 + Wanted(i).maxToppings
       /\ CalculateCalories(food) > Wanted(i).maxCalories
            => request[stored[i].request].attempt = GenerationAttempts

\* A client's retries may leave several rows behind, but at most one per try:
\* one at most when retries are off, and none when no try was made.
OneRowPerTry ==
  \A r \in Requests :
    Cardinality({i \in DOMAIN stored : stored[i].request = r}) <= request[r].tries

\* The id answered with a 200 is that of the client's own food, as long as the
\* row is among the newest.
AnsweredFoodIsOwn ==
  \A r \in Requests :
    request[r].status = 200 =>
      \/ MaxFoods > 0 /\ request[r].id <= lastFood - MaxFoods
      \/ /\ request[r].id \in DOMAIN stored
         /\ stored[request[r].id].request = r
         /\ stored[request[r].id].food = request[r].food

\* Every request is answered, whatever the catalog does with its calls.
EveryRequestAnswered == \A r \in Requests : <>(request[r].pc = "answered")

=============================================================================
